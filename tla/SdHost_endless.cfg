SPECIFICATION FairSpec
CONSTANTS
  Sectors = {1, 2}
  Elsewhere = Elsewhere
  None = None
  Ops = {"read", "write"}
  Faults <- Endless
  MaxFaults = 1
PROPERTY
  OrderEnds
