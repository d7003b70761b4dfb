SPECIFICATION FairSpec
CONSTANTS
  Sectors = {1, 2}
  Elsewhere = Elsewhere
  None = None
  Ops = {"read", "write"}
  Faults = {"slow", "lost", "echo"}
  MaxFaults = 3
PROPERTY
  KeepsContract
