SPECIFICATION Spec
CONSTANTS
  Sectors = {1, 2}
  Elsewhere = Elsewhere
  None = None
  Ops = {"write"}
  Faults = {"deaf"}
  MaxFaults = 1
PROPERTY
  NoWriteRetry
