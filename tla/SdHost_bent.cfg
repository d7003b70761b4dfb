SPECIFICATION Spec
CONSTANTS
  Sectors = {1, 2}
  Elsewhere = Elsewhere
  None = None
  Ops = {"read"}
  Faults = {"bent"}
  MaxFaults = 1
INVARIANT
  ReadGetsItsSector
