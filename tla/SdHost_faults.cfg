SPECIFICATION Spec
CONSTANTS
  Sectors = {1, 2}
  Elsewhere = Elsewhere
  None = None
  Ops = {"read", "write"}
  Faults <- AllButOcr
  MaxFaults = 7
INVARIANTS
  TypeOK
  NoContention
  AddressingRight
