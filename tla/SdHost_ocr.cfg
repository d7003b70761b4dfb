SPECIFICATION Spec
CONSTANTS
  Sectors = {1, 2}
  Elsewhere = Elsewhere
  None = None
  Ops = {"read", "write"}
  Faults <- Ocr
  MaxFaults = 1
INVARIANT
  AddressingRight
