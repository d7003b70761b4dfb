SPECIFICATION Spec
CONSTANTS
  Drives = {A}
  Sectors = {1, 2}
  AppOps <- NoAppOps
  Upsets = {"motor"}
INVARIANT
  WritesStayInTheirImage
