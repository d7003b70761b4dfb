SPECIFICATION Spec
CONSTANTS
  Drives = {A}
  Sectors = {1}
  AppOps = {"read"}
  Upsets <- NoUpsets
INVARIANT
  IdeMovesItsSector
