SPECIFICATION Spec
CONSTANTS
  Drives = {A}
  Sectors = {1}
  AppOps = {"write"}
  Upsets <- NoUpsets
INVARIANT
  OneEnd
