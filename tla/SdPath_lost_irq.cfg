SPECIFICATION FairSpec
CONSTANTS
  Drives = {A}
  Sectors = {1}
  AppOps <- NoAppOps
  Upsets = {"hid"}
PROPERTY
  IdeServed
