SPECIFICATION Spec
CONSTANTS
  Drives = {A}
  Sectors = {1}
  AppOps <- AppOpNames
  Upsets <- UpsetNames
INVARIANTS
  TypeOK
  MenuReadsItsSector
