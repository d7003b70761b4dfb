SPECIFICATION FairSpec
CONSTANTS
  Drives = {A}
  Sectors = {1, 2}
  AppOps <- NoAppOps
  Upsets <- NoUpsets
INVARIANTS
  OneEnd
  IdeMovesItsSector
  FloppyGetsItsSector
PROPERTIES
  RequestsServed
  OwnerReturns
