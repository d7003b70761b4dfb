SPECIFICATION Spec
CONSTANTS
  Words = 2
  MaxLba = 2
  Geometries <- GeoBoth
  Geometry <- Small
  Modes = {"chs"}
  MaxCount = 3
  Ops = {"READ", "SETCFG"}
  WProt = {FALSE}
  Upsets = {"race", "reset"}
INVARIANTS
  TypeOK
  ReadDelivers
