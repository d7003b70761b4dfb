SPECIFICATION Spec
CONSTANTS
  Words = 2
  MaxLba = 2
  Geometries <- GeoSmall
  Geometry <- Small
  Modes = {"chs"}
  MaxCount = 2
  Ops = {"READ", "WRITE"}
  WProt = {FALSE}
  Upsets = {"race", "reset"}
INVARIANT
  FillsOther
