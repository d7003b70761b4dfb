SPECIFICATION Spec
CONSTANTS
  Words = 2
  MaxLba = 2
  Geometries <- GeoSmall
  Geometry <- Small
  Modes = {"chs"}
  MaxCount = 2
  Ops = {"READ"}
  WProt = {FALSE}
  Upsets = {"race", "drop"}
INVARIANT
  OneSectorRead
