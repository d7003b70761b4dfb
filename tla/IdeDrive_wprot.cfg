SPECIFICATION Spec
CONSTANTS
  Words = 2
  MaxLba = 2
  Geometries <- GeoSmall
  Geometry <- Small
  Modes = {"chs"}
  MaxCount = 1
  Ops = {"WRITE"}
  WProt = {TRUE, FALSE}
  Upsets = {"race", "prot"}
INVARIANT
  WriteLands
