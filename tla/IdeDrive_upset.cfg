SPECIFICATION Spec
CONSTANTS
  Words = 1
  MaxLba = 1
  Geometries <- GeoTall
  Geometry <- Tall
  Modes = {"chs"}
  MaxCount = 2
  Ops = {"READ", "WRITE"}
  WProt = {FALSE}
  Upsets = {"drop"}
INVARIANT
  OneSectorRight
