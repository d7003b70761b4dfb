SPECIFICATION FairSpec
CONSTANTS
  Words = 2
  MaxLba = 1
  Geometries <- GeoTall
  Geometry <- Tall
  Modes = {"chs", "lba"}
  MaxCount = 2
  Ops = {"READ", "WRITE", "IDENT"}
  WProt = {TRUE, FALSE}
  Upsets = {"race"}
INVARIANTS
  TransfersAsOrdered
  QuietWhenReady
PROPERTY
  CommandEnds
