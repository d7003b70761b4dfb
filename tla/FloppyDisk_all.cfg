SPECIFICATION FairSpec
CONSTANTS
  Sides = {0, 1}
  Tracks = 2
  Sectors = 2
  Words = 2
  Lead = 1
  Gap = 2
  Latency = 2
  Written <- First
  Others = TRUE
INVARIANTS
  TypeOK
  FreshSector
  WholeSector
PROPERTY
  ReadEnds
