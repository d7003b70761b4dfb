SPECIFICATION Spec
CONSTANTS
  Sides = {0}
  Tracks = 2
  Sectors = 2
  Words = 2
  Lead = 1
  Gap = 2
  Latency = 2
  Written <- Nowhere
  Others = TRUE
INVARIANT
  RightSector
