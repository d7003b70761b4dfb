SPECIFICATION Spec
CONSTANTS
  Bases <- SmallBases
  Candidates <- Names
  Sizes = {1, 2}
  Room = 4
  Lines = 2
INVARIANTS
  TypeOK
  OthersKept
  BuiltRight
  AreasFill
CHECK_DEADLOCK FALSE
