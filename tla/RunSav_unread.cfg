SPECIFICATION Spec
CONSTANTS
  Drives = {"A", "B"}
  Fdd0 = "A"
  Files = {"SAV", "G"}
  Sav = "SAV"
  Missing = {"X"}
  Fragmented = {}
  Unreadable = {"G"}
  Sharing = FALSE
  Bases <- AllBases
  Candidates <- Names
  Sizes = {1, 2}
  Room = 4
  Lines = 2
INVARIANT WalksTable
