SPECIFICATION FairSpec
CONSTANTS
  Boards = {"b1"}
  Mods <- Shifts
  SlotKeys = {"kp"}
  Slots = 2
  Code <- CodeOf
  Gens = 2
  Rollovers = "few"
  Depth = 2
INVARIANTS
  TypeOK
  NothingStuck
  HeldRowIsDown
PROPERTIES
  LegalStream
  AllUpHeard
