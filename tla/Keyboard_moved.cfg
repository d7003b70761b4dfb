SPECIFICATION Spec
CONSTANTS
  Boards = {"b1"}
  Mods <- Shift
  SlotKeys = {"kp", "rs"}
  Slots = 2
  Code <- CodeOf
  Gens = 2
  Rollovers = "few"
  Depth = 2
INVARIANTS
  MovedRowIsDown
