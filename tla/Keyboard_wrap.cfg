SPECIFICATION Spec
CONSTANTS
  Boards = {"b1"}
  Mods <- Shift
  SlotKeys = {"kp", "kp2"}
  Slots = 2
  Code <- CodeOf
  Gens = 2
  Rollovers = "any"
  Depth = 2
INVARIANTS
  HeldRowIsDown
