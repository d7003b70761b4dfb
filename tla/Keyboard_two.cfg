SPECIFICATION Spec
CONSTANTS
  Boards = {"b1", "b2"}
  Mods <- None0
  SlotKeys = {"kp", "rs"}
  Slots = 2
  Code <- CodeOf
  Gens = 2
  Rollovers = "few"
  Depth = 2
PROPERTIES
  LegalStream
