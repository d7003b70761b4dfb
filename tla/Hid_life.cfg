SPECIFICATION FairSpec
CONSTANTS
  Minors = {"m0", "m1"}
  Classes = {"c1", "c2"}
  Threads = {"t1", "t2"}
  Kinds = {"mouse", "joystick"}
  Urb = 1
  Ctl = 1
  Parse = 1
  StopWait = 2
  RunWait = 1
INVARIANTS
  TypeOK
  NoUseAfterFree
  FindsNone
  SlotsHeld
PROPERTIES
  Served
  MouseTold
