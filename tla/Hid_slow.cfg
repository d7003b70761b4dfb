SPECIFICATION Spec
CONSTANTS
  Minors = {"m0"}
  Classes = {"c1", "c2"}
  Threads = {"t1", "t2"}
  Kinds = {"mouse", "joystick"}
  Urb = 2
  Ctl = 1
  Parse = 4
  StopWait = 3
  RunWait = 1
INVARIANTS
  NoUseAfterFree
