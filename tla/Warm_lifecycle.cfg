CONSTANTS
  None = None
  Cmd = {w, a, b, c}
  Command = {"start", "status", "stop"}
  Fallen = {w}
  Faults = {"crash", "io", "exit"}
  MaxTab = 0
  MaxDoc = 0
SYMMETRY Symmetric
SPECIFICATION Spec
INVARIANTS Accounted OneBrowser NoSecondOwner LiveStartKept
CHECK_DEADLOCK FALSE
