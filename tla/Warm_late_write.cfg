CONSTANTS
  None = None
  Cmd = {w, a, b, c, d}
  Command = {"snapshot", "stop", "start"}
  Fallen = {w}
  Faults = {}
  MaxTab = 0
  MaxDoc = 0
SYMMETRY Symmetric
SPECIFICATION Spec
INVARIANTS AccountedAtRest
CHECK_DEADLOCK FALSE
