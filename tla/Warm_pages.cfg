CONSTANTS
  None = None
  Cmd = {w, a, b, c}
  Command = {"open", "adopt", "snapshot", "screenshot", "click", "login", "stop"}
  Fallen = {w}
  Faults = {"exit", "race"}
  MaxTab = 1
  MaxDoc = 1
SYMMETRY Symmetric
SPECIFICATION Spec
INVARIANT HitsIssuedPage
PROPERTIES NoReturn
CHECK_DEADLOCK FALSE
