CONSTANTS
  None = None
  Result = {0, 1, 2}
  Rest = {m1}
  Pane = {n1, n2, n3, n4}
  Session = {s1}
  Proc = {p1}
  Settings = {{"run", "respond", "resume", "reblock"}}
  MaxSent = 2
SYMMETRY Symmetric
SPECIFICATION Spec
INVARIANTS ResumableAfterAnswer
CHECK_DEADLOCK FALSE
