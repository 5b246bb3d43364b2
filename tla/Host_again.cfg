CONSTANTS
  None = None
  Nil = None
  Nothing = None
  Worktree = {}
  Bytes = {}
  Checkout = {c1, c2}
  Source = {s1}
  Version = {v1, v2}
  Faults = {"crash", "again"}
  Proc = {a, b}
  Run = {r, s}
  Payload = {p1, p2}
  LaunchFaults = {}
  Tag = {t1}
  Content = {x}
  Rest = {z}
  Gone = Gone
  UpdateFaults = {}
  Origin = {x}
  Item = {s1}
  LastDoc = 0
  Lies = {}
SPECIFICATION HostSpec
INVARIANTS TakenIsCaptured
CHECK_DEADLOCK FALSE
