CONSTANTS
  None = None
  Nil = None
  Nothing = None
  Worktree = {}
  Bytes = {}
  Checkout = {c1}
  Source = {s1}
  Version = {v1}
  Faults = {}
  Proc = {a}
  Run = {r}
  Payload = {p1}
  LaunchFaults = {}
  Tag = {t1, t2}
  Content = {x}
  Rest = {z, w}
  Gone = Gone
  UpdateFaults = {"fail"}
  Origin = {x}
  Item = {s1}
  LastDoc = 0
  Lies = {}
SYMMETRY Symmetric
SPECIFICATION HostSpec
INVARIANTS UnrestorableBlocked
CHECK_DEADLOCK FALSE
