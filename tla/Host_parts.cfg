CONSTANTS
  None = None
  Nil = None
  Nothing = None
  Checkout = {c1, c2}
  Worktree = {c1, c2}
  Bytes = {x, y}
  Source = {s1, s2}
  Version = {v1, v2}
  Faults = {"crash", "fail", "moved"}
  Proc = {c1, c2}
  Run = {r, s}
  Payload = {p1, p2}
  LaunchFaults = {"tamper"}
  Tag = {c1, c2}
  Content = {x, y}
  Rest = {z}
  Gone = Gone
  UpdateFaults = {"crash", "fail", "stale", "moved"}
  Origin = {x, y}
  Item = {s1, s2}
  LastDoc = 1
  Lies = {"stale", "version", "flips", "forgets", "keeps", "idle"}
SYMMETRY Symmetric
SPECIFICATION HostSpec
INVARIANTS HostTypeOK TakenIsCaptured UpdateHonest RestorationExact
  DeliveryExact BlockedUnchanged ProofSound
PROPERTIES RestoreRecovers OthersKept RemovesOnlyProven LaunchedVerified
  DevInstalledExact
CHECK_DEADLOCK FALSE
