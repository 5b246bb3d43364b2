CONSTANTS
  None = None
  Result = {0, 1, 2}
  Rest = {m1}
  Pane = {n1, n2, n3, n4}
  Session = {s1, s2}
  Proc = {p1}
  Settings = {{"run", "respond", "resume", "review", "decide", "repair", "lost", "dropped", "reject", "crash", "reblock"},
              {"run", "resume", "review", "decide", "repair", "lost", "crash", "breach", "session", "edit"},
              {"run", "review", "cleanup", "crash", "lost", "close", "dropped"},
              {"run", "resume", "cleanup", "crash", "lost", "close", "dropped"},
              {"run", "resume", "review", "cleanup", "crash", "lost"}}
  MaxSent = 2
SYMMETRY Symmetric
SPECIFICATION Spec
INVARIANTS TypeOK WriteAhead AtMostOnce OutcomeBound CleanedClosesAll
PROPERTIES ReadableBesides NothingTakenBack LedgerSpec
CHECK_DEADLOCK FALSE
