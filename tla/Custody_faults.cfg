CONSTANTS
  w = w
  v = v
  a = a
  b = b
  c = c
  None = None
  Proc = {w, a, b}
  Fallen = {w}
  HostOf <- OneHost
  Approved = {}
  Faults = {"crash", "io", "net", "tamper"}
  Inode = {i1, i2, i3}
  MaxAttempts = 3
SYMMETRY Symmetric
VIEW Future
SPECIFICATION Spec
INVARIANTS LockOwned HonestSuccess
PROPERTIES LiveStagingKept ValidBlobKept StoreSpec
CHECK_DEADLOCK FALSE
