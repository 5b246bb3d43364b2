CONSTANTS
  w = w
  v = v
  a = a
  b = b
  c = c
  None = None
  Proc = {w, v, a, b}
  Fallen = {w, v}
  HostOf <- TwoHosts
  Approved = {b}
  Faults = {}
  Inode = {i1, i2, i3}
  MaxAttempts = 1
SPECIFICATION FairSpec
INVARIANTS RenameConfirmed RepairConverges
PROPERTIES OnlyOwnerReleases RunsEnd
CHECK_DEADLOCK FALSE
