CONSTANTS
  p1 = p1
  p2 = p2
  t1 = t1
  t2 = t2
  t3 = t3
  i1 = i1
  i2 = i2
  i3 = i3
  NoInode = NoInode
  NoProcess = NoProcess
  NoThread = NoThread
  Processes = {p1, p2}
  Threads = {t1, t2, t3}
  ProcessOf <- TwoAndOne
  Inodes = {i1, i2, i3}
  Preexisting = FALSE
  Timeout = TRUE
  SpuriousWakeups = TRUE
SPECIFICATION FairSpec
INVARIANTS
  HeldLockIsReal
  ExclusiveUntilReplaced
PROPERTIES
  LockSpec
  Served
