SPECIFICATION FairSpec
CONSTANTS
  Process = {a, b}
  Thread = {a1, a2, b1}
  Inode = {i1, i2, i3}
  BlockingProc = {b}
  InitContent = {Empty, Garbage}
  MaxCount = 2
  PidReuse = FALSE
  LateOpenerDeath = FALSE
  a = a
  b = b
  c = c
  a1 = a1
  a2 = a2
  b1 = b1
  c1 = c1
  Pid <- MCPid
  Empty = Empty
  Garbage = Garbage
  NoInode = NoInode
  NoThread = NoThread
  Busy = Busy
  Malformed = Malformed
INVARIANT SiblingExclusion
INVARIANT NoStrayLock
PROPERTY TakenOnlyFromDead
PROPERTY Progress
CHECK_DEADLOCK FALSE
