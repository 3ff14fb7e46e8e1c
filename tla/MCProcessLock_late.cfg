SPECIFICATION Spec
CONSTANTS
  Process = {a, b, c}
  Thread = {a1, b1, c1}
  Inode = {i1, i2, i3}
  BlockingProc = {b}
  InitContent = {Empty}
  MaxCount = 1
  PidReuse = FALSE
  LateOpenerDeath = TRUE
  a = a
  b = b
  c = c
  a1 = a1
  a2 = a2
  b1 = b1
  c1 = c1
  Pid <- MCPid
  Empty = Empty
  Garbage = Garbage
  NoInode = NoInode
  NoThread = NoThread
  Busy = Busy
  Malformed = Malformed
INVARIANT MutualExclusion
SYMMETRY InodeSymmetry
CHECK_DEADLOCK FALSE
