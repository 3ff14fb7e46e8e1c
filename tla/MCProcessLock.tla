---------------------------- MODULE MCProcessLock ----------------------------
(* Small instances of ProcessLock.                                         *)
EXTENDS ProcessLock, TLC

CONSTANTS a, b, c, a1, a2, b1, c1

\* One thread in b and c, two in a (the logging handler's case).
PidMap == (a1 :> a) @@ (a2 :> a) @@ (b1 :> b) @@ (c1 :> c)
MCPid == [t \in Thread |-> PidMap[t]]

\* Inodes are interchangeable (used by the runs that check safety only).
InodeSymmetry == Permutations(Inode)
==============================================================================
