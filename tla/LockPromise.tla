----------------------------- MODULE LockPromise -----------------------------
(****************************************************************************)
(* What dnf/lock.py promises the code that writes `with lock:`, with no     *)
(* pid file, no descriptor and no thread in it: a set of processes, at most *)
(* one of which is inside the guarded block.                                *)
(****************************************************************************)
CONSTANT Process

VARIABLE inside      \* processes executing the body of a `with` block

\* Nobody holds the lock when the system comes up.
Init == inside = {}

\* __enter__ returns in process p.
Acquire(p) == inside = {} /\ inside' = {p}

\* p leaves its outermost block, or terminates inside it.
Leave(p) == p \in inside /\ inside' = inside \ {p}

Next == \E p \in Process : Acquire(p) \/ Leave(p)

Spec == Init /\ [][Next]_inside
==============================================================================
