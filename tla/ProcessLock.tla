----------------------------- MODULE ProcessLock -----------------------------
(****************************************************************************)
(* dnf/lock.py: the pid-file lock that serialises dnf processes.            *)
(*                                                                          *)
(* Every process owns one ProcessLock object for the target path; its       *)
(* threads share the object's RLock (`thread_lock') and its `count'.  The   *)
(* path names at most one inode; os.unlink removes the name, while the      *)
(* inode lives on in the processes that have it open.  One action is one    *)
(* system call of _try_lock, so that processes interleave between the open, *)
(* the flock, the read, the write and the close.                            *)
(****************************************************************************)
EXTENDS Naturals

CONSTANTS
  Process,          \* process ids
  Thread,           \* threads of all the processes
  Pid,              \* Pid[t] is the process of thread t
  Inode,            \* files the directory can hold
  BlockingProc,     \* processes whose lock was built with exit_on_lock = False
  InitContent,      \* what a pid file left by an earlier boot may contain
  MaxCount,         \* bound on the nesting of `with` blocks of one lock
  PidReuse,         \* may a new process get the pid of a terminated one?
  LateOpenerDeath,  \* may a process terminate while another still has open
                    \* an unlinked pid file that names it?
  Empty,            \* content of a new or truncated file
  Garbage,          \* content that int() refuses
  NoInode,          \* the path names no file; no descriptor
  NoThread,         \* the RLock is free
  Busy,             \* _try_lock returned -1
  Malformed         \* _try_lock raised LockError

ASSUME PidAssumption == Pid \in [Thread -> Process]
ASSUME ContentAssumption ==
  /\ Empty \notin Process /\ Garbage \notin Process /\ Empty # Garbage
  /\ InitContent \subseteq Process \cup {Empty, Garbage}
ASSUME ResultAssumption ==
  Busy \notin Process /\ Malformed \notin Process /\ Busy # Malformed
ASSUME NullAssumption == NoInode \notin Inode /\ NoThread \notin Thread
ASSUME BoundAssumption ==
  /\ MaxCount \in Nat \ {0}
  /\ BlockingProc \subseteq Process
  /\ PidReuse \in BOOLEAN /\ LateOpenerDeath \in BOOLEAN

VARIABLES
  alive,     \* processes for which /proc/<pid>/stat exists
  target,    \* the inode the lock path names
  content,   \* what each inode contains
  fd,        \* the descriptor `fd' of _try_lock, as the inode it refers to
  flocked,   \* threads whose descriptor holds the flock of its inode
  pc,        \* where each thread is in __enter__
  ret,       \* the result of the current _try_lock
  owner,     \* the thread that holds the process's RLock
  count,     \* self.count of the process's lock object
  depth      \* `with` blocks of this lock the thread is inside

vars == <<alive, target, content, fd, flocked, pc, ret, owner, count, depth>>
local == <<owner, count, depth>>

Content == Process \cup {Empty, Garbage}
Opened == {"flock", "read", "truncate", "write", "close"}
Where == {"out", "open", "sleep"} \cup Opened

------------------------------------------------------------------------------
Init ==
  /\ alive \in SUBSET Process
  /\ \/ /\ target = NoInode
        /\ content = [i \in Inode |-> Empty]
     \/ \E i \in Inode, c \in InitContent :
          /\ target = i
          /\ content = [j \in Inode |-> IF j = i THEN c ELSE Empty]
  /\ fd = [t \in Thread |-> NoInode]
  /\ flocked = {}
  /\ pc = [t \in Thread |-> "out"]
  /\ ret = [t \in Thread |-> Busy]
  /\ owner = [p \in Process |-> NoThread]
  /\ count = [p \in Process |-> 0]
  /\ depth = [t \in Thread |-> 0]

Goto(t, where) == pc' = [pc EXCEPT ![t] = where]

\* _try_lock leaves its `try' body with the result r; `finally' is next.
Return(t, r) == Goto(t, "close") /\ ret' = [ret EXCEPT ![t] = r]

\* Deviation: the RLock does not exclude the siblings.
EnterAnyThread(t) ==
  LET p == Pid[t] IN
  /\ p \in alive /\ pc[t] = "out"
  /\ count[p] < MaxCount
  /\ owner' = [owner EXCEPT ![p] = t]
  /\ count' = [count EXCEPT ![p] = @ + 1]
  /\ Goto(t, "open")
  /\ UNCHANGED <<alive, target, content, fd, flocked, ret, depth>>

\* __enter__ and _lock_thread.  A thread that finds the RLock taken by a
\* sibling gets ThreadLockError and changes nothing.
Enter(t) ==
  LET p == Pid[t] IN
  /\ p \in alive /\ pc[t] = "out"
  /\ owner[p] \in {NoThread, t}
  /\ count[p] < MaxCount
  /\ owner' = [owner EXCEPT ![p] = t]
  /\ count' = [count EXCEPT ![p] = @ + 1]
  /\ Goto(t, "open")
  /\ UNCHANGED <<alive, target, content, fd, flocked, ret, depth>>

\* An inode that can be given out: nameless and closed everywhere.
Free(i) == i # target /\ \A u \in Thread : fd[u] # i

\* os.open(target, O_CREAT | O_RDWR) of the file that is there ...
OpenExisting(t) ==
  /\ pc[t] = "open" /\ target # NoInode
  /\ fd' = [fd EXCEPT ![t] = target]
  /\ Goto(t, "flock")
  /\ UNCHANGED <<alive, target, content, flocked, ret, local>>

\* ... or of a file it creates.
OpenNew(t) ==
  /\ pc[t] = "open" /\ target = NoInode
  /\ \E i \in Inode :
       /\ Free(i)
       /\ target' = i
       /\ content' = [content EXCEPT ![i] = Empty]
       /\ fd' = [fd EXCEPT ![t] = i]
  /\ Goto(t, "flock")
  /\ UNCHANGED <<alive, flocked, ret, local>>

\* Deviation: a shared lock, which never blocks.
FlockShared(t) ==
  /\ pc[t] = "flock"
  /\ flocked' = flocked \cup {t} /\ Goto(t, "read")
  /\ UNCHANGED <<alive, target, content, fd, ret, local>>

\* fcntl.flock(fd, LOCK_EX | LOCK_NB); EWOULDBLOCK makes _try_lock return -1.
Flock(t) ==
  /\ pc[t] = "flock"
  /\ IF \E u \in flocked : fd[u] = fd[t]
     THEN Return(t, Busy) /\ UNCHANGED flocked
     ELSE flocked' = flocked \cup {t} /\ Goto(t, "read") /\ UNCHANGED ret
  /\ UNCHANGED <<alive, target, content, fd, local>>

\* Deviation: every foreign pid is taken for a dead one ...
ReadAllDead(t) ==
  LET old == content[fd[t]] IN
  /\ pc[t] = "read"
  /\ \/ old = Empty /\ Goto(t, "write") /\ UNCHANGED ret
     \/ old = Garbage /\ Return(t, Malformed)
     \/ old = Pid[t] /\ Return(t, old)
     \/ old \in Process \ {Pid[t]} /\ Goto(t, "truncate") /\ UNCHANGED ret
  /\ UNCHANGED <<alive, target, content, fd, flocked, local>>

\* ... or for a live one.
ReadAllAlive(t) ==
  LET old == content[fd[t]] IN
  /\ pc[t] = "read"
  /\ \/ old = Empty /\ Goto(t, "write") /\ UNCHANGED ret
     \/ old = Garbage /\ Return(t, Malformed)
     \/ old \in Process /\ Return(t, old)
  /\ UNCHANGED <<alive, target, content, fd, flocked, local>>

\* os.read and the branches on what it returned, /proc lookup included.
Read(t) ==
  LET old == content[fd[t]] IN
  /\ pc[t] = "read"
  /\ \/ old = Empty /\ Goto(t, "write") /\ UNCHANGED ret
     \/ old = Garbage /\ Return(t, Malformed)
     \/ old \in Process /\ (old = Pid[t] \/ old \in alive) /\ Return(t, old)
     \/ /\ old \in Process /\ old # Pid[t] /\ old \notin alive
        /\ Goto(t, "truncate") /\ UNCHANGED ret
  /\ UNCHANGED <<alive, target, content, fd, flocked, local>>

\* "locked by a dead process": os.lseek and os.ftruncate.
Truncate(t) ==
  /\ pc[t] = "truncate"
  /\ content' = [content EXCEPT ![fd[t]] = Empty]
  /\ Goto(t, "write")
  /\ UNCHANGED <<alive, target, fd, flocked, ret, local>>

\* os.write of our pid.
Write(t) ==
  /\ pc[t] = "write"
  /\ content' = [content EXCEPT ![fd[t]] = Pid[t]]
  /\ Return(t, Pid[t])
  /\ UNCHANGED <<alive, target, fd, flocked, local>>

\* __enter__'s reaction to the result of _try_lock: the four ways on.
Entered(t) ==
  /\ ret[t] = Pid[t]
  /\ depth' = [depth EXCEPT ![t] = @ + 1]
  /\ Goto(t, "out")
  /\ UNCHANGED <<owner, count>>

\* LockError propagates past _unlock_thread: RLock and count stay taken.
RaiseLockError(t) ==
  /\ ret[t] = Malformed
  /\ Goto(t, "out")
  /\ UNCHANGED local

UnlockThread(p) ==
  /\ count' = [count EXCEPT ![p] = @ - 1]
  /\ owner' = [owner EXCEPT ![p] = IF count[p] = 1 THEN NoThread ELSE @]

\* Deviation: the error is raised with the RLock and the count still taken.
RaiseStillLocked(t) ==
  /\ ret[t] \in Process \ {Pid[t]} /\ Pid[t] \notin BlockingProc
  /\ Goto(t, "out")
  /\ UNCHANGED local

RaiseProcessLockError(t) ==
  /\ ret[t] \in Process \ {Pid[t]} /\ Pid[t] \notin BlockingProc
  /\ UnlockThread(Pid[t])
  /\ Goto(t, "out")
  /\ UNCHANGED depth

SleepBeforeRetry(t) ==
  /\ \/ ret[t] = Busy
     \/ ret[t] \in Process \ {Pid[t]} /\ Pid[t] \in BlockingProc
  /\ Goto(t, "sleep")
  /\ UNCHANGED local

\* os.close(fd) drops the flock; then __enter__ looks at the result.
Close(t) ==
  /\ pc[t] = "close"
  /\ fd' = [fd EXCEPT ![t] = NoInode]
  /\ flocked' = flocked \ {t}
  /\ ret' = [ret EXCEPT ![t] = Busy]
  /\ \/ Entered(t)
     \/ RaiseLockError(t)
     \/ RaiseProcessLockError(t)
     \/ SleepBeforeRetry(t)
  /\ UNCHANGED <<alive, target, content>>

\* time.sleep(1) is over.
Wake(t) ==
  /\ pc[t] = "sleep"
  /\ Goto(t, "open")
  /\ UNCHANGED <<alive, target, content, fd, flocked, ret, local>>

\* Deviation: every __exit__ unlinks, the nested one too.
ExitInnerUnlinks(t) ==
  /\ pc[t] = "out" /\ depth[t] > 0 /\ count[Pid[t]] # 1
  /\ depth' = [depth EXCEPT ![t] = @ - 1]
  /\ target' = NoInode
  /\ UnlockThread(Pid[t])
  /\ UNCHANGED <<alive, content, fd, flocked, pc, ret>>

\* __exit__ of a nested block.
ExitInner(t) ==
  /\ pc[t] = "out" /\ depth[t] > 0 /\ count[Pid[t]] # 1
  /\ depth' = [depth EXCEPT ![t] = @ - 1]
  /\ UnlockThread(Pid[t])
  /\ UNCHANGED <<alive, target, content, fd, flocked, pc, ret>>

\* __exit__ of the outermost block: os.unlink of whatever the path names now.
\* FileNotFoundError leaves the RLock and the count taken.
ExitOuter(t) ==
  /\ pc[t] = "out" /\ depth[t] > 0 /\ count[Pid[t]] = 1
  /\ depth' = [depth EXCEPT ![t] = @ - 1]
  /\ target' = NoInode
  /\ IF target = NoInode THEN UNCHANGED <<owner, count>> ELSE UnlockThread(Pid[t])
  /\ UNCHANGED <<alive, content, fd, flocked, pc, ret>>

\* The process ends, wherever its threads are: the kernel closes descriptors.
Terminate(p) ==
  /\ p \in alive
  /\ ~LateOpenerDeath =>
       \A t \in Thread :
         fd[t] \in Inode \ {target} /\ Pid[t] # p => content[fd[t]] # p
  /\ alive' = alive \ {p}
  /\ fd' = [t \in Thread |-> IF Pid[t] = p THEN NoInode ELSE fd[t]]
  /\ flocked' = {t \in flocked : Pid[t] # p}
  /\ pc' = [t \in Thread |-> IF Pid[t] = p THEN "out" ELSE pc[t]]
  /\ ret' = [t \in Thread |-> IF Pid[t] = p THEN Busy ELSE ret[t]]
  /\ owner' = [owner EXCEPT ![p] = NoThread]
  /\ count' = [count EXCEPT ![p] = 0]
  /\ depth' = [t \in Thread |-> IF Pid[t] = p THEN 0 ELSE depth[t]]
  /\ UNCHANGED <<target, content>>

\* A new process starts under this pid.
Start(p) ==
  /\ PidReuse
  /\ p \notin alive
  /\ alive' = alive \cup {p}
  /\ UNCHANGED <<target, content, fd, flocked, pc, ret, local>>

TryStep(t) ==
  \/ OpenExisting(t) \/ OpenNew(t) \/ Flock(t) \/ Read(t)
  \/ Truncate(t) \/ Write(t) \/ Close(t) \/ Wake(t)

Next ==
  \/ \E t \in Thread : Enter(t) \/ TryStep(t) \/ ExitInner(t) \/ ExitOuter(t)
  \/ \E p \in Process : Terminate(p) \/ Start(p)

Spec == Init /\ [][Next]_vars

\* The operating system schedules every thread that is inside __enter__; the
\* body of a block need not end, nor a process terminate.
Fairness == \A t \in Thread : WF_vars(TryStep(t))

FairSpec == Spec /\ Fairness

------------------------------------------------------------------------------
\* Every variable has the type the code gives it.
TypeOK ==
  /\ alive \subseteq Process
  /\ target \in Inode \cup {NoInode}
  /\ content \in [Inode -> Content]
  /\ fd \in [Thread -> Inode \cup {NoInode}]
  /\ flocked \subseteq Thread
  /\ pc \in [Thread -> Where]
  /\ ret \in [Thread -> Process \cup {Busy, Malformed}]
  /\ owner \in [Process -> Thread \cup {NoThread}]
  /\ count \in [Process -> Nat]
  /\ depth \in [Thread -> Nat]

Holds(t) == depth[t] > 0

\* `with lock' excludes: no two threads, of one process or of two, are inside
\* a block of the same target (lock.py:125-147).
MutualExclusion == \A t, u \in Thread : Holds(t) /\ Holds(u) => t = u

\* While a block runs, the path still names a file with the holder's pid, so
\* that whoever opens it next learns who holds the lock (lock.py:84-117 and
\* the unlink at 146, which removes whatever is there).
HolderIsNamed ==
  \A t \in Thread : Holds(t) => target # NoInode /\ content[target] = Pid[t]

\* A live process is named by the lock file only while it holds the lock or is
\* about to: the unlink of the outermost __exit__ is never forgotten, whatever
\* the nesting (lock.py:144-147).
NoStrayLock ==
  target # NoInode /\ content[target] \in alive =>
    \E t \in Thread :
      Pid[t] = content[target] /\ (Holds(t) \/ pc[t] = "close")

\* The threads of one process never share a block, even when the exclusion of
\* processes is lost: the RLock is counted and given back consistently
\* (lock.py:73-77, 121-123, 129-147).
SiblingExclusion ==
  \A t, u \in Thread : Pid[t] = Pid[u] /\ Holds(t) /\ Holds(u) => t = u

\* A pid is replaced in a file only by the process that found its owner dead,
\* and the owner is still dead when the file is written: the decision of
\* lock.py:109 is not stale at 112-113 as long as pids are not reused.
TakenOnlyFromDead ==
  [][\A i \in Inode :
       content[i] \in Process /\ content'[i] # content[i] =>
         content[i] \notin alive \/ (i # target /\ target' = i)]_vars

\* The pid file of a process that died while it held the lock does not lock
\* the others out: once somebody tries, somebody gets in or all give up
\* (lock.py:109-114), although every contender polls with LOCK_NB.
Trying == \E t \in Thread : pc[t] # "out" /\ ~Holds(t)
Progress == Trying ~> ((\E t \in Thread : Holds(t)) \/ ~Trying)

\* The lock keeps the abstract promise.
Promise == INSTANCE LockPromise WITH inside <- {Pid[t] : t \in {u \in Thread : Holds(u)}}
KeepsPromise == Promise!Spec
==============================================================================
