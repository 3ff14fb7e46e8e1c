-------------------------- MODULE ProcessLockProofs --------------------------
(***************************************************************************)
(* What ProcessLock guarantees for every set of processes, threads and     *)
(* inodes.  The bookkeeping of the lock object (types, RLock, count) needs *)
(* no assumption.  The exclusion of processes needs one about the          *)
(* environment: no process terminates while another one has open an        *)
(* unlinked pid file that names it (~LateOpenerDeath).                     *)
(***************************************************************************)
EXTENDS ProcessLock, TLAPS

------------------------------------------------------------------------------
(* The invariant, part one: the lock object.                               *)

\* A thread inside __enter__ or inside a block owns the RLock of its process,
\* and the process is running.
OwnerInv ==
  \A t \in Thread :
    pc[t] # "out" \/ Holds(t) => Pid[t] \in alive /\ owner[Pid[t]] = t

\* self.count is never less than the entries it has to pay for.
CountInv ==
  \A t \in Thread :
    count[Pid[t]] >= depth[t] + (IF pc[t] = "out" THEN 0 ELSE 1)

ObjectInv == TypeOK /\ OwnerInv /\ CountInv

(* The invariant, part two: the pid file.                                  *)

DescriptorInv == \A t \in Thread : fd[t] # NoInode <=> pc[t] \in Opened

FlockInv ==
  /\ \A t \in flocked : pc[t] \in Opened \ {"flock"}
  /\ \A t \in Thread : pc[t] \in {"read", "truncate", "write"} => t \in flocked
  /\ \A t, u \in flocked : fd[t] = fd[u] => t = u

\* Between the decision to return our own pid and the close that ends
\* _try_lock, the path names the file we have locked, and it names us.
WinnerInv ==
  \A t \in Thread :
    pc[t] = "close" /\ ret[t] = Pid[t] =>
      t \in flocked /\ fd[t] = target /\ content[target] = Pid[t]

\* Whoever is about to overwrite a pid file works on the file the path names,
\* and nobody is inside a block.
WriterInv ==
  \A t \in Thread :
    pc[t] \in {"truncate", "write"} =>
      fd[t] = target /\ \A u \in Thread : ~Holds(u)

\* An unlinked file that is still open names a process that runs, and not the
\* process that has it open.
OrphanInv ==
  \A t \in Thread :
    fd[t] # NoInode /\ fd[t] # target =>
      content[fd[t]] \in alive /\ content[fd[t]] # Pid[t]

FileInv ==
  /\ DescriptorInv /\ FlockInv /\ HolderIsNamed
  /\ WinnerInv /\ WriterInv /\ OrphanInv

IInv == ObjectInv /\ FileInv

USE DEF Content, Opened, Where, Holds

------------------------------------------------------------------------------
\* The lock object starts unowned, with a count of zero.
LEMMA ObjectInit == Init => ObjectInv
  BY PidAssumption, NullAssumption, ContentAssumption, ResultAssumption
  DEF Init, ObjectInv, TypeOK, OwnerInv, CountInv

\* Every step keeps the RLock and the count consistent.
LEMMA ObjectStep == ObjectInv /\ [Next]_vars => ObjectInv'
<1>. SUFFICES ASSUME ObjectInv, [Next]_vars PROVE ObjectInv'
  OBVIOUS
<1>. USE PidAssumption, NullAssumption DEF ObjectInv, TypeOK, OwnerInv, CountInv
<1>1. ASSUME NEW t \in Thread, Enter(t) PROVE ObjectInv'
  BY <1>1 DEF Enter, Goto
<1>2. ASSUME NEW t \in Thread, OpenExisting(t) \/ OpenNew(t) PROVE ObjectInv'
  BY <1>2 DEF OpenExisting, OpenNew, Goto, local
<1>3. ASSUME NEW t \in Thread, Flock(t) PROVE ObjectInv'
  BY <1>3 DEF Flock, Goto, Return, local
<1>4. ASSUME NEW t \in Thread, Read(t) PROVE ObjectInv'
  BY <1>4 DEF Read, Goto, Return, local
<1>5. ASSUME NEW t \in Thread, Truncate(t) PROVE ObjectInv'
  BY <1>5 DEF Truncate, Goto, local
<1>6. ASSUME NEW t \in Thread, Write(t) PROVE ObjectInv'
  BY <1>6 DEF Write, Goto, Return, local
<1>7. ASSUME NEW t \in Thread, Close(t) PROVE ObjectInv'
  <2>. USE <1>7 DEF Close, Goto
  <2>1. CASE Entered(t)
    BY <2>1 DEF Entered
  <2>2. CASE RaiseLockError(t)
    BY <2>2 DEF RaiseLockError, local
  <2>3. CASE RaiseProcessLockError(t)
    BY <2>3 DEF RaiseProcessLockError, UnlockThread
  <2>4. CASE SleepBeforeRetry(t)
    BY <2>4 DEF SleepBeforeRetry, local
  <2>. QED
    BY <2>1, <2>2, <2>3, <2>4
<1>8. ASSUME NEW t \in Thread, Wake(t) PROVE ObjectInv'
  BY <1>8 DEF Wake, Goto, local
<1>9. ASSUME NEW t \in Thread, ExitInner(t) PROVE ObjectInv'
  BY <1>9 DEF ExitInner, UnlockThread
<1>10. ASSUME NEW t \in Thread, ExitOuter(t) PROVE ObjectInv'
  BY <1>10 DEF ExitOuter, UnlockThread
<1>11. ASSUME NEW p \in Process, Terminate(p) PROVE ObjectInv'
  BY <1>11 DEF Terminate
<1>12. ASSUME NEW p \in Process, Start(p) PROVE ObjectInv'
  BY <1>12 DEF Start, local
<1>13. CASE UNCHANGED vars
  BY <1>13 DEF vars
<1>. QED
  BY <1>1, <1>2, <1>3, <1>4, <1>5, <1>6, <1>7, <1>8, <1>9, <1>10, <1>11,
     <1>12, <1>13 DEF Next, TryStep

\* The types of the lock object, the descriptors and the pid files are kept by
\* every system call of _try_lock, by __enter__, __exit__ and process death.
THEOREM TypeCorrect == Spec => []TypeOK
<1>1. ObjectInv => TypeOK
  BY DEF ObjectInv
<1>. QED
  BY ObjectInit, ObjectStep, <1>1, PTL DEF Spec

\* The RLock of lock.py:73-77 keeps the threads of one process apart, also when
\* the pid file fails to keep the processes apart.
THEOREM SiblingsExcluded == Spec => []SiblingExclusion
<1>1. ObjectInv => SiblingExclusion
  BY DEF ObjectInv, OwnerInv, SiblingExclusion
<1>. QED
  BY ObjectInit, ObjectStep, <1>1, PTL DEF Spec

------------------------------------------------------------------------------
\* The first pid file may be missing, empty, malformed or left by an earlier
\* boot; nobody has it open.
LEMMA FileInit == Init => FileInv
  BY PidAssumption, NullAssumption
  DEF Init, FileInv, DescriptorInv, FlockInv, HolderIsNamed, WinnerInv,
      WriterInv, OrphanInv

\* Two threads that own something of one process's lock are one thread.
LEMMA SoleOwner ==
  ASSUME ObjectInv, NEW t \in Thread, NEW u \in Thread, Pid[t] = Pid[u],
         pc[t] # "out" \/ Holds(t), pc[u] # "out" \/ Holds(u)
  PROVE  t = u
  BY DEF ObjectInv, OwnerInv

\* A pid file that names the holder names no other thread's process.
LEMMA SoleHolder ==
  ASSUME IInv, NEW t \in Thread, NEW u \in Thread, Holds(t), Holds(u)
  PROVE  t = u
  BY SoleOwner DEF IInv, FileInv, HolderIsNamed

\* Every step keeps the file invariant, given the environment's part.
LEMMA FileStep ==
  ASSUME ~LateOpenerDeath, IInv, [Next]_vars
  PROVE  FileInv'
<1>. USE PidAssumption, NullAssumption
     DEF IInv, ObjectInv, TypeOK, FileInv, DescriptorInv, FlockInv,
         HolderIsNamed, WinnerInv, WriterInv, OrphanInv
<1>1. ASSUME NEW t \in Thread, Enter(t) PROVE FileInv'
  BY <1>1 DEF Enter, Goto
<1>2. ASSUME NEW t \in Thread, OpenExisting(t) PROVE FileInv'
  BY <1>2 DEF OpenExisting, Goto, local
<1>3. ASSUME NEW t \in Thread, OpenNew(t) PROVE FileInv'
  BY <1>3 DEF OpenNew, Free, Goto, local
<1>4. ASSUME NEW t \in Thread, Flock(t) PROVE FileInv'
  BY <1>4, ResultAssumption DEF Flock, Goto, Return, local
<1>5. ASSUME NEW t \in Thread, Read(t) PROVE FileInv'
  BY <1>5, ContentAssumption, ResultAssumption DEF Read, Goto, Return, local, OwnerInv
<1>6. ASSUME NEW t \in Thread, Truncate(t) PROVE FileInv'
  BY <1>6 DEF Truncate, Goto, local
<1>7. ASSUME NEW t \in Thread, Write(t) PROVE FileInv'
  BY <1>7 DEF Write, Goto, Return, local
<1>8. ASSUME NEW t \in Thread, Close(t) PROVE FileInv'
  <2>. USE <1>8 DEF Close, Goto
  <2>1. CASE Entered(t)
    BY <2>1 DEF Entered
  <2>2. CASE RaiseLockError(t)
    BY <2>2 DEF RaiseLockError, local
  <2>3. CASE RaiseProcessLockError(t)
    BY <2>3 DEF RaiseProcessLockError, UnlockThread
  <2>4. CASE SleepBeforeRetry(t)
    BY <2>4 DEF SleepBeforeRetry, local
  <2>. QED
    BY <2>1, <2>2, <2>3, <2>4
<1>9. ASSUME NEW t \in Thread, Wake(t) PROVE FileInv'
  BY <1>9 DEF Wake, Goto, local
<1>10. ASSUME NEW t \in Thread, ExitInner(t) PROVE FileInv'
  BY <1>10 DEF ExitInner, UnlockThread
<1>11. ASSUME NEW t \in Thread, ExitOuter(t) PROVE FileInv'
  BY <1>11, SoleOwner, SoleHolder DEF ExitOuter, UnlockThread, OwnerInv, CountInv
<1>12. ASSUME NEW p \in Process, Terminate(p) PROVE FileInv'
  BY <1>12 DEF Terminate
<1>13. ASSUME NEW p \in Process, Start(p) PROVE FileInv'
  BY <1>13 DEF Start, local
<1>14. CASE UNCHANGED vars
  BY <1>14 DEF vars
<1>. QED
  BY <1>1, <1>2, <1>3, <1>4, <1>5, <1>6, <1>7, <1>8, <1>9, <1>10, <1>11,
     <1>12, <1>13, <1>14 DEF Next, TryStep

\* The whole invariant, for the specification.
LEMMA Invariance == ASSUME ~LateOpenerDeath PROVE Spec => []IInv
<1>1. Init => IInv
  BY ObjectInit, FileInit DEF IInv
<1>2. IInv /\ [Next]_vars => IInv'
  BY ObjectStep, FileStep DEF IInv
<1>. QED
  BY <1>1, <1>2, PTL DEF Spec

\* A second `with` on the target (lock.py:125-142) is not entered before the
\* first one is left or its process is dead.
THEOREM Exclusion == ASSUME ~LateOpenerDeath PROVE Spec => []MutualExclusion
<1>1. IInv => MutualExclusion
  BY SoleHolder DEF MutualExclusion
<1>. QED
  BY Invariance, <1>1, PTL

\* While a block runs, the path names a file with the holder's pid: neither a
\* contender's takeover nor another process's unlink removes it.
THEOREM HolderNamed == ASSUME ~LateOpenerDeath PROVE Spec => []HolderIsNamed
<1>1. IInv => HolderIsNamed
  BY DEF IInv, FileInv
<1>. QED
  BY Invariance, <1>1, PTL

\* lock.py implements LockPromise: a step of a process is an acquisition by a
\* process that finds nobody inside, a departure, or invisible.
THEOREM Implements == ASSUME ~LateOpenerDeath PROVE Spec => KeepsPromise
<1>. DEFINE Inside == {Pid[t] : t \in {u \in Thread : Holds(u)}}
<1>1. Init => Promise!Init
  BY DEF Init, Promise!Init
<1>2. ASSUME IInv, IInv', [Next]_vars
      PROVE  [Promise!Next]_Inside
  <2>. USE <1>2, PidAssumption DEF IInv, ObjectInv, TypeOK
  <2>1. ASSUME NEW p \in Process, Terminate(p) PROVE Promise!Leave(p) \/ Inside' = Inside
    <3>1. Inside' = Inside \ {p}
      BY <2>1 DEF Terminate
    <3>. QED
      BY <3>1 DEF Promise!Leave
  <2>2. ASSUME NEW t \in Thread, Close(t), Entered(t)
        PROVE  Promise!Acquire(Pid[t]) \/ Inside' = Inside
    <3>1. \A u \in Thread : Holds(u)' <=> u = t \/ Holds(u)
      BY <2>2 DEF Close, Entered
    <3>2. CASE Holds(t)
      BY <3>1, <3>2
    <3>3. CASE ~Holds(t)
      <4>1. \A u \in Thread : ~Holds(u)
        BY <2>2, <3>3, SoleOwner DEF FileInv, HolderIsNamed, WinnerInv, Close, Entered
      <4>. QED
        BY <3>1, <4>1 DEF Promise!Acquire
    <3>. QED
      BY <3>2, <3>3
  <2>3. ASSUME NEW t \in Thread, ExitInner(t) \/ ExitOuter(t)
        PROVE  Promise!Leave(Pid[t]) \/ Inside' = Inside
    <3>1. Holds(t) /\ \A u \in Thread : Holds(u) => u = t
      BY <2>3, SoleHolder DEF ExitInner, ExitOuter
    <3>2. \A u \in Thread : Holds(u)' => u = t
      BY <2>3, <3>1 DEF ExitInner, ExitOuter
    <3>3. Inside = {Pid[t]} /\ (Inside' = {} \/ Inside' = Inside)
      BY <3>1, <3>2
    <3>. QED
      BY <3>3 DEF Promise!Leave
  <2>4. ASSUME UNCHANGED depth PROVE Inside' = Inside
    BY <2>4
  <2>. QED
    BY <2>1, <2>2, <2>3, <2>4
    DEF Next, TryStep, vars, local, Promise!Next, Enter, OpenExisting, OpenNew,
        Flock, Read, Truncate, Write, Close, RaiseLockError,
        RaiseProcessLockError, SleepBeforeRetry, Wake, Start
<1>. QED
  BY Invariance, <1>1, <1>2, PTL DEF Spec, KeepsPromise, Promise!Spec
------------------------------------------------------------------------------
(* Taking a lock over from the dead: an invariant of its own, which needs   *)
(* nothing of the environment but that pids are not reused.                 *)

\* Between the reading of a pid and the writing of another a thread has the
\* flock, so that what it has read is still there; and the dead stay dead.
TakeoverInv ==
  \A t \in Thread :
    /\ pc[t] \in {"truncate", "write"} => fd[t] \in Inode
    /\ pc[t] = "truncate" => content[fd[t]] \in Process \ alive
    /\ pc[t] = "write" => content[fd[t]] = Empty

TakeInv == ObjectInv /\ DescriptorInv /\ FlockInv /\ TakeoverInv

\* The lock starts with nobody inside _try_lock.
LEMMA TakeInit == Init => TakeInv
  BY ObjectInit, NullAssumption
  DEF Init, TakeInv, DescriptorInv, FlockInv, TakeoverInv

\* Every step keeps what a thread that takes over has read.
LEMMA TakeStep == ASSUME ~PidReuse, TakeInv, [Next]_vars PROVE TakeInv'
<1>. USE PidAssumption, NullAssumption
     DEF TakeInv, ObjectInv, TypeOK, DescriptorInv, FlockInv, TakeoverInv
<1>0. ObjectInv'
  BY ObjectStep DEF ObjectInv
<1>1. ASSUME NEW t \in Thread, Enter(t) PROVE TakeInv'
  BY <1>0, <1>1 DEF Enter, Goto
<1>2. ASSUME NEW t \in Thread, OpenExisting(t) PROVE TakeInv'
  BY <1>0, <1>2 DEF OpenExisting, Goto, local
<1>3. ASSUME NEW t \in Thread, OpenNew(t) PROVE TakeInv'
  BY <1>0, <1>3 DEF OpenNew, Free, Goto, local
<1>4. ASSUME NEW t \in Thread, Flock(t) PROVE TakeInv'
  BY <1>0, <1>4 DEF Flock, Goto, Return, local
<1>5. ASSUME NEW t \in Thread, Read(t) PROVE TakeInv'
  BY <1>0, <1>5 DEF Read, Goto, Return, local
<1>6. ASSUME NEW t \in Thread, Truncate(t) PROVE TakeInv'
  BY <1>0, <1>6 DEF Truncate, Goto, local
<1>7. ASSUME NEW t \in Thread, Write(t) PROVE TakeInv'
  BY <1>0, <1>7 DEF Write, Goto, Return, local
<1>8. ASSUME NEW t \in Thread, Close(t) PROVE TakeInv'
  <2>1. pc' = [pc EXCEPT ![t] = "out"] \/ pc' = [pc EXCEPT ![t] = "sleep"]
    BY <1>8 DEF Close, Goto, Entered, RaiseLockError, RaiseProcessLockError,
                SleepBeforeRetry
  <2>. QED
    BY <1>0, <1>8, <2>1 DEF Close
<1>9. ASSUME NEW t \in Thread, Wake(t) PROVE TakeInv'
  BY <1>0, <1>9 DEF Wake, Goto, local
<1>10. ASSUME NEW t \in Thread, ExitInner(t) \/ ExitOuter(t) PROVE TakeInv'
  BY <1>0, <1>10 DEF ExitInner, ExitOuter
<1>11. ASSUME NEW p \in Process, Terminate(p) PROVE TakeInv'
  BY <1>0, <1>11 DEF Terminate
<1>12. ASSUME NEW p \in Process, Start(p) PROVE TakeInv'
  BY <1>12 DEF Start
<1>13. CASE UNCHANGED vars
  BY <1>0, <1>13 DEF vars
<1>. QED
  BY <1>1, <1>2, <1>3, <1>4, <1>5, <1>6, <1>7, <1>8, <1>9, <1>10, <1>11,
     <1>12, <1>13 DEF Next, TryStep

\* The decision of lock.py:109 is not stale when the file is rewritten: whoever
\* loses its pid in a file is dead, also where the exclusion itself is lost.
THEOREM TakenFromDead == ASSUME ~PidReuse PROVE Spec => TakenOnlyFromDead
<1>. DEFINE Taken ==
       \A i \in Inode :
         content[i] \in Process /\ content'[i] # content[i] =>
           content[i] \notin alive \/ (i # target /\ target' = i)
<1>1. ASSUME TakeInv, [Next]_vars PROVE [Taken]_vars
  <2>. USE <1>1 DEF TakeInv, TakeoverInv, ObjectInv, TypeOK
  <2>1. ASSUME NEW t \in Thread, OpenNew(t) PROVE Taken
    BY <2>1 DEF OpenNew, Free
  <2>2. ASSUME NEW t \in Thread, Truncate(t) PROVE Taken
    BY <2>2 DEF Truncate
  <2>3. ASSUME NEW t \in Thread, Write(t) PROVE Taken
    BY <2>3, ContentAssumption DEF Write
  <2>4. ASSUME UNCHANGED content PROVE Taken
    BY <2>4
  <2>. QED
    BY <2>1, <2>2, <2>3, <2>4
    DEF Next, TryStep, vars, Enter, OpenExisting, Flock, Read, Close, Wake,
        ExitInner, ExitOuter, Terminate, Start
<1>. QED
  BY TakeInit, TakeStep, <1>1, PTL DEF Spec, TakenOnlyFromDead

------------------------------------------------------------------------------
(* No live process is named by a pid file for nothing.                      *)

\* No pid file is malformed, and self.count is what the owner of the RLock has
\* to pay for: it is 1 when the outermost block is left.
CountExact ==
  /\ \A i \in Inode : content[i] # Garbage
  /\ \A t \in Thread : ret[t] # Malformed
  /\ \A p \in Process : owner[p] = NoThread => count[p] = 0
  /\ \A t \in Thread :
       owner[Pid[t]] = t => count[Pid[t]] = depth[t] + (IF pc[t] = "out" THEN 0 ELSE 1)

\* Whom the path names is inside a block or has decided to go in.
NamedInv ==
  target # NoInode /\ content[target] \in alive =>
    \E t \in Thread :
      Pid[t] = content[target] /\ (Holds(t) \/ (pc[t] = "close" /\ ret[t] = Pid[t]))

SoundInv == CountExact /\ NamedInv

\* A malformed pid file locks everybody out, for good.
Blocked == target # NoInode /\ content[target] = Garbage

StrayInv == TakeInv /\ (Blocked \/ SoundInv)

\* What the environment must grant: no pid is used twice, a pid file left by an
\* earlier boot names nobody, and ~LateOpenerDeath.
CleanBoot == ~LateOpenerDeath /\ ~PidReuse /\ InitContent \cap Process = {}

\* There is no pid file, or one that is empty, or a malformed one.
LEMMA StrayInit == ASSUME CleanBoot PROVE Init => StrayInv
<1>. SUFFICES ASSUME CleanBoot, Init PROVE StrayInv
  OBVIOUS
<1>. USE PidAssumption, NullAssumption, ContentAssumption, ResultAssumption
     DEF Init, SoundInv, CountExact, NamedInv, Blocked
<1>1. TakeInv
  BY TakeInit
<1>2. CASE target = NoInode
  BY <1>1, <1>2 DEF StrayInv
<1>3. CASE target # NoInode
  <2>1. content[target] \in {Empty, Garbage}
    BY <1>3 DEF CleanBoot
  <2>2. CASE content[target] = Empty
    BY <1>1, <1>3, <2>2 DEF StrayInv
  <2>. QED
    BY <1>1, <1>3, <2>1, <2>2 DEF StrayInv
<1>. QED
  BY <1>2, <1>3

\* Every step keeps the count exact and the name of nobody who has left.
LEMMA SoundStep ==
  ASSUME CleanBoot, IInv, SoundInv, [Next]_vars
  PROVE  SoundInv'
<1>. USE PidAssumption, NullAssumption, ContentAssumption, ResultAssumption
     DEF IInv, ObjectInv, TypeOK, OwnerInv, SoundInv, CountExact, NamedInv
<1>1. ASSUME NEW t \in Thread, Enter(t) PROVE SoundInv'
  BY <1>1 DEF Enter, Goto
<1>2. ASSUME NEW t \in Thread, OpenExisting(t) \/ OpenNew(t) PROVE SoundInv'
  BY <1>2 DEF OpenExisting, OpenNew, Goto, local
<1>3. ASSUME NEW t \in Thread, Flock(t) PROVE SoundInv'
  BY <1>3 DEF Flock, Goto, Return, local
<1>4. ASSUME NEW t \in Thread, Read(t) PROVE SoundInv'
  BY <1>4 DEF Read, Goto, Return, local, FileInv, DescriptorInv
<1>5. ASSUME NEW t \in Thread, Truncate(t) PROVE SoundInv'
  BY <1>5 DEF Truncate, Goto, local, FileInv, DescriptorInv
<1>6. ASSUME NEW t \in Thread, Write(t) PROVE SoundInv'
  BY <1>6 DEF Write, Goto, Return, local, FileInv, DescriptorInv
<1>7. ASSUME NEW t \in Thread, Close(t) PROVE SoundInv'
  <2>. USE <1>7 DEF Close, Goto
  <2>1. CASE Entered(t)
    BY <2>1 DEF Entered
  <2>2. CASE RaiseLockError(t)
    BY <2>2 DEF RaiseLockError
  <2>3. CASE RaiseProcessLockError(t)
    BY <2>3 DEF RaiseProcessLockError, UnlockThread
  <2>4. CASE SleepBeforeRetry(t)
    BY <2>4 DEF SleepBeforeRetry, local
  <2>. QED
    BY <2>1, <2>2, <2>3, <2>4
<1>8. ASSUME NEW t \in Thread, Wake(t) PROVE SoundInv'
  BY <1>8 DEF Wake, Goto, local
<1>9. ASSUME NEW t \in Thread, ExitInner(t) PROVE SoundInv'
  BY <1>9 DEF ExitInner, UnlockThread
<1>10. ASSUME NEW t \in Thread, ExitOuter(t) PROVE SoundInv'
  BY <1>10 DEF ExitOuter, UnlockThread, FileInv, HolderIsNamed
<1>11. ASSUME NEW p \in Process, Terminate(p) PROVE SoundInv'
  BY <1>11 DEF Terminate
<1>12. ASSUME NEW p \in Process, Start(p) PROVE SoundInv'
  BY <1>12 DEF Start, CleanBoot
<1>13. CASE UNCHANGED vars
  BY <1>13 DEF vars
<1>. QED
  BY <1>1, <1>2, <1>3, <1>4, <1>5, <1>6, <1>7, <1>8, <1>9, <1>10, <1>11,
     <1>12, <1>13 DEF Next, TryStep

\* Whoever reads a malformed pid file leaves it as it is, and nobody is inside who
\* could unlink it.
LEMMA BlockedStep ==
  ASSUME CleanBoot, IInv, TakeInv, Blocked, [Next]_vars
  PROVE  Blocked'
<1>. USE NullAssumption, ContentAssumption
     DEF IInv, ObjectInv, TypeOK, FileInv, TakeInv, TakeoverInv, Blocked
<1>1. ASSUME NEW t \in Thread PROVE ~OpenNew(t) /\ ~ExitOuter(t)
  BY PidAssumption DEF OpenNew, ExitOuter, HolderIsNamed
<1>2. ASSUME NEW t \in Thread, Truncate(t) \/ Write(t) PROVE Blocked'
  BY <1>2 DEF Truncate, Write
<1>3. ASSUME UNCHANGED <<target, content>> PROVE Blocked'
  BY <1>3
<1>. QED
  BY <1>1, <1>2, <1>3
  DEF Next, TryStep, vars, Enter, OpenExisting, Flock, Read, Close, Wake, ExitInner,
      Terminate, Start

\* The unlink of lock.py:146 is never forgotten: while a process lives and is
\* not inside, or about to go in, no pid file keeps the others out for it.
THEOREM NeverStray == ASSUME CleanBoot PROVE Spec => []NoStrayLock
<1>1. StrayInv => NoStrayLock
  BY ContentAssumption DEF StrayInv, TakeInv, ObjectInv, TypeOK, SoundInv, NamedInv,
                           Blocked, NoStrayLock
<1>2. Spec => []IInv
  BY Invariance DEF CleanBoot
<1>3. ASSUME IInv, StrayInv, [Next]_vars PROVE StrayInv'
  BY <1>3, TakeStep, SoundStep, BlockedStep DEF StrayInv, CleanBoot
<1>. QED
  BY StrayInit, <1>1, <1>2, <1>3, PTL DEF Spec
==============================================================================
