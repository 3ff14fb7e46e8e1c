--------------------------- MODULE PackageCacheProofs ---------------------------
(*******************************************************************************)
(* What PackageCache guarantees for every number of sessions and packages and  *)
(* every world.                                                                *)
(*******************************************************************************)
EXTENDS PackageCache, TLAPS

------------------------------------------------------------------------------
(* The inductive invariant.                                                *)

Finalizing == {"finalize", "sweep", "save", "truncate", "dump"}
Finalized == {"sweep", "save", "truncate", "dump", "saved"}

\* Only the sessions of the world run.
HomeInv == \A s \in Session : pc[s] # "off" => s \in world.sessions

\* _trans_success is about the last transaction and does not outlive _finalize_base.
RanInv ==
  \A s \in Session :
    /\ success[s] => ran[s] /\ pc[s] \in Finalizing
    /\ pc[s] = "sweep" => success[s]

\* The headers of the package files are read, and rpm runs, inside the lock.
LockInv == \A s \in Session : pc[s] \in {"locked", "tested"} => rpmdbLock = s

\* _finalize_base of s deletes its temporary files; after a transaction that has
\* installed something it deletes the others, too, with those on record ...
SweptOK(s) ==
  /\ pc[s] \in Finalized => keepcache[s] \/ cache \cap tempfiles[s] = {}
  /\ pc[s] \in {"sweep", "save", "truncate"} /\ empty[s] => json \subseteq transTemp[s]
  /\ pc[s] = "sweep" =>
       empty[s] /\ (installSet[s] => cache \cap transTemp[s] \subseteq todo[s])
  /\ pc[s] \in {"save", "truncate", "dump", "saved"} /\ empty[s] /\ installSet[s] =>
       cache \cap transTemp[s] = {}

\* ... and else they are put on record.
SavedOK(s) ==
  /\ pc[s] \in {"save", "truncate", "dump"} /\ ~empty[s] /\ ~keepcache[s] =>
       transTemp[s] \subseteq data[s]
  /\ pc[s] = "truncate" /\ ~empty[s] => json \subseteq data[s]
  /\ pc[s] = "dump" => json = {}
  /\ pc[s] = "saved" /\ ~empty[s] /\ ~keepcache[s] => transTemp[s] \subseteq json

\* If no other session interferes.
SweptInv == Alone => \A s \in Session : SweptOK(s)
SavedInv == Alone => \A s \in Session : SavedOK(s)

IInv ==
  /\ TypeOK /\ world \in Worlds /\ HomeInv /\ RanInv /\ LockInv /\ SweptInv /\ SavedInv
------------------------------------------------------------------------------
(* Invariance.                                                             *)

\* No step leaves the types.
LEMMA TypeStep ==
  ASSUME TypeOK, [Next]_vars
  PROVE  TypeOK'
<1>1. ASSUME NEW s \in Session, Start(s) PROVE TypeOK'
  <2>1. /\ keepcache' \in [Session -> BOOLEAN]
        /\ pc' \in [Session -> Where]
    <3>1. PICK k \in BOOLEAN : keepcache' = [keepcache EXCEPT ![s] = k]
      BY <1>1 DEF Start
    <3> QED BY <1>1, <3>1 DEF Start, TypeOK, Where, Goto
  <2> QED BY <1>1, <2>1 DEF Start, TypeOK, World, files, locks, persistor
<1>2. ASSUME NEW s \in Session, DownloadPlain(s) PROVE TypeOK'
  BY <1>2 DEF DownloadPlain, TypeOK, World, Where, Goto, files, locks, base, persistor
<1>3. ASSUME NEW s \in Session, Resolve(s) PROVE TypeOK'
  BY <1>3 DEF Resolve, TypeOK, World, Where, Goto, files, locks, base, persistor
<1>4. ASSUME NEW s \in Session, GiveUp(s) PROVE TypeOK'
  BY <1>4 DEF GiveUp, TypeOK, World, Where, Goto, files, locks, base, persistor
<1>5. ASSUME NEW s \in Session, AddTempfiles(s) PROVE TypeOK'
  BY <1>5 DEF AddTempfiles, TypeOK, World, Where, Goto, files, locks, base, persistor
<1>6. ASSUME NEW s \in Session, TakeDownloadLock(s) PROVE TypeOK'
  BY <1>6 DEF TakeDownloadLock, TypeOK, World, Where, Goto, files, locks, base, persistor
<1>7. ASSUME NEW s \in Session, Download(s) PROVE TypeOK'
  BY <1>7 DEF Download, TypeOK, World, Where, Goto, files, locks, base, persistor
<1>8. ASSUME NEW s \in Session, DownloadEnds(s) PROVE TypeOK'
  BY <1>8 DEF DownloadEnds, TypeOK, World, Where, Goto, files, locks, base, persistor
<1>9. ASSUME NEW s \in Session, EmptyTransaction(s) PROVE TypeOK'
  BY <1>9 DEF EmptyTransaction, TypeOK, World, Where, Goto, files, locks, base, persistor
<1>10. ASSUME NEW s \in Session, TakeRpmdbLock(s) PROVE TypeOK'
  BY <1>10 DEF TakeRpmdbLock, TypeOK, World, Where, Goto, files, locks, base, persistor
<1>11. ASSUME NEW s \in Session, TransactionTest(s) PROVE TypeOK'
  BY <1>11 DEF TransactionTest, TypeOK, World, Where, Goto, files, locks, base, persistor
<1>12. ASSUME NEW s \in Session, TransactionRefused(s) PROVE TypeOK'
  BY <1>12 DEF TransactionRefused, TypeOK, World, Where, Goto, files, locks, base, persistor
<1>13. ASSUME NEW s \in Session, RunTransaction(s) PROVE TypeOK'
  BY <1>13 DEF RunTransaction, TypeOK, World, Where, Goto, files, locks, base, persistor
<1>14. ASSUME NEW s \in Session, FinalizeKeeping(s) PROVE TypeOK'
  BY <1>14 DEF FinalizeKeeping, TypeOK, World, Where, Goto, files, locks, base, persistor
<1>15. ASSUME NEW s \in Session, FinalizeSuccess(s) PROVE TypeOK'
  <2>1. transTemp' \in [Session -> SUBSET Pkg]
    BY <1>15 DEF FinalizeSuccess, TypeOK
  <2>2. todo' \in [Session -> SUBSET Pkg]
    BY <1>15, <2>1 DEF FinalizeSuccess, TypeOK
  <2>3. empty' \in [Session -> BOOLEAN] /\ data' \in [Session -> SUBSET Pkg]
    BY <1>15 DEF FinalizeSuccess, TypeOK
  <2>4. cache' \subseteq Pkg /\ torn' \in BOOLEAN /\ pc' \in [Session -> Where]
    BY <1>15 DEF FinalizeSuccess, TypeOK, Where, Goto
  <2> QED BY <1>15, <2>1, <2>2, <2>3, <2>4 DEF FinalizeSuccess, TypeOK, locks
<1>16. ASSUME NEW s \in Session, FinalizeFailure(s) PROVE TypeOK'
  BY <1>16 DEF FinalizeFailure, TypeOK, World, Where, Goto, files, locks, base, persistor
<1>17. ASSUME NEW s \in Session, Sweep(s) PROVE TypeOK'
  BY <1>17 DEF Sweep, TypeOK, World, Where, Goto, files, locks, base, persistor
<1>18. ASSUME NEW s \in Session, SweepEnds(s) PROVE TypeOK'
  BY <1>18 DEF SweepEnds, TypeOK, World, Where, Goto, files, locks, base, persistor
<1>19. ASSUME NEW s \in Session, SaveNothing(s) PROVE TypeOK'
  BY <1>19 DEF SaveNothing, TypeOK, World, Where, Goto, files, locks, base, persistor
<1>20. ASSUME NEW s \in Session, SaveRead(s) PROVE TypeOK'
  <2>1. data' \in [Session -> SUBSET Pkg] /\ torn' \in BOOLEAN
    <3>1. CASE empty[s]
      BY <1>20, <3>1 DEF SaveRead, TypeOK
    <3>2. CASE ~empty[s]
      <4>1. data' \in [Session -> SUBSET Pkg]
        BY <1>20, <3>2 DEF SaveRead, TypeOK
      <4>2. torn' \in BOOLEAN
        BY <1>20, <3>2 DEF SaveRead
      <4> QED BY <4>1, <4>2
    <3> QED BY <3>1, <3>2
  <2>2. pc' \in [Session -> Where]
    BY <1>20 DEF SaveRead, TypeOK, Where, Goto
  <2> QED BY <1>20, <2>1, <2>2 DEF SaveRead, TypeOK, locks, base
<1>21. ASSUME NEW s \in Session, SaveTruncate(s) PROVE TypeOK'
  BY <1>21 DEF SaveTruncate, TypeOK, World, Where, Goto, files, locks, base, persistor
<1>22. ASSUME NEW s \in Session, SaveDump(s) PROVE TypeOK'
  <2>1. json' \subseteq Pkg /\ success' \in [Session -> BOOLEAN] /\ pc' \in [Session -> Where]
    BY <1>22 DEF SaveDump, TypeOK, Where, Goto
  <2>2. torn' \in BOOLEAN
    BY <1>22 DEF SaveDump
  <2> QED BY <1>22, <2>1, <2>2 DEF SaveDump, TypeOK, locks, persistor
<1>23. ASSUME NEW s \in Session, Continue(s) PROVE TypeOK'
  BY <1>23 DEF Continue, TypeOK, World, Where, Goto, files, locks, base, persistor
<1>24. ASSUME NEW s \in Session, Exit(s) PROVE TypeOK'
  BY <1>24 DEF Exit, Forget, TypeOK, World, Where, Goto, files, locks, base, persistor
<1>25. ASSUME NEW s \in Session, Crash(s) PROVE TypeOK'
  BY <1>25 DEF Crash, Forget, Release, TypeOK, World, Where, Goto, files, locks, base, persistor
<1>26. CASE CleanPackages
  BY <1>26 DEF CleanPackages, TypeOK, World, Where, Goto, files, locks, base, persistor
<1>27. CASE UNCHANGED vars
  BY <1>27 DEF vars, TypeOK, World, Where, Goto, files, locks, base, persistor
<1> QED BY <1>1, <1>2, <1>3, <1>4, <1>5, <1>6, <1>7, <1>8, <1>9, <1>10, <1>11, <1>12,
           <1>13, <1>14, <1>15, <1>16, <1>17, <1>18, <1>19, <1>20, <1>21, <1>22, <1>23,
           <1>24, <1>25, <1>26, <1>27 DEF Next, Transact, Finalize

\* Only the sessions of the world start.
LEMMA HomeStep ==
  ASSUME TypeOK, HomeInv, [Next]_vars
  PROVE  HomeInv'
<1>1. ASSUME NEW s \in Session, Transact(s) PROVE HomeInv'
  BY <1>1 DEF Transact, Start, DownloadPlain, Resolve, GiveUp, AddTempfiles,
     TakeDownloadLock, Download, DownloadEnds, EmptyTransaction, TakeRpmdbLock,
     TransactionTest, TransactionRefused, RunTransaction, HomeInv, TypeOK, Goto,
     files, locks, base, persistor
<1>2. ASSUME NEW s \in Session, Finalize(s) PROVE HomeInv'
  BY <1>2 DEF Finalize, FinalizeKeeping, FinalizeSuccess, FinalizeFailure, Sweep,
     SweepEnds, SaveNothing, SaveRead, SaveTruncate, SaveDump, HomeInv, TypeOK, Goto,
     files, locks, base, persistor
<1>3. ASSUME NEW s \in Session, Continue(s) \/ Exit(s) \/ Crash(s) PROVE HomeInv'
  BY <1>3 DEF Continue, Exit, Crash, Forget, Release, HomeInv, TypeOK, Goto, files,
     locks, base, persistor
<1>4. CASE CleanPackages \/ UNCHANGED vars
  BY <1>4 DEF CleanPackages, vars, HomeInv, TypeOK, Goto, files, locks, base, persistor
<1> QED BY <1>1, <1>2, <1>3, <1>4 DEF Next

\* The flag is set by a transaction that was carried out and reset by _finalize_base.
LEMMA RanStep ==
  ASSUME TypeOK, RanInv, [Next]_vars
  PROVE  RanInv'
<1>1. ASSUME NEW s \in Session, Transact(s) PROVE RanInv'
  BY <1>1 DEF Transact, Start, DownloadPlain, Resolve, GiveUp, AddTempfiles,
     TakeDownloadLock, Download, DownloadEnds, EmptyTransaction, TakeRpmdbLock,
     TransactionTest, TransactionRefused, RunTransaction, RanInv, TypeOK, Finalizing,
     Goto, files, locks, base, persistor
<1>2. ASSUME NEW s \in Session, Finalize(s) PROVE RanInv'
  BY <1>2 DEF Finalize, FinalizeKeeping, FinalizeSuccess, FinalizeFailure, Sweep,
     SweepEnds, SaveNothing, SaveRead, SaveTruncate, SaveDump, RanInv, TypeOK,
     Finalizing, Goto, files, locks, base, persistor
<1>3. ASSUME NEW s \in Session, Continue(s) \/ Exit(s) \/ Crash(s) PROVE RanInv'
  BY <1>3 DEF Continue, Exit, Crash, Forget, Release, RanInv, TypeOK, Finalizing,
     Goto, files, locks, base, persistor
<1>4. CASE CleanPackages \/ UNCHANGED vars
  BY <1>4 DEF CleanPackages, vars, RanInv, TypeOK, Finalizing, Goto, files, locks, base, persistor
<1> QED BY <1>1, <1>2, <1>3, <1>4 DEF Next

\* The rpmdb lock is given back when the transaction is left.
LEMMA LockStep ==
  ASSUME TypeOK, LockInv, [Next]_vars
  PROVE  LockInv'
<1>1. ASSUME NEW s \in Session, Transact(s) PROVE LockInv'
  <2>1. CASE TakeRpmdbLock(s)
    BY <2>1, NobodyAssumption DEF TakeRpmdbLock, LockInv, TypeOK, Goto
  <2>2. CASE TransactionRefused(s) \/ RunTransaction(s)
    BY <2>2 DEF TransactionRefused, RunTransaction, LockInv, TypeOK, Goto
  <2>3. ASSUME ~TakeRpmdbLock(s), ~(TransactionRefused(s) \/ RunTransaction(s)) PROVE LockInv'
    BY <1>1, <2>3 DEF Transact, Start, DownloadPlain, Resolve, GiveUp, AddTempfiles,
       TakeDownloadLock, Download, DownloadEnds, EmptyTransaction, TransactionTest,
       LockInv, TypeOK, Goto, locks
  <2> QED BY <2>1, <2>2, <2>3
<1>2. ASSUME NEW s \in Session, Finalize(s) PROVE LockInv'
  BY <1>2 DEF Finalize, FinalizeKeeping, FinalizeSuccess, FinalizeFailure, Sweep,
     SweepEnds, SaveNothing, SaveRead, SaveTruncate, SaveDump, LockInv, TypeOK, Goto,
     files, locks, base, persistor
<1>3. ASSUME NEW s \in Session, Continue(s) \/ Exit(s) \/ Crash(s) PROVE LockInv'
  BY <1>3 DEF Continue, Exit, Crash, Forget, Release, LockInv, TypeOK, Goto, files,
     locks, base, persistor
<1>4. CASE CleanPackages \/ UNCHANGED vars
  BY <1>4 DEF CleanPackages, vars, LockInv, TypeOK, Goto, files, locks, base, persistor
<1> QED BY <1>1, <1>2, <1>3, <1>4 DEF Next

\* Every step leaves the world alone, and is a step of the one session there is.
LEMMA OneActs ==
  ASSUME TypeOK, HomeInv, [Next]_vars, Alone', NEW s \in Session, pc'[s] # "off"
  PROVE  /\ Alone /\ world' = world
         /\ \/ Transact(s) \/ Finalize(s) \/ Continue(s)
            \/ CleanPackages \/ UNCHANGED vars
<1>1. s \in world'.sessions
  BY HomeStep DEF HomeInv
<1>2. ASSUME NEW t \in Session, Transact(t) PROVE t \in world.sessions /\ world' = world
  BY <1>2 DEF Transact, Start, DownloadPlain, Resolve, GiveUp, AddTempfiles,
     TakeDownloadLock, Download, DownloadEnds, EmptyTransaction, TakeRpmdbLock,
     TransactionTest, TransactionRefused, RunTransaction, HomeInv
<1>3. ASSUME NEW t \in Session, Finalize(t) PROVE t \in world.sessions /\ world' = world
  BY <1>3 DEF Finalize, FinalizeKeeping, FinalizeSuccess, FinalizeFailure, Sweep,
     SweepEnds, SaveNothing, SaveRead, SaveTruncate, SaveDump, HomeInv
<1>4. ASSUME NEW t \in Session, Continue(t) \/ Exit(t) \/ Crash(t)
      PROVE  /\ t \in world.sessions /\ world' = world
             /\ ~Continue(t) => pc'[t] = "off"
  BY <1>4 DEF Continue, Exit, Crash, Forget, Goto, HomeInv, TypeOK
<1>5. CASE CleanPackages \/ UNCHANGED vars
  BY <1>5 DEF CleanPackages, vars, Alone
<1> QED BY <1>1, <1>2, <1>3, <1>4, <1>5 DEF Next, Alone

\* What _clean_packages has not come to is left in the cache, and nothing else.
LEMMA SweptStep ==
  ASSUME TypeOK, HomeInv, SweptInv, [Next]_vars
  PROVE  SweptInv'
<1> SUFFICES ASSUME Alone', NEW s \in Session, pc'[s] # "off" PROVE SweptOK(s)'
  BY DEF SweptInv, SweptOK, Finalized
<1>1. Alone /\ SweptOK(s)
  BY OneActs DEF SweptInv
<1>2. CASE Transact(s)
  BY <1>1, <1>2 DEF Transact, Start, DownloadPlain, Resolve, GiveUp, AddTempfiles,
     TakeDownloadLock, Download, DownloadEnds, EmptyTransaction, TakeRpmdbLock,
     TransactionTest, TransactionRefused, RunTransaction, SweptOK, Finalized, TypeOK,
     Goto, files, locks, base, persistor
<1>3. CASE FinalizeKeeping(s)
  BY <1>1, <1>3 DEF FinalizeKeeping, SweptOK, Finalized, TypeOK, Goto, files, locks,
     base, persistor
<1>4. CASE FinalizeSuccess(s)
  BY <1>1, <1>4 DEF FinalizeSuccess, SweptOK, Finalized, TypeOK, Goto, files, locks,
     base, persistor
<1>5. CASE FinalizeFailure(s)
  BY <1>1, <1>5 DEF FinalizeFailure, SweptOK, Finalized, TypeOK, Goto, files, locks,
     base, persistor
<1>6. CASE Sweep(s)
  BY <1>1, <1>6 DEF Sweep, SweptOK, Finalized, TypeOK, Goto, files, locks, base,
     persistor
<1>7. CASE SweepEnds(s)
  BY <1>1, <1>7 DEF SweepEnds, SweptOK, Finalized, TypeOK, Goto, files, locks, base,
     persistor
<1>8. CASE SaveNothing(s)
  BY <1>1, <1>8 DEF SaveNothing, SweptOK, Finalized, TypeOK, Goto, files, locks, base,
     persistor
<1>9. CASE SaveRead(s)
  BY <1>1, <1>9 DEF SaveRead, SweptOK, Finalized, TypeOK, Goto, files, locks, base,
     persistor
<1>10. CASE SaveTruncate(s)
  BY <1>1, <1>10 DEF SaveTruncate, SweptOK, Finalized, TypeOK, Goto, files, locks, base,
     persistor
<1>11. CASE SaveDump(s)
  BY <1>1, <1>11 DEF SaveDump, SweptOK, Finalized, TypeOK, Goto, files, locks, base,
     persistor
<1>12. CASE Continue(s)
  BY <1>1, <1>12 DEF Continue, SweptOK, Finalized, TypeOK, Goto, files, locks, base,
     persistor
<1>13. CASE CleanPackages \/ UNCHANGED vars
  BY <1>1, <1>13 DEF CleanPackages, vars, SweptOK, Finalized, Goto, files, locks, base,
     persistor
<1> QED BY OneActs, <1>2, <1>3, <1>4, <1>5, <1>6, <1>7, <1>8, <1>9, <1>10, <1>11,
     <1>12, <1>13 DEF Finalize

\* What a session cannot delete reaches tempfiles.json.
LEMMA SavedStep ==
  ASSUME TypeOK, HomeInv, SweptInv, SavedInv, [Next]_vars
  PROVE  SavedInv'
<1> SUFFICES ASSUME Alone', NEW s \in Session, pc'[s] # "off" PROVE SavedOK(s)'
  BY DEF SavedInv, SavedOK
<1>1. Alone /\ SavedOK(s) /\ (pc[s] = "sweep" => empty[s])
  BY OneActs DEF SavedInv, SweptInv, SweptOK
<1>2. CASE Transact(s)
  BY <1>1, <1>2 DEF Transact, Start, DownloadPlain, Resolve, GiveUp, AddTempfiles,
     TakeDownloadLock, Download, DownloadEnds, EmptyTransaction, TakeRpmdbLock,
     TransactionTest, TransactionRefused, RunTransaction, SavedOK, TypeOK, Goto, files,
     locks, base, persistor
<1>3. CASE FinalizeKeeping(s)
  BY <1>1, <1>3 DEF FinalizeKeeping, SavedOK, TypeOK, Goto, files, locks, base,
     persistor
<1>4. CASE FinalizeSuccess(s)
  BY <1>1, <1>4 DEF FinalizeSuccess, SavedOK, TypeOK, Goto, files, locks, base,
     persistor
<1>5. CASE FinalizeFailure(s)
  BY <1>1, <1>5 DEF FinalizeFailure, SavedOK, TypeOK, Goto, files, locks, base,
     persistor
<1>6. CASE Sweep(s)
  BY <1>1, <1>6 DEF Sweep, SavedOK, TypeOK, Goto, files, locks, base, persistor
<1>7. CASE SweepEnds(s)
  BY <1>1, <1>7 DEF SweepEnds, SavedOK, TypeOK, Goto, files, locks, base, persistor
<1>8. CASE SaveNothing(s)
  BY <1>1, <1>8 DEF SaveNothing, SavedOK, TypeOK, Goto, files, locks, base, persistor
<1>9. CASE SaveRead(s)
  BY <1>1, <1>9 DEF SaveRead, SavedOK, TypeOK, Goto, files, locks, base, persistor
<1>10. CASE SaveTruncate(s)
  BY <1>1, <1>10 DEF SaveTruncate, SavedOK, TypeOK, Goto, files, locks, base, persistor
<1>11. CASE SaveDump(s)
  BY <1>1, <1>11 DEF SaveDump, SavedOK, TypeOK, Goto, files, locks, base, persistor
<1>12. CASE Continue(s)
  BY <1>1, <1>12 DEF Continue, SavedOK, TypeOK, Goto, files, locks, base, persistor
<1>13. CASE CleanPackages \/ UNCHANGED vars
  BY <1>1, <1>13 DEF CleanPackages, vars, SavedOK, Goto, files, locks, base, persistor
<1> QED BY OneActs, <1>2, <1>3, <1>4, <1>5, <1>6, <1>7, <1>8, <1>9, <1>10, <1>11,
     <1>12, <1>13 DEF Finalize

\* The sessions start with empty lists and no lock.
LEMMA InitInv == Init => IInv
<1> SUFFICES ASSUME Init PROVE IInv
  OBVIOUS
<1>1. /\ world \in Worlds /\ world \in World
      /\ \A s \in Session : pc[s] = "off" /\ success[s] = FALSE
  BY WorldAssumption DEF Init, Blank
<1>2. TypeOK
  <2>1. /\ {keepcache, erase, success, installSet, empty, ran} \subseteq [Session -> BOOLEAN]
        /\ torn \in BOOLEAN
    <3>1. Blank(FALSE) \in [Session -> BOOLEAN]
      BY DEF Blank
    <3>2. torn \in BOOLEAN
      BY DEF Init
    <3> QED BY <3>1, <3>2 DEF Init
  <2>2. {install, tempfiles, transTemp, todo, data} \subseteq [Session -> SUBSET Pkg]
    BY DEF Init, Blank
  <2>3. pc \in [Session -> Where]
    BY DEF Init, Blank, Where
  <2> QED BY <1>1, <2>1, <2>2, <2>3 DEF Init, TypeOK
<1>3. HomeInv /\ LockInv /\ RanInv
  BY <1>1 DEF HomeInv, LockInv, RanInv
<1>4. SweptInv /\ SavedInv
  BY <1>1 DEF SweptInv, SweptOK, SavedInv, SavedOK, Finalized
<1> QED BY <1>1, <1>2, <1>3, <1>4 DEF IInv

\* The environment is what it was in the beginning.
LEMMA WorldStep == ASSUME [Next]_vars PROVE world' = world
<1>1. ASSUME NEW s \in Session, Transact(s) \/ Finalize(s) PROVE world' = world
  BY <1>1 DEF Transact, Finalize, Start, DownloadPlain, Resolve, GiveUp, AddTempfiles,
     TakeDownloadLock, Download, DownloadEnds, EmptyTransaction, TakeRpmdbLock,
     TransactionTest, TransactionRefused, RunTransaction, FinalizeKeeping,
     FinalizeSuccess, FinalizeFailure, Sweep, SweepEnds, SaveNothing, SaveRead,
     SaveTruncate, SaveDump
<1>2. ASSUME NEW s \in Session, Continue(s) \/ Exit(s) \/ Crash(s) PROVE world' = world
  BY <1>2 DEF Continue, Exit, Crash
<1> QED BY <1>1, <1>2 DEF Next, CleanPackages, vars

\* The invariant holds throughout.
LEMMA Invariance == Spec => []IInv
<1>1. IInv /\ [Next]_vars => IInv'
  BY TypeStep, HomeStep, RanStep, LockStep, SweptStep, SavedStep, WorldStep DEF IInv
<1> QED BY <1>1, InitInv, PTL DEF Spec

------------------------------------------------------------------------------
(* What follows.                                                           *)

\* Every variable has its type.
THEOREM TypeCorrect == Spec => []TypeOK
<1>1. IInv => TypeOK
  BY DEF IInv
<1> QED BY <1>1, Invariance, PTL

\* Where the files of the cache go.
LEMMA FilesGoWhere ==
  ASSUME IInv, [Next]_vars, NEW f \in cache \ cache'
  PROVE  \/ CleanPackages
         \/ \E s \in Session :
              \/ (FinalizeSuccess(s) \/ FinalizeFailure(s)) /\ f \in tempfiles[s]
              \/ Sweep(s) /\ f \in todo[s] /\ f \notin todo'[s] /\ ran[s]
<1>1. ASSUME NEW s \in Session, Transact(s) PROVE FALSE
  BY <1>1 DEF Transact, Start, DownloadPlain, Resolve, GiveUp, AddTempfiles,
     TakeDownloadLock, Download, DownloadEnds, EmptyTransaction, TakeRpmdbLock,
     TransactionTest, TransactionRefused, RunTransaction, files
<1>2. ASSUME NEW s \in Session, Sweep(s) PROVE f \in todo[s] /\ f \notin todo'[s] /\ ran[s]
  BY <1>2 DEF Sweep, IInv, TypeOK, RanInv
<1>3. ASSUME NEW s \in Session, FinalizeSuccess(s) \/ FinalizeFailure(s) PROVE f \in tempfiles[s]
  BY <1>3 DEF FinalizeSuccess, FinalizeFailure
<1>4. ASSUME NEW s \in Session, Finalize(s)
      PROVE  FinalizeSuccess(s) \/ FinalizeFailure(s) \/ Sweep(s)
  BY <1>4 DEF Finalize, FinalizeKeeping, SweepEnds, SaveNothing, SaveRead, SaveTruncate,
     SaveDump, files
<1>5. ASSUME NEW s \in Session, Continue(s) \/ Exit(s) \/ Crash(s) PROVE FALSE
  BY <1>5 DEF Continue, Exit, Crash, files
<1> QED BY <1>1, <1>2, <1>3, <1>4, <1>5 DEF Next, vars, files

\* Only a session that has run its transaction deletes what was downloaded for one; a
\* transaction that was not carried out leaves the cached packages, and the success of an
\* earlier one in the same shell is not taken for its own.
THEOREM DeletesAfterRun == Spec => DeletedOnlyAfterRun
<1>1. IInv /\ [Next]_vars =>
        \A f \in cache \ cache' : CleanRuns \/ \E s \in Session : Deletes(s, f)
  <2> SUFFICES ASSUME IInv, [Next]_vars, NEW f \in cache \ cache'
               PROVE  CleanRuns \/ \E s \in Session : Deletes(s, f)
    OBVIOUS
  <2>1. CASE CleanPackages
    BY <2>1 DEF CleanPackages, CleanRuns, persistor
  <2>2. ASSUME NEW s \in Session, (FinalizeSuccess(s) \/ FinalizeFailure(s)) /\ f \in tempfiles[s]
        PROVE  Deletes(s, f)
    BY <2>2 DEF FinalizeSuccess, FinalizeFailure, Deletes
  <2>3. ASSUME NEW s \in Session, Sweep(s) /\ ran[s] PROVE Deletes(s, f)
    BY <2>3 DEF Sweep, Deletes
  <2> QED BY <2>1, <2>2, <2>3, FilesGoWhere
<1> QED BY <1>1, Invariance, PTL DEF Spec, DeletedOnlyAfterRun

\* From the test of a transaction to the end of its run no `dnf clean' and no transaction
\* of another session takes its files away; only a _finalize_base, which takes no lock.
THEOREM TestedStay == Spec => TestedFilesKept
<1>1. IInv /\ [Next]_vars =>
        \A s \in Session :
          pc[s] = "tested" /\ pc'[s] = "tested" /\ FilesGo(s) =>
            \E t \in Session \ {s} :
              \/ pc[t] = "finalize" /\ pc'[t] # "finalize"
              \/ todo'[t] # todo[t]
  <2> SUFFICES ASSUME IInv, [Next]_vars, NEW s \in Session,
                      pc[s] = "tested", pc'[s] = "tested", FilesGo(s)
               PROVE  \E t \in Session \ {s} :
                        \/ pc[t] = "finalize" /\ pc'[t] # "finalize"
                        \/ todo'[t] # todo[t]
    OBVIOUS
  <2>1. PICK f \in cache \ cache' : TRUE
    BY DEF FilesGo
  <2>2. ~CleanPackages
    BY NobodyAssumption DEF CleanPackages, IInv, LockInv
  <2>3. ASSUME NEW t \in Session, FinalizeSuccess(t) \/ FinalizeFailure(t)
        PROVE  t # s /\ pc[t] = "finalize" /\ pc'[t] # "finalize"
    BY <2>3 DEF FinalizeSuccess, FinalizeFailure, Goto, IInv, TypeOK
  <2>4. ASSUME NEW t \in Session, Sweep(t), f \in todo[t], f \notin todo'[t]
        PROVE  t # s /\ todo'[t] # todo[t]
    BY <2>4 DEF Sweep
  <2> QED BY <2>1, <2>2, <2>3, <2>4, FilesGoWhere
<1> QED BY <1>1, Invariance, PTL DEF Spec, TestedFilesKept

\* What is on record, file by file.
LEMMA OnRecord ==
  ASSUME NEW f
  PROVE  /\ f \in Recorded <=> f \in json \/ \E s \in Session : pc[s] = "dump" /\ f \in data[s]
         /\ f \in Recorded' <=> f \in json' \/ \E s \in Session : pc'[s] = "dump" /\ f \in data'[s]
BY DEF Recorded

\* One session alone drops a record only when it empties tempfiles.json, or is killed before
\* it has filled it.
LEMMA RecordsGo ==
  ASSUME IInv, [Next]_vars, Alone, NEW f \in Recorded \ Recorded'
  PROVE  \E s \in Session :
           \/ SaveTruncate(s) /\ f \in json /\ f \notin data[s]
           \/ Crash(s) /\ pc[s] = "dump"
<1>1. f \in json \/ \E s \in Session : pc[s] = "dump" /\ f \in data[s]
  BY OnRecord
<1>2. f \notin json' /\ \A s \in Session : pc'[s] = "dump" => f \notin data'[s]
  BY OnRecord
<1>3. ASSUME NEW s \in Session, Transact(s) PROVE FALSE
  BY <1>1, <1>2, <1>3 DEF Transact, Start, DownloadPlain, Resolve, GiveUp, AddTempfiles,
     TakeDownloadLock, Download, DownloadEnds, EmptyTransaction, TakeRpmdbLock,
     TransactionTest, TransactionRefused, RunTransaction, IInv, TypeOK, Goto, files,
     persistor
<1>4. ASSUME NEW s \in Session, SaveDump(s) PROVE FALSE
  <2>1. json = {} /\ \A t \in Session : pc[t] = "dump" => t = s
    BY <1>4 DEF SaveDump, IInv, HomeInv, Alone, SavedInv, SavedOK
  <2> QED BY <1>1, <1>2, <1>4, <2>1 DEF SaveDump
<1>5. ASSUME NEW s \in Session, Finalize(s), ~SaveDump(s), ~SaveTruncate(s) PROVE FALSE
  BY <1>1, <1>2, <1>5 DEF Finalize, FinalizeKeeping, FinalizeSuccess, FinalizeFailure,
     Sweep, SweepEnds, SaveNothing, SaveRead, IInv, TypeOK, Goto, files, persistor
<1>6. ASSUME NEW s \in Session, SaveTruncate(s) PROVE f \in json /\ f \notin data[s]
  BY <1>1, <1>2, <1>6 DEF SaveTruncate, IInv, TypeOK, Goto, persistor
<1>7. ASSUME NEW s \in Session, Continue(s) \/ Exit(s) PROVE FALSE
  BY <1>1, <1>2, <1>7 DEF Continue, Exit, Forget, IInv, TypeOK, Goto, files, persistor
<1>8. ASSUME NEW s \in Session, Crash(s) PROVE pc[s] = "dump"
  BY <1>1, <1>2, <1>8 DEF Crash, Forget, IInv, TypeOK, Goto, files
<1>9. ~CleanPackages /\ ~UNCHANGED vars
  BY <1>1, <1>2 DEF CleanPackages, vars, files, persistor
<1> QED BY <1>3, <1>4, <1>5, <1>6, <1>7, <1>8, <1>9 DEF Next

\* A record is dropped while its file is there only by TempfilePersistor.save after a
\* transaction that installed nothing, or by a kill between the two halves of save.
THEOREM ForgetsWithoutInstall == Spec => ForgottenOnlyWithoutInstall
<1> DEFINE Reason(s) == \/ pc[s] = "truncate" /\ empty[s] /\ ~installSet[s]
                        \/ pc[s] = "dump" /\ pc'[s] = "off"
<1>1. IInv /\ [Next]_vars =>
        \A f \in Recorded \ Recorded' : Alone /\ f \in cache' => \E s \in Session : Reason(s)
  <2> SUFFICES ASSUME IInv, [Next]_vars, NEW f \in Recorded \ Recorded', Alone, f \in cache'
               PROVE  \E s \in Session : Reason(s)
    OBVIOUS
  <2>1. ASSUME NEW s \in Session, Crash(s), pc[s] = "dump" PROVE Reason(s)
    BY <2>1 DEF Crash, Forget, Goto, IInv, TypeOK
  <2>2. ASSUME NEW s \in Session, SaveTruncate(s), f \in json, f \notin data[s]
        PROVE  Reason(s)
    <3>1. SweptOK(s) /\ SavedOK(s)
      BY DEF IInv, SweptInv, SavedInv
    <3> QED BY <2>2, <3>1 DEF SaveTruncate, SweptOK, SavedOK
  <2> QED BY <2>1, <2>2, RecordsGo
<1> QED BY <1>1, Invariance, PTL DEF Spec, ForgottenOnlyWithoutInstall

\* A running session keeps what it has in its lists.
LEMMA ListsGo ==
  ASSUME IInv, [Next]_vars, NEW s \in Session, NEW f \in tempfiles[s] \cup transTemp[s],
         f \notin tempfiles'[s] \cup transTemp'[s]
  PROVE  Exit(s) \/ Crash(s)
<1>1. ASSUME NEW t \in Session, Transact(t) PROVE FALSE
  BY <1>1 DEF Transact, Start, DownloadPlain, Resolve, GiveUp, AddTempfiles,
     TakeDownloadLock, Download, DownloadEnds, EmptyTransaction, TakeRpmdbLock,
     TransactionTest, TransactionRefused, RunTransaction, IInv, TypeOK, base
<1>2. ASSUME NEW t \in Session, Finalize(t) PROVE FALSE
  BY <1>2 DEF Finalize, FinalizeKeeping, FinalizeSuccess, FinalizeFailure, Sweep,
     SweepEnds, SaveNothing, SaveRead, SaveTruncate, SaveDump, IInv, TypeOK, base
<1>3. ASSUME NEW t \in Session, Continue(t) PROVE FALSE
  BY <1>3 DEF Continue
<1>4. ASSUME NEW t \in Session, Exit(t) \/ Crash(t) PROVE t = s
  BY <1>4 DEF Exit, Crash, Forget, IInv, TypeOK
<1> QED BY <1>1, <1>2, <1>3, <1>4 DEF Next, CleanPackages, vars, base

\* The lists of a session and tempfiles.json hand the files of the cache over to each other:
\* one is lost sight of only by a session that is killed, keeps its cache, or ends after a
\* transaction that installed nothing.
THEOREM OrphansWithReason == Spec => OrphanOnlyWithReason
<1>1. IInv /\ [Next]_vars =>
        \A f \in cache' :
          Alone /\ AccountedFor(f) /\ ~AccountedFor(f)' =>
            \E s \in Session :
              /\ pc[s] # "off" /\ pc'[s] = "off"
              /\ pc[s] = "saved" => keepcache[s] \/ (empty[s] /\ ~installSet[s])
  <2> SUFFICES ASSUME IInv, [Next]_vars, NEW f \in cache',
                      Alone, AccountedFor(f), ~AccountedFor(f)'
               PROVE  \E s \in Session :
                        /\ pc[s] # "off" /\ pc'[s] = "off"
                        /\ pc[s] = "saved" => keepcache[s] \/ (empty[s] /\ ~installSet[s])
    OBVIOUS
  <2>1. /\ f \notin Recorded'
        /\ \A s \in Session : f \notin tempfiles'[s] \cup transTemp'[s]
    BY DEF AccountedFor
  <2>2. CASE f \in Recorded
    <3>1. ASSUME NEW s \in Session, SaveTruncate(s), f \in json, f \notin data[s] PROVE FALSE
      <4>1. SweptOK(s) /\ SavedOK(s)
        BY DEF IInv, SweptInv, SavedInv
      <4> QED BY <2>1, <3>1, <4>1 DEF SaveTruncate, SweptOK, SavedOK, base
    <3>2. ASSUME NEW s \in Session, Crash(s), pc[s] = "dump"
          PROVE  pc[s] # "off" /\ pc'[s] = "off" /\ pc[s] # "saved"
      BY <3>2 DEF Crash, Forget, Goto, IInv, TypeOK
    <3> QED BY <2>1, <2>2, <3>1, <3>2, RecordsGo
  <2>3. ASSUME NEW s \in Session, f \in tempfiles[s] \cup transTemp[s]
        PROVE  /\ pc[s] # "off" /\ pc'[s] = "off"
               /\ pc[s] = "saved" => keepcache[s] \/ (empty[s] /\ ~installSet[s])
    <3>1. Exit(s) \/ Crash(s)
      BY <2>1, <2>3, ListsGo
    <3>2. /\ pc[s] # "off" /\ pc'[s] = "off" /\ cache' = cache /\ json' = json
      BY <3>1 DEF Exit, Crash, Forget, Goto, IInv, TypeOK, files
    <3>3. f \notin json
      BY <2>1, <3>2, OnRecord
    <3>4. SweptOK(s) /\ SavedOK(s)
      BY DEF IInv, SweptInv, SavedInv
    <3> QED BY <2>3, <3>2, <3>3, <3>4 DEF SweptOK, SavedOK, Finalized
  <2> QED BY <2>2, <2>3 DEF AccountedFor
<1> QED BY <1>1, Invariance, PTL DEF Spec, OrphanOnlyWithReason

------------------------------------------------------------------------------
(* The locks of the model are locks as ProcessLock implements them.        *)

DownloadLock == INSTANCE LockPromise
  WITH Process <- Session, inside <- {s \in Session : downloadLock = s}
RpmdbLock == INSTANCE LockPromise
  WITH Process <- Session, inside <- {s \in Session : rpmdbLock = s}

\* Packages are downloaded inside the lock of the downloads.
DownloadInv == \A s \in Session : pc[s] = "downloading" => downloadLock = s

\* Every step keeps that.
LEMMA DownloadLockStep ==
  ASSUME TypeOK, DownloadInv, [Next]_vars
  PROVE  DownloadInv'
<1>1. ASSUME NEW s \in Session, Transact(s) PROVE DownloadInv'
  <2>1. CASE TakeDownloadLock(s)
    BY <2>1, NobodyAssumption DEF TakeDownloadLock, DownloadInv, TypeOK, Goto
  <2>2. CASE DownloadEnds(s)
    BY <2>2 DEF DownloadEnds, DownloadInv, TypeOK, Goto
  <2>3. ASSUME ~TakeDownloadLock(s), ~DownloadEnds(s) PROVE DownloadInv'
    BY <1>1, <2>3 DEF Transact, Start, DownloadPlain, Resolve, GiveUp, AddTempfiles,
       Download, EmptyTransaction, TakeRpmdbLock, TransactionTest, TransactionRefused,
       RunTransaction, DownloadInv, TypeOK, Goto, locks
  <2> QED BY <2>1, <2>2, <2>3
<1>2. ASSUME NEW s \in Session, Finalize(s) PROVE DownloadInv'
  BY <1>2 DEF Finalize, FinalizeKeeping, FinalizeSuccess, FinalizeFailure, Sweep,
     SweepEnds, SaveNothing, SaveRead, SaveTruncate, SaveDump, DownloadInv, TypeOK, Goto,
     files, locks, base, persistor
<1>3. ASSUME NEW s \in Session, Continue(s) \/ Exit(s) \/ Crash(s) PROVE DownloadInv'
  BY <1>3 DEF Continue, Exit, Crash, Forget, Release, DownloadInv, TypeOK, Goto, files,
     locks, base, persistor
<1>4. CASE CleanPackages \/ UNCHANGED vars
  BY <1>4 DEF CleanPackages, vars, DownloadInv, TypeOK, Goto, files, locks, base, persistor
<1> QED BY <1>1, <1>2, <1>3, <1>4 DEF Next

\* No step gives a lock to a second session, or takes one from a session that has it.
LEMMA LocksMove ==
  ASSUME IInv, DownloadInv, [Next]_vars
  PROVE  /\ \/ downloadLock' = downloadLock
            \/ downloadLock = Nobody /\ downloadLock' \in Session
            \/ downloadLock \in Session /\ downloadLock' = Nobody
         /\ \/ rpmdbLock' = rpmdbLock
            \/ rpmdbLock = Nobody /\ rpmdbLock' \in Session
            \/ rpmdbLock \in Session /\ rpmdbLock' = Nobody
<1> USE DEF IInv
<1>1. ASSUME NEW s \in Session, TakeDownloadLock(s) \/ DownloadEnds(s)
      PROVE  /\ rpmdbLock' = rpmdbLock
             /\ \/ downloadLock = Nobody /\ downloadLock' \in Session
                \/ downloadLock \in Session /\ downloadLock' = Nobody
  BY <1>1 DEF TakeDownloadLock, DownloadEnds, DownloadInv
<1>2. ASSUME NEW s \in Session, TakeRpmdbLock(s) \/ TransactionRefused(s) \/ RunTransaction(s)
      PROVE  /\ downloadLock' = downloadLock
             /\ \/ rpmdbLock = Nobody /\ rpmdbLock' \in Session
                \/ rpmdbLock \in Session /\ rpmdbLock' = Nobody
  BY <1>2 DEF TakeRpmdbLock, TransactionRefused, RunTransaction, LockInv
<1>3. ASSUME NEW s \in Session, Crash(s)
      PROVE  /\ downloadLock' = downloadLock \/ (downloadLock \in Session /\ downloadLock' = Nobody)
             /\ rpmdbLock' = rpmdbLock \/ (rpmdbLock \in Session /\ rpmdbLock' = Nobody)
  BY <1>3 DEF Crash, Release
<1>4. ASSUME UNCHANGED locks
      PROVE  downloadLock' = downloadLock /\ rpmdbLock' = rpmdbLock
  BY <1>4 DEF locks
<1> QED BY <1>1, <1>2, <1>3, <1>4 DEF Next, Transact, Finalize, Continue, Exit, Start,
  DownloadPlain, Resolve, GiveUp, AddTempfiles, Download, EmptyTransaction, TransactionTest,
  FinalizeKeeping, FinalizeSuccess, FinalizeFailure, Sweep, SweepEnds, SaveNothing, SaveRead,
  SaveTruncate, SaveDump, CleanPackages, vars, locks

\* A variable that names the session inside, and moves that way, is a LockPromise.
LEMMA MovesAreSteps ==
  ASSUME NEW x \in Session \cup {Nobody}, NEW y \in Session \cup {Nobody},
         y = x \/ (x = Nobody /\ y \in Session) \/ (x \in Session /\ y = Nobody)
  PROVE  \/ {s \in Session : y = s} = {s \in Session : x = s}
         \/ \E p \in Session : {s \in Session : x = s} = {} /\ {s \in Session : y = s} = {p}
         \/ \E p \in Session : /\ p \in {s \in Session : x = s}
                              /\ {s \in Session : y = s} = {s \in Session : x = s} \ {p}
<1>1. CASE y = x
  BY <1>1
<1>2. CASE x = Nobody /\ y \in Session
  <2>1. {s \in Session : x = s} = {} /\ {s \in Session : y = s} = {y}
    BY <1>2, NobodyAssumption
  <2> QED BY <1>2, <2>1
<1>3. CASE x \in Session /\ y = Nobody
  <2>1. /\ x \in {s \in Session : x = s}
        /\ {s \in Session : y = s} = {s \in Session : x = s} \ {x}
    BY <1>3, NobodyAssumption
  <2> QED BY <1>3, <2>1
<1> QED BY <1>1, <1>2, <1>3

\* The two locks of the sessions do what `with lock:' promises, kills included: what the
\* model assumes of them is what the theorem Implements of ProcessLockProofs gives.
THEOREM LocksKeepPromise == Spec => DownloadLock!Spec /\ RpmdbLock!Spec
<1>1. Init => DownloadLock!Init /\ RpmdbLock!Init /\ DownloadInv
  BY NobodyAssumption DEF Init, DownloadLock!Init, RpmdbLock!Init, DownloadInv, Blank
<1>2. DownloadInv /\ IInv /\ [Next]_vars => DownloadInv'
  BY DownloadLockStep DEF IInv
<1>3. ASSUME IInv, IInv', DownloadInv, [Next]_vars
      PROVE  /\ [DownloadLock!Next]_{s \in Session : downloadLock = s}
             /\ [RpmdbLock!Next]_{s \in Session : rpmdbLock = s}
  <2>1. {downloadLock, downloadLock', rpmdbLock, rpmdbLock'} \subseteq Session \cup {Nobody}
    BY <1>3 DEF IInv, TypeOK
  <2>2. [DownloadLock!Next]_{s \in Session : downloadLock = s}
    BY <1>3, <2>1, LocksMove, MovesAreSteps
       DEF DownloadLock!Next, DownloadLock!Acquire, DownloadLock!Leave
  <2>3. [RpmdbLock!Next]_{s \in Session : rpmdbLock = s}
    BY <1>3, <2>1, LocksMove, MovesAreSteps
       DEF RpmdbLock!Next, RpmdbLock!Acquire, RpmdbLock!Leave
  <2> QED BY <2>2, <2>3
<1> QED BY Invariance, <1>1, <1>2, <1>3, PTL DEF Spec, DownloadLock!Spec, RpmdbLock!Spec
==============================================================================
