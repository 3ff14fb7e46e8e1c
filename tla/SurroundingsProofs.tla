--------------------------- MODULE SurroundingsProofs ---------------------------
(*******************************************************************************)
(* What the components around a transaction guarantee, for all values of their *)
(* constants: one part for each, and at the end the theorems.                  *)
(*******************************************************************************)
EXTENDS Surroundings, FiniteSetTheorems, SequenceTheorems, WellFoundedInduction, TLAPS

Early == {"configure", "run", "resolve", "transaction", "bootc", "confirm", "download", "base"}
Late == {"rpm", "verify", "command", "exit"}

------------------------------------------------------------------------------
(* dnf and its exit status: the inductive invariant of CliRun.             *)

\* Nothing is changed before Base.do_transaction has the lock of the rpm database.
EarlyInv == v2 \in Early => v6 = {} /\ v7 = {} /\ ~v5

\* Modules are stored before rpm is run.
RpmInv == v2 = "rpm" => v6 = {} /\ v7 = {} /\ v5

\* What rpm has not carried out has failed, and the history would know.
VerifyInv ==
  v2 = "verify" => v5 /\ v8 = v1.record /\ v6 = v1.items \ v7

\* What the command of the user is told when do_transaction has returned.
Success ==
  v1.record /\ v1.resolving /\ ~v1.downloadonly /\ ~v1.test =>
    v6 = v1.items /\ (v1.modules \/ v1.groups => v5)
CommandRunInv == v2 = "command" => Success

ExitInv == v2 = "exit" => (v9 = 0 => Success) /\ (v9 = 200 => v6 = {} /\ v7 = {} /\ ~v5)

CommandInv ==
  /\ Command!TypeOK /\ v2 \in Early \cup Late
  /\ EarlyInv /\ RpmInv /\ VerifyInv /\ CommandRunInv /\ ExitInv

\* main begins with nothing done.
LEMMA CommandInit == Command!Init => CommandInv
BY DEF Command!Init, CommandInv, Command!TypeOK, EarlyInv, RpmInv, VerifyInv, CommandRunInv,
       ExitInv, Early, Late, Command!Running

\* Every step, whatever it ends with, keeps the invariant.
LEMMA CommandStep == CommandInv /\ [Command!Next]_(Command!vars) => CommandInv'
<1> SUFFICES ASSUME CommandInv, [Command!Next]_(Command!vars) PROVE CommandInv'
  OBVIOUS
<1> USE DEF CommandInv, Command!TypeOK, EarlyInv, RpmInv, VerifyInv, CommandRunInv, ExitInv,
            Success, Early, Late,
            Command!Raise, Command!Return, Command!Goto, Command!Untouched, Command!effects,
            Command!Running
<1>1. CASE Command!Configure
  BY <1>1 DEF Command!Configure
<1>2. CASE Command!Run
  BY <1>2 DEF Command!Run
<1>3. CASE Command!Resolve
  BY <1>3 DEF Command!Resolve
<1>4. CASE Command!Begin
  <2>1. CASE Command!Raise("error")
    BY <1>4, <2>1 DEF Command!Begin
  <2>2. CASE ~Command!Something /\ Command!Goto("command")
    BY <1>4, <2>2 DEF Command!Begin, Command!Something
  <2>3. CASE Command!Goto("bootc")
    BY <1>4, <2>3 DEF Command!Begin
  <2> QED BY <1>4, <2>1, <2>2, <2>3 DEF Command!Begin
<1>5. CASE Command!CheckPersistence
  BY <1>5 DEF Command!CheckPersistence
<1>6. CASE Command!Confirm
  <2>1. CASE Command!Raise("cli") /\ UNCHANGED v4
    BY <1>6, <2>1 DEF Command!Confirm
  <2>2. CASE v4' = (Command!Bootc /\ v1.system = "readonly") /\ Command!Goto("download")
    <3>1. v4' \in BOOLEAN
      BY <2>2
    <3> QED BY <1>6, <2>2, <3>1 DEF Command!Confirm
  <2> QED BY <1>6, <2>1, <2>2 DEF Command!Confirm
<1>7. CASE Command!Download
  BY <1>7 DEF Command!Download
<1>8. CASE Command!Empty
  BY <1>8 DEF Command!Empty
<1>9. CASE Command!Test
  <2>1. CASE /\ Command!Raise("lock") \/ Command!Raise("check") \/ Command!Raise("error")
             /\ UNCHANGED v5
    BY <1>9, <2>1 DEF Command!Test
  <2>2. CASE Command!Goto(IF v1.test THEN "command" ELSE "rpm") /\ v5' = ~v1.test
    <3>1. v5' \in BOOLEAN /\ (~v5' => v1.test) /\ (v5' => ~v1.test)
      BY <2>2
    <3> QED BY <1>9, <2>2, <3>1 DEF Command!Test
  <2> QED BY <1>9, <2>1, <2>2 DEF Command!Test
<1>10. CASE Command!Rpm
  BY <1>10 DEF Command!Rpm, Command!World
<1>11. CASE Command!Verify
  BY <1>11 DEF Command!Verify, Command!SomeFailed
<1>12. CASE Command!Finish
  BY <1>12 DEF Command!Finish
<1>13. CASE Command!Interrupt
  BY <1>13 DEF Command!Interrupt
<1>14. CASE UNCHANGED Command!vars
  BY <1>14 DEF Command!vars
<1> QED
  BY <1>1, <1>2, <1>3, <1>4, <1>5, <1>6, <1>7, <1>8, <1>9, <1>10, <1>11, <1>12, <1>13, <1>14
  DEF Command!Next

\* The exit status is true: 0 is success if there is a history, and 200 has changed
\* nothing (cli.py:308, main.py).
LEMMA CommandHonest == CommandInv => Command!TypeOK /\ Command!ExitIsHonest
BY DEF CommandInv, Command!TypeOK, ExitInv, Success, Command!ExitIsHonest, Command!ZeroMeansDone,
       Command!Running

------------------------------------------------------------------------------
(* dnf-automatic and what it tells: the inductive invariant of AutomaticRun. *)

AllNew == \A u \in Update : v6[u] = "new"
NoneNew == \A u \in Update : v6[u] # "new"

\* Before the transaction no update is applied and no message is out.
UntoldInv ==
  v4 \in {"start", "resolve", "available", "downloaded", "transaction", "commit"} =>
    /\ "error" \notin v7
    /\ \A i \in DOMAIN v8 : v8[i] = "nothing"
    /\ v4 # "commit" => NoneNew /\ "applied" \notin v7

\* The emitters are notified of an application of all updates, and if they are not
\* there was none.
CommitInv == v4 = "commit" => IF "applied" \in v7 THEN AllNew ELSE NoneNew
RebootInv == v4 = "reboot" => AllNew

\* The handler's commit tells of an error.
ErrorInv == v4 = "errcommit" => "error" \in v7

MessageInv ==
  \A i \in DOMAIN v8 : /\ v8[i] = "applied" => AllNew
                       /\ v8[i] \in {"available", "downloaded"} => NoneNew

AutomaticExitInv ==
  /\ v4 # "done" => v9 = Automatic!Running
  /\ v9 = 0 => AllNew \/ NoneNew

AutomaticInv ==
  /\ Automatic!TypeOK
  /\ UntoldInv /\ CommitInv /\ RebootInv /\ ErrorInv /\ MessageInv /\ AutomaticExitInv

\* What an emitter says is what it was notified of last.
LEMMA Message ==
  ASSUME NEW known \in SUBSET Automatic!Stage
  PROVE  /\ Automatic!PrepareMsg(known) \in Automatic!Stage
         /\ "error" \in known => Automatic!PrepareMsg(known) = "error"
         /\ Automatic!PrepareMsg(known) = "applied" => "applied" \in known
         /\ Automatic!PrepareMsg(known) \in {"available", "downloaded"} => "applied" \notin known
BY DEF Automatic!PrepareMsg, Automatic!Stage

\* A commit changes messages only to what the emitters know.
LEMMA CommitTells ==
  ASSUME Automatic!TypeOK, NEW i, Automatic!CommitUntil(i)
  PROVE  /\ v8' \in [1..Len(v3) -> Automatic!Stage]
         /\ \A j \in 1..Len(v3) : v8'[j] \in {v8[j], Automatic!PrepareMsg(v7)}
BY Message DEF Automatic!CommitUntil, Automatic!TypeOK

\* AutomaticConfig.commands are two truth values.
LEMMA ConfiguredType ==
  ASSUME NEW apply \in BOOLEAN, NEW download \in BOOLEAN, NEW options
  PROVE  Automatic!Configured([apply |-> apply, download |-> download], options)
           \in [apply : BOOLEAN, download : BOOLEAN]
<1> DEFINE a == Automatic!Overridden(options.install, apply)
           d == Automatic!Overridden(options.download, download)
<1>1. a \in BOOLEAN /\ d \in BOOLEAN
  BY DEF Automatic!Overridden
<1>2. Automatic!Configured([apply |-> apply, download |-> download], options)
        = Automatic!Imply([apply |-> a, download |-> d])
  BY DEF Automatic!Configured
<1> HIDE DEF a, d
<1>3. Automatic!Imply([apply |-> a, download |-> d]) = [apply |-> a, download |-> d \/ a]
  BY DEF Automatic!Imply
<1> QED BY <1>1, <1>2, <1>3

\* An error leaves the emitters' messages and the updates as they are.
LEMMA RaiseKeeps ==
  ASSUME AutomaticInv, Automatic!Raise, UNCHANGED <<v1, v2, v3, v5>>, v4 \notin {"errcommit",
  "done"},
         v6' \in [Update -> {"old", "cached", "new"}], v8' \in [1..Len(v3) -> Automatic!Stage],
         MessageInv'
  PROVE  AutomaticInv'
<1>1. \/ v4' = "errcommit" /\ v9' = v9 /\ v7' = v7 \cup {"error"}
      \/ v4' = "done" /\ v9' = 1 /\ v7' = v7
  BY DEF Automatic!Raise, Automatic!Goto, Automatic!Return
<1>2. Automatic!TypeOK'
  BY <1>1 DEF AutomaticInv, Automatic!TypeOK, Automatic!Running, Automatic!Stage
<1>3. UntoldInv' /\ CommitInv' /\ RebootInv' /\ ErrorInv' /\ AutomaticExitInv'
  BY <1>1 DEF AutomaticInv, UntoldInv, CommitInv, RebootInv, ErrorInv, AutomaticExitInv,
              Automatic!Running
<1> QED BY <1>2, <1>3 DEF AutomaticInv

\* main starts with emitters that have nothing to tell.
LEMMA AutomaticInit == Automatic!Init => AutomaticInv
BY DEF Automatic!Init, AutomaticInv, Automatic!TypeOK, UntoldInv, CommitInv, RebootInv, ErrorInv,
       MessageInv, AutomaticExitInv,
       AllNew, NoneNew, Automatic!Running, Automatic!Stage

\* Every step keeps the messages true.
LEMMA AutomaticStep == AutomaticInv /\ [Automatic!Next]_(Automatic!vars) => AutomaticInv'
<1> SUFFICES ASSUME AutomaticInv, [Automatic!Next]_(Automatic!vars) PROVE AutomaticInv'
  OBVIOUS
<1> USE DEF AutomaticInv, Automatic!TypeOK, UntoldInv, CommitInv, RebootInv, ErrorInv,
            MessageInv, AutomaticExitInv,
            AllNew, NoneNew, Automatic!Running, Automatic!Stage, Automatic!Goto, Automatic!Return
<1>1. CASE Automatic!ReadConf
  <2>1. CASE Automatic!Raise /\ UNCHANGED v5
    BY <1>1, <2>1, RaiseKeeps DEF Automatic!ReadConf
  <2>2. CASE /\ v5' = Automatic!Configured([apply |-> v2.apply, download |-> v2.download],
                                           Automatic!Units[v1])
             /\ Automatic!Goto("resolve") /\ UNCHANGED v7
    <3>1. v5' \in [apply : BOOLEAN, download : BOOLEAN]
      <4>1. v2.apply \in BOOLEAN /\ v2.download \in BOOLEAN
        BY DEF Automatic!File
      <4> QED BY <2>2, <4>1, ConfiguredType
    <3> QED BY <1>1, <2>2, <3>1 DEF Automatic!ReadConf
  <2> QED BY <1>1, <2>1, <2>2 DEF Automatic!ReadConf
<1>2. CASE Automatic!Prepare
  BY <1>2, RaiseKeeps DEF Automatic!Prepare
<1>3. CASE Automatic!DownloadUpdates
  <2>1. CASE ~v5.download /\ Automatic!Goto("commit") /\ UNCHANGED <<v6, v7>>
    BY <1>3, <2>1 DEF Automatic!DownloadUpdates
  <2>2. CASE /\ v6' = [u \in Update |-> "cached"]
             /\ v7' = v7 \cup {"downloaded"} /\ Automatic!Goto("downloaded")
    BY <1>3, <2>2 DEF Automatic!DownloadUpdates
  <2>3. ASSUME NEW got \in SUBSET Update, Automatic!Raise,
               v6' = [u \in Update |-> IF u \in got THEN "cached" ELSE "old"]
        PROVE  AutomaticInv'
    BY <1>3, <2>3, RaiseKeeps DEF Automatic!DownloadUpdates
  <2> QED BY <1>3, <2>1, <2>2, <2>3 DEF Automatic!DownloadUpdates
<1>4. CASE Automatic!GpgSigCheck
  BY <1>4, RaiseKeeps DEF Automatic!GpgSigCheck
<1>5. CASE Automatic!ApplyUpdates
  <2>1. PICK new \in SUBSET Update :
          /\ v6' = [u \in Update |-> IF u \in new THEN "new" ELSE "cached"]
          /\ \/ new = Update /\ Automatic!Goto("commit") /\ v7' = v7 \cup {"applied"}
             \/ Automatic!Raise
    BY <1>5 DEF Automatic!ApplyUpdates, Automatic!AllItems
  <2>2. CASE Automatic!Raise
    BY <1>5, <2>1, <2>2, RaiseKeeps DEF Automatic!ApplyUpdates
  <2>3. CASE new = Update /\ Automatic!Goto("commit") /\ v7' = v7 \cup {"applied"}
    BY <1>5, <2>1, <2>3 DEF Automatic!ApplyUpdates
  <2> QED BY <2>1, <2>2, <2>3
<1>6. CASE Automatic!Commit
  <2>1. PICK i : Automatic!CommitUntil(i)
    BY <1>6 DEF Automatic!Commit
  <2>2. v8' \in [1..Len(v3) -> Automatic!Stage] /\ MessageInv'
    BY <1>6, <2>1, CommitTells, Message DEF Automatic!Commit
  <2>3. CASE Automatic!Raise
    BY <1>6, <2>2, <2>3, RaiseKeeps DEF Automatic!Commit
  <2>4. CASE /\ IF "applied" \in v7 /\ v2.reboot
                THEN Automatic!Goto("reboot") ELSE Automatic!Return(0)
             /\ UNCHANGED v7
    BY <1>6, <2>2, <2>4 DEF Automatic!Commit
  <2> QED BY <1>6, <2>3, <2>4 DEF Automatic!Commit
<1>7. CASE Automatic!Reboot
  BY <1>7, RaiseKeeps DEF Automatic!Reboot
<1>8. CASE Automatic!ErrorCommit
  <2>1. PICK i : Automatic!CommitUntil(i)
    BY <1>8 DEF Automatic!ErrorCommit
  <2>2. v8' \in [1..Len(v3) -> Automatic!Stage] /\ MessageInv'
    BY <1>8, <2>1, CommitTells, Message DEF Automatic!ErrorCommit
  <2> QED BY <1>8, <2>2 DEF Automatic!ErrorCommit
<1>9. CASE UNCHANGED Automatic!vars
  BY <1>9 DEF Automatic!vars
<1> QED BY <1>1, <1>2, <1>3, <1>4, <1>5, <1>6, <1>7, <1>8, <1>9 DEF Automatic!Next

\* The last message of each emitter and the exit status are what happened
\* (automatic/main.py:382-394, emitter.py:50).
LEMMA AutomaticTold == AutomaticInv => Automatic!TypeOK /\ Automatic!ToldWhatHappened
BY DEF AutomaticInv, Automatic!TypeOK, MessageInv, AutomaticExitInv, AllNew, NoneNew,
       Automatic!ToldWhatHappened

------------------------------------------------------------------------------
(* Keys and metadata: KeyImportProofs and RepoExpiryProofs, for the variables *)
(* of the sum.  What they EXTEND is the same component once more.             *)

KeyProofs == INSTANCE KeyImportProofs WITH
  Package <- SignedPkg, Id <- KeyId,
  keyring <- v1, marker <- v2, tried <- v3, cache <- v4, conf <- v5, job <- v6, runs <- v7

ExpiryProofs == INSTANCE RepoExpiryProofs WITH
  Worlds <- ExpiryWorlds,
  world <- v1, marked <- v2, cached <- v3, stale <- v4, recent <- v5, mdLock <- v6,
  run <- v7, due <- v8

\* A step of Keys is one of KeyProofs.
LEMMA KeysSame == Keys!Next => KeyProofs!Next
BY DEF Keys!Conf, Keys!Job, Keys!Unknown, Keys!Idle, Keys!RpmKeys, Keys!ProcessRpmOutput,
  Keys!CheckSig, Keys!SigCheckPkg, Keys!CacheHit, Keys!Verify, Keys!Validity, Keys!Learned,
  Keys!Answers, Keys!CheckImportedKeysValidity, Keys!Approved, Keys!GpgKeyCheck, Keys!Start,
  Keys!Done, Keys!CheckOnly, Keys!KeyInstalled, Keys!KeysDidNotHelp, Keys!GetKeyForPackage,
  Keys!Check, Keys!GpgSigCheckEnds, Keys!CommandEnds, Keys!RemoveKey, Keys!Range, Keys!Next,
  KeyProofs!Conf, KeyProofs!Job, KeyProofs!Unknown, KeyProofs!Idle, KeyProofs!RpmKeys,
  KeyProofs!ProcessRpmOutput, KeyProofs!CheckSig, KeyProofs!SigCheckPkg, KeyProofs!CacheHit,
  KeyProofs!Verify, KeyProofs!Validity, KeyProofs!Learned, KeyProofs!Answers,
  KeyProofs!CheckImportedKeysValidity, KeyProofs!Approved, KeyProofs!GpgKeyCheck,
  KeyProofs!Start, KeyProofs!Done, KeyProofs!CheckOnly, KeyProofs!KeyInstalled,
  KeyProofs!KeysDidNotHelp, KeyProofs!GetKeyForPackage, KeyProofs!Check,
  KeyProofs!GpgSigCheckEnds, KeyProofs!CommandEnds, KeyProofs!RemoveKey, KeyProofs!Range,
  KeyProofs!Next

\* Every step of a command keeps what it knows of the packages.
LEMMA KeysStep == KeyProofs!IInv /\ [Keys!Next]_(Keys!vars) => KeyProofs!IInv'
BY KeysSame, KeyProofs!StepInv DEF Keys!vars, KeyProofs!vars

\* Before the first command nothing is checked.
LEMMA KeysInit == Keys!Init => KeyProofs!IInv
BY KeyProofs!InitInv DEF Keys!Init, KeyProofs!Init, Keys!Conf, KeyProofs!Conf, Keys!Idle,
   KeyProofs!Idle, Keys!Unknown, KeyProofs!Unknown

\* rpm is given only packages that are whole and whose signatures are by keys it has.
LEMMA KeysVerified == KeyProofs!IInv => Keys!RunsOnlyVerified
BY KeyProofs!RunIsVerified DEF Keys!RunsOnlyVerified, KeyProofs!RunsOnlyVerified

\* A step of Expiry is one of ExpiryProofs.
LEMMA ExpirySame == Expiry!Next => ExpiryProofs!Next
BY DEF Expiry!Commands, Expiry!Modes, Expiry!Run, Expiry!Off, Expiry!ExpiredAtStart,
  Expiry!Begin, Expiry!LoadNothing, Expiry!LoadStarts, Expiry!TimerSkips,
  Expiry!UpdateCache, Expiry!UpdateNothing, Expiry!Usable, Expiry!Pending,
  Expiry!LoadCached, Expiry!Refresh, Expiry!LoadFails, Expiry!LoadEnds, Expiry!PackageFails,
  Expiry!Clean, Expiry!UsedExpired, Expiry!Close, Expiry!Crash, Expiry!Age,
  Expiry!PeriodElapses, Expiry!Next, ExpiryProofs!Commands, ExpiryProofs!Modes,
  ExpiryProofs!Run, ExpiryProofs!Off, ExpiryProofs!ExpiredAtStart, ExpiryProofs!Begin,
  ExpiryProofs!LoadNothing, ExpiryProofs!LoadStarts, ExpiryProofs!TimerSkips,
  ExpiryProofs!UpdateCache, ExpiryProofs!UpdateNothing, ExpiryProofs!Usable,
  ExpiryProofs!Pending, ExpiryProofs!LoadCached, ExpiryProofs!Refresh,
  ExpiryProofs!LoadFails, ExpiryProofs!LoadEnds, ExpiryProofs!PackageFails,
  ExpiryProofs!Clean, ExpiryProofs!UsedExpired, ExpiryProofs!Close, ExpiryProofs!Crash,
  ExpiryProofs!Age, ExpiryProofs!PeriodElapses, ExpiryProofs!Next

\* Each step hands the marks on, and each mark has a reason.
LEMMA ExpiryStep == ExpiryProofs!IInv /\ [Expiry!Next]_(Expiry!vars) => ExpiryProofs!IInv'
BY ExpirySame, ExpiryProofs!StepInv DEF Expiry!vars, ExpiryProofs!vars

\* In the beginning no run is on its way and nothing is due.
LEMMA ExpiryInit == Expiry!Init => ExpiryProofs!IInv
BY ExpiryProofs!InitInv DEF Expiry!Init, ExpiryProofs!Init, Expiry!Off, ExpiryProofs!Off

\* No metadata that is due is used, where nothing makes a run forget a mark.
LEMMA ExpiryUse ==
  ASSUME ExpiryProofs!OneProcess, ExpiryProofs!MarksAreKept
  PROVE  ExpiryProofs!IInv => Expiry!RevalidatedUnlessIdle
BY ExpiryProofs!UseFollows
DEF Expiry!RevalidatedUnlessIdle, ExpiryProofs!RevalidatedUnlessIdle,
    Expiry!RevalidatedWhenUsed, ExpiryProofs!RevalidatedWhenUsed

\* The marks are the ones there should be, where, in addition, no run is killed.
LEMMA ExpiryMarks ==
  ASSUME ExpiryProofs!OneProcess, Process # {}, ExpiryProofs!MarksAreKept,
         ExpiryProofs!MarksAreRemoved
  PROVE  ExpiryProofs!IInv => Expiry!MarksAreExact
BY ExpiryProofs!MarksFollow
DEF Expiry!MarksAreExact, ExpiryProofs!MarksAreExact, Expiry!DueIsMarked,
    ExpiryProofs!DueIsMarked, Expiry!MarksHaveReason, ExpiryProofs!MarksHaveReason

------------------------------------------------------------------------------
(* Lists: which versions are shown does not depend on colours.             *)

ListsInv ==
  /\ v1 \in Systems /\ v2 \in Lists!Request
  /\ v2.command = "list" /\ v4 # 2 => v3 = Lists!Shown(v2)

\* Among naturals there is a least one.
LEMMA Least ==
  ASSUME NEW T \in SUBSET Nat, T # {}
  PROVE  \E m \in T : \A n \in T : m <= n
<1> DEFINE Less == OpToRel(<, Nat)
<1>1. IsWellFoundedOn(Less, Nat)
  BY NatLessThanWellFounded
<1>2. \A m, n \in Nat : n < m => <<n, m>> \in Less
  BY DEF OpToRel
<1> HIDE DEF Less
<1>3. PICK m \in T : \A n \in T : <<n, m>> \notin Less
  BY <1>1, WFMin
<1>4. \A n \in T : ~(n < m) /\ n \in Nat /\ m \in Nat
  BY <1>2, <1>3
<1>5. \A n \in T : m <= n
  BY <1>4
<1> QED BY <1>5

\* Among finitely many naturals there is a greatest one.
LEMMA Greatest ==
  ASSUME NEW S \in SUBSET Nat, IsFiniteSet(S), S # {}
  PROVE  \E m \in S : \A n \in S : n <= m
<1> DEFINE Above(m) == {n \in S : n > m}
           Counts == {Cardinality(Above(m)) : m \in S}
<1>1. \A m \in S : IsFiniteSet(Above(m)) /\ Cardinality(Above(m)) \in Nat
  BY FS_Subset, FS_CardinalityType
<1>2. PICK m \in S : \A n \in S : Cardinality(Above(m)) <= Cardinality(Above(n))
  <2>1. Counts \in SUBSET Nat /\ Counts # {}
    BY <1>1
  <2>2. \E c \in Counts : \A d \in Counts : c <= d
    BY <2>1, Least
  <2> QED BY <2>2
<1>3. ASSUME NEW n \in S, n > m PROVE FALSE
  <2>1. Above(n) \in SUBSET Above(m) /\ n \in Above(m) /\ n \notin Above(n)
    <3>1. n \in Nat /\ ~(n > n) /\ \A x \in S : x > n => x > m
      BY <1>3
    <3> QED BY <1>3, <3>1
  <2>2. /\ Cardinality(Above(n)) <= Cardinality(Above(m))
        /\ Cardinality(Above(m)) # Cardinality(Above(n))
    <3> HIDE DEF Above
    <3> QED BY <1>1, <2>1, FS_Subset
  <2> HIDE DEF Above
  <2> QED BY <1>1, <1>2, <2>2
<1> QED BY <1>3

\* A package newer than the latest of each name is newer than all of them, and not one
\* of them.
LEMMA NewerThanLatest ==
  ASSUME NEW ps \in SUBSET Lists!Package, IsFiniteSet(ps), NEW p \in Lists!Package
  PROVE  /\ Lists!NewerThan(ps, p) <=> Lists!NewerThan(Lists!Latest(ps), p)
         /\ Lists!NewerThan(ps, p) => ~Lists!Has(ps, p)
<1> DEFINE same == {q \in ps : q.name = p.name}
           evrs == {q.evr : q \in same}
<1>1. p.evr \in Nat /\ \A q \in ps : q.evr \in Nat
  BY ListsAssumption DEF Lists!Package
<1>2. Lists!NewerThan(ps, p) => Lists!NewerThan(Lists!Latest(ps), p) /\ ~Lists!Has(ps, p)
  BY <1>1 DEF Lists!NewerThan, Lists!Latest, Lists!Has
<1>3. ASSUME Lists!NewerThan(Lists!Latest(ps), p) PROVE Lists!NewerThan(ps, p)
  <2>1. SUFFICES ASSUME NEW q \in same PROVE p.evr > q.evr
    BY DEF Lists!NewerThan
  <2>2. evrs \in SUBSET Nat /\ evrs # {} /\ IsFiniteSet(evrs)
    <3>1. IsFiniteSet(same)
      BY FS_Subset
    <3>2. IsFiniteSet(evrs)
      <4> DEFINE f == [x \in same |-> x.evr]
      <4>1. f \in Surjection(same, evrs)
        BY DEF Surjection
      <4> HIDE DEF same, evrs, f
      <4> QED BY <3>1, <4>1, FS_Surjection
    <3> QED BY <1>1, <2>1, <3>2
  <2>3. PICK m \in evrs : \A n \in evrs : n <= m
    <3> HIDE DEF evrs
    <3> QED BY <2>2, Greatest
  <2>4. PICK l \in same : l.evr = m
    BY <2>3
  <2>5. l \in Lists!Latest(ps)
    BY <2>3, <2>4 DEF Lists!Latest
  <2>6. p.evr > l.evr /\ q.evr <= l.evr
    BY <1>3, <2>1, <2>3, <2>4, <2>5 DEF Lists!NewerThan
  <2>7. p.evr \in Nat /\ l.evr \in Nat /\ q.evr \in Nat
    BY <1>1, <2>1, <2>4
  <2> QED BY <2>6, <2>7
<1> QED BY <1>2, <1>3

\* The lists of a request do not depend on whether they are to be coloured.
LEMMA PatternIgnoresColours ==
  ASSUME NEW r \in Lists!Request, NEW s \in Lists!Request,
         s = [r EXCEPT !.highlight = FALSE]
  PROVE  Lists!ListPattern(r) = Lists!ListPattern(s)
<1>1. /\ s.narrow = r.narrow /\ s.names = r.names /\ s.repo = r.repo
      /\ s.showdups = r.showdups /\ s.security = r.security
  BY DEF Lists!Request
<1>2. /\ \A ps : Lists!Matching(r, ps) = Lists!Matching(s, ps)
      /\ \A ps : Lists!FromRepo(r, ps) = Lists!FromRepo(s, ps)
      /\ \A ps : Lists!Secured(r, ps) = Lists!Secured(s, ps)
  BY <1>1 DEF Lists!Matching, Lists!FromRepo, Lists!Secured
<1>3. Lists!ListAll(r) = Lists!ListAll(s)
  <2> DEFINE All(inst, own, here, dups) ==
               LET avail == IF dups THEN here ELSE Lists!Latest(Lists!ByPriority(here))
                   again == {p \in avail : Lists!Has(inst, p)}
                   new == {p \in avail \ again : dups \/ Lists!NewerThan(inst, p)}
               IN [Lists!Nothing EXCEPT !.installed = own, !.reinstall = again,
                                        !.available = new, !.old = avail \ (again \cup new)]
  <2>1. \A x : Lists!ListAll(x) =
                 All(Lists!Matching(x, v1.installed),
                     Lists!FromRepo(x, Lists!Matching(x, v1.installed)),
                     Lists!FromRepo(x, Lists!Matching(x, Lists!Visible)), x.showdups)
    BY DEF Lists!ListAll
  <2> HIDE DEF All
  <2> QED BY <1>1, <1>2, <2>1
<1>4. Lists!ListAvailable(r) = Lists!ListAvailable(s)
  <2> DEFINE Some(inst, here, dups) ==
               LET avail == IF dups THEN here
                            ELSE Lists!FirstOfName(Lists!Latest(Lists!ByPriority(here)))
                   new == IF dups THEN {p \in here : ~Lists!Has(inst, p)}
                          ELSE {p \in avail : Lists!NewerThan(Lists!Latest(inst), p)}
                   again == IF dups THEN here \ new
                            ELSE {p \in avail : Lists!Has(Lists!Latest(inst), p)}
               IN [Lists!Nothing EXCEPT !.available = new, !.reinstall = again,
                                        !.old = avail \ (new \cup again)]
  <2>1. \A x : Lists!ListAvailable(x) =
                 Some(Lists!Matching(x, v1.installed),
                      Lists!FromRepo(x, Lists!Matching(x, Lists!Visible)), x.showdups)
    BY DEF Lists!ListAvailable
  <2> HIDE DEF Some
  <2> QED BY <1>1, <1>2, <2>1
<1>5. Lists!ListOthers(r) = Lists!ListOthers(s)
  BY <1>1, <1>2 DEF Lists!ListOthers
<1> QED BY <1>1, <1>3, <1>4, <1>5 DEF Lists!ListPattern

\* Equal lists differ in nothing.
LEMMA SameIsSame ==
  ASSUME NEW all, NEW plain, all = plain
  PROVE  Lists!DifferInOrigin(all, plain)
BY DEF Lists!DifferInOrigin

\* There is a first package of every name.
LEMMA FirstOfNameFacts ==
  ASSUME NEW ps
  PROVE  /\ Lists!FirstOfName(ps) \subseteq ps
         /\ \A p \in ps : \E q \in Lists!FirstOfName(ps) : q.name = p.name
<1> DEFINE first(n) == CHOOSE p \in ps : p.name = n
<1>1. Lists!FirstOfName(ps) = {first(n) : n \in {q.name : q \in ps}}
  BY DEF Lists!FirstOfName
<1>2. \A p \in ps : first(p.name) \in ps /\ first(p.name).name = p.name
  OBVIOUS
<1> HIDE DEF first
<1> QED BY <1>1, <1>2

\* The latest packages of the first repositories have one version and one priority.
LEMMA LatestIsOne ==
  ASSUME v1 \in Systems, NEW ps \in SUBSET Lists!Package,
         NEW p \in Lists!Latest(Lists!ByPriority(ps)),
         NEW q \in Lists!Latest(Lists!ByPriority(ps)), q.name = p.name
  PROVE  q.evr = p.evr /\ v1.priority[q.repo] = v1.priority[p.repo]
<1>1. /\ p \in ps /\ q \in ps /\ p \in Lists!ByPriority(ps) /\ q \in Lists!ByPriority(ps)
      /\ p.evr <= q.evr /\ q.evr <= p.evr
  BY DEF Lists!Latest, Lists!ByPriority
<1>2. v1.priority[p.repo] <= v1.priority[q.repo] /\ v1.priority[q.repo] <= v1.priority[p.repo]
  BY <1>1 DEF Lists!ByPriority
<1>3. p.evr \in Nat /\ q.evr \in Nat /\ p.repo \in Repo /\ q.repo \in Repo
  BY <1>1, ListsAssumption DEF Lists!Package
<1>4. v1.priority \in [Repo -> Nat]
  BY ListsAssumption DEF Lists!World
<1> QED BY <1>1, <1>2, <1>3, <1>4

\* For colours `list installed' and `list available' take the branch `all', and hide
\* what was not asked for.
LEMMA SameWithoutColours ==
  ASSUME v1 \in Systems, NEW r \in Lists!Request
  PROVE  LET plain == Lists!Shown([r EXCEPT !.highlight = FALSE]) IN
         /\ Lists!DifferInOrigin(Lists!Shown(r), plain)
         /\ r.showdups => Lists!Shown(r) = plain
<1> DEFINE s == [r EXCEPT !.highlight = FALSE]
           all == [r EXCEPT !.narrow = "all"]
           inst == Lists!Matching(r, v1.installed)
           here == Lists!FromRepo(r, Lists!Matching(r, Lists!Visible))
           latest == Lists!Latest(Lists!ByPriority(here))
           avail == IF r.showdups THEN here ELSE latest
           first == IF r.showdups THEN here ELSE Lists!FirstOfName(latest)
<1>1. /\ s \in Lists!Request /\ s.narrow = r.narrow /\ s.names = r.names
      /\ s.repo = r.repo /\ s.showdups = r.showdups /\ ~s.highlight
  BY DEF Lists!Request
<1>2. /\ all.narrow = "all" /\ all.names = r.names /\ all.repo = r.repo
      /\ all.showdups = r.showdups
  BY DEF Lists!Request
<1>3. Lists!ListPattern(r) = Lists!ListPattern(s)
  BY <1>1, PatternIgnoresColours
<1>4. Lists!ListPattern(all) = Lists!ListAll(all)
  BY <1>2 DEF Lists!ListPattern
<1>5. /\ Lists!Matching(all, v1.installed) = inst
      /\ Lists!FromRepo(all, Lists!Matching(all, Lists!Visible)) = here
      /\ Lists!FromRepo(all, inst) = Lists!FromRepo(r, inst)
  BY <1>2 DEF Lists!Matching, Lists!FromRepo
<1>6. avail \subseteq here /\ (r.showdups => avail = here) /\ here \subseteq Lists!Package
  BY ListsAssumption
  DEF Lists!Latest, Lists!ByPriority, Lists!FromRepo, Lists!Matching, Lists!Visible, Lists!World
<1>7. inst \in SUBSET Lists!Package /\ IsFiniteSet(inst)
  <2>1. inst \in SUBSET v1.installed
    BY DEF Lists!Matching
  <2> QED BY <2>1, FS_Subset, ListsAssumption DEF Lists!World
<1>8. CASE r.highlight /\ r.narrow = "installed"
  <2>1. Lists!Shown(r) = Lists!FromRepo(r, inst)
    <3>1. Lists!ListAll(all).installed = Lists!FromRepo(r, inst)
          /\ Lists!ListAll(all).others = {}
      BY <1>5 DEF Lists!ListAll, Lists!Nothing
    <3>2. DOMAIN Lists!ListAll(all) = DOMAIN Lists!Nothing
      BY DEF Lists!ListAll, Lists!Nothing
    <3> QED BY <1>4, <1>8, <3>1, <3>2 DEF Lists!Shown, Lists!ReturnPkgLists, Lists!Nothing
  <2>2. Lists!Shown(s) = Lists!FromRepo(r, inst)
    <3>1. Lists!ListPattern(r) = [Lists!Nothing EXCEPT !.installed = Lists!FromRepo(r, inst)]
      BY <1>8 DEF Lists!ListPattern, Lists!ListOthers
    <3>2. LET l == Lists!ListPattern(r) IN
          /\ l.installed = Lists!FromRepo(r, inst) /\ l.others = {}
          /\ l.available = {} /\ l.reinstall = {} /\ DOMAIN l = DOMAIN Lists!Nothing
      BY <3>1 DEF Lists!Nothing
    <3> HIDE DEF inst
    <3> QED BY <1>1, <1>3, <1>8, <3>2 DEF Lists!Shown, Lists!ReturnPkgLists, Lists!Nothing
  <2>3. Lists!Shown(r) = Lists!Shown(s)
    BY ONLY <2>1, <2>2, Zenon
  <2>4. Lists!DifferInOrigin(Lists!Shown(r), Lists!Shown(s))
    BY ONLY <2>3, SameIsSame
  <2> QED BY ONLY <2>3, <2>4
<1>9. CASE r.highlight /\ r.narrow = "available"
  <2> DEFINE again == {p \in avail : Lists!Has(inst, p)}
             new == {p \in avail \ again : r.showdups \/ Lists!NewerThan(inst, p)}
             found == IF r.showdups THEN {p \in here : ~Lists!Has(inst, p)}
                      ELSE {p \in first : Lists!NewerThan(Lists!Latest(inst), p)}
             known == IF r.showdups THEN here \ found
                      ELSE {p \in first : Lists!Has(Lists!Latest(inst), p)}
  <2>1. Lists!Shown(r) = new \cup (IF r.showdups THEN again ELSE {})
    <3>1. /\ Lists!ListAll(all).available = new /\ Lists!ListAll(all).reinstall = again
          /\ Lists!ListAll(all).others = {}
      BY <1>2, <1>5 DEF Lists!ListAll, Lists!Nothing
    <3>2. DOMAIN Lists!ListAll(all) = DOMAIN Lists!Nothing
      BY DEF Lists!ListAll, Lists!Nothing
    <3> HIDE DEF new, again
    <3> QED BY <1>2, <1>4, <1>9, <3>1, <3>2 DEF Lists!Shown, Lists!ReturnPkgLists, Lists!Nothing
  <2>2. Lists!Shown(s) = found \cup (IF r.showdups THEN known ELSE {})
    <3>1. Lists!ListPattern(r) = Lists!ListAvailable(r)
      BY <1>9 DEF Lists!ListPattern
    <3>2. /\ Lists!ListAvailable(r).available = found /\ Lists!ListAvailable(r).reinstall = known
          /\ Lists!ListAvailable(r).others = {} /\ Lists!ListAvailable(r).installed = {}
      BY DEF Lists!ListAvailable, Lists!Nothing
    <3>3. DOMAIN Lists!ListAvailable(r) = DOMAIN Lists!Nothing
      BY DEF Lists!ListAvailable, Lists!Nothing
    <3> HIDE DEF found, known
    <3> QED BY <1>1, <1>3, <3>1, <3>2, <3>3 DEF Lists!Shown, Lists!ReturnPkgLists, Lists!Nothing
  <2>3. CASE r.showdups
    <3>1. Lists!Shown(r) = here
      BY <1>6, <2>1, <2>3
    <3>2. Lists!Shown(s) = here
      BY <2>2, <2>3
    <3> QED BY <3>1, <3>2, SameIsSame
  <2>4. CASE ~r.showdups
    <3>1. \A p \in avail : /\ Lists!NewerThan(inst, p) <=> Lists!NewerThan(Lists!Latest(inst), p)
                           /\ Lists!NewerThan(inst, p) => ~Lists!Has(inst, p)
      BY <1>6, <1>7, NewerThanLatest
    <3>2. /\ Lists!FirstOfName(latest) \subseteq latest
          /\ \A p \in latest : \E q \in Lists!FirstOfName(latest) : q.name = p.name
      BY FirstOfNameFacts
    <3>3. \A p, q \in latest : q.name = p.name =>
            q.evr = p.evr /\ v1.priority[q.repo] = v1.priority[p.repo]
      BY <1>6, LatestIsOne
    <3>4. Lists!Shown(r) = {p \in latest : Lists!NewerThan(Lists!Latest(inst), p)}
      <4> HIDE DEF inst, latest, here
      <4> QED BY <2>1, <2>4, <3>1
    <3>5. Lists!Shown(s) = {p \in Lists!FirstOfName(latest) : Lists!NewerThan(Lists!Latest(inst), p)}
      BY <2>2, <2>4
    <3>6. \A p, q : q.name = p.name /\ q.evr = p.evr =>
            (Lists!NewerThan(Lists!Latest(inst), p) <=> Lists!NewerThan(Lists!Latest(inst), q))
      BY DEF Lists!NewerThan
    <3>7. Lists!DifferInOrigin(Lists!Shown(r), Lists!Shown(s))
      <4> HIDE DEF inst, latest, here, s
      <4>1. Lists!Shown(s) \subseteq Lists!Shown(r)
        BY ONLY <3>2, <3>4, <3>5
      <4>2. \A p \in Lists!Shown(r) \ Lists!Shown(s) : \E q \in Lists!Shown(s) :
              q.name = p.name /\ q.evr = p.evr /\ v1.priority[q.repo] = v1.priority[p.repo]
        BY ONLY <3>2, <3>3, <3>4, <3>5, <3>6
      <4> QED BY ONLY <4>1, <4>2 DEF Lists!DifferInOrigin
    <3> QED BY ONLY <2>4, <3>7
  <2> QED BY <2>3, <2>4
<1>10. CASE ~(r.highlight /\ r.narrow \in {"installed", "available"})
  <2>1. Lists!ReturnPkgLists(r, r.highlight) = Lists!ReturnPkgLists(s, s.highlight)
    BY <1>1, <1>3, <1>10 DEF Lists!ReturnPkgLists
  <2>2. Lists!Shown(r) = Lists!Shown(s)
    BY <2>1 DEF Lists!Shown
  <2> QED BY <2>2, SameIsSame
<1> QED BY <1>8, <1>9, <1>10

\* The lists of a command change only with the system.
LEMMA ShownStays ==
  ASSUME v1' = v1, v2' = v2
  PROVE  Lists!Shown(v2)' = Lists!Shown(v2)
<1>1. Lists!Visible' = Lists!Visible
  <2>1. \A list, r : Lists!InForce(list, r)' = Lists!InForce(list, r)
    BY DEF Lists!InForce
  <2>2. Lists!Visible \in SUBSET v1.available /\ Lists!Visible' \in SUBSET v1.available
    BY DEF Lists!Visible
  <2>3. \A p \in v1.available : p \in Lists!Visible' <=> p \in Lists!Visible
    BY <2>1 DEF Lists!Visible
  <2> QED BY <2>2, <2>3
<1>2. \A ps : Lists!ByPriority(ps)' = Lists!ByPriority(ps)
  BY DEF Lists!ByPriority
<1>3. \A r, ps : Lists!Secured(r, ps)' = Lists!Secured(r, ps)
  BY DEF Lists!Secured
<1>4. \A r : Lists!ListAll(r)' = Lists!ListAll(r)
  <2> DEFINE All(inst, own, avail, dups) ==
               LET again == {p \in avail : Lists!Has(inst, p)}
                   new == {p \in avail \ again : dups \/ Lists!NewerThan(inst, p)}
               IN [Lists!Nothing EXCEPT !.installed = own, !.reinstall = again,
                                        !.available = new, !.old = avail \ (again \cup new)]
             Avail(x) == LET here == Lists!FromRepo(x, Lists!Matching(x, Lists!Visible))
                         IN IF x.showdups THEN here ELSE Lists!Latest(Lists!ByPriority(here))
  <2>1. \A x : Lists!ListAll(x) =
                 All(Lists!Matching(x, v1.installed),
                     Lists!FromRepo(x, Lists!Matching(x, v1.installed)), Avail(x), x.showdups)
    BY DEF Lists!ListAll
  <2>2. \A x : Lists!ListAll(x)' =
                 All(Lists!Matching(x, v1.installed'),
                     Lists!FromRepo(x, Lists!Matching(x, v1.installed')), Avail(x)', x.showdups)
    BY DEF Lists!ListAll
  <2> HIDE DEF All
  <2>3. \A x : Avail(x)' = Avail(x)
    BY <1>1, <1>2
  <2> HIDE DEF Avail
  <2> QED BY <2>1, <2>2, <2>3
<1>5. \A r : Lists!ListAvailable(r)' = Lists!ListAvailable(r)
  <2> DEFINE Some(inst, here, avail, dups) ==
               LET new == IF dups THEN {p \in here : ~Lists!Has(inst, p)}
                          ELSE {p \in avail : Lists!NewerThan(Lists!Latest(inst), p)}
                   again == IF dups THEN here \ new
                            ELSE {p \in avail : Lists!Has(Lists!Latest(inst), p)}
               IN [Lists!Nothing EXCEPT !.available = new, !.reinstall = again,
                                        !.old = avail \ (new \cup again)]
             Here(x) == Lists!FromRepo(x, Lists!Matching(x, Lists!Visible))
             Avail(x) == IF x.showdups THEN Here(x)
                         ELSE Lists!FirstOfName(Lists!Latest(Lists!ByPriority(Here(x))))
  <2>1. \A x : Lists!ListAvailable(x) =
                 Some(Lists!Matching(x, v1.installed), Here(x), Avail(x), x.showdups)
    BY DEF Lists!ListAvailable
  <2>2. \A x : Lists!ListAvailable(x)' =
                 Some(Lists!Matching(x, v1.installed'), Here(x)', Avail(x)', x.showdups)
    BY DEF Lists!ListAvailable
  <2> HIDE DEF Some
  <2>3. \A x : Here(x)' = Here(x) /\ Avail(x)' = Avail(x)
    BY <1>1, <1>2
  <2> HIDE DEF Here, Avail
  <2> QED BY <2>1, <2>2, <2>3
<1>6. \A r : Lists!ListOthers(r)' = Lists!ListOthers(r)
  BY <1>1, <1>2, <1>3 DEF Lists!ListOthers
<1>7. \A r : Lists!ListPattern(r)' = Lists!ListPattern(r)
  BY <1>4, <1>5, <1>6 DEF Lists!ListPattern
<1>8. \A r, coloured : Lists!ReturnPkgLists(r, coloured)' = Lists!ReturnPkgLists(r, coloured)
  <2> DEFINE Asks(r, coloured) == IF coloured /\ r.narrow \in {"installed", "available"}
                                  THEN [r EXCEPT !.narrow = "all"] ELSE r
             Result(r, coloured, ypl) ==
               LET both == coloured /\ r.narrow \in {"installed", "available"}
                   hide == IF both THEN r.narrow ELSE "all"
                   again == IF r.showdups /\ ~(both /\ hide = "installed")
                            THEN ypl.reinstall ELSE {}
               IN [ypl EXCEPT !.available = IF hide = "installed" THEN {} ELSE @ \cup again,
                              !.installed = IF hide = "available" THEN {} ELSE @]
  <2>1. \A r, coloured : Lists!ReturnPkgLists(r, coloured) =
                           Result(r, coloured, Lists!ListPattern(Asks(r, coloured)))
    BY DEF Lists!ReturnPkgLists
  <2>2. \A r, coloured : Lists!ReturnPkgLists(r, coloured)' =
                           Result(r, coloured, Lists!ListPattern(Asks(r, coloured))')
    BY DEF Lists!ReturnPkgLists
  <2> HIDE DEF Asks, Result
  <2> QED BY <1>7, <2>1, <2>2
<1> QED BY <1>8 DEF Lists!Shown

\* At the beginning nothing is shown.
LEMMA ListsInit == Lists!Init => ListsInv
BY DEF Lists!Init, ListsInv

\* What is shown are the lists of the command.
LEMMA ListsStep == ListsInv /\ [Lists!Next]_(Lists!vars) => ListsInv'
<1> SUFFICES ASSUME ListsInv, [Lists!Next]_(Lists!vars) PROVE ListsInv'
  OBVIOUS
<1>1. CASE Lists!OutputPackages
  <2>1. v3' = Lists!Shown(v2) /\ UNCHANGED <<v1, v2>>
    BY <1>1 DEF Lists!OutputPackages
  <2>2. Lists!Shown(v2)' = Lists!Shown(v2)
    BY <2>1, ShownStays
  <2> QED BY <2>1, <2>2 DEF ListsInv
<1>2. CASE Lists!CheckUpdates
  BY <1>2 DEF Lists!CheckUpdates, ListsInv
<1>3. CASE UNCHANGED Lists!vars
  <2>1. UNCHANGED <<v1, v2, v3, v4>>
    BY <1>3 DEF Lists!vars
  <2>2. Lists!Shown(v2)' = Lists!Shown(v2)
    BY <2>1, ShownStays
  <2> QED BY <2>1, <2>2 DEF ListsInv
<1> QED BY <1>1, <1>2, <1>3 DEF Lists!Next

\* Which versions are listed does not depend on the terminal (cli.py:620).
LEMMA ListsSame == ListsInv => Lists!ColoursKeepVersions
BY SameWithoutColours DEF ListsInv, Lists!ColoursKeepVersions

------------------------------------------------------------------------------
(* Rpm: callbacks are reported for the item they are about.                *)

\* rpm counts its elements, and only what erases is remembered.
ReportInv ==
  /\ v1.items \in Transactions /\ v1.order \in Rpm!Orders(Rpm!Elements(v1.items))
  /\ v2 \in {<<>>, v1.order}
  /\ v3 \in 0..Len(v1.order) /\ v4 = v3
  /\ v5 = IF v8 = "before" THEN 0 ELSE Len(v1.order)
  /\ v8 = "before" => v3 = 0
  /\ v8 = "element" => v3 # 0
  /\ v6 = Rpm!NoItem \/ (v6 \in v1.items /\ v6.action \in Rpm!Backward)
  /\ v7 \in BOOLEAN
  /\ v9.item = v9.due /\ v9.item \in v1.items \cup {Rpm!NoItem}
  /\ v9.what = "post" => v3 = Len(v1.order)

\* An order is a sequence of all the elements.
LEMMA OrderIsSequence ==
  ASSUME NEW items \in Transactions, NEW order \in Rpm!Orders(Rpm!Elements(items))
  PROVE  /\ Len(order) \in Nat
         /\ \A i \in 1..Len(order) : order[i] \in Rpm!Elements(items)
         /\ \A te \in Rpm!ToSet(order) : te \in Rpm!Elements(items)
<1> DEFINE elements == Rpm!Elements(items)
<1>1. IsFiniteSet(elements)
  <2> DEFINE moved == {j \in items : j.action # "REASON_CHANGE"}
             f == [j \in moved |-> Rpm!Element(j)]
  <2>1. IsFiniteSet(moved)
    BY RpmAssumption, FS_Subset
  <2>2. f \in Surjection(moved, elements)
    BY DEF Surjection, Rpm!Elements
  <2> HIDE DEF moved, elements, f
  <2> QED BY <2>1, <2>2, FS_Surjection
<1>2. Cardinality(elements) \in Nat
  BY <1>1, FS_CardinalityType
<1> DEFINE n == Cardinality(elements)
<1>3. order \in [1..n -> elements] /\ Rpm!ToSet(order) = elements
  <2>1. \A e, s : s \in Rpm!Orders(e) => s \in [1..Cardinality(e) -> e] /\ Rpm!ToSet(s) = e
    <3>1. \A S : Rpm!Cardinality(S) = Cardinality(S)
      BY Zenon DEF Rpm!Cardinality, Cardinality
    <3> QED BY <3>1 DEF Rpm!Orders
  <2> HIDE DEF elements
  <2>2. order \in Rpm!Orders(elements)
    BY DEF elements
  <2> QED BY <2>1, <2>2
<1> HIDE DEF n, elements
<1>4. Len(order) = n /\ n \in Nat
  BY <1>2, <1>3 DEF n
<1> QED BY <1>3, <1>4 DEF elements

\* An element that installs has its item for a key; one that erases has none, and there is
\* one item it can be.
LEMMA ElementItem ==
  ASSUME NEW items \in Transactions, NEW te \in Rpm!Elements(items)
  PROVE  \/ te.key \in items /\ te.key # Rpm!NoItem
         \/ /\ te.key = Rpm!NoItem
            /\ \E i \in items :
                 /\ i.nevra = te.nevra /\ i.action \in Rpm!Backward
                 /\ \A j \in items : j.action \in Rpm!RpmActions /\ j.nevra = te.nevra => j = i
<1>1. PICK i \in items : i.action # "REASON_CHANGE" /\ te = Rpm!Element(i)
  BY DEF Rpm!Elements
<1>2. i \in Rpm!Item
  BY RpmAssumption
<1>3. CASE i.action \in Rpm!Forward
  <2>1. te.key = i
    BY <1>1, <1>3 DEF Rpm!Element
  <2>2. i # Rpm!NoItem
    BY <1>3 DEF Rpm!Forward, Rpm!NoItem
  <2> QED BY <2>1, <2>2
<1>4. CASE i.action \notin Rpm!Forward
  <2>1. te.key = Rpm!NoItem /\ te.nevra = i.nevra
    BY <1>1, <1>4 DEF Rpm!Element
  <2>2. i.action \in Rpm!Backward
    BY <1>1, <1>2, <1>4 DEF Rpm!Item
  <2>3. \A j \in items : j.action \in Rpm!RpmActions =>
                           j.action \notin {"REINSTALL", "REASON_CHANGE"}
    BY DEF Rpm!RpmActions, Rpm!Forward, Rpm!Backward
  <2> QED BY <2>1, <2>2, <2>3, RpmAssumption
<1> QED BY <1>3, <1>4

\* What is reported of an element is reported for its item.
LEMMA ExtractIsDue ==
  ASSUME ReportInv, NEW te \in Rpm!Elements(v1.items)
  PROVE  /\ Rpm!Extract(te.key, te) = Rpm!Due(te)
         /\ Rpm!Extract(te.key, te) \in v1.items
         /\ \/ Rpm!CacheOf(te.key, te) = Rpm!NoItem
            \/ /\ Rpm!CacheOf(te.key, te) \in v1.items
               /\ Rpm!CacheOf(te.key, te).action \in Rpm!Backward
<1>0. v1.items \in Transactions
  BY DEF ReportInv
<1>1. CASE te.key \in v1.items /\ te.key # Rpm!NoItem
  BY <1>1 DEF Rpm!Extract, Rpm!Due, Rpm!CacheOf, ReportInv
<1>2. ASSUME te.key = Rpm!NoItem, NEW i \in v1.items,
             i.nevra = te.nevra, i.action \in Rpm!Backward,
             \A j \in v1.items : j.action \in Rpm!RpmActions /\ j.nevra = te.nevra => j = i
      PROVE  Rpm!Extract(te.key, te) = i /\ Rpm!Due(te) = i
  <2>1. \A j : j \in v1.items /\ j.nevra = te.nevra /\ j.action \in Rpm!Backward <=> j = i
    BY <1>2 DEF Rpm!RpmActions
  <2>2. Rpm!Due(te) = i
    BY <1>2, <2>1 DEF Rpm!Due
  <2>3. Rpm!Matches(te) = {i}
    BY <1>2 DEF Rpm!Matches, Rpm!RpmActions
  <2>4. Rpm!Cached(te) => v6 = i
    BY <2>1 DEF Rpm!Cached, ReportInv
  <2>5. (CHOOSE j \in {i} : TRUE) = i
    OBVIOUS
  <2>6. Rpm!Extract(te.key, te) = IF Rpm!Cached(te) THEN v6 ELSE i
    BY <1>2, <2>3, <2>5 DEF Rpm!Extract
  <2> QED BY <2>2, <2>4, <2>6
<1>3. ASSUME te.key = Rpm!NoItem, NEW i \in v1.items, i.action \in Rpm!Backward,
             Rpm!Extract(te.key, te) = i
      PROVE  \/ Rpm!CacheOf(te.key, te) = i
             \/ Rpm!CacheOf(te.key, te) = v6
  BY <1>3 DEF Rpm!CacheOf
<1> QED BY <1>0, <1>1, <1>2, <1>3, ElementItem DEF ReportInv

\* Before the transaction nothing is reported.
LEMMA RpmInit == Rpm!Init => ReportInv
<1> SUFFICES ASSUME Rpm!Init PROVE ReportInv
  OBVIOUS
<1>1. PICK items \in Transactions, test \in BOOLEAN :
        \E order \in Rpm!Orders(Rpm!Elements(items)) :
          v1 = [items |-> items, order |-> order, test |-> test]
  BY DEF Rpm!Init
<1>2. PICK order \in Rpm!Orders(Rpm!Elements(items)) :
        v1 = [items |-> items, order |-> order, test |-> test]
  BY <1>1
<1>3. v1.items = items /\ v1.order = order /\ Len(order) \in Nat
  BY <1>2, OrderIsSequence
<1>4. /\ v2 = <<>> /\ v3 = 0 /\ v4 = 0 /\ v5 = 0 /\ v6 = Rpm!NoItem
      /\ v8 = "before" /\ v9.item = Rpm!NoItem /\ v9.due = Rpm!NoItem /\ v9.what = "none"
  BY DEF Rpm!Init, Rpm!Silence
<1>5. v1.items \in Transactions /\ v1.order \in Rpm!Orders(Rpm!Elements(v1.items))
  BY <1>3
<1>6. Len(v1.order) \in Nat
  BY <1>3
<1>7. v7 \in BOOLEAN
  BY DEF Rpm!Init
<1> QED BY <1>4, <1>5, <1>6, <1>7 DEF ReportInv

\* A report of the element being processed is true.
LEMMA ReportStays ==
  ASSUME ReportInv, NEW te \in Rpm!Elements(v1.items), NEW what, what # "post",
         v9' = [what |-> what, item |-> Rpm!Extract(te.key, te), due |-> Rpm!Due(te)],
         v6' = Rpm!CacheOf(te.key, te), v1' = v1
  PROVE  /\ v6' = Rpm!NoItem \/ (v6' \in v1'.items /\ v6'.action \in Rpm!Backward)
         /\ v9'.item = v9'.due /\ v9'.item \in v1'.items \cup {Rpm!NoItem}
         /\ v9'.what # "post"
BY ExtractIsDue

\* Every callback keeps to the element rpm is at.
LEMMA RpmStep == ReportInv /\ [Rpm!Next]_(Rpm!vars) => ReportInv'
<1> SUFFICES ASSUME ReportInv, [Rpm!Next]_(Rpm!vars) PROVE ReportInv'
  OBVIOUS
<1> USE DEF ReportInv
<1>1. /\ Len(v1.order) \in Nat
      /\ \A i \in 1..Len(v1.order) : v1.order[i] \in Rpm!Elements(v1.items)
      /\ \A te \in Rpm!ToSet(v1.order) : te \in Rpm!Elements(v1.items)
  BY OrderIsSequence
<1>2. \A te \in Rpm!Elements(v1.items) : te.key \in v1.items \cup {Rpm!NoItem}
  BY ElementItem
<1>3. v8 = "element" => Rpm!Current \in Rpm!Elements(v1.items)
  BY <1>1 DEF Rpm!Current
<1>5. CASE Rpm!ScriptBefore
  BY <1>1, <1>2, <1>5 DEF Rpm!ScriptBefore, Rpm!Same
<1>6. CASE Rpm!TransStart
  BY <1>1, <1>6 DEF Rpm!TransStart
<1>7. CASE Rpm!ElemProgress
  <2> DEFINE te == v1.order[v3 + 1]
  <2>1. v3 + 1 \in 1..Len(v1.order) /\ te \in Rpm!Elements(v1.items)
    BY <1>1, <1>7 DEF Rpm!ElemProgress
  <2>2. CASE UNCHANGED <<v9, v6>>
    BY <1>1, <1>7, <2>1, <2>2 DEF Rpm!ElemProgress
  <2>3. CASE /\ v9' = [what |-> "file", item |-> Rpm!Extract(te.key, te), due |-> Rpm!Due(te)]
             /\ v6' = Rpm!CacheOf(te.key, te)
    <3>1. v1' = v1 /\ UNCHANGED <<v2, v5, v7>> /\ v3' = v3 + 1 /\ v4' = v4 + 1 /\ v8' = "element"
          /\ v8 = "elements"
      BY <1>7 DEF Rpm!ElemProgress
    <3> HIDE DEF te
    <3>2. /\ v6' = Rpm!NoItem \/ (v6' \in v1'.items /\ v6'.action \in Rpm!Backward)
          /\ v9'.item = v9'.due /\ v9'.item \in v1'.items \cup {Rpm!NoItem}
          /\ v9'.what # "post"
      BY <2>1, <2>3, <3>1, ReportStays
    <3> QED BY <1>1, <2>1, <3>1, <3>2
  <2> QED BY <1>7, <2>2, <2>3 DEF Rpm!ElemProgress
<1>8. ASSUME NEW what, what # "post", v8 = "element", Rpm!ReportElement(what, Rpm!Current.key),
             v7' \in BOOLEAN, UNCHANGED <<v1, v2, v3, v4, v5, v8>>
      PROVE  ReportInv'
  <2>1. /\ v6' = Rpm!NoItem \/ (v6' \in v1'.items /\ v6'.action \in Rpm!Backward)
        /\ v9'.item = v9'.due /\ v9'.item \in v1'.items \cup {Rpm!NoItem}
        /\ v9'.what # "post"
    BY <1>3, <1>8, ReportStays DEF Rpm!ReportElement
  <2> QED BY <1>1, <1>8, <2>1
<1>9. CASE Rpm!InstOpenFile
  BY <1>1, <1>8, <1>9 DEF Rpm!InstOpenFile
<1>10. CASE Rpm!Progress
  BY <1>8, <1>10 DEF Rpm!Progress
<1>11. CASE Rpm!ElementScript
  BY <1>8, <1>11 DEF Rpm!ElementScript
<1>12. CASE Rpm!ElementStop
  <2>1. UNCHANGED <<v1, v2, v3, v4, v5, v6>> /\ v7' = FALSE /\ v8' \in {"after", "elements"}
        /\ v8 = "element"
    BY <1>12 DEF Rpm!ElementStop
  <2>2. \/ v9' = v9
        \/ v9' = Rpm!Same("post", Rpm!NoItem) /\ v4 = v5
    BY <1>12 DEF Rpm!ElementStop, Rpm!AllComplete
  <2>3. v3 = Len(v1.order) \/ v9' = v9
    BY <1>1, <2>1, <2>2
  <2>4. v9'.item = v9'.due /\ v9'.item \in v1.items \cup {Rpm!NoItem}
        /\ (v9'.what = "post" => v3 = Len(v1.order))
    BY <2>2, <2>3 DEF Rpm!Same
  <2> QED BY <1>1, <2>1, <2>4
<1>13. CASE Rpm!ScriptAfter
  BY <1>1, <1>2, <1>13 DEF Rpm!ScriptAfter, Rpm!Same
<1>14. CASE UNCHANGED Rpm!vars
  BY <1>14 DEF Rpm!vars
<1> QED BY <1>5, <1>6, <1>7, <1>9, <1>10, <1>11, <1>12, <1>13, <1>14 DEF Rpm!Next

\* Callbacks are reported for the item they are about (rpmtrans.py:259).
LEMMA ReportsTrue == ReportInv => Rpm!TypeOK /\ Rpm!ReportsAreTrue
<1> SUFFICES ASSUME ReportInv PROVE Rpm!TypeOK /\ Rpm!ReportsAreTrue
  OBVIOUS
<1>1. Len(v1.order) \in Nat /\ v1.items \subseteq Rpm!Item
  BY OrderIsSequence, RpmAssumption DEF ReportInv
<1> QED BY <1>1 DEF ReportInv, Rpm!TypeOK, Rpm!ReportsAreTrue

------------------------------------------------------------------------------
(* History: a replay does what was stored.                                 *)

\* One version of each package.
Unique(S) == \A k, l \in S : k[1] = l[1] => k = l

Pairs(action, S) == {<<action, k>> : k \in S}
ItemsOf(action, S, q) == {History!Item(action, k, q[k[1]]) : k \in S}

\* What is done where f comes, b goes and r is installed again.
Did(f, b, r) ==
  LET up == {k \in f : \E l \in b : History!Newer(k, l)}
      down == {k \in f : \E l \in b : History!Newer(l, k)}
      gone == {l \in b : l[1] \notin History!Names(f)}
      obsoleter(l) == \E k \in f : l[1] \in Obsoletes[k[1]]
  IN Pairs("Upgrade", up) \cup Pairs("Downgrade", down) \cup Pairs("Install", f \ (up \cup down))
     \cup Pairs("Upgraded", {x \in b : \E k \in up : k[1] = x[1]})
     \cup Pairs("Downgraded", {x \in b : \E k \in down : k[1] = x[1]})
     \cup Pairs("Obsoleted", {x \in gone : obsoleter(x)})
     \cup Pairs("Removed", {x \in gone : ~obsoleter(x)})
     \cup Pairs("Reinstall", r) \cup Pairs("Reinstalled", r)

\* A record is of one way from a system to another.
EntryOK(rpms) ==
  \E f, b, r \in SUBSET History!Package :
    /\ f \cap b = {} /\ r \cap (f \cup b) = {}
    /\ History!Effect(rpms) = Did(f, b, r)

\* There is one version of each package, and all records are true.
HistoryInv ==
  /\ v1 \subseteq History!Package /\ Unique(v1)
  /\ v4 \in Offers
  /\ \E S : v5 \in Seq(S)
  /\ \A t \in DOMAIN v5 : EntryOK(v5[t].rpms)
  /\ EntryOK(v7.rpms)

\* The effect of two records is that of one, then the other.
LEMMA EffectUnion ==
  \A S, T : History!Effect(S \cup T) = History!Effect(S) \cup History!Effect(T)
BY DEF History!Effect

\* Marks have no effect on packages.
LEMMA EffectOfMarks ==
  ASSUME NEW marks, \A i \in marks : i.action = "Reason Change"
  PROVE  History!Effect(marks) = {}
BY DEF History!Effect

\* What an item adds to it.
LEMMA EffectOfItems ==
  ASSUME NEW a, a # "Reason Change", NEW S, NEW q
  PROVE  History!Effect(ItemsOf(a, S, q)) = Pairs(a, S)
<1> DEFINE T == {History!Item(a, k, q[k[1]]) : k \in S}
<1>1. \A k, x : History!Item(a, k, x).action = a /\ History!Item(a, k, x).pkg = k
  BY DEF History!Item
<1>2. ASSUME NEW x \in T PROVE \E k \in S : x.action = a /\ x.pkg = k
  <2>1. PICK k \in S : x = History!Item(a, k, q[k[1]])
    OBVIOUS
  <2>2. x.action = a /\ x.pkg = k
    BY <2>1 DEF History!Item
  <2> QED BY <2>2
<1>3. ASSUME NEW k \in S PROVE \E x \in T : x.action = a /\ x.pkg = k
  <2>1. History!Item(a, k, q[k[1]]) \in T
    OBVIOUS
  <2>2. /\ History!Item(a, k, q[k[1]]).action = a
        /\ History!Item(a, k, q[k[1]]).pkg = k
    BY DEF History!Item
  <2> HIDE DEF T
  <2> QED BY <2>1, <2>2
<1> HIDE DEF T
<1>4. History!Effect(T) = {<<x.action, x.pkg>> : x \in T}
  BY <1>2 DEF History!Effect
<1>5. ASSUME NEW x PROVE x \in {<<y.action, y.pkg>> : y \in T} <=> x \in {<<a, k>> : k \in S}
  <2>1. ASSUME NEW y \in T, x = <<y.action, y.pkg>> PROVE x \in {<<a, k>> : k \in S}
    <3>1. PICK k \in S : y.action = a /\ y.pkg = k
      BY <1>2
    <3> QED BY <2>1, <3>1
  <2>2. ASSUME NEW k \in S, x = <<a, k>> PROVE x \in {<<y.action, y.pkg>> : y \in T}
    <3>1. PICK y \in T : y.action = a /\ y.pkg = k
      BY <1>3
    <3> QED BY <2>2, <3>1
  <2> QED BY <2>1, <2>2
<1> QED BY <1>4, <1>5, Zenon DEF T, ItemsOf, Pairs

\* The effect of three records.
LEMMA EffectOfThree ==
  ASSUME NEW A, NEW B, NEW C
  PROVE  History!Effect(A \cup B \cup C) =
           History!Effect(A) \cup History!Effect(B) \cup History!Effect(C)
<1>1. History!Effect(A \cup B \cup C) = History!Effect(A \cup B) \cup History!Effect(C)
  BY EffectUnion
<1>2. History!Effect(A \cup B) = History!Effect(A) \cup History!Effect(B)
  BY EffectUnion
<1> QED BY <1>1, <1>2

\* The record of a transaction says what it has done, whatever the reasons are.
LEMMA ItemsEffect ==
  ASSUME NEW v, NEW w, NEW again, NEW r, NEW e, Unique(v), Unique(w)
  PROVE  History!Effect(History!Items(v, w, again, r, e)) = Did(w \ v, v \ w, again)
<1> DEFINE f == w \ v
           b == v \ w
           Old(k) == {l \in v \ w : l[1] = k[1]}
           up == {k \in w \ v : \E l \in Old(k) : History!Newer(k, l)}
           down == {k \in w \ v : \E l \in Old(k) : History!Newer(l, k)}
           gone == {l \in v \ w : l[1] \notin History!Names(w)}
           obs == {x \in gone : \E k \in w \ v : x[1] \in Obsoletes[k[1]]}
           rem == {x \in gone : ~(\E k \in w \ v : x[1] \in Obsoletes[k[1]])}
           upd == {x \in v : \E k \in up : k[1] = x[1]}
           dnd == {x \in v : \E k \in down : k[1] = x[1]}
<1>1. History!Items(v, w, again, r, e) =
        ItemsOf("Upgrade", up, r) \cup ItemsOf("Downgrade", down, r) \cup ItemsOf("Install", (w \ v) \ (up \cup down), r)
          \cup ItemsOf("Upgraded", upd, v2) \cup ItemsOf("Downgraded", dnd, v2) \cup ItemsOf("Obsoleted", obs, v2)
          \cup ItemsOf("Removed", rem, e) \cup ItemsOf("Reinstall", again, r) \cup ItemsOf("Reinstalled", again, v2)
  BY Zenon DEF History!Items, ItemsOf
<1>3. /\ up = {k \in f : \E l \in b : History!Newer(k, l)}
      /\ down = {k \in f : \E l \in b : History!Newer(l, k)}
  BY DEF History!Newer
<1>4. gone = {l \in b : l[1] \notin History!Names(f)}
  <2>1. \A l \in b : l[1] \in History!Names(w) <=> l[1] \in History!Names(f)
    BY DEF Unique, History!Names
  <2> QED BY <2>1
<1>5. /\ upd = {x \in b : \E k \in up : k[1] = x[1]}
      /\ dnd = {x \in b : \E k \in down : k[1] = x[1]}
  BY DEF Unique
<1>6. Did(f, b, again) =
        Pairs("Upgrade", up) \cup Pairs("Downgrade", down) \cup Pairs("Install", f \ (up \cup down))
          \cup Pairs("Upgraded", upd) \cup Pairs("Downgraded", dnd) \cup Pairs("Obsoleted", obs)
          \cup Pairs("Removed", rem) \cup Pairs("Reinstall", again) \cup Pairs("Reinstalled", again)
  <2> HIDE DEF up, down, gone, upd, dnd
  <2> QED BY <1>3, <1>4, <1>5, Zenon DEF Did
<1> HIDE DEF up, down, gone, upd, dnd, obs, rem
<1>8. \A S, q : /\ History!Effect(ItemsOf("Upgrade", S, q)) = Pairs("Upgrade", S)
                 /\ History!Effect(ItemsOf("Downgrade", S, q)) = Pairs("Downgrade", S)
                 /\ History!Effect(ItemsOf("Install", S, q)) = Pairs("Install", S)
                 /\ History!Effect(ItemsOf("Reinstall", S, q)) = Pairs("Reinstall", S)
                 /\ History!Effect(ItemsOf("Upgraded", S, q)) = Pairs("Upgraded", S)
                 /\ History!Effect(ItemsOf("Downgraded", S, q)) = Pairs("Downgraded", S)
                 /\ History!Effect(ItemsOf("Obsoleted", S, q)) = Pairs("Obsoleted", S)
                 /\ History!Effect(ItemsOf("Removed", S, q)) = Pairs("Removed", S)
                 /\ History!Effect(ItemsOf("Reinstalled", S, q)) = Pairs("Reinstalled", S)
  BY EffectOfItems
<1> DEFINE all == History!Items(v, w, again, r, e)
<1>9. History!Effect(all) =
        Pairs("Upgrade", up) \cup Pairs("Downgrade", down) \cup Pairs("Install", f \ (up \cup down))
          \cup Pairs("Upgraded", upd) \cup Pairs("Downgraded", dnd) \cup Pairs("Obsoleted", obs)
          \cup Pairs("Removed", rem) \cup Pairs("Reinstall", again) \cup Pairs("Reinstalled", again)
  <2> DEFINE i1 == ItemsOf("Upgrade", up, r)
             i2 == ItemsOf("Downgrade", down, r)
             i3 == ItemsOf("Install", f \ (up \cup down), r)
             i4 == ItemsOf("Upgraded", upd, v2)
             i5 == ItemsOf("Downgraded", dnd, v2)
             i6 == ItemsOf("Obsoleted", obs, v2)
             i7 == ItemsOf("Removed", rem, e)
             i8 == ItemsOf("Reinstall", again, r)
             i9 == ItemsOf("Reinstalled", again, v2)
  <2>1. all = i1 \cup i2 \cup i3 \cup i4 \cup i5 \cup i6 \cup i7 \cup i8 \cup i9
    BY <1>1, Zenon
  <2>2. /\ History!Effect(i1) = Pairs("Upgrade", up)
        /\ History!Effect(i2) = Pairs("Downgrade", down)
        /\ History!Effect(i3) = Pairs("Install", f \ (up \cup down))
        /\ History!Effect(i4) = Pairs("Upgraded", upd)
        /\ History!Effect(i5) = Pairs("Downgraded", dnd)
        /\ History!Effect(i6) = Pairs("Obsoleted", obs)
        /\ History!Effect(i7) = Pairs("Removed", rem)
        /\ History!Effect(i8) = Pairs("Reinstall", again)
        /\ History!Effect(i9) = Pairs("Reinstalled", again)
    BY <1>8, Zenon
  <2> HIDE DEF all, i1, i2, i3, i4, i5, i6, i7, i8, i9
  <2> DEFINE p == i1 \cup i2 \cup i3
             q == p \cup i4 \cup i5
             s == q \cup i6 \cup i7
  <2>3. History!Effect(p) = History!Effect(i1) \cup History!Effect(i2) \cup History!Effect(i3)
    BY EffectOfThree
  <2> HIDE DEF p
  <2>4. History!Effect(q) = History!Effect(p) \cup History!Effect(i4) \cup History!Effect(i5)
    BY EffectOfThree
  <2> HIDE DEF q
  <2>5. History!Effect(s) = History!Effect(q) \cup History!Effect(i6) \cup History!Effect(i7)
    BY EffectOfThree
  <2> HIDE DEF s
  <2>6. History!Effect(s \cup i8 \cup i9) =
          History!Effect(s) \cup History!Effect(i8) \cup History!Effect(i9)
    BY EffectOfThree
  <2> QED BY <2>1, <2>2, <2>3, <2>4, <2>5, <2>6, Zenon DEF p, q, s
<1> QED BY <1>6, <1>9, Zenon

\* Where nothing moves, nothing is done.
LEMMA MarksOK ==
  ASSUME NEW marks, \A i \in marks : i.action = "Reason Change"
  PROVE  EntryOK(marks)
<1>1. History!Effect(marks) = {}
  BY EffectOfMarks
<1>2. Did({}, {}, {}) = {}
  BY DEF Did, Pairs
<1>3. {} \in SUBSET History!Package
  OBVIOUS
<1> QED BY <1>1, <1>2, <1>3 DEF EntryOK

\* Reasons that change with a transaction leave its effect as it is.
LEMMA WithMarks ==
  ASSUME NEW items, NEW marks, \A i \in marks : i.action = "Reason Change"
  PROVE  History!Effect(items \cup marks) = History!Effect(items)
<1>1. History!Effect(marks) = {}
  BY EffectOfMarks
<1>2. History!Effect(items \cup marks) = History!Effect(items) \cup History!Effect(marks)
  BY EffectUnion
<1> QED BY <1>1, <1>2

\* The record of a transaction is of a way from one system to another.
LEMMA ItemsOK ==
  ASSUME NEW v, NEW w, NEW again, NEW r, NEW e, Unique(v), Unique(w),
         v \subseteq History!Package, w \subseteq History!Package, again \subseteq v \cap w
  PROVE  EntryOK(History!Items(v, w, again, r, e))
<1> DEFINE f == w \ v
           b == v \ w
           items == History!Items(v, w, again, r, e)
<1>1. History!Effect(items) = Did(f, b, again)
  BY ONLY Unique(v), Unique(w), ItemsEffect
<1>2. /\ f \in SUBSET History!Package /\ b \in SUBSET History!Package
      /\ again \in SUBSET History!Package
      /\ f \cap b = {} /\ again \cap (f \cup b) = {}
  OBVIOUS
<1> HIDE DEF f, b, items
<1>3. EntryOK(items)
  BY <1>1, <1>2 DEF EntryOK
<1> QED BY <1>3 DEF items

\* So it is with reasons that change.
LEMMA MarkedOK ==
  ASSUME NEW items, EntryOK(items), NEW marks, \A i \in marks : i.action = "Reason Change"
  PROVE  EntryOK(items \cup marks)
<1>1. History!Effect(items \cup marks) = History!Effect(items)
  BY WithMarks
<1> QED BY <1>1, Zenon DEF EntryOK

\* A sequence with one more.
LEMMA OneMore ==
  ASSUME NEW S, NEW s \in Seq(S), NEW x
  PROVE  /\ Append(s, x) \in Seq(S \cup {x})
         /\ Append(s, x) # s /\ Append(s, x)[Len(Append(s, x))] = x
         /\ \A t \in DOMAIN Append(s, x) :
              Append(s, x)[t] = x \/ (t \in DOMAIN s /\ Append(s, x)[t] = s[t])
<1> DEFINE T == S \cup {x}
<1>1. s \in Seq(T) /\ x \in T
  OBVIOUS
<1> HIDE DEF T
<1>2. Append(s, x) \in Seq(T) /\ Len(Append(s, x)) = Len(s) + 1 /\ Len(s) \in Nat
  BY <1>1
<1>3. Append(s, x) # s
  BY <1>2
<1>4. Append(s, x)[Len(s) + 1] = x /\ \A t \in 1..Len(s) : Append(s, x)[t] = s[t]
  BY <1>1
<1>5. DOMAIN s = 1..Len(s) /\ DOMAIN Append(s, x) = 1..(Len(s) + 1)
  BY <1>1, <1>2
<1>6. Append(s, x)[Len(Append(s, x))] = x
  BY <1>2, <1>4
<1>7. ASSUME NEW t \in DOMAIN Append(s, x)
      PROVE  Append(s, x)[t] = x \/ (t \in DOMAIN s /\ Append(s, x)[t] = s[t])
  <2>1. t \in 1..Len(s) \/ t = Len(s) + 1
    BY <1>2, <1>5, <1>7
  <2> QED BY <1>4, <1>5, <2>1
<1> QED BY <1>2, <1>3, <1>6, <1>7 DEF T

\* What is recorded is true, if it says how the system got to w.
LEMMA RecordedOK ==
  ASSUME HistoryInv, NEW w \in SUBSET History!Package, Unique(w), NEW r, NEW gs, NEW items,
         NEW ids, EntryOK(items), History!Recorded(w, r, gs, items, ids)
  PROVE  HistoryInv'
<1>1. v1' = w /\ v4' = v4 /\ v7' = v7
  BY DEF History!Recorded
<1>2. v5' = v5 \/ v5' = Append(v5, History!Entry(items, ids))
  BY DEF History!Recorded
<1>3. History!Entry(items, ids).rpms = items
  BY DEF History!Entry
<1>4. (\E S : v5' \in Seq(S)) /\ \A t \in DOMAIN v5' : EntryOK(v5'[t].rpms)
  <2>1. CASE v5' = v5
    BY <2>1 DEF HistoryInv
  <2>2. CASE v5' = Append(v5, History!Entry(items, ids))
    <3>1. PICK S : v5 \in Seq(S)
      BY DEF HistoryInv
    <3> DEFINE x == History!Entry(items, ids)
    <3>2. x.rpms = items
      BY <1>3
    <3> HIDE DEF x
    <3>3. /\ v5' \in Seq(S \cup {x})
          /\ \A t \in DOMAIN v5' : v5'[t] = x \/ (t \in DOMAIN v5 /\ v5'[t] = v5[t])
      BY <2>2, <3>1, OneMore DEF x
    <3> QED BY <3>2, <3>3 DEF HistoryInv
  <2> QED BY <1>2, <2>1, <2>2
<1>5. EntryOK(v7.rpms)'
  BY <1>1 DEF HistoryInv
<1>6. (v1 \subseteq History!Package /\ Unique(v1) /\ v4 \in Offers)'
  BY <1>1 DEF HistoryInv
<1> QED BY <1>4, <1>5, <1>6 DEF HistoryInv

\* The solver brings in one version of what is missing.
LEMMA PulledUnique ==
  ASSUME HistoryInv, NEW S, S \subseteq History!Package, Unique(S)
  PROVE  /\ S \cup History!Pulled(S) \subseteq History!Package
         /\ Unique(S \cup History!Pulled(S))
<1>1. v4.pkgs \subseteq History!Package
  BY HistoryAssumption DEF HistoryInv
<1>2. \A k, l \in History!Package : k[1] = l[1] /\ ~History!Newer(k, l) /\ ~History!Newer(l, k) => k = l
  BY DEF History!Package, History!Newer
<1>3. \A k \in History!Pulled(S) :
        /\ k \in v4.pkgs /\ k[1] \notin History!Names(S)
        /\ \A l \in v4.pkgs : ~History!Newer(l, k)
  BY DEF History!Pulled, History!Missing
<1>4. \A k \in S : k[1] \in History!Names(S)
  BY DEF History!Names
<1>5. ASSUME NEW k \in S \cup History!Pulled(S), NEW l \in S \cup History!Pulled(S), k[1] = l[1]
      PROVE  k = l
  <2>1. CASE k \in S /\ l \in S
    BY <1>5, <2>1 DEF Unique
  <2>2. CASE k \in History!Pulled(S) /\ l \in History!Pulled(S)
    BY <1>1, <1>2, <1>3, <1>5, <2>2
  <2>3. CASE (k \in S /\ l \in History!Pulled(S)) \/ (k \in History!Pulled(S) /\ l \in S)
    BY <1>3, <1>4, <1>5, <2>3
  <2> QED BY <2>1, <2>2, <2>3
<1> QED BY <1>1, <1>3, <1>5 DEF Unique

\* What is already there, installed again.
LEMMA AgainOK ==
  ASSUME HistoryInv, NEW r, NEW k \in v1
  PROVE  EntryOK(History!Items(v1, v1, {k}, r, r))
BY ItemsOK DEF HistoryInv

\* Other commands record what they do.
LEMMA OrdinaryKeeps ==
  ASSUME HistoryInv, History!Ordinary
  PROVE  HistoryInv'
<1>1. PICK k \in v4.pkgs :
        \/ /\ k \notin v1
           /\ LET base == {l \in v1 : l[1] # k[1] /\ l[1] \notin Obsoletes[k[1]]} \cup {k}
                  w == base \cup History!Pulled(base)
                  r == [n \in Name |-> IF n \in History!Names(v1) THEN v2[n]
                                       ELSE IF n = k[1] THEN "user" ELSE "dependency"]
              IN History!Recorded(w, r, v3, History!Items(v1, w, {}, r, v2), {})
        \/ /\ k \in v1
           /\ History!Recorded(v1, v2, v3, History!Items(v1, v1, {k}, v2, v2), {})
  BY Zenon DEF History!Ordinary
<1>2. v1 \subseteq History!Package /\ Unique(v1) /\ k \in History!Package
  BY HistoryAssumption DEF HistoryInv
<1>3. CASE k \notin v1
  <2> DEFINE base == {l \in v1 : l[1] # k[1] /\ l[1] \notin Obsoletes[k[1]]} \cup {k}
             w == base \cup History!Pulled(base)
             r == [n \in Name |-> IF n \in History!Names(v1) THEN v2[n]
                                  ELSE IF n = k[1] THEN "user" ELSE "dependency"]
  <2>1. History!Recorded(w, r, v3, History!Items(v1, w, {}, r, v2), {})
    BY <1>1, <1>3, Zenon
  <2>2. base \subseteq History!Package /\ Unique(base)
    BY <1>2 DEF Unique
  <2> HIDE DEF base, r
  <2>3. w \subseteq History!Package /\ Unique(w)
    BY <2>2, PulledUnique
  <2> HIDE DEF w
  <2>4. EntryOK(History!Items(v1, w, {}, r, v2))
    BY <1>2, <2>3, ItemsOK
  <2> QED BY <2>1, <2>3, <2>4, RecordedOK
<1>4. CASE k \in v1
  <2>1. EntryOK(History!Items(v1, v1, {k}, v2, v2))
    BY <1>4, AgainOK
  <2>2. History!Recorded(v1, v2, v3, History!Items(v1, v1, {k}, v2, v2), {})
    BY <1>1, <1>4, Zenon
  <2> QED BY <1>2, <2>1, <2>2, RecordedOK
<1> QED BY <1>3, <1>4

\* So does what removes packages.
LEMMA RemoveKeeps ==
  ASSUME HistoryInv, History!OrdinaryRemove
  PROVE  HistoryInv'
<1>1. PICK k \in v1 :
        LET dependents == {l \in v1 : k[1] \in Requires[l[1]]}
            w == v1 \ ({k} \cup dependents)
            e == [n \in Name |-> IF n = k[1] THEN "user" ELSE "dependency"]
        IN History!Recorded(w, v2, v3, History!Items(v1, w, {}, v2, e), {})
  BY Zenon DEF History!OrdinaryRemove
<1> DEFINE w == v1 \ ({k} \cup {l \in v1 : k[1] \in Requires[l[1]]})
           e == [n \in Name |-> IF n = k[1] THEN "user" ELSE "dependency"]
<1>2. History!Recorded(w, v2, v3, History!Items(v1, w, {}, v2, e), {})
  BY <1>1, Zenon
<1>3. /\ v1 \subseteq History!Package /\ Unique(v1)
      /\ w \subseteq History!Package /\ Unique(w)
  BY DEF HistoryInv, Unique
<1> HIDE DEF w, e
<1>4. EntryOK(History!Items(v1, w, {}, v2, e))
  BY <1>3, ItemsOK
<1> QED BY <1>2, <1>3, <1>4, RecordedOK

\* Marks and groups leave the packages as they are.
LEMMA MarkKeeps ==
  ASSUME HistoryInv, History!OrdinaryMark \/ History!OrdinaryGroup
  PROVE  HistoryInv'
<1>1. v1 \in SUBSET History!Package /\ Unique(v1)
  BY DEF HistoryInv
<1>2. CASE History!OrdinaryMark
  <2>1. PICK k \in v1, r \in {"user", "dependency"} :
          History!Recorded(v1, [v2 EXCEPT ![k[1]] = r], v3,
                           {History!Item("Reason Change", k, r)}, {})
    BY <1>2, Zenon DEF History!OrdinaryMark
  <2>2. EntryOK({History!Item("Reason Change", k, r)})
    <3> DEFINE item == History!Item("Reason Change", k, r)
    <3>1. item.action = "Reason Change"
      BY DEF History!Item
    <3> HIDE DEF item
    <3>2. EntryOK({item})
      BY <3>1, MarksOK
    <3> QED BY <3>2 DEF item
  <2> QED BY <1>1, <2>1, <2>2, RecordedOK
<1>3. CASE History!OrdinaryGroup
  <2>1. \E gs, ids : History!Recorded(v1, v2, gs, {}, ids)
    BY <1>3, Zenon DEF History!OrdinaryGroup
  <2>2. EntryOK({})
    BY MarksOK
  <2> QED BY <1>1, <2>1, <2>2, RecordedOK
<1> QED BY <1>2, <1>3

\* What an item asks for are known packages, and what is installed again is asked for.
LEMMA AsksKnown ==
  ASSUME NEW i, NEW o \in History!Options
  PROVE  LET a == History!ReplayPkgAction(i, o) IN
         /\ a.want \subseteq v1 \cup v4.pkgs
         /\ a.again \subseteq a.want \cap v1
BY DEF History!ReplayPkgAction, History!Asked, History!Refused, History!Forward, History!Backward

\* Without options, what is asked for without an error is done as it was recorded.
LEMMA AsksExactly ==
  ASSUME NEW i, NEW o \in History!Options, ~o.skip, ~o.installed,
         ~History!ReplayPkgAction(i, o).error
  PROVE  LET a == History!ReplayPkgAction(i, o) IN
         /\ a.want = IF i.action \in History!Forward THEN {i.pkg} ELSE {}
         /\ a.erase = IF i.action \in History!Backward THEN {i.pkg} ELSE {}
         /\ a.again = IF i.action = "Reinstall" THEN {i.pkg} \cap v1 ELSE {}
         /\ i.action = "Install" => i.pkg[1] \notin History!Names(v1)
         /\ i.action \in History!Backward => i.pkg \in v1
BY DEF History!ReplayPkgAction, History!Asked, History!Refused, History!Forward, History!Backward,
       History!Options

\* The parts of a replay: what is asked for, what the system becomes, what was not asked for.
AllAsked(f, data, o) == UNION {a[f] : a \in {History!ReplayPkgAction(i, o) : i \in data.rpms}}
Base(data, o) ==
  (v1 \ (AllAsked("erase", data, o)
           \cup {l \in v1 : l[1] \in History!Names(AllAsked("want", data, o))
                              \/ \E k \in AllAsked("want", data, o) : l[1] \in Obsoletes[k[1]]}))
    \cup AllAsked("want", data, o)
Target(data, o) ==
  Base(data, o) \cup (History!Pulled(Base(data, o)) \ AllAsked("erase", data, o))
Moved(data) == {i.pkg : i \in {j \in data.rpms : j.action # "Reason Change"}}
Extras(data, o) ==
  {k \in (Target(data, o) \ v1) \cup (v1 \ Target(data, o)) :
     k \notin Moved(data)
       /\ ~(o.installed /\ k \in v1 /\ k[1] \in History!Names(Target(data, o)))}

\* The groups it names that it can do something about, and what becomes of them.
Granted(data, o) == {i \in data.ids : ~History!ReplayGroupAction(i, o).warned}
IdsWith(action, ids) == {i.id : i \in {j \in ids : j.action = action}}
Regroup(ids) == (v3 \ IdsWith("Removed", ids)) \cup IdsWith("Install", ids)

\* What a replay does.
LEMMA ReplayedParts ==
  ASSUME NEW data, NEW o, NEW cmd, NEW to, History!Replayed(data, o, cmd, to)
  PROVE  /\ \A i \in data.rpms : ~History!ReplayPkgAction(i, o).error
         /\ \A i \in data.ids : ~History!ReplayGroupAction(i, o).error
         /\ Unique(Target(data, o))
         /\ Extras(data, o) = {} \/ o.extras
         /\ v8'.cmd = cmd /\ v8'.to = to
         /\ ~v8'.warned => /\ Extras(data, o) = {}
                           /\ \A i \in data.rpms : ~History!ReplayPkgAction(i, o).warned
                           /\ \A i \in data.ids : ~History!ReplayGroupAction(i, o).warned
         /\ \E r, e, marks :
              /\ \A i \in marks : i.action = "Reason Change"
              /\ History!Recorded(Target(data, o), r, Regroup(Granted(data, o)),
                   History!Items(v1, Target(data, o), AllAsked("again", data, o), r, e) \cup marks,
                   {History!GroupItem(History!PersistorAction(i.action), i.id) : i \in Granted(data, o)})
<1> DEFINE asks == {History!ReplayPkgAction(i, o) : i \in data.rpms}
           about == {History!ReplayGroupAction(i, o) : i \in data.ids}
           all(f) == UNION {a[f] : a \in asks}
           w == Target(data, o)
           given(n) == {i.reason : i \in {j \in data.rpms : j.pkg[1] = n /\ j.pkg \in w
                                                              /\ j.action \in History!Forward}}
           removed(n) == {i.reason : i \in {j \in data.rpms : j.pkg[1] = n /\ j.pkg \in v1
                                                                /\ j.action = "Removed"}}
           r == [n \in Name |->
                  IF n \in {x[1] : x \in all("mark")} THEN (CHOOSE x \in all("mark") : x[1] = n)[2]
                  ELSE IF n \in History!Names(v1)
                       THEN IF "user" \in given(n) /\ n \in History!Names((w \ v1) \cup all("again"))
                            THEN "user" ELSE v2[n]
                  ELSE IF given(n) # {} THEN CHOOSE x \in given(n) : TRUE ELSE "dependency"]
           e == [n \in Name |->
                  IF removed(n) # {} THEN CHOOSE x \in removed(n) : TRUE ELSE r[n]]
           ok == Granted(data, o)
           gs == Regroup(ok)
           marks == {i \in data.rpms : i.action = "Reason Change"
                                       /\ i.pkg \in v1 \cup v4.pkgs}
           ids == {History!GroupItem(History!PersistorAction(i.action), i.id) : i \in ok}
           extras == Extras(data, o)
<1>1. /\ \A a \in asks \cup about : ~a.error
      /\ \A k, l \in w : k[1] = l[1] => k = l
      /\ extras = {} \/ o.extras
      /\ History!Recorded(w, r, gs, History!Items(v1, w, all("again"), r, e) \cup marks, ids)
      /\ v8' = [cmd |-> cmd, to |-> to,
                warned |-> extras # {} \/ \E a \in asks \cup about : a.warned]
  BY Zenon DEF History!Replayed, Target, Base, AllAsked, Extras, Moved, Granted, IdsWith, Regroup
<1>2. all("again") = AllAsked("again", data, o)
  BY DEF AllAsked
<1>3. /\ \A i \in data.rpms : History!ReplayPkgAction(i, o) \in asks
      /\ \A i \in data.ids : History!ReplayGroupAction(i, o) \in about
  OBVIOUS
<1>4. \A i \in marks : i.action = "Reason Change"
  OBVIOUS
<1> HIDE DEF asks, about, all, w, given, removed, r, e, gs, ok, marks, extras, ids
<1>5. v8'.cmd = cmd /\ v8'.to = to
  BY <1>1
<1>6. ~v8'.warned => extras = {} /\ \A a \in asks \cup about : ~a.warned
  BY <1>1
<1>7. \E q, p, ms :
        /\ \A i \in ms : i.action = "Reason Change"
        /\ History!Recorded(w, q, gs, History!Items(v1, w, AllAsked("again", data, o), q, p) \cup ms, ids)
  BY <1>1, <1>2, <1>4, Zenon
<1>8. /\ \A i \in data.rpms : ~History!ReplayPkgAction(i, o).error
      /\ \A i \in data.ids : ~History!ReplayGroupAction(i, o).error
  BY <1>1, <1>3
<1>9. ~v8'.warned => /\ extras = {}
                     /\ \A i \in data.rpms : ~History!ReplayPkgAction(i, o).warned
                     /\ \A i \in data.ids : ~History!ReplayGroupAction(i, o).warned
  BY <1>3, <1>6
<1> QED BY <1>1, <1>5, <1>7, <1>8, <1>9, Zenon DEF w, extras, gs, ok, ids, Unique

\* What a replay records is how the system got to its target.
LEMMA ReplayedRecords ==
  ASSUME NEW data, NEW o, NEW cmd, NEW to, History!Replayed(data, o, cmd, to)
  PROVE  /\ \A i \in data.rpms : ~History!ReplayPkgAction(i, o).error
         /\ Unique(Target(data, o))
         /\ Extras(data, o) = {} \/ o.extras
         /\ v8'.cmd = cmd
         /\ \E r, e, gs, marks, ids :
              /\ \A i \in marks : i.action = "Reason Change"
              /\ History!Recorded(Target(data, o), r, gs,
                   History!Items(v1, Target(data, o), AllAsked("again", data, o), r, e) \cup marks,
                   ids)
BY ReplayedParts, Zenon

\* The target consists of known packages, with what is installed again.
LEMMA TargetKnown ==
  ASSUME HistoryInv, NEW data, NEW o \in History!Options
  PROVE  /\ Target(data, o) \subseteq History!Package
         /\ AllAsked("again", data, o) \subseteq v1 \cap Target(data, o)
<1>1. v1 \subseteq History!Package /\ v4.pkgs \subseteq History!Package
  BY HistoryAssumption DEF HistoryInv
<1>2. /\ AllAsked("want", data, o) \subseteq v1 \cup v4.pkgs
      /\ AllAsked("again", data, o) \subseteq AllAsked("want", data, o) \cap v1
  BY AsksKnown DEF AllAsked
<1>3. History!Pulled(Base(data, o)) \subseteq v4.pkgs
  BY DEF History!Pulled
<1>4. Base(data, o) \subseteq v1 \cup AllAsked("want", data, o)
      /\ AllAsked("want", data, o) \subseteq Base(data, o)
  BY DEF Base
<1> QED BY <1>1, <1>2, <1>3, <1>4 DEF Target

\* A replay keeps the records true.
LEMMA ReplayedKeeps ==
  ASSUME HistoryInv, NEW data, NEW o \in History!Options, NEW cmd, NEW to,
         History!Replayed(data, o, cmd, to)
  PROVE  HistoryInv'
<1> DEFINE w == Target(data, o)
           again == AllAsked("again", data, o)
<1>1. Unique(w)
  BY ReplayedRecords
<1>2. PICK r, e, gs, marks, ids :
        /\ \A i \in marks : i.action = "Reason Change"
        /\ History!Recorded(w, r, gs, History!Items(v1, w, again, r, e) \cup marks, ids)
  BY ReplayedRecords
<1>3. w \subseteq History!Package /\ again \subseteq v1 \cap w
  BY TargetKnown
<1>4. v1 \subseteq History!Package /\ Unique(v1)
  BY DEF HistoryInv
<1> HIDE DEF w, again
<1>5. EntryOK(History!Items(v1, w, again, r, e))
  BY <1>1, <1>3, <1>4, ItemsOK
<1>6. EntryOK(History!Items(v1, w, again, r, e) \cup marks)
  BY <1>2, <1>5, MarkedOK
<1> QED BY <1>1, <1>2, <1>3, <1>6, RecordedOK

\* What comes where nothing of the same name goes.
Anew(f, b) == {k \in f : \A l \in b : l[1] # k[1]}

\* What comes, goes and is installed again can be read from a record.
LEMMA DidSays ==
  ASSUME NEW f \in SUBSET History!Package, NEW b \in SUBSET History!Package, NEW r,
         f \cap b = {}
  PROVE  /\ \A k : (\E a \in History!Forward : <<a, k>> \in Did(f, b, r)) <=> k \in f \cup r
         /\ \A k : (\E a \in History!Backward : <<a, k>> \in Did(f, b, r)) <=> k \in b \cup r
         /\ \A k : <<"Reinstall", k>> \in Did(f, b, r) <=> k \in r
         /\ \A k : <<"Install", k>> \in Did(f, b, r) <=> k \in Anew(f, b)
<1> DEFINE up == {k \in f : \E l \in b : History!Newer(k, l)}
           down == {k \in f : \E l \in b : History!Newer(l, k)}
           gone == {l \in b : l[1] \notin History!Names(f)}
           obs == {x \in gone : \E k \in f : x[1] \in Obsoletes[k[1]]}
           rem == {x \in gone : ~(\E k \in f : x[1] \in Obsoletes[k[1]])}
           upd == {x \in b : \E k \in up : k[1] = x[1]}
           dnd == {x \in b : \E k \in down : k[1] = x[1]}
           in == f \ (up \cup down)
<1>1. \A a, k : <<a, k>> \in Did(f, b, r) <=>
        \/ (a = "Upgrade" /\ k \in up)
        \/ (a = "Downgrade" /\ k \in down)
        \/ (a = "Install" /\ k \in in)
        \/ (a = "Upgraded" /\ k \in upd)
        \/ (a = "Downgraded" /\ k \in dnd)
        \/ (a = "Obsoleted" /\ k \in obs)
        \/ (a = "Removed" /\ k \in rem)
        \/ (a = "Reinstall" /\ k \in r)
        \/ (a = "Reinstalled" /\ k \in r)
  <2>1. \A a, k, c, S : <<a, k>> \in Pairs(c, S) <=> a = c /\ k \in S
    BY DEF Pairs
  <2>2. Did(f, b, r) =
          Pairs("Upgrade", up) \cup Pairs("Downgrade", down) \cup Pairs("Install", in)
            \cup Pairs("Upgraded", upd) \cup Pairs("Downgraded", dnd) \cup Pairs("Obsoleted", obs)
            \cup Pairs("Removed", rem) \cup Pairs("Reinstall", r) \cup Pairs("Reinstalled", r)
    BY Zenon DEF Did
  <2> HIDE DEF up, down, gone, obs, rem, upd, dnd, in
  <2> QED BY <2>1, <2>2
<1>2. \A k, l \in History!Package : k[1] = l[1] /\ k # l => History!Newer(k, l) \/ History!Newer(l, k)
  BY DEF History!Package, History!Newer
<1>3. \A k \in f : \A l \in b : k[1] = l[1] => History!Newer(k, l) \/ History!Newer(l, k)
  BY <1>2
<1>4. \A k \in f : k \in in <=> \A l \in b : l[1] # k[1]
  BY <1>3 DEF History!Newer
<1>5. f = up \cup down \cup in
  OBVIOUS
<1>6. b = upd \cup dnd \cup obs \cup rem
  <2>1. \A l \in b : l \in gone \/ l \in upd \/ l \in dnd
    BY <1>3 DEF History!Names
  <2>2. obs \cup rem = gone /\ gone \subseteq b /\ upd \subseteq b /\ dnd \subseteq b
    OBVIOUS
  <2> HIDE DEF gone, obs, rem, upd, dnd
  <2> QED BY <2>1, <2>2
<1>7. in \subseteq f
  OBVIOUS
<1> HIDE DEF up, down, gone, obs, rem, upd, dnd, in
<1>8. ASSUME NEW k PROVE (\E a \in History!Forward : <<a, k>> \in Did(f, b, r)) <=> k \in f \cup r
  <2>1. (\E a \in History!Forward : <<a, k>> \in Did(f, b, r)) <=>
          \/ <<"Upgrade", k>> \in Did(f, b, r)
          \/ <<"Downgrade", k>> \in Did(f, b, r)
          \/ <<"Install", k>> \in Did(f, b, r)
          \/ <<"Reinstall", k>> \in Did(f, b, r)
    BY DEF History!Forward
  <2>2. /\ <<"Upgrade", k>> \in Did(f, b, r) <=> k \in up
        /\ <<"Downgrade", k>> \in Did(f, b, r) <=> k \in down
        /\ <<"Install", k>> \in Did(f, b, r) <=> k \in in
        /\ <<"Reinstall", k>> \in Did(f, b, r) <=> k \in r
    BY <1>1
  <2> QED BY <1>5, <2>1, <2>2
<1>9. ASSUME NEW k PROVE (\E a \in History!Backward : <<a, k>> \in Did(f, b, r)) <=> k \in b \cup r
  <2>1. (\E a \in History!Backward : <<a, k>> \in Did(f, b, r)) <=>
          \/ <<"Upgraded", k>> \in Did(f, b, r)
          \/ <<"Downgraded", k>> \in Did(f, b, r)
          \/ <<"Obsoleted", k>> \in Did(f, b, r)
          \/ <<"Removed", k>> \in Did(f, b, r)
          \/ <<"Reinstalled", k>> \in Did(f, b, r)
    BY DEF History!Backward
  <2> QED BY <1>1, <1>6, <2>1
<1>10. \A k : <<"Reinstall", k>> \in Did(f, b, r) <=> k \in r
  BY <1>1
<1>11. \A k : <<"Install", k>> \in Did(f, b, r) <=> k \in Anew(f, b)
  BY <1>1, <1>4, <1>7 DEF Anew
<1> QED BY <1>8, <1>9, <1>10, <1>11

\* What is done to a package is to bring or to take it.
LEMMA DidActs ==
  ASSUME NEW f, NEW b, NEW r, NEW a, NEW k, <<a, k>> \in Did(f, b, r)
  PROVE  a \in History!Forward \cup History!Backward
BY DEF Did, Pairs, History!Forward, History!Backward

\* A replay without options does what was stored.
LEMMA ExactReplay ==
  ASSUME HistoryInv, NEW o \in History!Options, ~o.skip, ~o.installed, ~o.extras, NEW cmd, NEW to,
         History!Replayed(v7, o, cmd, to)
  PROVE  History!ReplaysExactly
<1> DEFINE w == Target(v7, o)
           want == AllAsked("want", v7, o)
           erase == AllAsked("erase", v7, o)
           again == AllAsked("again", v7, o)
           rpms == v7.rpms
           a(i) == History!ReplayPkgAction(i, o)
<1>1. PICK f, b, r \in SUBSET History!Package :
        /\ f \cap b = {} /\ r \cap (f \cup b) = {}
        /\ History!Effect(rpms) = Did(f, b, r)
  BY Zenon DEF HistoryInv, EntryOK
<1>2. \A i \in rpms : ~a(i).error
  BY ReplayedRecords
<1>3. ASSUME NEW act, NEW k
      PROVE  <<act, k>> \in Did(f, b, r) <=>
               act # "Reason Change" /\ \E i \in rpms : i.action = act /\ i.pkg = k
  <2>1. \A x : x \in History!Effect(rpms) <=>
          \E i \in rpms : i.action # "Reason Change" /\ x = <<i.action, i.pkg>>
    BY DEF History!Effect
  <2>2. <<act, k>> \in Did(f, b, r) <=>
          \E i \in rpms : i.action # "Reason Change" /\ <<act, k>> = <<i.action, i.pkg>>
    BY <1>1, <2>1
  <2>3. \A i \in rpms : <<act, k>> = <<i.action, i.pkg>> <=> act = i.action /\ k = i.pkg
    OBVIOUS
  <2> QED BY <2>2, <2>3
<1>4. /\ \A k : k \in want <=> \E i \in rpms : i.action \in History!Forward /\ i.pkg = k
      /\ \A k : k \in erase <=> \E i \in rpms : i.action \in History!Backward /\ i.pkg = k
      /\ \A k : k \in again <=> k \in v1 /\ \E i \in rpms : i.action = "Reinstall" /\ i.pkg = k
  <2>1. \A i \in rpms :
          /\ a(i).want = IF i.action \in History!Forward THEN {i.pkg} ELSE {}
          /\ a(i).erase = IF i.action \in History!Backward THEN {i.pkg} ELSE {}
          /\ a(i).again = IF i.action = "Reinstall" THEN {i.pkg} \cap v1 ELSE {}
    BY <1>2, AsksExactly
  <2>2. /\ \A k : k \in want <=> \E i \in rpms : k \in a(i).want
        /\ \A k : k \in erase <=> \E i \in rpms : k \in a(i).erase
        /\ \A k : k \in again <=> \E i \in rpms : k \in a(i).again
    BY DEF AllAsked
  <2> HIDE DEF a, want, erase, again, rpms
  <2>3. ASSUME NEW k PROVE k \in want <=> \E i \in rpms : i.action \in History!Forward /\ i.pkg = k
    <3>1. \A i \in rpms : k \in a(i).want <=> i.action \in History!Forward /\ i.pkg = k
      BY <2>1
    <3> QED BY <2>2, <3>1, Zenon
  <2>4. ASSUME NEW k PROVE k \in erase <=> \E i \in rpms : i.action \in History!Backward /\ i.pkg = k
    <3>1. \A i \in rpms : k \in a(i).erase <=> i.action \in History!Backward /\ i.pkg = k
      BY <2>1
    <3> QED BY <2>2, <3>1, Zenon
  <2>5. ASSUME NEW k
        PROVE  k \in again <=> k \in v1 /\ \E i \in rpms : i.action = "Reinstall" /\ i.pkg = k
    <3>1. \A i \in rpms : k \in a(i).again <=> k \in v1 /\ i.action = "Reinstall" /\ i.pkg = k
      BY <2>1
    <3> QED BY <2>2, <3>1, Zenon
  <2> QED BY <2>3, <2>4, <2>5
<1>5. /\ \A i \in rpms : i.action = "Install" => i.pkg[1] \notin History!Names(v1)
      /\ \A i \in rpms : i.action \in History!Backward => i.pkg \in v1
  BY <1>2, AsksExactly
<1> HIDE DEF a
<1> DEFINE In(act, k) == <<act, k>> \in Did(f, b, r)
<1>6. /\ \A k : (\E act \in History!Forward : In(act, k)) <=> k \in f \cup r
      /\ \A k : (\E act \in History!Backward : In(act, k)) <=> k \in b \cup r
      /\ \A k : In("Reinstall", k) <=> k \in r
      /\ \A k : In("Install", k) <=> k \in Anew(f, b)
  BY <1>1, DidSays
<1>7. \A act, k : In(act, k) => act \in History!Forward \cup History!Backward
  BY DidActs
<1>8. \A act, k : In(act, k) <=>
        act # "Reason Change" /\ \E i \in rpms : i.action = act /\ i.pkg = k
  BY <1>3
<1> HIDE DEF In, want, erase, again, rpms
<1>9. ASSUME NEW k
      PROVE  /\ k \in want <=> k \in f \cup r
             /\ k \in erase <=> k \in b \cup r
             /\ k \in again <=> k \in v1 /\ k \in r
  <2>1. \A act \in History!Forward \cup History!Backward :
          In(act, k) <=> \E i \in rpms : i.action = act /\ i.pkg = k
    BY <1>8 DEF History!Forward, History!Backward
  <2>2. (\E act \in History!Forward : In(act, k)) <=>
          \E i \in rpms : i.action \in History!Forward /\ i.pkg = k
    BY <2>1
  <2>3. (\E act \in History!Backward : In(act, k)) <=>
          \E i \in rpms : i.action \in History!Backward /\ i.pkg = k
    BY <2>1
  <2>4. In("Reinstall", k) <=> \E i \in rpms : i.action = "Reinstall" /\ i.pkg = k
    BY <1>8
  <2>5. k \in want <=> k \in f \cup r
    BY <1>4, <1>6, <2>2, Zenon
  <2>6. k \in erase <=> k \in b \cup r
    BY <1>4, <1>6, <2>3, Zenon
  <2>7. k \in again <=> k \in v1 /\ k \in r
    BY <1>4, <1>6, <2>4, Zenon
  <2> QED BY <2>5, <2>6, <2>7
<1>10. want = f \cup r /\ erase = b \cup r
  BY <1>9
<1>11. b \cup r \subseteq v1
  BY <1>4, <1>5, <1>10
<1>12. again = r
  BY <1>9, <1>11
<1>13. f \cap v1 = {}
  <2>1. ASSUME NEW k \in f, k \in v1 PROVE FALSE
    <3>1. CASE \E l \in b : l[1] = k[1]
      BY <1>1, <1>11, <2>1, <3>1 DEF HistoryInv, Unique
    <3>2. CASE \A l \in b : l[1] # k[1]
      <4>1. In("Install", k)
        BY <1>6, <2>1, <3>2 DEF Anew
      <4>2. PICK i \in rpms : i.action = "Install" /\ i.pkg = k
        BY <1>8, <4>1
      <4>3. k[1] \notin History!Names(v1)
        BY <1>5, <4>2
      <4> QED BY <2>1, <4>3 DEF History!Names
    <3> QED BY <3>1, <3>2
  <2> QED BY <2>1
<1>14. Moved(v7) \subseteq f \cup b \cup r
  <2>1. ASSUME NEW i \in rpms, i.action # "Reason Change" PROVE i.pkg \in f \cup b \cup r
    <3>1. In(i.action, i.pkg)
      BY <1>8, <2>1
    <3> DEFINE act == i.action
               k == i.pkg
    <3>2. In(act, k)
      BY <3>1
    <3> HIDE DEF act, k
    <3>3. act \in History!Forward \cup History!Backward => k \in f \cup b \cup r
      BY <1>6, <3>2
    <3>4. act \in History!Forward \cup History!Backward
      BY <1>7, <3>2
    <3> QED BY <3>3, <3>4 DEF k
  <2> QED BY <2>1 DEF Moved, rpms
<1>15. /\ Base(v7, o) \subseteq (v1 \ erase) \cup want /\ want \subseteq Base(v7, o)
       /\ w = Base(v7, o) \cup (History!Pulled(Base(v7, o)) \ erase)
  BY DEF Base, Target, want, erase
<1>16. \A k \in (w \ v1) \cup (v1 \ w) : k \in Moved(v7)
  <2>1. Extras(v7, o) = {}
    BY ReplayedRecords
  <2> QED BY <2>1 DEF Extras
<1>17. Unique(v1) /\ Unique(w)
  BY ReplayedRecords DEF HistoryInv
<1>18. PICK q, e, gs, marks, ids :
         /\ \A i \in marks : i.action = "Reason Change"
         /\ History!Recorded(w, q, gs, History!Items(v1, w, again, q, e) \cup marks, ids)
  BY ReplayedRecords DEF again
<1> HIDE DEF w
<1>19. w \ v1 = f /\ v1 \ w = b
  <2>1. f \subseteq w \ v1 /\ r \subseteq w
    BY <1>10, <1>13, <1>15
  <2>2. b \cap w = {}
    BY <1>1, <1>10, <1>15
  <2> QED BY <1>11, <1>14, <1>16, <2>1, <2>2
<1> DEFINE items == History!Items(v1, w, again, q, e)
<1>20. History!Effect(items) = Did(f, b, r)
  <2>1. History!Effect(items) = Did(w \ v1, v1 \ w, again)
    BY ONLY <1>17, ItemsEffect
  <2> QED BY <1>12, <1>19, <2>1
<1> HIDE DEF items
<1>21. History!Effect(items \cup marks) = History!Effect(v7.rpms)
  BY <1>1, <1>18, <1>20, WithMarks DEF rpms
<1>22. CASE items \cup marks = {} /\ ids = {}
  <2>1. v5' = v5
    BY <1>18, <1>22 DEF History!Recorded, items
  <2>2. History!Effect(v7.rpms) = {}
    BY <1>21, <1>22 DEF History!Effect
  <2> QED BY <2>1, <2>2 DEF History!ReplaysExactly
<1>23. CASE ~(items \cup marks = {} /\ ids = {})
  <2> DEFINE x == History!Entry(items \cup marks, ids)
  <2>1. v5' = Append(v5, x)
    BY <1>18, <1>23 DEF History!Recorded, items
  <2>2. x.rpms = items \cup marks
    BY DEF History!Entry
  <2>3. PICK S : v5 \in Seq(S)
    BY DEF HistoryInv
  <2> HIDE DEF x
  <2>4. v5' # v5 /\ v5'[Len(v5')] = x
    BY <2>1, <2>3, OneMore
  <2> QED BY <1>21, <2>2, <2>4 DEF History!ReplaysExactly
<1> QED BY <1>22, <1>23

\* At first nothing is recorded or stored.
LEMMA HistoryInit == History!Init => HistoryInv
<1> SUFFICES ASSUME History!Init PROVE HistoryInv
  OBVIOUS
<1>1. PICK seed \in Seeds : v1 = seed[1]
  BY Zenon DEF History!Init
<1>2. v1 \subseteq History!Package /\ Unique(v1)
  BY <1>1, HistoryAssumption DEF Unique
<1>3. v4 \in Offers /\ v5 = <<>> /\ v7 = History!NoFile
  BY Zenon DEF History!Init
<1>4. v5 \in Seq({}) /\ \A t \in DOMAIN v5 : FALSE
  BY <1>3
<1>5. EntryOK(v7.rpms)
  <2>1. v7.rpms = {}
    BY <1>3 DEF History!NoFile
  <2>2. EntryOK({})
    BY MarksOK
  <2> QED BY <2>1, <2>2, Zenon
<1> QED BY <1>2, <1>3, <1>4, <1>5 DEF HistoryInv

\* The commands of dnf history replay something; with no options only what is stored.
LEMMA CommandReplays ==
  ASSUME History!Command
  PROVE  \E data, cmd, to : \E o \in History!Options :
           /\ History!Replayed(data, o, cmd, to)
           /\ \/ cmd # "exact replay"
              \/ data = v7 /\ ~o.installed /\ ~o.extras /\ ~o.skip
<1>1. \A skip \in BOOLEAN : History!Lenient(skip) \in History!Options
  BY DEF History!Lenient, History!Options
<1>2. CASE History!Undo
  <2>1. \E data, to : \E skip \in BOOLEAN :
          History!Replayed(data, History!Lenient(skip), "undo", to)
    BY <1>2, Zenon DEF History!Undo
  <2>2. "undo" # "exact replay"
    OBVIOUS
  <2>3. PICK data, to : \E skip \in BOOLEAN :
          History!Replayed(data, History!Lenient(skip), "undo", to)
    BY <2>1, Zenon
  <2>4. PICK skip \in BOOLEAN : History!Replayed(data, History!Lenient(skip), "undo", to)
    BY <2>3, Zenon
  <2>5. History!Lenient(skip) \in History!Options
    BY <1>1, <2>4, Zenon
  <2> WITNESS data, "undo", to
  <2> WITNESS History!Lenient(skip) \in History!Options
  <2> QED BY <2>2, <2>4, Zenon
<1>3. CASE History!Rollback
  <2>1. \E data, to : \E skip \in BOOLEAN :
          History!Replayed(data, History!Lenient(skip), "rollback", to)
    BY <1>3, Zenon DEF History!Rollback
  <2>2. "rollback" # "exact replay"
    OBVIOUS
  <2>3. PICK data, to : \E skip \in BOOLEAN :
          History!Replayed(data, History!Lenient(skip), "rollback", to)
    BY <2>1, Zenon
  <2>4. PICK skip \in BOOLEAN : History!Replayed(data, History!Lenient(skip), "rollback", to)
    BY <2>3, Zenon
  <2>5. History!Lenient(skip) \in History!Options
    BY <1>1, <2>4, Zenon
  <2> WITNESS data, "rollback", to
  <2> WITNESS History!Lenient(skip) \in History!Options
  <2> QED BY <2>2, <2>4, Zenon
<1>4. CASE History!Redo
  <2>1. \E data, to : \E skip \in BOOLEAN :
          History!Replayed(data, History!Lenient(skip), "redo", to)
    BY <1>4, Zenon DEF History!Redo
  <2>2. "redo" # "exact replay"
    OBVIOUS
  <2>3. PICK data, to : \E skip \in BOOLEAN :
          History!Replayed(data, History!Lenient(skip), "redo", to)
    BY <2>1, Zenon
  <2>4. PICK skip \in BOOLEAN : History!Replayed(data, History!Lenient(skip), "redo", to)
    BY <2>3, Zenon
  <2>5. History!Lenient(skip) \in History!Options
    BY <1>1, <2>4, Zenon
  <2> WITNESS data, "redo", to
  <2> WITNESS History!Lenient(skip) \in History!Options
  <2> QED BY <2>2, <2>4, Zenon
<1>5. CASE History!Replay
  <2>1. PICK o \in History!Options :
          History!Replayed(v7, o, IF TRUE \in {o.installed, o.extras, o.skip}
                                  THEN "replay" ELSE "exact replay", 0)
    BY <1>5, Zenon DEF History!Replay
  <2>2. /\ o.installed \in BOOLEAN /\ o.extras \in BOOLEAN /\ o.skip \in BOOLEAN
        /\ "replay" # "exact replay"
    BY DEF History!Options
  <2>3. CASE o.installed \/ o.extras \/ o.skip
    <3>1. TRUE \in {o.installed, o.extras, o.skip}
      BY <2>2, <2>3
    <3>2. History!Replayed(v7, o, "replay", 0)
      BY <2>1, <3>1, Zenon
    <3> QED BY <2>2, <3>2, Zenon
  <2>4. CASE ~o.installed /\ ~o.extras /\ ~o.skip
    <3>1. TRUE \notin {o.installed, o.extras, o.skip}
      BY <2>2, <2>4
    <3>2. History!Replayed(v7, o, "exact replay", 0)
      BY <2>1, <3>1, Zenon
    <3> QED BY <2>4, <3>2, Zenon
  <2> QED BY <2>3, <2>4
<1> QED BY <1>2, <1>3, <1>4, <1>5 DEF History!Command

\* Every step keeps the records true.
LEMMA HistoryStep == HistoryInv /\ [History!Next]_(History!vars) => HistoryInv'
<1> SUFFICES ASSUME HistoryInv, [History!Next]_(History!vars) PROVE HistoryInv'
  OBVIOUS
<1>1. CASE History!Ordinary
  BY <1>1, OrdinaryKeeps
<1>2. CASE History!OrdinaryRemove
  BY <1>2, RemoveKeeps
<1>3. CASE History!OrdinaryMark \/ History!OrdinaryGroup
  BY <1>3, MarkKeeps
<1>4. CASE History!Outside
  BY <1>4 DEF History!Outside, HistoryInv, Unique
<1>5. CASE History!Publish
  BY <1>5 DEF History!Publish, HistoryInv
<1>6. CASE History!Store
  <2>1. PICK t \in DOMAIN v5 : v7' = History!Serialized(v5[t])
    BY <1>6 DEF History!Store
  <2>2. v7'.rpms = v5[t].rpms
    BY <2>1 DEF History!Serialized
  <2>3. EntryOK(v7'.rpms)
    BY <2>2 DEF HistoryInv
  <2> QED BY <1>6, <2>3 DEF History!Store, HistoryInv
<1>7. CASE History!Command
  <2>1. PICK data, cmd, to : \E o \in History!Options : History!Replayed(data, o, cmd, to)
    BY <1>7, CommandReplays, Zenon
  <2> QED BY <2>1, ReplayedKeeps
<1>8. CASE UNCHANGED History!vars
  BY <1>8 DEF History!vars, HistoryInv
<1> QED BY <1>1, <1>2, <1>3, <1>4, <1>5, <1>6, <1>7, <1>8 DEF History!Next

\* A replay with no option does what was stored, and the other commands are no such replay.
LEMMA HistoryExact == HistoryInv /\ History!Next => History!ReplaysExactly
<1> SUFFICES ASSUME HistoryInv, History!Next PROVE History!ReplaysExactly
  OBVIOUS
<1>1. CASE v8' = History!Nothing
  BY <1>1 DEF History!Nothing, History!ReplaysExactly
<1>2. CASE History!Command
  <2>1. PICK data, cmd, to : \E o \in History!Options :
          /\ History!Replayed(data, o, cmd, to)
          /\ \/ cmd # "exact replay"
             \/ data = v7 /\ ~o.installed /\ ~o.extras /\ ~o.skip
    BY <1>2, CommandReplays, Zenon
  <2>2. PICK o \in History!Options :
          /\ History!Replayed(data, o, cmd, to)
          /\ \/ cmd # "exact replay"
             \/ data = v7 /\ ~o.installed /\ ~o.extras /\ ~o.skip
    BY <2>1
  <2>3. CASE cmd # "exact replay"
    <3>1. v8'.cmd = cmd
      BY <2>2, ReplayedRecords
    <3> QED BY <2>3, <3>1 DEF History!ReplaysExactly
  <2>4. CASE data = v7 /\ ~o.installed /\ ~o.extras /\ ~o.skip
    BY <2>2, <2>4, ExactReplay
  <2> QED BY <2>2, <2>3, <2>4
<1> QED BY <1>1, <1>2
     DEF History!Next, History!Ordinary, History!OrdinaryRemove, History!OrdinaryMark,
         History!OrdinaryGroup, History!Outside, History!Publish, History!Store

------------------------------------------------------------------------------
(* History: a rollback brings back what there was.                         *)

Takes(rpms, k) == \E i \in rpms : i.action \in History!Backward /\ i.pkg = k
Brings(rpms, k) == \E i \in rpms : i.action \in History!Forward /\ i.pkg = k

\* The items lead from x to y; what stays may be installed again.
Went(rpms, x, y) ==
  /\ \A i \in rpms : i.action \in History!Action
  /\ \A k : Takes(rpms, k) => k \in x
  /\ \A k : Brings(rpms, k) => k \in y
  /\ \A k \in x \cap y : Takes(rpms, k) <=> Brings(rpms, k)
  /\ \A k \in x \ y : Takes(rpms, k)
  /\ \A k \in y \ x : Brings(rpms, k)
  /\ \A k \in y \ x : k[1] \notin History!Names(x) =>
       \E i \in rpms : i.action = "Install" /\ i.pkg = k

\* One item takes a package of a name, and one brings one, at most.
Single(rpms) ==
  \A i, j \in rpms :
    /\ i.pkg[1] = j.pkg[1]
    /\ \/ i.action \in History!Forward /\ j.action \in History!Forward
       \/ i.action \in History!Backward /\ j.action \in History!Backward
    => i = j

\* What is done to a package is one thing.
LEMMA DidOnce ==
  ASSUME NEW v, NEW w, v \subseteq History!Package, w \subseteq History!Package,
         Unique(v), Unique(w), NEW r, r \subseteq v \cap w, NEW k, NEW a, NEW c,
         <<a, k>> \in Did(w \ v, v \ w, r), <<c, k>> \in Did(w \ v, v \ w, r),
         \/ a \in History!Forward /\ c \in History!Forward
         \/ a \in History!Backward /\ c \in History!Backward
  PROVE  a = c
<1> DEFINE f == w \ v
           b == v \ w
           up == {x \in f : \E l \in b : History!Newer(x, l)}
           down == {x \in f : \E l \in b : History!Newer(l, x)}
           gone == {l \in b : l[1] \notin History!Names(f)}
           obs == {x \in gone : \E y \in f : x[1] \in Obsoletes[y[1]]}
           rem == {x \in gone : ~(\E y \in f : x[1] \in Obsoletes[y[1]])}
           upd == {x \in b : \E y \in up : y[1] = x[1]}
           dnd == {x \in b : \E y \in down : y[1] = x[1]}
           in == f \ (up \cup down)
<1>1. \A d : <<d, k>> \in Did(f, b, r) <=>
        \/ (d = "Upgrade" /\ k \in up)
        \/ (d = "Downgrade" /\ k \in down)
        \/ (d = "Install" /\ k \in in)
        \/ (d = "Upgraded" /\ k \in upd)
        \/ (d = "Downgraded" /\ k \in dnd)
        \/ (d = "Obsoleted" /\ k \in obs)
        \/ (d = "Removed" /\ k \in rem)
        \/ (d = "Reinstall" /\ k \in r)
        \/ (d = "Reinstalled" /\ k \in r)
  <2>1. \A d, c1, S : <<d, k>> \in Pairs(c1, S) <=> d = c1 /\ k \in S
    BY DEF Pairs
  <2> HIDE DEF f, b
  <2>2. Did(f, b, r) =
          Pairs("Upgrade", up) \cup Pairs("Downgrade", down) \cup Pairs("Install", in)
            \cup Pairs("Upgraded", upd) \cup Pairs("Downgraded", dnd) \cup Pairs("Obsoleted", obs)
            \cup Pairs("Removed", rem) \cup Pairs("Reinstall", r) \cup Pairs("Reinstalled", r)
    BY Zenon DEF Did
  <2> HIDE DEF up, down, gone, obs, rem, upd, dnd, in
  <2> QED BY <2>1, <2>2
<1>2. \A x, y \in History!Package : ~(History!Newer(x, y) /\ History!Newer(y, x))
  BY DEF History!Package, History!Newer
<1>3. up \cap down = {}
  <2>1. ASSUME NEW x \in up, x \in down PROVE FALSE
    <3>1. PICK l \in b : History!Newer(x, l)
      OBVIOUS
    <3>2. PICK m \in b : History!Newer(m, x)
      BY <2>1
    <3>3. l = m
      BY <3>1, <3>2 DEF Unique, History!Newer
    <3> QED BY <1>2, <3>1, <3>2, <3>3
  <2> QED BY <2>1
<1>4. upd \cap dnd = {}
  <2>1. ASSUME NEW x \in upd, x \in dnd PROVE FALSE
    <3>1. PICK y \in up : y[1] = x[1]
      OBVIOUS
    <3>2. PICK z \in down : z[1] = x[1]
      BY <2>1
    <3>3. y = z
      BY <3>1, <3>2 DEF Unique
    <3> QED BY <1>3, <3>3
  <2> QED BY <2>1
<1>5. gone \cap (upd \cup dnd) = {}
  BY DEF History!Names
<1>6. /\ in \cap (up \cup down) = {} /\ r \cap (up \cup down \cup in) = {}
      /\ r \cap (upd \cup dnd \cup gone) = {}
      /\ obs \cap rem = {} /\ obs \cup rem = gone
  OBVIOUS
<1>7. /\ <<a, k>> \in Did(f, b, r) /\ <<c, k>> \in Did(f, b, r)
  OBVIOUS
<1> HIDE DEF f, b, up, down, gone, obs, rem, upd, dnd, in
<1>8. CASE a \in History!Forward /\ c \in History!Forward
  <2>1. /\ (a = "Upgrade" /\ k \in up) \/ (a = "Downgrade" /\ k \in down)
             \/ (a = "Install" /\ k \in in) \/ (a = "Reinstall" /\ k \in r)
        /\ (c = "Upgrade" /\ k \in up) \/ (c = "Downgrade" /\ k \in down)
             \/ (c = "Install" /\ k \in in) \/ (c = "Reinstall" /\ k \in r)
    BY <1>1, <1>7, <1>8 DEF History!Forward
  <2> QED BY ONLY <1>3, <1>6, <2>1
<1>9. CASE a \in History!Backward /\ c \in History!Backward
  <2>1. /\ (a = "Upgraded" /\ k \in upd) \/ (a = "Downgraded" /\ k \in dnd)
             \/ (a = "Obsoleted" /\ k \in obs) \/ (a = "Removed" /\ k \in rem)
             \/ (a = "Reinstalled" /\ k \in r)
        /\ (c = "Upgraded" /\ k \in upd) \/ (c = "Downgraded" /\ k \in dnd)
             \/ (c = "Obsoleted" /\ k \in obs) \/ (c = "Removed" /\ k \in rem)
             \/ (c = "Reinstalled" /\ k \in r)
    BY <1>1, <1>7, <1>9 DEF History!Backward
  <2> QED BY ONLY <1>4, <1>5, <1>6, <2>1
<1> QED BY <1>8, <1>9

\* What is recorded of a transaction leads from where it began to where it ended.
LEMMA DidWent ==
  ASSUME NEW rpms, NEW x, NEW y, x \subseteq History!Package, y \subseteq History!Package,
         NEW r, r \subseteq x \cap y, History!Effect(rpms) = Did(y \ x, x \ y, r)
  PROVE  Went(rpms, x, y)
<1> DEFINE f == y \ x
           b == x \ y
           In(a, k) == <<a, k>> \in Did(f, b, r)
<1>1. \A a, k : In(a, k) <=> a # "Reason Change" /\ \E i \in rpms : i.action = a /\ i.pkg = k
  <2>1. ASSUME NEW a, NEW k
        PROVE  In(a, k) <=> a # "Reason Change" /\ \E i \in rpms : i.action = a /\ i.pkg = k
    <3>1. \A z : z \in History!Effect(rpms) <=>
            \E i \in rpms : i.action # "Reason Change" /\ z = <<i.action, i.pkg>>
      BY DEF History!Effect
    <3>2. In(a, k) <=> \E i \in rpms : i.action # "Reason Change" /\ <<a, k>> = <<i.action, i.pkg>>
      BY <3>1
    <3>3. \A i \in rpms : <<a, k>> = <<i.action, i.pkg>> <=> a = i.action /\ k = i.pkg
      OBVIOUS
    <3> QED BY <3>2, <3>3
  <2> QED BY <2>1
<1>2. f \in SUBSET History!Package /\ b \in SUBSET History!Package /\ f \cap b = {}
  OBVIOUS
<1> HIDE DEF f, b
<1>3. /\ \A k : (\E a \in History!Forward : In(a, k)) <=> k \in f \cup r
      /\ \A k : (\E a \in History!Backward : In(a, k)) <=> k \in b \cup r
      /\ \A k : In("Install", k) <=> k \in Anew(f, b)
  <2>1. \A k : (\E a \in History!Forward : <<a, k>> \in Did(f, b, r)) <=> k \in f \cup r
    BY <1>2, DidSays, Zenon
  <2>2. \A k : (\E a \in History!Backward : <<a, k>> \in Did(f, b, r)) <=> k \in b \cup r
    BY <1>2, DidSays, Zenon
  <2>3. \A k : <<"Install", k>> \in Did(f, b, r) <=> k \in Anew(f, b)
    BY <1>2, DidSays, Zenon
  <2> QED BY <2>1, <2>2, <2>3, Zenon
<1>4. \A a, k : In(a, k) => a \in History!Forward \cup History!Backward
  BY DidActs
<1> HIDE DEF In
<1>5. \A k : Brings(rpms, k) <=> k \in f \cup r
  <2>1. \A a \in History!Forward : a # "Reason Change"
    BY DEF History!Forward
  <2>2. ASSUME NEW k PROVE Brings(rpms, k) <=> \E a \in History!Forward : In(a, k)
    BY <1>1, <2>1, Zenon DEF Brings
  <2> QED BY <1>3, <2>2, Zenon
<1>6. \A k : Takes(rpms, k) <=> k \in b \cup r
  <2>1. \A a \in History!Backward : a # "Reason Change"
    BY DEF History!Backward
  <2>2. ASSUME NEW k PROVE Takes(rpms, k) <=> \E a \in History!Backward : In(a, k)
    BY <1>1, <2>1, Zenon DEF Takes
  <2> QED BY <1>3, <2>2, Zenon
<1>7. \A i \in rpms : i.action \in History!Action
  BY <1>1, <1>4 DEF History!Action
<1>8. ASSUME NEW k \in y \ x, k[1] \notin History!Names(x)
      PROVE  \E i \in rpms : i.action = "Install" /\ i.pkg = k
  <2>1. k \in Anew(f, b)
    BY <1>8 DEF f, b, Anew, History!Names
  <2>2. In("Install", k)
    BY <1>3, <2>1
  <2> QED BY <1>1, <2>2
<1> QED BY <1>5, <1>6, <1>7, <1>8 DEF Went, f, b

\* The reason that an item of a transaction records.
Why(a, k, r, e) ==
  IF a \in History!Forward THEN r[k[1]] ELSE IF a = "Removed" THEN e[k[1]] ELSE v2[k[1]]

\* An item is an action on a package, for its reason.
LEMMA ItemsKnown ==
  ASSUME NEW v, NEW w, NEW again, NEW r, NEW e
  PROVE  \A i \in History!Items(v, w, again, r, e) :
         /\ i.action \in History!Forward \cup History!Backward
         /\ i = History!Item(i.action, i.pkg, Why(i.action, i.pkg, r, e))
<1> SUFFICES ASSUME NEW i \in History!Items(v, w, again, r, e)
             PROVE  /\ i.action \in History!Forward \cup History!Backward
                    /\ i = History!Item(i.action, i.pkg, Why(i.action, i.pkg, r, e))
  OBVIOUS
<1> DEFINE Known(a, k, q) ==
             /\ a \in History!Forward \cup History!Backward
             /\ i = History!Item(a, k, q) /\ q = Why(a, k, r, e)
<1>1. \E a, k, q : Known(a, k, q)
  <2> DEFINE up == {k \in w \ v : \E l \in {l \in v \ w : l[1] = k[1]} : History!Newer(k, l)}
             down == {k \in w \ v : \E l \in {l \in v \ w : l[1] = k[1]} : History!Newer(l, k)}
             gone == {l \in v \ w : l[1] \notin History!Names(w)}
             obs == {x \in gone : \E k \in w \ v : x[1] \in Obsoletes[k[1]]}
             rem == {x \in gone : ~(\E k \in w \ v : x[1] \in Obsoletes[k[1]])}
             upd == {x \in v : \E k \in up : k[1] = x[1]}
             dnd == {x \in v : \E k \in down : k[1] = x[1]}
             in == (w \ v) \ (up \cup down)
  <2>1. History!Items(v, w, again, r, e) =
          ItemsOf("Upgrade", up, r) \cup ItemsOf("Downgrade", down, r) \cup ItemsOf("Install", in, r)
            \cup ItemsOf("Upgraded", upd, v2) \cup ItemsOf("Downgraded", dnd, v2) \cup ItemsOf("Obsoleted", obs, v2)
            \cup ItemsOf("Removed", rem, e) \cup ItemsOf("Reinstall", again, r) \cup ItemsOf("Reinstalled", again, v2)
    BY Zenon DEF History!Items, ItemsOf
  <2> HIDE DEF up, down, gone, obs, rem, upd, dnd, in
  <2>2. \/ \E a \in History!Forward : \E S : i \in ItemsOf(a, S, r)
        \/ \E S : i \in ItemsOf("Removed", S, e)
        \/ \E a \in History!Backward \ {"Removed"} : \E S : i \in ItemsOf(a, S, v2)
    <3>1. /\ {"Upgrade", "Downgrade", "Install", "Reinstall"} \subseteq History!Forward
          /\ {"Upgraded", "Downgraded", "Obsoleted", "Reinstalled"} \subseteq History!Backward \ {"Removed"}
      BY DEF History!Forward, History!Backward
    <3> QED BY <2>1, <3>1
  <2>3. "Removed" \in History!Backward /\ "Removed" \notin History!Forward
        /\ \A a \in History!Backward : a \notin History!Forward
    BY DEF History!Forward, History!Backward
  <2>4. \A a, S, q : i \in ItemsOf(a, S, q) => \E k \in S : i = History!Item(a, k, q[k[1]])
    BY DEF ItemsOf
  <2>5. CASE \E a \in History!Forward : \E S : i \in ItemsOf(a, S, r)
    <3>1. PICK a \in History!Forward : \E S : i \in ItemsOf(a, S, r)
      BY <2>5
    <3>2. PICK k : i = History!Item(a, k, r[k[1]])
      BY <2>4, <3>1
    <3>3. Known(a, k, r[k[1]])
      BY <3>2 DEF Why
    <3> QED BY <3>3, Zenon
  <2>6. CASE \E S : i \in ItemsOf("Removed", S, e)
    <3>1. PICK k : i = History!Item("Removed", k, e[k[1]])
      BY <2>4, <2>6
    <3>2. Known("Removed", k, e[k[1]])
      BY <2>3, <3>1 DEF Why
    <3> QED BY <3>2, Zenon
  <2>7. CASE \E a \in History!Backward \ {"Removed"} : \E S : i \in ItemsOf(a, S, v2)
    <3>1. PICK a \in History!Backward \ {"Removed"} : \E S : i \in ItemsOf(a, S, v2)
      BY <2>7
    <3>2. PICK k : i = History!Item(a, k, v2[k[1]])
      BY <2>4, <3>1
    <3>3. Known(a, k, v2[k[1]])
      BY <2>3, <3>2 DEF Why
    <3> QED BY <3>3, Zenon
  <2> QED BY <2>2, <2>5, <2>6, <2>7
<1>2. PICK a, k, q : Known(a, k, q)
  BY <1>1
<1>3. i.action = a /\ i.pkg = k
  BY <1>2 DEF History!Item
<1> QED BY <1>2, <1>3

\* The record of a transaction leads from where it began to where it ended.
LEMMA ItemsWent ==
  ASSUME NEW v, NEW w, NEW again, NEW r, NEW e, Unique(v), Unique(w),
         v \subseteq History!Package, w \subseteq History!Package, again \subseteq v \cap w,
         NEW marks, \A i \in marks : i.action = "Reason Change"
  PROVE  /\ Single(History!Items(v, w, again, r, e) \cup marks)
         /\ Went(History!Items(v, w, again, r, e) \cup marks, v, w)
<1> DEFINE items == History!Items(v, w, again, r, e)
<1>1. History!Effect(items \cup marks) = Did(w \ v, v \ w, again)
  <2>1. History!Effect(items) = Did(w \ v, v \ w, again)
    BY ONLY Unique(v), Unique(w), ItemsEffect
  <2> HIDE DEF items
  <2>2. History!Effect(items \cup marks) = History!Effect(items)
    BY WithMarks
  <2> QED BY <2>1, <2>2
<1>2. \A i \in items : /\ i.action \in History!Forward \cup History!Backward
                       /\ i = History!Item(i.action, i.pkg, Why(i.action, i.pkg, r, e))
  BY ONLY ItemsKnown
<1> HIDE DEF items
<1>3. Went(items \cup marks, v, w)
  BY <1>1, DidWent
<1>4. "Reason Change" \notin History!Forward \cup History!Backward
  BY DEF History!Forward, History!Backward
<1>5. ASSUME NEW i \in items \cup marks, NEW j \in items \cup marks, i.pkg[1] = j.pkg[1],
             \/ i.action \in History!Forward /\ j.action \in History!Forward
             \/ i.action \in History!Backward /\ j.action \in History!Backward
      PROVE  i = j
  <2>1. i \in items /\ j \in items
    BY <1>4, <1>5
  <2>2. i.pkg = j.pkg
    <3>1. CASE i.action \in History!Forward /\ j.action \in History!Forward
      <4>1. i.pkg \in w /\ j.pkg \in w
        BY <1>3, <3>1 DEF Went, Brings
      <4> QED BY <1>5, <4>1 DEF Unique
    <3>2. CASE i.action \in History!Backward /\ j.action \in History!Backward
      <4>1. i.pkg \in v /\ j.pkg \in v
        BY <1>3, <3>2 DEF Went, Takes
      <4> QED BY <1>5, <4>1 DEF Unique
    <3> QED BY <1>5, <3>1, <3>2
  <2>3. \A x \in items \cup marks : x.action # "Reason Change" =>
          <<x.action, x.pkg>> \in Did(w \ v, v \ w, again)
    BY <1>1 DEF History!Effect
  <2> DEFINE a == i.action
             c == j.action
             k == i.pkg
  <2>4. /\ <<a, k>> \in Did(w \ v, v \ w, again) /\ <<c, k>> \in Did(w \ v, v \ w, again)
        /\ \/ a \in History!Forward /\ c \in History!Forward
           \/ a \in History!Backward /\ c \in History!Backward
    BY <1>4, <1>5, <2>2, <2>3
  <2> HIDE DEF a, c, k
  <2>5. a = c
    BY <2>4, DidOnce
  <2> QED BY <1>2, <2>1, <2>2, <2>5 DEF a, c
<1>6. Single(items \cup marks)
  BY <1>5 DEF Single
<1> QED BY <1>3, <1>6 DEF items

GroupActions == {"Install", "Removed", "Upgrade", "Downgrade", "Upgraded", "Downgraded"}

\* No id is installed and removed at once.
IdsOK(ids) ==
  /\ \A i \in ids : i.action \in GroupActions /\ i.id \in Id
  /\ \A i, j \in ids : i.action = "Install" /\ j.action = "Removed" => i.id # j.id

\* The ids lead from G to H; what is there may be installed once more.
Regrouped(ids, G, H) ==
  /\ IdsWith("Removed", ids) \subseteq G
  /\ H = (G \ IdsWith("Removed", ids)) \cup IdsWith("Install", ids)

\* Transaction t leads from what it has found to what the next one has, if only dnf has
\* changed anything in between.
TrueOf(t) ==
  /\ v5[t].was \subseteq History!Package /\ Unique(v5[t].was)
  /\ v5[t].groups \subseteq Id
  /\ IdsOK(v5[t].ids) /\ Single(v5[t].rpms)
  /\ t + 1 \notin v6 => Went(v5[t].rpms, v5[t].was, History!After(t))
  /\ Regrouped(v5[t].ids, v5[t].groups, History!GroupsAfter(t))

PastInv ==
  /\ v3 \subseteq Id /\ IdsOK(v7.ids)
  /\ \A t \in DOMAIN v5 : TrueOf(t)

\* Where nothing is recorded, nothing has changed.
LEMMA NothingWent ==
  ASSUME NEW x, NEW y, Went({}, x, y)
  PROVE  x = y
BY DEF Went, Takes, Brings

\* The record of a transaction makes those before it no less true.
LEMMA PastRecorded ==
  ASSUME HistoryInv, PastInv, NEW w, NEW r, NEW gs, NEW items, NEW ids,
         Single(items), Went(items, v1, w), IdsOK(ids), Regrouped(ids, v3, gs),
         History!Recorded(w, r, gs, items, ids)
  PROVE  PastInv'
<1>1. v1' = w /\ v3' = gs /\ v6' = v6 /\ v7' = v7
  BY DEF History!Recorded
<1>2. gs \subseteq Id
  BY DEF PastInv, Regrouped, IdsWith, IdsOK
<1>3. PICK S : v5 \in Seq(S)
  BY DEF HistoryInv
<1>4. CASE items = {} /\ ids = {}
  <2>1. v5' = v5
    BY <1>4 DEF History!Recorded
  <2>2. v1' = v1 /\ v3' = v3
    <3>1. v1 = w
      BY <1>4, NothingWent
    <3>2. v3 = gs
      BY <1>4 DEF Regrouped, IdsWith
    <3> QED BY <1>1, <3>1, <3>2
  <2>3. ASSUME NEW t \in DOMAIN v5 PROVE TrueOf(t)'
    <3>1. TrueOf(t)
      BY DEF PastInv
    <3>2. History!After(t)' = History!After(t) /\ History!GroupsAfter(t)' = History!GroupsAfter(t)
      BY <2>1, <2>2 DEF History!After, History!GroupsAfter
    <3> QED BY <1>1, <2>1, <3>1, <3>2 DEF TrueOf
  <2> QED BY <1>1, <1>2, <2>1, <2>3 DEF PastInv
<1>5. CASE ~(items = {} /\ ids = {})
  <2> DEFINE x == History!Entry(items, ids)
  <2>0. PICK L \in Nat : L = Len(v5)
    BY <1>3
  <2>1. v5' = Append(v5, x)
    BY <1>5 DEF History!Recorded
  <2>2. /\ x.rpms = items /\ x.ids = ids /\ x.was = v1 /\ x.groups = v3
    BY DEF History!Entry
  <2> HIDE DEF x
  <2>3. /\ DOMAIN v5 = 1..L /\ DOMAIN v5' = 1..(L + 1) /\ Len(v5') = L + 1
        /\ v5'[L + 1] = x /\ \A t \in 1..L : v5'[t] = v5[t]
    BY <1>3, <2>0, <2>1
  <2>4. ASSUME NEW t \in 1..L PROVE TrueOf(t)'
    <3>1. TrueOf(t)
      BY <2>3 DEF PastInv
    <3>2. History!After(t)' = History!After(t) /\ History!GroupsAfter(t)' = History!GroupsAfter(t)
      <4>1. CASE t = L
        <5>1. t # Len(v5)' /\ t = Len(v5)
          BY <2>0, <2>3, <4>1
        <5> QED BY <2>2, <2>3, <4>1, <5>1 DEF History!After, History!GroupsAfter
      <4>2. CASE t # L
        <5>1. t # Len(v5)' /\ t # Len(v5) /\ t + 1 \in 1..L
          BY <2>0, <2>3, <4>2
        <5> QED BY <2>3, <5>1 DEF History!After, History!GroupsAfter
      <4> QED BY <4>1, <4>2
    <3> QED BY <1>1, <2>3, <3>1, <3>2 DEF TrueOf
  <2>5. TrueOf(L + 1)'
    <3>1. History!After(L + 1)' = w /\ History!GroupsAfter(L + 1)' = gs
      BY <1>1, <2>3 DEF History!After, History!GroupsAfter
    <3>2. v1 \subseteq History!Package /\ Unique(v1) /\ v3 \subseteq Id
      BY DEF HistoryInv, PastInv
    <3> QED BY <2>2, <2>3, <3>1, <3>2 DEF TrueOf
  <2>6. \A t \in DOMAIN v5' : TrueOf(t)'
    BY <2>3, <2>4, <2>5
  <2> QED BY <1>1, <1>2, <2>6 DEF PastInv
<1> QED BY <1>4, <1>5

\* What is recorded of the groups of a replay is what becomes of them.
LEMMA ReplayedIds ==
  ASSUME PastInv, NEW data, NEW o, IdsOK(data.ids),
         \A i \in data.ids : ~History!ReplayGroupAction(i, o).error
  PROVE  LET ids == {History!GroupItem(History!PersistorAction(i.action), i.id) : i \in Granted(data, o)}
         IN IdsOK(ids) /\ Regrouped(ids, v3, Regroup(Granted(data, o)))
<1> DEFINE ok == Granted(data, o)
           Kept(i) == History!GroupItem(History!PersistorAction(i.action), i.id)
           ids == {Kept(i) : i \in ok}
<1>1. \A i \in ok : i.action \in GroupActions /\ i.id \in Id
  BY DEF Granted, IdsOK
<1>2. \A i, j \in ok : i.action = "Install" /\ j.action = "Removed" => i.id # j.id
  BY DEF Granted, IdsOK
<1>3. \A i \in ok :
        /\ Kept(i).id = i.id /\ Kept(i).action \in GroupActions
        /\ Kept(i).action = "Install" <=> i.action = "Install"
        /\ Kept(i).action = "Removed" <=> i.action = "Removed"
  <2> SUFFICES ASSUME NEW i \in ok
               PROVE  /\ Kept(i).id = i.id /\ Kept(i).action \in GroupActions
                      /\ Kept(i).action = "Install" <=> i.action = "Install"
                      /\ Kept(i).action = "Removed" <=> i.action = "Removed"
    OBVIOUS
  <2>1. Kept(i).id = i.id /\ Kept(i).action = History!PersistorAction(i.action)
    BY DEF History!GroupItem
  <2>2. i.action \in GroupActions
    BY <1>1
  <2> QED BY <2>1, <2>2 DEF History!PersistorAction, GroupActions
<1>4. \A i \in ok : i.action = "Removed" => i.id \in v3
  BY DEF Granted, History!ReplayGroupAction, History!Refused, History!Asked
<1> HIDE DEF ok, Kept
<1>5. \A x \in ids : \E i \in ok : x = Kept(i)
  OBVIOUS
<1>6. \A i \in ok : Kept(i) \in ids
  OBVIOUS
<1> HIDE DEF ids
<1>7. IdsOK(ids)
  <2>1. \A x \in ids : x.action \in GroupActions /\ x.id \in Id
    BY <1>1, <1>3, <1>5
  <2>2. ASSUME NEW x \in ids, NEW y \in ids, x.action = "Install", y.action = "Removed"
        PROVE  x.id # y.id
    <3>1. PICK i \in ok : x = Kept(i)
      BY <1>5
    <3>2. PICK j \in ok : y = Kept(j)
      BY <1>5
    <3> QED BY <1>2, <1>3, <2>2, <3>1, <3>2
  <2> QED BY <2>1, <2>2 DEF IdsOK
<1>8. /\ \A id : id \in IdsWith("Removed", ids) <=> id \in IdsWith("Removed", ok)
      /\ \A id : id \in IdsWith("Install", ids) <=> id \in IdsWith("Install", ok)
  <2>1. \A a, S : \A id : id \in IdsWith(a, S) <=> \E i \in S : i.action = a /\ i.id = id
    BY DEF IdsWith
  <2>2. ASSUME NEW id, NEW a \in {"Removed", "Install"}
        PROVE  (\E i \in ids : i.action = a /\ i.id = id) <=> \E i \in ok : i.action = a /\ i.id = id
    BY <1>3, <1>5, <1>6
  <2> QED BY <2>1, <2>2
<1>9. IdsWith("Removed", ids) \subseteq v3
  BY <1>4, <1>8 DEF IdsWith
<1>10. Regroup(ok) = (v3 \ IdsWith("Removed", ids)) \cup IdsWith("Install", ids)
  BY <1>8 DEF Regroup
<1> QED BY <1>7, <1>9, <1>10 DEF Regrouped, ids, ok, Kept

\* A replay keeps the records true.
LEMMA ReplayedPast ==
  ASSUME HistoryInv, PastInv, NEW data, IdsOK(data.ids), NEW o \in History!Options, NEW cmd,
         NEW to, History!Replayed(data, o, cmd, to)
  PROVE  PastInv'
<1> DEFINE w == Target(data, o)
           again == AllAsked("again", data, o)
           gs == Regroup(Granted(data, o))
           ids == {History!GroupItem(History!PersistorAction(i.action), i.id) : i \in Granted(data, o)}
<1>1. Unique(w) /\ \A i \in data.ids : ~History!ReplayGroupAction(i, o).error
  BY ReplayedParts
<1>2. PICK r, e, marks :
        /\ \A i \in marks : i.action = "Reason Change"
        /\ History!Recorded(w, r, gs, History!Items(v1, w, again, r, e) \cup marks, ids)
  BY ReplayedParts, Zenon
<1>3. w \subseteq History!Package /\ again \subseteq v1 \cap w
  BY TargetKnown
<1>4. v1 \subseteq History!Package /\ Unique(v1)
  BY DEF HistoryInv
<1>5. IdsOK(ids) /\ Regrouped(ids, v3, gs)
  BY <1>1, ReplayedIds
<1> HIDE DEF w, again, gs, ids
<1> DEFINE items == History!Items(v1, w, again, r, e) \cup marks
<1>6. Single(items) /\ Went(items, v1, w)
  BY <1>1, <1>2, <1>3, <1>4, ItemsWent
<1>7. History!Recorded(w, r, gs, items, ids)
  BY <1>2
<1> HIDE DEF items
<1> QED BY <1>5, <1>6, <1>7, PastRecorded

\* Which action undoes which.
LEMMA ActionMaps ==
  LET m == History!ActionMap IN
  /\ m["Install"] = "Removed" /\ m["Removed"] = "Install" /\ m["Obsoleted"] = "Install"
  /\ m["Upgrade"] = "Downgraded" /\ m["Upgraded"] = "Downgrade"
  /\ m["Downgrade"] = "Upgraded" /\ m["Downgraded"] = "Upgrade"
  /\ m["Reinstall"] = "Reinstalled" /\ m["Reinstalled"] = "Reinstall"
BY DEF History!ActionMap

\* What is turned around installs no group that it removes.
LEMMA RevertedIds ==
  ASSUME NEW e, NEW why, IdsOK(e.ids)
  PROVE  IdsOK(History!Reverted(e, why).ids)
<1> DEFINE Back(i) == History!GroupItem(History!ActionMap[i.action], i.id)
           ids == {Back(i) : i \in e.ids}
<1>1. History!Reverted(e, why).ids = ids
  BY DEF History!Reverted
<1>2. \A i \in e.ids :
        /\ Back(i).id = i.id /\ Back(i).action \in GroupActions
        /\ Back(i).action = "Install" <=> i.action = "Removed"
        /\ Back(i).action = "Removed" <=> i.action = "Install"
  <2> SUFFICES ASSUME NEW i \in e.ids
               PROVE  /\ Back(i).id = i.id /\ Back(i).action \in GroupActions
                      /\ Back(i).action = "Install" <=> i.action = "Removed"
                      /\ Back(i).action = "Removed" <=> i.action = "Install"
    OBVIOUS
  <2>1. Back(i).id = i.id /\ Back(i).action = History!ActionMap[i.action]
    BY DEF History!GroupItem
  <2>2. i.action \in GroupActions
    BY DEF IdsOK
  <2> QED BY <2>1, <2>2, ActionMaps DEF GroupActions
<1> HIDE DEF Back
<1>3. \A x \in ids : \E i \in e.ids : x = Back(i)
  OBVIOUS
<1> HIDE DEF ids
<1>4. \A x \in ids : x.action \in GroupActions /\ x.id \in Id
  BY <1>2, <1>3 DEF IdsOK
<1>5. ASSUME NEW x \in ids, NEW y \in ids, x.action = "Install", y.action = "Removed"
      PROVE  x.id # y.id
  <2>1. PICK i \in e.ids : x = Back(i)
    BY <1>3
  <2>2. PICK j \in e.ids : y = Back(j)
    BY <1>3
  <2> QED BY <1>2, <1>5, <2>1, <2>2 DEF IdsOK
<1> QED BY <1>1, <1>4, <1>5 DEF IdsOK

\* The first and the last of some transactions.
LEMMA EndsAre ==
  ASSUME NEW m \in Nat, NEW T \in SUBSET (1..m), T # {}
  PROVE  /\ History!FirstOf(T) \in T /\ \A u \in T : History!FirstOf(T) <= u
         /\ History!LastOf(T) \in T /\ \A u \in T : u <= History!LastOf(T)
<1>1. T \in SUBSET Nat /\ IsFiniteSet(T)
  <2>1. IsFiniteSet(1..m) /\ T \subseteq 1..m
    BY FS_Interval
  <2>2. IsFiniteSet(T)
    BY <2>1, FS_Subset
  <2> QED BY <2>2
<1>2. \E t \in T : \A u \in T : t <= u
  BY <1>1, Least
<1>3. \E t \in T : \A u \in T : u <= t
  BY <1>1, Greatest
<1>4. History!FirstOf(T) \in T /\ \A u \in T : History!FirstOf(T) <= u
  BY <1>2 DEF History!FirstOf
<1>5. History!LastOf(T) \in T /\ \A u \in T : u <= History!LastOf(T)
  BY <1>3 DEF History!LastOf
<1> QED BY <1>4, <1>5

\* What no step changes stays.
LEMMA Steady ==
  ASSUME NEW m \in Nat, NEW f, NEW a \in 0..m, NEW b \in 0..m, a <= b,
         \A s \in (a + 1)..b : f[s] = f[s - 1]
  PROVE  f[b] = f[a]
<1> DEFINE T == {s \in a..b : f[s] # f[a]}
<1>1. CASE T = {}
  BY <1>1
<1>2. CASE T # {}
  <2>1. T \in SUBSET Nat
    OBVIOUS
  <2>2. PICK t \in T : \A u \in T : t <= u
    BY <1>2, <2>1, Least
  <2>3. t \in a..b /\ t # a /\ f[t] # f[a]
    OBVIOUS
  <2>4. t \in (a + 1)..b /\ t - 1 \in a..b /\ ~(t <= t - 1)
    BY <2>3
  <2>5. t - 1 \notin T
    BY <2>2, <2>4
  <2>6. f[t - 1] = f[a] /\ f[t] = f[t - 1]
    BY <2>4, <2>5
  <2> QED BY <2>3, <2>6
<1> QED BY <1>1, <1>2

\* What is switched an even number of times is as it was.
LEMMA Parity ==
  ASSUME NEW m \in Nat, NEW f \in [0..m -> {0, 1}]
  PROVE  Cardinality({s \in 1..m : f[s] # f[s - 1]}) % 2 = 0 <=> f[m] = f[0]
<1> DEFINE ts == {s \in 1..m : f[s] # f[s - 1]}
           Upto(j) == {s \in ts : s <= j}
           Bad == {j \in 0..m : ~(Cardinality(Upto(j)) % 2 = 0 <=> f[j] = f[0])}
<1>1. IsFiniteSet(ts)
  <2>1. IsFiniteSet(1..m) /\ ts \subseteq 1..m
    BY FS_Interval
  <2> HIDE DEF ts
  <2> QED BY <2>1, FS_Subset
<1>2. \A j \in 0..m : IsFiniteSet(Upto(j)) /\ Cardinality(Upto(j)) \in Nat
  BY <1>1, FS_Subset, FS_CardinalityType
<1>3. Bad = {}
  <2> SUFFICES ASSUME Bad # {} PROVE FALSE
    OBVIOUS
  <2>1. Bad \in SUBSET Nat
    OBVIOUS
  <2>2. PICK j \in Bad : \A u \in Bad : j <= u
    BY <2>1, Least
  <2>3. j \in 0..m /\ ~(Cardinality(Upto(j)) % 2 = 0 <=> f[j] = f[0])
    OBVIOUS
  <2>4. j # 0
    <3>1. Upto(0) = {}
      OBVIOUS
    <3>2. Cardinality(Upto(0)) = 0
      BY <3>1, FS_EmptySet
    <3>3. ASSUME j = 0 PROVE FALSE
      <4>1. Cardinality(Upto(j)) % 2 = 0 /\ f[j] = f[0]
        BY <3>2, <3>3
      <4> QED BY <2>3, <4>1
    <3> QED BY <3>3
  <2>5. j - 1 \in 0..m /\ ~(j <= j - 1) /\ j \in 1..m
    BY <2>3, <2>4
  <2>6. j - 1 \notin Bad
    BY <2>2, <2>5
  <2>7. Cardinality(Upto(j - 1)) % 2 = 0 <=> f[j - 1] = f[0]
    BY <2>5, <2>6
  <2>8. f[j] \in {0, 1} /\ f[j - 1] \in {0, 1} /\ f[0] \in {0, 1}
    BY <2>5
  <2>9. CASE j \in ts
    <3>1. Upto(j) = Upto(j - 1) \cup {j} /\ j \notin Upto(j - 1)
      BY <2>5, <2>9
    <3>2. IsFiniteSet(Upto(j - 1)) /\ Cardinality(Upto(j - 1)) \in Nat
      BY <1>2, <2>5
    <3> DEFINE U == Upto(j - 1)
    <3>3. Cardinality(U \cup {j}) = Cardinality(U) + 1
      BY <3>1, <3>2, FS_AddElement
    <3>4. Cardinality(Upto(j)) = Cardinality(Upto(j - 1)) + 1
      BY <3>1, <3>3
    <3>5. f[j] # f[j - 1]
      BY <2>9
    <3> DEFINE c == Cardinality(Upto(j - 1))
               d == Cardinality(Upto(j))
    <3>6. c \in Nat /\ d = c + 1 /\ (c % 2 = 0 <=> f[j - 1] = f[0]) /\ ~(d % 2 = 0 <=> f[j] = f[0])
      BY <2>3, <2>7, <3>2, <3>4
    <3> HIDE DEF c, d
    <3> QED BY <2>8, <3>5, <3>6
  <2>10. CASE j \notin ts
    <3>1. Upto(j) = Upto(j - 1)
      BY <2>5, <2>10
    <3>2. f[j] = f[j - 1]
      BY <2>5, <2>10
    <3> QED BY <2>3, <2>7, <3>1, <3>2
  <2> QED BY <2>9, <2>10
<1>4. Upto(m) = ts
  OBVIOUS
<1>5. m \in 0..m /\ m \notin Bad
  BY <1>3
<1>6. Cardinality(Upto(m)) % 2 = 0 <=> f[m] = f[0]
  BY <1>5
<1> QED BY <1>4, <1>6

\* What is installed was not there before, and is afterwards; what is removed the reverse.
Netted(ids, G, H) ==
  /\ IdsOK(ids)
  /\ IdsWith("Install", ids) = H \ G
  /\ IdsWith("Removed", ids) = G \ H

\* So it is, unless something is installed once more.
LEMMA RegroupedNetted ==
  ASSUME NEW ids, NEW G, NEW H, IdsOK(ids), Regrouped(ids, G, H),
         \A i \in ids : i.action = "Install" => i.id \notin G
  PROVE  Netted(ids, G, H)
<1>1. IdsWith("Install", ids) \cap G = {}
  BY DEF IdsWith
<1>2. IdsWith("Install", ids) \cap IdsWith("Removed", ids) = {}
  BY DEF IdsOK, IdsWith
<1> QED BY <1>1, <1>2 DEF Netted, Regrouped

\* The history counts as the library does.
LEMMA CountsAre == \A S : History!Cardinality(S) = Cardinality(S)
BY DEF History!Cardinality, Cardinality

\* Merging keeps of a group the last switch, if any is left.
LEMMA NetFrom ==
  ASSUME NEW m \in Nat, NEW es, DOMAIN es = 1..m, NEW id
  PROVE  LET ts == {s \in 1..m : History!Switched(id, es[s]) # {}}
         IN \/ History!Net(es, id) = {} /\ Cardinality(ts) % 2 = 0
            \/ /\ Cardinality(ts) % 2 # 0
               /\ \E l \in ts : /\ History!Net(es, id) = History!Switched(id, es[l])
                                /\ \A s \in ts : s <= l
<1> DEFINE ts == {s \in 1..m : History!Switched(id, es[s]) # {}}
<1>1. History!Net(es, id) = IF Cardinality(ts) % 2 = 0 THEN {} ELSE History!Switched(id, es[History!LastOf(ts)])
  <2> DEFINE us == {t \in DOMAIN es : History!Switched(id, es[t]) # {}}
  <2>1. us = ts
    OBVIOUS
  <2>2. History!Net(es, id) = IF History!Cardinality(us) % 2 = 0 THEN {}
                             ELSE History!Switched(id, es[History!LastOf(us)])
    BY Zenon DEF History!Net
  <2> HIDE DEF us, ts
  <2>3. History!Cardinality(us) = Cardinality(us)
    BY CountsAre, Zenon
  <2> QED BY <2>1, <2>2, <2>3
<1>2. ts \in SUBSET (1..m)
  OBVIOUS
<1> HIDE DEF ts
<1>3. CASE Cardinality(ts) % 2 = 0
  BY <1>1, <1>3 DEF ts
<1>4. CASE Cardinality(ts) % 2 # 0
  <2>1. ts # {}
    <3>1. Cardinality({}) = 0
      BY FS_EmptySet
    <3> QED BY <1>4, <3>1
  <2>2. History!LastOf(ts) \in ts /\ \A u \in ts : u <= History!LastOf(ts)
    BY <1>2, <2>1, EndsAre
  <2>3. History!Net(es, id) = History!Switched(id, es[History!LastOf(ts)])
    BY <1>1, <1>4
  <2> QED BY <1>4, <2>2, <2>3 DEF ts
<1> QED BY <1>3, <1>4

\* Merging installs no group that it removes.
LEMMA MergedIds ==
  ASSUME NEW m \in Nat, NEW es, DOMAIN es = 1..m, \A s \in 1..m : IdsOK(es[s].ids)
  PROVE  IdsOK(History!Merged(es).ids)
<1>1. History!Merged(es).ids = UNION {History!Net(es, id) : id \in Id}
  BY DEF History!Merged
<1>2. ASSUME NEW id
      PROVE  /\ \A i \in History!Net(es, id) : i.id = id /\ i.action \in GroupActions
             /\ \A i, j \in History!Net(es, id) : ~(i.action = "Install" /\ j.action = "Removed")
  <2>1. CASE History!Net(es, id) = {}
    BY <2>1
  <2>2. CASE \E l \in 1..m : History!Net(es, id) = History!Switched(id, es[l])
    <3>1. PICK l \in 1..m : History!Net(es, id) = History!Switched(id, es[l])
      BY <2>2
    <3>2. /\ \A i \in History!Net(es, id) : i \in es[l].ids /\ i.id = id
          /\ IdsOK(es[l].ids)
      BY <3>1 DEF History!Switched
    <3> QED BY <3>2 DEF IdsOK
  <2> QED BY <2>1, <2>2, NetFrom
<1>3. \A i \in History!Merged(es).ids : \E id \in Id : i \in History!Net(es, id)
  BY <1>1
<1>4. \A i \in History!Merged(es).ids : i.id \in Id /\ i \in History!Net(es, i.id) /\ i.action \in GroupActions
  BY <1>2, <1>3
<1> QED BY <1>2, <1>4 DEF IdsOK

\* What merging keeps of a group is where it went.
LEMMA NetLeads ==
  ASSUME NEW m \in Nat, NEW es, DOMAIN es = 1..m, NEW grp,
         \A s \in 1..m : Netted(es[s].ids, grp[s - 1], grp[s]), NEW id
  PROVE  /\ \A i \in History!Net(es, id) : i.id = id
         /\ (\E i \in History!Net(es, id) : i.action = "Install") <=> id \in grp[m] \ grp[0]
         /\ (\E i \in History!Net(es, id) : i.action = "Removed") <=> id \in grp[0] \ grp[m]
<1> DEFINE f == [s \in 0..m |-> IF id \in grp[s] THEN 1 ELSE 0]
           ts == {s \in 1..m : History!Switched(id, es[s]) # {}}
<1>1. ASSUME NEW s \in 1..m
      PROVE  /\ (\E i \in History!Switched(id, es[s]) : i.action = "Install") <=> id \in grp[s] \ grp[s - 1]
             /\ (\E i \in History!Switched(id, es[s]) : i.action = "Removed") <=> id \in grp[s - 1] \ grp[s]
             /\ \A i \in History!Switched(id, es[s]) : i.id = id /\ i.action \in {"Install", "Removed"}
  <2>1. /\ \A a : id \in IdsWith(a, es[s].ids) <=> \E i \in es[s].ids : i.action = a /\ i.id = id
        /\ \A i : i \in History!Switched(id, es[s]) <=>
             i \in es[s].ids /\ i.id = id /\ i.action \in {"Install", "Removed"}
    BY DEF IdsWith, History!Switched
  <2>2. /\ IdsWith("Install", es[s].ids) = grp[s] \ grp[s - 1]
        /\ IdsWith("Removed", es[s].ids) = grp[s - 1] \ grp[s]
    BY DEF Netted
  <2> QED BY <2>1, <2>2
<1>2. f \in [0..m -> {0, 1}]
  OBVIOUS
<1>3. \A s \in 0..m : f[s] = IF id \in grp[s] THEN 1 ELSE 0
  OBVIOUS
<1> HIDE DEF f
<1>4. \A s \in 1..m : s \in 0..m /\ s - 1 \in 0..m
  OBVIOUS
<1>5. \A s \in 1..m : s \in ts <=> f[s] # f[s - 1]
  <2> SUFFICES ASSUME NEW s \in 1..m PROVE s \in ts <=> f[s] # f[s - 1]
    OBVIOUS
  <2>1. s \in ts <=> id \in (grp[s] \ grp[s - 1]) \cup (grp[s - 1] \ grp[s])
    BY <1>1
  <2>2. f[s] = (IF id \in grp[s] THEN 1 ELSE 0) /\ f[s - 1] = IF id \in grp[s - 1] THEN 1 ELSE 0
    BY <1>3, <1>4
  <2> QED BY <2>1, <2>2
<1>6. ts = {s \in 1..m : f[s] # f[s - 1]}
  BY <1>5
<1>7. Cardinality(ts) % 2 = 0 <=> f[m] = f[0]
  <2>1. Cardinality({s \in 1..m : f[s] # f[s - 1]}) % 2 = 0 <=> f[m] = f[0]
    BY ONLY <1>2, m \in Nat, Parity
  <2> QED BY <1>6, <2>1
<1>8. f[m] = (IF id \in grp[m] THEN 1 ELSE 0) /\ f[0] = IF id \in grp[0] THEN 1 ELSE 0
  BY <1>3
<1>9. CASE History!Net(es, id) = {} /\ Cardinality(ts) % 2 = 0
  BY <1>7, <1>8, <1>9
<1>10. CASE /\ Cardinality(ts) % 2 # 0
            /\ \E l \in ts : /\ History!Net(es, id) = History!Switched(id, es[l])
                             /\ \A s \in ts : s <= l
  <2>1. PICK l \in ts : /\ History!Net(es, id) = History!Switched(id, es[l])
                        /\ \A s \in ts : s <= l
    BY <1>10
  <2>2. l \in 1..m /\ l \in 0..m /\ m \in 0..m /\ l <= m
    OBVIOUS
  <2>3. \A s \in (l + 1)..m : f[s] = f[s - 1]
    <3> SUFFICES ASSUME NEW s \in (l + 1)..m PROVE f[s] = f[s - 1]
      OBVIOUS
    <3>1. s \in 1..m /\ ~(s <= l)
      BY <2>2
    <3>2. s \notin ts
      BY <2>1, <3>1
    <3> QED BY <1>5, <3>1, <3>2
  <2>4. f[m] = f[l]
    BY <2>2, <2>3, Steady
  <2>5. f[l] = IF id \in grp[l] THEN 1 ELSE 0
    BY <1>3, <2>2
  <2>6. id \in grp[m] <=> id \in grp[l]
    BY <1>8, <2>4, <2>5
  <2>7. id \in grp[0] <=> id \notin grp[m]
    BY <1>7, <1>8, <1>10
  <2>8. f[l] # f[l - 1] /\ f[l - 1] = IF id \in grp[l - 1] THEN 1 ELSE 0
    BY <1>3, <1>4, <1>5, <2>2
  <2>9. id \in grp[l - 1] <=> id \notin grp[l]
    BY <2>5, <2>8
  <2> HIDE DEF ts
  <2> QED BY <1>1, <2>1, <2>2, <2>6, <2>7, <2>9
<1>11. \/ History!Net(es, id) = {} /\ Cardinality(ts) % 2 = 0
       \/ /\ Cardinality(ts) % 2 # 0
          /\ \E l \in ts : /\ History!Net(es, id) = History!Switched(id, es[l])
                           /\ \A s \in ts : s <= l
  BY NetFrom
<1> QED BY <1>9, <1>10, <1>11

\* So for all groups: merging leads from where the first transaction began to where the
\* last one ended.
LEMMA MergedNetted ==
  ASSUME NEW m \in Nat, NEW es, DOMAIN es = 1..m, NEW grp, \A s \in 0..m : grp[s] \subseteq Id,
         \A s \in 1..m : Netted(es[s].ids, grp[s - 1], grp[s])
  PROVE  Netted(History!Merged(es).ids, grp[0], grp[m])
<1>1. IdsOK(History!Merged(es).ids)
  BY MergedIds DEF Netted
<1>2. History!Merged(es).ids = UNION {History!Net(es, id) : id \in Id}
  BY DEF History!Merged
<1> DEFINE ids == History!Merged(es).ids
<1>3. \A i : i \in ids <=> \E id \in Id : i \in History!Net(es, id)
  BY <1>2
<1>4. \A id : /\ \A i \in History!Net(es, id) : i.id = id
              /\ (\E i \in History!Net(es, id) : i.action = "Install") <=> id \in grp[m] \ grp[0]
              /\ (\E i \in History!Net(es, id) : i.action = "Removed") <=> id \in grp[0] \ grp[m]
  BY NetLeads
<1>5. grp[0] \subseteq Id /\ grp[m] \subseteq Id
  OBVIOUS
<1> HIDE DEF ids
<1>6. ASSUME NEW id, NEW a
      PROVE  id \in IdsWith(a, ids) <=> id \in Id /\ \E i \in History!Net(es, id) : i.action = a
  <2>1. id \in IdsWith(a, ids) <=> \E i \in ids : i.action = a /\ i.id = id
    BY DEF IdsWith
  <2> QED BY <1>3, <1>4, <2>1
<1>7. IdsWith("Install", ids) = grp[m] \ grp[0]
  BY <1>4, <1>5, <1>6
<1>8. IdsWith("Removed", ids) = grp[0] \ grp[m]
  BY <1>4, <1>5, <1>6
<1> QED BY <1>1, <1>7, <1>8 DEF Netted, ids

At(S, n) == {k \in S : k[1] = n}

\* A transaction that touches a name takes what there was of it, and brings what there is.
LEMMA TouchedName ==
  ASSUME NEW rpms, NEW x, NEW y, Unique(x), Unique(y), Single(rpms), Went(rpms, x, y), NEW n,
         History!BackOf(rpms, n) \cup History!ForthOf(rpms, n) # {}
  PROVE  /\ \A k : (\E i \in History!BackOf(rpms, n) : i.pkg = k) <=> k \in At(x, n)
         /\ \A k : (\E i \in History!ForthOf(rpms, n) : i.pkg = k) <=> k \in At(y, n)
<1>1. /\ \A k : (\E i \in History!BackOf(rpms, n) : i.pkg = k) <=> Takes(rpms, k) /\ k[1] = n
      /\ \A k : (\E i \in History!ForthOf(rpms, n) : i.pkg = k) <=> Brings(rpms, k) /\ k[1] = n
  BY DEF History!BackOf, History!ForthOf, Takes, Brings
<1>2. PICK l : l[1] = n /\ (Takes(rpms, l) \/ Brings(rpms, l))
  <2>1. PICK i : i \in History!BackOf(rpms, n) \/ i \in History!ForthOf(rpms, n)
    OBVIOUS
  <2> QED BY <1>1, <2>1
<1>3. /\ \A k : Takes(rpms, k) => k \in x
      /\ \A k : Brings(rpms, k) => k \in y
      /\ \A k \in x \cap y : Takes(rpms, k) <=> Brings(rpms, k)
      /\ \A k \in x \ y : Takes(rpms, k)
      /\ \A k \in y \ x : Brings(rpms, k)
  BY DEF Went
<1>4. ASSUME NEW k \in x, k[1] = n PROVE Takes(rpms, k)
  <2>1. CASE Takes(rpms, l)
    BY <1>2, <1>3, <1>4, <2>1 DEF Unique
  <2>2. CASE Brings(rpms, l)
    <3>1. CASE k \in y
      <4>1. l = k
        BY <1>2, <1>3, <1>4, <2>2, <3>1 DEF Unique
      <4> QED BY <1>3, <2>2, <3>1, <4>1
    <3>2. CASE k \notin y
      BY <1>3, <3>2
    <3> QED BY <3>1, <3>2
  <2> QED BY <1>2, <2>1, <2>2
<1>5. ASSUME NEW k \in y, k[1] = n PROVE Brings(rpms, k)
  <2>1. CASE Brings(rpms, l)
    BY <1>2, <1>3, <1>5, <2>1 DEF Unique
  <2>2. CASE Takes(rpms, l)
    <3>1. CASE k \in x
      <4>1. l = k
        BY <1>2, <1>3, <1>5, <2>2, <3>1 DEF Unique
      <4> QED BY <1>3, <2>2, <3>1, <4>1
    <3>2. CASE k \notin x
      BY <1>3, <3>2
    <3> QED BY <3>1, <3>2
  <2> QED BY <1>2, <2>1, <2>2
<1> QED BY <1>1, <1>3, <1>4, <1>5 DEF At

\* One that does not touch it leaves it.
LEMMA UntouchedName ==
  ASSUME NEW rpms, NEW x, NEW y, Went(rpms, x, y), NEW n,
         History!BackOf(rpms, n) \cup History!ForthOf(rpms, n) = {}
  PROVE  At(x, n) = At(y, n)
<1>1. \A k : k[1] = n => ~Takes(rpms, k) /\ ~Brings(rpms, k)
  BY DEF History!BackOf, History!ForthOf, Takes, Brings
<1> QED BY <1>1 DEF At, Went

\* How many there are of none, one and two.
LEMMA Counts ==
  ASSUME NEW a, NEW b, a # b
  PROVE  Cardinality({}) = 0 /\ Cardinality({a}) = 1 /\ Cardinality({a, b}) = 2
<1>1. Cardinality({}) = 0 /\ IsFiniteSet({a}) /\ Cardinality({a}) = 1
  BY FS_EmptySet, FS_Singleton
<1>2. {a, b} = {a} \cup {b} /\ b \notin {a}
  OBVIOUS
<1>3. Cardinality({a} \cup {b}) = Cardinality({a}) + 1
  BY <1>1, <1>2, FS_AddElement
<1> QED BY <1>1, <1>2, <1>3

\* B takes what there was of a name, and F brings what there is.
Ended(B, F, X, Y) ==
  /\ (\A k, l \in X : k = l) /\ \A k, l \in Y : k = l
  /\ \A i \in B : i.action \in History!Backward
  /\ \A i \in F : i.action \in History!Forward
  /\ (\A i, j \in B : i = j) /\ \A i, j \in F : i = j
  /\ \A k : (\E i \in B : i.pkg = k) <=> k \in X
  /\ \A k : (\E i \in F : i.pkg = k) <=> k \in Y

\* p leads from the one to the other.
Leading(p, X, Y) ==
  /\ \A i \in p : i.action \in History!Forward \cup History!Backward
  /\ \A i \in p : i.action \in History!Backward => i.pkg \in X \ Y
  /\ \A i \in p : i.action \in History!Forward => i.pkg \in Y \ X
  /\ \A k \in X \ Y : \E i \in p : i.action \in History!Backward /\ i.pkg = k
  /\ \A k \in Y \ X : \E i \in p : /\ i.action \in History!Forward /\ i.pkg = k
                                   /\ X = {} => i.action = "Install"

\* What merging makes of the two ends of a name leads from the one to the other.
LEMMA PairLeads ==
  ASSUME NEW B, NEW F, NEW X, NEW Y, Ended(B, F, X, Y)
  PROVE  Leading(History!Pair(B \cup F), X, Y)
<1>0. /\ (\A k, l \in X : k = l) /\ \A k, l \in Y : k = l
      /\ \A i \in B : i.action \in History!Backward
      /\ \A i \in F : i.action \in History!Forward
      /\ (\A i, j \in B : i = j) /\ \A i, j \in F : i = j
      /\ \A k : (\E i \in B : i.pkg = k) <=> k \in X
      /\ \A k : (\E i \in F : i.pkg = k) <=> k \in Y
  BY DEF Ended
<1> USE <1>0
<1> DEFINE ends == B \cup F
           p == History!Pair(ends)
           Low == {i.pkg : i \in ends}
           b0 == CHOOSE i \in ends : i.action \in History!Backward
           f0 == CHOOSE i \in ends : i.action \in History!Forward
           newer == History!Newer(f0.pkg, b0.pkg)
<1>1. p = IF Cardinality(Low) = 2
          THEN {History!Item(IF newer THEN "Upgraded" ELSE "Downgraded", b0.pkg, b0.reason),
                History!Item(IF newer THEN "Upgrade" ELSE "Downgrade", f0.pkg, f0.reason)}
          ELSE IF Cardinality(ends) = 2 THEN {}
          ELSE {History!Item(IF i.action \in History!Forward THEN "Install" ELSE "Removed", i.pkg, i.reason)
                  : i \in ends}
  <2>1. p = IF History!Cardinality(Low) = 2
          THEN {History!Item(IF newer THEN "Upgraded" ELSE "Downgraded", b0.pkg, b0.reason),
                History!Item(IF newer THEN "Upgrade" ELSE "Downgrade", f0.pkg, f0.reason)}
          ELSE IF History!Cardinality(ends) = 2 THEN {}
          ELSE {History!Item(IF i.action \in History!Forward THEN "Install" ELSE "Removed", i.pkg, i.reason)
                  : i \in ends}
    BY Zenon DEF History!Pair
  <2>2. History!Cardinality(Low) = Cardinality(Low) /\ History!Cardinality(ends) = Cardinality(ends)
    BY CountsAre, Zenon
  <2> HIDE DEF p, Low, ends, b0, f0, newer
  <2> QED BY <2>1, <2>2
<1>2. \A a, k, q : History!Item(a, k, q).action = a /\ History!Item(a, k, q).pkg = k
  BY DEF History!Item
<1>3. /\ {"Upgraded", "Downgraded", "Removed"} \subseteq History!Backward
      /\ {"Upgrade", "Downgrade", "Install"} \subseteq History!Forward
      /\ \A a \in History!Backward : a \notin History!Forward
  BY DEF History!Backward, History!Forward
<1> SUFFICES Leading(p, X, Y)
  OBVIOUS
<1>4. CASE B = {} /\ F = {}
  <2>1. ends = {} /\ Low = {} /\ X = {} /\ Y = {}
    BY <1>4
  <2> HIDE DEF ends, Low, b0, f0, newer
  <2>2. Cardinality(Low) = 0 /\ Cardinality(ends) = 0
    BY <2>1, FS_EmptySet
  <2>3. p = {}
    <3>1. p = {History!Item(IF i.action \in History!Forward THEN "Install" ELSE "Removed", i.pkg, i.reason)
                  : i \in ends}
      BY <1>1, <2>2
    <3> QED BY <2>1, <3>1
  <2> HIDE DEF p
  <2> QED BY <2>1, <2>3 DEF Leading
<1>5. ASSUME NEW b \in B, F = {}
      PROVE  p = {History!Item("Removed", b.pkg, b.reason)} /\ X = {b.pkg} /\ Y = {}
  <2>1. ends = {b} /\ Low = {b.pkg} /\ X = {b.pkg} /\ Y = {}
    BY <1>5
  <2> HIDE DEF ends, Low, b0, f0, newer
  <2>2. Cardinality(Low) = 1 /\ Cardinality(ends) = 1
    BY <2>1, FS_Singleton
  <2>3. b.action \notin History!Forward
    BY <1>3
  <2>4. p = {History!Item(IF i.action \in History!Forward THEN "Install" ELSE "Removed", i.pkg, i.reason)
                : i \in ends}
    BY <1>1, <2>2
  <2> QED BY <2>1, <2>3, <2>4
<1>6. ASSUME NEW f \in F, B = {}
      PROVE  p = {History!Item("Install", f.pkg, f.reason)} /\ Y = {f.pkg} /\ X = {}
  <2>1. ends = {f} /\ Low = {f.pkg} /\ Y = {f.pkg} /\ X = {}
    BY <1>6
  <2> HIDE DEF ends, Low, b0, f0, newer
  <2>2. Cardinality(Low) = 1 /\ Cardinality(ends) = 1
    BY <2>1, FS_Singleton
  <2>3. f.action \in History!Forward
    OBVIOUS
  <2>4. p = {History!Item(IF i.action \in History!Forward THEN "Install" ELSE "Removed", i.pkg, i.reason)
                : i \in ends}
    BY <1>1, <2>2
  <2> QED BY <2>1, <2>3, <2>4
<1>7. ASSUME NEW b \in B, NEW f \in F, b.pkg = f.pkg
      PROVE  p = {} /\ X = {b.pkg} /\ Y = {b.pkg}
  <2>1. ends = {b, f} /\ Low = {b.pkg} /\ b # f /\ X = {b.pkg} /\ Y = {b.pkg}
    <3>1. b # f
      BY <1>3
    <3>2. B = {b} /\ F = {f}
      OBVIOUS
    <3>3. X = {b.pkg} /\ Y = {f.pkg}
      BY <3>2
    <3>4. Low = {b.pkg, f.pkg}
      BY <3>2
    <3> QED BY <1>7, <3>1, <3>2, <3>3, <3>4
  <2> HIDE DEF ends, Low, b0, f0, newer
  <2>2. Cardinality(Low) = 1 /\ Cardinality(ends) = 2
    BY <2>1, Counts, FS_Singleton
  <2> QED BY <1>1, <2>1, <2>2
<1>8. ASSUME NEW b \in B, NEW f \in F, b.pkg # f.pkg
      PROVE  /\ X = {b.pkg} /\ Y = {f.pkg}
             /\ \E up, down, q, r : /\ up \in {"Upgraded", "Downgraded"} /\ down \in {"Upgrade", "Downgrade"}
                                    /\ p = {History!Item(up, b.pkg, q), History!Item(down, f.pkg, r)}
  <2>1. B = {b} /\ F = {f}
    OBVIOUS
  <2>2. ends = {b, f} /\ Low = {b.pkg, f.pkg} /\ X = {b.pkg} /\ Y = {f.pkg}
    BY <2>1
  <2>3. b0 = b
    BY <1>3, <2>1
  <2>4. f0 = f
    BY <1>3, <2>1
  <2> HIDE DEF ends, Low, b0, f0, newer
  <2>5. Cardinality(Low) = 2
    BY <1>8, <2>2, Counts
  <2>6. p = {History!Item(IF newer THEN "Upgraded" ELSE "Downgraded", b.pkg, b.reason),
             History!Item(IF newer THEN "Upgrade" ELSE "Downgrade", f.pkg, f.reason)}
    BY <1>1, <2>3, <2>4, <2>5
  <2> HIDE DEF p
  <2> QED BY <2>2, <2>6
<1> HIDE DEF p, ends, Low, b0, f0, newer
<1>9. CASE B # {} /\ F = {}
  <2>1. PICK b \in B : TRUE
    BY <1>9
  <2>2. p = {History!Item("Removed", b.pkg, b.reason)} /\ X = {b.pkg} /\ Y = {}
    BY <1>5, <1>9
  <2> QED BY <1>2, <1>3, <2>2 DEF Leading
<1>10. CASE B = {} /\ F # {}
  <2>1. PICK f \in F : TRUE
    BY <1>10
  <2>2. p = {History!Item("Install", f.pkg, f.reason)} /\ Y = {f.pkg} /\ X = {}
    BY <1>6, <1>10
  <2> QED BY <1>2, <1>3, <2>2 DEF Leading
<1>11. CASE B # {} /\ F # {}
  <2>1. PICK b \in B : TRUE
    BY <1>11
  <2>2. PICK f \in F : TRUE
    BY <1>11
  <2>3. CASE b.pkg = f.pkg
    <3>1. p = {} /\ X = {b.pkg} /\ Y = {b.pkg}
      BY <1>7, <2>3
    <3> QED BY <3>1 DEF Leading
  <2>4. CASE b.pkg # f.pkg
    <3>1. X = {b.pkg} /\ Y = {f.pkg}
      BY <1>8, <2>4
    <3>2. PICK up, down, q, r :
            /\ up \in {"Upgraded", "Downgraded"} /\ down \in {"Upgrade", "Downgrade"}
            /\ p = {History!Item(up, b.pkg, q), History!Item(down, f.pkg, r)}
      BY <1>8, <2>4
    <3>3. up \in History!Backward /\ down \in History!Forward
      BY <1>3, <3>2
    <3> DEFINE i == History!Item(up, b.pkg, q)
               j == History!Item(down, f.pkg, r)
    <3>4. p = {i, j} /\ i.action = up /\ i.pkg = b.pkg /\ j.action = down /\ j.pkg = f.pkg
      BY <1>2, <3>2
    <3> HIDE DEF i, j
    <3> QED BY <1>3, <2>4, <3>1, <3>3, <3>4 DEF Leading
  <2> QED BY <2>3, <2>4
<1> QED BY <1>4, <1>9, <1>10, <1>11

\* es is a chain of records through the systems sys[0], ..., sys[m].
Chained(m, es, sys) ==
  /\ m \in Nat /\ DOMAIN es = 1..m
  /\ \A s \in 0..m : sys[s] \subseteq History!Package /\ Unique(sys[s])
  /\ \A s \in 1..m : Single(es[s].rpms) /\ Went(es[s].rpms, sys[s - 1], sys[s])

\* Where no transaction touches a name, it stays.
LEMMA StaysAt ==
  ASSUME NEW m, NEW es, NEW sys, Chained(m, es, sys), NEW n, NEW a \in 0..m, NEW b \in 0..m, a <= b,
         \A s \in (a + 1)..b : s \notin History!Touching(es, n)
  PROVE  At(sys[b], n) = At(sys[a], n)
<1> DEFINE f == [s \in 0..m |-> At(sys[s], n)]
<1>1. m \in Nat /\ DOMAIN es = 1..m
  BY DEF Chained
<1>2. \A s \in (a + 1)..b : s \in 1..m /\ s \in 0..m /\ s - 1 \in 0..m
  BY <1>1
<1>3. ASSUME NEW s \in (a + 1)..b PROVE f[s] = f[s - 1]
  <2>1. History!BackOf(es[s].rpms, n) \cup History!ForthOf(es[s].rpms, n) = {}
    BY <1>1, <1>2 DEF History!Touching
  <2>2. Went(es[s].rpms, sys[s - 1], sys[s])
    BY <1>2 DEF Chained
  <2>3. At(sys[s - 1], n) = At(sys[s], n)
    BY <2>1, <2>2, UntouchedName
  <2> QED BY <1>2, <2>3
<1>4. f[a] = At(sys[a], n) /\ f[b] = At(sys[b], n)
  OBVIOUS
<1> HIDE DEF f
<1>5. f[b] = f[a]
  BY <1>1, <1>3, Steady
<1> QED BY <1>4, <1>5

\* What merging makes of a name leads from what there was first to what there was last.
LEMMA MergedName ==
  ASSUME NEW m, NEW es, NEW sys, Chained(m, es, sys), NEW n, History!Touching(es, n) # {}
  PROVE  Leading(History!Pair(History!Ends(es, n)), At(sys[0], n), At(sys[m], n))
<1> DEFINE T == History!Touching(es, n)
           c == History!FirstOf(T)
           d == History!LastOf(T)
           X == At(sys[0], n)
           Y == At(sys[m], n)
           B == History!BackOf(es[c].rpms, n)
           F == History!ForthOf(es[d].rpms, n)
<1>1. m \in Nat /\ DOMAIN es = 1..m
  BY DEF Chained
<1>2. T \in SUBSET (1..m) /\ T # {}
  BY <1>1 DEF History!Touching
<1>3. c \in T /\ d \in T /\ \A u \in T : c <= u /\ u <= d
  <2> HIDE DEF T
  <2> QED BY <1>1, <1>2, EndsAre
<1>4. \A s \in T : History!BackOf(es[s].rpms, n) \cup History!ForthOf(es[s].rpms, n) # {}
  BY DEF History!Touching
<1>5. History!Ends(es, n) = B \cup F
  BY Zenon DEF History!Ends
<1> HIDE DEF T, c, d
<1>6. c \in 1..m /\ d \in 1..m /\ 0 \in 0..m /\ m \in 0..m /\ c - 1 \in 0..m /\ d \in 0..m
      /\ 0 <= c - 1 /\ d <= m /\ c \in 0..m /\ d - 1 \in 0..m
  BY <1>1, <1>2, <1>3
<1>7. At(sys[c - 1], n) = X
  <2>1. \A s \in (0 + 1)..(c - 1) : s \notin T
    <3> SUFFICES ASSUME NEW s \in (0 + 1)..(c - 1), s \in T PROVE FALSE
      OBVIOUS
    <3>1. c <= s
      BY <1>3
    <3> QED BY <1>6, <3>1
  <2> QED BY <1>6, <2>1, StaysAt DEF T
<1>8. Y = At(sys[d], n)
  <2>1. \A s \in (d + 1)..m : s \notin T
    <3> SUFFICES ASSUME NEW s \in (d + 1)..m, s \in T PROVE FALSE
      OBVIOUS
    <3>1. s <= d
      BY <1>3
    <3> QED BY <1>1, <1>6, <3>1
  <2> QED BY <1>6, <2>1, StaysAt DEF T
<1>9. \A s \in 1..m : s \in 0..m /\ s - 1 \in 0..m
  BY <1>1
<1>10. \A s \in T : /\ Unique(sys[s - 1]) /\ Unique(sys[s]) /\ Single(es[s].rpms)
                    /\ Went(es[s].rpms, sys[s - 1], sys[s])
  BY <1>2, <1>9 DEF Chained
<1>11. \A k : (\E i \in B : i.pkg = k) <=> k \in X
  BY <1>3, <1>4, <1>7, <1>10, TouchedName
<1>12. \A k : (\E i \in F : i.pkg = k) <=> k \in Y
  BY <1>3, <1>4, <1>8, <1>10, TouchedName
<1>13. /\ \A i \in B : i.action \in History!Backward
       /\ \A i \in F : i.action \in History!Forward
  BY DEF History!BackOf, History!ForthOf
<1>14. (\A i, j \in B : i = j) /\ \A i, j \in F : i = j
  BY <1>3, <1>10 DEF Single, History!BackOf, History!ForthOf
<1>15. (\A k, l \in X : k = l) /\ \A k, l \in Y : k = l
  BY <1>6 DEF Chained, Unique, At
<1> HIDE DEF X, Y, B, F
<1>16. Ended(B, F, X, Y)
  BY <1>11, <1>12, <1>13, <1>14, <1>15 DEF Ended
<1>17. Leading(History!Pair(B \cup F), X, Y)
  BY <1>16, PairLeads
<1> QED BY <1>5, <1>17 DEF X, Y

\* Merging leads from the first system to the last.
LEMMA MergedWent ==
  ASSUME NEW m, NEW es, NEW sys, Chained(m, es, sys)
  PROVE  Went(History!Merged(es).rpms, sys[0], sys[m])
<1> DEFINE X == sys[0]
           Y == sys[m]
           P(n) == History!Pair(History!Ends(es, n))
           T == {n \in Name : History!Touching(es, n) # {}}
           marks == UNION {{i \in es[t].rpms : i.action = "Reason Change"
                                               /\ History!Touching(es, i.pkg[1]) = {}} : t \in DOMAIN es}
           all == UNION {P(n) : n \in T}
           rpms == History!Merged(es).rpms
<1>1. rpms = all \cup marks
  BY DEF History!Merged
<1>17. (\A i \in all : \E n \in T : i \in P(n)) /\ \A n \in T : P(n) \subseteq all
  OBVIOUS
<1>2. \A i \in marks : i.action = "Reason Change"
  OBVIOUS
<1>3. "Reason Change" \notin History!Forward \cup History!Backward
  BY DEF History!Forward, History!Backward
<1>4. \A n \in T :
        /\ \A i \in P(n) : i.action \in History!Forward \cup History!Backward
        /\ \A i \in P(n) : i.action \in History!Backward => i.pkg \in At(X, n) \ At(Y, n)
        /\ \A i \in P(n) : i.action \in History!Forward => i.pkg \in At(Y, n) \ At(X, n)
        /\ \A k \in At(X, n) \ At(Y, n) : \E i \in P(n) : i.action \in History!Backward /\ i.pkg = k
        /\ \A k \in At(Y, n) \ At(X, n) :
             \E i \in P(n) : /\ i.action \in History!Forward /\ i.pkg = k
                             /\ At(X, n) = {} => i.action = "Install"
  <2>1. ASSUME NEW n \in T PROVE Leading(P(n), At(X, n), At(Y, n))
    <3>1. History!Touching(es, n) # {}
      OBVIOUS
    <3> QED BY ONLY <3>1, Chained(m, es, sys), MergedName
  <2> QED BY <2>1, Zenon DEF Leading
<1>5. /\ m \in Nat /\ DOMAIN es = 1..m
      /\ X \subseteq History!Package /\ Y \subseteq History!Package
  BY DEF Chained
<1>6. ASSUME NEW n \in Name, n \notin T PROVE At(X, n) = At(Y, n)
  <2>1. /\ 0 \in 0..m /\ m \in 0..m /\ 0 <= m
        /\ \A s \in (0 + 1)..m : s \notin History!Touching(es, n)
    BY <1>5, <1>6
  <2> QED BY <2>1, StaysAt
<1>7. \A k \in History!Package : k[1] \in Name
  BY DEF History!Package
<1> HIDE DEF P, marks, rpms, T, all
<1>8. \A i \in rpms : i \in marks \/ \E n \in T : i \in P(n)
  BY <1>1, <1>17
<1>9. \A n \in T : P(n) \subseteq rpms
  BY <1>1, <1>17
<1>10. \A k, n : /\ k \in At(X, n) <=> k \in X /\ k[1] = n
                 /\ k \in At(Y, n) <=> k \in Y /\ k[1] = n
  BY DEF At
<1> HIDE DEF X, Y
<1>11. \A k \in X \cup Y : k[1] \in Name
  BY <1>5, <1>7
<1>12. ASSUME NEW k, Takes(rpms, k) PROVE k \in X \ Y
  <2>1. PICK i \in rpms : i.action \in History!Backward /\ i.pkg = k
    BY <1>12 DEF Takes
  <2>2. PICK n \in T : i \in P(n)
    BY <1>2, <1>3, <1>8, <2>1
  <2>3. k \in At(X, n) \ At(Y, n)
    BY <1>4, <2>1, <2>2
  <2> QED BY <1>10, <2>3
<1>13. ASSUME NEW k, Brings(rpms, k) PROVE k \in Y \ X
  <2>1. PICK i \in rpms : i.action \in History!Forward /\ i.pkg = k
    BY <1>13 DEF Brings
  <2>2. PICK n \in T : i \in P(n)
    BY <1>2, <1>3, <1>8, <2>1
  <2>3. k \in At(Y, n) \ At(X, n)
    BY <1>4, <2>1, <2>2
  <2> QED BY <1>10, <2>3
<1>14. ASSUME NEW k \in X \ Y PROVE Takes(rpms, k)
  <2> DEFINE n == k[1]
  <2>1. n \in Name /\ k \in At(X, n) \ At(Y, n)
    BY <1>10, <1>11
  <2> HIDE DEF n
  <2>2. n \in T
    BY <1>6, <2>1
  <2>3. PICK i \in P(n) : i.action \in History!Backward /\ i.pkg = k
    BY <1>4, <2>1, <2>2
  <2> QED BY <1>9, <2>2, <2>3 DEF Takes
<1>15. ASSUME NEW k \in Y \ X
       PROVE  \E i \in rpms : /\ i.action \in History!Forward /\ i.pkg = k
                              /\ k[1] \notin History!Names(X) => i.action = "Install"
  <2> DEFINE n == k[1]
  <2>1. n \in Name /\ k \in At(Y, n) \ At(X, n)
    BY <1>10, <1>11
  <2>2. n \notin History!Names(X) => At(X, n) = {}
    BY DEF History!Names, At
  <2> HIDE DEF n
  <2>3. n \in T
    BY <1>6, <2>1
  <2>4. PICK i \in P(n) : /\ i.action \in History!Forward /\ i.pkg = k
                          /\ At(X, n) = {} => i.action = "Install"
    BY <1>4, <2>1, <2>3
  <2> QED BY <1>9, <2>2, <2>3, <2>4 DEF n
<1>16. \A i \in rpms : i.action \in History!Action
  BY <1>2, <1>4, <1>8 DEF History!Action
<1> DEFINE goal == Went(rpms, X, Y)
<1>18. goal
  BY <1>12, <1>13, <1>14, <1>15, <1>16 DEF Went, Brings
<1> QED BY <1>18 DEF rpms, X, Y

\* The transactions since one that is not the last.
LEMMA SinceIs ==
  ASSUME HistoryInv, NEW t \in DOMAIN v5, t < Len(v5)
  PROVE  /\ Len(v5) \in Nat /\ t \in 1..Len(v5) /\ Len(v5) - t \in Nat
         /\ DOMAIN History!Since(t) = 1..(Len(v5) - t)
         /\ \A s \in 1..(Len(v5) - t) : t + s \in DOMAIN v5 /\ History!Since(t)[s] = v5[t + s]
<1>1. PICK S : v5 \in Seq(S)
  BY DEF HistoryInv
<1>2. Len(v5) \in Nat /\ DOMAIN v5 = 1..Len(v5)
  BY <1>1
<1>3. History!Since(t) = SubSeq(v5, t + 1, Len(v5))
  BY DEF History!Since
<1>4. /\ DOMAIN History!Since(t) = 1..(Len(v5) - t)
      /\ \A s \in 1..(Len(v5) - t) : History!Since(t)[s] = v5[t + s]
  BY <1>1, <1>2, <1>3
<1>5. \A s \in 1..(Len(v5) - t) : t + s \in DOMAIN v5
  BY <1>2
<1> QED BY <1>2, <1>4, <1>5

\* If only dnf has changed packages since, what merging makes of them leads from what there
\* was to what there is.
LEMMA SinceWent ==
  ASSUME HistoryInv, PastInv, NEW t \in DOMAIN v5, t < Len(v5), \A u \in v6 : u <= t
  PROVE  Went(History!Merged(History!Since(t)).rpms, History!After(t), v1)
<1>1. PICK L : L = Len(v5)
  OBVIOUS
<1>2. PICK m : m = L - t
  OBVIOUS
<1>3. PICK es : es = History!Since(t)
  OBVIOUS
<1>4. /\ L \in Nat /\ t \in 1..L /\ m \in Nat /\ DOMAIN es = 1..m
      /\ \A s \in 1..m : t + s \in DOMAIN v5 /\ es[s] = v5[t + s]
  BY <1>1, <1>2, <1>3, SinceIs
<1> DEFINE sys == [s \in 0..m |-> History!After(t + s)]
<1>5. sys[0] = History!After(t) /\ sys[m] = v1
  BY <1>1, <1>2, <1>4 DEF History!After
<1>6. \A s \in 1..m : s - 1 \in 0..m /\ s \in 0..m
  BY <1>4
<1>7. ASSUME NEW s \in 1..m
      PROVE  /\ sys[s - 1] = es[s].was /\ sys[s] = History!After(t + s)
             /\ TrueOf(t + s)
  <2>1. t + (s - 1) # L /\ t + (s - 1) + 1 = t + s
    BY <1>2, <1>4
  <2>2. sys[s - 1] = History!After(t + (s - 1))
    BY <1>6
  <2>3. History!After(t + (s - 1)) = v5[t + s].was
    BY <1>1, <2>1 DEF History!After
  <2> QED BY <1>4, <1>6, <2>2, <2>3 DEF PastInv
<1>8. ASSUME NEW s \in 1..m PROVE t + s + 1 \notin v6
  <2>1. ~(t + s + 1 <= t)
    BY <1>4
  <2> QED BY <2>1
<1> HIDE DEF sys
<1>9. ASSUME NEW s \in 1..m PROVE Single(es[s].rpms) /\ Went(es[s].rpms, sys[s - 1], sys[s])
  BY <1>4, <1>7, <1>8 DEF TrueOf
<1>10. ASSUME NEW s \in 0..m PROVE sys[s] \subseteq History!Package /\ Unique(sys[s])
  <2>1. CASE s = m
    BY <1>5, <2>1 DEF HistoryInv
  <2>2. CASE s # m
    <3>1. s + 1 \in 1..m /\ (s + 1) - 1 = s
      BY <1>4, <2>2
    <3>2. sys[s] = es[s + 1].was /\ TrueOf(t + (s + 1)) /\ es[s + 1] = v5[t + (s + 1)]
      BY <1>4, <1>7, <3>1
    <3> QED BY <3>2 DEF TrueOf
  <2> QED BY <2>1, <2>2
<1>11. Chained(m, es, sys)
  BY <1>4, <1>9, <1>10 DEF Chained
<1>12. Went(History!Merged(es).rpms, sys[0], sys[m])
  BY <1>11, MergedWent
<1> QED BY <1>3, <1>5, <1>12

\* So it is with groups, if none was installed once more.
LEMMA SinceNetted ==
  ASSUME HistoryInv, PastInv, NEW t \in DOMAIN v5, t < Len(v5),
         \A u \in DOMAIN v5 : \A i \in v5[u].ids :
           u > t /\ i.action = "Install" => i.id \notin v5[u].groups
  PROVE  Netted(History!Merged(History!Since(t)).ids, History!GroupsAfter(t), v3)
<1>1. PICK L : L = Len(v5)
  OBVIOUS
<1>2. PICK m : m = L - t
  OBVIOUS
<1>3. PICK es : es = History!Since(t)
  OBVIOUS
<1>4. /\ L \in Nat /\ t \in 1..L /\ m \in Nat /\ DOMAIN es = 1..m
      /\ \A s \in 1..m : t + s \in DOMAIN v5 /\ es[s] = v5[t + s]
  BY <1>1, <1>2, <1>3, SinceIs
<1> DEFINE grp == [s \in 0..m |-> History!GroupsAfter(t + s)]
<1>5. grp[0] = History!GroupsAfter(t) /\ grp[m] = v3
  BY <1>1, <1>2, <1>4 DEF History!GroupsAfter
<1>6. \A s \in 1..m : s - 1 \in 0..m /\ s \in 0..m
  BY <1>4
<1>7. ASSUME NEW s \in 1..m
      PROVE  /\ grp[s - 1] = es[s].groups /\ grp[s] = History!GroupsAfter(t + s)
             /\ TrueOf(t + s)
  <2>1. t + (s - 1) # L /\ t + (s - 1) + 1 = t + s
    BY <1>2, <1>4
  <2>2. grp[s - 1] = History!GroupsAfter(t + (s - 1))
    BY <1>6
  <2>3. History!GroupsAfter(t + (s - 1)) = v5[t + s].groups
    BY <1>1, <2>1 DEF History!GroupsAfter
  <2> QED BY <1>4, <1>6, <2>2, <2>3 DEF PastInv
<1> HIDE DEF grp
<1>8. ASSUME NEW s \in 1..m PROVE Netted(es[s].ids, grp[s - 1], grp[s])
  <2>1. t + s > t /\ t + s \in DOMAIN v5
    BY <1>4
  <2>2. \A i \in es[s].ids : i.action = "Install" => i.id \notin es[s].groups
    BY <1>4, <2>1
  <2>3. IdsOK(es[s].ids) /\ Regrouped(es[s].ids, grp[s - 1], grp[s])
    BY <1>4, <1>7 DEF TrueOf
  <2>4. \A i \in es[s].ids : i.action = "Install" => i.id \notin grp[s - 1]
    BY <1>7, <2>2
  <2> QED BY <2>3, <2>4, RegroupedNetted
<1>9. ASSUME NEW s \in 0..m PROVE grp[s] \subseteq Id
  <2>1. CASE s = m
    BY <1>5, <2>1 DEF PastInv
  <2>2. CASE s # m
    <3>1. s + 1 \in 1..m /\ (s + 1) - 1 = s
      BY <1>4, <2>2
    <3>2. grp[s] = es[s + 1].groups /\ TrueOf(t + (s + 1)) /\ es[s + 1] = v5[t + (s + 1)]
      BY <1>4, <1>7, <3>1
    <3> QED BY <3>2 DEF TrueOf
  <2> QED BY <2>1, <2>2
<1>10. Netted(History!Merged(es).ids, grp[0], grp[m])
  BY <1>4, <1>8, <1>9, MergedNetted
<1> QED BY <1>3, <1>5, <1>10

\* What is turned around brings what was taken, and takes what was brought.
LEMMA RevertedItems ==
  ASSUME NEW e, NEW why, \A i \in e.rpms : i.action \in History!Action
  PROVE  LET rpms == History!Reverted(e, why).rpms IN
         /\ \A i \in rpms : i.action \in History!Action
         /\ \A k : Brings(rpms, k) <=> Takes(e.rpms, k)
         /\ \A k : Takes(rpms, k) <=> Brings(e.rpms, k)
         /\ \A j \in e.rpms : j.action = "Install" =>
              \E i \in rpms : i.action = "Removed" /\ i.pkg = j.pkg
<1> DEFINE Back(j) ==
             IF j.action = "Reason Change" THEN History!Item(j.action, j.pkg, why[j.pkg[1]])
             ELSE History!Item(History!ActionMap[j.action], j.pkg,
                    IF History!ActionMap[j.action] = "Install" /\ j.reason = "clean" THEN "dependency"
                    ELSE j.reason)
           rpms == {Back(j) : j \in e.rpms}
<1>1. History!Reverted(e, why).rpms = rpms
  BY DEF History!Reverted
<1>2. \A j \in e.rpms :
        /\ Back(j).pkg = j.pkg /\ Back(j).action \in History!Action
        /\ Back(j).action \in History!Forward <=> j.action \in History!Backward
        /\ Back(j).action \in History!Backward <=> j.action \in History!Forward
        /\ j.action = "Install" => Back(j).action = "Removed"
  <2> SUFFICES ASSUME NEW j \in e.rpms
               PROVE  /\ Back(j).pkg = j.pkg /\ Back(j).action \in History!Action
                      /\ Back(j).action \in History!Forward <=> j.action \in History!Backward
                      /\ Back(j).action \in History!Backward <=> j.action \in History!Forward
                      /\ j.action = "Install" => Back(j).action = "Removed"
    OBVIOUS
  <2>1. \A a, k, q : History!Item(a, k, q).action = a /\ History!Item(a, k, q).pkg = k
    BY DEF History!Item
  <2>2. Back(j).pkg = j.pkg /\ Back(j).action = IF j.action = "Reason Change" THEN j.action
                                                ELSE History!ActionMap[j.action]
    <3>1. CASE j.action = "Reason Change"
      <4>1. \E q : Back(j) = History!Item(j.action, j.pkg, q)
        BY <3>1, Zenon
      <4> HIDE DEF Back
      <4>2. Back(j).action = j.action /\ Back(j).pkg = j.pkg
        BY <2>1, <4>1
      <4> QED BY <3>1, <4>2
    <3>2. CASE j.action # "Reason Change"
      <4>1. \E q : Back(j) = History!Item(History!ActionMap[j.action], j.pkg, q)
        BY <3>2, Zenon
      <4> HIDE DEF Back
      <4>2. Back(j).action = History!ActionMap[j.action] /\ Back(j).pkg = j.pkg
        BY <2>1, <4>1
      <4> QED BY <3>2, <4>2
    <3> QED BY <3>1, <3>2
  <2> HIDE DEF Back
  <2>3. j.action \in History!Action
    OBVIOUS
  <2> QED BY <2>2, <2>3, ActionMaps DEF History!Action, History!Forward, History!Backward
<1> HIDE DEF Back
<1>3. (\A i \in rpms : \E j \in e.rpms : i = Back(j)) /\ \A j \in e.rpms : Back(j) \in rpms
  OBVIOUS
<1> HIDE DEF rpms
<1>4. \A i \in rpms : i.action \in History!Action
  BY <1>2, <1>3
<1>5. \A k : Brings(rpms, k) <=> Takes(e.rpms, k)
  BY <1>2, <1>3 DEF Brings, Takes
<1>6. \A k : Takes(rpms, k) <=> Brings(e.rpms, k)
  BY <1>2, <1>3 DEF Brings, Takes
<1>7. \A j \in e.rpms : j.action = "Install" =>
        \E i \in rpms : i.action = "Removed" /\ i.pkg = j.pkg
  BY <1>2, <1>3
<1> QED BY <1>1, <1>4, <1>5, <1>6, <1>7

\* What an item asks for where no problem is reported.
LEMMA AsksQuietly ==
  ASSUME NEW i, NEW o, o.installed = TRUE, i.action \in History!Action,
         ~History!ReplayPkgAction(i, o).error, ~History!ReplayPkgAction(i, o).warned
  PROVE  LET a == History!ReplayPkgAction(i, o) IN
         /\ a.want = IF i.action \in History!Forward THEN {i.pkg} ELSE {}
         /\ a.erase \subseteq IF i.action \in History!Backward THEN {i.pkg} ELSE {}
         /\ i.action = "Removed" => a.erase = {i.pkg}
BY DEF History!ReplayPkgAction, History!Asked, History!Refused, History!Forward, History!Backward,
       History!Action

\* A transaction that is turned around without a problem leaves what there was before it.
LEMMA QuietRestores ==
  ASSUME HistoryInv, NEW e, NEW why, NEW o \in History!Options, o.installed = TRUE, NEW cmd, NEW to,
         History!Replayed(History!Reverted(e, why), o, cmd, to), ~v8'.warned,
         NEW x, x \subseteq History!Package, Unique(x), Went(e.rpms, x, v1)
  PROVE  v1' = x
<1> DEFINE d == History!Reverted(e, why)
           w == Target(d, o)
           want == AllAsked("want", d, o)
           erase == AllAsked("erase", d, o)
           a(i) == History!ReplayPkgAction(i, o)
           rpms == d.rpms
<1>1. /\ Unique(w) /\ Extras(d, o) = {}
      /\ \A i \in rpms : ~a(i).error /\ ~a(i).warned
  BY ReplayedParts
<1>2. v1' = w
  <2>1. \E r, gs, items, ids : History!Recorded(w, r, gs, items, ids)
    BY ReplayedParts, Zenon
  <2> HIDE DEF w
  <2> QED BY <2>1 DEF History!Recorded
<1>3. /\ \A i \in rpms : i.action \in History!Action
      /\ \A k : Brings(rpms, k) <=> Takes(e.rpms, k)
      /\ \A k : Takes(rpms, k) <=> Brings(e.rpms, k)
      /\ \A j \in e.rpms : j.action = "Install" =>
           \E i \in rpms : i.action = "Removed" /\ i.pkg = j.pkg
  <2>1. \A i \in e.rpms : i.action \in History!Action
    BY DEF Went
  <2> QED BY ONLY <2>1, RevertedItems
<1>4. \A i \in rpms :
        /\ a(i).want = IF i.action \in History!Forward THEN {i.pkg} ELSE {}
        /\ a(i).erase \subseteq IF i.action \in History!Backward THEN {i.pkg} ELSE {}
        /\ i.action = "Removed" => a(i).erase = {i.pkg}
  BY <1>1, <1>3, AsksQuietly
<1>5. /\ \A k : k \in want <=> \E i \in rpms : k \in a(i).want
      /\ \A k : k \in erase <=> \E i \in rpms : k \in a(i).erase
  BY DEF AllAsked
<1>6. /\ Base(d, o) \subseteq (v1 \ erase) \cup want /\ want \subseteq Base(d, o)
      /\ w = Base(d, o) \cup (History!Pulled(Base(d, o)) \ erase)
  BY DEF Base, Target
<1>7. \A k \in (w \ v1) \cup (v1 \ w) :
        k \in Moved(d) \/ (k \in v1 /\ k[1] \in History!Names(w))
  BY <1>1 DEF Extras
<1>8. \A k \in Moved(d) : Takes(e.rpms, k) \/ Brings(e.rpms, k)
  <2>1. \A k \in Moved(d) : \E i \in rpms : i.action # "Reason Change" /\ i.pkg = k
    BY DEF Moved
  <2> HIDE DEF rpms
  <2>2. ASSUME NEW k \in Moved(d) PROVE Takes(rpms, k) \/ Brings(rpms, k)
    BY <1>3, <2>1 DEF Takes, Brings, History!Action
  <2> QED BY <1>3, <2>2
<1> HIDE DEF a, want, erase, w, rpms, d
<1>9. \A k : k \in want <=> Takes(e.rpms, k)
  <2>1. ASSUME NEW k PROVE k \in want <=> Brings(rpms, k)
    <3>1. \A i \in rpms : k \in a(i).want <=> i.action \in History!Forward /\ i.pkg = k
      BY <1>4
    <3> QED BY <1>5, <3>1, Zenon DEF Brings
  <2> QED BY <1>3, <2>1
<1>10. \A j \in e.rpms : j.action = "Install" => j.pkg \in erase
  BY <1>3, <1>4, <1>5
<1>11. /\ \A k : Takes(e.rpms, k) => k \in x
       /\ \A k : Brings(e.rpms, k) => k \in v1
       /\ \A k \in x \cap v1 : Takes(e.rpms, k) <=> Brings(e.rpms, k)
       /\ \A k \in x \ v1 : Takes(e.rpms, k)
       /\ \A k \in v1 \ x : Brings(e.rpms, k)
       /\ \A k \in v1 \ x : k[1] \notin History!Names(x) =>
            \E i \in e.rpms : i.action = "Install" /\ i.pkg = k
  BY DEF Went
<1>12. Unique(v1)
  BY DEF HistoryInv
<1>13. want \subseteq w
  BY <1>6
<1>14. ASSUME NEW k \in w \ v1 PROVE k \in x
  <2>1. k \in Moved(d)
    BY <1>7
  <2> QED BY <1>8, <1>11, <2>1
<1>15. ASSUME NEW k \in x PROVE k \in w
  <2>1. CASE k \notin v1
    BY <1>9, <1>11, <1>13, <2>1
  <2>2. CASE k \in v1 /\ k \notin w
    <3>1. CASE k \in Moved(d)
      <4>1. Takes(e.rpms, k)
        BY <1>8, <1>11, <2>2, <3>1
      <4> QED BY <1>9, <1>13, <2>2, <4>1
    <3>2. CASE k[1] \in History!Names(w)
      <4>1. PICK l \in w : l[1] = k[1]
        BY <3>2 DEF History!Names
      <4>2. l \notin v1
        BY <1>12, <2>2, <4>1 DEF Unique
      <4>3. l \in x
        BY <1>14, <4>2
      <4>4. l = k
        BY <4>1, <4>3 DEF Unique
      <4> QED BY <2>2, <4>1, <4>4
    <3> QED BY <1>7, <2>2, <3>1, <3>2
  <2> QED BY <2>1, <2>2
<1>16. ASSUME NEW k \in w, k \notin x PROVE FALSE
  <2>1. k \in v1
    BY <1>14, <1>16
  <2>2. CASE k[1] \in History!Names(x)
    <3>1. PICK l \in x : l[1] = k[1]
      BY <2>2 DEF History!Names
    <3>2. l = k
      BY <1>1, <1>15, <3>1 DEF Unique
    <3> QED BY <1>16, <3>1, <3>2
  <2>3. CASE k[1] \notin History!Names(x)
    <3>1. k \in erase
      BY <1>10, <1>11, <1>16, <2>1, <2>3
    <3>2. k \notin want
      BY <1>9, <1>11, <1>16
    <3> QED BY <1>6, <3>1, <3>2
  <2> QED BY <2>2, <2>3
<1>17. w = x
  BY <1>15, <1>16
<1> QED BY <1>2, <1>17

\* So it does with groups.
LEMMA QuietRegroups ==
  ASSUME NEW e, NEW why, NEW o, NEW cmd, NEW to,
         History!Replayed(History!Reverted(e, why), o, cmd, to), ~v8'.warned,
         NEW G, Netted(e.ids, G, v3)
  PROVE  v3' = G
<1> DEFINE d == History!Reverted(e, why)
<1>1. v3' = Regroup(Granted(d, o))
  <2>1. \E w, r, items, ids : History!Recorded(w, r, Regroup(Granted(d, o)), items, ids)
    BY ReplayedParts, Zenon
  <2> QED BY <2>1 DEF History!Recorded
<1>2. Granted(d, o) = d.ids
  <2>1. \A i \in d.ids : ~History!ReplayGroupAction(i, o).warned
    BY ReplayedParts
  <2> QED BY <2>1 DEF Granted
<1>3. d.ids = {History!GroupItem(History!ActionMap[i.action], i.id) : i \in e.ids}
  BY DEF History!Reverted
<1>4. \A i \in e.ids : i.action \in GroupActions
  BY DEF Netted, IdsOK
<1> DEFINE Back(i) == History!GroupItem(History!ActionMap[i.action], i.id)
<1>5. \A i \in e.ids :
        /\ Back(i).id = i.id
        /\ Back(i).action = "Install" <=> i.action = "Removed"
        /\ Back(i).action = "Removed" <=> i.action = "Install"
  <2> SUFFICES ASSUME NEW i \in e.ids
               PROVE  /\ Back(i).id = i.id
                      /\ Back(i).action = "Install" <=> i.action = "Removed"
                      /\ Back(i).action = "Removed" <=> i.action = "Install"
    OBVIOUS
  <2>1. Back(i).id = i.id /\ Back(i).action = History!ActionMap[i.action]
    BY DEF History!GroupItem
  <2> QED BY <1>4, <2>1, ActionMaps DEF GroupActions
<1>6. (\A j \in d.ids : \E i \in e.ids : j = Back(i)) /\ \A i \in e.ids : Back(i) \in d.ids
  BY <1>3
<1> HIDE DEF Back, d
<1>7. \A id : id \in IdsWith("Install", d.ids) <=> id \in IdsWith("Removed", e.ids)
  BY <1>5, <1>6 DEF IdsWith
<1>8. \A id : id \in IdsWith("Removed", d.ids) <=> id \in IdsWith("Install", e.ids)
  BY <1>5, <1>6 DEF IdsWith
<1>9. IdsWith("Install", e.ids) = v3 \ G /\ IdsWith("Removed", e.ids) = G \ v3
  BY DEF Netted
<1> QED BY <1>1, <1>2, <1>7, <1>8, <1>9 DEF Regroup

\* An undo keeps the records true, and one of the last transaction restores.
LEMMA UndoRestores ==
  ASSUME HistoryInv, PastInv, History!Undo
  PROVE  PastInv' /\ History!Restores
<1>1. PICK t \in DOMAIN v5, skip \in BOOLEAN :
        History!Replayed(History!Reverted(History!Serialized(v5[t]), v5[t].why),
                         History!Lenient(skip), "undo", t - 1)
  BY Zenon DEF History!Undo
<1> DEFINE e == History!Serialized(v5[t])
           o == History!Lenient(skip)
           d == History!Reverted(e, v5[t].why)
<1>2. e.rpms = v5[t].rpms /\ e.ids = v5[t].ids
  BY DEF History!Serialized
<1>3. o \in History!Options /\ o.installed = TRUE
  BY DEF History!Lenient, History!Options
<1>4. TrueOf(t)
  BY DEF PastInv
<1>5. History!Replayed(d, o, "undo", t - 1)
  BY <1>1
<1> HIDE DEF e, o
<1>6. IdsOK(d.ids)
  BY <1>2, <1>4, RevertedIds DEF TrueOf
<1>7. v8'.cmd = "undo" /\ v8'.to = t - 1
  BY <1>5, ReplayedParts
<1>8. PastInv'
  <2> HIDE DEF d
  <2> QED BY <1>3, <1>5, <1>6, ReplayedPast
<1>9. ASSUME t - 1 = Len(v5) - 1, ~v8'.warned, \A u \in v6 : u <= t - 1,
             \A u \in DOMAIN v5 : \A i \in v5[u].ids :
               u > t - 1 /\ i.action = "Install" => i.id \notin v5[u].groups
      PROVE  v1' = History!After(t - 1) /\ v3' = History!GroupsAfter(t - 1)
  <2>1. Len(v5) \in Nat /\ DOMAIN v5 = 1..Len(v5)
    BY DEF HistoryInv
  <2>2. /\ t \in Nat /\ t = Len(v5) /\ t - 1 # Len(v5) /\ (t - 1) + 1 = t
        /\ ~(t + 1 <= t - 1) /\ t > t - 1
    BY <1>9, <2>1
  <2>3. /\ History!After(t) = v1 /\ History!GroupsAfter(t) = v3
        /\ History!After(t - 1) = v5[t].was /\ History!GroupsAfter(t - 1) = v5[t].groups
    BY <2>2 DEF History!After, History!GroupsAfter
  <2>4. t + 1 \notin v6
    BY <1>9, <2>2
  <2>5. Went(e.rpms, v5[t].was, v1) /\ v5[t].was \subseteq History!Package /\ Unique(v5[t].was)
    BY <1>2, <1>4, <2>3, <2>4 DEF TrueOf
  <2>6. v1' = v5[t].was
    BY <1>3, <1>5, <1>9, <2>5, QuietRestores
  <2>7. \A i \in v5[t].ids : i.action = "Install" => i.id \notin v5[t].groups
    BY <1>9, <2>2
  <2>8. Netted(e.ids, v5[t].groups, v3)
    BY <1>2, <1>4, <2>3, <2>7, RegroupedNetted DEF TrueOf
  <2>9. v3' = v5[t].groups
    BY <1>5, <1>9, <2>8, QuietRegroups
  <2> QED BY <2>3, <2>6, <2>9
<1>10. History!Restores
  BY <1>7, <1>9 DEF History!Restores
<1> QED BY <1>8, <1>10

\* So does a rollback.
LEMMA RollbackRestoresAll ==
  ASSUME HistoryInv, PastInv, History!Rollback
  PROVE  PastInv' /\ History!Restores
<1>1. PICK t \in DOMAIN v5, skip \in BOOLEAN :
        /\ t < Len(v5)
        /\ History!Replayed(History!Reverted(History!Merged(History!Since(t)), v5[t + 1].why),
                            History!Lenient(skip), "rollback", t)
  <2>1. PICK t \in 1..(Len(v5) - 1), skip \in BOOLEAN :
          History!Replayed(History!Reverted(History!Merged(History!Since(t)), v5[t + 1].why),
                           History!Lenient(skip), "rollback", t)
    BY Zenon DEF History!Rollback
  <2>2. t \in DOMAIN v5 /\ t < Len(v5)
    BY DEF HistoryInv
  <2> QED BY ONLY <2>1, <2>2, Zenon
<1> DEFINE e == History!Merged(History!Since(t))
           o == History!Lenient(skip)
           d == History!Reverted(e, v5[t + 1].why)
<1>2. o \in History!Options /\ o.installed = TRUE
  BY DEF History!Lenient, History!Options
<1>3. History!Replayed(d, o, "rollback", t)
  BY <1>1
<1> HIDE DEF o
<1>4. IdsOK(e.ids)
  <2>1. PICK m : m = Len(v5) - t
    OBVIOUS
  <2>2. PICK es : es = History!Since(t)
    OBVIOUS
  <2>3. m \in Nat /\ DOMAIN es = 1..m /\ \A s \in 1..m : t + s \in DOMAIN v5 /\ es[s] = v5[t + s]
    BY <1>1, <2>1, <2>2, SinceIs
  <2>4. \A s \in 1..m : IdsOK(es[s].ids)
    BY <2>3 DEF PastInv, TrueOf
  <2>5. IdsOK(History!Merged(es).ids)
    BY <2>3, <2>4, MergedIds
  <2> QED BY <2>2, <2>5
<1> HIDE DEF e
<1>5. IdsOK(d.ids)
  BY <1>4, RevertedIds
<1>6. v8'.cmd = "rollback" /\ v8'.to = t
  BY <1>3, ReplayedParts
<1>7. PastInv'
  <2> HIDE DEF d
  <2> QED BY <1>2, <1>3, <1>5, ReplayedPast
<1>8. ASSUME ~v8'.warned, \A u \in v6 : u <= t,
             \A u \in DOMAIN v5 : \A i \in v5[u].ids :
               u > t /\ i.action = "Install" => i.id \notin v5[u].groups
      PROVE  v1' = History!After(t) /\ v3' = History!GroupsAfter(t)
  <2>1. Went(e.rpms, History!After(t), v1)
    BY <1>1, <1>8, SinceWent DEF e
  <2>2. Netted(e.ids, History!GroupsAfter(t), v3)
    BY <1>1, <1>8, SinceNetted DEF e
  <2>3. History!After(t) \subseteq History!Package /\ Unique(History!After(t))
    <3>1. Len(v5) \in Nat /\ DOMAIN v5 = 1..Len(v5)
      BY DEF HistoryInv
    <3>2. t # Len(v5) /\ t + 1 \in DOMAIN v5
      BY <1>1, <3>1
    <3>3. History!After(t) = v5[t + 1].was
      BY <3>2 DEF History!After
    <3> QED BY <3>2, <3>3 DEF PastInv, TrueOf
  <2>4. v1' = History!After(t)
    BY <1>2, <1>3, <1>8, <2>1, <2>3, QuietRestores
  <2>5. v3' = History!GroupsAfter(t)
    BY <1>3, <1>8, <2>2, QuietRegroups
  <2> QED BY <2>4, <2>5
<1>9. History!Restores
  BY <1>6, <1>8 DEF History!Restores
<1> QED BY <1>7, <1>9

\* A redo and a replay keep the records true, and are neither.
LEMMA AgainRestores ==
  ASSUME HistoryInv, PastInv, History!Redo \/ History!Replay
  PROVE  PastInv' /\ History!Restores
<1>1. \E data, cmd, to : \E o \in History!Options :
        /\ History!Replayed(data, o, cmd, to) /\ IdsOK(data.ids) /\ cmd \notin {"undo", "rollback"}
  <2>1. CASE History!Redo
    <3>1. PICK t \in DOMAIN v5, skip \in BOOLEAN :
            History!Replayed(History!Serialized(v5[t]), History!Lenient(skip), "redo", t)
      BY <2>1, Zenon DEF History!Redo
    <3>2. History!Serialized(v5[t]).ids = v5[t].ids
      BY DEF History!Serialized
    <3>3. IdsOK(History!Serialized(v5[t]).ids)
      BY <3>2 DEF PastInv, TrueOf
    <3>4. History!Lenient(skip) \in History!Options
      BY DEF History!Lenient, History!Options
    <3>5. "redo" \notin {"undo", "rollback"}
      OBVIOUS
    <3> WITNESS History!Serialized(v5[t]), "redo", t
    <3> WITNESS History!Lenient(skip) \in History!Options
    <3> QED BY <3>1, <3>3, <3>5, Zenon
  <2>2. CASE History!Replay
    <3>1. PICK o \in History!Options :
            History!Replayed(v7, o, IF TRUE \in {o.installed, o.extras, o.skip}
                                    THEN "replay" ELSE "exact replay", 0)
      BY <2>2, Zenon DEF History!Replay
    <3> DEFINE cmd == IF TRUE \in {o.installed, o.extras, o.skip} THEN "replay" ELSE "exact replay"
    <3>2. cmd \notin {"undo", "rollback"}
      OBVIOUS
    <3>3. IdsOK(v7.ids)
      BY DEF PastInv
    <3> WITNESS v7, cmd, 0
    <3> WITNESS o \in History!Options
    <3> QED BY <3>1, <3>2, <3>3, Zenon
  <2> QED BY <2>1, <2>2
<1>2. PICK data, cmd, to : \E o \in History!Options :
        /\ History!Replayed(data, o, cmd, to) /\ IdsOK(data.ids) /\ cmd \notin {"undo", "rollback"}
  BY <1>1, Zenon
<1>3. PICK o \in History!Options :
        /\ History!Replayed(data, o, cmd, to) /\ IdsOK(data.ids) /\ cmd \notin {"undo", "rollback"}
  BY <1>2
<1>4. v8'.cmd = cmd
  BY <1>3, ReplayedParts
<1>5. History!Restores
  BY <1>3, <1>4 DEF History!Restores
<1>6. PastInv'
  BY <1>3, ReplayedPast
<1> QED BY <1>5, <1>6

\* A transaction of packages alone.
LEMMA PackagesPast ==
  ASSUME HistoryInv, PastInv, NEW w, NEW again, NEW r, NEW q, NEW e, Unique(w),
         w \subseteq History!Package, again \subseteq v1 \cap w,
         History!Recorded(w, r, v3, History!Items(v1, w, again, q, e), {})
  PROVE  PastInv'
<1>1. v1 \subseteq History!Package /\ Unique(v1)
  BY DEF HistoryInv
<1> DEFINE items == History!Items(v1, w, again, q, e)
<1>2. Single(items) /\ Went(items, v1, w)
  <2>1. Single(items \cup {}) /\ Went(items \cup {}, v1, w)
    BY <1>1, ItemsWent
  <2>2. items \cup {} = items
    OBVIOUS
  <2> HIDE DEF items
  <2> QED BY <2>1, <2>2
<1>3. IdsOK({}) /\ Regrouped({}, v3, v3)
  BY DEF IdsOK, Regrouped, IdsWith
<1>4. History!Recorded(w, r, v3, items, {})
  OBVIOUS
<1> HIDE DEF items
<1> QED BY <1>2, <1>3, <1>4, PastRecorded

\* Other commands keep the records true.
LEMMA OrdinaryPast ==
  ASSUME HistoryInv, PastInv, History!Ordinary
  PROVE  PastInv'
<1>1. PICK k \in v4.pkgs :
        \/ /\ k \notin v1
           /\ LET base == {l \in v1 : l[1] # k[1] /\ l[1] \notin Obsoletes[k[1]]} \cup {k}
                  w == base \cup History!Pulled(base)
                  r == [n \in Name |-> IF n \in History!Names(v1) THEN v2[n]
                                       ELSE IF n = k[1] THEN "user" ELSE "dependency"]
              IN History!Recorded(w, r, v3, History!Items(v1, w, {}, r, v2), {})
        \/ /\ k \in v1
           /\ History!Recorded(v1, v2, v3, History!Items(v1, v1, {k}, v2, v2), {})
  BY Zenon DEF History!Ordinary
<1>2. v1 \subseteq History!Package /\ Unique(v1) /\ k \in History!Package
  BY HistoryAssumption DEF HistoryInv
<1>3. CASE k \notin v1
  <2> DEFINE base == {l \in v1 : l[1] # k[1] /\ l[1] \notin Obsoletes[k[1]]} \cup {k}
             w == base \cup History!Pulled(base)
             r == [n \in Name |-> IF n \in History!Names(v1) THEN v2[n]
                                  ELSE IF n = k[1] THEN "user" ELSE "dependency"]
  <2>1. History!Recorded(w, r, v3, History!Items(v1, w, {}, r, v2), {})
    BY <1>1, <1>3, Zenon
  <2>2. base \subseteq History!Package /\ Unique(base)
    BY <1>2 DEF Unique
  <2> HIDE DEF base, r
  <2>3. w \subseteq History!Package /\ Unique(w)
    BY <2>2, PulledUnique
  <2> HIDE DEF w
  <2>4. {} \subseteq v1 \cap w
    OBVIOUS
  <2> QED BY <2>1, <2>3, <2>4, PackagesPast
<1>4. CASE k \in v1
  <2>1. {k} \subseteq v1 \cap v1
    BY <1>4
  <2>2. History!Recorded(v1, v2, v3, History!Items(v1, v1, {k}, v2, v2), {})
    BY <1>1, <1>4, Zenon
  <2> QED BY <1>2, <2>1, <2>2, PackagesPast
<1> QED BY <1>3, <1>4

\* So does what removes packages.
LEMMA RemovePast ==
  ASSUME HistoryInv, PastInv, History!OrdinaryRemove
  PROVE  PastInv'
<1>1. PICK k \in v1 :
        LET dependents == {l \in v1 : k[1] \in Requires[l[1]]}
            w == v1 \ ({k} \cup dependents)
            e == [n \in Name |-> IF n = k[1] THEN "user" ELSE "dependency"]
        IN History!Recorded(w, v2, v3, History!Items(v1, w, {}, v2, e), {})
  BY Zenon DEF History!OrdinaryRemove
<1> DEFINE w == v1 \ ({k} \cup {l \in v1 : k[1] \in Requires[l[1]]})
           e == [n \in Name |-> IF n = k[1] THEN "user" ELSE "dependency"]
<1>2. History!Recorded(w, v2, v3, History!Items(v1, w, {}, v2, e), {})
  BY <1>1, Zenon
<1>3. w \subseteq History!Package /\ Unique(w)
  BY DEF HistoryInv, Unique
<1> HIDE DEF w, e
<1>4. {} \subseteq v1 \cap w
  OBVIOUS
<1> QED BY <1>2, <1>3, <1>4, PackagesPast

\* A mark is no step of the way.
LEMMA MarkPast ==
  ASSUME HistoryInv, PastInv, History!OrdinaryMark
  PROVE  PastInv'
<1>1. PICK k \in v1, r \in {"user", "dependency"} :
        History!Recorded(v1, [v2 EXCEPT ![k[1]] = r], v3,
                         {History!Item("Reason Change", k, r)}, {})
  BY Zenon DEF History!OrdinaryMark
<1> DEFINE item == History!Item("Reason Change", k, r)
<1>2. item.action = "Reason Change"
  BY DEF History!Item
<1>3. History!Recorded(v1, [v2 EXCEPT ![k[1]] = r], v3, {item}, {})
  BY <1>1
<1> HIDE DEF item
<1>4. Single({item}) /\ Went({item}, v1, v1)
  BY <1>2 DEF Single, Went, Takes, Brings, History!Forward, History!Backward, History!Action
<1>5. IdsOK({}) /\ Regrouped({}, v3, v3)
  BY DEF IdsOK, Regrouped, IdsWith
<1> QED BY <1>3, <1>4, <1>5, PastRecorded

\* One group that comes, goes or is upgraded.
LEMMA GroupPast ==
  ASSUME HistoryInv, PastInv, History!OrdinaryGroup
  PROVE  PastInv'
<1>1. PICK id \in v4.ids \cup v3 :
        \/ id \notin v3 /\ History!Recorded(v1, v2, v3 \cup {id}, {},
                                            {History!GroupItem("Install", id)})
        \/ id \in v3 /\ History!Recorded(v1, v2, v3 \ {id}, {},
                                         {History!GroupItem("Removed", id)})
        \/ id \in v3 \cap v4.ids /\ History!Recorded(v1, v2, v3, {},
                                                     {History!GroupItem("Upgrade", id)})
  BY Zenon DEF History!OrdinaryGroup
<1>2. id \in Id
  BY HistoryAssumption DEF HistoryInv, PastInv
<1>3. Single({}) /\ Went({}, v1, v1)
  BY DEF Single, Went, Takes, Brings
<1>4. ASSUME NEW a \in {"Install", "Removed", "Upgrade"}
      PROVE  /\ IdsOK({History!GroupItem(a, id)})
             /\ IdsWith("Install", {History!GroupItem(a, id)}) = IF a = "Install" THEN {id} ELSE {}
             /\ IdsWith("Removed", {History!GroupItem(a, id)}) = IF a = "Removed" THEN {id} ELSE {}
  <2> DEFINE item == History!GroupItem(a, id)
  <2>1. item.action = a /\ item.id = id
    BY DEF History!GroupItem
  <2> HIDE DEF item
  <2>2. /\ IdsOK({item})
        /\ IdsWith("Install", {item}) = IF a = "Install" THEN {id} ELSE {}
        /\ IdsWith("Removed", {item}) = IF a = "Removed" THEN {id} ELSE {}
    BY <1>2, <1>4, <2>1 DEF IdsOK, IdsWith, GroupActions
  <2> QED BY <2>2 DEF item
<1>5. PICK install, removed, upgrade :
        /\ install = {History!GroupItem("Install", id)}
        /\ removed = {History!GroupItem("Removed", id)}
        /\ upgrade = {History!GroupItem("Upgrade", id)}
  OBVIOUS
<1>6. /\ IdsOK(install) /\ Regrouped(install, v3, v3 \cup {id})
      /\ IdsOK(removed) /\ (id \in v3 => Regrouped(removed, v3, v3 \ {id}))
      /\ IdsOK(upgrade) /\ Regrouped(upgrade, v3, v3)
  BY <1>4, <1>5 DEF Regrouped
<1>7. CASE History!Recorded(v1, v2, v3 \cup {id}, {}, install)
  BY <1>3, <1>6, <1>7, PastRecorded
<1>8. CASE id \in v3 /\ History!Recorded(v1, v2, v3 \ {id}, {}, removed)
  BY <1>3, <1>6, <1>8, PastRecorded
<1>9. CASE History!Recorded(v1, v2, v3, {}, upgrade)
  BY <1>3, <1>6, <1>9, PastRecorded
<1> QED BY <1>1, <1>5, <1>7, <1>8, <1>9

\* What others do with rpm is after all that is recorded, and noted.
LEMMA OutsidePast ==
  ASSUME HistoryInv, PastInv, History!Outside
  PROVE  PastInv'
<1>1. v5' = v5 /\ v3' = v3 /\ v7' = v7 /\ v6' = v6 \cup {Len(v5) + 1}
  BY DEF History!Outside
<1>2. ASSUME NEW t \in DOMAIN v5 PROVE TrueOf(t)'
  <2>1. TrueOf(t)
    BY DEF PastInv
  <2>2. History!GroupsAfter(t)' = History!GroupsAfter(t)
    BY <1>1 DEF History!GroupsAfter
  <2>3. t + 1 \notin v6' => t + 1 \notin v6 /\ History!After(t)' = History!After(t)
    BY <1>1 DEF History!After
  <2> QED BY <1>1, <2>1, <2>2, <2>3 DEF TrueOf
<1> QED BY <1>1, <1>2 DEF PastInv

\* What is published or stored changes no record.
LEMMA ElsePast ==
  ASSUME HistoryInv, PastInv, History!Publish \/ History!Store \/ UNCHANGED History!vars
  PROVE  PastInv'
<1>1. v1' = v1 /\ v3' = v3 /\ v5' = v5 /\ v6' = v6
  BY DEF History!Publish, History!Store, History!vars
<1>2. IdsOK(v7.ids)'
  <2>1. CASE v7' = v7
    BY <2>1 DEF PastInv
  <2>2. CASE History!Store
    <3>1. PICK t \in DOMAIN v5 : v7' = History!Serialized(v5[t])
      BY <2>2 DEF History!Store
    <3>2. v7'.ids = v5[t].ids
      BY <3>1 DEF History!Serialized
    <3>3. IdsOK(v7'.ids)
      BY <3>2 DEF PastInv, TrueOf
    <3> QED BY <3>3
  <2> QED BY <2>1, <2>2 DEF History!Publish, History!vars
<1>3. ASSUME NEW t \in DOMAIN v5 PROVE TrueOf(t)'
  <2>1. TrueOf(t)
    BY DEF PastInv
  <2>2. History!After(t)' = History!After(t) /\ History!GroupsAfter(t)' = History!GroupsAfter(t)
    BY <1>1 DEF History!After, History!GroupsAfter
  <2> QED BY <1>1, <2>1, <2>2 DEF TrueOf
<1> QED BY <1>1, <1>2, <1>3 DEF PastInv

\* A command keeps the records true, and restores if it is to.
LEMMA CommandRestores ==
  ASSUME HistoryInv, PastInv, History!Command
  PROVE  PastInv' /\ History!Restores
BY UndoRestores, RollbackRestoresAll, AgainRestores, Zenon DEF History!Command

\* At first there is no past.
LEMMA PastInit == History!Init => PastInv
<1> SUFFICES ASSUME History!Init PROVE PastInv
  OBVIOUS
<1>1. v3 = {} /\ v5 = <<>> /\ v7 = History!NoFile
  BY Zenon DEF History!Init
<1>2. IdsOK(v7.ids)
  BY <1>1 DEF History!NoFile, IdsOK
<1>3. \A t \in DOMAIN v5 : FALSE
  BY <1>1
<1> QED BY <1>1, <1>2, <1>3 DEF PastInv

\* No step makes a record untrue.
LEMMA PastStep == HistoryInv /\ PastInv /\ [History!Next]_(History!vars) => PastInv'
BY OrdinaryPast, RemovePast, MarkPast, GroupPast, OutsidePast, ElsePast, CommandRestores, Zenon
DEF History!Next

\* A rollback, and an undo of the last transaction, restore if nothing is reported.
LEMMA HistoryRestores == HistoryInv /\ PastInv /\ History!Next => History!Restores
<1> SUFFICES ASSUME HistoryInv, PastInv, History!Next PROVE History!Restores
  OBVIOUS
<1>1. CASE v8' = History!Nothing
  BY <1>1 DEF History!Nothing, History!Restores
<1>2. CASE History!Command
  BY <1>2, CommandRestores
<1> QED BY <1>1, <1>2
     DEF History!Next, History!Ordinary, History!OrdinaryRemove, History!OrdinaryMark,
         History!OrdinaryGroup, History!Outside, History!Publish, History!Store

------------------------------------------------------------------------------
(* The sum: a behaviour is one of its topic.                               *)

SurroundingsInv ==
  /\ topic = "expiry"    => ExpiryProofs!IInv
  /\ topic = "history"   => HistoryInv /\ PastInv
  /\ topic = "keys"      => KeyProofs!IInv
  /\ topic = "automatic" => AutomaticInv
  /\ topic = "command"   => CommandInv
  /\ topic = "lists"     => ListsInv
  /\ topic = "rpm"       => ReportInv

\* At first the invariant of the topic holds.
LEMMA SurroundingsInit == Init => SurroundingsInv
BY ExpiryInit, HistoryInit, PastInit, KeysInit, AutomaticInit, CommandInit, ListsInit, RpmInit, Zenon
DEF Init, SurroundingsInv

\* The topic stays, and a step is one of it or a stutter.
LEMMA TopicStep ==
  ASSUME [Next]_vars
  PROVE  /\ topic' = topic
         /\ topic = "expiry"    => [Expiry!Next]_(Expiry!vars)
         /\ topic = "history"   => [History!Next]_(History!vars)
         /\ topic = "keys"      => [Keys!Next]_(Keys!vars)
         /\ topic = "automatic" => [Automatic!Next]_(Automatic!vars)
         /\ topic = "command"   => [Command!Next]_(Command!vars)
         /\ topic = "lists"     => [Lists!Next]_(Lists!vars)
         /\ topic = "rpm"       => [Rpm!Next]_(Rpm!vars)
<1>1. CASE Next
  BY <1>1 DEF Next
<1>2. CASE UNCHANGED vars
  BY <1>2 DEF vars, Expiry!vars, History!vars, Keys!vars, Automatic!vars, Command!vars,
              Lists!vars, Rpm!vars
<1> QED BY <1>1, <1>2

\* Every step of a component keeps its invariant.
LEMMA SurroundingsStep == SurroundingsInv /\ [Next]_vars => SurroundingsInv'
<1> SUFFICES ASSUME SurroundingsInv, [Next]_vars PROVE SurroundingsInv'
  OBVIOUS
<1>1. topic' = topic
  BY TopicStep
<1>2. topic = "expiry" => ExpiryProofs!IInv'
  BY TopicStep, ExpiryStep, Zenon DEF SurroundingsInv
<1>3. topic = "history" => HistoryInv' /\ PastInv'
  BY TopicStep, HistoryStep, PastStep, Zenon DEF SurroundingsInv
<1>4. topic = "keys" => KeyProofs!IInv'
  BY TopicStep, KeysStep, Zenon DEF SurroundingsInv
<1>5. topic = "automatic" => AutomaticInv'
  BY TopicStep, AutomaticStep, Zenon DEF SurroundingsInv
<1>6. topic = "command" => CommandInv'
  BY TopicStep, CommandStep, Zenon DEF SurroundingsInv
<1>7. topic = "lists" => ListsInv'
  BY TopicStep, ListsStep, Zenon DEF SurroundingsInv
<1>8. topic = "rpm" => ReportInv'
  BY TopicStep, RpmStep, Zenon DEF SurroundingsInv
<1> QED BY <1>1, <1>2, <1>3, <1>4, <1>5, <1>6, <1>7, <1>8, Zenon DEF SurroundingsInv

\* The invariants of the components hold throughout.
THEOREM Invariance == Spec => []SurroundingsInv
BY SurroundingsInit, SurroundingsStep, PTL DEF Spec

\* Where one process uses the metadata, and nothing makes a run forget a mark, no
\* repository is used with metadata that was to be checked first: what cleaning promises
\* (doc/command_ref.rst:582, base.py:246).
THEOREM MetadataRevalidated ==
  ASSUME ExpiryProofs!OneProcess, ExpiryProofs!MarksAreKept
  PROVE  Spec => []RevalidatedUnlessIdle
<1>1. SurroundingsInv => RevalidatedUnlessIdle
  BY ExpiryUse, Zenon DEF SurroundingsInv, RevalidatedUnlessIdle
<1> QED BY <1>1, Invariance, PTL

\* Where, in addition, no run is killed and the file can be read, a repository is marked
\* if it has to be, and for no other reason (base.py:246-264).
THEOREM MarksExact ==
  ASSUME ExpiryProofs!OneProcess, Process # {}, ExpiryProofs!MarksAreKept,
         ExpiryProofs!MarksAreRemoved
  PROVE  Spec => []MarksAreExact
<1>1. SurroundingsInv => MarksAreExact
  BY ExpiryMarks, Zenon DEF SurroundingsInv, MarksAreExact
<1> QED BY <1>1, Invariance, PTL

\* A replay without options that ends without an error has done what was stored, neither
\* more nor less, whatever was installed, removed or published since
\* (transaction_sr.py:276, doc/command_ref.rst:765).
THEOREM ReplayExact == Spec => ReplayIsExact
<1>1. SurroundingsInv /\ [Next]_vars => [topic = "history" => History!ReplaysExactly]_vars
  <2> SUFFICES ASSUME SurroundingsInv, Next, topic = "history" PROVE History!ReplaysExactly
    OBVIOUS
  <2>1. HistoryInv /\ History!Next
    BY DEF SurroundingsInv, Next
  <2> QED BY <2>1, HistoryExact
<1> QED BY <1>1, Invariance, PTL DEF Spec, ReplayIsExact

\* A rollback, or an undo of the last transaction, that reports no problem brings back
\* the packages and groups there were, whatever dnf has done in between, replays and other
\* rollbacks included (doc/command_ref.rst:789, commands/history.py:191).
THEOREM RollsBack == Spec => RollbackRestores
<1>1. SurroundingsInv /\ [Next]_vars => [topic = "history" => History!Restores]_vars
  <2> SUFFICES ASSUME SurroundingsInv, Next, topic = "history" PROVE History!Restores
    OBVIOUS
  <2>1. HistoryInv /\ PastInv /\ History!Next
    BY DEF SurroundingsInv, Next
  <2> QED BY <2>1, HistoryRestores
<1> QED BY <1>1, Invariance, PTL DEF Spec, RollbackRestores

\* A package runs through rpm only if it is whole and rpm has the key of its signature
\* (base.py:2578).
THEOREM OnlyVerified == Spec => []RunsOnlyVerified
<1>1. SurroundingsInv => RunsOnlyVerified
  BY KeysVerified, Zenon DEF SurroundingsInv, RunsOnlyVerified
<1> QED BY <1>1, Invariance, PTL

\* The last word of an emitter, and the exit status of dnf-automatic, are true
\* (automatic/main.py:382-394).
THEOREM AutomaticTells == Spec => []ToldWhatHappened
<1>1. SurroundingsInv => ToldWhatHappened
  BY AutomaticTold, Zenon DEF SurroundingsInv, ToldWhatHappened
<1> QED BY <1>1, Invariance, PTL

\* dnf exits with 0 only after all that was to be done, where a history is kept, and
\* with 200 only if nothing was (cli.py:308, main.py).
THEOREM HonestExit == Spec => []ExitIsHonest
<1>1. SurroundingsInv => ExitIsHonest
  BY CommandHonest, Zenon DEF SurroundingsInv, ExitIsHonest
<1> QED BY <1>1, Invariance, PTL

\* With colours `dnf list' shows what it shows without them, and else only lines of
\* other repositories of the same priority for the same versions (cli.py:620).
THEOREM SameVersions == Spec => []ColoursKeepVersions
<1>1. SurroundingsInv => ColoursKeepVersions
  BY ListsSame, Zenon DEF SurroundingsInv, ColoursKeepVersions
<1> QED BY <1>1, Invariance, PTL

\* What rpm is doing is reported for the item that it does it for (rpmtrans.py:259).
THEOREM TrueReports == Spec => []ReportsAreTrue
<1>1. SurroundingsInv => ReportsAreTrue
  BY ReportsTrue, Zenon DEF SurroundingsInv, ReportsAreTrue
<1> QED BY <1>1, Invariance, PTL
==============================================================================
