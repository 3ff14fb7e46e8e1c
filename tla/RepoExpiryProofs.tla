---------------------------- MODULE RepoExpiryProofs ----------------------------
(*******************************************************************************)
(* What RepoExpiry guarantees for every number of repositories, where one dnf  *)
(* runs at a time: nothing keeps two from overwriting each other's marks.      *)
(*******************************************************************************)
EXTENDS RepoExpiry, TLAPS

------------------------------------------------------------------------------
(* The inductive invariant.                                                *)

OneProcess == \A p, q \in Process : p = q

\* Nothing that makes a run forget a mark, or give one no effect.
Keeps == OneProcess /\ world \cap {"idle", "timer", "failure", "nocache"} = {}

\* What is due is on its way: from expired_repos.json to the repositories of a run, and
\* back with what the run used although it had expired.
KeepsOK(p) ==
  /\ run[p].owed \subseteq run[p].expired
  /\ run[p].mode \in {"default", "freshest"} => run[p].loaded \cap run[p].owed = {}
  /\ run[p].bad \subseteq run[p].enabled \cap run[p].loaded \cap run[p].expired
  /\ run[p].mode = "cacheonly" => run[p].bad = {} /\ run[p].toAdd = {} /\ run[p].command # "clean"
  /\ run[p].pc # "off" /\ run[p].mode # "cacheonly" => run[p].enabled = Repo
  /\ run[p].pc = "begun" => run[p].command \in {"load", "makecache", "clean"}
  /\ run[p].pc \in {"begun", "loading"} => due \subseteq run[p].expired
  /\ run[p].pc = "closing" /\ run[p].mode # "cacheonly" =>
       due \subseteq run[p].toAdd \cup (run[p].loaded \cap (run[p].expired \cup stale))
KeepsInv == Keeps => due \subseteq marked /\ \A p \in Process : KeepsOK(p)

\* Nothing that makes a run leave behind marks it has already acted on.
Quiet == OneProcess /\ world \cap {"unreadable", "crash"} = {}

Reason == due \cup stale \cup (Repo \ cached)

\* What a run marks it was told to, or it used a repository that was marked for a reason.
ReasonOK(p) ==
  /\ run[p].pc \in {"off", "begun"} => run[p].loaded = {}
  /\ run[p].mode = "lazy" => run[p].command = "load"
  /\ run[p].mode = "cacheonly" => marked \subseteq Reason
  /\ run[p].pc = "off" => marked \subseteq Reason
  /\ run[p].pc \in {"begun", "loading"} /\ run[p].mode = "lazy" =>
       run[p].enabled \cap run[p].expired \subseteq Reason
  /\ run[p].mode # "cacheonly" =>
       run[p].enabled \cap run[p].loaded \cap run[p].expired \subseteq run[p].bad \cup Reason
ReasonInv == Quiet => \A p \in Process : ReasonOK(p)

IInv == TypeOK /\ KeepsInv /\ ReasonInv
------------------------------------------------------------------------------
(* Invariance.                                                             *)

\* One process goes on.
LEMMA RunChanges ==
  ASSUME TypeOK, NEW p \in Process, NEW r \in Run, run' = [run EXCEPT ![p] = r]
  PROVE  /\ run' \in [Process -> Run] /\ run'[p] = r
         /\ \A q \in Process : q # p => run'[q] = run[q]
BY DEF TypeOK

\* The state of a process with other places, repositories or marks.
LEMMA RunGoes ==
  ASSUME NEW r \in Run, NEW x \in SUBSET Repo, NEW y \in SUBSET Repo, NEW b \in BOOLEAN
  PROVE  /\ [r EXCEPT !.pc = "closing", !.enabled = x] \in Run
         /\ [r EXCEPT !.pc = "closing", !.toAdd = x] \in Run
         /\ [r EXCEPT !.expired = x, !.bad = y] \in Run
         /\ [r EXCEPT !.pc = "loading", !.expired = x, !.reset = b] \in Run
BY DEF Run

\* Cli._configure_repos hands the marks, and more if it is asked to, to the repositories.
LEMMA Begins ==
  ASSUME TypeOK, NEW p \in Process, Begin(p)
  PROVE  /\ run[p].pc = "off" /\ UNCHANGED <<world, marked, cached, stale, recent, mdLock, due>>
         /\ \E r \in Run :
           /\ run' = [run EXCEPT ![p] = r]
           /\ r.pc = "begun" /\ r.owed = due /\ r.loaded = {} /\ r.toAdd = {} /\ r.bad = {}
           /\ marked \subseteq r.expired
           /\ "unreadable" \notin world /\ r.mode # "freshest" => r.expired = marked
           /\ "idle" \notin world =>
                r.enabled = Repo /\ r.command \notin {"system", "nosack"}
           /\ r.command = "timer" => "timer" \in world
           /\ r.mode = "lazy" => r.command = "load"
           /\ r.command = "clean" /\ r.mode = "cacheonly" => "nocache" \in world
<1>1. PICK cmd \in Commands, mode \in Modes, on \in SUBSET Repo, old \in ExpiredAtStart :
        /\ "idle" \notin world => on = Repo /\ cmd \notin {"system", "nosack"}
        /\ cmd = "timer" => "timer" \in world
        /\ cmd # "load" => mode # "lazy"
        /\ cmd = "clean" /\ mode = "cacheonly" => "nocache" \in world
        /\ run' = [run EXCEPT ![p] =
             [Off EXCEPT !.pc = "begun", !.command = cmd, !.mode = mode, !.enabled = on,
                         !.owed = due,
                         !.expired = IF mode = "freshest" THEN old \cup on ELSE old]]
  BY DEF Begin
<1> DEFINE new == IF mode = "freshest" THEN old \cup on ELSE old
           r == [Off EXCEPT !.pc = "begun", !.command = cmd, !.mode = mode, !.enabled = on,
                            !.owed = due, !.expired = new]
<1>2. new \in SUBSET Repo /\ due \in SUBSET Repo
  BY DEF ExpiredAtStart, TypeOK
<1>3. run' = [run EXCEPT ![p] = r]
  BY <1>1
<1> HIDE DEF new
<1>4. r \in Run
  BY <1>2 DEF Off, Run
<1>5. marked \subseteq new /\ ("unreadable" \notin world /\ mode # "freshest" => new = marked)
  BY DEF new, ExpiredAtStart, TypeOK
<1>6. /\ r.pc = "begun" /\ r.owed = due /\ r.loaded = {} /\ r.toAdd = {} /\ r.bad = {}
      /\ r.expired = new /\ r.enabled = on /\ r.command = cmd /\ r.mode = mode
  BY DEF Off
<1> HIDE DEF r
<1>7. run[p].pc = "off" /\ UNCHANGED <<world, marked, cached, stale, recent, mdLock, due>>
  BY DEF Begin
<1> QED BY <1>1, <1>3, <1>4, <1>5, <1>6, <1>7

\* Base.update_cache expires what is to be downloaded.
LEMMA Updates ==
  ASSUME TypeOK, NEW p \in Process, UpdateCache(p)
  PROVE  /\ run[p].pc = "begun" /\ run[p].command \in {"makecache", "timer"} /\ mdLock' = p
         /\ UNCHANGED <<world, marked, cached, stale, recent, due>>
         /\ \E r \in Run :
           /\ run' = [run EXCEPT ![p] = r]
           /\ r.pc = "loading" /\ run[p].expired \subseteq r.expired
           /\ r.command = run[p].command /\ r.mode = run[p].mode /\ r.enabled = run[p].enabled
           /\ r.loaded = run[p].loaded /\ r.toAdd = run[p].toAdd /\ r.owed = run[p].owed
           /\ r.bad = run[p].bad
<1> DEFINE old == {r \in run[p].enabled : r \notin run[p].loaded \/ r \in stale}
           timer == run[p].command = "timer"
           new == run[p].expired \cup old
           r == [run[p] EXCEPT !.pc = "loading", !.expired = new, !.reset = timer]
<1>1. run[p] \in Run /\ new \in SUBSET Repo /\ timer \in BOOLEAN
  BY DEF TypeOK, Run
<1>2. run' = [run EXCEPT ![p].pc = "loading", ![p].expired = new, ![p].reset = timer]
  BY DEF UpdateCache
<1>3. run[p].expired \subseteq new
  OBVIOUS
<1> HIDE DEF timer, new
<1>4. run' = [run EXCEPT ![p] = r]
  BY <1>2 DEF TypeOK
<1>5. r \in Run
  BY <1>1, RunGoes
<1>6. /\ r.pc = "loading" /\ r.expired = new
      /\ r.command = run[p].command /\ r.mode = run[p].mode /\ r.enabled = run[p].enabled
      /\ r.loaded = run[p].loaded /\ r.toAdd = run[p].toAdd /\ r.owed = run[p].owed
      /\ r.bad = run[p].bad
  BY <1>1 DEF Run
<1> HIDE DEF r
<1>7. /\ run[p].pc = "begun" /\ run[p].command \in {"makecache", "timer"} /\ mdLock' = p
      /\ UNCHANGED <<world, marked, cached, stale, recent, due>>
  BY DEF UpdateCache
<1> QED BY <1>3, <1>4, <1>5, <1>6, <1>7

\* No step leaves the types.
LEMMA TypeStep ==
  ASSUME TypeOK, [Next]_vars
  PROVE  TypeOK'
<1>1. ASSUME NEW p \in Process, Begin(p) PROVE TypeOK'
  BY <1>1, Begins, RunChanges DEF TypeOK
<1>2. ASSUME NEW p \in Process, LoadNothing(p) PROVE TypeOK'
  <2> DEFINE on == IF run[p].command = "system" THEN {} ELSE run[p].enabled
             r == [run[p] EXCEPT !.pc = "closing", !.enabled = on]
  <2>1. run[p] \in Run /\ on \in SUBSET Repo
    BY DEF TypeOK, Run
  <2>2. run' = [run EXCEPT ![p] = r]
    BY <1>2 DEF LoadNothing, TypeOK
  <2> HIDE DEF on
  <2>3. r \in Run
    BY <2>1, RunGoes
  <2> HIDE DEF r
  <2> QED BY <1>2, <2>2, <2>3, RunChanges DEF LoadNothing, TypeOK
<1>3. ASSUME NEW p \in Process, LoadStarts(p) PROVE TypeOK'
  BY <1>3 DEF LoadStarts, TypeOK, Run, Off, Commands, Modes
<1>4. ASSUME NEW p \in Process, TimerSkips(p) PROVE TypeOK'
  BY <1>4 DEF TimerSkips, TypeOK, Run, Off, Commands, Modes
<1>5. ASSUME NEW p \in Process, UpdateCache(p) PROVE TypeOK'
  BY <1>5, Updates, RunChanges DEF TypeOK
<1>6. ASSUME NEW p \in Process, UpdateNothing(p) PROVE TypeOK'
  BY <1>6 DEF UpdateNothing, TypeOK, Run, Off, Commands, Modes
<1>7. ASSUME NEW p \in Process, LoadCached(p) PROVE TypeOK'
  BY <1>7 DEF LoadCached, Pending, Usable, TypeOK, Run, Off, Commands, Modes
<1>8. ASSUME NEW p \in Process, Refresh(p) PROVE TypeOK'
  <2>1. PICK r \in Pending(p) :
          /\ run' = [q \in Process |->
               IF q = p THEN [run[p] EXCEPT !.loaded = @ \cup {r}, !.expired = @ \ {r},
                                            !.owed = @ \ {r}]
               ELSE [run[q] EXCEPT !.owed = @ \ {r}]]
          /\ cached' = cached \cup {r} /\ stale' = stale \ {r} /\ due' = due \ {r}
    BY <1>8 DEF Refresh
  <2>2. r \in Repo
    BY DEF Pending, TypeOK, Run
  <2>3. /\ [run[p] EXCEPT !.loaded = @ \cup {r}, !.expired = @ \ {r}, !.owed = @ \ {r}] \in Run
        /\ \A q \in Process : [run[q] EXCEPT !.owed = @ \ {r}] \in Run
    BY <2>2 DEF TypeOK, Run
  <2> QED BY <1>8, <2>1, <2>2, <2>3 DEF Refresh, TypeOK
<1>9. ASSUME NEW p \in Process, LoadFails(p) PROVE TypeOK'
  BY <1>9 DEF LoadFails, Pending, TypeOK, Run, Off, Commands, Modes
<1>10. ASSUME NEW p \in Process, LoadEnds(p) PROVE TypeOK'
  BY <1>10 DEF LoadEnds, Pending, TypeOK, Run, Off, Commands, Modes
<1>11. ASSUME NEW p \in Process, PackageFails(p) PROVE TypeOK'
  <2>1. PICK s \in run[p].enabled \cap run[p].loaded :
          run' = [run EXCEPT ![p].expired = @ \cup {s}, ![p].bad = @ \cup {s}]
    BY <1>11 DEF PackageFails
  <2> DEFINE r == [run[p] EXCEPT !.expired = run[p].expired \cup {s}, !.bad = run[p].bad \cup {s}]
  <2>2. run[p] \in Run /\ run[p].expired \cup {s} \subseteq Repo /\ run[p].bad \cup {s} \subseteq Repo
    BY DEF TypeOK, Run
  <2>3. run' = [run EXCEPT ![p] = r]
    BY <2>1 DEF TypeOK
  <2>4. r \in Run
    BY <2>2, RunGoes
  <2> HIDE DEF r
  <2> QED BY <1>11, <2>3, <2>4, RunChanges DEF PackageFails, TypeOK
<1>12. ASSUME NEW p \in Process, Clean(p) PROVE TypeOK'
  <2>1. PICK add \in {cached, {}} :
          /\ run' = [run EXCEPT ![p].pc = "closing", ![p].toAdd = add]
          /\ cached' = cached \/ cached' = {}
          /\ due' = due \cap cached'
    BY <1>12 DEF Clean
  <2> DEFINE r == [run[p] EXCEPT !.pc = "closing", !.toAdd = add]
  <2>2. run[p] \in Run /\ add \in SUBSET Repo
    BY DEF TypeOK
  <2>3. run' = [run EXCEPT ![p] = r]
    BY <2>1 DEF TypeOK
  <2>4. r \in Run
    BY <2>2, RunGoes
  <2> HIDE DEF r
  <2> QED BY <1>12, <2>1, <2>3, <2>4, RunChanges DEF Clean, TypeOK
<1>13. ASSUME NEW p \in Process, Close(p) PROVE TypeOK'
  BY <1>13 DEF Close, UsedExpired, TypeOK, Run, Off, Commands, Modes
<1>14. ASSUME NEW p \in Process, Crash(p) PROVE TypeOK'
  BY <1>14 DEF Crash, TypeOK, Run, Off, Commands, Modes
<1>15. CASE Age \/ PeriodElapses \/ UNCHANGED vars
  BY <1>15 DEF Age, PeriodElapses, vars, TypeOK, Run, Off, Commands, Modes
<1> QED BY <1>1, <1>2, <1>3, <1>4, <1>5, <1>6, <1>7, <1>8, <1>9, <1>10, <1>11, <1>12,
   <1>13, <1>14, <1>15 DEF Next

\* Each step hands the marks on.
LEMMA KeepsStep ==
  ASSUME TypeOK, KeepsInv, [Next]_vars
  PROVE  KeepsInv'
<1>1. ASSUME NEW p \in Process, Begin(p) PROVE KeepsInv'
  BY <1>1, Begins, RunChanges DEF KeepsInv, Keeps, KeepsOK, OneProcess, TypeOK, Run, Commands
<1>2. ASSUME NEW p \in Process, LoadNothing(p) PROVE KeepsInv'
  BY <1>2 DEF LoadNothing, KeepsInv, Keeps, KeepsOK, OneProcess, TypeOK, Run, Off
<1>3. ASSUME NEW p \in Process, LoadStarts(p) PROVE KeepsInv'
  BY <1>3 DEF LoadStarts, KeepsInv, Keeps, KeepsOK, OneProcess, TypeOK, Run, Off
<1>4. ASSUME NEW p \in Process, TimerSkips(p) PROVE KeepsInv'
  BY <1>4 DEF TimerSkips, KeepsInv, Keeps, KeepsOK, OneProcess, TypeOK, Run, Off
<1>5. ASSUME NEW p \in Process, UpdateCache(p) PROVE KeepsInv'
  BY <1>5, Updates, RunChanges DEF KeepsInv, Keeps, KeepsOK, OneProcess, TypeOK, Run, Commands
<1>6. ASSUME NEW p \in Process, UpdateNothing(p) PROVE KeepsInv'
  BY <1>6 DEF UpdateNothing, KeepsInv, Keeps, KeepsOK, OneProcess, TypeOK, Run, Off
<1>7. ASSUME NEW p \in Process, LoadCached(p) PROVE KeepsInv'
  BY <1>7 DEF LoadCached, Pending, Usable, KeepsInv, Keeps, KeepsOK, OneProcess, TypeOK,
     Run, Off
<1>8. ASSUME NEW p \in Process, Refresh(p) PROVE KeepsInv'
  BY <1>8 DEF Refresh, Pending, KeepsInv, Keeps, KeepsOK, OneProcess, TypeOK, Run, Off
<1>9. ASSUME NEW p \in Process, LoadFails(p) PROVE KeepsInv'
  BY <1>9 DEF LoadFails, Pending, KeepsInv, Keeps, KeepsOK, OneProcess, TypeOK, Run, Off
<1>10. ASSUME NEW p \in Process, LoadEnds(p) PROVE KeepsInv'
  BY <1>10 DEF LoadEnds, Pending, KeepsInv, Keeps, KeepsOK, OneProcess, TypeOK, Run, Off
<1>11. ASSUME NEW p \in Process, PackageFails(p) PROVE KeepsInv'
  BY <1>11 DEF PackageFails, KeepsInv, Keeps, KeepsOK, OneProcess, TypeOK, Run, Off
<1>12. ASSUME NEW p \in Process, Clean(p) PROVE KeepsInv'
  BY <1>12 DEF Clean, KeepsInv, Keeps, KeepsOK, OneProcess, TypeOK, Run, Off
<1>13. ASSUME NEW p \in Process, Close(p) PROVE KeepsInv'
  BY <1>13 DEF Close, UsedExpired, KeepsInv, Keeps, KeepsOK, OneProcess, TypeOK, Run,
     Off
<1>14. ASSUME NEW p \in Process, Crash(p) PROVE KeepsInv'
  BY <1>14 DEF Crash, KeepsInv, Keeps, KeepsOK, OneProcess, TypeOK, Run, Off
<1>15. CASE Age \/ PeriodElapses \/ UNCHANGED vars
  BY <1>15 DEF Age, PeriodElapses, vars, KeepsInv, Keeps, KeepsOK, OneProcess, TypeOK,
     Run, Off
<1> QED BY <1>1, <1>2, <1>3, <1>4, <1>5, <1>6, <1>7, <1>8, <1>9, <1>10, <1>11, <1>12,
   <1>13, <1>14, <1>15 DEF Next

\* Each mark has a reason.
LEMMA ReasonStep ==
  ASSUME TypeOK, ReasonInv, [Next]_vars
  PROVE  ReasonInv'
<1>1. ASSUME NEW p \in Process, Begin(p) PROVE ReasonInv'
  BY <1>1, Begins, RunChanges DEF ReasonInv, Quiet, ReasonOK, Reason, OneProcess
<1>2. ASSUME NEW p \in Process, LoadNothing(p) PROVE ReasonInv'
  BY <1>2 DEF LoadNothing, ReasonInv, Quiet, ReasonOK, Reason, OneProcess, TypeOK, Run,
     Off
<1>3. ASSUME NEW p \in Process, LoadStarts(p) PROVE ReasonInv'
  BY <1>3 DEF LoadStarts, ReasonInv, Quiet, ReasonOK, Reason, OneProcess, TypeOK, Run,
     Off
<1>4. ASSUME NEW p \in Process, TimerSkips(p) PROVE ReasonInv'
  BY <1>4 DEF TimerSkips, ReasonInv, Quiet, ReasonOK, Reason, OneProcess, TypeOK, Run,
     Off
<1>5. ASSUME NEW p \in Process, UpdateCache(p) PROVE ReasonInv'
  BY <1>5, Updates, RunChanges DEF ReasonInv, Quiet, ReasonOK, Reason, OneProcess
<1>6. ASSUME NEW p \in Process, UpdateNothing(p) PROVE ReasonInv'
  BY <1>6 DEF UpdateNothing, ReasonInv, Quiet, ReasonOK, Reason, OneProcess, TypeOK,
     Run, Off
<1>7. ASSUME NEW p \in Process, LoadCached(p) PROVE ReasonInv'
  BY <1>7 DEF LoadCached, Pending, Usable, ReasonInv, Quiet, ReasonOK, Reason,
     OneProcess, TypeOK, Run, Off
<1>8. ASSUME NEW p \in Process, Refresh(p) PROVE ReasonInv'
  BY <1>8 DEF Refresh, Pending, ReasonInv, Quiet, ReasonOK, Reason, OneProcess, TypeOK,
     Run, Off
<1>9. ASSUME NEW p \in Process, LoadFails(p) PROVE ReasonInv'
  BY <1>9 DEF LoadFails, Pending, ReasonInv, Quiet, ReasonOK, Reason, OneProcess,
     TypeOK, Run, Off
<1>10. ASSUME NEW p \in Process, LoadEnds(p) PROVE ReasonInv'
  BY <1>10 DEF LoadEnds, Pending, ReasonInv, Quiet, ReasonOK, Reason, OneProcess,
     TypeOK, Run, Off
<1>11. ASSUME NEW p \in Process, PackageFails(p) PROVE ReasonInv'
  BY <1>11 DEF PackageFails, ReasonInv, Quiet, ReasonOK, Reason, OneProcess, TypeOK,
     Run, Off
<1>12. ASSUME NEW p \in Process, Clean(p) PROVE ReasonInv'
  BY <1>12 DEF Clean, ReasonInv, Quiet, ReasonOK, Reason, OneProcess, TypeOK, Run, Off
<1>13. ASSUME NEW p \in Process, Close(p) PROVE ReasonInv'
  BY <1>13 DEF Close, UsedExpired, ReasonInv, Quiet, ReasonOK, Reason, OneProcess,
     TypeOK, Run, Off
<1>14. ASSUME NEW p \in Process, Crash(p) PROVE ReasonInv'
  BY <1>14 DEF Crash, ReasonInv, Quiet, ReasonOK, Reason, OneProcess, TypeOK, Run, Off
<1>15. CASE Age \/ PeriodElapses \/ UNCHANGED vars
  BY <1>15 DEF Age, PeriodElapses, vars, ReasonInv, Quiet, ReasonOK, Reason, OneProcess,
     TypeOK, Run, Off
<1> QED BY <1>1, <1>2, <1>3, <1>4, <1>5, <1>6, <1>7, <1>8, <1>9, <1>10, <1>11, <1>12,
   <1>13, <1>14, <1>15 DEF Next

\* In the beginning no run is on its way and nothing is due.
LEMMA InitInv == Init => IInv
<1> SUFFICES ASSUME Init PROVE IInv
  OBVIOUS
<1>1. Off \in Run
  BY DEF Off, Run, Commands, Modes
<1>2. \A p \in Process : run[p] = Off
  BY DEF Init
<1>3. run \in [Process -> Run] /\ recent \in BOOLEAN
  <2>1. run \in [Process -> Run]
    BY <1>1 DEF Init
  <2>2. recent \in BOOLEAN
    BY DEF Init
  <2> QED BY <2>1, <2>2
<1>4. TypeOK
  BY <1>3 DEF Init, TypeOK
<1>5. KeepsInv
  BY <1>2 DEF Init, KeepsInv, KeepsOK, Off
<1>6. ReasonInv
  BY <1>2 DEF Init, ReasonInv, ReasonOK, Off
<1> QED BY <1>4, <1>5, <1>6 DEF IInv

\* Every step keeps the invariant.
LEMMA StepInv == IInv /\ [Next]_vars => IInv'
BY TypeStep, KeepsStep, ReasonStep DEF IInv

\* The invariant holds throughout.
LEMMA Invariance == Spec => []IInv
BY StepInv, InitInv, PTL DEF Spec

------------------------------------------------------------------------------
(* What follows.                                                           *)

\* Every variable has its type.
THEOREM TypeCorrect == Spec => []TypeOK
<1>1. IInv => TypeOK
  BY DEF IInv
<1> QED BY <1>1, Invariance, PTL

\* Nothing in these worlds makes a run forget a mark.
MarksAreKept == \A w \in Worlds : "idle" \notin w => w \cap {"timer", "failure", "nocache"} = {}

\* What the invariant says of the metadata a run uses, and of the marks.
LEMMA UseFollows ==
  ASSUME OneProcess, MarksAreKept
  PROVE  IInv => RevalidatedUnlessIdle
BY DEF IInv, TypeOK, KeepsInv, Keeps, KeepsOK, RevalidatedUnlessIdle, RevalidatedWhenUsed,
       MarksAreKept

\* Where the marks can be read, no run is killed.
MarksAreRemoved == \A w \in Worlds : "unreadable" \notin w => "crash" \notin w

\* The same of the marks between the runs.
LEMMA MarksFollow ==
  ASSUME OneProcess, Process # {}, MarksAreKept, MarksAreRemoved
  PROVE  IInv => MarksAreExact
BY DEF IInv, TypeOK, KeepsInv, Keeps, ReasonInv, Quiet, ReasonOK, Reason, MarksAreExact,
     DueIsMarked, MarksHaveReason, MarksAreKept, MarksAreRemoved

\* After `dnf clean expire-cache' no metadata that nobody has revalidated is used, if one
\* dnf runs at a time, each loads all repositories and has no trouble with it: a timer that
\* has nothing to do, a failed download and `dnf -C clean' lose the mark, too.
THEOREM Revalidated ==
  ASSUME OneProcess, MarksAreKept
  PROVE  Spec => []RevalidatedUnlessIdle
BY UseFollows, Invariance, PTL

\* The marks in expired_repos.json are the ones there should be, if, in addition, no run is
\* killed: one that is has not removed the marks of what it has downloaded.
THEOREM MarksExact ==
  ASSUME OneProcess, Process # {}, MarksAreKept, MarksAreRemoved
  PROVE  Spec => []MarksAreExact
BY MarksFollow, Invariance, PTL
=============================================================================
