-------------------------- MODULE TransactionRunProofs --------------------------
(*******************************************************************************)
(* What TransactionRun guarantees for every number of processes and packages,  *)
(* every world, and histories and cookies without a bound.                     *)
(*******************************************************************************)
EXTENDS TransactionRun, SequenceTheorems, TLAPS

------------------------------------------------------------------------------
(* The inductive invariant.                                                *)

Locked == {"check", "save", "beg", "rpm"}
Empty == {"empty", "emptybeg", "emptyend"}

\* What a process knows of its transaction: it does not change after the resolution,
\* and only rpm comes to its elements.
PlanOK(p) ==
  /\ run[p].pc # "off" => p \in world.processes
  /\ run[p].left \subseteq Items(run[p].plan) /\ Items(run[p].plan) \subseteq world.packages
  /\ run[p].failed \subseteq Items(run[p].plan) \ run[p].left
  /\ run[p].pc # "rpm" => run[p].left = Items(run[p].plan)
  /\ run[p].pc \in Empty => Items(run[p].plan) = {}
  /\ run[p].pc \in {"locking"} \cup Locked => Items(run[p].plan) # {}
PlanInv == \A p \in Process : PlanOK(p)

\* The open transaction of a process is its own, and says what rpm has done so far.
TidOK(p) ==
  /\ run[p].pc = "emptyend" => run[p].tid # 0
  /\ run[p].tid # 0 =>
       /\ run[p].pc \in {"rpm", "emptyend"}
       /\ run[p].tid \in 1..Len(history)
       /\ history[run[p].tid].state = "open" /\ history[run[p].tid].end = NoCookie
       /\ history[run[p].tid].items = Items(run[p].plan)
       /\ history[run[p].tid].done = Items(run[p].plan) \ (run[p].left \cup run[p].failed)
       /\ \A q \in Process : run[q].tid = run[p].tid => q = p
TidInv == \A p \in Process : TidOK(p)

\* Until rpm comes to the first element the rpm database is as it was when the
\* transaction was begun.
BegunInv ==
  \A p \in Process :
    run[p].pc = "rpm" /\ run[p].tid # 0 /\ run[p].left = Items(run[p].plan) =>
      run[p].last = version

\* What was checked inside the lock stays true inside the lock.
AppliesInv ==
  "outside" \notin world.features => \A p \in Process : \A k \in run[p].left :
    run[p].pc \in {"save", "beg", "rpm"} => (k \in installed <=> run[p].plan[k] = "erase")

\* A transaction without packages accounts for nothing.
AccountInv ==
  \/ version = 1 \/ outside
  \/ \E i \in 1..Len(history) :
       history[i].end = version \/ (history[i].state = "open" /\ history[i].items # {})

\* One process that is neither killed nor turned away by rpm: its open transaction is
\* the last one, and else the last one ended with the cookie there is.
Undisturbed ==
  world.features \cap {"crash", "global"} = {} /\ \A p, q \in world.processes : p = q
LastInv ==
  Undisturbed =>
    /\ \A p \in Process : run[p].tid # 0 => run[p].tid = Len(history)
    /\ ~outside =>
         /\ history # <<>> /\ (\A p \in Process : run[p].tid = 0) => LastEnd = version
         /\ \A p \in Process : run[p].pc \in {"emptybeg", "emptyend"} => run[p].last = version

IInv ==
  /\ TypeOK /\ world \in Worlds /\ PlanInv /\ TidInv /\ BegunInv /\ AppliesInv
  /\ DoneUnlessProblems /\ AccountInv /\ LastInv

------------------------------------------------------------------------------
(* Lemmas about the history and the processes.                             *)

\* One process goes on.
LEMMA RunChanges ==
  ASSUME TypeOK, NEW p \in Process, NEW r \in Run, run' = [run EXCEPT ![p] = r]
  PROVE  /\ run' \in [Process -> Run] /\ run'[p] = r
         /\ \A q \in Process : q # p => run'[q] = run[q]
BY DEF TypeOK

\* Its state is that of a process with nothing to do.
LEMMA OffIsRun ==
  /\ Off \in Run /\ Off.pc = "off" /\ Off.tid = 0 /\ Off.left = {} /\ Off.failed = {}
  /\ Items(Off.plan) = {}
BY DEF Off, Run, Plans, Keep, NoCookie, Items

\* SwdbInterface.beg adds a transaction to the history.
LEMMA HistoryOpens ==
  ASSUME TypeOK, NEW begin \in Nat, NEW items \in SUBSET Package
  PROVE  /\ Opened(begin, items) \in Seq(Transaction)
         /\ Len(Opened(begin, items)) = Len(history) + 1
         /\ \A i \in 1..Len(history) : Opened(begin, items)[i] = history[i]
         /\ Opened(begin, items)[Len(history) + 1] =
              [begin |-> begin, end |-> NoCookie, state |-> "open", items |-> items, done |-> {}]
<1> DEFINE t == [begin |-> begin, end |-> NoCookie, state |-> "open", items |-> items, done |-> {}]
<1>1. t \in Transaction
  BY DEF Transaction, NoCookie
<1>2. history \in Seq(Transaction)
  BY DEF TypeOK
<1>3. Opened(begin, items) = Append(history, t)
  BY DEF Opened
<1> HIDE DEF t
<1>4. /\ Append(history, t) \in Seq(Transaction)
      /\ Len(Append(history, t)) = Len(history) + 1
      /\ \A i \in 1..Len(history) : Append(history, t)[i] = history[i]
      /\ Append(history, t)[Len(history) + 1] = t
  BY <1>1, <1>2, AppendProperties
<1> QED BY <1>3, <1>4 DEF t

\* A transaction of the history is replaced by what has become of it.
LEMMA HistoryChanges ==
  ASSUME TypeOK, NEW i \in 1..Len(history), NEW t \in Transaction
  PROVE  LET h == [history EXCEPT ![i] = t]
         IN /\ h \in Seq(Transaction) /\ Len(h) = Len(history) /\ h[i] = t
            /\ \A j \in 1..Len(history) : j # i => h[j] = history[j]
<1>1. history \in Seq(Transaction)
  BY DEF TypeOK
<1> QED BY <1>1

Ended(t, end, s) == [t EXCEPT !.end = end, !.state = s]

\* SwdbInterface.end closes it: it keeps its items, and what was done.
LEMMA HistoryCloses ==
  ASSUME TypeOK, NEW p \in Process, NEW end \in Nat, run[p].tid \in 1..Len(history)
  PROVE  LET h == Closed(p, end)
             i == run[p].tid
         IN /\ h \in Seq(Transaction) /\ Len(h) = Len(history)
            /\ \A j \in 1..Len(history) : j # i => h[j] = history[j]
            /\ h[i].end = end /\ h[i].state = IF run[p].failed = {} THEN "done" ELSE "error"
            /\ h[i].items = history[i].items /\ h[i].done = history[i].done
<1> DEFINE i == run[p].tid
           s == IF run[p].failed = {} THEN "done" ELSE "error"
           t == Ended(history[i], end, s)
<1>1. history \in Seq(Transaction) /\ history[i] \in Transaction
  BY DEF TypeOK
<1>2. /\ t \in Transaction /\ t.end = end /\ t.state = s
      /\ t.items = history[i].items /\ t.done = history[i].done
  <2>1. s \in {"open", "done", "error"}
    OBVIOUS
  <2> HIDE DEF s, i
  <2> QED BY <1>1, <2>1 DEF Ended, Transaction
<1>3. DOMAIN history = 1..Len(history)
  BY <1>1
<1> HIDE DEF t
<1>4. Closed(p, end) = [history EXCEPT ![i] = t]
  BY <1>3 DEF Closed, t, Ended
<1> QED BY <1>2, <1>4, HistoryChanges

------------------------------------------------------------------------------
(* Kinds of steps.                                                         *)

\* What a step leaves alone when it changes neither the rpm database nor the history.
LEMMA QuietInv ==
  ASSUME IInv, NEW p \in Process, NEW r \in Run, run' = [run EXCEPT ![p] = r],
         UNCHANGED <<world, installed, version, outside, history>>,
         modules' \in Process \cup {Nobody}, lock' \in Process \cup {Nobody},
         \A q \in Process : lock' = q <=> run'[q].pc \in Locked,
         PlanOK(p)', r.tid = 0, r.pc # "emptyend", run[p].tid = 0 \/ ~Undisturbed,
         "outside" \notin world.features /\ r.pc \in {"save", "beg", "rpm"} =>
           \A k \in r.left : k \in installed <=> r.plan[k] = "erase",
         Undisturbed /\ ~outside /\ r.pc = "emptybeg" => r.last = version
  PROVE  IInv'
<1>1. /\ run' \in [Process -> Run] /\ run'[p] = r
      /\ \A q \in Process : q # p => run'[q] = run[q]
  BY RunChanges DEF IInv
<1>2. TypeOK' /\ (world \in Worlds)'
  BY <1>1 DEF IInv, TypeOK, Locked
<1>3. PlanInv'
  BY <1>1 DEF IInv, PlanInv, PlanOK
<1>4. TidInv'
  BY <1>1 DEF IInv, TidInv, TidOK
<1>5. BegunInv' /\ AppliesInv'
  BY <1>1 DEF IInv, BegunInv, AppliesInv
<1>6. DoneUnlessProblems' /\ AccountInv'
  BY DEF IInv, DoneUnlessProblems, DoneMeansDone, AccountInv
<1>7. LastInv'
  BY <1>1 DEF IInv, LastInv, Undisturbed, LastEnd
<1> QED BY <1>2, <1>3, <1>4, <1>5, <1>6, <1>7 DEF IInv

\* SwdbInterface.beg: a process opens a transaction, with packages or without.
LEMMA OpenInv ==
  ASSUME IInv, NEW p \in Process, NEW begin \in Nat, NEW r \in Run,
         run' = [run EXCEPT ![p] = r], history' = Opened(begin, Items(run[p].plan)),
         UNCHANGED <<world, installed, version, outside, modules, lock>>,
         r.plan = run[p].plan, r.left = run[p].left, r.failed = run[p].failed,
         run[p].tid = 0, r.tid = Len(history) + 1,
         \/ run[p].pc = "beg" /\ r.pc = "rpm" /\ r.last = version
         \/ run[p].pc = "emptybeg" /\ r.pc = "emptyend" /\ r.last = run[p].last
  PROVE  IInv'
<1> DEFINE new == Len(history) + 1
           items == Items(run[p].plan)
<1>1. /\ run' \in [Process -> Run] /\ run'[p] = r
      /\ \A q \in Process : q # p => run'[q] = run[q]
  BY RunChanges DEF IInv
<1>2. items \in SUBSET Package
  BY DEF Items
<1>3. /\ history' \in Seq(Transaction) /\ Len(history') = new
      /\ \A i \in 1..Len(history) : history'[i] = history[i]
      /\ history'[new] =
           [begin |-> begin, end |-> NoCookie, state |-> "open", items |-> items, done |-> {}]
  BY <1>2, HistoryOpens DEF IInv
<1>4. /\ history'[new].state = "open" /\ history'[new].end = NoCookie
      /\ history'[new].items = items /\ history'[new].done = {}
  BY <1>3
<1>5. Len(history) \in Nat /\ 1..Len(history') = 1..Len(history) \cup {new}
  BY <1>3 DEF IInv, TypeOK
<1>6. run[p].left = items /\ run[p].failed = {}
  BY DEF IInv, PlanInv, PlanOK
<1> HIDE DEF items
<1>7. TypeOK' /\ (world \in Worlds)'
  BY <1>1, <1>3 DEF IInv, TypeOK
<1>8. PlanInv'
  BY <1>1 DEF IInv, PlanInv, PlanOK, Empty, Locked
<1>9. TidInv'
  <2>1. TidOK(p)'
    BY <1>1, <1>3, <1>4, <1>5, <1>6 DEF IInv, TidInv, TidOK, items
  <2>2. ASSUME NEW q \in Process, q # p PROVE TidOK(q)'
    BY <1>1, <1>3, <1>5, <2>2 DEF IInv, TidInv, TidOK
  <2> QED BY <2>1, <2>2 DEF TidInv
<1>10. BegunInv' /\ AppliesInv'
  BY <1>1 DEF IInv, BegunInv, AppliesInv
<1>11. DoneUnlessProblems'
  BY <1>3, <1>4, <1>5 DEF IInv, DoneUnlessProblems, DoneMeansDone
<1>12. AccountInv'
  BY <1>3, <1>5 DEF IInv, AccountInv
<1>13. LastInv'
  <2>1. ASSUME NEW q \in Process, q # p, Undisturbed PROVE run[q].tid = 0
    BY <2>1 DEF IInv, PlanInv, PlanOK, TidInv, TidOK, Undisturbed
  <2> QED BY <1>1, <1>3, <2>1 DEF IInv, LastInv, Undisturbed
<1> QED BY <1>7, <1>8, <1>9, <1>10, <1>11, <1>12, <1>13 DEF IInv

\* SwdbInterface.end: a process closes its transaction and is done.
LEMMA CloseInv ==
  ASSUME IInv, NEW p \in Process, NEW end \in Nat, run[p].tid # 0,
         run' = [run EXCEPT ![p] = Off], history' = Closed(p, end),
         UNCHANGED <<world, installed, version, modules>>,
         outside' \in BOOLEAN, lock' \in Process \cup {Nobody},
         \A q \in Process : lock' = q <=> run'[q].pc \in Locked,
         "problems" \notin world.features /\ run[p].failed = {} => run[p].left = {},
         end = version \/ (outside' = outside /\ run[p].pc = "emptyend"),
         Undisturbed /\ ~outside' => end = version
  PROVE  IInv'
<1> DEFINE i == run[p].tid
<1>1. /\ run' \in [Process -> Run] /\ run'[p] = Off
      /\ \A q \in Process : q # p => run'[q] = run[q]
  BY OffIsRun, RunChanges DEF IInv
<1>2. /\ i \in 1..Len(history) /\ history[i].state = "open" /\ history[i].end = NoCookie
      /\ history[i].items = Items(run[p].plan)
      /\ history[i].done = Items(run[p].plan) \ (run[p].left \cup run[p].failed)
      /\ \A q \in Process : run[q].tid = i => q = p
  BY DEF IInv, TidInv, TidOK
<1>3. /\ history' \in Seq(Transaction) /\ Len(history') = Len(history)
      /\ \A j \in 1..Len(history) : j # i => history'[j] = history[j]
      /\ history'[i].end = end
      /\ history'[i].state = IF run[p].failed = {} THEN "done" ELSE "error"
      /\ history'[i].items = history[i].items /\ history'[i].done = history[i].done
  BY <1>2, HistoryCloses DEF IInv
<1> HIDE DEF i
<1>4. TypeOK' /\ (world \in Worlds)'
  BY <1>1, <1>3 DEF IInv, TypeOK, Locked
<1>5. PlanInv'
  <2>1. PlanOK(p)'
    BY <1>1, OffIsRun DEF PlanOK, Empty, Locked
  <2>2. ASSUME NEW q \in Process, q # p PROVE PlanOK(q)'
    BY <1>1, <2>2 DEF IInv, PlanInv, PlanOK
  <2> QED BY <2>1, <2>2 DEF PlanInv
<1>6. TidInv'
  <2>1. TidOK(p)'
    BY <1>1 DEF TidOK, Off
  <2>2. ASSUME NEW q \in Process, q # p PROVE TidOK(q)'
    <3>1. run'[q] = run[q] /\ run[q].tid # i
      BY <1>1, <1>2, <2>2
    <3>2. run[q].tid \in 1..Len(history) => history'[run[q].tid] = history[run[q].tid]
      BY <1>3, <3>1
    <3>3. run'[p].tid = 0
      BY <1>1, OffIsRun
    <3> QED BY <1>1, <1>3, <3>1, <3>2, <3>3 DEF IInv, TidInv, TidOK
  <2> QED BY <2>1, <2>2 DEF TidInv
<1>7. BegunInv' /\ AppliesInv'
  BY <1>1 DEF IInv, BegunInv, AppliesInv, Off
<1>8. DoneUnlessProblems'
  <2> SUFFICES ASSUME "problems" \notin world.features, NEW j \in 1..Len(history),
                      history'[j].state = "done"
               PROVE  history'[j].done = history'[j].items
    BY <1>3 DEF DoneUnlessProblems, DoneMeansDone
  <2>1. CASE j = i
    <3>1. run[p].failed = {} /\ run[p].left = {}
      BY <1>3, <2>1
    <3> QED BY <1>2, <1>3, <2>1, <3>1
  <2>2. CASE j # i
    BY <1>3, <2>2 DEF IInv, DoneUnlessProblems, DoneMeansDone
  <2> QED BY <2>1, <2>2
<1>9. AccountInv'
  <2>1. CASE end = version
    BY <1>2, <1>3, <2>1 DEF AccountInv
  <2>2. CASE outside' = outside /\ run[p].pc = "emptyend"
    <3>1. Items(run[p].plan) = {} /\ version # NoCookie
      BY <2>2 DEF IInv, PlanInv, PlanOK, Empty, TypeOK, NoCookie
    <3> QED BY <1>2, <1>3, <2>2, <3>1 DEF IInv, AccountInv
  <2> QED BY <2>1, <2>2
<1>10. LastInv'
  <2>1. ASSUME Undisturbed, NEW q \in Process, q # p PROVE run[q].tid = 0 /\ run[q].pc = "off"
    BY <2>1 DEF IInv, PlanInv, PlanOK, TidInv, TidOK, Undisturbed
  <2>2. Undisturbed => i = Len(history)
    BY DEF IInv, LastInv, i
  <2> QED BY <1>1, <1>3, <2>1, <2>2 DEF Undisturbed, LastInv, LastEnd, Off
<1> QED BY <1>4, <1>5, <1>6, <1>7, <1>8, <1>9, <1>10 DEF IInv

------------------------------------------------------------------------------
(* Invariance.                                                             *)

\* The system starts with a history that is empty and no process at work.
LEMMA InitInv == Init => IInv
<1> SUFFICES ASSUME Init PROVE IInv
  OBVIOUS
<1>1. /\ run \in [Process -> Run]
      /\ \A p \in Process : run[p] = Off
  BY OffIsRun DEF Init
<1>2. world \in Worlds /\ world \in World
  BY TransactionAssumption DEF Init
<1>3. history \in Seq(Transaction) /\ Len(history) = 0
  BY DEF Init
<1>4. TypeOK
  <2>1. /\ version \in Nat \ {0}
        /\ outside \in BOOLEAN
        /\ installed \subseteq world.packages
    <3>1. version \in Nat \ {0}
      BY DEF Init
    <3>2. outside \in BOOLEAN
      BY DEF Init
    <3>3. installed \subseteq world.packages
      BY DEF Init
    <3> QED BY <3>1, <3>2, <3>3
  <2>2. modules \in Process \cup {Nobody} /\ lock \in Process \cup {Nobody}
    BY DEF Init
  <2>3. \A p \in Process : lock = p <=> run[p].pc \in {"check", "save", "beg", "rpm"}
    BY <1>1, OffIsRun, TransactionAssumption DEF Init
  <2> QED BY <1>1, <1>2, <1>3, <2>1, <2>2, <2>3 DEF TypeOK
<1>5. PlanInv
  BY <1>1, OffIsRun DEF PlanInv, PlanOK, Empty, Locked
<1>6. TidInv
  BY <1>1, OffIsRun DEF TidInv, TidOK
<1>7. BegunInv /\ AppliesInv
  BY <1>1, OffIsRun DEF BegunInv, AppliesInv
<1>8. DoneUnlessProblems /\ AccountInv
  BY <1>3 DEF Init, DoneUnlessProblems, DoneMeansDone, AccountInv
<1>9. LastInv
  BY <1>1, OffIsRun DEF Init, LastInv
<1> QED BY <1>2, <1>4, <1>5, <1>6, <1>7, <1>8, <1>9 DEF IInv

\* A process of which one thing changes, or rpm has come to an element.
LEMMA RunGoes ==
  ASSUME TypeOK, NEW p \in Process
  PROVE  /\ \A pc \in {"off", "empty", "emptybeg", "emptyend", "locking", "check", "save",
                       "beg", "rpm"} :
              [run[p] EXCEPT !.pc = pc] \in Run
         /\ \A k \in Package : [run[p] EXCEPT !.left = @ \ {k}] \in Run
         /\ \A k \in Package :
              [run[p] EXCEPT !.left = @ \ {k}, !.failed = @ \cup {k}] \in Run
<1>1. run[p] \in Run
  BY DEF TypeOK
<1> QED BY <1>1 DEF Run

\* A process that opens a transaction.
LEMMA RunOpens ==
  ASSUME TypeOK, NEW p \in Process, NEW tid \in Nat, NEW blames \in BOOLEAN
  PROVE  /\ [run[p] EXCEPT !.pc = "emptyend", !.tid = tid] \in Run
         /\ [run[p] EXCEPT !.pc = "rpm", !.tid = tid, !.last = version, !.blames = blames] \in Run
         /\ [run[p] EXCEPT !.pc = "emptybeg", !.last = version] \in Run
         /\ \A n \in Nat : [run[p] EXCEPT !.pc = "emptybeg", !.last = n] \in Run
<1>1. run[p] \in Run /\ version \in Nat
  BY DEF TypeOK
<1> QED BY <1>1 DEF Run

\* A process is done, or dead, without a word in the history.
LEMMA LeaveInv ==
  ASSUME IInv, NEW p \in Process, run' = [run EXCEPT ![p] = Off],
         lock' = IF lock = p THEN Nobody ELSE lock,
         UNCHANGED <<world, installed, version, outside, history>>,
         modules' \in Process \cup {Nobody},
         run[p].tid = 0 \/ ~Undisturbed
  PROVE  IInv'
<1>1. /\ run'[p] = Off
      /\ \A q \in Process : q # p => run'[q] = run[q]
  BY OffIsRun, RunChanges DEF IInv
<1>2. lock' \in Process \cup {Nobody}
  BY DEF IInv, TypeOK
<1>3. \A q \in Process : lock' = q <=> run'[q].pc \in Locked
  BY <1>1, OffIsRun, TransactionAssumption DEF IInv, TypeOK, Locked
<1>4. PlanOK(p)'
  BY <1>1, OffIsRun DEF PlanOK, Empty, Locked
<1> QED BY <1>2, <1>3, <1>4, OffIsRun, QuietInv

\* A process goes on in its own state only, inside the lock or before it.
LEMMA GoInv ==
  ASSUME IInv, NEW p \in Process, NEW pc \in {"check", "save", "beg", "rpm"},
         run' = [run EXCEPT ![p].pc = pc], run[p].pc \in {"locking"} \cup Locked,
         lock' = p, lock \in {p, Nobody},
         UNCHANGED <<world, installed, version, outside, history>>,
         modules' \in Process \cup {Nobody}, run[p].pc # "rpm", run[p].tid = 0,
         \/ pc = "check"
         \/ Applies(run[p].plan)
         \/ run[p].pc \in {"save", "beg"}
  PROVE  IInv'
<1> DEFINE r == [run[p] EXCEPT !.pc = pc]
<1>1. r \in Run
  BY RunGoes DEF IInv
<1>2. /\ r.pc = pc /\ r.plan = run[p].plan /\ r.left = run[p].left /\ r.tid = 0
      /\ r.failed = run[p].failed
  BY DEF IInv, TypeOK, Run
<1>3. run' = [run EXCEPT ![p] = r]
  BY DEF IInv, TypeOK
<1> HIDE DEF r
<1>4. /\ run'[p] = r
      /\ \A q \in Process : q # p => run'[q] = run[q]
  BY <1>1, <1>3, RunChanges DEF IInv
<1>5. \A q \in Process : lock' = q <=> run'[q].pc \in Locked
  BY <1>2, <1>4, TransactionAssumption DEF IInv, TypeOK, Locked
<1>6. PlanOK(p)'
  BY <1>2, <1>4 DEF IInv, PlanInv, PlanOK, Empty, Locked
<1>7. "outside" \notin world.features /\ r.pc \in {"save", "beg", "rpm"} =>
        \A k \in r.left : k \in installed <=> r.plan[k] = "erase"
  <2>1. CASE pc = "check"
    BY <1>2, <2>1
  <2>2. CASE Applies(run[p].plan)
    <3>1. run[p].left = Items(run[p].plan) /\ run[p].plan \in Plans
      BY DEF IInv, PlanInv, PlanOK, TypeOK, Run
    <3> QED BY <1>2, <2>2, <3>1 DEF Applies, Items, Plans
  <2>3. CASE run[p].pc \in {"save", "beg"}
    BY <1>2, <2>3 DEF IInv, AppliesInv
  <2> QED BY <2>1, <2>2, <2>3
<1> QED BY <1>1, <1>2, <1>3, <1>5, <1>6, <1>7, QuietInv

\* A process that is not running rpm, or recording an empty transaction, has no
\* transaction open; one that is past TakeLock has the lock.
LEMMA Standing ==
  ASSUME IInv, NEW p \in Process
  PROVE  /\ run[p].pc \notin {"rpm", "emptyend"} => run[p].tid = 0
         /\ run[p].pc \in Locked <=> lock = p
         /\ run[p].plan \in Plans /\ run[p].record \in BOOLEAN /\ run[p].last \in Nat
         /\ version \in Nat
BY DEF IInv, TidInv, TidOK, TypeOK, Locked, Run

\* Base.resolve makes a plan that applies to what is installed at that time.
LEMMA ResolveInv == ASSUME IInv, NEW p \in Process, Resolve(p) PROVE IInv'
<1>1. PICK plan \in Plans, test, record, module, group \in BOOLEAN :
        /\ Applies(plan) /\ Items(plan) \subseteq world.packages
        /\ Items(plan) # {} \/ module \/ group
        /\ test => "test" \in world.features
        /\ ~record => "norecord" \in world.features
        /\ run' = [run EXCEPT ![p] =
             [Off EXCEPT !.pc = IF Items(plan) = {} THEN "empty" ELSE "locking",
                         !.test = test, !.record = record, !.module = module,
                         !.group = group, !.plan = plan, !.left = Items(plan)]]
  BY Zenon DEF Resolve
<1> DEFINE pc == IF Items(plan) = {} THEN "empty" ELSE "locking"
           r == [Off EXCEPT !.pc = pc, !.test = test, !.record = record, !.module = module,
                            !.group = group, !.plan = plan, !.left = Items(plan)]
<1>2. pc \in {"empty", "locking"} /\ (pc = "empty" <=> Items(plan) = {})
  OBVIOUS
<1>3. run' = [run EXCEPT ![p] = r]
  BY <1>1
<1>4. Items(plan) \in SUBSET Package
  BY DEF Items
<1> HIDE DEF pc
<1>5. r \in Run
  BY <1>2, <1>4, OffIsRun DEF Run
<1>6. /\ r.pc = pc /\ r.plan = plan /\ r.left = Items(plan) /\ r.failed = {} /\ r.tid = 0
  BY DEF Off
<1> HIDE DEF r
<1>7. /\ run'[p] = r
      /\ \A q \in Process : q # p => run'[q] = run[q]
  BY <1>3, <1>5, RunChanges DEF IInv
<1>8. UNCHANGED <<world, installed, version, outside, history, modules, lock>>
  BY DEF Resolve
<1>9. p \in world.processes /\ run[p].pc = "off" /\ run[p].tid = 0 /\ lock # p
  BY Standing DEF Resolve, Locked
<1>10. \A q \in Process : lock' = q <=> run'[q].pc \in Locked
  BY <1>2, <1>6, <1>7, <1>8, <1>9 DEF IInv, TypeOK, Locked
<1>11. PlanOK(p)'
  BY <1>1, <1>2, <1>6, <1>7, <1>8, <1>9 DEF PlanOK, Empty, Locked
<1>12. modules' \in Process \cup {Nobody} /\ lock' \in Process \cup {Nobody}
  BY <1>8 DEF IInv, TypeOK
<1> QED BY <1>2, <1>3, <1>5, <1>6, <1>8, <1>9, <1>10, <1>11, <1>12, QuietInv

\* The cookie the history ends with is a number, 0 where there is none.
LEMMA LastEndIsNat == ASSUME TypeOK PROVE LastEnd \in Nat
<1>1. CASE history = <<>>
  BY <1>1 DEF LastEnd, NoCookie
<1>2. CASE history # <<>>
  <2>1. history \in Seq(Transaction)
    BY DEF TypeOK
  <2>2. history[Len(history)] \in Transaction
    BY <1>2, <2>1
  <2>3. history[Len(history)].end \in Nat
    BY <2>2 DEF Transaction
  <2> QED BY <1>2, <2>3 DEF LastEnd
<1> QED BY <1>1, <1>2

\* The transaction a process opens is the last one.
LEMMA OpensLast ==
  ASSUME TypeOK, NEW p \in Process, NEW begin \in Nat,
         history' = Opened(begin, Items(run[p].plan))
  PROVE  Len(history') = Len(history) + 1 /\ Len(history) + 1 \in Nat
<1>1. Items(run[p].plan) \in SUBSET Package
  BY DEF Items
<1>2. Len(Opened(begin, Items(run[p].plan))) = Len(history) + 1
  BY <1>1, HistoryOpens
<1>3. Len(history) \in Nat
  BY DEF TypeOK
<1> QED BY <1>2, <1>3

\* Where the lock is after a process has left.
LEMMA LeaveLock ==
  ASSUME IInv, NEW p \in Process, run[p].pc \in Locked, Leave(p)
  PROVE  /\ run' = [run EXCEPT ![p] = Off] /\ lock' = Nobody
         /\ lock' = IF lock = p THEN Nobody ELSE lock
         /\ lock' \in Process \cup {Nobody}
         /\ \A q \in Process : lock' = q <=> run'[q].pc \in Locked
<1>1. /\ run' = [run EXCEPT ![p] = Off] /\ lock' = Nobody /\ lock = p
  BY Standing DEF Leave
<1>2. /\ run'[p] = Off
      /\ \A q \in Process : q # p => run'[q] = run[q]
  BY <1>1, OffIsRun, RunChanges DEF IInv
<1>3. \A q \in Process : run'[q].pc \notin Locked
  BY <1>1, <1>2, OffIsRun, Standing DEF Locked
<1> QED BY <1>1, <1>3, TransactionAssumption

\* A transaction without packages goes its way without the lock.
LEMMA EmptyStoresInv == ASSUME IInv, NEW p \in Process, EmptyStores(p) PROVE IInv'
<1>1. /\ run[p].pc = "empty" /\ run[p].tid = 0 /\ lock # p /\ lock' = lock
      /\ UNCHANGED <<world, installed, version, outside, history>>
      /\ modules' \in Process \cup {Nobody}
  BY Standing DEF EmptyStores, Locked, IInv, TypeOK
<1>2. CASE ~run[p].group
  <2>1. run' = [run EXCEPT ![p] = Off]
    BY <1>2 DEF EmptyStores
  <2> QED BY <1>1, <2>1, LeaveInv
<1>3. CASE run[p].group
  <2> DEFINE last == IF history = <<>> THEN version ELSE LastEnd
             r == [run[p] EXCEPT !.pc = "emptybeg", !.last = last]
  <2>1. run' = [run EXCEPT ![p] = r]
    BY <1>3 DEF EmptyStores
  <2>2. last \in Nat
    BY LastEndIsNat DEF IInv, TypeOK
  <2>3. Undisturbed /\ ~outside => last = version
    <3> SUFFICES ASSUME Undisturbed, ~outside PROVE last = version
      OBVIOUS
    <3>1. \A q \in Process : run[q].tid = 0
      BY <1>1 DEF IInv, PlanInv, PlanOK, TidInv, TidOK, Undisturbed
    <3> QED BY <3>1 DEF IInv, LastInv
  <2> HIDE DEF last
  <2>4. r \in Run
    BY <2>2, RunOpens DEF IInv
  <2>5. /\ r.pc = "emptybeg" /\ r.last = last /\ r.tid = 0
        /\ r.plan = run[p].plan /\ r.left = run[p].left /\ r.failed = run[p].failed
    BY <1>1 DEF IInv, TypeOK, Run
  <2> HIDE DEF r
  <2>6. /\ run'[p] = r
        /\ \A q \in Process : q # p => run'[q] = run[q]
    BY <2>1, <2>4, RunChanges DEF IInv
  <2>7. \A q \in Process : lock' = q <=> run'[q].pc \in Locked
    BY <1>1, <2>5, <2>6 DEF IInv, TypeOK, Locked
  <2>8. PlanOK(p)'
    BY <1>1, <2>5, <2>6 DEF IInv, PlanInv, PlanOK, Empty, Locked
  <2>9. lock' \in Process \cup {Nobody}
    BY <1>1 DEF IInv, TypeOK
  <2> QED BY <1>1, <2>1, <2>3, <2>4, <2>5, <2>7, <2>8, <2>9, QuietInv
<1> QED BY <1>2, <1>3

\* It is put on record with the cookie it has read ...
LEMMA EmptyBegInv == ASSUME IInv, NEW p \in Process, EmptyBeg(p) PROVE IInv'
<1> DEFINE tid == Len(history) + 1
           r == [run[p] EXCEPT !.pc = "emptyend", !.tid = tid]
<1>1. /\ run[p].pc = "emptybeg" /\ run[p].tid = 0 /\ run[p].last \in Nat
      /\ Items(run[p].plan) = {}
      /\ UNCHANGED <<world, installed, version, outside, modules, lock>>
      /\ history' = Opened(run[p].last, Items(run[p].plan))
  BY Standing DEF EmptyBeg, IInv, PlanInv, PlanOK, Empty
<1>2. Len(history') = tid /\ tid \in Nat
  BY <1>1, OpensLast DEF IInv
<1>3. run' = [run EXCEPT ![p] = r]
  BY <1>2 DEF EmptyBeg, IInv, TypeOK
<1> HIDE DEF tid
<1>4. r \in Run
  BY <1>2, RunOpens DEF IInv
<1>5. /\ r.pc = "emptyend" /\ r.last = run[p].last /\ r.tid = tid
      /\ r.plan = run[p].plan /\ r.left = run[p].left /\ r.failed = run[p].failed
  BY DEF IInv, TypeOK, Run
<1> HIDE DEF r
<1> QED BY <1>1, <1>3, <1>4, <1>5, OpenInv DEF tid

\* ... and ended with the same.
LEMMA EmptyEndInv == ASSUME IInv, NEW p \in Process, EmptyEnd(p) PROVE IInv'
<1>1. /\ run[p].pc = "emptyend" /\ run[p].tid # 0 /\ run[p].last \in Nat
      /\ run[p].left = {} /\ lock # p
  BY Standing DEF EmptyEnd, IInv, PlanInv, PlanOK, TidInv, TidOK, Empty, Locked
<1>2. /\ run' = [run EXCEPT ![p] = Off] /\ history' = Closed(p, run[p].last)
      /\ UNCHANGED <<world, installed, version, outside, modules, lock>>
  BY DEF EmptyEnd
<1>3. /\ run'[p] = Off
      /\ \A q \in Process : q # p => run'[q] = run[q]
  BY <1>2, OffIsRun, RunChanges DEF IInv
<1>4. \A q \in Process : lock' = q <=> run'[q].pc \in Locked
  BY <1>1, <1>2, <1>3, OffIsRun DEF IInv, TypeOK, Locked
<1>5. Undisturbed /\ ~outside => run[p].last = version
  BY <1>1 DEF IInv, LastInv
<1> QED BY <1>1, <1>2, <1>4, <1>5, CloseInv DEF IInv, TypeOK

\* Whoever gets the lock of the rpm database is the only one in it.
LEMMA TakeLockInv == ASSUME IInv, NEW p \in Process, TakeLock(p) PROVE IInv'
<1>1. run[p].tid = 0 /\ modules' \in Process \cup {Nobody}
  BY Standing DEF TakeLock, IInv, TypeOK
<1> QED BY <1>1, GoInv DEF TakeLock

\* rpm checks the plan against what is installed now.
LEMMA CheckInv == ASSUME IInv, NEW p \in Process, Check(p) PROVE IInv'
<1>1. /\ run[p].tid = 0 /\ run[p].pc = "check" /\ run[p].pc \in Locked /\ lock = p
      /\ modules' \in Process \cup {Nobody} /\ Applies(run[p].plan)
      /\ UNCHANGED <<world, installed, version, outside, history, modules>>
  BY Standing DEF Check, Locked, IInv, TypeOK
<1>2. CASE run[p].test
  BY <1>1, <1>2, LeaveLock, LeaveInv DEF Check
<1>3. CASE ~run[p].test
  <2>1. run' = [run EXCEPT ![p].pc = "save"] /\ lock' = lock
    BY <1>3 DEF Check
  <2> QED BY <1>1, <2>1, GoInv
<1> QED BY <1>2, <1>3

\* A transaction that fails the check or the test gives the lock back.
LEMMA CheckFailsInv == ASSUME IInv, NEW p \in Process, CheckFails(p) PROVE IInv'
<1>1. run[p].tid = 0 /\ run[p].pc \in Locked /\ modules' \in Process \cup {Nobody}
  BY Standing DEF CheckFails, Locked, IInv, TypeOK
<1> QED BY <1>1, LeaveLock, LeaveInv DEF CheckFails

\* Storing module states touches neither packages nor history.
LEMMA StoreModulesInv == ASSUME IInv, NEW p \in Process, StoreModules(p) PROVE IInv'
<1>1. /\ run[p].tid = 0 /\ run[p].pc \in Locked /\ lock = p
      /\ modules' \in Process \cup {Nobody}
  BY Standing DEF StoreModules, Locked, IInv, TypeOK
<1> QED BY <1>1, GoInv DEF StoreModules

\* _run_transaction compares the cookie and opens a transaction of its own.
LEMMA HistoryBegInv == ASSUME IInv, NEW p \in Process, HistoryBeg(p) PROVE IInv'
<1>1. /\ run[p].tid = 0 /\ run[p].pc = "beg" /\ run[p].pc \in Locked /\ lock = p
      /\ version \in Nat /\ modules' \in Process \cup {Nobody}
      /\ UNCHANGED <<world, installed, version, outside, modules, lock>>
  BY Standing DEF HistoryBeg, Locked, IInv, TypeOK
<1>2. CASE ~run[p].record
  <2>1. run' = [run EXCEPT ![p].pc = "rpm"] /\ history' = history
    BY <1>2 DEF HistoryBeg
  <2> QED BY <1>1, <2>1, GoInv
<1>3. CASE run[p].record
  <2> DEFINE tid == Len(history) + 1
             blames == history = <<>> \/ LastEnd # version
             r == [run[p] EXCEPT !.pc = "rpm", !.tid = tid, !.last = version, !.blames = blames]
  <2>1. history' = Opened(version, Items(run[p].plan))
    BY <1>3 DEF HistoryBeg
  <2>2. Len(history') = tid /\ tid \in Nat
    BY <1>1, <2>1, OpensLast DEF IInv
  <2>3. blames \in BOOLEAN
    OBVIOUS
  <2>4. run' = [run EXCEPT ![p].pc = "rpm", ![p].tid = tid, ![p].last = version,
                           ![p].blames = blames]
    BY <1>3, <2>2 DEF HistoryBeg
  <2> HIDE DEF tid, blames
  <2>5. run' = [run EXCEPT ![p] = r]
    BY <2>4 DEF IInv, TypeOK
  <2>6. r \in Run
    BY <2>2, <2>3, RunOpens DEF IInv
  <2>7. /\ r.pc = "rpm" /\ r.last = version /\ r.tid = tid
        /\ r.plan = run[p].plan /\ r.left = run[p].left /\ r.failed = run[p].failed
    BY DEF IInv, TypeOK, Run
  <2> HIDE DEF r
  <2> QED BY <1>1, <2>1, <2>5, <2>6, <2>7, OpenInv DEF tid
<1> QED BY <1>2, <1>3

\* rpm refuses with problems: nothing was done, and the transaction is ended as done.
LEMMA RpmProblemsInv == ASSUME IInv, NEW p \in Process, RpmProblems(p) PROVE IInv'
<1>1. /\ run[p].pc = "rpm" /\ run[p].pc \in Locked /\ "problems" \in world.features
      /\ run[p].left = Items(run[p].plan) /\ Leave(p) /\ version \in Nat
      /\ UNCHANGED <<world, installed, version, outside, modules>>
      /\ modules' \in Process \cup {Nobody} /\ outside' \in BOOLEAN
  BY Standing DEF RpmProblems, Locked, IInv, TypeOK
<1>2. CASE run[p].tid = 0
  BY <1>1, <1>2, LeaveLock, LeaveInv DEF RpmProblems
<1>3. CASE run[p].tid # 0
  <2>1. run[p].last = version /\ history' = Closed(p, run[p].last)
    BY <1>1, <1>3 DEF RpmProblems, IInv, BegunInv
  <2> QED BY <1>1, <1>3, <2>1, LeaveLock, CloseInv
<1> QED BY <1>2, <1>3

\* rpm refuses without one: the transaction stays open.
LEMMA RpmGlobalErrorInv == ASSUME IInv, NEW p \in Process, RpmGlobalError(p) PROVE IInv'
<1>1. run[p].pc \in Locked /\ modules' \in Process \cup {Nobody} /\ ~Undisturbed
  BY DEF RpmGlobalError, Locked, IInv, TypeOK, Undisturbed
<1> QED BY <1>1, LeaveLock, LeaveInv DEF RpmGlobalError

\* The last element is done: the transaction ends with the cookie there is now.
LEMMA HistoryEndInv == ASSUME IInv, NEW p \in Process, HistoryEnd(p) PROVE IInv'
<1>1. /\ run[p].pc = "rpm" /\ run[p].pc \in Locked /\ run[p].left = {}
      /\ Leave(p) /\ version \in Nat
      /\ UNCHANGED <<world, installed, version, modules>>
      /\ modules' \in Process \cup {Nobody} /\ outside' \in BOOLEAN
  BY Standing DEF HistoryEnd, Locked, IInv, TypeOK
<1>2. CASE run[p].tid = 0
  BY <1>1, <1>2, LeaveLock, LeaveInv DEF HistoryEnd, IInv, TypeOK
<1>3. CASE run[p].tid # 0
  <2>1. history' = Closed(p, version)
    BY <1>3 DEF HistoryEnd
  <2> QED BY <1>1, <1>3, <2>1, LeaveLock, CloseInv
<1> QED BY <1>2, <1>3

\* A process that is killed leaves its transaction open.
LEMMA CrashInv == ASSUME IInv, NEW p \in Process, Crash(p) PROVE IInv'
<1>1. modules' \in Process \cup {Nobody} /\ ~Undisturbed
  BY DEF Crash, IInv, TypeOK, Undisturbed
<1> QED BY <1>1, LeaveInv DEF Crash

\* rpm is used without dnf only while no process is inside ts.run.
LEMMA OutsideInv == ASSUME IInv, Outside PROVE IInv'
<1>1. /\ UNCHANGED <<world, history, modules, lock, run>> /\ outside'
      /\ version' = version + 1 /\ "outside" \in world.features
      /\ \A p \in Process : run[p].pc # "rpm"
      /\ installed' \subseteq world.packages
      /\ outside' = TRUE
  BY DEF Outside, IInv, TypeOK
<1>2. TypeOK' /\ (world \in Worlds)'
  BY <1>1 DEF IInv, TypeOK
<1>3. PlanInv' /\ TidInv'
  BY <1>1 DEF IInv, PlanInv, PlanOK, TidInv, TidOK
<1>4. BegunInv' /\ AppliesInv'
  BY <1>1 DEF BegunInv, AppliesInv
<1>5. DoneUnlessProblems' /\ AccountInv'
  BY <1>1 DEF IInv, DoneUnlessProblems, DoneMeansDone, AccountInv
<1>6. LastInv'
  BY <1>1 DEF IInv, LastInv, Undisturbed
<1> QED BY <1>2, <1>3, <1>4, <1>5, <1>6 DEF IInv

\* rpm carries out one element: it is no longer left, and is done in the transaction.
LEMMA ElementDone ==
  ASSUME IInv, NEW p \in Process, run[p].pc = "rpm", NEW k \in run[p].left,
         installed' = IF run[p].plan[k] = "install" THEN installed \cup {k}
                      ELSE installed \ {k},
         version' = version + 1, run' = [run EXCEPT ![p].left = @ \ {k}],
         history' = IF run[p].tid = 0 THEN history
                    ELSE [history EXCEPT ![run[p].tid].done = @ \cup {k}],
         outside' = (outside \/ run[p].tid = 0), UNCHANGED <<world, modules, lock>>
  PROVE  IInv'
<1> DEFINE r == [run[p] EXCEPT !.left = @ \ {k}]
           i == run[p].tid
           items == Items(run[p].plan)
<1>1. k \in items /\ items \subseteq Package /\ items \subseteq world.packages
  BY DEF IInv, PlanInv, PlanOK, Items
<1>2. r \in Run
  BY <1>1, RunGoes DEF IInv
<1>3. run' = [run EXCEPT ![p] = r]
  BY DEF IInv, TypeOK
<1>4. /\ r.pc = "rpm" /\ r.last = run[p].last /\ r.tid = i /\ r.plan = run[p].plan
      /\ r.left = run[p].left \ {k} /\ r.failed = run[p].failed
  BY DEF IInv, TypeOK, Run
<1> HIDE DEF r
<1>5. /\ run' \in [Process -> Run] /\ run'[p] = r
      /\ \A q \in Process : q # p => run'[q] = run[q]
  BY <1>2, <1>3, RunChanges DEF IInv
<1>6. ASSUME NEW q \in Process, q # p PROVE run[q].pc \notin Locked
  BY <1>6, TransactionAssumption DEF IInv, TypeOK, Locked
<1>7. /\ history' \in Seq(Transaction) /\ Len(history') = Len(history)
      /\ \A j \in 1..Len(history) : j # i => history'[j] = history[j]
      /\ i # 0 => /\ i \in 1..Len(history)
                  /\ history'[i].state = "open" /\ history'[i].end = NoCookie
                  /\ history'[i].items = items
                  /\ history'[i].done = items \ (r.left \cup r.failed)
  <2>1. CASE i = 0
    BY <2>1 DEF IInv, TypeOK
  <2>2. CASE i # 0
    <3> DEFINE t == [history[i] EXCEPT !.done = @ \cup {k}]
    <3>1. /\ i \in 1..Len(history) /\ history[i].state = "open" /\ history[i].end = NoCookie
          /\ history[i].items = items
          /\ history[i].done = items \ (run[p].left \cup run[p].failed)
      BY <2>2 DEF IInv, TidInv, TidOK
    <3>2. history \in Seq(Transaction) /\ history[i] \in Transaction
      BY <3>1 DEF IInv, TypeOK
    <3>3. history' = [history EXCEPT ![i] = t]
      BY <2>2, <3>1, <3>2
    <3> HIDE DEF i
    <3>4. /\ t \in Transaction /\ t.state = history[i].state /\ t.end = history[i].end
          /\ t.items = history[i].items /\ t.done = history[i].done \cup {k}
      BY <1>1, <3>2 DEF Transaction
    <3> HIDE DEF t
    <3>5. /\ history' \in Seq(Transaction) /\ Len(history') = Len(history) /\ history'[i] = t
          /\ \A j \in 1..Len(history) : j # i => history'[j] = history[j]
      BY <3>1, <3>3, <3>4, HistoryChanges DEF IInv
    <3>6. (items \ (run[p].left \cup run[p].failed)) \cup {k} = items \ (r.left \cup r.failed)
      BY <1>1, <1>4 DEF IInv, PlanInv, PlanOK
    <3> QED BY <3>1, <3>4, <3>5, <3>6
  <2> QED BY <2>1, <2>2
<1> HIDE DEF i, items
<1>8. TypeOK' /\ (world \in Worlds)'
  <2>1. installed' \subseteq world.packages /\ version' \in Nat \ {0} /\ outside' \in BOOLEAN
    <3>1. installed' \subseteq world.packages
      BY <1>1 DEF IInv, TypeOK
    <3>2. version' \in Nat \ {0}
      BY DEF IInv, TypeOK
    <3>3. outside' \in BOOLEAN
      BY DEF IInv, TypeOK
    <3> QED BY <3>1, <3>2, <3>3
  <2>2. \A q \in Process : lock' = q <=> run'[q].pc \in {"check", "save", "beg", "rpm"}
    BY <1>4, <1>5 DEF IInv, TypeOK
  <2> QED BY <1>5, <1>7, <2>1, <2>2 DEF IInv, TypeOK
<1>9. PlanInv'
  <2>1. PlanOK(p)'
    BY <1>1, <1>4, <1>5 DEF IInv, PlanInv, PlanOK, Empty, Locked
  <2>2. ASSUME NEW q \in Process, q # p PROVE PlanOK(q)'
    BY <1>5, <2>2 DEF IInv, PlanInv, PlanOK
  <2> QED BY <2>1, <2>2 DEF PlanInv
<1>10. TidInv'
  <2>1. TidOK(p)'
    BY <1>4, <1>5, <1>7 DEF IInv, TidInv, TidOK, i, items
  <2>2. ASSUME NEW q \in Process, q # p PROVE TidOK(q)'
    <3>1. run[q].tid = 0 \/ run[q].tid # i
      BY <2>2 DEF IInv, TidInv, TidOK, i
    <3> QED BY <1>4, <1>5, <1>7, <2>2, <3>1 DEF IInv, TidInv, TidOK
  <2> QED BY <2>1, <2>2 DEF TidInv
<1>11. BegunInv'
  BY <1>1, <1>4, <1>5, <1>6 DEF BegunInv, Locked, items
<1>12. AppliesInv'
  BY <1>4, <1>5, <1>6 DEF IInv, AppliesInv, Locked
<1>13. DoneUnlessProblems'
  <2> SUFFICES ASSUME "problems" \notin world.features, NEW j \in 1..Len(history),
                      history'[j].state = "done"
               PROVE  history'[j].done = history'[j].items
    BY <1>7 DEF DoneUnlessProblems, DoneMeansDone
  <2>1. j # i
    BY <1>7
  <2> QED BY <1>7, <2>1 DEF IInv, DoneUnlessProblems, DoneMeansDone
<1>14. AccountInv'
  <2>1. CASE i = 0
    BY <2>1 DEF AccountInv, i
  <2>2. CASE i # 0
    BY <1>1, <1>7, <2>2 DEF AccountInv
  <2> QED BY <2>1, <2>2
<1>15. LastInv'
  <2>1. ASSUME Undisturbed, NEW q \in Process, q # p PROVE run[q].pc = "off"
    BY <2>1 DEF IInv, PlanInv, PlanOK, Undisturbed
  <2> QED BY <1>4, <1>5, <1>7, <2>1 DEF IInv, LastInv, Undisturbed, i
<1> QED BY <1>8, <1>9, <1>10, <1>11, <1>12, <1>13, <1>14, <1>15 DEF IInv

\* rpm fails at one element: nothing is done to it.
LEMMA ElementFailed ==
  ASSUME IInv, NEW p \in Process, run[p].pc = "rpm", NEW k \in run[p].left,
         run' = [run EXCEPT ![p].left = @ \ {k}, ![p].failed = @ \cup {k}],
         UNCHANGED <<world, installed, version, outside, history, modules, lock>>
  PROVE  IInv'
<1> DEFINE r == [run[p] EXCEPT !.left = @ \ {k}, !.failed = @ \cup {k}]
<1>1. /\ k \in Items(run[p].plan) /\ k \in Package
  BY DEF IInv, PlanInv, PlanOK, Items
<1>2. r \in Run
  BY <1>1, RunGoes DEF IInv
<1>3. run' = [run EXCEPT ![p] = r]
  BY DEF IInv, TypeOK
<1>4. /\ r.pc = "rpm" /\ r.last = run[p].last /\ r.tid = run[p].tid /\ r.plan = run[p].plan
      /\ r.left = run[p].left \ {k} /\ r.failed = run[p].failed \cup {k}
  BY DEF IInv, TypeOK, Run
<1> HIDE DEF r
<1>5. /\ run' \in [Process -> Run] /\ run'[p] = r
      /\ \A q \in Process : q # p => run'[q] = run[q]
  BY <1>2, <1>3, RunChanges DEF IInv
<1>6. TypeOK' /\ (world \in Worlds)'
  BY <1>4, <1>5 DEF IInv, TypeOK
<1>7. PlanInv'
  <2>1. PlanOK(p)'
    BY <1>1, <1>4, <1>5 DEF IInv, PlanInv, PlanOK, Empty, Locked
  <2>2. ASSUME NEW q \in Process, q # p PROVE PlanOK(q)'
    BY <1>5, <2>2 DEF IInv, PlanInv, PlanOK
  <2> QED BY <2>1, <2>2 DEF PlanInv
<1>8. TidInv'
  <2>1. run[p].left \cup run[p].failed = r.left \cup r.failed
    BY <1>4
  <2>2. TidOK(p)'
    BY <1>4, <1>5, <2>1 DEF IInv, TidInv, TidOK
  <2>3. ASSUME NEW q \in Process, q # p PROVE TidOK(q)'
    BY <1>4, <1>5, <2>3 DEF IInv, TidInv, TidOK
  <2> QED BY <2>2, <2>3 DEF TidInv
<1>9. BegunInv' /\ AppliesInv'
  BY <1>1, <1>4, <1>5 DEF IInv, BegunInv, AppliesInv
<1>10. DoneUnlessProblems' /\ AccountInv'
  BY DEF IInv, DoneUnlessProblems, DoneMeansDone, AccountInv
<1>11. LastInv'
  BY <1>4, <1>5 DEF IInv, LastInv, Undisturbed, LastEnd
<1> QED BY <1>6, <1>7, <1>8, <1>9, <1>10, <1>11 DEF IInv

\* Every step, of any process or from outside, keeps the invariant.
LEMMA StepInv == IInv /\ [Next]_vars => IInv'
<1> SUFFICES ASSUME IInv, [Next]_vars PROVE IInv'
  OBVIOUS
<1>1. ASSUME NEW p \in Process, Resolve(p) PROVE IInv'
  BY <1>1, ResolveInv
<1>2. ASSUME NEW p \in Process, EmptyStores(p) PROVE IInv'
  BY <1>2, EmptyStoresInv
<1>3. ASSUME NEW p \in Process, EmptyBeg(p) PROVE IInv'
  BY <1>3, EmptyBegInv
<1>4. ASSUME NEW p \in Process, EmptyEnd(p) PROVE IInv'
  BY <1>4, EmptyEndInv
<1>5. ASSUME NEW p \in Process, TakeLock(p) PROVE IInv'
  BY <1>5, TakeLockInv
<1>6. ASSUME NEW p \in Process, Check(p) PROVE IInv'
  BY <1>6, CheckInv
<1>7. ASSUME NEW p \in Process, CheckFails(p) PROVE IInv'
  BY <1>7, CheckFailsInv
<1>8. ASSUME NEW p \in Process, StoreModules(p) PROVE IInv'
  BY <1>8, StoreModulesInv
<1>9. ASSUME NEW p \in Process, HistoryBeg(p) PROVE IInv'
  BY <1>9, HistoryBegInv
<1>10. ASSUME NEW p \in Process, Element(p) PROVE IInv'
  BY <1>10, ElementDone, ElementFailed DEF Element
<1>11. ASSUME NEW p \in Process, RpmProblems(p) PROVE IInv'
  BY <1>11, RpmProblemsInv
<1>12. ASSUME NEW p \in Process, RpmGlobalError(p) PROVE IInv'
  BY <1>12, RpmGlobalErrorInv
<1>13. ASSUME NEW p \in Process, HistoryEnd(p) PROVE IInv'
  BY <1>13, HistoryEndInv
<1>14. ASSUME NEW p \in Process, Crash(p) PROVE IInv'
  BY <1>14, CrashInv
<1>15. CASE Outside
  BY <1>15, OutsideInv
<1>16. CASE UNCHANGED vars
  <2>1. TypeOK' /\ (world \in Worlds)'
    BY <1>16 DEF vars, IInv, TypeOK
  <2>2. PlanInv' /\ BegunInv' /\ AppliesInv'
    BY <1>16 DEF vars, IInv, PlanInv, PlanOK, BegunInv, AppliesInv
  <2>3. TidInv'
    BY <1>16 DEF vars, IInv, TidInv, TidOK
  <2>4. DoneUnlessProblems' /\ AccountInv'
    BY <1>16 DEF vars, IInv, DoneUnlessProblems, DoneMeansDone, AccountInv
  <2>5. LastInv'
    BY <1>16 DEF vars, IInv, LastInv, Undisturbed, LastEnd
  <2> QED BY <2>1, <2>2, <2>3, <2>4, <2>5 DEF IInv
<1> QED BY <1>1, <1>2, <1>3, <1>4, <1>5, <1>6, <1>7, <1>8, <1>9, <1>10, <1>11, <1>12, <1>13,
           <1>14, <1>15, <1>16 DEF Next

\* The invariant holds throughout.
LEMMA Invariance == Spec => []IInv
BY InitInv, StepInv, PTL DEF Spec

------------------------------------------------------------------------------
(* What follows.                                                           *)

\* Every variable has its type, and the rpmdb lock is held from the check of a
\* transaction to the end of its run, through failures and crashes.
THEOREM TypeCorrect == Spec => []TypeOK
<1>1. IInv => TypeOK
  BY DEF IInv
<1> QED BY <1>1, Invariance, PTL

\* If rpm never refuses with a list of problems, a transaction the history calls done
\* has changed every package it names.
THEOREM DoneIsTrue == Spec => []DoneUnlessProblems
<1>1. IInv => DoneUnlessProblems
  BY DEF IInv
<1> QED BY <1>1, Invariance, PTL

\* If only dnf changes the rpm database, what rpm is about to do still applies, however
\* many processes resolve and run transactions.
THEOREM NoStalePlan == Spec => []PlanStillApplies
<1>1. IInv => PlanStillApplies
  BY DEF IInv, AppliesInv, PlanStillApplies
<1> QED BY <1>1, Invariance, PTL

\* The cookie of the rpm database is one a transaction ended with, or the history or the
\* outside has an explanation.
THEOREM Accounted == Spec => []VersionIsAccountedFor
<1>1. IInv => VersionIsAccountedFor
  BY DEF IInv, AccountInv, VersionIsAccountedFor
<1> QED BY <1>1, Invariance, PTL

\* Only the head of _run_transaction says so.
BlamesInv == \A p \in Process : run[p].blames => run[p].pc = "rpm"

\* The message is of the head of _run_transaction, and gone when rpm is done.
LEMMA BlamesStep == ASSUME IInv, BlamesInv, [Next]_vars PROVE BlamesInv'
<1> SUFFICES ASSUME NEW q \in Process, run'[q].blames PROVE run'[q].pc = "rpm"
  BY DEF BlamesInv
<1>0. run \in [Process -> Run] /\ (run[q].blames => run[q].pc = "rpm")
  BY DEF IInv, TypeOK, BlamesInv
<1>1. ASSUME NEW p \in Process, Resolve(p) PROVE run'[q].pc = "rpm"
  BY <1>0, <1>1 DEF Resolve, Leave, Off, Run
<1>2. ASSUME NEW p \in Process, EmptyStores(p) PROVE run'[q].pc = "rpm"
  BY <1>0, <1>2 DEF EmptyStores, Leave, Off, Run
<1>3. ASSUME NEW p \in Process, EmptyBeg(p) PROVE run'[q].pc = "rpm"
  BY <1>0, <1>3 DEF EmptyBeg, Leave, Off, Run
<1>4. ASSUME NEW p \in Process, EmptyEnd(p) PROVE run'[q].pc = "rpm"
  BY <1>0, <1>4 DEF EmptyEnd, Leave, Off, Run
<1>5. ASSUME NEW p \in Process, TakeLock(p) PROVE run'[q].pc = "rpm"
  BY <1>0, <1>5 DEF TakeLock, Leave, Off, Run
<1>6. ASSUME NEW p \in Process, Check(p) PROVE run'[q].pc = "rpm"
  BY <1>0, <1>6 DEF Check, Leave, Off, Run
<1>7. ASSUME NEW p \in Process, CheckFails(p) PROVE run'[q].pc = "rpm"
  BY <1>0, <1>7 DEF CheckFails, Leave, Off, Run
<1>8. ASSUME NEW p \in Process, StoreModules(p) PROVE run'[q].pc = "rpm"
  BY <1>0, <1>8 DEF StoreModules, Leave, Off, Run
<1>9. ASSUME NEW p \in Process, HistoryBeg(p) PROVE run'[q].pc = "rpm"
  <2> DEFINE blames == history = <<>> \/ LastEnd # version
             tid == Len(history')
  <2>1. \/ run' = [run EXCEPT ![p].pc = "rpm"]
        \/ run' = [run EXCEPT ![p].pc = "rpm", ![p].tid = tid, ![p].last = version,
                              ![p].blames = blames]
    BY <1>9 DEF HistoryBeg
  <2> HIDE DEF blames, tid
  <2> QED BY <1>0, <2>1 DEF Run
<1>10. ASSUME NEW p \in Process, Element(p) PROVE run'[q].pc = "rpm"
  BY <1>0, <1>10 DEF Element, Leave, Off, Run
<1>11. ASSUME NEW p \in Process, RpmProblems(p) PROVE run'[q].pc = "rpm"
  BY <1>0, <1>11 DEF RpmProblems, Leave, Off, Run
<1>12. ASSUME NEW p \in Process, RpmGlobalError(p) PROVE run'[q].pc = "rpm"
  BY <1>0, <1>12 DEF RpmGlobalError, Leave, Off, Run
<1>13. ASSUME NEW p \in Process, HistoryEnd(p) PROVE run'[q].pc = "rpm"
  BY <1>0, <1>13 DEF HistoryEnd, Leave, Off, Run
<1>14. ASSUME NEW p \in Process, Crash(p) PROVE run'[q].pc = "rpm"
  BY <1>0, <1>14 DEF Crash, Leave, Off, Run
<1>15. CASE Outside \/ UNCHANGED vars
  BY <1>0, <1>15 DEF Outside, vars
<1> QED BY <1>1, <1>2, <1>3, <1>4, <1>5, <1>6, <1>7, <1>8, <1>9, <1>10, <1>11, <1>12, <1>13, <1>14, <1>15 DEF Next

\* Nothing else leads from the stored module states into rpm.
LEMMA OnlyBeg ==
  ASSUME TypeOK, [Next]_vars, NEW q \in Process, run[q].pc = "beg", run'[q].pc = "rpm"
  PROVE  HistoryBeg(q)
<1>0. run \in [Process -> Run]
  BY DEF TypeOK
<1>1. ASSUME NEW p \in Process, Resolve(p) PROVE FALSE
  BY <1>0, <1>1 DEF Resolve, Leave, Off, Run
<1>2. ASSUME NEW p \in Process, EmptyStores(p) PROVE FALSE
  BY <1>0, <1>2 DEF EmptyStores, Leave, Off, Run
<1>3. ASSUME NEW p \in Process, EmptyBeg(p) PROVE FALSE
  BY <1>0, <1>3 DEF EmptyBeg, Leave, Off, Run
<1>4. ASSUME NEW p \in Process, EmptyEnd(p) PROVE FALSE
  BY <1>0, <1>4 DEF EmptyEnd, Leave, Off, Run
<1>5. ASSUME NEW p \in Process, TakeLock(p) PROVE FALSE
  BY <1>0, <1>5 DEF TakeLock, Leave, Off, Run
<1>6. ASSUME NEW p \in Process, Check(p) PROVE FALSE
  BY <1>0, <1>6 DEF Check, Leave, Off, Run
<1>7. ASSUME NEW p \in Process, CheckFails(p) PROVE FALSE
  BY <1>0, <1>7 DEF CheckFails, Leave, Off, Run
<1>8. ASSUME NEW p \in Process, StoreModules(p) PROVE FALSE
  BY <1>0, <1>8 DEF StoreModules, Leave, Off, Run
<1>9. ASSUME NEW p \in Process, Element(p) PROVE FALSE
  BY <1>0, <1>9 DEF Element, Leave, Off, Run
<1>10. ASSUME NEW p \in Process, RpmProblems(p) PROVE FALSE
  BY <1>0, <1>10 DEF RpmProblems, Leave, Off, Run
<1>11. ASSUME NEW p \in Process, RpmGlobalError(p) PROVE FALSE
  BY <1>0, <1>11 DEF RpmGlobalError, Leave, Off, Run
<1>12. ASSUME NEW p \in Process, HistoryEnd(p) PROVE FALSE
  BY <1>0, <1>12 DEF HistoryEnd, Leave, Off, Run
<1>13. ASSUME NEW p \in Process, Crash(p) PROVE FALSE
  BY <1>0, <1>13 DEF Crash, Leave, Off, Run
<1>14. ASSUME NEW p \in Process, HistoryBeg(p) PROVE p = q
  <2> DEFINE blames == history = <<>> \/ LastEnd # version
             tid == Len(history')
  <2>1. \/ run' = [run EXCEPT ![p].pc = "rpm"]
        \/ run' = [run EXCEPT ![p].pc = "rpm", ![p].tid = tid, ![p].last = version,
                              ![p].blames = blames]
    BY <1>14 DEF HistoryBeg
  <2> HIDE DEF blames, tid
  <2> QED BY <1>0, <2>1 DEF Run
<1>15. ~Outside /\ ~UNCHANGED vars
  BY DEF Outside, vars
<1> QED BY <1>1, <1>2, <1>3, <1>4, <1>5, <1>6, <1>7, <1>8, <1>9, <1>10, <1>11, <1>12, <1>13, <1>14, <1>15 DEF Next

\* "RPMDB altered outside of DNF" is only said if it was, where one process runs at a
\* time: with two, a transaction without packages, which takes no lock, may end with a
\* cookie that is no longer the one there is.
THEOREM BlameTrue ==
  ASSUME \A w \in Worlds : w.features \cap {"crash", "global"} = {} =>
           \A p, q \in w.processes : p = q
  PROVE  Spec => BlameIsTrue
<1>1. Init => BlamesInv
  BY OffIsRun DEF Init, BlamesInv, Off
<1>2. IInv /\ BlamesInv /\ [Next]_vars => BlamesInv'
  BY BlamesStep
<1>3. ASSUME IInv, BlamesInv, [Next]_vars, world.features \cap {"crash", "global"} = {},
             NEW p \in Process, run[p].pc = "beg", run'[p].blames, history # <<>>, ~outside
      PROVE  FALSE
  <2>1. HistoryBeg(p)
    <3>1. run'[p].pc = "rpm"
      BY <1>2, <1>3 DEF BlamesInv
    <3> QED BY <1>3, <3>1, OnlyBeg DEF IInv
  <2>2. Undisturbed
    BY <1>3 DEF IInv, Undisturbed
  <2>3. ASSUME NEW q \in Process PROVE run[q].tid = 0
    <3>1. run[q].tid # 0 => q = p
      BY <1>3, <2>2 DEF IInv, PlanInv, PlanOK, TidInv, TidOK, Undisturbed
    <3> QED BY <1>3, <3>1, Standing
  <2>4. LastEnd = version
    BY <1>3, <2>2, <2>3 DEF IInv, LastInv
  <2> DEFINE blames == history = <<>> \/ LastEnd # version
             tid == Len(history')
  <2>5. \/ run' = [run EXCEPT ![p].pc = "rpm"]
        \/ run' = [run EXCEPT ![p].pc = "rpm", ![p].tid = tid, ![p].last = version,
                              ![p].blames = blames]
    BY <2>1 DEF HistoryBeg
  <2>6. blames = FALSE
    BY <1>3, <2>4
  <2> HIDE DEF blames, tid
  <2>7. run \in [Process -> Run] /\ ~run[p].blames
    BY <1>3 DEF IInv, TypeOK, BlamesInv
  <2>8. run'[p].blames = run[p].blames \/ run'[p].blames = blames
    BY <2>5, <2>7 DEF Run
  <2> QED BY <1>3, <2>6, <2>7, <2>8
<1>4. IInv /\ BlamesInv /\ [Next]_vars =>
        (world.features \cap {"crash", "global"} = {} => \A p \in Process :
           run[p].pc = "beg" /\ run'[p].blames => history = <<>> \/ outside)
  BY <1>3
<1> QED BY <1>1, <1>2, <1>4, Invariance, PTL DEF Spec, BlameIsTrue

------------------------------------------------------------------------------
(* The lock of the rpm database is a lock as ProcessLock implements it.    *)

RpmdbLock == INSTANCE LockPromise WITH inside <- {p \in Process : lock = p}

\* The lock of the rpm database does what `with lock:' promises, from the check of a
\* transaction through refusals and kills to its end: what the model assumes of it is what
\* the theorem Implements of ProcessLockProofs gives.
THEOREM LockKeepsPromise == Spec => RpmdbLock!Spec
<1> DEFINE Inside == {p \in Process : lock = p}
<1>1. Init => RpmdbLock!Init
  BY TransactionAssumption DEF Init, RpmdbLock!Init
<1>2. ASSUME TypeOK, [Next]_vars PROVE [RpmdbLock!Next]_Inside
  <2>1. \/ lock' = lock
        \/ lock = Nobody /\ lock' \in Process
        \/ lock \in Process /\ lock' = Nobody
    <3>1. ASSUME NEW p \in Process, Check(p) \/ CheckFails(p) \/ RpmProblems(p)
                   \/ RpmGlobalError(p) \/ HistoryEnd(p)
          PROVE  lock' = lock \/ (lock = p /\ lock' = Nobody)
      BY <1>2, <3>1 DEF Check, CheckFails, RpmProblems, RpmGlobalError, HistoryEnd, Leave, TypeOK
    <3>2. ASSUME NEW p \in Process, TakeLock(p) \/ Crash(p)
          PROVE  \/ lock' = lock \/ (lock = p /\ lock' = Nobody)
                 \/ (lock = Nobody /\ lock' = p)
      BY <3>2 DEF TakeLock, Crash
    <3> QED BY <1>2, <3>1, <3>2
        DEF Next, vars, Resolve, EmptyStores, EmptyBeg, EmptyEnd, StoreModules, HistoryBeg,
            Element, Outside
  <2>2. CASE lock' = lock
    BY <2>2
  <2>3. CASE lock = Nobody /\ lock' \in Process
    <3>1. Inside = {} /\ Inside' = {lock'}
      BY <2>3, TransactionAssumption
    <3> QED BY <2>3, <3>1 DEF RpmdbLock!Next, RpmdbLock!Acquire
  <2>4. CASE lock \in Process /\ lock' = Nobody
    <3>1. lock \in Inside /\ Inside' = Inside \ {lock}
      BY <2>4, TransactionAssumption
    <3> QED BY <2>4, <3>1 DEF RpmdbLock!Next, RpmdbLock!Leave
  <2> QED BY <2>1, <2>2, <2>3, <2>4
<1> QED BY TypeCorrect, <1>1, <1>2, PTL DEF Spec, RpmdbLock!Spec
==============================================================================
