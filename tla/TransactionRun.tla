---------------------------- MODULE TransactionRun ----------------------------
(******************************************************************************)
(* Running a resolved transaction (dnf/base.py do_transaction and             *)
(* _run_transaction, dnf/util.py _sync_rpm_trans_with_swdb, dnf/db/history.py *)
(* beg, end and last): what becomes of the rpm database, of the stored module *)
(* states and of the transaction history when rpm refuses, elements fail, a   *)
(* process is killed, or dnf and rpm are used at the same time.               *)
(******************************************************************************)
EXTENDS Naturals, Sequences

CONSTANTS
  Process,     \* dnf processes that may run at the same time
  Package,
  Worlds,      \* the worlds to look at, see World
  Nobody       \* nobody holds the rpmdb lock, or has stored module states

\* "failure": elements may fail; "problems", "global": rpm may refuse to start
\* with, or without, a list of problems; "outside": the rpm database is changed
\* by others than dnf; "test": tsflags=test; "norecord": history_record=False;
\* "crash": a process may be killed.
AllFeatures == {"failure", "problems", "global", "outside", "test", "norecord", "crash"}

World == [features : SUBSET AllFeatures, processes : SUBSET Process,
          packages : SUBSET Package,
          records : Nat,    \* bound: transactions in the history
          version : Nat]    \* bound: changes of the rpm database

ASSUME TransactionAssumption ==
  Worlds \subseteq World /\ Nobody \notin Process

VARIABLES
  world,       \* what may happen, and to whom; no step changes it
  installed,   \* the packages in the rpm database
  version,     \* its cookie
  outside,     \* history: changed since dnf's last recorded transaction
               \* by others, or by transactions dnf was told not to record
  history,     \* the transactions of the history database
  modules,     \* who stored the module states last
  lock,        \* who holds the rpmdb lock
  run          \* the state of each process

vars == <<world, installed, version, outside, history, modules, lock, run>>

NoCookie == 0  \* the end version of a transaction that has none

\* One transaction of the history; done (history): the items rpm carried out.
Transaction ==
  [begin : Nat, end : Nat, state : {"open", "done", "error"},
   items : SUBSET Package, done : SUBSET Package]

Plans == [Package -> {"keep", "install", "erase"}]

\* plan: Base.transaction; left: elements rpm has not come to; failed: those
\* with el.Failed(); tid: the open transaction, or 0; last: the version the last
\* transaction ended with, as read; blames: "RPMDB altered outside" was logged.
Run == [pc : {"off", "empty", "emptybeg", "emptyend", "locking", "check", "save", "beg", "rpm"},
        test : BOOLEAN, record : BOOLEAN, module : BOOLEAN, group : BOOLEAN,
        plan : Plans, left : SUBSET Package, failed : SUBSET Package,
        tid : Nat, last : Nat, blames : BOOLEAN]

Keep == [k \in Package |-> "keep"]

Off == [pc |-> "off", test |-> FALSE, record |-> TRUE, module |-> FALSE, group |-> FALSE,
        plan |-> Keep, left |-> {}, failed |-> {}, tid |-> 0, last |-> NoCookie, blames |-> FALSE]

Init ==
  /\ world \in Worlds
  /\ installed \in SUBSET world.packages
  /\ version = 1
  /\ outside = FALSE
  /\ history = <<>>
  /\ modules = Nobody
  /\ lock = Nobody
  /\ run = [p \in Process |-> Off]

Items(plan) == {k \in Package : plan[k] # "keep"}

Applies(plan) ==
  \A k \in Package : /\ plan[k] = "install" => k \notin installed
                     /\ plan[k] = "erase" => k \in installed

\* Base.resolve on the sack read from the rpm database, and BaseCli: with no
\* package, module or group to change there is nothing to do.
Resolve(p) ==
  /\ p \in world.processes /\ run[p].pc = "off"
  /\ Len(history) < world.records /\ version < world.version
  /\ \E plan \in Plans, test, record, module, group \in BOOLEAN :
       /\ Applies(plan) /\ Items(plan) \subseteq world.packages
       /\ Items(plan) # {} \/ module \/ group
       /\ test => "test" \in world.features
       /\ ~record => "norecord" \in world.features
       /\ run' = [run EXCEPT ![p] =
            [Off EXCEPT !.pc = IF Items(plan) = {} THEN "empty" ELSE "locking",
                        !.test = test, !.record = record, !.module = module,
                        !.group = group, !.plan = plan, !.left = Items(plan)]]
  /\ UNCHANGED <<world, installed, version, outside, history, modules, lock>>

\* SwdbInterface.last: whatever comes last, complete or not.
LastEnd == IF history = <<>> THEN NoCookie ELSE history[Len(history)].end

\* Base.do_transaction without packages stores the module states and, if groups
\* have changed, looks for the version to record.
EmptyStores(p) ==
  /\ run[p].pc = "empty"
  /\ modules' = IF run[p].module THEN p ELSE modules
  /\ run' = [run EXCEPT ![p] =
       IF run[p].group
       THEN [run[p] EXCEPT !.pc = "emptybeg",
                           !.last = IF history = <<>> THEN version ELSE LastEnd]
       ELSE Off]
  /\ UNCHANGED <<world, installed, version, outside, history, lock>>

Opened(begin, items) ==
  Append(history, [begin |-> begin, end |-> NoCookie, state |-> "open",
                   items |-> items, done |-> {}])

EmptyBeg(p) ==
  /\ run[p].pc = "emptybeg"
  /\ history' = Opened(run[p].last, {})
  /\ run' = [run EXCEPT ![p].pc = "emptyend", ![p].tid = Len(history')]
  /\ UNCHANGED <<world, installed, version, outside, modules, lock>>

\* Defect: the return code is not looked for among the items.
ClosedBlindly(p, end) ==
  [history EXCEPT ![run[p].tid].end = end, ![run[p].tid].state = "done"]

\* SwdbInterface.end with its detection of the state: an error if there is a
\* failed item.
Closed(p, end) ==
  [history EXCEPT ![run[p].tid].end = end,
                  ![run[p].tid].state = IF run[p].failed = {} THEN "done" ELSE "error"]

EmptyEnd(p) ==
  /\ run[p].pc = "emptyend"
  /\ history' = Closed(p, run[p].last)
  /\ run' = [run EXCEPT ![p] = Off]
  /\ UNCHANGED <<world, installed, version, outside, modules, lock>>

TakeLock(p) ==
  /\ run[p].pc = "locking" /\ lock = Nobody
  /\ lock' = p
  /\ run' = [run EXCEPT ![p].pc = "check"]
  /\ UNCHANGED <<world, installed, version, outside, history, modules>>

Leave(p) == lock' = Nobody /\ run' = [run EXCEPT ![p] = Off]

\* Defect: the test is taken for granted.
CheckNothing(p) ==
  /\ run[p].pc = "check"
  /\ IF run[p].test THEN Leave(p)
     ELSE lock' = lock /\ run' = [run EXCEPT ![p].pc = "save"]
  /\ UNCHANGED <<world, installed, version, outside, history, modules>>

\* The transaction set is populated, checked and tested by rpm; with the TEST
\* flag that is all.
Check(p) ==
  /\ run[p].pc = "check" /\ Applies(run[p].plan)
  /\ IF run[p].test THEN Leave(p)
     ELSE lock' = lock /\ run' = [run EXCEPT ![p].pc = "save"]
  /\ UNCHANGED <<world, installed, version, outside, history, modules>>

\* Defect: the error leaves the lock behind.
CheckFailsLocked(p) ==
  /\ run[p].pc = "check"
  /\ lock' = lock /\ run' = [run EXCEPT ![p] = Off]
  /\ UNCHANGED <<world, installed, version, outside, history, modules>>

\* TransactionCheckError, a transaction test error, or an rpm exception.
CheckFails(p) ==
  /\ run[p].pc = "check"
  /\ Leave(p)
  /\ UNCHANGED <<world, installed, version, outside, history, modules>>

StoreModules(p) ==
  /\ run[p].pc = "save"
  /\ modules' = IF run[p].module THEN p ELSE modules
  /\ run' = [run EXCEPT ![p].pc = "beg"]
  /\ UNCHANGED <<world, installed, version, outside, history, lock>>

\* The head of Base._run_transaction.
HistoryBeg(p) ==
  /\ run[p].pc = "beg"
  /\ IF run[p].record
     THEN /\ history' = Opened(version, Items(run[p].plan))
          /\ run' = [run EXCEPT ![p].pc = "rpm", ![p].tid = Len(history'),
                                ![p].last = version,
                                ![p].blames = history = <<>> \/ LastEnd # version]
     ELSE history' = history /\ run' = [run EXCEPT ![p].pc = "rpm"]
  /\ UNCHANGED <<world, installed, version, outside, modules, lock>>

\* rpm carries out one element, or fails to.
Element(p) ==
  /\ run[p].pc = "rpm"
  /\ \E k \in run[p].left :
       \/ /\ installed' = IF run[p].plan[k] = "install" THEN installed \cup {k}
                          ELSE installed \ {k}
          /\ version' = version + 1
          /\ run' = [run EXCEPT ![p].left = @ \ {k}]
          /\ history' = IF run[p].tid = 0 THEN history
                        ELSE [history EXCEPT ![run[p].tid].done = @ \cup {k}]
          /\ outside' = (outside \/ run[p].tid = 0)
       \/ /\ "failure" \in world.features
          /\ run' = [run EXCEPT ![p].left = @ \ {k}, ![p].failed = @ \cup {k}]
          /\ UNCHANGED <<installed, version, outside, history>>
  /\ UNCHANGED <<world, modules, lock>>

\* ts.run returns problems and has changed nothing; no element has failed, so
\* each item counts as done in the transaction that is closed.
RpmProblems(p) ==
  /\ "problems" \in world.features
  /\ run[p].pc = "rpm" /\ run[p].left = Items(run[p].plan)
  /\ history' = IF run[p].tid = 0 THEN history ELSE Closed(p, run[p].last)
  /\ Leave(p)
  /\ UNCHANGED <<world, installed, version, outside, modules>>

\* ts.run returns an empty list, and no element has failed: an error is raised
\* at once.
RpmGlobalError(p) ==
  /\ "global" \in world.features
  /\ run[p].pc = "rpm" /\ run[p].left = Items(run[p].plan)
  /\ Leave(p)
  /\ UNCHANGED <<world, installed, version, outside, history, modules>>

\* Defect: the version the transaction began with is recorded as its end.
HistoryEndStale(p) ==
  /\ run[p].pc = "rpm" /\ run[p].left = {}
  /\ history' = IF run[p].tid = 0 THEN history ELSE Closed(p, run[p].last)
  /\ outside' = FALSE
  /\ Leave(p)
  /\ UNCHANGED <<world, installed, version, modules>>

\* _sync_rpm_trans_with_swdb and _verify_transaction.
HistoryEnd(p) ==
  /\ run[p].pc = "rpm" /\ run[p].left = {}
  /\ history' = IF run[p].tid = 0 THEN history ELSE Closed(p, version)
  /\ outside' = (outside /\ run[p].tid = 0)
  /\ Leave(p)
  /\ UNCHANGED <<world, installed, version, modules>>

Crash(p) ==
  /\ "crash" \in world.features
  /\ run[p].pc # "off"
  /\ run' = [run EXCEPT ![p] = Off]
  /\ lock' = IF lock = p THEN Nobody ELSE lock
  /\ UNCHANGED <<world, installed, version, outside, history, modules>>

\* rpm is used without dnf; its own lock keeps it away from a running ts.run.
Outside ==
  /\ "outside" \in world.features
  /\ version < world.version
  /\ \A p \in Process : run[p].pc # "rpm"
  /\ \E k \in world.packages : installed' \in {installed \cup {k}, installed \ {k}} \ {installed}
  /\ version' = version + 1
  /\ outside' = TRUE
  /\ UNCHANGED <<world, history, modules, lock, run>>

Next ==
  \/ \E p \in Process :
       \/ Resolve(p) \/ EmptyStores(p) \/ EmptyBeg(p) \/ EmptyEnd(p)
       \/ TakeLock(p) \/ Check(p) \/ CheckFails(p) \/ StoreModules(p)
       \/ HistoryBeg(p) \/ Element(p) \/ RpmProblems(p) \/ RpmGlobalError(p)
       \/ HistoryEnd(p) \/ Crash(p)
  \/ Outside

Spec == Init /\ [][Next]_vars

------------------------------------------------------------------------------
\* Every variable has the type the code gives it, and the rpmdb lock is held from
\* the check of a transaction to the end of its run.
TypeOK ==
  /\ world \in World /\ installed \subseteq world.packages
  /\ version \in Nat \ {0}
  /\ outside \in BOOLEAN
  /\ history \in Seq(Transaction)
  /\ modules \in Process \cup {Nobody}
  /\ lock \in Process \cup {Nobody}
  /\ run \in [Process -> Run]
  /\ \A p \in Process : lock = p <=> run[p].pc \in {"check", "save", "beg", "rpm"}

\* A transaction the history calls done has changed every package it names: the
\* reasons, undo and rollback of later transactions are computed from that.
DoneMeansDone ==
  \A i \in 1..Len(history) : history[i].state = "done" => history[i].done = history[i].items

\* It holds unless rpm refuses to start with a list of problems.
DoneUnlessProblems == "problems" \notin world.features => DoneMeansDone

\* Through failures and crashes the history accounts for the rpm database: its
\* cookie is the one a transaction ended with, or there is one that has not
\* ended, or others have changed it, or dnf without a record.
VersionIsAccountedFor ==
  \/ version = 1 \/ outside
  \/ \E i \in 1..Len(history) : history[i].end = version \/ history[i].state = "open"

\* A transaction resolved before another process changed the rpm database is
\* not run: what rpm is about to do still applies.
PlanStillApplies ==
  "outside" \notin world.features => \A p \in Process : \A k \in run[p].left :
    run[p].pc = "rpm" =>
      (k \in installed <=> run[p].plan[k] = "erase")

\* "RPMDB altered outside of DNF." (base.py:1120) is logged, and `<' shown by
\* `dnf history' ("The RPM database was changed, outside DNF, before the
\* transaction", doc/command_ref.rst:741), only if it was, or if history_record
\* was off; the first transaction has nothing to compare with.
BlameIsTrue ==
  [][world.features \cap {"crash", "global"} = {} => \A p \in Process :
       run[p].pc = "beg" /\ run'[p].blames => history = <<>> \/ outside]_vars
==============================================================================
