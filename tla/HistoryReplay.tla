----------------------------- MODULE HistoryReplay -----------------------------
(*******************************************************************************)
(* Transactions done again or backwards: `dnf history store', replay, redo,    *)
(* undo and rollback (dnf/cli/commands/history.py, dnf/transaction_sr.py,      *)
(* dnf/db/history.py).  Each is a dnf of its own.  The history database, its   *)
(* merging of transactions and the solver are modelled from their use.  Groups *)
(* and environments are replayed alike; an id stands for either.               *)
(*******************************************************************************)
EXTENDS Naturals, Sequences, FiniteSets

CONSTANTS
  Name, Id,
  Requires,     \* [Name -> SUBSET Name], transitively
  Obsoletes,    \* [Name -> SUBSET Name]
  Offers,       \* what the repositories may offer: sets of packages
  Seeds,        \* packages that may be there at first, and reasons
  MaxOrdinary,  \* bound: transactions of other commands
  MaxOther,     \* bound: stored files, changes by others
  MaxLog        \* bound: these and all transactions

Package == Name \X {1, 2}
Reason == {"unknown", "dependency", "user", "clean"}
Forward == {"Install", "Upgrade", "Downgrade", "Reinstall"}
Backward == {"Removed", "Upgraded", "Downgraded", "Reinstalled", "Obsoleted"}
Action == Forward \cup Backward \cup {"Reason Change"}

VARIABLES
  installed, reason,  \* packages, and why each name is installed
  groups,             \* installed ids
  offered,            \* what the repositories offer, packages and ids
  log,                \* the history; was, why (history variables): what was there before
  outside,            \* numbers of transactions before which others used rpm
  file,               \* a stored transaction
  did,                \* (history) the last command
  count               \* so far

vars == <<installed, reason, groups, offered, log, outside, file, did, count>>

NoFile == [rpms |-> {}, ids |-> {}]
Nothing == [cmd |-> "none", to |-> 0, warned |-> FALSE]

Init ==
  /\ \E seed \in Seeds : installed = seed[1] /\ reason = seed[2]
  /\ groups = {}
  /\ offered \in Offers
  /\ log = <<>> /\ outside = {} /\ file = NoFile /\ did = Nothing
  /\ count = [ordinary |-> 0, other |-> 0]

Names(S) == {k[1] : k \in S}
Newer(k, l) == k[1] = l[1] /\ k[2] > l[2]

------------------------------------------------------------------------------
(* Transactions and their records.                                         *)

Item(action, k, r) == [action |-> action, pkg |-> k, reason |-> r]

\* What Base._goal2transaction records of the way from v to w; again: what is
\* reinstalled; r, e: the reasons of what is new, and of what is erased.
Items(v, w, again, r, e) ==
  LET old(k) == {l \in v \ w : l[1] = k[1]}
      obsoleter(l) == \E k \in w \ v : l[1] \in Obsoletes[k[1]]
      up == {k \in w \ v : \E l \in old(k) : Newer(k, l)}
      down == {k \in w \ v : \E l \in old(k) : Newer(l, k)}
      gone == {l \in v \ w : l[1] \notin Names(w)}
  IN {Item("Upgrade", k, r[k[1]]) : k \in up} \cup {Item("Downgrade", k, r[k[1]]) : k \in down}
     \cup {Item("Install", k, r[k[1]]) : k \in (w \ v) \ (up \cup down)}
     \cup {Item("Upgraded", l, reason[l[1]]) : l \in {x \in v : \E k \in up : k[1] = x[1]}}
     \cup {Item("Downgraded", l, reason[l[1]]) : l \in {x \in v : \E k \in down : k[1] = x[1]}}
     \cup {Item("Obsoleted", l, reason[l[1]]) : l \in {x \in gone : obsoleter(x)}}
     \cup {Item("Removed", l, e[l[1]]) : l \in {x \in gone : ~obsoleter(x)}}
     \cup {Item("Reinstall", k, r[k[1]]) : k \in again}
     \cup {Item("Reinstalled", k, reason[k[1]]) : k \in again}

GroupItem(action, id) == [action |-> action, id |-> id]

\* What the persistors record of a group: groups have no versions, one that is
\* upgraded or downgraded stays.
PersistorAction(action) ==
  CASE action \in {"Upgrade", "Upgraded"} -> "Upgrade"
    [] action \in {"Downgrade", "Downgraded"} -> "Downgrade"
    [] OTHER -> action

Entry(items, ids) == [rpms |-> items, ids |-> ids, was |-> installed, why |-> reason,
                      groups |-> groups]

Recorded(w, r, gs, items, ids) ==
  /\ installed' = w
  /\ reason' = [n \in Name |-> IF n \in Names(w) THEN r[n] ELSE reason[n]]
  /\ groups' = gs
  /\ log' = IF items = {} /\ ids = {} THEN log ELSE Append(log, Entry(items, ids))
  /\ UNCHANGED <<offered, outside, file>>

\* What has to be installed with S, the newest there is; it may not exist.
Missing(S) == (UNION {Requires[k[1]] : k \in S}) \ Names(S)
Pulled(S) ==
  {k \in offered.pkgs : k[1] \in Missing(S) /\ \A l \in offered.pkgs : ~Newer(l, k)}
Complete(S) == Missing(S) = {}

\* Within the bounds.
Room == Len(log) + count.other < MaxLog
Another == Room /\ count.ordinary < MaxOrdinary /\ count' = [count EXCEPT !.ordinary = @ + 1]
Other == Room /\ count.other < MaxOther /\ count' = [count EXCEPT !.other = @ + 1]

\* A dnf command that installs, upgrades, removes, reinstalls or marks packages,
\* or installs, upgrades or removes a group.
Ordinary ==
  /\ Another
  /\ \E k \in offered.pkgs :
       \/ /\ k \notin installed
          /\ LET base == {l \in installed : l[1] # k[1] /\ l[1] \notin Obsoletes[k[1]]} \cup {k}
                 w == base \cup Pulled(base)
                 r == [n \in Name |-> IF n \in Names(installed) THEN reason[n]
                                      ELSE IF n = k[1] THEN "user" ELSE "dependency"]
             IN Complete(w) /\ Recorded(w, r, groups, Items(installed, w, {}, r, reason), {})
       \/ /\ k \in installed
          /\ Recorded(installed, reason, groups,
                      Items(installed, installed, {k}, reason, reason), {})
  /\ did' = Nothing

OrdinaryRemove ==
  /\ Another
  /\ \E k \in installed :
       LET dependents == {l \in installed : k[1] \in Requires[l[1]]}
           w == installed \ ({k} \cup dependents)
           e == [n \in Name |-> IF n = k[1] THEN "user" ELSE "dependency"]
       IN Recorded(w, reason, groups, Items(installed, w, {}, reason, e), {})
  /\ did' = Nothing

OrdinaryMark ==
  /\ Another
  /\ \E k \in installed, r \in {"user", "dependency"} :
       /\ r # reason[k[1]]
       /\ Recorded(installed, [reason EXCEPT ![k[1]] = r], groups,
                   {Item("Reason Change", k, r)}, {})
  /\ did' = Nothing

OrdinaryGroup ==
  /\ Another
  /\ \E id \in offered.ids \cup groups :
       \/ id \notin groups /\ Recorded(installed, reason, groups \cup {id}, {},
                                       {GroupItem("Install", id)})
       \/ id \in groups /\ Recorded(installed, reason, groups \ {id}, {},
                                    {GroupItem("Removed", id)})
       \/ id \in groups \cap offered.ids /\ Recorded(installed, reason, groups, {},
                                                     {GroupItem("Upgrade", id)})
  /\ did' = Nothing

\* rpm is used by others; the repositories change.
Outside ==
  /\ Other
  /\ \E k \in installed : installed' = installed \ {k} /\ Complete(installed')
  /\ outside' = outside \cup {Len(log) + 1} /\ did' = Nothing
  /\ UNCHANGED <<reason, groups, offered, log, file>>

Publish ==
  /\ Other
  /\ offered' \in Offers \ {offered} /\ did' = Nothing
  /\ UNCHANGED <<installed, reason, groups, log, outside, file>>

------------------------------------------------------------------------------
(* TransactionReplay.                                                      *)

Options == [installed : BOOLEAN, extras : BOOLEAN, skip : BOOLEAN]

\* What an item of the data asks for; a problem is an error unless it is ignored.
Asked(want, erase, again, mark, problem, ignored) ==
  [want |-> want, erase |-> erase, again |-> again, mark |-> mark,
   error |-> problem /\ ~ignored, warned |-> problem /\ ignored]
Refused(ignored) == Asked({}, {}, {}, {}, TRUE, ignored)

\* Defect: the version to be replaced need not be installed.
AskUnchecked(i, o) ==
  LET k == i.pkg
      known == k \in installed \cup offered.pkgs
      taken == i.action = "Install" /\ k[1] \in Names(installed)
  IN CASE ~known -> Refused(o.skip)
     [] known /\ i.action \in Forward -> Asked({k}, {}, {k} \cap installed, {}, taken, o.installed)
     [] known /\ i.action \in Backward -> Asked({}, {k}, {}, {}, FALSE, TRUE)
     [] OTHER -> Asked({}, {}, {}, {<<k[1], i.reason>>}, FALSE, TRUE)

\* TransactionReplay._replay_pkg_action
ReplayPkgAction(i, o) ==
  LET k == i.pkg
      known == k \in installed \cup offered.pkgs
      taken == i.action = "Install" /\ k[1] \in Names(installed)
  IN CASE ~known -> Refused(o.skip)
     [] known /\ i.action = "Reinstall" ->
          IF k \in offered.pkgs THEN Asked({k}, {}, {k} \cap installed, {}, FALSE, TRUE)
          ELSE Refused(o.skip)
     [] known /\ i.action \in Forward \ {"Reinstall"} -> Asked({k}, {}, {}, {}, taken, o.installed)
     [] known /\ i.action \in Backward ->
          IF k \in installed
          THEN Asked({}, IF ~o.skip \/ i.action = "Removed" THEN {k} ELSE {}, {}, {}, FALSE, TRUE)
          ELSE Refused(o.installed)
     [] OTHER -> Asked({}, {}, {}, {<<k[1], i.reason>>}, FALSE, TRUE)

\* _swdb_group_* and _swdb_environment_*: but for an installation it has to be
\* installed; it has to be in the comps.
ReplayGroupAction(i, o) ==
  CASE i.action # "Install" /\ i.id \notin groups -> Refused(o.installed)
    [] i.id \notin offered.ids /\ (i.action = "Install" \/ i.id \in groups) -> Refused(o.skip)
    [] OTHER -> Asked({}, {}, {}, {}, FALSE, TRUE)

\* TransactionReplay.run, Base.resolve (nothing may be erased that was not asked
\* for, and the solver does not bring back what was), post_transaction and the
\* transaction itself.
Replayed(data, o, cmd, to) ==
  LET asks == {ReplayPkgAction(i, o) : i \in data.rpms}
      about == {ReplayGroupAction(i, o) : i \in data.ids}
      all(f) == UNION {a[f] : a \in asks}
      want == all("want")
      erase == all("erase")
      base == (installed \ (erase \cup {l \in installed : l[1] \in Names(want)
                                                            \/ \E k \in want : l[1] \in Obsoletes[k[1]]}))
                \cup want
      w == base \cup (Pulled(base) \ erase)
      again == all("again")
      seen == {i.pkg : i \in {j \in data.rpms : j.action # "Reason Change"}}
      extras == {k \in (w \ installed) \cup (installed \ w) : k \notin seen
                   /\ ~(o.installed /\ k \in installed /\ k[1] \in Names(w))}
      given(n) == {i.reason : i \in {j \in data.rpms : j.pkg[1] = n /\ j.pkg \in w
                                                         /\ j.action \in Forward}}
      removed(n) == {i.reason : i \in {j \in data.rpms : j.pkg[1] = n /\ j.pkg \in installed
                                                           /\ j.action = "Removed"}}
      r == [n \in Name |->
             IF n \in {x[1] : x \in all("mark")} THEN (CHOOSE x \in all("mark") : x[1] = n)[2]
             ELSE IF n \in Names(installed)
                  THEN IF "user" \in given(n) /\ n \in Names((w \ installed) \cup again)
                       THEN "user" ELSE reason[n]
             ELSE IF given(n) # {} THEN CHOOSE x \in given(n) : TRUE ELSE "dependency"]
      e == [n \in Name |-> IF removed(n) # {} THEN CHOOSE x \in removed(n) : TRUE ELSE r[n]]
      ok == {i \in data.ids : ~ReplayGroupAction(i, o).warned}
      gs == (groups \ {i.id : i \in {j \in ok : j.action = "Removed"}})
              \cup {i.id : i \in {j \in ok : j.action = "Install"}}
      marks == {i \in data.rpms : i.action = "Reason Change"
                                  /\ i.pkg \in installed \cup offered.pkgs}
  IN /\ \A a \in asks \cup about : ~a.error
     /\ \A k, l \in w : k[1] = l[1] => k = l
     /\ Complete(w)
     /\ extras = {} \/ o.extras
     /\ Recorded(w, r, gs, Items(installed, w, again, r, e) \cup marks,
                 {GroupItem(PersistorAction(i.action), i.id) : i \in ok})
     /\ did' = [cmd |-> cmd, to |-> to,
                warned |-> extras # {} \/ \E a \in asks \cup about : a.warned]

------------------------------------------------------------------------------
(* dnf/cli/commands/history.py                                             *)

\* serialize_transaction drops nothing that is modelled.
Serialized(e) == [rpms |-> e.rpms, ids |-> e.ids]

Store ==
  /\ Other
  /\ \E t \in DOMAIN log : file' = Serialized(log[t])
  /\ did' = Nothing
  /\ UNCHANGED <<installed, reason, groups, offered, log, outside>>

\* MergedTransaction: each package from what the first transaction found to what
\* the last one left; marks of the others.
BackOf(rpms, n) == {i \in rpms : i.pkg[1] = n /\ i.action \in Backward}
ForthOf(rpms, n) == {i \in rpms : i.pkg[1] = n /\ i.action \in Forward}
Touching(es, n) == {t \in DOMAIN es : BackOf(es[t].rpms, n) \cup ForthOf(es[t].rpms, n) # {}}
FirstOf(ts) == CHOOSE t \in ts : \A u \in ts : t <= u
LastOf(ts) == CHOOSE t \in ts : \A u \in ts : u <= t

Ends(es, n) ==
  LET ts == Touching(es, n)
  IN BackOf(es[FirstOf(ts)].rpms, n) \cup ForthOf(es[LastOf(ts)].rpms, n)

\* From one version to another, to the same, or to or from none.
Pair(ends) ==
  LET b == CHOOSE i \in ends : i.action \in Backward
      f == CHOOSE i \in ends : i.action \in Forward
      newer == Newer(f.pkg, b.pkg)
  IN IF Cardinality({i.pkg : i \in ends}) = 2
     THEN {Item(IF newer THEN "Upgraded" ELSE "Downgraded", b.pkg, b.reason),
           Item(IF newer THEN "Upgrade" ELSE "Downgrade", f.pkg, f.reason)}
     ELSE IF Cardinality(ends) = 2 THEN {}
     ELSE {Item(IF i.action \in Forward THEN "Install" ELSE "Removed", i.pkg, i.reason) : i \in ends}

\* An id is installed and removed in turn; upgrades leave it installed.
Switched(id, e) == {i \in e.ids : i.id = id /\ i.action \in {"Install", "Removed"}}
Net(es, id) ==
  LET ts == {t \in DOMAIN es : Switched(id, es[t]) # {}}
  IN IF Cardinality(ts) % 2 = 0 THEN {} ELSE Switched(id, es[LastOf(ts)])

Merged(es) ==
  [rpms |-> (UNION {Pair(Ends(es, n)) : n \in {x \in Name : Touching(es, x) # {}}})
              \cup UNION {{i \in es[t].rpms : i.action = "Reason Change"
                                             /\ Touching(es, i.pkg[1]) = {}} : t \in DOMAIN es},
   ids |-> UNION {Net(es, id) : id \in Id}]

ActionMap ==
  [Install |-> "Removed", Removed |-> "Install", Upgrade |-> "Downgraded",
   Upgraded |-> "Downgrade", Downgrade |-> "Upgraded", Downgraded |-> "Upgrade",
   Reinstalled |-> "Reinstall", Reinstall |-> "Reinstalled", Obsoleted |-> "Install"]

\* _revert_transaction; a mark goes back to what was known before the first one.
Reverted(e, why) ==
  [rpms |-> {IF i.action = "Reason Change" THEN Item(i.action, i.pkg, why[i.pkg[1]])
             ELSE Item(ActionMap[i.action], i.pkg,
                       IF ActionMap[i.action] = "Install" /\ i.reason = "clean" THEN "dependency"
                       ELSE i.reason) : i \in e.rpms},
   ids |-> {GroupItem(ActionMap[i.action], i.id) : i \in e.ids}]

Lenient(skip) == [installed |-> TRUE, extras |-> TRUE, skip |-> skip]

Undo ==
  \E t \in DOMAIN log :
    \E data \in {Reverted(Serialized(log[t]), log[t].why)}, skip \in BOOLEAN :
      Replayed(data, Lenient(skip), "undo", t - 1)

\* Defect: every transaction of the loop begins the merging anew.
SinceLast(t) == SubSeq(log, Len(log), Len(log))

\* The transactions after t.
Since(t) == SubSeq(log, t + 1, Len(log))

\* _hcmd_rollback; to the last transaction it does nothing.
Rollback ==
  \E t \in 1..(Len(log) - 1) :
    \E data \in {Reverted(Merged(Since(t)), log[t + 1].why)}, skip \in BOOLEAN :
      Replayed(data, Lenient(skip), "rollback", t)

Redo ==
  \E t \in DOMAIN log, skip \in BOOLEAN :
    Replayed(Serialized(log[t]), Lenient(skip), "redo", t)

Replay ==
  /\ file # NoFile
  /\ \E o \in Options : Replayed(file, o, IF TRUE \in {o.installed, o.extras, o.skip}
                                          THEN "replay" ELSE "exact replay", 0)

\* One of the commands, in a dnf that allows another transaction.
Command == Room /\ UNCHANGED count /\ (Undo \/ Rollback \/ Redo \/ Replay)

Next ==
  \/ Ordinary \/ OrdinaryRemove \/ OrdinaryMark \/ OrdinaryGroup \/ Outside \/ Publish
  \/ Store \/ Command

Spec == Init /\ [][Next]_vars

------------------------------------------------------------------------------
\* Every variable has the type the code gives it.
TypeOK ==
  /\ installed \subseteq Package /\ reason \in [Name -> Reason] /\ groups \subseteq Id
  /\ \A k, l \in installed : k[1] = l[1] => k = l
  /\ \A t \in DOMAIN log : \A i \in log[t].rpms : i.action \in Action /\ i.pkg \in Package
  /\ \A i \in file.ids : i.action \in {"Install", "Removed", "Upgrade", "Downgrade"}

\* What was there after transaction t.
After(t) == IF t = Len(log) THEN installed ELSE log[t + 1].was
GroupsAfter(t) == IF t = Len(log) THEN groups ELSE log[t + 1].groups

\* "Undo all transactions performed after the specified transaction"
\* (doc/command_ref.rst:789): a rollback, or an undo of the last transaction, that
\* reports no problem brings back the versions and the groups there were,
\* whatever the transactions in between did, themselves replays or not, as long
\* as only dnf has changed packages and none installed a group once more, which
\* a replay does not notice (transaction_sr.py:368).
Restores ==
  (/\ did'.cmd = "rollback" \/ (did'.cmd = "undo" /\ did'.to = Len(log) - 1)
   /\ ~did'.warned /\ \A t \in outside : t <= did'.to
   /\ \A t \in DOMAIN log : \A i \in log[t].ids :
        t > did'.to /\ i.action = "Install" => i.id \notin log[t].groups) =>
     installed' = After(did'.to) /\ groups' = GroupsAfter(did'.to)

\* Every step of `dnf history rollback' or `undo' restores (commands/history.py:191).
RollbackRestores == [][Restores]_vars

Effect(items) == {<<i.action, i.pkg>> : i \in {j \in items : j.action # "Reason Change"}}

\* "The replay will perform the exact same operations on the packages as in the
\* original transaction" (doc/command_ref.rst:765): with no option that allows a
\* difference, whatever has changed since the transaction was stored.  A replay
\* that records nothing had nothing to do.
ReplaysExactly ==
  did'.cmd = "exact replay" =>
    Effect(file.rpms) = IF log' = log THEN {} ELSE Effect(log'[Len(log')].rpms)

\* Every step of `dnf history replay' without options is exact (transaction_sr.py:276).
ReplayIsExact == [][ReplaysExactly]_vars
==============================================================================
