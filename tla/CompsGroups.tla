------------------------------ MODULE CompsGroups ------------------------------
(****************************************************************************)
(* Groups and environments of packages: what the solver of dnf/comps.py     *)
(* records and requests, what dnf/db/group.py says may be removed, and what *)
(* dnf/base.py makes of it when the transaction is resolved and run.  One   *)
(* Base serves several transactions, as in `dnf shell'.  The history        *)
(* database (libdnf) is modelled from the way these files use it.           *)
(****************************************************************************)
EXTENDS Naturals, FiniteSets

CONSTANTS
  Pkg, Group, Env,
  Alike,          \* packages that differ in no more than what a record has of them
  CompsData,      \* contents the comps files of the repositories may have
  Seeds,          \* reasons the packages that are there at first may have
  MaxRequests,    \* bound: requests in one transaction
  MaxRuns         \* bound: transactions of the session

VARIABLES
  comps,      \* Base.comps
  installed,  \* names in the rpm database
  reason,     \* why, as the history knows
  db,         \* groups and environments, as the history knows
  session,    \* persistors and Base._comps_trans
  goal,       \* Base._goal, once the transaction is resolved
  count       \* requests and transactions so far

vars == <<comps, installed, reason, db, session, goal, count>>

PkgType == {"mandatory", "optional"}
Reason == {"user", "group", "dependency", "unknown"}

\* What the database keeps of a group or an environment (of: its members with
\* their types; present: those marked as installed).  No types: no record.
Record(Member) ==
  [types : SUBSET PkgType, of : [Member -> PkgType \cup {"no"}], present : SUBSET Member]
Nothing(Member) == [types |-> {}, of |-> [x \in Member |-> "no"], present |-> {}]
Known(table) == {x \in DOMAIN table : table[x].types # {}}
Members(record) == {x \in DOMAIN record.of : record.of[x] # "no"}

\* PersistorBase: what the transaction does to groups, or environments.
NoRecords(Id, Member) == [x \in Id |-> Nothing(Member)]
Persistor(Id, Member) ==
  [installed |-> NoRecords(Id, Member), removed |-> NoRecords(Id, Member),
   upgraded |-> NoRecords(Id, Member)]

\* TransactionBunch; own: what is to be installed or upgraded that is there as a
\* CompsTransPkg, and not as a libcomps object, which is never equal to one.
NoBunch == [install |-> {}, opt |-> {}, own |-> {}, upgrade |-> {}, remove |-> {}]

\* A Base with nothing requested; error: what the last request raised.
Fresh == [group |-> Persistor(Group, Pkg), env |-> Persistor(Env, Group),
          bunch |-> NoBunch, reasons |-> {}, error |-> "none"]

NoGoal == [on |-> FALSE, install |-> {}, upgrade |-> {}, erase |-> {}, members |-> {}]

Init ==
  /\ comps \in CompsData
  /\ reason \in Seeds
  /\ installed = {k \in Pkg : reason[k] # "unknown"}
  /\ db = [group |-> NoRecords(Group, Pkg), env |-> NoRecords(Env, Group)]
  /\ session = Fresh
  /\ goal = NoGoal
  /\ count = [requests |-> 0, runs |-> 0]

------------------------------------------------------------------------------
(* The history database, as the code uses it.                              *)

PackageGroups(k) == {g \in Group : k \in db.group[g].present}
GroupEnvironments(g) == {e \in Env : g \in db.env[e].present}

------------------------------------------------------------------------------
(* dnf/db/group.py                                                         *)

\* The members of a table's records that hold x and have it marked.
Holding(table, x) == {i \in Known(table) : x \in table[i].present}

\* Defect: the groups this transaction installs are not looked at.
RemovableUnlessKept(s, k) ==
  reason[k] = "group" /\ PackageGroups(k) \ Holding(s.group.removed, k) = {}

\* GroupPersistor.is_removable_pkg; what a transaction removes is in the database,
\* so its set.remove finds it.
RemovablePkg(s, k) ==
  /\ reason[k] = "group"
  /\ (PackageGroups(k) \ Holding(s.group.removed, k)) \cup Holding(s.group.installed, k) = {}

\* EnvironmentPersistor.is_removable_group
RemovableGroup(s, g) ==
  /\ g \in Known(db.group)
  /\ (GroupEnvironments(g) \ Holding(s.env.removed, g)) \cup Holding(s.env.installed, g) = {}

------------------------------------------------------------------------------
(* dnf/comps.py                                                            *)

\* TransactionBunch.__iadd__: what is installed or upgraded is not removed, as
\* far as the sets see that the packages are the same: a CompsTransPkg is equal to
\* another if it is as optional and has the same requirement, besides its name.
Add(b, c) ==
  LET own == b.own \cup c.own IN
  [install |-> b.install \cup c.install, opt |-> b.opt \cup c.opt, own |-> own,
   upgrade |-> b.upgrade \cup c.upgrade, remove |-> (b.remove \cup c.remove) \ (own \cap Alike)]

Request(s, b) == [s EXCEPT !.bunch = Add(@, b)]

\* Solver._pkgs_of_type
PkgsOfType(g, types) == {k \in Pkg : comps.group[g][k] \in types}

\* The record _group_install and _group_upgrade make: a package counts as
\* installed if another group has it.
NewGroup(g, types) ==
  [types |-> types, of |-> comps.group[g],
   present |-> {k \in Pkg : comps.group[g][k] # "no" /\ PackageGroups(k) # {}}]

\* The persistor's records of gs become those `of' makes.
Marked(records, gs, of(_)) == [g \in Group |-> IF g \in gs THEN of(g) ELSE records[g]]

\* Solver._group_install of each of gs.
GroupInstall(s, gs, types, strict) ==
  LET new(g) == NewGroup(g, types)
      names == UNION {PkgsOfType(g, types) : g \in gs}
  IN Request([s EXCEPT !.group.installed = Marked(@, gs, new)],
             IF strict THEN [NoBunch EXCEPT !.install = names] ELSE [NoBunch EXCEPT !.opt = names])

\* Solver._group_remove of each of gs: when the last of them that has a package
\* is marked, it is as removable as when all are.
GroupRemove(s, gs) ==
  LET old(g) == db.group[g]
      marked == [s EXCEPT !.group.removed = Marked(@, gs, old)]
      names == UNION {Members(db.group[g]) : g \in gs}
  IN Request(marked, [NoBunch EXCEPT !.remove = {k \in names : RemovablePkg(marked, k)}])

\* Solver._group_upgrade of each of gs.
GroupUpgrade(s, gs) ==
  LET record(g) == NewGroup(g, db.group[g].types)
      old(g) == Members(db.group[g])
      new(g) == PkgsOfType(g, db.group[g].types)
  IN Request([s EXCEPT !.group.upgraded = Marked(@, gs, record)],
             [NoBunch EXCEPT !.install = UNION {new(g) \ old(g) : g \in gs},
                             !.upgrade = UNION {new(g) \cap old(g) : g \in gs},
                             !.own = UNION {new(g) : g \in gs},
                             !.remove = UNION {old(g) \ new(g) : g \in gs}])

\* The groups of an environment the comps know; mandatory ones count as
\* installed, whatever becomes of them.
NewEnv(e, types, exclude) ==
  [types |-> types, of |-> [g \in Group |-> IF g \in exclude THEN "no" ELSE comps.env[e][g]],
   present |-> {g \in Group \ exclude : comps.env[e][g] = "mandatory"}]

\* Solver._environment_install
EnvInstall(s, e, types, strict, exclude) ==
  LET new == NewEnv(e, types, exclude) IN
  GroupInstall([s EXCEPT !.env.installed[e] = new], new.present, types, strict)

\* Solver._environment_remove
EnvRemove(s, e) ==
  LET marked == [s EXCEPT !.env.removed[e] = db.env[e]] IN
  GroupRemove(marked, {g \in Members(db.env[e]) : RemovableGroup(marked, g)})

\* Solver._environment_upgrade: groups it had and that are still there are
\* upgraded, mandatory ones it did not have are installed.
EnvUpgrade(s, e) ==
  LET old == Members(db.env[e])
      types == db.env[e].types
      new == NewEnv(e, types, {})
      t == GroupUpgrade(s, Members(new) \cap old \cap Known(db.group))
  IN [GroupInstall(t, new.present \ old, types, TRUE) EXCEPT !.env.upgraded[e] = new]

------------------------------------------------------------------------------
(* Requests: Base.env_group_*, `group mark', and the queries behind them.  *)

GroupsInComps == {g \in Group : \E k \in Pkg : comps.group[g][k] # "no"}
EnvsInComps == {e \in Env : \E g \in Group : comps.env[e][g] # "no"}

\* CompsQuery.get for one pattern, which names a group or an environment.
QueryGroups(status) ==
  (IF "available" \in status THEN GroupsInComps ELSE {}) \cup
  (IF "installed" \in status THEN Known(db.group) ELSE {})
QueryEnvs(status) ==
  (IF "available" \in status THEN EnvsInComps ELSE {}) \cup
  (IF "installed" \in status THEN Known(db.env) ELSE {})

Raise(s, what) == [s EXCEPT !.error = what]

\* Base.env_group_install: what matches is marked, even when the error for what
\* does not is raised in the end.
InstallRequest(s, id, types, strict, miss) ==
  LET t == IF id \in QueryGroups({"available"}) THEN GroupInstall(s, {id}, types, strict)
           ELSE IF id \in QueryEnvs({"available"}) THEN EnvInstall(s, id, types, strict, {})
           ELSE s
      missing == miss \/ id \notin GroupsInComps \cup EnvsInComps
  IN IF missing /\ strict THEN Raise(t, "NothingToDo") ELSE t

\* Base.env_group_remove: one pattern that does not match ends it.
RemoveRequest(s, id) ==
  IF id \in QueryEnvs({"installed"}) THEN EnvRemove(s, id)
  ELSE IF id \in QueryGroups({"installed"}) THEN GroupRemove(s, {id})
  ELSE Raise(s, "NothingMarked")

\* Base.env_group_upgrade; the CompsError of a group that has gone from the
\* comps is logged.
UpgradeRequest(s, id) ==
  IF id \in QueryEnvs({"installed"}) /\ id \in EnvsInComps THEN EnvUpgrade(s, id)
  ELSE IF id \in QueryGroups({"installed"}) /\ id \in GroupsInComps THEN GroupUpgrade(s, {id})
  ELSE Raise(s, "NothingMarked")

\* GroupCommand._mark_install and _mark_remove drop what the solver requests.
MarkRequest(s, id, types, install) ==
  LET t == IF install
           THEN IF id \in GroupsInComps THEN GroupInstall(s, {id}, types, TRUE)
                ELSE IF id \in EnvsInComps THEN EnvInstall(s, id, types, TRUE, {})
                ELSE Raise(s, "CompsError")
           ELSE RemoveRequest(s, id)
  IN [t EXCEPT !.bunch = s.bunch]

Requests(s, id) ==
  {InstallRequest(s, id, types, strict, miss) :
     types \in {{"mandatory"}, PkgType}, strict \in BOOLEAN, miss \in BOOLEAN}
  \cup {RemoveRequest(s, id), UpgradeRequest(s, id)}
  \cup {MarkRequest(s, id, {"mandatory"}, install) : install \in BOOLEAN}

\* An environment may only be asked for when its mandatory groups are known.
Ask ==
  /\ count.requests < MaxRequests /\ count.runs < MaxRuns /\ ~goal.on
  /\ \E id \in Group \cup Env :
       session' \in Requests([session EXCEPT !.error = "none"], id)
  /\ count' = [count EXCEPT !.requests = @ + 1]
  /\ UNCHANGED <<comps, installed, reason, db, goal>>

------------------------------------------------------------------------------
(* dnf/base.py: resolve and run.                                           *)

\* Base._remove_if_unneeded; safe: what no user-installed package needs.
Unneeded(s, names, safe) == {k \in names \cap installed : RemovablePkg(s, k)} \cap safe
StillNeeded(s, names, safe) == {k \in names \cap installed : RemovablePkg(s, k)} \ safe

\* Base._finalize_comps_trans and the rest of Base.resolve, when it succeeds.
Resolve ==
  /\ ~goal.on /\ count.requests > 0
  /\ LET b == session.bunch IN
     \E safe \in SUBSET (b.remove \cap installed) :
       /\ goal' = [on |-> TRUE, install |-> b.install \cup b.opt, upgrade |-> b.upgrade,
                   erase |-> Unneeded(session, b.remove, safe),
                   members |-> b.install \cup b.opt \cup b.upgrade \cup b.remove]
       /\ session' = [session EXCEPT !.reasons = StillNeeded(session, b.remove, safe)]
  /\ UNCHANGED <<comps, installed, reason, db, count>>

\* Which record of x the database ends up with.
Outcomes(p, old, x) ==
  LET new == {p[f][x] : f \in {g \in {"installed", "upgraded"} : p[g][x].types # {}}}
      gone == IF p.removed[x].types # {} THEN {[p.removed[x] EXCEPT !.types = {}, !.present = {},
                                                 !.of = [y \in DOMAIN @ |-> "no"]]} ELSE {}
  IN IF new \cup gone = {} THEN {old[x]} ELSE new \cup gone

Finals(p, old) ==
  {t \in [DOMAIN old -> UNION {Outcomes(p, old, x) : x \in DOMAIN old}] :
     \A x \in DOMAIN old : t[x] \in Outcomes(p, old, x)}

\* Base.reset(goal=True): the history is closed, the persistors are gone.
Reset(s) == Fresh

\* _verify_transaction marks the packages of the transaction's groups that are
\* now there, unless there was no package to change.
Verified(p, table, now, ran) ==
  [g \in Group |-> IF ran /\ g \in Known(p.installed) \cup Known(p.upgraded)
                   THEN [table[g] EXCEPT !.present = @ \cup (Members(table[g]) \cap now)]
                   ELSE table[g]]

\* The transaction is run and recorded; then ShellCommand._clean.
Run ==
  /\ goal.on /\ goal.install \cap goal.erase = {}
  /\ LET new == goal.install \ installed
         now == (installed \cup new) \ goal.erase
         ran == new # {} \/ goal.erase # {}
     IN /\ installed' = now
        /\ reason' = [k \in Pkg |->
             IF k \in new THEN IF k \in goal.members THEN "group" ELSE "user"
             ELSE IF k \notin now THEN "unknown"
             ELSE IF k \in session.reasons THEN "dependency" ELSE reason[k]]
        /\ \E groups \in Finals(session.group, db.group), envs \in Finals(session.env, db.env) :
             db' = [group |-> Verified(session.group, groups, now, ran), env |-> envs]
  /\ session' = Reset(session) /\ goal' = NoGoal
  /\ count' = [requests |-> 0, runs |-> count.runs + 1]
  /\ UNCHANGED comps

\* DepsolveError, an answer of no, or `transaction reset'.
GiveUp ==
  /\ count.requests > 0
  /\ session' = Reset(session) /\ goal' = NoGoal
  /\ count' = [count EXCEPT !.requests = 0]
  /\ UNCHANGED <<comps, installed, reason, db>>

\* The repositories publish other groups; the next Base reads them.
Publish ==
  /\ count.requests = 0 /\ ~goal.on
  /\ comps' \in CompsData \ {comps}
  /\ UNCHANGED <<installed, reason, db, session, goal, count>>

\* `dnf mark', `dnf install' and `dnf remove' of a package by its name.
OtherRequest ==
  /\ count.requests = 0 /\ count.runs < MaxRuns /\ ~goal.on
  /\ \E k \in Pkg :
       \/ /\ k \in installed
          /\ \E r \in {"user", "group", "dependency"} : reason' = [reason EXCEPT ![k] = r]
          /\ UNCHANGED installed
       \/ /\ installed' = installed \cup {k}
          /\ reason' = [reason EXCEPT ![k] = "user"]
       \/ /\ installed' = installed \ {k}
          /\ reason' = [reason EXCEPT ![k] = "unknown"]
  /\ count' = [count EXCEPT !.runs = @ + 1]
  /\ UNCHANGED <<comps, db, session, goal>>

Next == Ask \/ Resolve \/ Run \/ GiveUp \/ Publish \/ OtherRequest

Spec == Init /\ [][Next]_vars

------------------------------------------------------------------------------
\* Every variable has the type the code gives it.
TypeOK ==
  /\ comps \in CompsData
  /\ installed \subseteq Pkg /\ reason \in [Pkg -> Reason]
  /\ db.group \in [Group -> Record(Pkg)] /\ db.env \in [Env -> Record(Group)]
  /\ \A f \in {"installed", "removed", "upgraded"} :
       session.group[f] \in [Group -> Record(Pkg)] /\ session.env[f] \in [Env -> Record(Group)]
  /\ \A f \in DOMAIN NoBunch : session.bunch[f] \subseteq Pkg
  /\ \A f \in DOMAIN NoGoal \ {"on"} : goal[f] \subseteq Pkg

\* What a transaction of groups takes away, the groups it leaves behind do not
\* count as there, whatever else was asked for in it: no group that stays or comes
\* is left with a mark for a package that has gone, except one that was upgraded,
\* which is_removable_pkg does not look at (db/group.py:128) although its record is
\* made with the marks of the group that goes (comps.py:716).
GoneIsUnmarked ==
  goal.on => \A k \in installed \ installed', g \in Group :
    k \in db'.group[g].present => g \in Known(session.group.upgraded)

\* No mark of a group outlives what it is for (db/group.py:114-139).
NoMarkOfWhatIsGone == [][GoneIsUnmarked]_vars

\* One transaction both installs and removes a package only because of a group
\* that was recorded without changing a package, so that its record does not say
\* which of its packages are there (base.py:965, 1220), or because a group is
\* upgraded to one that has a package of a removed group and the sets of a
\* TransactionBunch do not see that the two are the same (comps.py:460): otherwise
\* what is_removable_pkg says again when the transaction is resolved prevents it.
BothOnlyIfUnverified ==
  \A k \in goal.install \cap goal.erase :
    \/ \E g \in Known(db.group) : k \in Members(db.group[g]) \ db.group[g].present
    \/ k \notin Alike /\ \E g \in Known(session.group.upgraded) :
                          k \in Members(session.group.upgraded[g])
==============================================================================
