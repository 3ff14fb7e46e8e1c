----------------------------- MODULE ShellSession -----------------------------
(******************************************************************************)
(* What a Base is asked for in a session of `dnf shell': the commands that    *)
(* mark packages (dnf/cli/commands, dnf/base.py), the resolution of the       *)
(* requests into a transaction (dnf/base.py resolve, _goal2transaction,       *)
(* dnf/db/group.py RPMTransaction) and the transaction of the shell           *)
(* (dnf/cli/commands/shell.py).  The solver, rpm and the history database are *)
(* modelled from the way the code uses them.  A dnf that runs one command is  *)
(* a session with one command.                                                *)
(******************************************************************************)
EXTENDS Naturals, FiniteSets

CONSTANTS
  Name,         \* names of packages
  Repo,
  Content,      \* the packages each repository has
  Obsoletes,    \* the other names each package obsoletes
  Requires,     \* the names a package with some name requires, transitively
  Conflicts,    \* pairs of names that cannot be installed together
  Secure,       \* packages of a security advisory
  Protected,    \* conf.protected_packages
  Seeds,        \* packages that may be installed in the beginning
  MaxCommands,  \* bound: commands of a session
  MaxRuns       \* bound: transactions

Version == {1, 2}
Package == Name \X Version
Reason == {"unknown", "dependency", "group", "user"}

VARIABLES
  installed,    \* packages in the rpm database
  reason,       \* why each name is installed, by the history database
  origin,       \* and from which repository
  stored,       \* what besides packages is stored: "module", "comps"
  session,      \* see Session
  count         \* commands, runs, and is something requested?

vars == <<installed, reason, origin, stored, session, count>>

\* A request of the goal: one of `from' is to be installed, from one of `in',
\* unless it is only optional; none is to be; or what is installed is to become
\* the newest.
Job == [do : {"install", "reinstall", "erase", "upgrade", "sync"}, from : SUBSET Package,
        in : SUBSET Repo, must : BOOLEAN, clean : BOOLEAN]

\* An item of the transaction the history database is about to record.
Item == [do : {"install", "erase", "reinstall"}, pkg : Package, reason : Reason,
         repo : Repo \cup {"none"}]

\* allow: demands.allow_erasing; clean: conf.clean_requirements_on_remove;
\* secure: _update_security_options; hidden: repositories disabled in the sack;
\* ready: there is a Base.transaction; items: what it consists of; changed: marks
\* of groups, states of modules; ok (history): the last resolution succeeded.
Session ==
  [jobs : SUBSET Job, allow : BOOLEAN, clean : BOOLEAN, secure : BOOLEAN, enabled : SUBSET Repo,
   hidden : SUBSET Repo, ready : BOOLEAN, items : SUBSET Item, changed : SUBSET {"module", "comps"},
   ok : BOOLEAN]

\* clean_requirements_on_remove is on unless it is configured away.
Start(clean) ==
  [jobs |-> {}, allow |-> FALSE, clean |-> clean, secure |-> FALSE, enabled |-> Repo,
   hidden |-> {}, ready |-> FALSE, items |-> {}, changed |-> {}, ok |-> TRUE]

Init ==
  /\ installed \in Seeds
  /\ reason \in {[n \in Name |-> IF \E k \in installed : k[1] = n THEN r[n] ELSE "unknown"] :
                   r \in [Name -> {"user", "dependency"}]}
  /\ origin = [n \in Name |-> "none"]
  /\ stored = {}
  /\ session = Start(TRUE)
  /\ count = [commands |-> 0, runs |-> 0, asked |-> FALSE]

------------------------------------------------------------------------------
(* Queries.  The sack holds what is installed and what enabled repositories *)
(* have; it is filled anew when either changes.                             *)

Available(s) == UNION {Content[r] : r \in s.enabled \ s.hidden}
Sack(s) == installed \cup Available(s)
Of(n, S) == {k \in S : k[1] = n}
Names(S) == {k[1] : k \in S}
Newest(S) == {k \in S : \A l \in Of(k[1], S) : l[2] <= k[2]}
Obsoleters(s, S) == {k \in Available(s) : Obsoletes[k] \cap Names(S) # {}}
Upgrades(s) == {k \in Available(s) : \E l \in Of(k[1], installed) : l[2] < k[2]}
Downgrades(s) == {k \in Available(s) : \E l \in Of(k[1], installed) : l[2] > k[2]}

AskIn(s, do, from, in, must, clean) ==
  [s EXCEPT !.jobs = @ \cup {[do |-> do, from |-> from, in |-> in, must |-> must,
                              clean |-> clean]}]
Ask(s, do, from, must, clean) == AskIn(s, do, from, Repo, must, clean)

------------------------------------------------------------------------------
(* Marking: Base.install, upgrade, remove ... for one name.  A name that does *)
(* not match raises a MarkingError, which the commands log.                   *)

\* Base.install; one repository's packages only, if `in' is not all of them.
InstallFrom(s, n, in, strict) ==
  LET of == UNION {Content[r] : r \in in \cap (s.enabled \ s.hidden)}
      all == Of(n, Sack(s))
      q == all \cup Obsoleters(s, Newest(all))
      wanted == IF in = Repo THEN q ELSE q \cap of
  IN IF wanted = {} THEN s ELSE AskIn(s, "install", wanted, in, strict, FALSE)
Install(s, n, strict) == InstallFrom(s, n, Repo, strict)

\* Base._merge_update_filters
Filtered(s, q) == IF s.secure THEN q \cap Secure ELSE q

\* Base._upgrade_internal; in: the repositories looked at, or all and what is
\* installed.
UpgradeInternal(s, q, in) ==
  LET relevant == {k \in q : k[1] \in Names(installed)}
      obsoleting == Obsoleters(s, (relevant \cap installed) \cup (relevant \cap Upgrades(s)))
      of == UNION {Content[r] : r \in in}
      wanted == Filtered(s, (q \cup obsoleting) \cap (IF in = Repo THEN Sack(s) ELSE of))
  IN IF wanted = {} THEN s
     ELSE AskIn(s, "upgrade", wanted \cup {k \in Newest(installed) : k[1] \in Names(wanted)},
                in, FALSE, FALSE)

\* Base.upgrade
UpgradeFrom(s, n, in) ==
  LET q == Of(n, Sack(s)) IN
  IF n \in Names(installed) \/ Obsoleters(s, installed) \cap q # {}
  THEN UpgradeInternal(s, q, in) ELSE s
Upgrade(s, n) == UpgradeFrom(s, n, Repo)

\* Base.upgrade_all
UpgradeAll(s) == UpgradeInternal(s, Sack(s), Repo)

\* Base.remove and package_remove
Remove(s, n) ==
  IF n \in Names(installed) THEN Ask(s, "erase", Of(n, installed), TRUE, s.clean) ELSE s

\* What no package but one the user installed requires.
Unneeded ==
  LET kept == {n \in Names(installed) : reason[n] # "dependency"} IN
  {k \in installed : k[1] \notin kept \cup UNION {Requires[n] : n \in kept}}

\* Base.autoremove without specs: unneeded protected packages are kept, with
\* what they require.
AutoremoveAll(s) ==
  LET kept == Names(Unneeded) \cap Protected
      gone == {k \in Unneeded : k[1] \notin kept \cup UNION {Requires[n] : n \in kept}}
  IN IF gone = {} THEN s ELSE Ask(s, "erase", gone, TRUE, FALSE)

\* Base.reinstall of some installed packages from some repositories; what they
\* do not have is left alone, or removed (remove_na).
ReinstallFrom(s, mine, in, remove) ==
  LET q == mine \cap UNION {Content[r] : r \in in \cap (s.enabled \ s.hidden)}
      t == IF q = {} THEN s ELSE AskIn(s, "reinstall", q, in, TRUE, FALSE)
  IN IF remove /\ mine \ q # {} THEN Ask(t, "erase", mine \ q, TRUE, s.clean) ELSE t
Reinstall(s, n) == ReinstallFrom(s, Of(n, installed), Repo, FALSE)

\* Base.downgrade_to
Downgrade(s, n, strict) ==
  LET q == Of(n, Downgrades(s)) IN
  IF q = {} THEN s ELSE Ask(s, "install", q, strict, FALSE)

\* Base.distro_sync
DistroSync(s, names) ==
  LET q == {k \in Available(s) : k[1] \in names \/ Obsoletes[k] \cap names # {}} IN
  IF q = {} THEN s ELSE Ask(s, "sync", q, FALSE, FALSE)

------------------------------------------------------------------------------
(* Commands: configure and run.  Those that need repositories refuse to run  *)
(* without one (_checkEnabledRepo); one shell serves them all, and what they *)
(* set in its demands, its configuration and its Base stays.                 *)

AnyRepo(s) == s.enabled # {}

\* InstallCommand: the error for what does not match comes after the rest is
\* marked.
InstallCommand(s) ==
  IF ~AnyRepo(s) THEN {}
  ELSE {Install(s, n, strict) : n \in Name, strict \in BOOLEAN}
       \cup {Install(Install(s, x[1], TRUE), x[2], TRUE) : x \in Name \X Name}

\* UpgradeCommand and UpgradeMinimalCommand, with --security or without.
Secured(s, secure) == [s EXCEPT !.secure = @ \/ secure]
UpgradeCommand(s) ==
  IF ~AnyRepo(s) THEN {}
  ELSE {Upgrade(Secured(s, secure), n) : n \in Name, secure \in BOOLEAN}
       \cup {UpgradeAll(Secured(s, secure)) : secure \in BOOLEAN}

\* RemoveCommand, and AutoremoveCommand with specs.
Erasing(s, auto) == [s EXCEPT !.allow = TRUE, !.clean = @ \/ auto]
RemoveCommand(s) == {Remove(Erasing(s, auto), n) : n \in Name, auto \in BOOLEAN}

AutoremoveCommand(s) == {AutoremoveAll(s)}

ReinstallCommand(s) == IF AnyRepo(s) THEN {Reinstall(s, n) : n \in Name} ELSE {}

DowngradeCommand(s) == IF AnyRepo(s) THEN {Downgrade(s, n, strict) : n \in Name, strict \in BOOLEAN} ELSE {}

DistroSyncCommand(s) ==
  IF AnyRepo(s) THEN {DistroSync(s, names) : names \in {{n} : n \in Name} \cup {Name}} ELSE {}

\* SwapCommand runs the other two without configuring them.
SwapCommand(s) ==
  IF AnyRepo(s) THEN {Remove(Install(s, x[1], TRUE), x[2]) : x \in Name \X Name} ELSE {}

\* RepoPkgsCommand: its subcommands for all packages of repository r, or those of
\* some names.  ns: the names; From: what was installed from r.
From(r, ns) == {k \in installed : origin[k[1]] = r /\ k[1] \in ns}
RepoInstall(s, r, ns) == [s EXCEPT !.jobs = UNION {InstallFrom(s, n, {r}, TRUE).jobs : n \in ns}]
RepoUpgrade(s, r, ns) ==
  IF ns = Name THEN UpgradeInternal(s, Sack(s), {r}) ELSE UpgradeFrom(s, CHOOSE n \in ns : TRUE, {r})
RepoMoveTo(s, r, ns) == ReinstallFrom(s, {k \in installed : k[1] \in ns}, {r}, FALSE)
RepoReinstallOld(s, r, ns) == ReinstallFrom(s, From(r, ns), {r}, FALSE)
RepoReinstall(s, r, ns) ==
  LET t == RepoReinstallOld(s, r, ns) IN IF t = s THEN RepoMoveTo(s, r, ns) ELSE t
RepoRemove(s, r, ns) ==
  LET t == Erasing(s, FALSE) IN
  IF From(r, ns) = {} THEN t ELSE Ask(t, "erase", From(r, ns), TRUE, s.clean)
\* r is disabled in the sack; what others have is synchronized, the rest removed.
RepoRemoveOrDistroSync(s, r, ns) ==
  LET t == [s EXCEPT !.hidden = @ \cup {r}]
      there == {k \in From(r, ns) : k[1] \in Names(Available(t))}
      gone == From(r, ns) \ there
      u == IF there = {} THEN t
           ELSE Ask(t, "sync", {k \in Available(t) : k[1] \in Names(there)}, FALSE, FALSE)
  IN IF gone = {} THEN u ELSE Ask(u, "erase", gone, TRUE, s.clean)
RepoRemoveOrReinstall(s, r, ns) == ReinstallFrom(s, From(r, ns), Repo \ {r}, TRUE)

RepoPkgsCommand(s) ==
  UNION {{RepoInstall(s, r, ns), RepoUpgrade(s, r, ns), RepoMoveTo(s, r, ns),
          RepoReinstallOld(s, r, ns), RepoReinstall(s, r, ns), RepoRemove(s, r, ns),
          RepoRemoveOrDistroSync(s, r, ns), RepoRemoveOrReinstall(s, r, ns)} :
           r \in s.enabled, ns \in {{n} : n \in Name} \cup {Name}}

\* Commands that change the states of modules, or the marks of groups.
OtherCommand(s) == {[s EXCEPT !.changed = @ \cup {x}] : x \in {"module", "comps"}}

Commands(s) ==
  UNION {InstallCommand(s), UpgradeCommand(s), RemoveCommand(s), AutoremoveCommand(s),
         ReinstallCommand(s), DowngradeCommand(s), DistroSyncCommand(s), SwapCommand(s),
         RepoPkgsCommand(s), OtherCommand(s)}

\* ShellCommand.onecmd
Command ==
  /\ count.commands < MaxCommands /\ count.runs < MaxRuns
  /\ session' \in Commands(session)
  /\ count' = [count EXCEPT !.commands = @ + 1, !.asked = TRUE]
  /\ UNCHANGED <<installed, reason, origin, stored>>

------------------------------------------------------------------------------
(* The solver: it finds what fulfils every request with as few changes as      *)
(* possible, and removes what nobody asked it to remove only if it is allowed. *)

OneVersion(w) == \A k, l \in w : k[1] = l[1] => k = l
Consistent(w) ==
  /\ OneVersion(w)
  /\ \A k \in w : /\ Requires[k[1]] \subseteq Names(w)
                  /\ Obsoletes[k] \cap Names(w) = {}
                  /\ \A l \in w : <<k[1], l[1]>> \notin Conflicts

Clash(k, l) == <<k[1], l[1]>> \in Conflicts \/ <<l[1], k[1]>> \in Conflicts

Fulfilled(j, w) ==
  CASE j.do \in {"install", "reinstall"} -> j.must => j.from \cap w # {}
    [] j.do = "erase" -> j.from \cap w = {}
    [] OTHER -> TRUE

\* Why a package may come, or go.
Comes(s, k, w) ==
  \/ \E j \in s.jobs : j.do \in {"install", "sync"} /\ k \in j.from
  \/ \E j \in s.jobs : j.do = "upgrade" /\ k \in j.from /\
       \E l \in installed : l[1] \in {k[1]} \cup Obsoletes[k]
  \/ \E l \in w \ installed : k[1] \in Requires[l[1]] /\ k[1] \notin Names(installed)
Goes(s, k, w) ==
  \/ \E j \in s.jobs : j.do = "erase" /\ k \in j.from
  \/ \E l \in w \ installed : l[1] = k[1] \/ k[1] \in Obsoletes[l]
  \/ s.allow /\ (~(Requires[k[1]] \subseteq Names(w)) \/ \E l \in w : Clash(k, l))
  \/ /\ \E j \in s.jobs : j.do = "erase" /\ j.clean
     /\ reason[k[1]] = "dependency" /\ \A l \in w : k[1] \notin Requires[l[1]]

Solutions(s) ==
  {w \in SUBSET Sack(s) :
     /\ Consistent(w)
     /\ \A j \in s.jobs : Fulfilled(j, w)
     /\ \A k \in w \ installed : Comes(s, k, w)
     /\ \A k \in installed \ w : Goes(s, k, w)
     /\ Names(installed) \cap Protected \subseteq Names(w)}

\* Requests to be up to date or optional that w leaves open, and its changes.
Open(s, w) ==
  {j \in s.jobs : j.do \in {"upgrade", "sync", "install"} /\ Newest(j.from) \cap w = {}}
Changes(w) == (w \ installed) \cup (installed \ w)
Cost(s, w) == 10 * Cardinality(Open(s, w)) + Cardinality(Changes(w))
Cheapest(s, ws) ==
  LET cost == [w \in ws |-> Cost(s, w)] IN
  CHOOSE w \in ws : \A v \in ws : cost[w] <= cost[v]

------------------------------------------------------------------------------
(* Base.resolve, _goal2transaction and RPMTransaction.                     *)

Rank == [unknown |-> 0, dependency |-> 1, group |-> 2, user |-> 3]
Best(S) == CHOOSE r \in S : \A q \in S : Rank[q] <= Rank[r]

\* HyGoal.get_reason
GoalReason(s, k) ==
  IF \E j \in s.jobs : j.do = "install" /\ k \in j.from THEN "user" ELSE "dependency"

\* What k replaces.
Replaced(k, w) == {l \in installed \ w : l[1] = k[1] \/ l[1] \in Obsoletes[k]}

\* Defect: the reason of what is obsoleted is not inherited.
GoalReasonOnly(s, k, w) ==
  IF k[1] \in Names(installed) THEN reason[k[1]] ELSE GoalReason(s, k)

\* An update keeps its reason (RPMTransaction.get_reason), whatever it obsoletes;
\* what is new has the best reason of the goal and of what it obsoletes.
NewReason(s, k, w) ==
  IF k[1] \in Names(installed) THEN reason[k[1]]
  ELSE Best({GoalReason(s, k)} \cup {reason[l[1]] : l \in Replaced(k, w)})

\* The repository a package is taken from: one the request allows, if there is one.
Source(s, k) ==
  LET have == {r \in s.enabled \ s.hidden : k \in Content[r]}
      asked == UNION {j.in : j \in {i \in s.jobs : i.do # "erase" /\ k \in i.from}}
  IN IF have = {} THEN "none" ELSE CHOOSE r \in have : have \cap asked # {} => r \in asked

\* Base._goal2transaction
Goal2Transaction(s, w) ==
  LET item(do, k, r, repo) == [do |-> do, pkg |-> k, reason |-> r, repo |-> repo] IN
  {item("install", k, NewReason(s, k, w), Source(s, k)) : k \in w \ installed}
  \cup {item("erase", k, reason[k[1]], "none") : k \in installed \ w}
  \cup {item("reinstall", k, reason[k[1]], Source(s, k)) :
          k \in {l \in w \cap installed : \E j \in s.jobs : j.do = "reinstall" /\ l \in j.from}}

\* Base.resolve: the items are added to those the history database already has;
\* on a DepsolveError nothing is.
Resolved(s) ==
  LET ws == Solutions(s) IN
  IF ws = {} THEN [s EXCEPT !.ok = FALSE]
  ELSE [s EXCEPT !.ready = TRUE, !.items = @ \cup Goal2Transaction(s, Cheapest(s, ws)), !.ok = TRUE]

\* `transaction list' and `resolvedep' (ShellCommand._resolve).
Resolve ==
  /\ count.asked
  /\ session' = Resolved(session)
  /\ UNCHANGED <<installed, reason, origin, stored, count>>

\* Defect: the history is not closed, and with it the transaction stays open.
KeepsHistory(s) == [s EXCEPT !.jobs = {}, !.hidden = {}, !.ready = FALSE, !.changed = {}, !.ok = TRUE]

\* ShellCommand._clean: Base.fill_sack begins with Base.reset.  The demands, the
\* configuration and the options of the security filters stay.
Clean(s) == [s EXCEPT !.jobs = {}, !.hidden = {}, !.ready = FALSE, !.items = {}, !.changed = {}, !.ok = TRUE]

\* `transaction reset', and `repo enable' and `repo disable'.
Reset ==
  /\ count.asked
  /\ session' \in {[Clean(session) EXCEPT !.enabled = on] :
                     on \in {session.enabled} \cup {session.enabled \ {r} : r \in Repo}
                                \cup {session.enabled \cup {r} : r \in Repo}}
  /\ count' = [count EXCEPT !.asked = FALSE]
  /\ UNCHANGED <<installed, reason, origin, stored>>

After(items) ==
  (installed \ {i.pkg : i \in {j \in items : j.do = "erase"}})
    \cup {i.pkg : i \in {j \in items : j.do = "install"}}

\* _run_rpm_check finds nothing wrong with the items.
Checked(items) ==
  /\ Consistent(After(items))
  /\ \A i \in items : i.do = "install" <=> i.pkg \notin installed

\* _verify_transaction and the history: the reasons of what is now installed.
Reasons(items) ==
  [n \in Name |-> IF n \notin Names(After(items)) THEN "unknown"
                  ELSE LET new == {i.reason : i \in {j \in items : j.do = "install" /\ j.pkg[1] = n}}
                       IN IF new = {} THEN reason[n] ELSE Best(new)]

Origins(items) ==
  [n \in Name |->
     LET new == {i.repo : i \in {j \in items : j.do # "erase" /\ j.pkg[1] = n}} IN
     IF n \notin Names(After(items)) THEN "none" ELSE IF new = {} THEN origin[n] ELSE CHOOSE r \in new : TRUE]

\* `run' and `transaction run': what cannot be resolved is printed, and then
\* BaseCli.do_transaction is called, with the transaction there is, or none.
Run ==
  /\ count.asked /\ count.runs < MaxRuns
  /\ LET s == Resolved(session) IN
     /\ \/ /\ s.ready /\ s.items # {} /\ Checked(s.items)
           /\ installed' = After(s.items)
           /\ reason' = Reasons(s.items) /\ origin' = Origins(s.items)
           /\ stored' = stored \cup s.changed
           /\ session' = [Clean(s) EXCEPT !.ok = s.ok]
        \/ /\ ~s.ready \/ s.items = {}
           /\ stored' = stored \cup s.changed
           /\ session' = [Clean(s) EXCEPT !.ok = s.ok]
           /\ UNCHANGED <<installed, reason, origin>>
        \/ /\ session' = Clean(s)   \* an error, or the answer is no
           /\ UNCHANGED <<installed, reason, origin, stored>>
  /\ count' = [count EXCEPT !.asked = FALSE, !.runs = @ + 1]

\* MarkCommand, in a dnf of its own: its record is a transaction without packages.
Mark ==
  /\ ~count.asked /\ count.runs < MaxRuns
  /\ \E n \in Names(installed), r \in {"user", "dependency", "group"} :
       reason' = [reason EXCEPT ![n] = r]
  /\ session' = Start(session.clean)
  /\ count' = [count EXCEPT !.runs = @ + 1]
  /\ UNCHANGED <<installed, origin, stored>>

Next == Command \/ Resolve \/ Reset \/ Run \/ Mark

Spec == Init /\ [][Next]_vars

------------------------------------------------------------------------------
\* Every variable has the type the code gives it.
TypeOK ==
  /\ installed \subseteq Package /\ reason \in [Name -> Reason]
  /\ origin \in [Name -> Repo \cup {"none"}] /\ stored \subseteq {"module", "comps"}
  /\ session.jobs \subseteq Job /\ session.items \subseteq Item
  /\ session.enabled \cup session.hidden \subseteq Repo /\ session.changed \subseteq {"module", "comps"}
  /\ {session.allow, session.clean, session.secure, session.ready, session.ok} \subseteq BOOLEAN

\* A transaction of this session changes packages.
Carried == count'.runs > count.runs /\ installed' # installed

\* A run that resolves the requests for the first time since the last run, reset
\* or change of repositories leaves a solution of what was asked for since then:
\* no item of a transaction that was resolved and abandoned is left in the history
\* database to go along with it (base.py:581, shell.py:90).
LeavesWhatWasAsked == Carried /\ ~session.ready => installed' \in Solutions(session)

\* Nothing abandoned is carried out by a later run of the session (shell.py:90).
RunsWhatWasAsked == [][LeavesWhatWasAsked]_vars

\* A package the user asked for, or what replaces it, stays one that autoremove
\* does not touch, through upgrades, downgrades and obsoletes of the package, in
\* whatever order (base.py:788, db/group.py:230): the reason changes only by `mark',
\* and when the update of something else that was there obsoletes the package,
\* which keeps its own reason (base.py:823, db/group.py:295).
KeepsUser ==
  Carried =>
    \A k \in installed : reason[k[1]] = "user" =>
      \/ k[1] \in Names(installed') /\ reason'[k[1]] = "user"
      \/ \E l \in installed' : k[1] \in Obsoletes[l] /\ reason'[l[1]] = "user"
      \/ /\ k[1] \notin Names(installed')
         /\ \A l \in installed' : k[1] \in Obsoletes[l] => l[1] \in Names(installed)

\* No transaction of a session loses what the user asked for (base.py:788).
UserStaysUser == [][KeepsUser]_vars

\* "resolve and run the transaction set" (shell.py:216): when the requests cannot
\* be resolved, no package changes.
RunsResolved == Carried => session'.ok

\* Each `run' of a session carries out its own resolution (shell.py:216, 271).
RunsTheResolution == [][RunsResolved]_vars
==============================================================================
