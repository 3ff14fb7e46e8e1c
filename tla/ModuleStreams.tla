----------------------------- MODULE ModuleStreams -----------------------------
(*******************************************************************************)
(* Streams and profiles of modules: dnf/module/module_base.py with the         *)
(* commands of dnf/cli/commands/module.py, one command per dnf or several in a *)
(* shell, up to the transaction that stores the states.  The container of the  *)
(* states and its solver (libdnf) are modelled from the way this code uses     *)
(* them; of packages only their names count.                                   *)
(*******************************************************************************)
EXTENDS FiniteSets, Naturals

CONSTANTS
  Mod, Profile, Pkg,
  Streams,         \* the streams of each module
  Default,         \* its default stream, or "none"
  Contents,        \* [Mod \X Stream -> [Profile -> SUBSET Pkg]]
  DefaultProfiles, \* [Mod \X Stream -> SUBSET Profile]
  Artifacts,       \* [Mod \X Stream -> SUBSET Pkg]
  Requires,        \* [Mod \X Stream -> SUBSET (Mod \X Stream)]
  FailSafes,       \* what streams may be only in the fail-safe repository
  NonModular,      \* packages that are available without a module
  Arguments,       \* what commands are given: module, stream or "any", profile or "any"
  MaxCommands,     \* bound: commands in a transaction
  MaxRuns          \* bound: transactions

Stream == UNION {Streams[m] : m \in Mod}
All == {x \in Mod \X Stream : x[2] \in Streams[x[1]]}
Reason == {"no", "user", "group"}

VARIABLES
  table,   \* ModulePackageContainer: the states as they are asked for
  stored,  \* the states on disk
  reason,  \* why each package is installed, or "no"
  goal,    \* what Base._goal was asked for: want, may (optional), gone, all (--all); unmet
           \* (history): what profiles have whose streams a switch-to left unresolved
  session  \* in a shell?, conf.strict and module_stream_switch, repositories

vars == <<table, stored, reason, goal, session>>

Unset == [state |-> "unknown", stream |-> "none", profiles |-> {}]
NoGoal == [want |-> {}, may |-> {}, gone |-> {}, all |-> FALSE, unmet |-> {}]

Init ==
  /\ table = [m \in Mod |-> Unset]
  /\ stored = table
  /\ reason \in {[x \in Pkg |-> IF x \in NonModular THEN r ELSE "no"] : r \in {"no", "user"}}
  /\ goal = NoGoal
  /\ session \in [shell : BOOLEAN, strict : BOOLEAN, switch : {FALSE}, failsafe : FailSafes,
                 commands : {0}, runs : {0}]

------------------------------------------------------------------------------
(* The container and its solver.                                           *)

Chosen(t, x) == t[x[1]].state = "enabled" /\ t[x[1]].stream = x[2]
Possible(t, x) == Chosen(t, x) \/ t[x[1]].state = "unknown"
Wanted(t, x) == Chosen(t, x) \/ (t[x[1]].state = "unknown" /\ Default[x[1]] = x[2])

\* isModuleActive, once the sack is updated.
Active(t) ==
  LET first == {x \in All : Wanted(t, x) /\ \A y \in Requires[x] : Possible(t, y)}
  IN first \cup UNION {Requires[x] : x \in first}

SolverErrors(t) == {x \in All : Chosen(t, x)} \ Active(t)

\* Another stream comes without the profiles of the one before.
Enable(t, m, s) ==
  [t EXCEPT ![m] = [state |-> "enabled", stream |-> s,
                    profiles |-> IF @.stream = s THEN @.profiles ELSE {}]]
EnableAll(t, xs) ==
  [m \in Mod |-> IF \E x \in xs : x[1] = m
                 THEN Enable(t, m, (CHOOSE x \in xs : x[1] = m)[2])[m] ELSE t[m]]

Install(t, x, ps) == [t EXCEPT ![x[1]].profiles = @ \cup ps]
Uninstall(t, x, ps) == IF Chosen(t, x) THEN [t EXCEPT ![x[1]].profiles = @ \ ps] ELSE t
Disable(t, m) == [t EXCEPT ![m] = [Unset EXCEPT !.state = "disabled"]]
Forget(t, m) == [t EXCEPT ![m] = Unset]

ProfilePkgNames(t, xs) == UNION {UNION {Contents[x][p] : p \in t[x[1]].profiles} : x \in xs}
InstalledPkgNames(t) == ProfilePkgNames(t, {x \in All : Chosen(t, x)})

\* getSwitchedStreams
Switched(t) == {m \in Mod : "none" \notin {stored[m].stream, t[m].stream}
                            /\ stored[m].stream # t[m].stream}

------------------------------------------------------------------------------
(* dnf/module/module_base.py, for one argument that names a module.        *)

\* _get_modules
Matching(spec) == {s \in Streams[spec.name] : spec.stream \in {"any", s}}

\* _create_module_dict_and_enable: the stream it decides on, if any.
Meant(t, spec) ==
  LET own == t[spec.name]
      S == Matching(spec)
      best == IF own.state = "enabled" THEN own.stream ELSE Default[spec.name]
  IN IF Cardinality(S) = 1 THEN S ELSE S \cap {best}

\* What a command leaves: states, requests and whether it raises an error.
Done(t, g, error) == [table |-> t, goal |-> g, error |-> error]

\* Defect: the streams profiles are installed of are not enabled.
NotEnabled(t, x) == t

\* _resolve_specs_enable_update_sack: what is marked before an error stays.
Enabled(t, x) == EnableAll(Enable(t, x[1], x[2]), Requires[x] \cap Active(Enable(t, x[1], x[2])))

\* ModuleBase.enable; the subcommands only log what goes wrong without strict.
EnableModule(t, g, spec, strict) ==
  IF Meant(t, spec) = {} THEN Done(t, g, strict)
  ELSE LET u == Enabled(t, <<spec.name, CHOOSE s \in Meant(t, spec) : TRUE>>)
       IN Done(u, g, strict /\ SolverErrors(u) # {})

\* _modules_reset_or_disable; reset takes no notice of the errors of the solver.
DisableModule(t, g, spec, strict) ==
  LET u == IF Matching(spec) = {} THEN t ELSE Disable(t, spec.name)
  IN Done(u, g, strict /\ (Matching(spec) = {} \/ SolverErrors(u) # {}))
ResetModule(t, g, spec, strict) ==
  IF Matching(spec) = {} THEN Done(t, g, strict) ELSE Done(Forget(t, spec.name), g, FALSE)

\* Packages that can be installed.
Available(t) == NonModular \cup UNION {Artifacts[x] : x \in Active(t)}

\* _install_profiles_internal
InstallProfiles(g, names, t, strict) ==
  LET there == names \cap Available(t) IN
  IF strict THEN [g EXCEPT !.want = @ \cup there] ELSE [g EXCEPT !.may = @ \cup there]

\* Profiles that are asked for, else those meant by default.
ProfilesFor(x, spec, otherwise) ==
  {p \in (IF spec.profile # "any" THEN {spec.profile} ELSE otherwise) : Contents[x][p] # {}}

\* install and switch_to, once the stream is known: what is not active is an
\* error, a fail-safe module raises one after its profiles have been marked.
WithProfiles(t, g, x, spec, otherwise, strict) ==
  LET u == Enabled(t, x)
      ps == ProfilesFor(x, spec, otherwise)
      names == UNION {Contents[x][p] : p \in ps}
  IN IF x \notin Active(u) THEN Done(u, g, strict)
     ELSE IF x \in session.failsafe THEN Done(Install(u, x, ps), g, TRUE)
     ELSE Done(Install(u, x, ps), InstallProfiles(g, names, u, strict),
               strict /\ ((ps = {} /\ spec.profile # "any") \/ ~(names \subseteq Available(u))))

\* ModuleBase.install
InstallModule(t, g, spec, strict) ==
  IF Meant(t, spec) = {} THEN Done(t, g, strict)
  ELSE LET x == <<spec.name, CHOOSE s \in Meant(t, spec) : TRUE>>
           r == WithProfiles(t, g, x, spec, DefaultProfiles[x], strict)
       IN [r EXCEPT !.error = @ \/ (strict /\ spec.profile = "any" /\ DefaultProfiles[x] = {})]

\* Base._remove_if_unneeded: of what groups or profiles brought in.
Unneeded(names) == {k \in names : reason[k] = "group"}

\* ModuleBase.switch_to: profiles the old stream had are installed from the new
\* one; what the active one had goes, if it is not available any more, as what an
\* active new one has is.
SwitchTo(t, g, spec, strict) ==
  IF Meant(t, spec) = {} THEN Done(t, g, strict)
  ELSE LET x == <<spec.name, CHOOSE s \in Meant(t, spec) : TRUE>>
           u == Enabled(t, x)
           removed == stored[x[1]].profiles \ u[x[1]].profiles
           old == UNION {Artifacts[y] : y \in {z \in Active(t) : z[1] = x[1]}}
           r == WithProfiles(t, g, x, spec, removed, strict)
           left == {k \in old : reason[k] # "no"} \ Available(u)
       IN IF x \in session.failsafe \cap Active(u) THEN r
          ELSE [r EXCEPT !.goal.gone = @ \cup Unneeded(left),
                         !.goal.unmet = @ \cup ProfilePkgNames(u, SolverErrors(u))]

\* _get_package_name_set_and_remove_profiles: what is uninstalled of a module.
Leaving(t, spec) ==
  t[spec.name].profiles \cap (IF spec.profile = "any" THEN Profile ELSE {spec.profile})

\* Defect: the packages of profiles that stay are removed, too.
RemoveShared(t, g, spec) ==
  LET x == <<spec.name, CHOOSE s \in Meant(t, spec) : TRUE>>
      ps == Leaving(t, spec)
      gone == UNION {Contents[x][p] : p \in ps}
  IN IF Meant(t, spec) = {} THEN Done(t, g, TRUE)
     ELSE Done(Uninstall(t, x, ps), [g EXCEPT !.gone = @ \cup Unneeded(gone)], FALSE)

\* ModuleBase.remove: of the stream that is meant, be it the enabled one or not.
RemoveModule(t, g, spec) ==
  LET x == <<spec.name, CHOOSE s \in Meant(t, spec) : TRUE>>
      ps == Leaving(t, spec)
      u == Uninstall(t, x, ps)
      gone == (UNION {Contents[x][p] : p \in ps}) \ InstalledPkgNames(u)
  IN IF Meant(t, spec) = {} THEN Done(t, g, TRUE)
     ELSE Done(u, [g EXCEPT !.gone = @ \cup Unneeded(gone)], FALSE)

\* RemoveSubCommand with --all: every package of the module that no other
\* active module has, whatever profile the argument names.
RemoveAll(t, g, spec) ==
  LET r == RemoveModule(t, g, spec)
      of == {<<spec.name, s>> : s \in Matching(spec)}
      names == UNION {Artifacts[x] : x \in of \cap Active(t)}
      keep == UNION {Artifacts[x] : x \in Active(t) \ of}
  IN IF r.error THEN r
     ELSE [r EXCEPT !.goal.gone = @ \cup {k \in names \ keep : reason[k] # "no"}, !.goal.all = TRUE]

\* ModuleBase.upgrade only asks for newer versions of packages.
UpgradeModule(t, g, spec) == Done(t, g, Meant(t, spec) = {})

Results(t, g, spec, strict) ==
  {EnableModule(t, g, spec, strict), DisableModule(t, g, spec, strict), ResetModule(t, g, spec, strict),
   InstallModule(t, g, spec, strict), RemoveModule(t, g, spec), RemoveAll(t, g, spec),
   UpgradeModule(t, g, spec)}

------------------------------------------------------------------------------
(* Sessions.                                                               *)

\* A dnf of its own ends with the error of its command, a shell goes on.
Goes(r) == ~r.error \/ session.shell

\* configure and run_on_module of a subcommand.
Command ==
  /\ session.commands < MaxCommands /\ session.runs < MaxRuns
  /\ session.shell \/ session.commands = 0
  /\ \E spec \in Arguments, switch \in BOOLEAN :
       \E r \in IF switch THEN {SwitchTo(table, goal, spec, session.strict)}
                 ELSE Results(table, goal, spec, session.strict) :
         /\ Goes(r)
         /\ table' = r.table /\ goal' = r.goal
         /\ session' = [session EXCEPT !.commands = @ + 1, !.switch = @ \/ switch]
  /\ UNCHANGED <<stored, reason>>

\* Base.reset rolls the container back; only a shell keeps its configuration.
Cleaned(runs) ==
  [session EXCEPT !.commands = 0, !.runs = runs, !.switch = @ /\ session.shell]

\* Base.resolve: what is requested and not there yet.
New == (goal.want \cup (goal.may \ goal.gone)) \cap {k \in Pkg : reason[k] = "no"}

\* set_modules_enabled_by_pkgset: packages enable the streams they come from.
EnabledByPackages ==
  EnableAll(table, {x \in Active(table) : ~Chosen(table, x) /\ Artifacts[x] \cap New # {}})

\* BaseCli.do_transaction: an enabled stream is only switched if that is allowed.
MaySwitch(t) == Switched(t) = {} \/ session.switch

\* The transaction is resolved and run.
Run ==
  /\ session.commands > 0 /\ goal.want \cap goal.gone = {}
  /\ MaySwitch(EnabledByPackages)
  /\ stored' = EnabledByPackages /\ table' = stored'
  /\ reason' = [k \in Pkg |-> IF k \in goal.gone THEN "no"
                              ELSE IF k \in New THEN "group" ELSE reason[k]]
  /\ goal' = NoGoal /\ session' = Cleaned(session.runs + 1)

\* The requests cannot be resolved: a shell stores the states all the same
\* (ShellCommand._transaction).
RunUnresolved ==
  /\ session.commands > 0 /\ goal.want \cap goal.gone # {}
  /\ stored' = IF session.shell /\ MaySwitch(table) THEN table ELSE stored
  /\ table' = stored' /\ goal' = NoGoal
  /\ session' = Cleaned(session.runs + 1)
  /\ UNCHANGED reason

\* `no', an error, `transaction reset' or the end of the session.
Quit ==
  /\ session.commands > 0
  /\ table' = stored /\ goal' = NoGoal
  /\ session' \in {Cleaned(session.runs),
                   [Cleaned(session.runs) EXCEPT !.switch = FALSE]}
  /\ UNCHANGED <<stored, reason>>

Next == Command \/ Run \/ RunUnresolved \/ Quit

Spec == Init /\ [][Next]_vars

------------------------------------------------------------------------------
\* Every variable has the type the code gives it.
TypeOK ==
  /\ \A t \in {table, stored} : t \in [Mod ->
       [state : {"unknown", "enabled", "disabled"}, stream : {"none"} \cup Stream,
        profiles : SUBSET Profile]]
  /\ \A t \in {table, stored}, m \in Mod : t[m].stream = "none" => t[m].profiles = {}
  /\ reason \in [Pkg -> Reason]
  /\ {goal.want, goal.may, goal.gone, goal.unmet} \subseteq SUBSET Pkg
  /\ session.shell \/ session.commands <= 1

\* Packages a profile brought in, and that one which stays still has.
KeptNames == {k \in Pkg : reason[k] = "group"} \cap InstalledPkgNames(stored)
Lost == {k \in KeptNames : reason'[k] = "no"} \cap InstalledPkgNames(stored')

\* However commands are combined in a transaction, a package of a profile that
\* stays installed is lost only to `module remove --all', or if it was asked for
\* without strict, or if the profile is one a shell was refused, which was marked
\* before that, or if a switch-to left the profile's stream with a dependency that
\* is not met and takes away what it shared with the old stream of another module
\* (module_base.py:141, 248, 371).
LossIsAskedFor ==
  \/ goal.all
  \/ Lost \subseteq goal.may \cup goal.unmet \cup UNION {Artifacts[x] : x \in session.failsafe \cap
                                            {y \in All : Chosen(stored', y)}}

\* No transaction takes away what a profile that stays needs (module_base.py:371).
LostOnlyToAll == [][LossIsAskedFor]_vars
==============================================================================
