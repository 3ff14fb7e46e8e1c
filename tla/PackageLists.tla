----------------------------- MODULE PackageLists -----------------------------
(*****************************************************************************)
(* What `dnf list', `dnf info' and `dnf check-update' show: excludes         *)
(* (Base._setup_excludes_includes), the lists (Base._list_pattern) and their *)
(* preparation for the output (dnf/cli/cli.py).  The queries of the sack are *)
(* those of libdnf.                                                          *)
(*****************************************************************************)
EXTENDS Naturals, FiniteSets

CONSTANTS
  Name, Evr,    \* names of packages, and versions, which are numbers
  Repo,         \* repositories
  Worlds,       \* bound: systems, repositories and settings to look at, see World
  Asked(_)      \* bound: commands to look at

None == "none"
Package == [name : Name, evr : Evr, repo : Repo]

\* Installed packages have the repository they are from, as the history knows it.
World ==
  [installed : SUBSET Package, available : SUBSET Package, priority : [Repo -> Nat],
   exclude : [Repo \cup {"main"} -> SUBSET Name], include : [Repo \cup {"main"} -> SUBSET Name],
   disabled : SUBSET (Repo \cup {"main", "all"}), advisory : SUBSET Package,
   obsoletes : SUBSET (Name \X Name), unneeded : SUBSET Package, recent : SUBSET Package]

Narrow == {"all", "installed", "available", "upgrades", "extras", "autoremove", "recent", "obsoletes"}
Request ==
  [command : {"list", "check-update"}, narrow : Narrow, names : SUBSET Name,
   repo : Repo \cup {None}, showdups : BOOLEAN, highlight : BOOLEAN, security : BOOLEAN]

VARIABLES
  world,
  request,      \* the command
  shown,        \* the packages in its output
  status        \* how it ends; 2 before that

vars == <<world, request, shown, status>>

Init ==
  /\ world \in Worlds
  /\ request \in {r \in Request : Asked(r)}
  /\ shown = {} /\ status = 2

------------------------------------------------------------------------------
\* Base._setup_excludes_includes, where `main' is in force for every repository;
\* --disableexcludes leaves out the lists of main, of a repository, or all.
InForce(list, r) ==
  UNION {list[s] : s \in {x \in {"main", r} : {x, "all"} \cap world.disabled = {}}}

Visible ==
  {p \in world.available :
     /\ p.name \notin InForce(world.exclude, p.repo)
     /\ LET include == InForce(world.include, p.repo) IN include # {} => p.name \in include}

\* The queries of libdnf: of packages of the same name the ones of the repositories with
\* the lowest number, and of these the ones with the highest version.
ByPriority(ps) ==
  {p \in ps : \A q \in ps : q.name = p.name => world.priority[p.repo] <= world.priority[q.repo]}
Latest(ps) == {p \in ps : \A q \in ps : q.name = p.name => q.evr <= p.evr}
Has(ps, p) == \E q \in ps : q.name = p.name /\ q.evr = p.evr

\* The first package of each name, in the order of the sack.
FirstOfName(ps) == {CHOOSE p \in ps : p.name = n : n \in {q.name : q \in ps}}

FromRepo(r, ps) == IF r.repo = None THEN ps ELSE {p \in ps : p.repo = r.repo}
Matching(r, ps) == {p \in ps : r.names = {} \/ p.name \in r.names}

\* Base._merge_update_filters with the filters of Cli._populate_update_security_filter.
Secured(r, ps) == IF r.security THEN ps \cap world.advisory ELSE ps

Nothing == [installed |-> {}, available |-> {}, reinstall |-> {}, old |-> {}, others |-> {}]

\* Defect: versions are compared with any of the installed ones.
NewerThanOne(ps, p) ==
  \/ \A q \in ps : q.name # p.name
  \/ \E q \in ps : q.name = p.name /\ p.evr > q.evr

\* There is no package of that name among ps, or it is newer than these.
NewerThan(ps, p) == \A q \in ps : q.name = p.name => p.evr > q.evr

\* The branch `all' of Base._list_pattern: installed versions that are available again
\* are looked for first.
ListAll(r) ==
  LET inst == Matching(r, world.installed)
      here == FromRepo(r, Matching(r, Visible))
      avail == IF r.showdups THEN here ELSE Latest(ByPriority(here))
      again == {p \in avail : Has(inst, p)}
      new == {p \in avail \ again : r.showdups \/ NewerThan(inst, p)}
  IN [Nothing EXCEPT !.installed = FromRepo(r, inst), !.reinstall = again, !.available = new,
                     !.old = avail \ (again \cup new)]

\* The branch `available': of the repositories that carry the latest version one is taken,
\* and it is compared with the latest version that is installed.
ListAvailable(r) ==
  LET inst == Matching(r, world.installed)
      here == FromRepo(r, Matching(r, Visible))
      avail == IF r.showdups THEN here ELSE FirstOfName(Latest(ByPriority(here)))
      new == IF r.showdups THEN {p \in here : ~Has(inst, p)}
             ELSE {p \in avail : NewerThan(Latest(inst), p)}
      again == IF r.showdups THEN here \ new ELSE {p \in avail : Has(Latest(inst), p)}
  IN [Nothing EXCEPT !.available = new, !.reinstall = again, !.old = avail \ (new \cup again)]

\* The other branches.  Of the packages the history says no longer to be needed,
\* and of the recent ones, the query of the repository is taken.
ListOthers(r) ==
  LET inst == Matching(r, world.installed)
      here == FromRepo(r, Matching(r, Visible))
  IN CASE r.narrow = "installed" -> [Nothing EXCEPT !.installed = FromRepo(r, inst)]
       [] r.narrow = "upgrades" ->
            [Nothing EXCEPT !.others =
               Latest(Secured(r, {p \in ByPriority(here) :
                 (\E q \in inst : q.name = p.name) /\ NewerThan(inst, p)}))]
       [] r.narrow = "extras" ->
            [Nothing EXCEPT !.others = FromRepo(r, {p \in inst : \A q \in Visible : q.name # p.name})]
       [] r.narrow = "autoremove" ->
            [Nothing EXCEPT !.others = IF r.repo = None THEN inst \cap world.unneeded ELSE {}]
       [] r.narrow = "recent" ->
            [Nothing EXCEPT !.others = world.recent \cap
               FromRepo(r, IF r.showdups THEN Matching(r, Visible)
                           ELSE Latest(ByPriority(Matching(r, Visible))))]
       [] r.narrow = "obsoletes" ->
            [Nothing EXCEPT !.others =
               Secured(r, ByPriority({p \in FromRepo(r, Visible) :
                             \E q \in inst : <<p.name, q.name>> \in world.obsoletes}))]

\* Base._list_pattern
ListPattern(r) ==
  CASE r.narrow = "all" -> ListAll(r)
    [] r.narrow = "available" -> ListAvailable(r)
    [] OTHER -> ListOthers(r)

\* BaseCli.returnPkgLists: to colour them, the installed and the available packages
\* are compared with each other; the list that was not asked for is hidden then.
ReturnPkgLists(r, coloured) ==
  LET both == coloured /\ r.narrow \in {"installed", "available"}
      ypl == ListPattern(IF both THEN [r EXCEPT !.narrow = "all"] ELSE r)
      hide == IF both THEN r.narrow ELSE "all"
      again == IF r.showdups /\ ~(both /\ hide = "installed") THEN ypl.reinstall ELSE {}
  IN [ypl EXCEPT !.available = IF hide = "installed" THEN {} ELSE @ \cup again,
                 !.installed = IF hide = "available" THEN {} ELSE @]

Shown(r) ==
  LET ypl == ReturnPkgLists(r, r.highlight) IN ypl.installed \cup ypl.available \cup ypl.others

\* BaseCli.output_packages: it is an error if nothing matches the patterns.
OutputPackages ==
  /\ request.command = "list" /\ status = 2
  /\ shown' = Shown(request)
  /\ status' = IF request.names # {} /\ shown' = {} THEN 1 ELSE 0
  /\ UNCHANGED <<world, request>>

\* BaseCli.check_updates, where conf.obsoletes is on; CheckUpdateCommand.run sets the
\* status to 100.
CheckUpdates ==
  /\ request.command = "check-update" /\ status = 2
  /\ shown' = UNION {ReturnPkgLists([request EXCEPT !.narrow = n], FALSE).others : n \in {"upgrades", "obsoletes"}}
  /\ status' = IF shown' # {} THEN 100 ELSE 0
  /\ UNCHANGED <<world, request>>

Next == OutputPackages \/ CheckUpdates

Spec == Init /\ [][Next]_vars

------------------------------------------------------------------------------
\* Every variable has the type the code gives it.
TypeOK ==
  /\ world \in World /\ request \in Request
  /\ shown \subseteq Package /\ status \in {0, 1, 2, 100}

\* All that is shown with colours is shown without them, if from another repository of
\* the same priority.
DifferInOrigin(all, plain) ==
  /\ plain \subseteq all
  /\ \A p \in all \ plain : \E q \in plain :
        q.name = p.name /\ q.evr = p.evr /\ world.priority[q.repo] = world.priority[p.repo]

\* For colours `list installed' and `list available' go another way through
\* Base._list_pattern (cli.py:620), which takes other packages and compares them with
\* others.  It shows nothing else, except that a version which several repositories
\* of one priority carry has a line for each of them (base.py:1597 takes one).
ColoursKeepVersions ==
  request.command = "list" /\ status # 2 =>
    LET plain == Shown([request EXCEPT !.highlight = FALSE]) IN
    DifferInOrigin(shown, plain) /\ (request.showdups => shown = plain)
==============================================================================
