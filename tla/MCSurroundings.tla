---------------------------- MODULE MCSurroundings ----------------------------
(*****************************************************************************)
(* Small instances of the components around a transaction.                   *)
(*****************************************************************************)
EXTENDS Surroundings, TLC

CONSTANTS
  r1, r2, r3,                 \* repositories
  foo, bar, baz, g,           \* names of packages, and a group
  p1, p2, p3,                 \* packages (and a process)
  k1, k2, k1old, me, us       \* keys (and plugins), and owners of keys

------------------------------------------------------------------------------
(* One process and two repositories: runs that load all of them, and others. *)
MCExpiryWorlds ==
  {{"crash", "package", "unreadable"},
   {"idle", "timer", "failure", "package", "nocache"}}
\* Every run writes its marks, and some load nothing or not every repository.
MCIdleWorlds == {{"idle", "timer"}}

------------------------------------------------------------------------------
(* bar requires foo and obsoletes baz; the repositories may lose old versions. *)
MCRequires == (foo :> {}) @@ (bar :> {foo}) @@ (baz :> {})
MCObsoletes == (foo :> {}) @@ (bar :> {baz}) @@ (baz :> {})
MCOffers ==
  {[pkgs |-> {<<foo, 1>>, <<bar, 1>>, <<baz, 1>>, <<foo, 2>>}, ids |-> {g}],
   [pkgs |-> {<<bar, 1>>, <<foo, 2>>}, ids |-> {}]}
MCSeeds ==
  {<<{<<foo, 1>>, <<baz, 1>>}, (foo :> "dependency") @@ (bar :> "user") @@ (baz :> "user")>>}

------------------------------------------------------------------------------
(* A key in two editions and another, packages with one and with two signatures. *)
MCKeyId == (k1 :> "one") @@ (k1old :> "one") @@ (k2 :> "two")
MCOwner == (k1 :> me) @@ (k1old :> me) @@ (k2 :> us)
MCFrom == (p1 :> r1) @@ (p2 :> r1) @@ (p3 :> r2)
MCSigners == (p1 :> {"one"}) @@ (p2 :> {"one", "two"}) @@ (p3 :> {"two"})
MCGpgKey == (r1 :> <<k1, k2>>) @@ (r2 :> <<>>)

------------------------------------------------------------------------------
(* Two updates, and lists of emitters, one of them with a name nobody knows. *)
MCEmitters == {<<"email", "stdio", "motd">>, <<"command", "motd", "email">>, <<"bad">>}

------------------------------------------------------------------------------
(* Two aliases, an option, a command and an escaped name.                  *)
MCEscaped == {"\\a"}
MCBare == "\\a" :> "a"
MCValues == {<<"b", "b">>, <<"i">>, <<"o">>, <<"a">>, <<"b">>, <<"o", "b">>, <<"b", "a">>,
             <<"a", "i">>, <<"b", "\\a">>}
MCDropIns ==
  {<<[enabled |-> on, aliases |-> "b" :> s], [enabled |-> TRUE, aliases |-> "a" :> t]>> :
     on \in BOOLEAN, s \in MCValues, t \in {<<"i">>, <<"b", "b">>}}
MCCommands == {<<"a">>, <<"a", "a", "i">>, <<"o", "b", "a">>, <<"i", "a">>, <<"b", "\\a">>}

------------------------------------------------------------------------------
(* Two repositories, two plugins, command lines that contradict the files and *)
(* themselves.                                                                *)
Nothing == [n \in {} |-> FALSE]
Opt(n, v) == [name |-> n, value |-> v]
Line == [args |-> Nothing, setopts |-> <<>>, reposetopts |-> <<>>, repos_ed |-> <<>>, repo |-> {},
         repofrompath |-> {}, enableplugin |-> {}, disableplugin |-> {}, installroot |-> FALSE,
         config |-> "none"]
Off(ids) == [repos |-> ids, on |-> FALSE]
On(ids) == [repos |-> ids, on |-> TRUE]

MCCommandLines ==
  { Line,
    [Line EXCEPT !.args = [best |-> FALSE, skip_broken |-> TRUE], !.installroot = TRUE],
    [Line EXCEPT !.args = [best |-> FALSE], !.setopts = <<Opt("best", TRUE), Opt("best", FALSE)>>],
    [Line EXCEPT !.args = [skip_broken |-> TRUE], !.setopts = <<Opt("strict", TRUE)>>],
    [Line EXCEPT !.args = [excludepkgs |-> <<"a">>], !.setopts = <<Opt("excludepkgs", <<"b">>)>>,
                 !.enableplugin = {k2}],
    [Line EXCEPT !.args = [excludepkgs |-> <<"a", "", "b">>], !.config = "given"],
    [Line EXCEPT !.setopts = <<Opt("excludepkgs", <<"">>)>>, !.disableplugin = {k1, k2},
                 !.enableplugin = {k1}],
    [Line EXCEPT !.args = [plugins |-> FALSE], !.config = "missing"],
    [Line EXCEPT !.args = [gpgcheck |-> FALSE], !.repofrompath = {r3}],
    [Line EXCEPT !.args = [gpgcheck |-> FALSE], !.repo = {r2},
                 !.reposetopts = <<[repos |-> {r1}, name |-> "gpgcheck", value |-> TRUE]>>],
    [Line EXCEPT !.repos_ed = <<Off({r1, r2}), On({r2})>>, !.installroot = TRUE],
    [Line EXCEPT !.repos_ed = <<On({r1, r2}), Off({r1})>>, !.repofrompath = {r3}],
    [Line EXCEPT !.repos_ed = <<On({r2})>>, !.repo = {r1}, !.repofrompath = {r3}],
    [Line EXCEPT !.repos_ed = <<On({r3})>>,
                 !.reposetopts = <<[repos |-> {r1, r2}, name |-> "enabled", value |-> FALSE]>>],
    [Line EXCEPT !.repofrompath = {r1}] }

Sections == {Nothing, ("best" :> TRUE) @@ ("excludepkgs" :> <<"f">>),
             ("skip_broken" :> TRUE) @@ ("gpgcheck" :> TRUE)}
Repo1 == [id |-> r1, section |-> ("gpgcheck" :> TRUE)]
Repo2 == [id |-> r2, section |-> ("enabled" :> FALSE)]
MCDisks ==
  {[conf |-> [host |-> s, root |-> Nothing, given |-> ("excludepkgs" :> <<"", "g">>)],
    own |-> [host |-> IF inroot THEN <<>> ELSE <<[id |-> r2, section |-> Nothing]>>,
             root |-> <<[Repo1 EXCEPT !.section = Nothing]>>, given |-> <<>>],
    inroot |-> inroot, pluginoff |-> off, reposinroot |-> inroot,
    repos |-> [host |-> <<Repo1, Repo2, [Repo1 EXCEPT !.section = Nothing]>>, root |-> <<Repo2>>]] :
     s \in Sections, inroot \in BOOLEAN, off \in SUBSET {k2}}
HookPairs ==
  {h \in {"none", "exclude", "assign", "error"} \X
         [{k1, k2} -> {"none", "exclude", "assign", "error", "crash"}] :
     h[1] = "none" \/ h[2][k2] = "none"}
MCHooks ==
  {[pre_config |-> [p \in {k1, k2} |-> IF p = k1 THEN h[1] ELSE "none"], config |-> h[2]] :
     h \in HookPairs}

------------------------------------------------------------------------------
(* One package to install and one to erase; commands without a transaction and *)
(* systems that are no image are looked at in fewer combinations.              *)
MCConsidered(w) ==
  /\ w.persistence = "auto" \/ (w.resolving /\ w.items = {p1, p2} /\ ~w.found)
  /\ w.modules = w.groups /\ (w.switch => w.modules)
  /\ ~w.resolving => w.items = {} /\ ~w.modules /\ w.record /\ ~w.test

------------------------------------------------------------------------------
(* Installonly versions of one name, two repositories of different or equal *)
(* priority, and excludes.                                                  *)
Version(s, v, r) == [name |-> s, evr |-> v, repo |-> r]
NoList == [s \in {r1, r2} \cup {"main"} |-> {}]
Plain ==
  [installed |-> {}, available |-> {}, priority |-> [r \in {r1, r2} |-> 1],
   exclude |-> NoList, include |-> NoList, disabled |-> {}, advisory |-> {},
   obsoletes |-> {}, unneeded |-> {}, recent |-> {}]
Installeds ==
  {{}, {Version(p1, 1, r1)}, {Version(p1, 2, r2)}, {Version(p1, 1, r1), Version(p1, 3, r2)},
   {Version(p1, 2, r1), Version(p2, 1, r1)}}
Availables ==
  {{Version(p1, v, r1), Version(p1, w, r2), Version(p2, 2, r2)} : v \in 1..3, w \in {1, 3}}
    \cup {{Version(p1, 1, r1), Version(p1, 2, r1), Version(p1, 3, r1)}}
MCSystems ==
  { [Plain EXCEPT !.installed = i, !.available = offer, !.priority[r2] = p,
                  !.exclude = e.exclude, !.include = e.include, !.disabled = e.disabled,
                  !.advisory = {Version(p1, 3, r1)}, !.obsoletes = {<<p2, p1>>},
                  !.unneeded = {Version(p1, 1, r1)}, !.recent = {Version(p1, 3, r2)}] :
      i \in Installeds, offer \in Availables, p \in {1, 2},
      e \in { Plain, [Plain EXCEPT !.exclude["main"] = {p2}],
              [Plain EXCEPT !.exclude[r1] = {p1}, !.disabled = {"main"}],
              [Plain EXCEPT !.include[r2] = {p2}],
              [Plain EXCEPT !.exclude["main"] = {p1}, !.disabled = {"all"}] } }
MCAsked(r) ==
  /\ r.names \in {{}, {p1}} /\ r.repo \in {"none", r1}
  /\ r.highlight = (r.command = "list")
  /\ r.command = "check-update" => r.narrow = "all" /\ ~r.showdups
  /\ r.security => r.names = {} /\ (r.command = "check-update"
                                      \/ r.narrow \in {"upgrades", "obsoletes"})

------------------------------------------------------------------------------
(* Reinstallations, upgrades and removals, in every order of their elements. *)
Item(k, action) == [nevra |-> k, action |-> action]
MCTransactions ==
  { {Item(p1, "REINSTALL"), Item(p1, "REINSTALLED"), Item(p3, "REMOVE")},
    {Item(p2, "UPGRADE"), Item(p1, "UPGRADED"), Item(p3, "REINSTALL"), Item(p3, "REINSTALLED")},
    {Item(p2, "INSTALL"), Item(p1, "OBSOLETED"), Item(p3, "REASON_CHANGE")},
    {Item(p1, "DOWNGRADE"), Item(p2, "DOWNGRADED")} }
==============================================================================
