---------------------------- MODULE Configuration ----------------------------
(*******************************************************************************)
(* How the settings of one command come about: the command line, dnf.conf, the *)
(* repository files and the plugins, in the order in which Cli.configure takes *)
(* them (dnf/cli/cli.py, dnf/conf/config.py, dnf/conf/read.py, dnf/plugin.py). *)
(* A value may only replace one of the same or a lower priority.               *)
(*******************************************************************************)
EXTENDS Naturals, Sequences, SequencesExt, FiniteSets

CONSTANTS
  Plugin,       \* installed plugins
  Lines,        \* command lines to look at
  Disks,        \* configuration files to look at, of the host and of an installroot
  Hooks         \* what the plugins do when they are called

Unset == 0
Default == 10
MainConfig == 20
RepoConfig == 40
CommandLine == 70
Runtime == 80

VARIABLES
  cmd,          \* the command line, see MCSurroundings
  disk,         \* the configuration files
  hook,         \* what each plugin does in pre_config and in config, see Called
  verify,       \* does %_pkgverify_level of rpm ask for signatures
  pc,           \* the next step of Cli.configure; "exit" when it failed
  conf,         \* the main options: value and priority
  repos,        \* the options of each repository; unset ones are those of conf
  loaded        \* plugins that are loaded

world == <<cmd, disk, hook, verify>>
vars == <<world, pc, conf, repos, loaded>>

Option(value, priority) == [value |-> value, prio |-> priority]

Init ==
  /\ cmd \in Lines /\ disk \in Disks /\ hook \in Hooks /\ verify \in BOOLEAN
  /\ pc = "options"
  /\ conf = [best |-> Option(FALSE, Default), strict |-> Option(TRUE, Default),
             skip_broken |-> Option(FALSE, Default), gpgcheck |-> Option(FALSE, Default),
             localpkg_gpgcheck |-> Option(FALSE, Default), plugins |-> Option(TRUE, Default),
             excludepkgs |-> Option(<<>>, Default)]
  /\ repos = [r \in {} |-> conf]
  /\ loaded = {}

Goto(l) == pc' = l /\ UNCHANGED world

------------------------------------------------------------------------------
\* BaseConfig._set_value
SetValue(o, priority, value) == IF priority >= o.prio THEN Option(value, priority) ELSE o

\* Items of a list option are appended whatever their priority, which is kept; an
\* empty one clears the list if the priority allows that.
AppendItems(o, priority, items) ==
  LET add == IF priority < o.prio THEN o.prio ELSE priority IN
  FoldLeft(LAMBDA l, item : IF item = "" THEN SetValue(l, priority, <<>>)
                            ELSE Option(Append(l.value, item), add), o, items)

\* newString of an option, set_or_append_opt_value
NewString(name, o, priority, value) ==
  IF name = "excludepkgs" THEN AppendItems(o, priority, value) ELSE SetValue(o, priority, value)

\* BaseConfig._populate; values that are not valid are reported and skipped.
Populate(c, section, priority) ==
  [n \in DOMAIN c |->
     IF n \in DOMAIN section THEN NewString(n, c[n], priority, section[n]) ELSE c[n]]

\* The values of --setopt, in their order.
SetOpts(c, opts) ==
  FoldLeft(LAMBDA d, o : [d EXCEPT ![o.name] = NewString(o.name, @, CommandLine, o.value)], c, opts)

NoGpgCheck == "gpgcheck" \in DOMAIN cmd.args

\* MainConf._configure_from_options
ConfigureFromOptions(c) ==
  LET args == Populate(c, cmd.args, CommandLine)
      local == IF NoGpgCheck
               THEN [args EXCEPT !.localpkg_gpgcheck = SetValue(@, CommandLine, FALSE)]
               ELSE args
  IN SetOpts(local, cmd.setopts)

\* MainConf._adjust_conf_options
Adjust(c) ==
  IF c.skip_broken.value
  THEN [c EXCEPT !.strict = SetValue(@, c.skip_broken.prio, FALSE)]
  ELSE c

Options ==
  /\ pc = "options"
  /\ conf' = ConfigureFromOptions(conf)
  /\ Goto("file") /\ UNCHANGED <<repos, loaded>>

\* MainConf._search_inside_installroot: what exists in the installroot is taken from
\* there, else it is that of the host.
Root(exists) == IF cmd.installroot /\ exists THEN "root" ELSE "host"

\* The dnf.conf that is read, which may define repositories too.
MainFile == IF cmd.config = "given" THEN "given" ELSE Root(disk.inroot)

\* Cli._read_conf_file: the file of -c must exist.
ReadConfFile ==
  /\ pc = "file"
  /\ \/ cmd.config = "missing" /\ Goto("exit") /\ UNCHANGED conf
     \/ /\ cmd.config # "missing"
        /\ conf' = Adjust(Populate(conf, disk.conf[MainFile], MainConfig))
        /\ Goto("plugins")
  /\ UNCHANGED <<repos, loaded>>

------------------------------------------------------------------------------
\* _get_plugins_files and _check_enabled: --enableplugin prevails over --disableplugin
\* and over the configuration file of the plugin.
Selected(p) ==
  \/ p \in cmd.enableplugin
  \/ p \notin cmd.disableplugin /\ p \notin disk.pluginoff

\* Base.init_plugins, Plugins._load, _run_init
InitPlugins ==
  /\ pc = "plugins"
  /\ loaded' = {p \in Plugin : conf.plugins.value /\ Selected(p)}
  /\ Goto("pre_config") /\ UNCHANGED <<conf, repos>>

\* What a plugin does in a hook: MainConf.exclude_pkgs, or an assignment to conf.best.
Called(c, what) ==
  CASE what = "exclude" -> [c EXCEPT !.excludepkgs = SetValue(@, CommandLine, <<"plugin">>)]
    [] what = "assign"  -> [c EXCEPT !.best = SetValue(@, Runtime, TRUE)]
    [] OTHER -> c

\* Plugins._caller: an Error ends it, other exceptions are logged.
Caller(method, next) ==
  /\ pc = method
  /\ LET acts == [i \in 1..Cardinality(loaded) |-> hook[method][SetToSeq(loaded)[i]]]
         failing == {i \in DOMAIN acts : acts[i] = "error"}
         called == {i \in DOMAIN acts : \A j \in failing : i < j}
     IN /\ conf' = FoldLeft(Called, conf, SubSeq(acts, 1, Cardinality(called)))
        /\ Goto(IF failing = {} THEN next ELSE "exit")
  /\ UNCHANGED <<repos, loaded>>

\* Base.pre_configure_plugins, before the repositories are read.
PreConfigurePlugins == Caller("pre_config", "repos")

\* RepoConf._configure_from_options
RepoFromOptions(id, c) ==
  LET checked == IF NoGpgCheck
                 THEN [c EXCEPT !.gpgcheck = SetValue(@, CommandLine, FALSE)] ELSE c
  IN SetOpts(checked, SelectSeq(cmd.reposetopts, LAMBDA o : id \in o.repos))

\* RepoReader._build_repo; gpgcheck is that of the main section until it is set.
BuildRepo(id, section) ==
  LET new == [gpgcheck |-> Option(FALSE, Unset), enabled |-> Option(TRUE, Default)]
  IN RepoFromOptions(id, Populate(new, section, RepoConfig))

\* Base.read_all_repos: those of dnf.conf, then those of the repository files; a repository
\* that is listed again is skipped with a warning.
ReadAllRepos ==
  FoldLeft(LAMBDA rs, r : IF r.id \in DOMAIN rs THEN rs
                          ELSE [i \in DOMAIN rs \cup {r.id} |->
                                  IF i = r.id THEN BuildRepo(r.id, r.section) ELSE rs[i]],
           [i \in {} |-> FALSE], disk.own[MainFile] \o disk.repos[Root(disk.reposinroot)])

\* RepoDict.add_new_repo for the labels of --repofrompath.
WithPaths(rs) ==
  [i \in DOMAIN rs \cup cmd.repofrompath |->
     IF i \in DOMAIN rs THEN rs[i] ELSE BuildRepo(i, [n \in {} |-> FALSE])]

Operation(ids, on) == [repos |-> ids, on |-> on]

\* What is done to opts.repos_ed: the labels of --repofrompath are enabled after what
\* was asked for; --repo disables all others before it.
Operations(all) ==
  (IF cmd.repo = {} THEN <<>> ELSE <<Operation(all, FALSE)>>)
  \o cmd.repos_ed \o SetToSeq({Operation({l}, TRUE) : l \in cmd.repofrompath})
  \o SetToSeq({Operation({r}, TRUE) : r \in cmd.repo})

\* RepoDict.get_matching, Repo.enable, Repo.disable
Switch(rs, op) ==
  [r \in DOMAIN rs |->
     IF r \in op.repos THEN [rs[r] EXCEPT !.enabled = Option(op.on, Runtime)] ELSE rs[r]]

\* Cli._configure_repos: an unknown repository to enable is an error if strict is on.
ConfigureRepos ==
  /\ pc = "repos"
  /\ LET read == ReadAllRepos
         known == WithPaths(read)
         ops == Operations(DOMAIN known)
         unknown == \E i \in 1..Len(ops) : ops[i].on /\ ops[i].repos \cap DOMAIN known = {}
     IN IF cmd.repofrompath \cap DOMAIN read # {} \/ (unknown /\ conf.strict.value)
        THEN Goto("exit") /\ UNCHANGED repos
        ELSE repos' = FoldLeft(Switch, known, ops) /\ Goto("config")
  /\ UNCHANGED <<conf, loaded>>

\* Base.configure_plugins, after it.
ConfigurePlugins == Caller("config", "again")

\* Defect: what the plugins did to the options of the command line stays.
NotAgain(c) == c

\* Cli.configure, after the plugins
AfterPlugins(c) == ConfigureFromOptions(c)

Again ==
  /\ pc = "again"
  /\ conf' = AfterPlugins(conf)
  /\ Goto("verify") /\ UNCHANGED <<repos, loaded>>

\* The value of an option of a repository.
RepoValue(r, n) ==
  IF repos[r][n].prio = Unset THEN conf[n].value ELSE repos[r][n].value

\* The end of Cli.configure: the policy of rpm prevails.
PkgVerify ==
  /\ pc = "verify"
  /\ IF verify
     THEN /\ repos' = [r \in DOMAIN repos |->
                         IF repos[r].enabled.value /\ ~RepoValue(r, "gpgcheck")
                         THEN [repos[r] EXCEPT !.gpgcheck = SetValue(@, Runtime, TRUE)] ELSE repos[r]]
          /\ conf' = [conf EXCEPT !.localpkg_gpgcheck = SetValue(@, Runtime, TRUE)]
     ELSE UNCHANGED <<conf, repos>>
  /\ Goto("done") /\ UNCHANGED loaded

Next ==
  \/ Options \/ ReadConfFile \/ InitPlugins \/ PreConfigurePlugins \/ ConfigureRepos
  \/ ConfigurePlugins \/ Again \/ PkgVerify

Spec == Init /\ [][Next]_vars

------------------------------------------------------------------------------
\* Every variable has the type the code gives it.
TypeOK ==
  /\ pc \in {"options", "file", "plugins", "pre_config", "repos", "config", "again", "verify",
            "done", "exit"}
  /\ \A n \in DOMAIN conf : /\ conf[n].prio \in {Default, MainConfig, CommandLine, Runtime}
                            /\ n # "excludepkgs" => conf[n].value \in BOOLEAN
  /\ \A r \in DOMAIN repos : /\ repos[r].enabled.value \in BOOLEAN
                             /\ repos[r].gpgcheck.prio \in {Unset, RepoConfig, CommandLine, Runtime}
  /\ loaded \subseteq Plugin

\* All that the command line says of an option.
Said(n) ==
  (IF n \in DOMAIN cmd.args THEN <<cmd.args[n]>> ELSE <<>>)
  \o FoldLeft(LAMBDA s, o : IF o.name = n THEN Append(s, o.value) ELSE s, <<>>, cmd.setopts)

\* The command line prevails over dnf.conf and the plugins (priorities of options in
\* BaseConfig._set_value), unless a plugin assigns to the option: the last value
\* given is the one in force, every package excluded is, and after an empty item
\* no other is, though the file is read and the plugins run in between.
CommandLineDecides ==
  pc = "done" =>
    /\ \A n \in {"best", "strict", "skip_broken", "gpgcheck"} :
         \/ Said(n) = <<>> \/ conf[n].value = Last(Said(n))
         \/ n = "best" /\ \E p \in loaded, m \in DOMAIN hook : hook[m][p] = "assign"
    /\ LET items == FlattenSeq(Said("excludepkgs"))
           empty == {i \in 1..Len(items) : items[i] = ""}
           own == {items[i] : i \in {j \in 1..Len(items) : \A k \in empty : k < j}}
       IN /\ own \subseteq ToSet(conf.excludepkgs.value)
          /\ empty # {} => ToSet(conf.excludepkgs.value) = own
    /\ conf.skip_broken.value /\ Said("strict") = <<>> => ~conf.strict.value

\* What a line asks of the repositories holds for each in the end: the ones of --repo
\* and --repofrompath are enabled, for others the last option that names them decides,
\* then --repo, then --setopt and the file; and with --nogpgcheck no package of
\* any is checked but by policy or its own --setopt.
ReposAsAsked ==
  pc = "done" => \A r \in DOMAIN repos :
    LET naming == SelectSeq(cmd.repos_ed, LAMBDA op : r \in op.repos)
        own == SelectSeq(cmd.reposetopts, LAMBDA o : r \in o.repos)
    IN /\ repos[r].enabled.value =
            IF r \in cmd.repo \cup cmd.repofrompath THEN TRUE
            ELSE IF naming # <<>> THEN Last(naming).on
            ELSE cmd.repo = {} /\ ReadAllRepos[r].enabled.value
       /\ NoGpgCheck /\ ~verify /\ own = <<>> => ~RepoValue(r, "gpgcheck")

\* What the user has typed is what is in force when the command runs, for dnf.conf
\* and for each repository: nothing that is read or run in between changes it
\* (cli.py:951, config.py:367).
SettingsAsAsked == CommandLineDecides /\ ReposAsAsked
==============================================================================
