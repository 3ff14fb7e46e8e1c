----------------------------- MODULE Surroundings -----------------------------
(*****************************************************************************)
(* The components around a transaction: metadata, history, keys, aliases,    *)
(* settings, lists, callbacks of rpm, exit status and dnf-automatic.  A      *)
(* behaviour is one of them, its topic: they share the variables v1..v9, and *)
(* every property is that of the topic's component.                          *)
(*****************************************************************************)
EXTENDS Naturals, Sequences, FiniteSets

CONSTANTS
  Topics,                                           \* the components to look at
  Process, Repo, ExpiryWorlds, Nobody,              \* of RepoExpiry
  Name, Id, Requires, Obsoletes, Offers, Seeds,     \* of HistoryReplay
  MaxOrdinary, MaxLog, MaxOther,
  Key, SignedPkg, Email, KeyId, Owner, Outdated,    \* of KeyImport
  From, Signers, Damaged, GpgKey, Checked, MaxRuns,
  Update, Emitters,                                 \* of AutomaticRun
  Alias, AliasOption, Escaped, Bare, AliasWord,     \* of CommandAliases; Alias: its names
  Values, DropIns, AliasLines, MaxChanges, MaxSteps,
  Plugin, CommandLines, Disks, Hooks,               \* of Configuration
  Install, Erase, Considered(_),                    \* of CliRun
  Listed, Evr, Systems, ListsAsked(_),              \* of PackageLists; Listed: its names
  Nevra, Transactions                               \* of RpmCallbacks

VARIABLES topic, v1, v2, v3, v4, v5, v6, v7, v8, v9
vars == <<topic, v1, v2, v3, v4, v5, v6, v7, v8, v9>>
Unused == "unused"

Expiry == INSTANCE RepoExpiry WITH
  Worlds <- ExpiryWorlds,
  world <- v1, marked <- v2, cached <- v3, stale <- v4, recent <- v5, mdLock <- v6,
  run <- v7, due <- v8

History == INSTANCE HistoryReplay WITH
  installed <- v1, reason <- v2, groups <- v3, offered <- v4, log <- v5, outside <- v6,
  file <- v7, did <- v8, count <- v9

\* There is one version of a package on a system; what is installed and what is offered
\* are packages, and the groups that are offered are known.
ASSUME HistoryAssumption ==
  /\ \A offer \in Offers : offer.pkgs \subseteq History!Package /\ offer.ids \subseteq Id
  /\ \A seed \in Seeds : /\ seed[1] \subseteq History!Package
                        /\ \A k, l \in seed[1] : k[1] = l[1] => k = l

Keys == INSTANCE KeyImport WITH
  Package <- SignedPkg, Id <- KeyId,
  keyring <- v1, marker <- v2, tried <- v3, cache <- v4, conf <- v5, job <- v6, runs <- v7

Automatic == INSTANCE AutomaticRun WITH
  unit <- v1, file <- v2, emit <- v3, pc <- v4, conf <- v5, has <- v6, notified <- v7,
  told <- v8, exit <- v9

Aliases == INSTANCE CommandAliases WITH
  Name <- Alias, Option <- AliasOption, Other <- AliasWord, Lines <- AliasLines,
  dropins <- v1, user <- v2, enabled <- v3, changes <- v4

Config == INSTANCE Configuration WITH
  Lines <- CommandLines,
  cmd <- v1, disk <- v2, hook <- v3, verify <- v4, pc <- v5, conf <- v6, repos <- v7, loaded <- v8

Command == INSTANCE CliRun WITH
  world <- v1, pc <- v2, status <- v3, unlocked <- v4, stored <- v5, done <- v6, failed <- v7,
  tid <- v8, exit <- v9

Lists == INSTANCE PackageLists WITH
  Name <- Listed, Worlds <- Systems, Asked <- ListsAsked,
  world <- v1, request <- v2, shown <- v3, status <- v4

\* Systems have finitely many packages, with versions that can be compared.
ASSUME ListsAssumption ==
  Evr \subseteq Nat /\ \A w \in Systems : w \in Lists!World /\ IsFiniteSet(w.installed)

Rpm == INSTANCE RpmCallbacks WITH
  world <- v1, te_list <- v2, te_index <- v3, complete <- v4, total <- v5, cache <- v6,
  open <- v7, pc <- v8, report <- v9

\* A transaction has finitely many items, and what is erased is erased once, and not
\* installed but for a reinstallation.
ASSUME RpmAssumption ==
  \A items \in Transactions :
    /\ items \subseteq Rpm!Item /\ IsFiniteSet(items)
    /\ \A i, j \in items :
         i.action \in Rpm!Backward /\ j.nevra = i.nevra
           /\ j.action \notin {"REINSTALL", "REASON_CHANGE"} => j = i

------------------------------------------------------------------------------
Init ==
  /\ topic \in Topics
  /\ \/ topic = "expiry"    /\ Expiry!Init /\ v9 = Unused
     \/ topic = "history"   /\ History!Init
     \/ topic = "keys"      /\ Keys!Init /\ v8 = Unused /\ v9 = Unused
     \/ topic = "automatic" /\ Automatic!Init
     \/ topic = "aliases"   /\ Aliases!Init
          /\ v5 = Unused /\ v6 = Unused /\ v7 = Unused /\ v8 = Unused /\ v9 = Unused
     \/ topic = "config"    /\ Config!Init /\ v9 = Unused
     \/ topic = "command"   /\ Command!Init
     \/ topic = "lists"     /\ Lists!Init
          /\ v5 = Unused /\ v6 = Unused /\ v7 = Unused /\ v8 = Unused /\ v9 = Unused
     \/ topic = "rpm"       /\ Rpm!Init

Next ==
  \/ topic = "expiry"    /\ Expiry!Next    /\ UNCHANGED <<topic, v9>>
  \/ topic = "history"   /\ History!Next   /\ UNCHANGED topic
  \/ topic = "keys"      /\ Keys!Next      /\ UNCHANGED <<topic, v8, v9>>
  \/ topic = "automatic" /\ Automatic!Next /\ UNCHANGED topic
  \/ topic = "aliases"   /\ Aliases!Next   /\ UNCHANGED <<topic, v5, v6, v7, v8, v9>>
  \/ topic = "config"    /\ Config!Next    /\ UNCHANGED <<topic, v9>>
  \/ topic = "command"   /\ Command!Next   /\ UNCHANGED topic
  \/ topic = "lists"     /\ Lists!Next     /\ UNCHANGED <<topic, v5, v6, v7, v8, v9>>
  \/ topic = "rpm"       /\ Rpm!Next       /\ UNCHANGED topic

Spec == Init /\ [][Next]_vars

------------------------------------------------------------------------------
\* Every variable has the type the code of its component gives it.
TypeOK ==
  /\ topic \in Topics
  /\ topic = "expiry"    => Expiry!TypeOK
  /\ topic = "history"   => History!TypeOK
  /\ topic = "keys"      => Keys!TypeOK
  /\ topic = "automatic" => Automatic!TypeOK
  /\ topic = "aliases"   => Aliases!TypeOK
  /\ topic = "config"    => Config!TypeOK
  /\ topic = "command"   => Command!TypeOK
  /\ topic = "lists"     => Lists!TypeOK
  /\ topic = "rpm"       => Rpm!TypeOK

\* What cleaning promises of the metadata (doc/command_ref.rst:582), if no run
\* leaves a repository out.
RevalidatedUnlessIdle == topic = "expiry" => Expiry!RevalidatedUnlessIdle

\* The same of every run: "the next time it is used" (doc/command_ref.rst:582).
RevalidatedWhenUsed == topic = "expiry" => Expiry!RevalidatedWhenUsed

\* No mark in expired_repos.json is lost, and none is left over (base.py:246).
MarksAreExact == topic = "expiry" => Expiry!MarksAreExact

\* A rollback without a problem brings back what there was
\* (commands/history.py:191).
RollbackRestores == [][topic = "history" => History!Restores]_vars

\* A replay with no option does just what was stored (transaction_sr.py:276).
ReplayIsExact == [][topic = "history" => History!ReplaysExactly]_vars

\* Only packages whose signatures rpm has the keys of are installed
\* (base.py:2578).
RunsOnlyVerified == topic = "keys" => Keys!RunsOnlyVerified

\* What the emitters deliver last, and the exit status, are what happened
\* (automatic/main.py:382-394).
ToldWhatHappened == topic = "automatic" => Automatic!ToldWhatHappened

\* Aliases are resolved the way command_ref.rst says (aliases.py:142).
ResolvesAsDocumented == topic = "aliases" => Aliases!ResolvesAsDocumented

\* What the user has typed is in force when the command runs (cli.py:951).
SettingsAsAsked == topic = "config" => Config!SettingsAsAsked

\* With a history the exit status is true (cli.py:308, main.py).
ExitIsHonest == topic = "command" => Command!ExitIsHonest

\* "0: Operation was successful." (doc/command_ref.rst:50)
ZeroMeansDone == topic = "command" => Command!ZeroMeansDone

\* Which versions are listed does not depend on the terminal (cli.py:620).
ColoursKeepVersions == topic = "lists" => Lists!ColoursKeepVersions

\* Callbacks are reported for the item they are about (rpmtrans.py:259).
ReportsAreTrue == topic = "rpm" => Rpm!ReportsAreTrue
==============================================================================
