------------------------------- MODULE Requests -------------------------------
(*****************************************************************************)
(* The components that turn what the user asks for into transactions, one    *)
(* after another: comps groups, module streams and a shell session.  A       *)
(* behaviour is one of them, its topic: they share the variables v1..v7, and *)
(* every property is that of the topic's component.                          *)
(*****************************************************************************)
EXTENDS Naturals, FiniteSets

CONSTANTS
  Topics,                                             \* the components to look at
  Member, Alike, Group, Env, CompsData, CompsSeeds,   \* of CompsGroups; Member: its packages
  MaxRequests,
  Mod, Profile, Pkg, Streams, Default, Contents,      \* of ModuleStreams
  DefaultProfiles, Artifacts, StreamRequires, FailSafes, NonModular, Arguments,
  Name, Repo, Content, Obsoletes, Requires,           \* of ShellSession
  Conflicts, Secure, Protected, Seeds,
  MaxCommands, MaxRuns                                \* of several of them

VARIABLES topic, v1, v2, v3, v4, v5, v6, v7
vars == <<topic, v1, v2, v3, v4, v5, v6, v7>>
Unused == "unused"

Comps == INSTANCE CompsGroups WITH
  Pkg <- Member, Seeds <- CompsSeeds,
  comps <- v1, installed <- v2, reason <- v3, db <- v4, session <- v5, goal <- v6, count <- v7

Modules == INSTANCE ModuleStreams WITH
  Requires <- StreamRequires,
  table <- v1, stored <- v2, reason <- v3, goal <- v4, session <- v5

Shell == INSTANCE ShellSession WITH
  installed <- v1, reason <- v2, origin <- v3, stored <- v4, session <- v5, count <- v6

\* Comps files say of every package whether a group has it, and of every group
\* whether an environment has it.
ASSUME CompsAssumption ==
  /\ \A c \in CompsData : /\ c.group \in [Group -> [Member -> Comps!PkgType \cup {"no"}]]
                          /\ c.env \in [Env -> [Group -> Comps!PkgType \cup {"no"}]]
  /\ CompsSeeds \subseteq [Member -> Comps!Reason]

\* What is installed at first is a consistent set of packages, as rpm leaves it.
ASSUME ShellAssumption ==
  /\ IsFiniteSet(Name) /\ IsFiniteSet(Repo)
  /\ Content \in [Repo -> SUBSET Shell!Package]
  /\ \A S \in Seeds : S \subseteq Shell!Package /\ Shell!Consistent(S)

\* What modules are: a profile lists packages of its stream, and no stream depends
\* on one of its own module.
ASSUME ModulesAssumption ==
  /\ "none" \notin Modules!Stream /\ NonModular \subseteq Pkg
  /\ Contents \in [Modules!All -> [Profile -> SUBSET Pkg]]
  /\ Artifacts \in [Modules!All -> SUBSET Pkg]
  /\ DefaultProfiles \in [Modules!All -> SUBSET Profile]
  /\ StreamRequires \in [Modules!All -> SUBSET Modules!All]
  /\ \A a \in Arguments : a.name \in Mod /\ a.profile \in {"any"} \cup Profile
  /\ \A x \in Modules!All : \A p \in Profile : Contents[x][p] \subseteq Artifacts[x]
  /\ \A x \in Modules!All : \A y \in StreamRequires[x] : x[1] # y[1]

------------------------------------------------------------------------------
Init ==
  /\ topic \in Topics
  /\ \/ topic = "comps"   /\ Comps!Init
     \/ topic = "modules" /\ Modules!Init /\ v6 = Unused /\ v7 = Unused
     \/ topic = "shell"   /\ Shell!Init   /\ v7 = Unused

Next ==
  \/ topic = "comps"   /\ Comps!Next   /\ UNCHANGED topic
  \/ topic = "modules" /\ Modules!Next /\ UNCHANGED <<topic, v6, v7>>
  \/ topic = "shell"   /\ Shell!Next   /\ UNCHANGED <<topic, v7>>

Spec == Init /\ [][Next]_vars

------------------------------------------------------------------------------
\* Every variable has the type the code of its component gives it.
TypeOK ==
  /\ topic \in Topics
  /\ topic = "comps"   => Comps!TypeOK
  /\ topic = "modules" => Modules!TypeOK
  /\ topic = "shell"   => Shell!TypeOK

\* What a transaction of groups takes away is marked by no group it leaves behind,
\* unless that was upgraded (db/group.py:128).
NoMarkOfWhatIsGone == [][topic = "comps" => Comps!GoneIsUnmarked]_vars

\* A package is both installed and removed only because of a record of a group
\* that was never verified (comps.py:497, base.py:1220).
BothOnlyIfUnverified == topic = "comps" => Comps!BothOnlyIfUnverified

\* Packages of a profile that stays are lost only to `module remove --all' and a
\* few other ways (module_base.py:371).
LostOnlyToAll == [][topic = "modules" => Modules!LossIsAskedFor]_vars

\* A shell carries out nothing of a transaction that was abandoned (shell.py:90).
RunsWhatWasAsked == [][topic = "shell" => Shell!LeavesWhatWasAsked]_vars

\* What the user has asked for stays so through every transaction, unless an update
\* of something else obsoletes it (base.py:788).
UserStaysUser == [][topic = "shell" => Shell!KeepsUser]_vars

\* `run' carries out the resolution of what was asked for (shell.py:216).
RunsTheResolution == [][topic = "shell" => Shell!RunsResolved]_vars
==============================================================================
