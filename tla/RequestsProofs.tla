---------------------------- MODULE RequestsProofs ----------------------------
(*****************************************************************************)
(* What requests and their transactions keep true, for all packages, groups, *)
(* modules and repositories.                                                 *)
(*****************************************************************************)
EXTENDS Requests, FiniteSetTheorems, WellFoundedInduction, TLAPS

------------------------------------------------------------------------------
(* The commands of a shell session only ask.                               *)

\* What commands leave alone.
OnlyAsks(s, t) ==
  /\ t \in Shell!Session
  /\ t.items = s.items /\ t.ready = s.ready

\* A request is added to the others.
LEMMA AskIn ==
  ASSUME NEW s \in Shell!Session,
         NEW do \in {"install", "reinstall", "erase", "upgrade", "sync"},
         NEW from \in SUBSET Shell!Package, NEW in \in SUBSET Repo,
         NEW must \in BOOLEAN, NEW clean \in BOOLEAN
  PROVE  /\ OnlyAsks(s, Shell!AskIn(s, do, from, in, must, clean))
         /\ OnlyAsks(s, Shell!Ask(s, do, from, must, clean))
BY DEF OnlyAsks, Shell!AskIn, Shell!Ask, Shell!Session, Shell!Job

\* A command may ask for nothing.
LEMMA NothingAsked == \A s \in Shell!Session : OnlyAsks(s, s)
BY DEF OnlyAsks

\* Queries find packages.
LEMMA Queries ==
  ASSUME v1 \subseteq Shell!Package, NEW s \in Shell!Session
  PROVE  /\ Shell!Available(s) \subseteq Shell!Package
         /\ Shell!Sack(s) \subseteq Shell!Package
         /\ \A S : Shell!Obsoleters(s, S) \subseteq Shell!Package
         /\ \A in : UNION {Content[r] : r \in in \cap (s.enabled \ s.hidden)} \subseteq Shell!Package
<1>1. \A r \in s.enabled : Content[r] \subseteq Shell!Package
  BY ShellAssumption DEF Shell!Session
<1> QED BY <1>1 DEF Shell!Available, Shell!Sack, Shell!Obsoleters

\* Installing, from some repositories or from all.
LEMMA InstallAsks ==
  ASSUME v1 \subseteq Shell!Package, NEW s \in Shell!Session, NEW n, NEW in \in SUBSET Repo,
         NEW strict \in BOOLEAN
  PROVE  OnlyAsks(s, Shell!InstallFrom(s, n, in, strict))
<1> DEFINE of == UNION {Content[r] : r \in in \cap (s.enabled \ s.hidden)}
           all == Shell!Of(n, Shell!Sack(s))
           q == all \cup Shell!Obsoleters(s, Shell!Newest(all))
           wanted == IF in = Repo THEN q ELSE q \cap of
<1>1. wanted \in SUBSET Shell!Package
  BY Queries DEF Shell!Of
<1>2. Shell!InstallFrom(s, n, in, strict)
        = IF wanted = {} THEN s ELSE Shell!AskIn(s, "install", wanted, in, strict, FALSE)
  BY DEF Shell!InstallFrom
<1> HIDE DEF wanted
<1>3. OnlyAsks(s, Shell!AskIn(s, "install", wanted, in, strict, FALSE))
  BY <1>1, AskIn, Zenon
<1> QED BY <1>2, <1>3, NothingAsked

\* Upgrading, from some repositories or from all.
LEMMA UpgradeInternalAsks ==
  ASSUME v1 \subseteq Shell!Package, NEW s \in Shell!Session, NEW q, NEW in \in SUBSET Repo,
         q \subseteq Shell!Sack(s)
  PROVE  OnlyAsks(s, Shell!UpgradeInternal(s, q, in))
<1> DEFINE relevant == {k \in q : k[1] \in Shell!Names(v1)}
           obsoleting == Shell!Obsoleters(s, (relevant \cap v1) \cup (relevant \cap Shell!Upgrades(s)))
           of == UNION {Content[r] : r \in in}
           wanted == Shell!Filtered(s, (q \cup obsoleting) \cap (IF in = Repo THEN Shell!Sack(s) ELSE of))
           from == wanted \cup {k \in Shell!Newest(v1) : k[1] \in Shell!Names(wanted)}
<1>1. from \in SUBSET Shell!Package
  <2>1. wanted \subseteq Shell!Package
    BY Queries DEF Shell!Filtered
  <2> QED BY <2>1 DEF Shell!Newest
<1>2. Shell!UpgradeInternal(s, q, in)
        = IF wanted = {} THEN s ELSE Shell!AskIn(s, "upgrade", from, in, FALSE, FALSE)
  BY DEF Shell!UpgradeInternal
<1> HIDE DEF wanted, from
<1>3. OnlyAsks(s, Shell!AskIn(s, "upgrade", from, in, FALSE, FALSE))
  BY <1>1, AskIn, Zenon
<1> QED BY <1>2, <1>3, NothingAsked

\* Upgrading what has a name.
LEMMA UpgradeAsks ==
  ASSUME v1 \subseteq Shell!Package, NEW s \in Shell!Session, NEW n, NEW in \in SUBSET Repo
  PROVE  OnlyAsks(s, Shell!UpgradeFrom(s, n, in))
<1>1. Shell!Of(n, Shell!Sack(s)) \subseteq Shell!Sack(s)
  BY DEF Shell!Of
<1> QED BY <1>1, UpgradeInternalAsks DEF Shell!UpgradeFrom, OnlyAsks

\* Removing what has a name.
LEMMA RemoveAsks ==
  ASSUME v1 \subseteq Shell!Package, NEW s \in Shell!Session, NEW n
  PROVE  OnlyAsks(s, Shell!Remove(s, n))
<1>1. Shell!Of(n, v1) \in SUBSET Shell!Package /\ s.clean \in BOOLEAN
  BY DEF Shell!Of, Shell!Session
<1>2. OnlyAsks(s, Shell!Ask(s, "erase", Shell!Of(n, v1), TRUE, s.clean))
  BY <1>1, AskIn, Zenon
<1> QED BY <1>2, NothingAsked DEF Shell!Remove

\* Reinstalling packages, or removing them.
LEMMA ReinstallAsks ==
  ASSUME v1 \subseteq Shell!Package, NEW s \in Shell!Session, NEW mine \in SUBSET Shell!Package,
         NEW in \in SUBSET Repo, NEW remove \in BOOLEAN
  PROVE  OnlyAsks(s, Shell!ReinstallFrom(s, mine, in, remove))
<1> DEFINE q == mine \cap UNION {Content[r] : r \in in \cap (s.enabled \ s.hidden)}
           t == IF q = {} THEN s ELSE Shell!AskIn(s, "reinstall", q, in, TRUE, FALSE)
<1>1. q \in SUBSET Shell!Package /\ mine \ q \in SUBSET Shell!Package /\ s.clean \in BOOLEAN
  BY DEF Shell!Session
<1>2. OnlyAsks(s, t)
  <2> HIDE DEF q
  <2>1. OnlyAsks(s, Shell!AskIn(s, "reinstall", q, in, TRUE, FALSE))
    BY <1>1, AskIn, Zenon
  <2> QED BY <2>1, NothingAsked
<1>3. Shell!ReinstallFrom(s, mine, in, remove)
        = IF remove /\ mine \ q # {} THEN Shell!Ask(t, "erase", mine \ q, TRUE, s.clean) ELSE t
  BY DEF Shell!ReinstallFrom
<1> HIDE DEF t, q
<1>4. OnlyAsks(t, Shell!Ask(t, "erase", mine \ q, TRUE, s.clean))
  <2>1. t \in Shell!Session
    BY <1>2 DEF OnlyAsks
  <2> QED BY <1>1, <2>1, AskIn, Zenon
<1> QED BY <1>2, <1>3, <1>4 DEF OnlyAsks

\* What a command leaves is a session.
LEMMA Asked == \A s, t : OnlyAsks(s, t) => t \in Shell!Session
BY DEF OnlyAsks

\* Asking twice is asking.
LEMMA AskedTwice ==
  ASSUME NEW s, NEW t, NEW u, OnlyAsks(s, t), OnlyAsks(t, u)
  PROVE  OnlyAsks(s, u)
BY DEF OnlyAsks

\* What is set in the demands, the configuration and the sack is no request.
LEMMA Setting ==
  ASSUME NEW s \in Shell!Session
  PROVE  /\ \A b \in BOOLEAN : OnlyAsks(s, Shell!Erasing(s, b))
         /\ \A b \in BOOLEAN : OnlyAsks(s, Shell!Secured(s, b))
         /\ \A r \in Repo : OnlyAsks(s, [s EXCEPT !.hidden = @ \cup {r}])
         /\ \A x \in {"module", "comps"} : OnlyAsks(s, [s EXCEPT !.changed = @ \cup {x}])
         /\ \A jobs \in SUBSET Shell!Job : OnlyAsks(s, [s EXCEPT !.jobs = jobs])
<1>1. ASSUME NEW b \in BOOLEAN
      PROVE  OnlyAsks(s, Shell!Erasing(s, b)) /\ OnlyAsks(s, Shell!Secured(s, b))
  <2> DEFINE clean == s.clean \/ b
             secure == s.secure \/ b
  <2>1. clean \in BOOLEAN /\ secure \in BOOLEAN
    OBVIOUS
  <2>2. /\ Shell!Erasing(s, b) = [s EXCEPT !.allow = TRUE, !.clean = clean]
        /\ Shell!Secured(s, b) = [s EXCEPT !.secure = secure]
    BY Zenon DEF Shell!Erasing, Shell!Secured
  <2> HIDE DEF clean, secure
  <2> QED BY <2>1, <2>2 DEF OnlyAsks, Shell!Session
<1> QED BY <1>1 DEF OnlyAsks, Shell!Session

\* Commands for names of packages.
LEMMA NameCommandsAsk ==
  ASSUME v1 \subseteq Shell!Package, NEW s \in Shell!Session
  PROVE  /\ \A t \in Shell!InstallCommand(s) : OnlyAsks(s, t)
         /\ \A t \in Shell!UpgradeCommand(s) : OnlyAsks(s, t)
         /\ \A t \in Shell!RemoveCommand(s) : OnlyAsks(s, t)
         /\ \A t \in Shell!SwapCommand(s) : OnlyAsks(s, t)
<1>1. \A t \in Shell!Session, strict \in BOOLEAN : \A n : OnlyAsks(t, Shell!Install(t, n, strict))
  BY InstallAsks DEF Shell!Install
<1>2. \A t \in Shell!Session : \A n : OnlyAsks(t, Shell!Upgrade(t, n))
  BY UpgradeAsks DEF Shell!Upgrade
<1>3. \A t \in Shell!Session : OnlyAsks(t, Shell!UpgradeAll(t))
  BY UpgradeInternalAsks DEF Shell!UpgradeAll
<1>4. \A t \in Shell!Session, strict \in BOOLEAN : \A n, m :
        OnlyAsks(t, Shell!Install(Shell!Install(t, n, strict), m, strict))
  BY <1>1, AskedTwice, Asked, Zenon
<1>5. \A t \in Shell!Session : \A n, m :
        OnlyAsks(t, Shell!Remove(Shell!Install(t, n, TRUE), m))
  BY <1>1, RemoveAsks, AskedTwice, Asked, Zenon
<1>6. ASSUME NEW t \in Shell!InstallCommand(s) PROVE OnlyAsks(s, t)
  <2> DEFINE one == {Shell!Install(s, n, strict) : n \in Name, strict \in BOOLEAN}
             two == {Shell!Install(Shell!Install(s, x[1], TRUE), x[2], TRUE) : x \in Name \X Name}
  <2>1. t \in one => \E n \in Name, strict \in BOOLEAN : t = Shell!Install(s, n, strict)
    OBVIOUS
  <2>2. t \in two => \E x \in Name \X Name : t = Shell!Install(Shell!Install(s, x[1], TRUE), x[2], TRUE)
    BY Zenon
  <2>3. Shell!InstallCommand(s) = IF ~Shell!AnyRepo(s) THEN {} ELSE one \cup two
    BY DEF Shell!InstallCommand
  <2> HIDE DEF one, two
  <2>4. t \in one \/ t \in two
    BY <2>3
  <2> QED BY <2>1, <2>2, <2>4, <1>1, <1>4, Zenon
<1>7. ASSUME NEW t \in Shell!UpgradeCommand(s) PROVE OnlyAsks(s, t)
  <2> DEFINE one == {Shell!Upgrade(Shell!Secured(s, secure), n) : n \in Name, secure \in BOOLEAN}
             two == {Shell!UpgradeAll(Shell!Secured(s, secure)) : secure \in BOOLEAN}
  <2>1. t \in one => \E n \in Name, secure \in BOOLEAN : t = Shell!Upgrade(Shell!Secured(s, secure), n)
    OBVIOUS
  <2>2. t \in two => \E secure \in BOOLEAN : t = Shell!UpgradeAll(Shell!Secured(s, secure))
    OBVIOUS
  <2>3. Shell!UpgradeCommand(s) = IF ~Shell!AnyRepo(s) THEN {} ELSE one \cup two
    BY DEF Shell!UpgradeCommand
  <2> HIDE DEF one, two
  <2>4. t \in one \/ t \in two
    BY <2>3
  <2>5. \A secure \in BOOLEAN : \A n : OnlyAsks(s, Shell!Upgrade(Shell!Secured(s, secure), n))
    BY <1>2, Setting, AskedTwice, Asked, Zenon
  <2>6. \A secure \in BOOLEAN : OnlyAsks(s, Shell!UpgradeAll(Shell!Secured(s, secure)))
    BY <1>3, Setting, AskedTwice, Asked, Zenon
  <2> QED BY <2>1, <2>2, <2>4, <2>5, <2>6, Zenon
<1>8. ASSUME NEW t \in Shell!RemoveCommand(s) PROVE OnlyAsks(s, t)
  <2>1. \E n \in Name, auto \in BOOLEAN : t = Shell!Remove(Shell!Erasing(s, auto), n)
    BY DEF Shell!RemoveCommand
  <2> QED BY <2>1, RemoveAsks, Setting, AskedTwice, Asked, Zenon
<1>9. ASSUME NEW t \in Shell!SwapCommand(s) PROVE OnlyAsks(s, t)
  <2>1. \E x \in Name \X Name : t = Shell!Remove(Shell!Install(s, x[1], TRUE), x[2])
    BY DEF Shell!SwapCommand
  <2> QED BY <2>1, <1>5, Zenon
<1> QED BY <1>6, <1>7, <1>8, <1>9

\* Commands for what is installed, or for all of it.
LEMMA OtherCommandsAsk ==
  ASSUME v1 \subseteq Shell!Package, NEW s \in Shell!Session
  PROVE  /\ \A t \in Shell!AutoremoveCommand(s) : OnlyAsks(s, t)
         /\ \A t \in Shell!ReinstallCommand(s) : OnlyAsks(s, t)
         /\ \A t \in Shell!DowngradeCommand(s) : OnlyAsks(s, t)
         /\ \A t \in Shell!DistroSyncCommand(s) : OnlyAsks(s, t)
         /\ \A t \in Shell!OtherCommand(s) : OnlyAsks(s, t)
<1>1. OnlyAsks(s, Shell!AutoremoveAll(s))
  <2> DEFINE kept == Shell!Names(Shell!Unneeded) \cap Protected
             gone == {k \in Shell!Unneeded : k[1] \notin kept \cup UNION {Requires[n] : n \in kept}}
  <2>1. gone \in SUBSET Shell!Package
    BY DEF Shell!Unneeded
  <2>2. Shell!AutoremoveAll(s) = IF gone = {} THEN s ELSE Shell!Ask(s, "erase", gone, TRUE, FALSE)
    BY DEF Shell!AutoremoveAll
  <2> HIDE DEF gone
  <2>3. OnlyAsks(s, Shell!Ask(s, "erase", gone, TRUE, FALSE))
    BY <2>1, AskIn, Zenon
  <2> QED BY <2>2, <2>3, NothingAsked
<1>2. ASSUME NEW n PROVE OnlyAsks(s, Shell!Reinstall(s, n))
  <2>1. Shell!Of(n, v1) \in SUBSET Shell!Package
    BY DEF Shell!Of
  <2> QED BY <2>1, ReinstallAsks, Zenon DEF Shell!Reinstall
<1>3. ASSUME NEW n, NEW strict \in BOOLEAN PROVE OnlyAsks(s, Shell!Downgrade(s, n, strict))
  <2> DEFINE q == Shell!Of(n, Shell!Downgrades(s))
  <2>1. q \in SUBSET Shell!Package
    BY Queries DEF Shell!Of, Shell!Downgrades
  <2>2. OnlyAsks(s, Shell!Ask(s, "install", q, strict, FALSE))
    BY <2>1, AskIn, Zenon
  <2> QED BY <2>2, NothingAsked DEF Shell!Downgrade
<1>4. ASSUME NEW names PROVE OnlyAsks(s, Shell!DistroSync(s, names))
  <2> DEFINE q == {k \in Shell!Available(s) : k[1] \in names \/ Obsoletes[k] \cap names # {}}
  <2>1. q \in SUBSET Shell!Package
    BY Queries
  <2>2. OnlyAsks(s, Shell!Ask(s, "sync", q, FALSE, FALSE))
    <3> HIDE DEF q
    <3> QED BY <2>1, AskIn, Zenon
  <2> QED BY <2>2, NothingAsked DEF Shell!DistroSync
<1>5. \A t \in Shell!DowngradeCommand(s) : OnlyAsks(s, t)
  <2>1. \A t \in Shell!DowngradeCommand(s) :
          \E n \in Name, strict \in BOOLEAN : t = Shell!Downgrade(s, n, strict)
    BY DEF Shell!DowngradeCommand
  <2> QED BY <2>1, <1>3, Zenon
<1> QED
  BY <1>1, <1>2, <1>4, <1>5, Setting
  DEF Shell!AutoremoveCommand, Shell!ReinstallCommand, Shell!DistroSyncCommand, Shell!OtherCommand

\* repository-packages, for some names or for all.
LEMMA RepoPkgsCommandAsks ==
  ASSUME v1 \subseteq Shell!Package, NEW s \in Shell!Session, NEW t \in Shell!RepoPkgsCommand(s)
  PROVE  OnlyAsks(s, t)
<1>1. PICK r \in Repo, ns \in {{n} : n \in Name} \cup {Name} :
        t \in {Shell!RepoInstall(s, r, ns), Shell!RepoUpgrade(s, r, ns), Shell!RepoMoveTo(s, r, ns),
               Shell!RepoReinstallOld(s, r, ns), Shell!RepoReinstall(s, r, ns),
               Shell!RepoRemove(s, r, ns), Shell!RepoRemoveOrDistroSync(s, r, ns),
               Shell!RepoRemoveOrReinstall(s, r, ns)}
  <2>1. s.enabled \subseteq Repo
    BY DEF Shell!Session
  <2> QED BY <2>1 DEF Shell!RepoPkgsCommand
<1>2. /\ Shell!From(r, ns) \in SUBSET Shell!Package /\ {k \in v1 : k[1] \in ns} \in SUBSET Shell!Package
      /\ {r} \in SUBSET Repo /\ Repo \ {r} \in SUBSET Repo /\ s.clean \in BOOLEAN
  BY DEF Shell!From, Shell!Session
<1>3. OnlyAsks(s, Shell!RepoInstall(s, r, ns))
  <2>1. \A n : Shell!InstallFrom(s, n, {r}, TRUE).jobs \subseteq Shell!Job
    <3>1. \A n : OnlyAsks(s, Shell!InstallFrom(s, n, {r}, TRUE))
      BY <1>2, InstallAsks, Zenon
    <3> QED BY <3>1 DEF OnlyAsks, Shell!Session
  <2>2. UNION {Shell!InstallFrom(s, n, {r}, TRUE).jobs : n \in ns} \in SUBSET Shell!Job
    BY <2>1
  <2> QED BY <2>2, Setting, Zenon DEF Shell!RepoInstall
<1>4. OnlyAsks(s, Shell!RepoUpgrade(s, r, ns))
  <2>1. \A n : OnlyAsks(s, Shell!UpgradeFrom(s, n, {r}))
    BY <1>2, UpgradeAsks, Zenon
  <2>2. OnlyAsks(s, Shell!UpgradeInternal(s, Shell!Sack(s), {r}))
    BY <1>2, UpgradeInternalAsks
  <2> QED BY <2>1, <2>2 DEF Shell!RepoUpgrade
<1>5. /\ OnlyAsks(s, Shell!RepoMoveTo(s, r, ns))
      /\ OnlyAsks(s, Shell!RepoReinstallOld(s, r, ns))
      /\ OnlyAsks(s, Shell!RepoReinstall(s, r, ns))
      /\ OnlyAsks(s, Shell!RepoRemoveOrReinstall(s, r, ns))
  <2>1. /\ OnlyAsks(s, Shell!RepoMoveTo(s, r, ns))
        /\ OnlyAsks(s, Shell!RepoReinstallOld(s, r, ns))
        /\ OnlyAsks(s, Shell!RepoRemoveOrReinstall(s, r, ns))
    BY <1>2, ReinstallAsks, Zenon
    DEF Shell!RepoMoveTo, Shell!RepoReinstallOld, Shell!RepoRemoveOrReinstall
  <2> QED BY <2>1 DEF Shell!RepoReinstall
<1>6. OnlyAsks(s, Shell!RepoRemove(s, r, ns))
  <2>1. OnlyAsks(s, Shell!Erasing(s, FALSE))
    BY Setting, Zenon
  <2>2. OnlyAsks(s, Shell!Ask(Shell!Erasing(s, FALSE), "erase", Shell!From(r, ns), TRUE, s.clean))
    BY <2>1, <1>2, AskIn, Asked, AskedTwice, Zenon
  <2> QED BY <2>1, <2>2 DEF Shell!RepoRemove
<1>7. OnlyAsks(s, Shell!RepoRemoveOrDistroSync(s, r, ns))
  <2> DEFINE h == [s EXCEPT !.hidden = @ \cup {r}]
             there == {k \in Shell!From(r, ns) : k[1] \in Shell!Names(Shell!Available(h))}
             gone == Shell!From(r, ns) \ there
             sync == {k \in Shell!Available(h) : k[1] \in Shell!Names(there)}
             u == IF there = {} THEN h ELSE Shell!Ask(h, "sync", sync, FALSE, FALSE)
  <2>1. Shell!RepoRemoveOrDistroSync(s, r, ns)
          = IF gone = {} THEN u ELSE Shell!Ask(u, "erase", gone, TRUE, s.clean)
    BY DEF Shell!RepoRemoveOrDistroSync
  <2>2. OnlyAsks(s, h)
    BY Setting
  <2> HIDE DEF h
  <2>3. sync \in SUBSET Shell!Package /\ gone \in SUBSET Shell!Package
    BY <2>2, <1>2, Queries, Asked
  <2> HIDE DEF there, sync, gone
  <2>4. OnlyAsks(h, Shell!Ask(h, "sync", sync, FALSE, FALSE))
    BY <2>2, <2>3, AskIn, Asked, Zenon
  <2>5. OnlyAsks(s, u)
    BY <2>2, <2>4, AskedTwice
  <2> HIDE DEF u
  <2>6. OnlyAsks(u, Shell!Ask(u, "erase", gone, TRUE, s.clean))
    BY <2>3, <2>5, <1>2, AskIn, Asked, Zenon
  <2>7. OnlyAsks(s, Shell!Ask(u, "erase", gone, TRUE, s.clean))
    BY <2>5, <2>6, AskedTwice, Zenon
  <2> QED BY <2>1, <2>5, <2>7
<1> QED BY <1>1, <1>3, <1>4, <1>5, <1>6, <1>7

\* Whatever the command, the transaction there is stays as it is.
LEMMA CommandsAsk ==
  ASSUME v1 \subseteq Shell!Package, NEW s \in Shell!Session, NEW t \in Shell!Commands(s)
  PROVE  OnlyAsks(s, t)
<1>1. \/ t \in Shell!InstallCommand(s) \/ t \in Shell!UpgradeCommand(s)
      \/ t \in Shell!RemoveCommand(s) \/ t \in Shell!AutoremoveCommand(s)
      \/ t \in Shell!ReinstallCommand(s) \/ t \in Shell!DowngradeCommand(s)
      \/ t \in Shell!DistroSyncCommand(s) \/ t \in Shell!SwapCommand(s)
      \/ t \in Shell!RepoPkgsCommand(s) \/ t \in Shell!OtherCommand(s)
  BY DEF Shell!Commands
<1> QED BY <1>1, NameCommandsAsk, OtherCommandsAsk, RepoPkgsCommandAsks, Zenon

------------------------------------------------------------------------------
(* The solver's answer is one of the solutions.                            *)

\* There are finitely many packages, and requests for them.
LEMMA FiniteRequests == IsFiniteSet(Shell!Package) /\ IsFiniteSet(Shell!Job)
<1> DEFINE D == {"install", "reinstall", "erase", "upgrade", "sync"}
           P == SUBSET Shell!Package
           R == SUBSET Repo
           B == {TRUE, FALSE}
<1>1. IsFiniteSet(Shell!Package)
  <2>1. IsFiniteSet({1} \cup {2})
    BY FS_Singleton, FS_Union
  <2>2. {1} \cup {2} = Shell!Version
    BY DEF Shell!Version
  <2> QED BY <2>1, <2>2, ShellAssumption, FS_Product DEF Shell!Package
<1>2. IsFiniteSet(P) /\ IsFiniteSet(R)
  BY <1>1, ShellAssumption, FS_SUBSET
<1>3. IsFiniteSet(D)
  <2>1. IsFiniteSet({"install"} \cup {"reinstall"}) /\ IsFiniteSet({"erase"} \cup {"upgrade"})
    BY FS_Singleton, FS_Union
  <2>2. IsFiniteSet(({"install"} \cup {"reinstall"}) \cup ({"erase"} \cup {"upgrade"}))
    BY <2>1, FS_Union
  <2>3. IsFiniteSet((({"install"} \cup {"reinstall"}) \cup ({"erase"} \cup {"upgrade"})) \cup {"sync"})
    BY <2>2, FS_Singleton, FS_Union
  <2>4. (({"install"} \cup {"reinstall"}) \cup ({"erase"} \cup {"upgrade"})) \cup {"sync"} = D
    OBVIOUS
  <2> QED BY <2>3, <2>4
<1>4. IsFiniteSet(B)
  <2>1. IsFiniteSet({TRUE} \cup {FALSE})
    BY FS_Singleton, FS_Union
  <2>2. {TRUE} \cup {FALSE} = B
    OBVIOUS
  <2> QED BY <2>1, <2>2
<1>5. IsFiniteSet(Shell!Job)
  <2> DEFINE T == (D \X P) \X (R \X (B \X B))
             f == [j \in Shell!Job |-> <<<<j.do, j.from>>, <<j.in, <<j.must, j.clean>>>>>>]
  <2>1. IsFiniteSet(T)
    <3> HIDE DEF D, P, R, B
    <3>1. IsFiniteSet(D \X P) /\ IsFiniteSet(B \X B)
      BY <1>2, <1>3, <1>4, FS_Product
    <3>2. IsFiniteSet(R \X (B \X B))
      BY <1>2, <3>1, FS_Product
    <3> QED BY <3>1, <3>2, FS_Product
  <2>2. f \in Injection(Shell!Job, T)
    <3>1. f \in [Shell!Job -> T]
      BY DEF Shell!Job
    <3>2. ASSUME NEW i \in Shell!Job, NEW j \in Shell!Job, f[i] = f[j] PROVE i = j
      BY <3>2 DEF Shell!Job
    <3> HIDE DEF f, T
    <3> QED BY <3>1, <3>2 DEF Injection, IsInjective
  <2> HIDE DEF f, T
  <2> QED BY <2>1, <2>2, FS_Injection
<1> QED BY <1>1, <1>5

\* What a solution costs is a number.
LEMMA CostType ==
  ASSUME v1 \subseteq Shell!Package, NEW s \in Shell!Session, NEW w \in SUBSET Shell!Package
  PROVE  Shell!Cost(s, w) \in Nat
<1>1. Shell!Open(s, w) \subseteq Shell!Job /\ Shell!Changes(w) \subseteq Shell!Package
  BY DEF Shell!Session, Shell!Open, Shell!Changes
<1>2. IsFiniteSet(Shell!Open(s, w)) /\ IsFiniteSet(Shell!Changes(w))
  BY <1>1, FiniteRequests, FS_Subset
<1>3. Cardinality(Shell!Open(s, w)) \in Nat /\ Cardinality(Shell!Changes(w)) \in Nat
  BY <1>2, FS_CardinalityType
<1>4. \A S : Shell!Cardinality(S) = Cardinality(S)
  BY Zenon DEF Shell!Cardinality, Cardinality
<1> QED BY <1>3, <1>4 DEF Shell!Cost

\* Of solutions, if there are any, one is the cheapest.
LEMMA CheapestIsASolution ==
  ASSUME v1 \subseteq Shell!Package, NEW s \in Shell!Session, Shell!Solutions(s) # {}
  PROVE  Shell!Cheapest(s, Shell!Solutions(s)) \in Shell!Solutions(s)
<1> DEFINE ws == Shell!Solutions(s)
           cost == [w \in ws |-> Shell!Cost(s, w)]
<1>1. \A w \in ws : w \in SUBSET Shell!Package
  BY Queries DEF Shell!Solutions
<1>2. \A w \in ws : cost[w] \in Nat
  BY <1>1, CostType
<1> HIDE DEF cost
<1> DEFINE T == {cost[w] : w \in ws}
<1>3. \E x \in T : \A y \in T : ~(<<y, x>> \in OpToRel(<, Nat))
  <2>1. T \subseteq Nat /\ T # {}
    BY <1>2
  <2> QED BY <2>1, NatLessThanWellFounded, WFMin
<1>4. PICK w \in ws : \A v \in ws : ~(<<cost[v], cost[w]>> \in OpToRel(<, Nat))
  BY <1>3
<1>5. \A v \in ws : cost[w] <= cost[v]
  <2>1. \A a, b \in Nat : a < b => <<a, b>> \in OpToRel(<, Nat)
    BY DEF OpToRel
  <2> SUFFICES ASSUME NEW v \in ws PROVE cost[w] <= cost[v]
    OBVIOUS
  <2>2. cost[w] \in Nat /\ cost[v] \in Nat
    BY <1>2
  <2>3. ~(cost[v] < cost[w])
    BY <1>4, <2>1, <2>2, Zenon
  <2> QED BY <2>2, <2>3
<1>6. \E x \in ws : \A v \in ws : cost[x] <= cost[v]
  BY <1>5
<1>7. Shell!Cheapest(s, ws) = CHOOSE x \in ws : \A v \in ws : cost[x] <= cost[v]
  BY Zenon DEF Shell!Cheapest, cost
<1> HIDE DEF ws
<1>8. Shell!Cheapest(s, ws) \in ws
  BY <1>6, <1>7
<1> QED BY <1>8 DEF ws

\* The best of some reasons is one of them, and `user' is the best of all.
LEMMA BestReason ==
  ASSUME NEW S \in SUBSET Shell!Reason, S # {}
  PROVE  Shell!Best(S) \in S /\ ("user" \in S => Shell!Best(S) = "user")
<1>1. /\ Shell!Rank["unknown"] = 0 /\ Shell!Rank["dependency"] = 1
      /\ Shell!Rank["group"] = 2 /\ Shell!Rank["user"] = 3
  BY DEF Shell!Rank
<1>2. \A q \in S : q \in {"unknown", "dependency", "group", "user"}
  BY DEF Shell!Reason
<1>3. \E r \in S : \A q \in S : Shell!Rank[q] <= Shell!Rank[r]
  <2>1. CASE "user" \in S
    BY <2>1, <1>1, <1>2
  <2>2. CASE "user" \notin S /\ "group" \in S
    BY <2>2, <1>1, <1>2
  <2>3. CASE "user" \notin S /\ "group" \notin S /\ "dependency" \in S
    BY <2>3, <1>1, <1>2
  <2>4. CASE "user" \notin S /\ "group" \notin S /\ "dependency" \notin S
    BY <2>4, <1>1, <1>2
  <2> QED BY <2>1, <2>2, <2>3, <2>4
<1>4. Shell!Best(S) \in S /\ \A q \in S : Shell!Rank[q] <= Shell!Rank[Shell!Best(S)]
  BY <1>3 DEF Shell!Best
<1>5. ASSUME "user" \in S PROVE Shell!Best(S) = "user"
  <2>1. Shell!Rank["user"] <= Shell!Rank[Shell!Best(S)]
    BY <1>4, <1>5
  <2> QED BY <2>1, <1>1, <1>2, <1>4
<1> QED BY <1>4, <1>5

------------------------------------------------------------------------------
(* A transaction keeps what the user asked for.                            *)

\* What an item that installs records as the reason: that of the package it
\* updates, or, if it replaces one the user asked for, `user'.
KeepsReason(i) ==
  i.do = "install" =>
    /\ i.pkg[1] \in Shell!Names(v1) => i.reason = v2[i.pkg[1]]
    /\ i.pkg[1] \notin Shell!Names(v1) /\ (\E k \in v1 : k[1] \in Obsoletes[i.pkg] /\ v2[k[1]] = "user")
         => i.reason = "user"

\* The packages and their reasons, as the history database and rpm have them.
InstalledOK ==
  /\ v1 \subseteq Shell!Package /\ v2 \in [Name -> Shell!Reason]
  /\ v3 \in [Name -> Repo \cup {"none"}] /\ v4 \subseteq {"module", "comps"}
  /\ Shell!Consistent(v1)

\* A session whose transaction is empty until it is resolved, and keeps reasons.
SessionOK(s) ==
  /\ s \in Shell!Session
  /\ ~s.ready => s.items = {}
  /\ \A i \in s.items : KeepsReason(i)

\* What a shell session keeps true between its steps.
ShellInv == InstalledOK /\ SessionOK(v5)

\* The reason of a new package is one, and keeps that of what it replaces.
LEMMA NewReasonKeeps ==
  ASSUME InstalledOK, NEW s \in Shell!Session, NEW w \in Shell!Solutions(s), NEW k \in w
  PROVE  /\ Shell!NewReason(s, k, w) \in Shell!Reason
         /\ k[1] \in Shell!Names(v1) => Shell!NewReason(s, k, w) = v2[k[1]]
         /\ k[1] \notin Shell!Names(v1) /\ (\E l \in v1 : l[1] \in Obsoletes[k] /\ v2[l[1]] = "user")
              => Shell!NewReason(s, k, w) = "user"
<1> USE DEF InstalledOK
<1>1. CASE k[1] \in Shell!Names(v1)
  <2>1. k[1] \in Name
    BY <1>1 DEF Shell!Names, Shell!Package
  <2> QED BY <1>1, <2>1 DEF Shell!NewReason
<1>2. CASE k[1] \notin Shell!Names(v1)
  <2> DEFINE S == {Shell!GoalReason(s, k)} \cup {v2[l[1]] : l \in Shell!Replaced(k, w)}
  <2>1. Shell!NewReason(s, k, w) = Shell!Best(S)
    BY <1>2 DEF Shell!NewReason
  <2>2. S \in SUBSET Shell!Reason /\ S # {}
    <3>1. Shell!GoalReason(s, k) \in Shell!Reason
      BY DEF Shell!GoalReason, Shell!Reason
    <3>2. \A l \in Shell!Replaced(k, w) : v2[l[1]] \in Shell!Reason
      BY DEF Shell!Replaced, Shell!Package
    <3> QED BY <3>1, <3>2
  <2>3. ASSUME NEW l \in v1, l[1] \in Obsoletes[k], v2[l[1]] = "user"
        PROVE  "user" \in S
    <3>1. l \notin w
      BY <2>3 DEF Shell!Solutions, Shell!Consistent, Shell!Names
    <3>2. l \in Shell!Replaced(k, w)
      BY <2>3, <3>1 DEF Shell!Replaced
    <3> QED BY <2>3, <3>2
  <2> HIDE DEF S
  <2> QED BY <1>2, <2>1, <2>2, <2>3, BestReason
<1> QED BY <1>1, <1>2

\* A package comes from a repository, or from none.
LEMMA SourceType ==
  ASSUME NEW s \in Shell!Session, NEW k
  PROVE  Shell!Source(s, k) \in Repo \cup {"none"}
<1> DEFINE have == {r \in s.enabled \ s.hidden : k \in Content[r]}
           from == UNION {j.in : j \in {i \in s.jobs : i.do # "erase" /\ k \in i.from}}
<1>1. have \subseteq Repo
  BY DEF Shell!Session
<1>2. Shell!Source(s, k)
        = IF have = {} THEN "none" ELSE CHOOSE r \in have : have \cap from # {} => r \in from
  BY DEF Shell!Source
<1> HIDE DEF have, from
<1>3. have # {} => \E r \in have : have \cap from # {} => r \in from
  OBVIOUS
<1> QED BY <1>1, <1>2, <1>3

\* What a solution changes are items that keep reasons.
LEMMA GoalItems ==
  ASSUME InstalledOK, NEW s \in Shell!Session, NEW w \in Shell!Solutions(s),
         NEW i \in Shell!Goal2Transaction(s, w)
  PROVE  i \in Shell!Item /\ KeepsReason(i)
<1>1. v1 \subseteq Shell!Package /\ w \subseteq Shell!Package
  BY Queries DEF InstalledOK, Shell!Solutions
<1> DEFINE item(do, k, r, repo) == [do |-> do, pkg |-> k, reason |-> r, repo |-> repo]
<1>2. \/ \E k \in w \ v1 : i = item("install", k, Shell!NewReason(s, k, w), Shell!Source(s, k))
      \/ \E k \in v1 \ w : i = item("erase", k, v2[k[1]], "none")
      \/ \E k \in w \cap v1 : i = item("reinstall", k, v2[k[1]], Shell!Source(s, k))
  BY DEF Shell!Goal2Transaction
<1>3. \A k \in v1 : v2[k[1]] \in Shell!Reason
  BY <1>1 DEF InstalledOK, Shell!Package
<1>4. CASE \E k \in w \ v1 : i = item("install", k, Shell!NewReason(s, k, w), Shell!Source(s, k))
  <2>1. PICK k \in w \ v1 : i = item("install", k, Shell!NewReason(s, k, w), Shell!Source(s, k))
    BY <1>4
  <2>2. i \in Shell!Item
    BY <1>1, <2>1, NewReasonKeeps, SourceType DEF Shell!Item
  <2>3. i.pkg = k /\ i.reason = Shell!NewReason(s, k, w)
    BY <2>1
  <2>4. KeepsReason(i)
    BY <2>3, NewReasonKeeps DEF KeepsReason
  <2> QED BY <2>2, <2>4
<1>5. CASE \E k \in v1 \ w : i = item("erase", k, v2[k[1]], "none")
  BY <1>1, <1>3, <1>5 DEF Shell!Item, KeepsReason
<1>6. CASE \E k \in w \cap v1 : i = item("reinstall", k, v2[k[1]], Shell!Source(s, k))
  BY <1>1, <1>3, <1>6, SourceType DEF Shell!Item, KeepsReason
<1> QED BY <1>2, <1>4, <1>5, <1>6

\* Carried out, the transaction of a solution leaves that solution.
LEMMA AfterGoal ==
  ASSUME NEW s, NEW w
  PROVE  Shell!After(Shell!Goal2Transaction(s, w)) = w
<1> DEFINE item(do, k, r, repo) == [do |-> do, pkg |-> k, reason |-> r, repo |-> repo]
           in(k) == item("install", k, Shell!NewReason(s, k, w), Shell!Source(s, k))
           out(k) == item("erase", k, v2[k[1]], "none")
           again(k) == item("reinstall", k, v2[k[1]], Shell!Source(s, k))
           same == {l \in w \cap v1 : \E j \in s.jobs : j.do = "reinstall" /\ l \in j.from}
           items == Shell!Goal2Transaction(s, w)
<1>1. items = {in(k) : k \in w \ v1} \cup {out(k) : k \in v1 \ w} \cup {again(k) : k \in same}
  BY DEF Shell!Goal2Transaction
<1>2. \A k : /\ in(k).do = "install" /\ in(k).pkg = k /\ out(k).do = "erase" /\ out(k).pkg = k
            /\ again(k).do = "reinstall"
  OBVIOUS
<1> HIDE DEF in, out, again, items, same
<1>3. {i.pkg : i \in {j \in items : j.do = "erase"}} = v1 \ w
  BY <1>1, <1>2
<1>4. {i.pkg : i \in {j \in items : j.do = "install"}} = w \ v1
  BY <1>1, <1>2
<1> QED BY <1>3, <1>4 DEF Shell!After, items

\* Resolving adds the answer of the solver to the transaction, or nothing.
LEMMA ResolvedOK ==
  ASSUME InstalledOK, NEW s, SessionOK(s)
  PROVE  /\ SessionOK(Shell!Resolved(s))
         /\ ~s.ready /\ Shell!Resolved(s).ready =>
              \E w \in Shell!Solutions(s) : Shell!Resolved(s).items = Shell!Goal2Transaction(s, w)
<1> DEFINE ws == Shell!Solutions(s)
           w == Shell!Cheapest(s, ws)
           new == Shell!Goal2Transaction(s, w)
<1>1. s \in Shell!Session
  BY DEF SessionOK
<1>2. CASE ws = {}
  <2>1. Shell!Resolved(s) = [s EXCEPT !.ok = FALSE]
    BY <1>2 DEF Shell!Resolved
  <2> QED BY <1>1, <2>1 DEF SessionOK, Shell!Session
<1>3. CASE ws # {}
  <2>1. Shell!Resolved(s) = [s EXCEPT !.ready = TRUE, !.items = @ \cup new, !.ok = TRUE]
    BY <1>3 DEF Shell!Resolved
  <2>2. w \in ws
    BY <1>1, <1>3, CheapestIsASolution DEF InstalledOK
  <2>3. \A i \in new : i \in Shell!Item /\ KeepsReason(i)
    BY <1>1, <2>2, GoalItems
  <2> HIDE DEF new
  <2>4. Shell!Resolved(s) \in Shell!Session
    BY <1>1, <2>1, <2>3 DEF Shell!Session
  <2>5. Shell!Resolved(s).items = s.items \cup new /\ Shell!Resolved(s).ready
    BY <1>1, <2>1 DEF Shell!Session
  <2>6. SessionOK(Shell!Resolved(s))
    BY <2>3, <2>4, <2>5 DEF SessionOK
  <2>7. ~s.ready => Shell!Resolved(s).items = new
    BY <2>5 DEF SessionOK
  <2> HIDE DEF w, ws
  <2> QED BY <2>2, <2>6, <2>7 DEF new, ws
<1> QED BY <1>2, <1>3

\* What a transaction leaves installed, and what is recorded of it.
LEMMA TransactionOK ==
  ASSUME InstalledOK, NEW items \in SUBSET Shell!Item, Shell!Checked(items)
  PROVE  /\ Shell!After(items) \subseteq Shell!Package /\ Shell!Consistent(Shell!After(items))
         /\ Shell!Reasons(items) \in [Name -> Shell!Reason]
         /\ Shell!Origins(items) \in [Name -> Repo \cup {"none"}]
<1>1. Shell!After(items) \subseteq Shell!Package
  BY DEF InstalledOK, Shell!After, Shell!Item
<1>2. ASSUME NEW n \in Name
      PROVE  (IF n \notin Shell!Names(Shell!After(items)) THEN "unknown"
              ELSE LET new == {i.reason : i \in {j \in items : j.do = "install" /\ j.pkg[1] = n}}
                   IN IF new = {} THEN v2[n] ELSE Shell!Best(new)) \in Shell!Reason
  <2> DEFINE new == {i.reason : i \in {j \in items : j.do = "install" /\ j.pkg[1] = n}}
  <2>1. new \in SUBSET Shell!Reason
    BY DEF Shell!Item
  <2>2. "unknown" \in Shell!Reason /\ v2[n] \in Shell!Reason
    BY DEF InstalledOK, Shell!Reason
  <2> HIDE DEF new
  <2>3. new # {} => Shell!Best(new) \in Shell!Reason
    BY <2>1, BestReason
  <2> QED BY <2>2, <2>3 DEF new
<1>3. ASSUME NEW n \in Name
      PROVE  (LET new == {i.repo : i \in {j \in items : j.do # "erase" /\ j.pkg[1] = n}} IN
              IF n \notin Shell!Names(Shell!After(items)) THEN "none"
              ELSE IF new = {} THEN v3[n] ELSE CHOOSE r \in new : TRUE) \in Repo \cup {"none"}
  <2> DEFINE new == {i.repo : i \in {j \in items : j.do # "erase" /\ j.pkg[1] = n}}
  <2>1. new \subseteq Repo \cup {"none"} /\ v3[n] \in Repo \cup {"none"}
    BY DEF Shell!Item, InstalledOK
  <2> HIDE DEF new
  <2>2. new # {} => (CHOOSE r \in new : TRUE) \in Repo \cup {"none"}
    BY <2>1
  <2> QED BY <2>1, <2>2 DEF new
<1> QED BY <1>1, <1>2, <1>3 DEF Shell!Checked, Shell!Reasons, Shell!Origins

\* A session starts, and is cleaned, with nothing in it.
LEMMA Emptied ==
  /\ \A clean \in BOOLEAN : SessionOK(Shell!Start(clean))
  /\ \A s \in Shell!Session :
       Shell!Clean(s) \in Shell!Session /\ Shell!Clean(s).items = {} /\ ~Shell!Clean(s).ready
<1>1. \A clean \in BOOLEAN : SessionOK(Shell!Start(clean))
  BY DEF SessionOK, Shell!Start, Shell!Session
<1>2. ASSUME NEW s \in Shell!Session
      PROVE  /\ Shell!Clean(s) \in Shell!Session
             /\ Shell!Clean(s).items = {} /\ ~Shell!Clean(s).ready
  BY DEF Shell!Clean, Shell!Session
<1> QED BY <1>1, <1>2

\* A session begins with a consistent set of packages.
LEMMA ShellInit == Shell!Init => ShellInv
<1> SUFFICES ASSUME Shell!Init PROVE ShellInv
  OBVIOUS
<1>1. v1 \subseteq Shell!Package /\ Shell!Consistent(v1)
  BY ShellAssumption DEF Shell!Init
<1>2. v2 \in [Name -> Shell!Reason]
  BY DEF Shell!Init, Shell!Reason
<1>3. v3 \in [Name -> Repo \cup {"none"}] /\ v4 \subseteq {"module", "comps"}
  BY DEF Shell!Init
<1>4. SessionOK(v5)
  BY Emptied DEF Shell!Init
<1> QED BY <1>1, <1>2, <1>3, <1>4 DEF ShellInv, InstalledOK

\* What is carried out is recorded, and a new session begins: `run'.
LEMMA RunOK ==
  ASSUME ShellInv, Shell!Run
  PROVE  ShellInv'
<1> DEFINE s == Shell!Resolved(v5)
<1>1. SessionOK(s) /\ s \in Shell!Session /\ s.ok \in BOOLEAN /\ s.items \in SUBSET Shell!Item
      /\ s.changed \subseteq {"module", "comps"} /\ v5 \in Shell!Session
  BY ResolvedOK DEF ShellInv, SessionOK, Shell!Session
<1>2. \/ /\ Shell!Checked(s.items)
         /\ v1' = Shell!After(s.items) /\ v2' = Shell!Reasons(s.items) /\ v3' = Shell!Origins(s.items)
         /\ v4' = v4 \cup s.changed
         /\ v5' = [Shell!Clean(s) EXCEPT !.ok = s.ok]
      \/ /\ v4' = v4 \cup s.changed
         /\ v5' = [Shell!Clean(s) EXCEPT !.ok = s.ok]
         /\ UNCHANGED <<v1, v2, v3>>
      \/ /\ v5' = Shell!Clean(s)
         /\ UNCHANGED <<v1, v2, v3, v4>>
  BY DEF Shell!Run
<1> HIDE DEF s
<1>3. InstalledOK'
  BY <1>1, <1>2, TransactionOK DEF ShellInv, InstalledOK
<1>4. v5' \in Shell!Session /\ v5'.items = {}
  <2>1. Shell!Clean(s) \in Shell!Session /\ Shell!Clean(s).items = {}
    BY <1>1, Emptied
  <2> QED BY <1>1, <1>2, <2>1 DEF Shell!Session
<1> QED BY <1>3, <1>4 DEF ShellInv, SessionOK

\* A step of a session keeps its invariant.
LEMMA ShellStep ==
  ASSUME ShellInv, Shell!Next
  PROVE  ShellInv'
<1>1. ASSUME Shell!Command PROVE ShellInv'
  <2>1. OnlyAsks(v5, v5')
    BY <1>1, CommandsAsk DEF Shell!Command, ShellInv, InstalledOK, SessionOK
  <2> QED BY <1>1, <2>1 DEF Shell!Command, ShellInv, InstalledOK, SessionOK, OnlyAsks, KeepsReason
<1>2. ASSUME Shell!Resolve PROVE ShellInv'
  <2>1. SessionOK(Shell!Resolved(v5))
    BY ResolvedOK DEF ShellInv
  <2> QED BY <1>2, <2>1 DEF Shell!Resolve, ShellInv, InstalledOK, SessionOK, KeepsReason
<1>3. ASSUME Shell!Reset PROVE ShellInv'
  <2>1. PICK on \in SUBSET Repo : v5' = [Shell!Clean(v5) EXCEPT !.enabled = on]
    <3> DEFINE ons == {v5.enabled} \cup {v5.enabled \ {r} : r \in Repo}
                        \cup {v5.enabled \cup {r} : r \in Repo}
    <3>1. \A on \in ons : on \in SUBSET Repo
      BY DEF ShellInv, SessionOK, Shell!Session
    <3>2. v5' \in {[Shell!Clean(v5) EXCEPT !.enabled = on] : on \in ons}
      BY <1>3 DEF Shell!Reset
    <3> HIDE DEF ons
    <3> QED BY <3>1, <3>2
  <2>2. Shell!Clean(v5) \in Shell!Session /\ Shell!Clean(v5).items = {}
    BY Emptied DEF ShellInv, SessionOK
  <2>3. v5' \in Shell!Session /\ v5'.items = {}
    BY <2>1, <2>2 DEF Shell!Session
  <2> QED BY <1>3, <2>3 DEF Shell!Reset, ShellInv, InstalledOK, SessionOK
<1>4. ASSUME Shell!Run PROVE ShellInv'
  BY <1>4, RunOK
<1>5. ASSUME Shell!Mark PROVE ShellInv'
  <2>1. v5' \in Shell!Session /\ v5'.items = {}
    BY <1>5 DEF Shell!Mark, Shell!Start, ShellInv, SessionOK, Shell!Session
  <2>2. v2' \in [Name -> Shell!Reason]
    BY <1>5 DEF Shell!Mark, ShellInv, InstalledOK, Shell!Reason
  <2> QED BY <1>5, <2>1, <2>2 DEF Shell!Mark, ShellInv, InstalledOK, SessionOK
<1> QED BY <1>1, <1>2, <1>3, <1>4, <1>5 DEF Shell!Next

\* A transaction carried out keeps what the user asked for: what stays installed
\* keeps its reason, and what replaces another takes it over.
LEMMA RunKeepsUser ==
  ASSUME ShellInv, Shell!Run
  PROVE  Shell!KeepsUser
<1> DEFINE s == Shell!Resolved(v5)
           W == Shell!After(s.items)
<1> SUFFICES ASSUME NEW k \in v1, v2[k[1]] = "user"
             PROVE  \/ k[1] \in Shell!Names(v1') /\ v2'[k[1]] = "user"
                    \/ \E l \in v1' : k[1] \in Obsoletes[l] /\ v2'[l[1]] = "user"
                    \/ /\ k[1] \notin Shell!Names(v1')
                       /\ \A l \in v1' : k[1] \in Obsoletes[l] => l[1] \in Shell!Names(v1)
  BY DEF Shell!KeepsUser
<1>1. SessionOK(s) /\ s \in Shell!Session /\ s.items \in SUBSET Shell!Item
  BY ResolvedOK DEF ShellInv, SessionOK, Shell!Session
<1>2. \/ /\ Shell!Checked(s.items)
         /\ v1' = W /\ v2' = Shell!Reasons(s.items)
      \/ v1' = v1 /\ v2' = v2
  BY DEF Shell!Run
<1>3. CASE v1' = v1 /\ v2' = v2
  BY <1>3 DEF Shell!Names
<1>4. CASE Shell!Checked(s.items) /\ v1' = W /\ v2' = Shell!Reasons(s.items)
  <2>1. W \subseteq Shell!Package /\ k \in Shell!Package /\ k[1] \in Name
    BY <1>1, <1>4, TransactionOK DEF ShellInv, InstalledOK, Shell!Package
  <2> DEFINE new(n) == {i.reason : i \in {j \in s.items : j.do = "install" /\ j.pkg[1] = n}}
  <2>2. \A n \in Name : n \in Shell!Names(W) =>
          v2'[n] = IF new(n) = {} THEN v2[n] ELSE Shell!Best(new(n))
    BY <1>4 DEF Shell!Reasons
  <2>3. \A n : new(n) \in SUBSET Shell!Reason
    BY <1>1 DEF Shell!Item
  <2>4. ASSUME k[1] \in Shell!Names(W) PROVE v2'[k[1]] = "user"
    <3>1. \A r \in new(k[1]) : r = "user"
      BY <1>1 DEF SessionOK, KeepsReason, Shell!Names
    <3> HIDE DEF new
    <3> QED BY <2>1, <2>2, <2>3, <2>4, <3>1, BestReason
  <2>5. ASSUME NEW l \in W, k[1] \in Obsoletes[l], l[1] \notin Shell!Names(v1)
        PROVE  v2'[l[1]] = "user"
    <3>1. PICK i \in s.items : i.do = "install" /\ i.pkg = l
      BY <2>5 DEF Shell!After, Shell!Names
    <3>2. i.reason = "user"
      BY <1>1, <2>5, <3>1 DEF SessionOK, KeepsReason
    <3>3. "user" \in new(l[1]) /\ l[1] \in Name /\ l[1] \in Shell!Names(W)
      BY <2>1, <2>5, <3>1, <3>2 DEF Shell!Package, Shell!Names
    <3> HIDE DEF new
    <3> QED BY <2>2, <2>3, <3>3, BestReason
  <2> QED BY <1>4, <2>4, <2>5
<1> QED BY <1>2, <1>3, <1>4

\* No step of a session loses what the user asked for.
LEMMA SessionKeepsUser ==
  ASSUME ShellInv, Shell!Next
  PROVE  Shell!KeepsUser
<1>1. ASSUME v1' = v1 PROVE Shell!KeepsUser
  BY <1>1 DEF Shell!KeepsUser, Shell!Carried
<1> QED BY <1>1, RunKeepsUser DEF Shell!Next, Shell!Command, Shell!Resolve, Shell!Reset, Shell!Mark

\* A transaction that was not resolved before leaves a solution of the requests.
LEMMA LeavesASolution ==
  ASSUME ShellInv, Shell!Next
  PROVE  Shell!LeavesWhatWasAsked
<1> SUFFICES ASSUME v1' # v1, ~v5.ready PROVE v1' \in Shell!Solutions(v5)
  BY DEF Shell!LeavesWhatWasAsked, Shell!Carried
<1> DEFINE s == Shell!Resolved(v5)
<1>1. s.ready /\ v1' = Shell!After(s.items)
  BY DEF Shell!Next, Shell!Command, Shell!Resolve, Shell!Reset, Shell!Run, Shell!Mark
<1>2. \E w \in Shell!Solutions(v5) : s.items = Shell!Goal2Transaction(v5, w)
  BY <1>1, ResolvedOK DEF ShellInv
<1> HIDE DEF s
<1>3. PICK w \in Shell!Solutions(v5) : s.items = Shell!Goal2Transaction(v5, w)
  BY ONLY <1>2
<1>4. Shell!After(Shell!Goal2Transaction(v5, w)) = w
  BY ONLY AfterGoal
<1>5. Shell!After(s.items) = w
  BY ONLY <1>3, <1>4
<1> QED BY ONLY <1>1, <1>3, <1>5

\* Every variable has its type.
LEMMA ShellFacts == ShellInv => Shell!TypeOK
BY DEF ShellInv, InstalledOK, SessionOK, Shell!Session, Shell!TypeOK

------------------------------------------------------------------------------
(* States of modules.                                                      *)

\* A table of states: a stream is that of an enabled module, and its own.
Table ==
  {t \in [Mod -> [state : {"unknown", "enabled", "disabled"}, stream : {"none"} \cup Modules!Stream,
                  profiles : SUBSET Profile]] :
     \A m \in Mod : /\ t[m].stream = "none" => t[m].profiles = {}
                    /\ t[m].stream # "none" => t[m].state = "enabled"}

\* u has no profiles that t does not have, of the same streams.
NoMore(t, u) ==
  \A y \in Modules!All : Modules!Chosen(u, y) =>
    \/ u[y[1]].profiles = {}
    \/ Modules!Chosen(t, y) /\ u[y[1]].profiles \subseteq t[y[1]].profiles

\* What a stream is.
LEMMA StreamFacts ==
  /\ \A x \in Modules!All : /\ x[1] \in Mod /\ x[2] \in Streams[x[1]] /\ x = <<x[1], x[2]>>
                            /\ x[2] \in Modules!Stream /\ x[2] # "none"
  /\ \A m \in Mod : \A s \in Streams[m] : <<m, s>> \in Modules!All
<1>1. ASSUME NEW m \in Mod, NEW s \in Streams[m] PROVE s \in Modules!Stream /\ <<m, s>> \in Modules!All
  BY DEF Modules!Stream, Modules!All
<1>2. ASSUME NEW x \in Modules!All
      PROVE  x[1] \in Mod /\ x[2] \in Streams[x[1]] /\ x = <<x[1], x[2]>>
  BY DEF Modules!All
<1> QED BY <1>1, <1>2, ModulesAssumption

\* Having no more is transitive.
LEMMA NoMoreTwice ==
  ASSUME NEW t, NEW u, NEW w, NoMore(t, u), NoMore(u, w)
  PROVE  NoMore(t, w)
<1> SUFFICES ASSUME NEW y \in Modules!All, Modules!Chosen(w, y), w[y[1]].profiles # {}
             PROVE  Modules!Chosen(t, y) /\ w[y[1]].profiles \subseteq t[y[1]].profiles
  BY DEF NoMore
<1>1. Modules!Chosen(u, y) /\ w[y[1]].profiles \subseteq u[y[1]].profiles
  BY DEF NoMore
<1>2. Modules!Chosen(t, y) /\ u[y[1]].profiles \subseteq t[y[1]].profiles
  BY <1>1 DEF NoMore
<1> QED BY <1>1, <1>2

\* Enabling a stream adds no profile to any.
LEMMA EnableOK ==
  ASSUME NEW t \in Table, NEW x \in Modules!All
  PROVE  /\ Modules!Enable(t, x[1], x[2]) \in Table
         /\ NoMore(t, Modules!Enable(t, x[1], x[2]))
         /\ Modules!Chosen(Modules!Enable(t, x[1], x[2]), x)
<1> DEFINE u == Modules!Enable(t, x[1], x[2])
           ps == IF t[x[1]].stream = x[2] THEN t[x[1]].profiles ELSE {}
<1>1. x[1] \in Mod /\ x[2] \in Modules!Stream /\ x[2] # "none" /\ ps \in SUBSET Profile
  BY StreamFacts DEF Table
<1>2. u = [t EXCEPT ![x[1]] = [state |-> "enabled", stream |-> x[2], profiles |-> ps]]
  BY DEF Modules!Enable
<1> HIDE DEF ps, u
<1>3. u[x[1]] = [state |-> "enabled", stream |-> x[2], profiles |-> ps] /\ \A m \in Mod \ {x[1]} : u[m] = t[m]
  BY <1>1, <1>2 DEF Table
<1>4. u \in Table
  BY <1>1, <1>2, <1>3 DEF Table
<1>5. Modules!Chosen(u, x)
  BY <1>3 DEF Modules!Chosen
<1>6. ASSUME NEW y \in Modules!All, Modules!Chosen(u, y), u[y[1]].profiles # {}
      PROVE  Modules!Chosen(t, y) /\ u[y[1]].profiles \subseteq t[y[1]].profiles
  <2>1. CASE y[1] = x[1]
    <3>1. y[2] = x[2] /\ ps # {}
      BY <1>3, <1>6, <2>1 DEF Modules!Chosen
    <3>2. t[x[1]].stream = x[2] /\ ps = t[x[1]].profiles
      BY <3>1 DEF ps
    <3> QED BY <1>1, <1>3, <2>1, <3>1, <3>2 DEF Modules!Chosen, Table
  <2>2. CASE y[1] # x[1]
    <3>1. u[y[1]] = t[y[1]]
      BY <1>3, <2>2, StreamFacts
    <3> QED BY <1>6, <3>1 DEF Modules!Chosen
  <2> QED BY <2>1, <2>2
<1> QED BY <1>4, <1>5, <1>6 DEF NoMore, u

\* Nor does enabling several.
LEMMA EnableAllOK ==
  ASSUME NEW t \in Table, NEW xs \in SUBSET Modules!All
  PROVE  /\ Modules!EnableAll(t, xs) \in Table
         /\ NoMore(t, Modules!EnableAll(t, xs))
         /\ \A m \in Mod : (\A y \in xs : y[1] # m) => Modules!EnableAll(t, xs)[m] = t[m]
<1> DEFINE u == Modules!EnableAll(t, xs)
           of(m) == CHOOSE x \in xs : x[1] = m
<1>1. \A m \in Mod : u[m] = IF \E x \in xs : x[1] = m THEN Modules!Enable(t, m, of(m)[2])[m] ELSE t[m]
  BY DEF Modules!EnableAll
<1>2. DOMAIN u = Mod /\ u = [m \in Mod |-> u[m]]
  BY DEF Modules!EnableAll
<1>3. \A m \in Mod : (\E x \in xs : x[1] = m) => of(m) \in Modules!All /\ of(m)[1] = m
  OBVIOUS
<1> HIDE DEF u, of
<1>4. \A m \in Mod : u[m] = t[m] \/ \E x \in Modules!All : x[1] = m /\ u[m] = Modules!Enable(t, m, x[2])[m]
  BY <1>1, <1>3
<1>5. u \in Table
  <2>1. ASSUME NEW m \in Mod
        PROVE  /\ u[m] \in [state : {"unknown", "enabled", "disabled"}, stream : {"none"} \cup Modules!Stream,
                            profiles : SUBSET Profile]
               /\ u[m].stream = "none" => u[m].profiles = {}
               /\ u[m].stream # "none" => u[m].state = "enabled"
    <3>1. CASE u[m] = t[m]
      BY <3>1 DEF Table
    <3>2. CASE \E x \in Modules!All : x[1] = m /\ u[m] = Modules!Enable(t, m, x[2])[m]
      <4>1. PICK x \in Modules!All : x[1] = m /\ u[m] = Modules!Enable(t, m, x[2])[m]
        BY <3>2
      <4>2. Modules!Enable(t, m, x[2]) \in Table
        BY <4>1, EnableOK
      <4> QED BY <4>1, <4>2 DEF Table
    <3> QED BY <1>4, <3>1, <3>2
  <2> QED BY <1>2, <2>1 DEF Table
<1>6. NoMore(t, u)
  <2> SUFFICES ASSUME NEW y \in Modules!All, Modules!Chosen(u, y), u[y[1]].profiles # {}
               PROVE  Modules!Chosen(t, y) /\ u[y[1]].profiles \subseteq t[y[1]].profiles
    BY DEF NoMore
  <2>1. y[1] \in Mod
    BY StreamFacts
  <2>2. CASE u[y[1]] = t[y[1]]
    BY <2>2 DEF Modules!Chosen
  <2>3. CASE \E x \in Modules!All : x[1] = y[1] /\ u[y[1]] = Modules!Enable(t, y[1], x[2])[y[1]]
    <3>1. PICK x \in Modules!All : x[1] = y[1] /\ u[y[1]] = Modules!Enable(t, y[1], x[2])[y[1]]
      BY <2>3
    <3>2. NoMore(t, Modules!Enable(t, y[1], x[2]))
      BY <3>1, EnableOK
    <3>3. Modules!Chosen(Modules!Enable(t, y[1], x[2]), y)
      BY <3>1 DEF Modules!Chosen
    <3> QED BY <3>1, <3>2, <3>3 DEF NoMore
  <2> QED BY <1>4, <2>1, <2>2, <2>3
<1>7. \A m \in Mod : (\A y \in xs : y[1] # m) => u[m] = t[m]
  BY <1>1
<1> QED BY <1>5, <1>6, <1>7 DEF u

\* Enabling a stream with what it requires leaves it enabled.
LEMMA EnabledOK ==
  ASSUME NEW t \in Table, NEW x \in Modules!All
  PROVE  /\ Modules!Enabled(t, x) \in Table
         /\ NoMore(t, Modules!Enabled(t, x))
         /\ Modules!Chosen(Modules!Enabled(t, x), x)
<1> DEFINE u == Modules!Enable(t, x[1], x[2])
           xs == StreamRequires[x] \cap Modules!Active(u)
<1>1. u \in Table /\ NoMore(t, u) /\ Modules!Chosen(u, x)
  BY EnableOK
<1>2. Modules!Enabled(t, x) = Modules!EnableAll(u, xs)
  BY DEF Modules!Enabled
<1>3. xs \in SUBSET Modules!All /\ \A y \in xs : y[1] # x[1]
  BY ModulesAssumption
<1> HIDE DEF u, xs
<1>4. /\ Modules!EnableAll(u, xs) \in Table /\ NoMore(u, Modules!EnableAll(u, xs))
      /\ Modules!EnableAll(u, xs)[x[1]] = u[x[1]]
  BY <1>1, <1>3, EnableAllOK, StreamFacts
<1>5. Modules!Chosen(Modules!EnableAll(u, xs), x)
  BY <1>1, <1>4 DEF Modules!Chosen
<1> QED BY <1>1, <1>2, <1>4, <1>5, NoMoreTwice

\* Nothing is gained by uninstalling.
LEMMA LessUninstalled ==
  ASSUME NEW t \in Table, NEW x \in Modules!All, NEW ps
  PROVE  Modules!Uninstall(t, x, ps) \in Table /\ NoMore(t, Modules!Uninstall(t, x, ps))
<1>1. NoMore(t, t)
  BY DEF NoMore
<1>2. Modules!Uninstall(t, x, ps) \in Table /\ NoMore(t, Modules!Uninstall(t, x, ps))
  <2> DEFINE u == [t EXCEPT ![x[1]].profiles = @ \ ps]
  <2>1. x[1] \in Mod
    BY StreamFacts
  <2>2. u \in Table
    BY <2>1 DEF Table
  <2>3. /\ \A n \in Mod \ {x[1]} : u[n] = t[n]
        /\ u[x[1]].state = t[x[1]].state /\ u[x[1]].stream = t[x[1]].stream
        /\ u[x[1]].profiles = t[x[1]].profiles \ ps
    BY <2>1 DEF Table
  <2> HIDE DEF u
  <2>4. NoMore(t, u)
    BY <2>3, StreamFacts DEF NoMore, Modules!Chosen
  <2> QED BY <1>1, <2>2, <2>4 DEF Modules!Uninstall, u
<1> QED BY <1>2

\* Nor by disabling and resetting.
LEMMA LessDisabled ==
  ASSUME NEW t \in Table, NEW m \in Mod
  PROVE  /\ Modules!Disable(t, m) \in Table /\ NoMore(t, Modules!Disable(t, m))
         /\ Modules!Forget(t, m) \in Table /\ NoMore(t, Modules!Forget(t, m))
<1>3. ASSUME NEW r \in [state : {"unknown", "disabled"}, stream : {"none"}, profiles : {{}}],
             NEW u, u = [t EXCEPT ![m] = r]
      PROVE  u \in Table /\ NoMore(t, u)
  <2>1. u \in Table
    BY <1>3 DEF Table
  <2>2. \A n \in Mod \ {m} : u[n] = t[n]
    BY <1>3 DEF Table
  <2>3. u[m].stream = "none"
    BY <1>3 DEF Table
  <2>4. NoMore(t, u)
    BY <2>2, <2>3, StreamFacts DEF NoMore, Modules!Chosen
  <2> QED BY <2>1, <2>4
<1>4. Modules!Disable(t, m) \in Table /\ NoMore(t, Modules!Disable(t, m))
  <2>1. [Modules!Unset EXCEPT !.state = "disabled"] \in
          [state : {"unknown", "disabled"}, stream : {"none"}, profiles : {{}}]
    BY DEF Modules!Unset
  <2> QED BY <1>3, <2>1 DEF Modules!Disable
<1>5. Modules!Forget(t, m) \in Table /\ NoMore(t, Modules!Forget(t, m))
  <2>1. Modules!Unset \in [state : {"unknown", "disabled"}, stream : {"none"}, profiles : {{}}]
    BY DEF Modules!Unset
  <2> QED BY <1>3, <2>1 DEF Modules!Forget
<1> QED BY <1>4, <1>5

------------------------------------------------------------------------------
(* What modules ask to be removed.                                         *)

\* Requests of a goal.
Goal == [want : SUBSET Pkg, may : SUBSET Pkg, gone : SUBSET Pkg, all : BOOLEAN, unmet : SUBSET Pkg]

\* Why packages of an installed profile of y may be asked to go: they are asked
\* for, too, or the fail-safe stream was refused, or its dependencies are not met.
Excused(g, y) ==
  g.want \cup g.may \cup g.unmet \cup (IF y \in v5.failsafe THEN Artifacts[y] ELSE {})

\* Without --all, no request removes a package that an installed profile has,
\* but for an excuse.
GoneIsExcused(t, g) ==
  g.all \/ \A y \in Modules!All : Modules!Chosen(t, y) =>
             \A p \in t[y[1]].profiles : Contents[y][p] \cap g.gone \subseteq Excused(g, y)

\* What a command leaves.
ResultOK(r) == r.table \in Table /\ r.goal \in Goal /\ GoneIsExcused(r.table, r.goal)

\* With fewer profiles, fewer excuses are needed.
LEMMA FewerExcused ==
  ASSUME NEW t, NEW u, NEW g, NoMore(t, u), GoneIsExcused(t, g)
  PROVE  GoneIsExcused(u, g)
BY DEF NoMore, GoneIsExcused

\* A command that asks for nothing.
LEMMA DoneOK ==
  ASSUME NEW t, NEW u \in Table, NEW g \in Goal, NoMore(t, u), GoneIsExcused(t, g), NEW error
  PROVE  ResultOK(Modules!Done(u, g, error))
BY FewerExcused DEF ResultOK, Modules!Done

\* Profiles are marked together with the request for their packages, or of a
\* fail-safe stream.
LEMMA WithProfilesOK ==
  ASSUME NEW t \in Table, NEW g \in Goal, GoneIsExcused(t, g), NEW x \in Modules!All,
         NEW spec \in Arguments, NEW otherwise \in SUBSET Profile, NEW strict \in BOOLEAN
  PROVE  LET r == Modules!WithProfiles(t, g, x, spec, otherwise, strict)
             u == Modules!Enabled(t, x)
         IN /\ ResultOK(r)
            /\ x \notin Modules!Active(u) => r.table = u
            /\ r.goal.gone = g.gone /\ r.goal.all = g.all
            /\ \A y \in Modules!All : Modules!Chosen(r.table, y) =>
                 /\ Modules!Chosen(u, y)
                 /\ y = x \/ r.table[y[1]] = u[y[1]]
                 /\ x \notin Modules!Active(u) => r.table[y[1]] = u[y[1]]
<1> DEFINE u == Modules!Enabled(t, x)
           ps == Modules!ProfilesFor(x, spec, otherwise)
           names == UNION {Contents[x][p] : p \in ps}
           v == Modules!Install(u, x, ps)
           h == Modules!InstallProfiles(g, names, u, strict)
           r == Modules!WithProfiles(t, g, x, spec, otherwise, strict)
<1>1. u \in Table /\ NoMore(t, u) /\ Modules!Chosen(u, x) /\ x[1] \in Mod /\ x[2] # "none"
  BY EnabledOK, StreamFacts
<1>2. GoneIsExcused(u, g)
  BY <1>1, FewerExcused
<1>3. ps \in SUBSET Profile
  BY ModulesAssumption DEF Modules!ProfilesFor
<1>4. names \subseteq Artifacts[x]
  BY <1>3, ModulesAssumption
<1>5. CASE x \notin Modules!Active(u)
  <2>1. r = Modules!Done(u, g, strict)
    BY <1>5 DEF Modules!WithProfiles
  <2>2. ResultOK(r)
    BY <1>1, <1>2, <2>1 DEF ResultOK, Modules!Done
  <2> QED BY <2>1, <2>2 DEF Modules!Done
<1>6. CASE x \in Modules!Active(u)
  <2>1. names \subseteq Modules!Available(u) /\ names \subseteq Pkg
    BY <1>4, <1>6, ModulesAssumption DEF Modules!Available
  <2>2. v = [u EXCEPT ![x[1]].profiles = @ \cup ps]
    BY DEF Modules!Install
  <2> HIDE DEF ps
  <2> HIDE DEF u, v
  <2>3. /\ \A n \in Mod \ {x[1]} : v[n] = u[n]
        /\ v[x[1]].state = u[x[1]].state /\ v[x[1]].stream = u[x[1]].stream
        /\ v[x[1]].profiles = u[x[1]].profiles \cup ps
    BY <1>1, <2>2 DEF Table
  <2>4. v \in Table
    <3>1. v \in [Mod -> [state : {"unknown", "enabled", "disabled"}, stream : {"none"} \cup Modules!Stream,
                         profiles : SUBSET Profile]]
      BY <1>1, <1>3, <2>2 DEF Table
    <3>2. v[x[1]].stream # "none" /\ v[x[1]].state = "enabled"
      BY <1>1, <2>3 DEF Modules!Chosen
    <3> QED BY <1>1, <2>3, <3>1, <3>2 DEF Table
  <2>5. \A y \in Modules!All : Modules!Chosen(v, y) <=> Modules!Chosen(u, y)
    BY <2>3, StreamFacts DEF Modules!Chosen
  <2>6. \A y \in Modules!All : Modules!Chosen(v, y) => y = x \/ v[y[1]] = u[y[1]]
    BY <1>1, <2>3, <2>5, StreamFacts DEF Modules!Chosen
  <2>7. h \in Goal /\ h.gone = g.gone /\ h.all = g.all
        /\ g.want \subseteq h.want /\ g.may \subseteq h.may /\ names \subseteq h.want \cup h.may
        /\ g.unmet = h.unmet
    BY <2>1 DEF Modules!InstallProfiles, Goal
  <2>8. /\ \A y \in Modules!All : Excused(g, y) \subseteq Excused(h, y)
        /\ names \subseteq Excused(h, x)
        /\ x \in v5.failsafe => names \subseteq Excused(g, x)
    BY <1>4, <2>7 DEF Excused
  <2>9. \A p \in ps : Contents[x][p] \subseteq names
    OBVIOUS
  <2> HIDE DEF h, names
  <2>10. GoneIsExcused(v, h)
    BY <1>2, <2>3, <2>5, <2>6, <2>7, <2>8, <2>9 DEF GoneIsExcused
  <2>11. x \in v5.failsafe => GoneIsExcused(v, g)
    BY <1>2, <2>3, <2>5, <2>6, <2>8, <2>9 DEF GoneIsExcused
  <2>12. IF x \in v5.failsafe THEN r.table = v /\ r.goal = g ELSE r.table = v /\ r.goal = h
    BY <1>6 DEF Modules!WithProfiles, Modules!Done, u, v, h, names, ps
  <2> QED BY <1>6, <2>4, <2>5, <2>6, <2>7, <2>10, <2>11, <2>12 DEF ResultOK, u
<1> QED BY <1>5, <1>6

\* The stream that is meant is one.
LEMMA MeantIsAStream ==
  ASSUME NEW t, NEW spec \in Arguments, Modules!Meant(t, spec) # {}
  PROVE  <<spec.name, CHOOSE s \in Modules!Meant(t, spec) : TRUE>> \in Modules!All
<1>1. Modules!Meant(t, spec) \subseteq Streams[spec.name] /\ spec.name \in Mod
  BY ModulesAssumption DEF Modules!Meant, Modules!Matching
<1>2. (CHOOSE s \in Modules!Meant(t, spec) : TRUE) \in Modules!Meant(t, spec)
  OBVIOUS
<1> QED BY <1>1, <1>2, StreamFacts

\* module remove: what other profiles have stays.
LEMMA RemoveModuleOK ==
  ASSUME NEW t \in Table, NEW g \in Goal, GoneIsExcused(t, g), NEW spec \in Arguments
  PROVE  ResultOK(Modules!RemoveModule(t, g, spec))
<1> DEFINE x == <<spec.name, CHOOSE s \in Modules!Meant(t, spec) : TRUE>>
           ps == Modules!Leaving(t, spec)
           u == Modules!Uninstall(t, x, ps)
           gone == (UNION {Contents[x][p] : p \in ps}) \ Modules!InstalledPkgNames(u)
           h == [g EXCEPT !.gone = @ \cup Modules!Unneeded(gone)]
<1>1. CASE Modules!Meant(t, spec) = {}
  <2>1. NoMore(t, t)
    BY DEF NoMore
  <2> QED BY <1>1, <2>1, DoneOK DEF Modules!RemoveModule
<1>2. CASE Modules!Meant(t, spec) # {}
  <2>1. x \in Modules!All /\ spec.name \in Mod
    BY <1>2, MeantIsAStream, ModulesAssumption
  <2>2. Modules!RemoveModule(t, g, spec) = Modules!Done(u, h, FALSE)
    BY <1>2 DEF Modules!RemoveModule
  <2>3. u \in Table /\ GoneIsExcused(u, g)
    <3> HIDE DEF x, ps
    <3> QED BY <2>1, LessUninstalled, FewerExcused
  <2>4. ps \subseteq Profile
    BY <2>1 DEF Modules!Leaving, Table
  <2>5. Modules!Unneeded(gone) \in SUBSET Pkg
    BY <2>1, <2>4, ModulesAssumption DEF Modules!Unneeded
  <2>6. \A y \in Modules!All : Modules!Chosen(u, y) =>
          \A p \in u[y[1]].profiles : Contents[y][p] \subseteq Modules!InstalledPkgNames(u)
    <3> HIDE DEF u
    <3> QED BY DEF Modules!InstalledPkgNames, Modules!ProfilePkgNames
  <2>7. Modules!Unneeded(gone) \cap Modules!InstalledPkgNames(u) = {}
    <3> HIDE DEF u, ps, x
    <3> QED BY DEF Modules!Unneeded
  <2> HIDE DEF u, gone, x, ps
  <2>8. h \in Goal /\ h.gone = g.gone \cup Modules!Unneeded(gone) /\ h.all = g.all
        /\ \A y : Excused(h, y) = Excused(g, y)
    BY <2>5 DEF Goal, Excused
  <2> HIDE DEF h
  <2>9. GoneIsExcused(u, h)
    BY <2>3, <2>6, <2>7, <2>8 DEF GoneIsExcused
  <2> QED BY <2>2, <2>3, <2>8, <2>9 DEF ResultOK, Modules!Done
<1> QED BY <1>1, <1>2

\* module remove --all.
LEMMA RemoveAllOK ==
  ASSUME NEW t \in Table, NEW g \in Goal, GoneIsExcused(t, g), NEW spec \in Arguments
  PROVE  ResultOK(Modules!RemoveAll(t, g, spec))
<1> DEFINE r == Modules!RemoveModule(t, g, spec)
           of == {<<spec.name, s>> : s \in Modules!Matching(spec)}
           names == UNION {Artifacts[x] : x \in of \cap Modules!Active(t)}
           keep == UNION {Artifacts[x] : x \in Modules!Active(t) \ of}
           gone == {k \in names \ keep : v3[k] # "no"}
           q == [r EXCEPT !.goal.gone = @ \cup gone, !.goal.all = TRUE]
<1>1. ResultOK(r)
  BY RemoveModuleOK
<1>2. Modules!RemoveAll(t, g, spec) = IF r.error THEN r ELSE q
  BY DEF Modules!RemoveAll
<1>3. gone \subseteq Pkg
  <2>1. of \subseteq Modules!All
    BY StreamFacts, ModulesAssumption DEF Modules!Matching
  <2> HIDE DEF of
  <2>2. names \subseteq Pkg
    BY <2>1, ModulesAssumption
  <2> QED BY <2>2
<1>4. \E table, goal, error : r = [table |-> table, goal |-> goal, error |-> error]
  BY DEF Modules!RemoveModule, Modules!Done
<1> HIDE DEF r, gone
<1>5. q.table = r.table /\ q.goal = [r.goal EXCEPT !.gone = @ \cup gone, !.all = TRUE]
  BY <1>4
<1> HIDE DEF q
<1>6. q.goal \in Goal /\ q.goal.all
  BY <1>1, <1>3, <1>5 DEF ResultOK, Goal
<1>7. ResultOK(q)
  BY <1>1, <1>5, <1>6 DEF ResultOK, GoneIsExcused
<1> QED BY <1>1, <1>2, <1>7

\* module install.
LEMMA InstallModuleOK ==
  ASSUME NEW t \in Table, NEW g \in Goal, GoneIsExcused(t, g), NEW spec \in Arguments,
         NEW strict \in BOOLEAN
  PROVE  ResultOK(Modules!InstallModule(t, g, spec, strict))
<1> DEFINE x == <<spec.name, CHOOSE s \in Modules!Meant(t, spec) : TRUE>>
           r == Modules!WithProfiles(t, g, x, spec, DefaultProfiles[x], strict)
           error == r.error \/ (strict /\ spec.profile = "any" /\ DefaultProfiles[x] = {})
<1>1. CASE Modules!Meant(t, spec) = {}
  <2>1. NoMore(t, t)
    BY DEF NoMore
  <2> QED BY <1>1, <2>1, DoneOK DEF Modules!InstallModule
<1>2. CASE Modules!Meant(t, spec) # {}
  <2>1. x \in Modules!All
    BY <1>2, MeantIsAStream
  <2>2. Modules!InstallModule(t, g, spec, strict) = [r EXCEPT !.error = error]
    BY <1>2, Zenon DEF Modules!InstallModule
  <2> HIDE DEF x
  <2>3. ResultOK(r)
    BY <2>1, WithProfilesOK, ModulesAssumption
  <2>4. \E table, goal, e : r = [table |-> table, goal |-> goal, error |-> e]
    BY Zenon DEF Modules!WithProfiles, Modules!Done
  <2> HIDE DEF r, error
  <2>5. [r EXCEPT !.error = error].table = r.table /\ [r EXCEPT !.error = error].goal = r.goal
    BY <2>4
  <2> QED BY <2>2, <2>3, <2>5 DEF ResultOK
<1> QED BY <1>1, <1>2

\* Packages of chosen streams that are not active are unmet.
LEMMA UnmetPackages ==
  ASSUME NEW u \in Table
  PROVE  /\ Modules!ProfilePkgNames(u, Modules!SolverErrors(u)) \subseteq Pkg
         /\ \A y \in Modules!All : Modules!Chosen(u, y) =>
              \/ Artifacts[y] \subseteq Modules!Available(u)
              \/ \A p \in u[y[1]].profiles :
                   Contents[y][p] \subseteq Modules!ProfilePkgNames(u, Modules!SolverErrors(u))
<1> DEFINE xs == Modules!SolverErrors(u)
<1>1. xs = {y \in Modules!All : Modules!Chosen(u, y)} \ Modules!Active(u)
  BY DEF Modules!SolverErrors
<1>2. \A y \in Modules!Active(u) : Artifacts[y] \subseteq Modules!Available(u)
  BY DEF Modules!Available
<1>3. \A y \in xs : \A p \in u[y[1]].profiles : Contents[y][p] \subseteq Modules!ProfilePkgNames(u, xs)
  <2> HIDE DEF xs
  <2> QED BY DEF Modules!ProfilePkgNames
<1>4. Modules!ProfilePkgNames(u, xs) \subseteq Pkg
  <2>1. ASSUME NEW y \in xs, NEW p \in u[y[1]].profiles PROVE Contents[y][p] \subseteq Pkg
    <3>1. y \in Modules!All /\ p \in Profile
      BY <1>1, <2>1, StreamFacts DEF Table
    <3> QED BY <3>1, ModulesAssumption
  <2> HIDE DEF xs
  <2> QED BY <2>1 DEF Modules!ProfilePkgNames
<1> QED BY <1>1, <1>2, <1>3, <1>4

\* module switch-to: what goes is not available, so that only streams that are
\* not active have it.
LEMMA SwitchToOK ==
  ASSUME NEW t \in Table, NEW g \in Goal, GoneIsExcused(t, g), NEW spec \in Arguments,
         NEW strict \in BOOLEAN, v2 \in Table
  PROVE  ResultOK(Modules!SwitchTo(t, g, spec, strict))
<1> DEFINE x == <<spec.name, CHOOSE s \in Modules!Meant(t, spec) : TRUE>>
           u == Modules!Enabled(t, x)
           removed == v2[x[1]].profiles \ u[x[1]].profiles
           old == UNION {Artifacts[y] : y \in {z \in Modules!Active(t) : z[1] = x[1]}}
           r == Modules!WithProfiles(t, g, x, spec, removed, strict)
           left == {k \in old : v3[k] # "no"} \ Modules!Available(u)
           gone == Modules!Unneeded(left)
           unmet == Modules!ProfilePkgNames(u, Modules!SolverErrors(u))
           q == [r EXCEPT !.goal.gone = @ \cup gone, !.goal.unmet = @ \cup unmet]
<1>1. CASE Modules!Meant(t, spec) = {}
  <2>1. NoMore(t, t)
    BY DEF NoMore
  <2> QED BY <1>1, <2>1, DoneOK DEF Modules!SwitchTo
<1>2. CASE Modules!Meant(t, spec) # {}
  <2>1. x \in Modules!All /\ x[1] \in Mod
    BY <1>2, MeantIsAStream, StreamFacts
  <2>2. Modules!SwitchTo(t, g, spec, strict) = IF x \in v5.failsafe \cap Modules!Active(u) THEN r ELSE q
    BY <1>2 DEF Modules!SwitchTo
  <2> HIDE DEF x
  <2>3. u \in Table /\ Modules!Chosen(u, x)
    BY <2>1, EnabledOK
  <2>4. removed \in SUBSET Profile
    BY <2>1 DEF Table
  <2>5. /\ ResultOK(r)
        /\ \A y \in Modules!All : Modules!Chosen(r.table, y) =>
             /\ Modules!Chosen(u, y)
             /\ y = x \/ r.table[y[1]] = u[y[1]]
             /\ x \notin Modules!Active(u) => r.table[y[1]] = u[y[1]]
    <3> HIDE DEF removed
    <3> QED BY <2>1, <2>4, WithProfilesOK
  <2>6. \E table, goal, e : r = [table |-> table, goal |-> goal, error |-> e]
    BY Zenon DEF Modules!WithProfiles, Modules!Done
  <2>7. Modules!Active(t) \subseteq Modules!All
    BY ModulesAssumption DEF Modules!Active
  <2>8. gone \subseteq Pkg /\ gone \cap Modules!Available(u) = {}
    <3>1. gone \subseteq old /\ gone \cap Modules!Available(u) = {}
      BY DEF Modules!Unneeded
    <3> HIDE DEF gone
    <3> QED BY <3>1, <2>7, ModulesAssumption
  <2>9. unmet \subseteq Pkg
    BY <2>3, UnmetPackages
  <2>10. ASSUME NEW y \in Modules!All, Modules!Chosen(r.table, y), NEW p \in r.table[y[1]].profiles
        PROVE  Contents[y][p] \cap gone \subseteq unmet
    <3>1. Contents[y][p] \subseteq Artifacts[y]
      BY <2>5, <2>10, StreamFacts, ModulesAssumption DEF ResultOK, Table
    <3>2. CASE y \in Modules!Active(u)
      <4>1. Artifacts[y] \subseteq Modules!Available(u)
        BY <3>2 DEF Modules!Available
      <4> HIDE DEF gone
      <4> QED BY <2>8, <3>1, <4>1
    <3>3. CASE y \notin Modules!Active(u)
      <4>1. Modules!Chosen(u, y) /\ r.table[y[1]] = u[y[1]]
        BY <2>5, <2>10, <3>3
      <4>2. \/ Artifacts[y] \subseteq Modules!Available(u)
            \/ \A i \in u[y[1]].profiles : Contents[y][i] \subseteq unmet
        BY <2>3, <4>1, UnmetPackages
      <4> HIDE DEF gone, unmet
      <4> QED BY <2>8, <2>10, <3>1, <4>1, <4>2
    <3> QED BY <3>2, <3>3
  <2> HIDE DEF u, r, gone, unmet
  <2>11. q.table = r.table /\ q.goal = [r.goal EXCEPT !.gone = @ \cup gone, !.unmet = @ \cup unmet]
    BY <2>6
  <2> HIDE DEF q
  <2>12. /\ q.goal \in Goal /\ q.goal.all = r.goal.all /\ q.goal.gone = r.goal.gone \cup gone
         /\ \A y : Excused(q.goal, y) = Excused(r.goal, y) \cup unmet
    <3>1. r.goal \in Goal
      BY <2>5 DEF ResultOK
    <3> QED BY <2>8, <2>9, <2>11, <3>1 DEF Goal, Excused
  <2>13. GoneIsExcused(q.table, q.goal)
    BY <2>5, <2>10, <2>11, <2>12 DEF ResultOK, GoneIsExcused
  <2> QED BY <2>2, <2>5, <2>11, <2>12, <2>13 DEF ResultOK
<1> QED BY <1>1, <1>2

\* Every subcommand.
LEMMA ResultsOK ==
  ASSUME NEW t \in Table, NEW g \in Goal, GoneIsExcused(t, g), NEW spec \in Arguments,
         NEW strict \in BOOLEAN, NEW r \in Modules!Results(t, g, spec, strict)
  PROVE  ResultOK(r)
<1>1. spec.name \in Mod
  BY ModulesAssumption
<1>2. NoMore(t, t)
  BY DEF NoMore
<1>3. ResultOK(Modules!EnableModule(t, g, spec, strict))
  <2>1. CASE Modules!Meant(t, spec) = {}
    BY <2>1, <1>2, DoneOK DEF Modules!EnableModule
  <2>2. CASE Modules!Meant(t, spec) # {}
    <3> DEFINE x == <<spec.name, CHOOSE s \in Modules!Meant(t, spec) : TRUE>>
               u == Modules!Enabled(t, x)
    <3>1. x \in Modules!All
      BY <2>2, MeantIsAStream
    <3>2. Modules!EnableModule(t, g, spec, strict)
            = Modules!Done(u, g, strict /\ Modules!SolverErrors(u) # {})
      BY <2>2 DEF Modules!EnableModule
    <3> HIDE DEF x
    <3>3. u \in Table /\ NoMore(t, u)
      BY <3>1, EnabledOK
    <3> HIDE DEF u
    <3> QED BY <3>2, <3>3, DoneOK
  <2> QED BY <2>1, <2>2
<1>4. /\ ResultOK(Modules!DisableModule(t, g, spec, strict))
      /\ ResultOK(Modules!ResetModule(t, g, spec, strict))
  <2>1. Modules!Disable(t, spec.name) \in Table /\ NoMore(t, Modules!Disable(t, spec.name))
    BY <1>1, LessDisabled
  <2>2. Modules!Forget(t, spec.name) \in Table /\ NoMore(t, Modules!Forget(t, spec.name))
    BY <1>1, LessDisabled
  <2> QED BY <1>2, <2>1, <2>2, DoneOK DEF Modules!DisableModule, Modules!ResetModule
<1>5. ResultOK(Modules!UpgradeModule(t, g, spec))
  BY <1>2, DoneOK DEF Modules!UpgradeModule
<1> QED
  BY <1>3, <1>4, <1>5, InstallModuleOK, RemoveModuleOK, RemoveAllOK DEF Modules!Results

------------------------------------------------------------------------------
(* Transactions of modules.                                                *)

\* What dnf keeps true of modules between its commands.
ModuleSession ==
  [shell : BOOLEAN, strict : BOOLEAN, switch : BOOLEAN, failsafe : FailSafes, commands : Nat, runs : Nat]
ModulesInv ==
  /\ v1 \in Table /\ v2 \in Table /\ v3 \in [Pkg -> Modules!Reason] /\ v4 \in Goal
  /\ v5 \in ModuleSession /\ (v5.shell \/ v5.commands <= 1)
  /\ GoneIsExcused(v1, v4)

\* Without requests, nothing needs an excuse.
LEMMA NoGoalOK == Modules!NoGoal \in Goal /\ \A t : GoneIsExcused(t, Modules!NoGoal)
BY DEF Modules!NoGoal, Goal, GoneIsExcused

\* What Base.reset leaves of a session.
LEMMA CleanedOK ==
  ASSUME v5 \in ModuleSession, NEW runs \in Nat
  PROVE  /\ Modules!Cleaned(runs) \in ModuleSession
         /\ Modules!Cleaned(runs).failsafe = v5.failsafe /\ Modules!Cleaned(runs).commands = 0
<1> DEFINE switch == v5.switch /\ v5.shell
<1>1. switch \in BOOLEAN
  BY DEF ModuleSession
<1>2. Modules!Cleaned(runs) = [v5 EXCEPT !.commands = 0, !.runs = runs, !.switch = switch]
  BY Zenon DEF Modules!Cleaned
<1> HIDE DEF switch
<1> DEFINE c == [v5 EXCEPT !.commands = 0, !.runs = runs, !.switch = switch]
<1>3. c \in ModuleSession
  BY <1>1 DEF ModuleSession
<1>4. c.failsafe = v5.failsafe /\ c.commands = 0
  BY DEF ModuleSession
<1> QED BY <1>2, <1>3, <1>4

\* No states, no requests.
LEMMA ModulesInit == Modules!Init => ModulesInv
<1> SUFFICES ASSUME Modules!Init PROVE ModulesInv
  OBVIOUS
<1>1. v1 \in Table /\ v2 = v1
  BY DEF Modules!Init, Modules!Unset, Table
<1>2. v3 \in [Pkg -> Modules!Reason]
  BY DEF Modules!Init, Modules!Reason
<1>3. v5 \in ModuleSession /\ v5.commands <= 1
  <2>1. v5 \in [shell : BOOLEAN, strict : BOOLEAN, switch : {FALSE}, failsafe : FailSafes,
               commands : {0}, runs : {0}]
    BY DEF Modules!Init
  <2>2. {FALSE} \subseteq BOOLEAN /\ {0} \subseteq Nat
    OBVIOUS
  <2>3. v5.switch \in BOOLEAN
    BY <2>1, <2>2
  <2> QED BY <2>1, <2>2, <2>3 DEF ModuleSession
<1>4. v4 = Modules!NoGoal
  BY DEF Modules!Init
<1> QED BY <1>1, <1>2, <1>3, <1>4, NoGoalOK DEF ModulesInv

\* A command of a session.
LEMMA ModuleCommandOK ==
  ASSUME ModulesInv, Modules!Command
  PROVE  ModulesInv'
<1>1. PICK spec \in Arguments, switch \in BOOLEAN :
        \E r \in IF switch THEN {Modules!SwitchTo(v1, v4, spec, v5.strict)}
                 ELSE Modules!Results(v1, v4, spec, v5.strict) :
          /\ v1' = r.table /\ v4' = r.goal
          /\ v5' = [v5 EXCEPT !.commands = @ + 1, !.switch = @ \/ switch]
  BY DEF Modules!Command
<1>2. PICK r \in IF switch THEN {Modules!SwitchTo(v1, v4, spec, v5.strict)}
                 ELSE Modules!Results(v1, v4, spec, v5.strict) :
        /\ v1' = r.table /\ v4' = r.goal
        /\ v5' = [v5 EXCEPT !.commands = @ + 1, !.switch = @ \/ switch]
  BY <1>1
<1>3. v5.strict \in BOOLEAN
  BY DEF ModulesInv, ModuleSession
<1>4. ResultOK(r)
  <2>1. switch => r = Modules!SwitchTo(v1, v4, spec, v5.strict)
    OBVIOUS
  <2>2. ~switch => r \in Modules!Results(v1, v4, spec, v5.strict)
    OBVIOUS
  <2> QED BY <1>3, <2>1, <2>2, SwitchToOK, ResultsOK DEF ModulesInv
<1>5. v5' \in ModuleSession /\ v5'.failsafe = v5.failsafe /\ v5'.commands = v5.commands + 1
      /\ v5'.shell = v5.shell
  <2> DEFINE b == v5.switch \/ switch
  <2>1. b \in BOOLEAN
    OBVIOUS
  <2>2. v5' = [v5 EXCEPT !.commands = @ + 1, !.switch = b]
    BY <1>2, Zenon
  <2> HIDE DEF b
  <2>3. v5 \in ModuleSession /\ v5.commands + 1 \in Nat
    BY DEF ModulesInv, ModuleSession
  <2>4. v5' \in ModuleSession
    BY <2>1, <2>2, <2>3 DEF ModuleSession
  <2> QED BY <2>2, <2>3, <2>4 DEF ModuleSession
<1>6. v5'.shell \/ v5'.commands <= 1
  BY <1>5 DEF Modules!Command
<1>7. GoneIsExcused(v1, v4)'
  BY <1>2, <1>4, <1>5 DEF ResultOK, GoneIsExcused, Excused, Modules!Chosen
<1> QED BY <1>2, <1>4, <1>5, <1>6, <1>7 DEF Modules!Command, ModulesInv, ResultOK

\* The states that packages enable their streams in have no more profiles.
LEMMA EnabledByPackagesOK ==
  ASSUME ModulesInv
  PROVE  Modules!EnabledByPackages \in Table /\ NoMore(v1, Modules!EnabledByPackages)
<1> DEFINE xs == {x \in Modules!Active(v1) : ~Modules!Chosen(v1, x) /\ Artifacts[x] \cap Modules!New # {}}
<1>1. xs \in SUBSET Modules!All
  BY ModulesAssumption DEF Modules!Active
<1>2. Modules!EnabledByPackages = Modules!EnableAll(v1, xs)
  BY DEF Modules!EnabledByPackages
<1> HIDE DEF xs
<1> QED BY <1>1, <1>2, EnableAllOK DEF ModulesInv

\* A step of a session.
LEMMA ModulesStep ==
  ASSUME ModulesInv, Modules!Next
  PROVE  ModulesInv'
<1>1. ASSUME v1' = v2', v2' \in Table, v4' = Modules!NoGoal, v3' \in [Pkg -> Modules!Reason],
             v5' \in ModuleSession, v5'.commands = 0
      PROVE  ModulesInv'
  <2>1. GoneIsExcused(v1, v4)'
    BY <1>1 DEF GoneIsExcused, Modules!NoGoal
  <2>2. v4' \in Goal
    BY <1>1, NoGoalOK
  <2> QED BY <1>1, <2>1, <2>2 DEF ModulesInv
<1>2. v5.runs + 1 \in Nat /\ v5.runs \in Nat /\ v5 \in ModuleSession
  BY DEF ModulesInv, ModuleSession
<1>3. ASSUME Modules!Run PROVE ModulesInv'
  <2>1. v3' \in [Pkg -> Modules!Reason]
    BY <1>3 DEF Modules!Run, ModulesInv, Modules!Reason
  <2> QED BY <1>1, <1>2, <1>3, <2>1, EnabledByPackagesOK, CleanedOK DEF Modules!Run
<1>4. ASSUME Modules!RunUnresolved PROVE ModulesInv'
  BY <1>1, <1>2, <1>4, CleanedOK DEF Modules!RunUnresolved, ModulesInv
<1>5. ASSUME Modules!Quit PROVE ModulesInv'
  <2>1. v5' \in ModuleSession /\ v5'.commands = 0
    <3>1. Modules!Cleaned(v5.runs) \in ModuleSession /\ Modules!Cleaned(v5.runs).commands = 0
      BY <1>2, CleanedOK
    <3> QED BY <1>5, <3>1 DEF Modules!Quit, ModuleSession
  <2> QED BY <1>1, <1>5, <2>1 DEF Modules!Quit, ModulesInv
<1> QED BY <1>3, <1>4, <1>5, ModuleCommandOK DEF Modules!Next

\* The type invariant of modules.
LEMMA ModulesFacts == ModulesInv => Modules!TypeOK
<1> SUFFICES ASSUME ModulesInv PROVE Modules!TypeOK
  OBVIOUS
<1>1. {v4.want, v4.may, v4.gone, v4.unmet} \subseteq SUBSET Pkg
  BY DEF ModulesInv, Goal
<1> QED BY <1>1 DEF ModulesInv, Table, Modules!TypeOK

\* No transaction takes what a profile that stays needs.
LEMMA LossAsked ==
  ASSUME ModulesInv, Modules!Next
  PROVE  Modules!LossIsAskedFor
<1>1. ASSUME v3' = v3 PROVE Modules!LossIsAskedFor
  BY <1>1 DEF Modules!LossIsAskedFor, Modules!Lost, Modules!KeptNames
<1>2. ASSUME Modules!Run, ~v4.all PROVE Modules!LossIsAskedFor
  <2> SUFFICES ASSUME NEW k \in Modules!Lost
               PROVE  k \in v4.may \cup v4.unmet \/ \E y \in Modules!All :
                        y \in v5.failsafe /\ Modules!Chosen(v2', y) /\ k \in Artifacts[y]
    BY DEF Modules!LossIsAskedFor
  <2>1. k \in Pkg /\ v3[k] = "group" /\ v3'[k] = "no" /\ k \in Modules!InstalledPkgNames(v2')
    BY DEF Modules!Lost, Modules!KeptNames
  <2>2. k \in v4.gone
    BY <1>2, <2>1 DEF Modules!Run
  <2>3. PICK y \in Modules!All : Modules!Chosen(v2', y) /\ \E p \in v2'[y[1]].profiles : k \in Contents[y][p]
    BY <2>1 DEF Modules!InstalledPkgNames, Modules!ProfilePkgNames
  <2>4. GoneIsExcused(v2', v4)
    BY <1>2, EnabledByPackagesOK, FewerExcused DEF Modules!Run, ModulesInv
  <2>5. k \in Excused(v4, y)
    BY <1>2, <2>2, <2>3, <2>4 DEF GoneIsExcused
  <2>6. k \notin v4.want
    BY <1>2, <2>2 DEF Modules!Run
  <2> QED BY <2>3, <2>5, <2>6 DEF Excused
<1> QED
  BY <1>1, <1>2
  DEF Modules!Next, Modules!Command, Modules!RunUnresolved, Modules!Quit, Modules!LossIsAskedFor

------------------------------------------------------------------------------
(* Groups and environments of packages.                                    *)

\* Persistors of groups and environments, and what a session of groups is.
GroupRecord == Comps!Record(Member)
EnvRecord == Comps!Record(Group)
Records(Id, R) == [installed : [Id -> R], removed : [Id -> R], upgraded : [Id -> R]]
Bunch == [install : SUBSET Member, opt : SUBSET Member, own : SUBSET Member, upgrade : SUBSET Member,
          remove : SUBSET Member]
CompsSession ==
  [group : Records(Group, GroupRecord), env : Records(Env, EnvRecord), bunch : Bunch,
   reasons : SUBSET Member, error : {"none", "NothingToDo", "NothingMarked", "CompsError"}]

\* The records of groups in the session: those of removed groups are the
\* database's; those of installed and upgraded groups have what the comps say, and
\* have those packages marked that some group has.
RecordsOK(s) ==
  /\ \A g \in Group : s.group.removed[g] \in {Comps!Nothing(Member), v4.group[g]}
  /\ \A g \in Comps!Known(s.group.installed) :
       /\ s.group.installed[g].of = v1.group[g]
       /\ \A k \in Member : v1.group[g][k] # "no" /\ Comps!PackageGroups(k) # {}
                              => k \in s.group.installed[g].present
  /\ \A g \in Comps!Known(s.group.upgraded) : s.group.upgraded[g].of = v1.group[g]

\* What is requested has its record, and what is to be removed is in a record of
\* the database.
BunchOK(s) ==
  /\ \A k \in s.bunch.install \cup s.bunch.opt :
       k \in s.bunch.own \/ \E g \in Comps!Known(s.group.installed) : v1.group[g][k] # "no"
  /\ \A k \in s.bunch.own : \E g \in Comps!Known(s.group.upgraded) : v1.group[g][k] # "no"
  /\ \A k \in s.bunch.remove : \E g \in Comps!Known(v4.group) : v4.group[g].of[k] # "no"
  /\ s.bunch.remove \cap s.bunch.own \cap Alike = {}

GroupsOK(s) == s \in CompsSession /\ RecordsOK(s) /\ BunchOK(s)

\* Comps and database are what they should be.
DataOK ==
  /\ v1 \in CompsData /\ v2 \subseteq Member /\ v3 \in [Member -> Comps!Reason]
  /\ v4 \in [group : [Group -> GroupRecord], env : [Env -> EnvRecord]]

\* What groups keep true between requests.
CompsInv ==
  /\ DataOK /\ GroupsOK(v5)
  /\ v7 \in [requests : Nat, runs : Nat]
  /\ v7.requests = 0 => v5 = Comps!Fresh /\ ~v6.on
  /\ ~v6.on => v6 = Comps!NoGoal
  /\ v6 \in [on : BOOLEAN, install : SUBSET Member, upgrade : SUBSET Member, erase : SUBSET Member,
             members : SUBSET Member]
  /\ v6.erase \subseteq v5.bunch.remove /\ v6.install \subseteq v5.bunch.install \cup v5.bunch.opt
  /\ \A k \in v6.erase : Comps!RemovablePkg(v5, k)

\* What comps say of a group is of the type of a record.
LEMMA CompsType ==
  ASSUME DataOK
  PROVE  /\ v1.group \in [Group -> [Member -> Comps!PkgType \cup {"no"}]]
         /\ v1.env \in [Env -> [Group -> Comps!PkgType \cup {"no"}]]
BY CompsAssumption DEF DataOK

\* A record of nothing.
LEMMA NothingOK ==
  /\ Comps!Nothing(Member) \in GroupRecord /\ Comps!Nothing(Group) \in EnvRecord
  /\ Comps!Nothing(Member).types = {}
BY DEF GroupRecord, EnvRecord, Comps!Record, Comps!Nothing

\* A session begins with nothing.
LEMMA FreshOK ==
  /\ Comps!Fresh \in CompsSession /\ Comps!Fresh.bunch = Comps!NoBunch
  /\ \A g \in Group : Comps!Fresh.group.removed[g] = Comps!Nothing(Member)
  /\ Comps!Known(Comps!Fresh.group.installed) = {} /\ Comps!Known(Comps!Fresh.group.upgraded) = {}
<1>1. /\ Comps!Persistor(Group, Member) \in Records(Group, GroupRecord)
      /\ Comps!Persistor(Env, Group) \in Records(Env, EnvRecord)
  BY NothingOK DEF Comps!Persistor, Comps!NoRecords, Records
<1>2. Comps!NoBunch \in Bunch
  BY DEF Comps!NoBunch, Bunch
<1>3. Comps!Fresh \in CompsSession
  BY <1>1, <1>2 DEF Comps!Fresh, CompsSession
<1>4. /\ Comps!Fresh.group.removed = [g \in Group |-> Comps!Nothing(Member)]
      /\ Comps!Fresh.group.installed = [g \in Group |-> Comps!Nothing(Member)]
      /\ Comps!Fresh.group.upgraded = [g \in Group |-> Comps!Nothing(Member)]
      /\ Comps!Fresh.bunch = Comps!NoBunch
  BY DEF Comps!Fresh, Comps!Persistor, Comps!NoRecords
<1>5. Comps!Known(Comps!Fresh.group.installed) = {} /\ Comps!Known(Comps!Fresh.group.upgraded) = {}
  BY <1>4, NothingOK DEF Comps!Known
<1> QED BY <1>3, <1>4, <1>5

\* The record of a new group has what the comps say of it.
LEMMA NewGroupOK ==
  ASSUME DataOK, NEW g \in Group, NEW types \in SUBSET Comps!PkgType
  PROVE  /\ Comps!NewGroup(g, types) \in GroupRecord
         /\ Comps!NewGroup(g, types).types = types /\ Comps!NewGroup(g, types).of = v1.group[g]
         /\ \A k \in Member : v1.group[g][k] # "no" /\ Comps!PackageGroups(k) # {}
                                => k \in Comps!NewGroup(g, types).present
         /\ Comps!PkgsOfType(g, types) \subseteq {k \in Member : v1.group[g][k] # "no"}
BY CompsType DEF Comps!NewGroup, GroupRecord, Comps!Record, Comps!PkgsOfType, Comps!PkgType

\* The records a step of the solver writes, and what it requests, one after the
\* other: Add keeps what is requested apart from what is removed.
LEMMA AddOK ==
  ASSUME NEW s, NEW c \in Bunch, s \in CompsSession, RecordsOK(s), BunchOK(s),
         \A k \in c.install \cup c.opt :
           k \in c.own \/ \E g \in Comps!Known(s.group.installed) : v1.group[g][k] # "no",
         \A k \in c.own : \E g \in Comps!Known(s.group.upgraded) : v1.group[g][k] # "no",
         \A k \in c.remove : \E g \in Comps!Known(v4.group) : v4.group[g].of[k] # "no"
  PROVE  GroupsOK(Comps!Request(s, c))
<1> DEFINE b == Comps!Add(s.bunch, c)
           t == Comps!Request(s, c)
<1>1. s.bunch \in Bunch
  BY DEF CompsSession
<1>2. /\ b \in Bunch
      /\ b.install = s.bunch.install \cup c.install /\ b.opt = s.bunch.opt \cup c.opt
      /\ b.own = s.bunch.own \cup c.own
      /\ b.remove = (s.bunch.remove \cup c.remove) \ (b.own \cap Alike)
  BY <1>1 DEF Bunch, Comps!Add
<1>3. t = [s EXCEPT !.bunch = b]
  BY DEF Comps!Request
<1> HIDE DEF b, t
<1>4. t \in CompsSession /\ t.group = s.group /\ t.bunch = b
  BY <1>2, <1>3 DEF CompsSession
<1>5. RecordsOK(t)
  BY <1>4 DEF RecordsOK
<1>6. BunchOK(t)
  BY <1>2, <1>4 DEF BunchOK
<1> QED BY <1>4, <1>5, <1>6 DEF GroupsOK, t

\* _group_install.
LEMMA GroupInstallOK ==
  ASSUME DataOK, NEW s, GroupsOK(s), NEW gs \in SUBSET Group,
         NEW types \in SUBSET Comps!PkgType, types # {}, NEW strict \in BOOLEAN
  PROVE  GroupsOK(Comps!GroupInstall(s, gs, types, strict))
<1> DEFINE records == [g \in Group |-> IF g \in gs THEN Comps!NewGroup(g, types) ELSE s.group.installed[g]]
           names == UNION {Comps!PkgsOfType(g, types) : g \in gs}
           t == [s EXCEPT !.group.installed = records]
           c == IF strict THEN [Comps!NoBunch EXCEPT !.install = names] ELSE [Comps!NoBunch EXCEPT !.opt = names]
<1>1. Comps!GroupInstall(s, gs, types, strict) = Comps!Request(t, c)
  BY Zenon DEF Comps!GroupInstall, Comps!Marked
<1>2. s \in CompsSession /\ RecordsOK(s) /\ BunchOK(s)
  BY DEF GroupsOK
<1>3. records \in [Group -> GroupRecord]
  <2>1. \A g \in Group : s.group.installed[g] \in GroupRecord
    BY <1>2 DEF CompsSession, Records
  <2> QED BY <2>1, NewGroupOK
<1>4. \A g \in Comps!Known(records) :
        /\ g \in Group /\ records[g].of = v1.group[g]
        /\ \A k \in Member : v1.group[g][k] # "no" /\ Comps!PackageGroups(k) # {} => k \in records[g].present
  BY <1>2, NewGroupOK DEF RecordsOK, Comps!Known, CompsSession, Records
<1>5. \A g \in Group : g \in gs \/ g \in Comps!Known(s.group.installed) => g \in Comps!Known(records)
  BY NewGroupOK DEF Comps!Known
<1>6. /\ names \subseteq Member
      /\ \A k \in names : \E g \in gs : v1.group[g][k] # "no"
  BY NewGroupOK
<1>7. c \in Bunch /\ c.install \cup c.opt = names /\ c.own = {} /\ c.remove = {}
  <2> HIDE DEF names
  <2> QED BY <1>6 DEF Bunch, Comps!NoBunch
<1> HIDE DEF records, names, c
<1>8. /\ t \in CompsSession /\ t.group.installed = records /\ t.bunch = s.bunch
      /\ t.group.removed = s.group.removed /\ t.group.upgraded = s.group.upgraded
  BY <1>2, <1>3 DEF CompsSession, Records
<1> HIDE DEF t
<1>9. RecordsOK(t)
  BY <1>2, <1>4, <1>8 DEF RecordsOK
<1>10. Comps!Known(s.group.installed) \subseteq Comps!Known(t.group.installed)
       /\ gs \subseteq Comps!Known(t.group.installed)
  <2>1. Comps!Known(s.group.installed) \subseteq Group
    BY <1>2 DEF Comps!Known, CompsSession, Records
  <2> QED BY <2>1, <1>5, <1>8
<1>11. BunchOK(t)
  BY <1>2, <1>8, <1>10 DEF BunchOK
<1>12. \A k \in c.install \cup c.opt : \E g \in Comps!Known(t.group.installed) : v1.group[g][k] # "no"
  BY <1>6, <1>7, <1>10
<1> QED BY <1>1, <1>7, <1>8, <1>9, <1>11, <1>12, AddOK

\* _group_remove.
LEMMA GroupRemoveOK ==
  ASSUME DataOK, NEW s, GroupsOK(s), NEW gs \in SUBSET Comps!Known(v4.group)
  PROVE  GroupsOK(Comps!GroupRemove(s, gs))
<1> DEFINE records == [g \in Group |-> IF g \in gs THEN v4.group[g] ELSE s.group.removed[g]]
           names == UNION {Comps!Members(v4.group[g]) : g \in gs}
           t == [s EXCEPT !.group.removed = records]
           gone == {k \in names : Comps!RemovablePkg(t, k)}
           c == [Comps!NoBunch EXCEPT !.remove = gone]
<1>1. Comps!GroupRemove(s, gs) = Comps!Request(t, c)
  BY Zenon DEF Comps!GroupRemove, Comps!Marked
<1>2. s \in CompsSession /\ RecordsOK(s) /\ BunchOK(s)
  BY DEF GroupsOK
<1>3. /\ gs \subseteq Group /\ \A g \in Group : v4.group[g] \in GroupRecord
      /\ records \in [Group -> GroupRecord]
  <2>1. \A g \in Group : s.group.removed[g] \in GroupRecord
    BY <1>2 DEF CompsSession, Records
  <2> QED BY <2>1 DEF DataOK, Comps!Known
<1>4. \A g \in Group : records[g] \in {Comps!Nothing(Member), v4.group[g]}
  BY <1>2 DEF RecordsOK
<1>5. \A g \in Group : DOMAIN v4.group[g].of = Member
  BY <1>3 DEF GroupRecord, Comps!Record
<1>6. gone \subseteq Member /\ \A k \in gone : \E g \in gs : v4.group[g].of[k] # "no"
  <2>1. gone \subseteq names
    OBVIOUS
  <2> HIDE DEF gone
  <2> QED BY <1>3, <1>5, <2>1 DEF Comps!Members
<1> HIDE DEF records, gone
<1>7. c \in Bunch /\ c.install \cup c.opt = {} /\ c.own = {} /\ c.remove = gone
  BY <1>6 DEF Bunch, Comps!NoBunch
<1>8. /\ t \in CompsSession /\ t.group.removed = records /\ t.bunch = s.bunch
      /\ t.group.installed = s.group.installed /\ t.group.upgraded = s.group.upgraded
  BY <1>2, <1>3 DEF CompsSession, Records
<1> HIDE DEF t, c
<1>9. RecordsOK(t)
  BY <1>2, <1>4, <1>8 DEF RecordsOK
<1>10. BunchOK(t)
  BY <1>2, <1>8 DEF BunchOK
<1> QED BY <1>1, <1>6, <1>7, <1>8, <1>9, <1>10, AddOK

\* _group_upgrade.
LEMMA GroupUpgradeOK ==
  ASSUME DataOK, NEW s, GroupsOK(s), NEW gs \in SUBSET Comps!Known(v4.group)
  PROVE  GroupsOK(Comps!GroupUpgrade(s, gs))
<1> DEFINE new(g) == Comps!PkgsOfType(g, v4.group[g].types)
           old(g) == Comps!Members(v4.group[g])
           records == [g \in Group |-> IF g \in gs THEN Comps!NewGroup(g, v4.group[g].types)
                                       ELSE s.group.upgraded[g]]
           t == [s EXCEPT !.group.upgraded = records]
           install == UNION {new(g) \ old(g) : g \in gs}
           upgrade == UNION {new(g) \cap old(g) : g \in gs}
           own == UNION {new(g) : g \in gs}
           gone == UNION {old(g) \ new(g) : g \in gs}
           c == [Comps!NoBunch EXCEPT !.install = install, !.upgrade = upgrade, !.own = own, !.remove = gone]
<1>1. Comps!GroupUpgrade(s, gs) = Comps!Request(t, c)
  BY Zenon DEF Comps!GroupUpgrade, Comps!Marked
<1>2. s \in CompsSession /\ RecordsOK(s) /\ BunchOK(s)
  BY DEF GroupsOK
<1>3. /\ gs \subseteq Group
      /\ \A g \in gs : v4.group[g].types \in SUBSET Comps!PkgType /\ v4.group[g].types # {}
      /\ \A g \in Group : DOMAIN v4.group[g].of = Member
  BY DEF DataOK, Comps!Known, GroupRecord, Comps!Record
<1>4. records \in [Group -> GroupRecord]
  <2>1. \A g \in Group : s.group.upgraded[g] \in GroupRecord
    BY <1>2 DEF CompsSession, Records
  <2> QED BY <1>3, <2>1, NewGroupOK
<1>5. \A g \in Comps!Known(records) : g \in Group /\ records[g].of = v1.group[g]
  BY <1>2, <1>3, NewGroupOK DEF RecordsOK, Comps!Known, CompsSession, Records
<1>6. gs \subseteq Comps!Known(records) /\ Comps!Known(s.group.upgraded) \subseteq Comps!Known(records)
  <2>1. Comps!Known(s.group.upgraded) \subseteq Group
    BY <1>2 DEF Comps!Known, CompsSession, Records
  <2> QED BY <1>3, <2>1, NewGroupOK DEF Comps!Known
<1>7. \A g \in gs : /\ new(g) \subseteq {k \in Member : v1.group[g][k] # "no"}
                    /\ old(g) = {k \in Member : v4.group[g].of[k] # "no"}
  <2>1. \A g \in gs : new(g) \subseteq {k \in Member : v1.group[g][k] # "no"}
    BY <1>3, NewGroupOK
  <2>2. \A g \in gs : old(g) = {k \in Member : v4.group[g].of[k] # "no"}
    BY <1>3 DEF Comps!Members
  <2> QED BY <2>1, <2>2
<1> HIDE DEF new, old, records
<1>8. /\ install \subseteq own /\ own \subseteq Member /\ upgrade \subseteq Member /\ gone \subseteq Member
      /\ \A k \in own : \E g \in gs : v1.group[g][k] # "no"
      /\ \A k \in gone : \E g \in gs : v4.group[g].of[k] # "no"
  BY <1>7
<1> HIDE DEF install, upgrade, own, gone
<1>9. c \in Bunch /\ c.install = install /\ c.opt = {} /\ c.own = own /\ c.remove = gone
  BY <1>8 DEF Bunch, Comps!NoBunch
<1>10. /\ t \in CompsSession /\ t.group.upgraded = records /\ t.bunch = s.bunch
       /\ t.group.installed = s.group.installed /\ t.group.removed = s.group.removed
  BY <1>2, <1>4 DEF CompsSession, Records
<1> HIDE DEF t, c
<1>11. RecordsOK(t)
  BY <1>2, <1>5, <1>10 DEF RecordsOK
<1>12. BunchOK(t)
  BY <1>2, <1>6, <1>10 DEF BunchOK
<1> QED BY <1>1, <1>6, <1>8, <1>9, <1>10, <1>11, <1>12, AddOK

\* Records of environments say nothing of packages.
LEMMA EnvMarked ==
  ASSUME NEW s, GroupsOK(s), NEW e \in Env, NEW r \in EnvRecord
  PROVE  /\ GroupsOK([s EXCEPT !.env.installed[e] = r])
         /\ GroupsOK([s EXCEPT !.env.removed[e] = r])
         /\ GroupsOK([s EXCEPT !.env.upgraded[e] = r])
<1>1. ASSUME NEW t, t \in CompsSession, t.group = s.group, t.bunch = s.bunch PROVE GroupsOK(t)
  BY <1>1 DEF GroupsOK, RecordsOK, BunchOK
<1>2. s \in CompsSession
  BY DEF GroupsOK
<1>3. [s EXCEPT !.env.installed[e] = r] \in CompsSession
  BY <1>2 DEF CompsSession, Records
<1>4. [s EXCEPT !.env.removed[e] = r] \in CompsSession
  BY <1>2 DEF CompsSession, Records
<1>5. [s EXCEPT !.env.upgraded[e] = r] \in CompsSession
  BY <1>2 DEF CompsSession, Records
<1>6. /\ [s EXCEPT !.env.installed[e] = r].group = s.group /\ [s EXCEPT !.env.installed[e] = r].bunch = s.bunch
      /\ [s EXCEPT !.env.removed[e] = r].group = s.group /\ [s EXCEPT !.env.removed[e] = r].bunch = s.bunch
      /\ [s EXCEPT !.env.upgraded[e] = r].group = s.group /\ [s EXCEPT !.env.upgraded[e] = r].bunch = s.bunch
  BY <1>2 DEF CompsSession
<1> QED BY <1>1, <1>3, <1>4, <1>5, <1>6

\* The record of a new environment.
LEMMA NewEnvOK ==
  ASSUME DataOK, NEW e \in Env, NEW types \in SUBSET Comps!PkgType, NEW exclude
  PROVE  /\ Comps!NewEnv(e, types, exclude) \in EnvRecord
         /\ Comps!NewEnv(e, types, exclude).present \in SUBSET Group
BY CompsType DEF Comps!NewEnv, EnvRecord, Comps!Record

\* _environment_install, _environment_remove and _environment_upgrade.
LEMMA EnvironmentsOK ==
  ASSUME DataOK, NEW s, GroupsOK(s), NEW e \in Env
  PROVE  /\ \A types \in SUBSET Comps!PkgType, strict \in BOOLEAN :
              types # {} => GroupsOK(Comps!EnvInstall(s, e, types, strict, {}))
         /\ GroupsOK(Comps!EnvRemove(s, e))
         /\ e \in Comps!Known(v4.env) => GroupsOK(Comps!EnvUpgrade(s, e))
<1>1. ASSUME NEW types \in SUBSET Comps!PkgType, NEW strict \in BOOLEAN, types # {}
      PROVE  GroupsOK(Comps!EnvInstall(s, e, types, strict, {}))
  <2> DEFINE new == Comps!NewEnv(e, types, {})
             t == [s EXCEPT !.env.installed[e] = new]
  <2>1. Comps!EnvInstall(s, e, types, strict, {}) = Comps!GroupInstall(t, new.present, types, strict)
    BY Zenon DEF Comps!EnvInstall
  <2>2. new \in EnvRecord /\ new.present \in SUBSET Group
    BY NewEnvOK
  <2> HIDE DEF new
  <2>3. GroupsOK(t)
    BY <2>2, EnvMarked
  <2> HIDE DEF t
  <2>4. GroupsOK(Comps!GroupInstall(t, new.present, types, strict))
    BY <1>1, <2>2, <2>3, GroupInstallOK, Zenon
  <2> QED BY <2>1, <2>4
<1>2. GroupsOK(Comps!EnvRemove(s, e))
  <2> DEFINE t == [s EXCEPT !.env.removed[e] = v4.env[e]]
             gs == {g \in Comps!Members(v4.env[e]) : Comps!RemovableGroup(t, g)}
  <2>1. Comps!EnvRemove(s, e) = Comps!GroupRemove(t, gs)
    BY DEF Comps!EnvRemove
  <2>2. GroupsOK(t)
    <3>1. v4.env[e] \in EnvRecord
      BY DEF DataOK
    <3> QED BY <3>1, EnvMarked
  <2>3. gs \in SUBSET Comps!Known(v4.group)
    BY DEF Comps!RemovableGroup
  <2> HIDE DEF t, gs
  <2> QED BY <2>1, <2>2, <2>3, GroupRemoveOK
<1>3. ASSUME e \in Comps!Known(v4.env) PROVE GroupsOK(Comps!EnvUpgrade(s, e))
  <2> DEFINE old == Comps!Members(v4.env[e])
             types == v4.env[e].types
             new == Comps!NewEnv(e, types, {})
             gs == Comps!Members(new) \cap old \cap Comps!Known(v4.group)
             t == Comps!GroupUpgrade(s, gs)
             u == Comps!GroupInstall(t, new.present \ old, types, TRUE)
  <2>1. Comps!EnvUpgrade(s, e) = [u EXCEPT !.env.upgraded[e] = new]
    BY DEF Comps!EnvUpgrade
  <2>2. types \in SUBSET Comps!PkgType /\ types # {}
    BY <1>3 DEF DataOK, EnvRecord, Comps!Record, Comps!Known
  <2>3. new \in EnvRecord /\ new.present \ old \in SUBSET Group
    <3> HIDE DEF types
    <3>1. new \in EnvRecord /\ new.present \in SUBSET Group
      BY <2>2, NewEnvOK
    <3> HIDE DEF new, old
    <3> QED BY <3>1
  <2> HIDE DEF types, new, old
  <2>4. GroupsOK(t)
    <3>1. gs \in SUBSET Comps!Known(v4.group)
      OBVIOUS
    <3> HIDE DEF gs
    <3> QED BY <3>1, GroupUpgradeOK
  <2> HIDE DEF t
  <2>5. GroupsOK(u)
    BY <2>2, <2>3, <2>4, GroupInstallOK, Zenon
  <2> HIDE DEF u
  <2>6. GroupsOK([u EXCEPT !.env.upgraded[e] = new])
    BY <2>3, <2>5, EnvMarked, Zenon
  <2> QED BY <2>1, <2>6, Zenon
<1> QED BY <1>1, <1>2, <1>3

\* An error is only noted.
LEMMA RaisedOK ==
  ASSUME NEW s, GroupsOK(s), NEW what \in {"none", "NothingToDo", "NothingMarked", "CompsError"}
  PROVE  GroupsOK([s EXCEPT !.error = what])
<1> DEFINE t == [s EXCEPT !.error = what]
<1>1. t \in CompsSession /\ t.group = s.group /\ t.bunch = s.bunch
  BY DEF GroupsOK, CompsSession
<1> HIDE DEF t
<1> QED BY <1>1 DEF GroupsOK, RecordsOK, BunchOK, t

\* Requests, by the user's word.
LEMMA RequestsOK ==
  ASSUME DataOK, NEW s, GroupsOK(s), NEW id \in Group \cup Env
  PROVE  /\ \A types \in SUBSET Comps!PkgType, strict, miss \in BOOLEAN :
              types # {} => GroupsOK(Comps!InstallRequest(s, id, types, strict, miss))
         /\ GroupsOK(Comps!RemoveRequest(s, id))
         /\ GroupsOK(Comps!UpgradeRequest(s, id))
<1>1. /\ Comps!GroupsInComps \subseteq Group /\ Comps!EnvsInComps \subseteq Env
      /\ Comps!Known(v4.group) \subseteq Group /\ Comps!Known(v4.env) \subseteq Env
  BY DEF Comps!GroupsInComps, Comps!EnvsInComps, Comps!Known, DataOK
<1>2. /\ Comps!QueryGroups({"available"}) = Comps!GroupsInComps /\ Comps!QueryEnvs({"available"}) = Comps!EnvsInComps
      /\ Comps!QueryGroups({"installed"}) = Comps!Known(v4.group)
      /\ Comps!QueryEnvs({"installed"}) = Comps!Known(v4.env)
  BY DEF Comps!QueryGroups, Comps!QueryEnvs
<1>3. \A t : GroupsOK(t) => /\ GroupsOK(Comps!Raise(t, "NothingToDo")) /\ GroupsOK(Comps!Raise(t, "NothingMarked"))
  BY RaisedOK DEF Comps!Raise
<1>4. ASSUME NEW types \in SUBSET Comps!PkgType, NEW strict \in BOOLEAN, NEW miss \in BOOLEAN, types # {}
      PROVE  GroupsOK(Comps!InstallRequest(s, id, types, strict, miss))
  <2> DEFINE t == IF id \in Comps!GroupsInComps THEN Comps!GroupInstall(s, {id}, types, strict)
                  ELSE IF id \in Comps!EnvsInComps THEN Comps!EnvInstall(s, id, types, strict, {})
                  ELSE s
             missing == miss \/ id \notin Comps!GroupsInComps \cup Comps!EnvsInComps
  <2>1. id \in Comps!GroupsInComps => GroupsOK(Comps!GroupInstall(s, {id}, types, strict))
    <3> SUFFICES ASSUME id \in Comps!GroupsInComps PROVE GroupsOK(Comps!GroupInstall(s, {id}, types, strict))
      OBVIOUS
    <3>1. {id} \in SUBSET Group
      BY <1>1
    <3> QED BY <1>4, <3>1, GroupInstallOK, Zenon
  <2>2. id \in Comps!EnvsInComps => GroupsOK(Comps!EnvInstall(s, id, types, strict, {}))
    <3> SUFFICES ASSUME id \in Comps!EnvsInComps PROVE GroupsOK(Comps!EnvInstall(s, id, types, strict, {}))
      OBVIOUS
    <3>1. id \in Env
      BY <1>1
    <3> QED BY <1>4, <3>1, EnvironmentsOK, Zenon
  <2>3. GroupsOK(t)
    BY <2>1, <2>2
  <2>4. Comps!InstallRequest(s, id, types, strict, miss)
          = IF missing /\ strict THEN Comps!Raise(t, "NothingToDo") ELSE t
    BY <1>2, Zenon DEF Comps!InstallRequest
  <2> HIDE DEF t, missing
  <2> QED BY <1>3, <2>3, <2>4
<1>5. GroupsOK(Comps!RemoveRequest(s, id))
  <2>1. id \in Comps!Known(v4.env) => GroupsOK(Comps!EnvRemove(s, id))
    BY <1>1, EnvironmentsOK
  <2>2. id \in Comps!Known(v4.group) => GroupsOK(Comps!GroupRemove(s, {id}))
    BY GroupRemoveOK
  <2> QED BY <1>2, <1>3, <2>1, <2>2 DEF Comps!RemoveRequest
<1>6. GroupsOK(Comps!UpgradeRequest(s, id))
  <2>1. id \in Comps!Known(v4.env) => GroupsOK(Comps!EnvUpgrade(s, id))
    BY <1>1, EnvironmentsOK
  <2>2. id \in Comps!Known(v4.group) => GroupsOK(Comps!GroupUpgrade(s, {id}))
    BY GroupUpgradeOK
  <2> QED BY <1>2, <1>3, <2>1, <2>2 DEF Comps!UpgradeRequest
<1> QED BY <1>4, <1>5, <1>6

\* What marking leaves of the records there are.
MarksMore(s, t) ==
  /\ t \in CompsSession /\ t.group.upgraded = s.group.upgraded
  /\ Comps!Known(s.group.installed) \subseteq Comps!Known(t.group.installed)

\* A request is no record.
LEMMA RequestMarks ==
  ASSUME NEW t \in CompsSession, NEW c \in Bunch
  PROVE  Comps!Request(t, c) \in CompsSession /\ Comps!Request(t, c).group = t.group
<1> DEFINE b == Comps!Add(t.bunch, c)
<1>1. b \in Bunch
  BY DEF CompsSession, Bunch, Comps!Add
<1>2. Comps!Request(t, c) = [t EXCEPT !.bunch = b]
  BY DEF Comps!Request
<1> HIDE DEF b
<1> QED BY <1>1, <1>2 DEF CompsSession

\* Marking groups.
LEMMA GroupsMarkMore ==
  ASSUME DataOK, NEW s \in CompsSession, NEW gs \in SUBSET Group
  PROVE  /\ \A types \in SUBSET Comps!PkgType, strict \in BOOLEAN :
              types # {} => MarksMore(s, Comps!GroupInstall(s, gs, types, strict))
         /\ MarksMore(s, Comps!GroupRemove(s, gs))
<1>1. ASSUME NEW types \in SUBSET Comps!PkgType, NEW strict \in BOOLEAN, types # {}
      PROVE  MarksMore(s, Comps!GroupInstall(s, gs, types, strict))
  <2> DEFINE records == [g \in Group |-> IF g \in gs THEN Comps!NewGroup(g, types) ELSE s.group.installed[g]]
             names == UNION {Comps!PkgsOfType(g, types) : g \in gs}
             t == [s EXCEPT !.group.installed = records]
             c == IF strict THEN [Comps!NoBunch EXCEPT !.install = names] ELSE [Comps!NoBunch EXCEPT !.opt = names]
  <2>1. Comps!GroupInstall(s, gs, types, strict) = Comps!Request(t, c)
    BY Zenon DEF Comps!GroupInstall, Comps!Marked
  <2>2. records \in [Group -> GroupRecord]
    <3>1. \A g \in Group : s.group.installed[g] \in GroupRecord
      BY DEF CompsSession, Records
    <3> QED BY <3>1, NewGroupOK
  <2>3. c \in Bunch
    <3>1. names \subseteq Member
      BY DEF Comps!PkgsOfType
    <3> HIDE DEF names
    <3> QED BY <3>1 DEF Bunch, Comps!NoBunch
  <2>4. Comps!Known(s.group.installed) \subseteq Comps!Known(records)
    BY <1>1, NewGroupOK DEF Comps!Known, CompsSession, Records
  <2> HIDE DEF records, c
  <2>5. t \in CompsSession /\ t.group.installed = records /\ t.group.upgraded = s.group.upgraded
    BY <2>2 DEF CompsSession, Records
  <2> HIDE DEF t
  <2> QED BY <2>1, <2>3, <2>4, <2>5, RequestMarks DEF MarksMore
<1>2. MarksMore(s, Comps!GroupRemove(s, gs))
  <2> DEFINE records == [g \in Group |-> IF g \in gs THEN v4.group[g] ELSE s.group.removed[g]]
             names == UNION {Comps!Members(v4.group[g]) : g \in gs}
             t == [s EXCEPT !.group.removed = records]
             gone == {k \in names : Comps!RemovablePkg(t, k)}
             c == [Comps!NoBunch EXCEPT !.remove = gone]
  <2>1. Comps!GroupRemove(s, gs) = Comps!Request(t, c)
    BY Zenon DEF Comps!GroupRemove, Comps!Marked
  <2>2. records \in [Group -> GroupRecord]
    BY DEF CompsSession, Records, DataOK
  <2>3. names \subseteq Member
    <3>1. \A g \in gs : Comps!Members(v4.group[g]) \subseteq Member
      BY DEF DataOK, GroupRecord, Comps!Record, Comps!Members
    <3> QED BY <3>1
  <2>4. c \in Bunch
    <3>1. gone \subseteq Member
      <4> HIDE DEF names, t
      <4> QED BY <2>3
    <3> HIDE DEF gone
    <3> QED BY <3>1 DEF Bunch, Comps!NoBunch
  <2> HIDE DEF records, c
  <2>5. t \in CompsSession /\ t.group.installed = s.group.installed /\ t.group.upgraded = s.group.upgraded
    BY <2>2 DEF CompsSession, Records
  <2> HIDE DEF t
  <2> QED BY <2>1, <2>4, <2>5, RequestMarks DEF MarksMore
<1> QED BY <1>1, <1>2

\* Marking, with what is requested dropped.
LEMMA DroppedOK ==
  ASSUME NEW s, GroupsOK(s), NEW t, GroupsOK(t), MarksMore(s, t)
  PROVE  GroupsOK([t EXCEPT !.bunch = s.bunch])
<1> DEFINE u == [t EXCEPT !.bunch = s.bunch]
<1>1. u \in CompsSession /\ u.group = t.group /\ u.bunch = s.bunch
  BY DEF GroupsOK, CompsSession
<1> HIDE DEF u
<1>2. RecordsOK(u)
  BY <1>1 DEF GroupsOK, RecordsOK
<1>3. BunchOK(u)
  BY <1>1 DEF GroupsOK, BunchOK, MarksMore
<1> QED BY <1>1, <1>2, <1>3 DEF GroupsOK, u

\* group mark install, and group mark remove.
LEMMA MarkRequestOK ==
  ASSUME DataOK, NEW s, GroupsOK(s), NEW id \in Group \cup Env, NEW install \in BOOLEAN
  PROVE  GroupsOK(Comps!MarkRequest(s, id, {"mandatory"}, install))
<1> DEFINE types == {"mandatory"}
           i == IF id \in Comps!GroupsInComps THEN Comps!GroupInstall(s, {id}, types, TRUE)
                ELSE IF id \in Comps!EnvsInComps THEN Comps!EnvInstall(s, id, types, TRUE, {})
                ELSE Comps!Raise(s, "CompsError")
           t == IF install THEN i ELSE Comps!RemoveRequest(s, id)
<1>1. Comps!MarkRequest(s, id, types, install) = [t EXCEPT !.bunch = s.bunch]
  BY Zenon DEF Comps!MarkRequest
<1>2. types \in SUBSET Comps!PkgType /\ types # {} /\ TRUE \in BOOLEAN
  BY DEF Comps!PkgType
<1>3. s \in CompsSession
  BY DEF GroupsOK
<1>4. /\ Comps!GroupsInComps \subseteq Group /\ Comps!EnvsInComps \subseteq Env
      /\ Comps!Known(v4.group) \subseteq Group /\ Comps!Known(v4.env) \subseteq Env
  BY DEF Comps!GroupsInComps, Comps!EnvsInComps, Comps!Known, DataOK
<1>5. \A what \in {"none", "NothingToDo", "NothingMarked", "CompsError"} :
        GroupsOK(Comps!Raise(s, what)) /\ MarksMore(s, Comps!Raise(s, what))
  <2> TAKE what \in {"none", "NothingToDo", "NothingMarked", "CompsError"}
  <2>1. GroupsOK([s EXCEPT !.error = what])
    BY RaisedOK, Zenon
  <2>2. [s EXCEPT !.error = what].group = s.group
    BY <1>3 DEF CompsSession
  <2>3. [s EXCEPT !.error = what] = Comps!Raise(s, what)
    BY DEF Comps!Raise
  <2> QED BY <2>1, <2>2, <2>3 DEF GroupsOK, MarksMore
<1>6. ASSUME NEW e \in Env PROVE MarksMore(s, Comps!EnvInstall(s, e, types, TRUE, {}))
  <2> DEFINE new == Comps!NewEnv(e, types, {})
             u == [s EXCEPT !.env.installed[e] = new]
             w == Comps!GroupInstall(u, new.present, types, TRUE)
  <2>1. Comps!EnvInstall(s, e, types, TRUE, {}) = w
    BY Zenon DEF Comps!EnvInstall
  <2>2. new \in EnvRecord /\ new.present \in SUBSET Group
    BY <1>2, NewEnvOK
  <2> HIDE DEF new, types
  <2>3. GroupsOK(u)
    BY <2>2, EnvMarked
  <2>4. u.group = s.group
    BY <1>3 DEF CompsSession
  <2> HIDE DEF u
  <2>5. u \in CompsSession
    BY <2>3 DEF GroupsOK
  <2>6. MarksMore(u, w)
    BY <1>2, <2>2, <2>5, GroupsMarkMore, Zenon
  <2> HIDE DEF w
  <2> QED BY <2>1, <2>4, <2>6 DEF MarksMore
<1>7. ASSUME NEW e \in Env PROVE MarksMore(s, Comps!EnvRemove(s, e))
  <2> DEFINE u == [s EXCEPT !.env.removed[e] = v4.env[e]]
             gs == {g \in Comps!Members(v4.env[e]) : Comps!RemovableGroup(u, g)}
             w == Comps!GroupRemove(u, gs)
  <2>1. Comps!EnvRemove(s, e) = w
    BY DEF Comps!EnvRemove
  <2>2. GroupsOK(u)
    <3>1. v4.env[e] \in EnvRecord
      BY DEF DataOK
    <3> QED BY <3>1, EnvMarked
  <2>3. gs \in SUBSET Group
    BY <1>4 DEF Comps!RemovableGroup
  <2>4. u.group = s.group
    BY <1>3 DEF CompsSession
  <2> HIDE DEF u, gs
  <2>5. u \in CompsSession
    BY <2>2 DEF GroupsOK
  <2>6. MarksMore(u, w)
    BY <2>3, <2>5, GroupsMarkMore, Zenon
  <2> HIDE DEF w
  <2> QED BY <2>1, <2>4, <2>6 DEF MarksMore
<1>8. install => GroupsOK(t) /\ MarksMore(s, t)
  <2>1. id \in Comps!GroupsInComps => /\ GroupsOK(Comps!GroupInstall(s, {id}, types, TRUE))
                                      /\ MarksMore(s, Comps!GroupInstall(s, {id}, types, TRUE))
    <3> SUFFICES ASSUME id \in Comps!GroupsInComps
                 PROVE  /\ GroupsOK(Comps!GroupInstall(s, {id}, types, TRUE))
                        /\ MarksMore(s, Comps!GroupInstall(s, {id}, types, TRUE))
      OBVIOUS
    <3>1. {id} \in SUBSET Group
      BY <1>4
    <3> HIDE DEF types
    <3> QED BY <1>2, <1>3, <3>1, GroupInstallOK, GroupsMarkMore, Zenon
  <2>2. id \in Comps!EnvsInComps => /\ GroupsOK(Comps!EnvInstall(s, id, types, TRUE, {}))
                                    /\ MarksMore(s, Comps!EnvInstall(s, id, types, TRUE, {}))
    <3> SUFFICES ASSUME id \in Comps!EnvsInComps
                 PROVE  /\ GroupsOK(Comps!EnvInstall(s, id, types, TRUE, {}))
                        /\ MarksMore(s, Comps!EnvInstall(s, id, types, TRUE, {}))
      OBVIOUS
    <3>1. id \in Env
      BY <1>4
    <3> HIDE DEF types
    <3> QED BY <1>2, <1>6, <3>1, EnvironmentsOK, Zenon
  <2>3. GroupsOK(i) /\ MarksMore(s, i)
    BY <1>5, <2>1, <2>2
  <2> HIDE DEF i
  <2> QED BY <2>3
<1>9. ~install => GroupsOK(t) /\ MarksMore(s, t)
  <2>1. GroupsOK(Comps!RemoveRequest(s, id))
    BY RequestsOK
  <2>2. id \in Comps!Known(v4.env) => MarksMore(s, Comps!EnvRemove(s, id))
    BY <1>4, <1>7
  <2>3. id \in Comps!Known(v4.group) => MarksMore(s, Comps!GroupRemove(s, {id}))
    BY <1>3, <1>4, GroupsMarkMore
  <2>4. MarksMore(s, Comps!RemoveRequest(s, id))
    BY <1>5, <2>2, <2>3 DEF Comps!RemoveRequest, Comps!QueryGroups, Comps!QueryEnvs
  <2> QED BY <2>1, <2>4
<1> HIDE DEF t
<1> QED BY <1>1, <1>8, <1>9, DroppedOK

\* The database ends up with records.
LEMMA FinalsOK ==
  ASSUME NEW M, NEW Id, NEW p \in Records(Id, Comps!Record(M)), NEW old \in [Id -> Comps!Record(M)],
         NEW t \in Comps!Finals(p, old)
  PROVE  t \in [Id -> Comps!Record(M)]
<1>1. ASSUME NEW x \in Id, NEW r \in Comps!Outcomes(p, old, x) PROVE r \in Comps!Record(M)
  <2> DEFINE new == {p[f][x] : f \in {g \in {"installed", "upgraded"} : p[g][x].types # {}}}
             gone == [p.removed[x] EXCEPT !.types = {}, !.present = {}, !.of = [y \in DOMAIN @ |-> "no"]]
             goneSet == IF p.removed[x].types # {} THEN {gone} ELSE {}
  <2>1. p.installed[x] \in Comps!Record(M) /\ p.upgraded[x] \in Comps!Record(M)
        /\ p.removed[x] \in Comps!Record(M) /\ old[x] \in Comps!Record(M)
    BY DEF Records
  <2>2. gone \in Comps!Record(M)
    BY <2>1 DEF Comps!Record
  <2>3. Comps!Outcomes(p, old, x) = IF new \cup goneSet = {} THEN {old[x]} ELSE new \cup goneSet
    BY DEF Comps!Outcomes
  <2> HIDE DEF gone
  <2>4. r = old[x] \/ r = gone \/ r = p.installed[x] \/ r = p.upgraded[x]
    BY <2>3
  <2> QED BY <2>1, <2>2, <2>4
<1>2. DOMAIN old = Id
  OBVIOUS
<1>3. DOMAIN t = Id /\ t = [x \in Id |-> t[x]] /\ \A x \in Id : t[x] \in Comps!Outcomes(p, old, x)
  BY <1>2 DEF Comps!Finals
<1> QED BY <1>1, <1>3

\* And marks packages in them that are there.
LEMMA VerifiedOK ==
  ASSUME NEW p, NEW table \in [Group -> GroupRecord], NEW now \in SUBSET Member, NEW ran
  PROVE  Comps!Verified(p, table, now, ran) \in [Group -> GroupRecord]
<1>1. ASSUME NEW g \in Group
      PROVE  /\ [table[g] EXCEPT !.present = @ \cup (Comps!Members(table[g]) \cap now)] \in GroupRecord
             /\ table[g] \in GroupRecord
  BY DEF GroupRecord, Comps!Record
<1> QED BY <1>1 DEF Comps!Verified

\* The beginning.
LEMMA CompsInit == Comps!Init => CompsInv
<1> SUFFICES ASSUME Comps!Init PROVE CompsInv
  OBVIOUS
<1>1. v3 \in [Member -> Comps!Reason] /\ v2 \subseteq Member /\ v1 \in CompsData
  BY CompsAssumption DEF Comps!Init
<1>2. v4 \in [group : [Group -> GroupRecord], env : [Env -> EnvRecord]]
  BY NothingOK DEF Comps!Init, Comps!NoRecords
<1>3. DataOK
  BY <1>1, <1>2 DEF DataOK
<1>4. v6 = Comps!NoGoal /\ v5 = Comps!Fresh /\ v7 = [requests |-> 0, runs |-> 0]
  BY DEF Comps!Init
<1>5. GroupsOK(v5)
  BY <1>4, FreshOK DEF GroupsOK, RecordsOK, BunchOK, Comps!NoBunch
<1> QED BY <1>3, <1>4, <1>5 DEF CompsInv, Comps!NoGoal

\* Nothing is resolved or requested.
LEMMA NewSession ==
  ASSUME DataOK', v5' = Comps!Fresh, v6' = Comps!NoGoal, v7' \in [requests : Nat, runs : Nat]
  PROVE  CompsInv'
<1>1. GroupsOK(v5)'
  BY FreshOK DEF GroupsOK, RecordsOK, BunchOK, Comps!NoBunch
<1> QED BY <1>1 DEF CompsInv, Comps!NoGoal

\* A request.
LEMMA AskOK ==
  ASSUME CompsInv, Comps!Ask
  PROVE  CompsInv'
<1> DEFINE s == [v5 EXCEPT !.error = "none"]
<1>1. DataOK /\ GroupsOK(v5) /\ v7 \in [requests : Nat, runs : Nat] /\ v6 = Comps!NoGoal
  BY DEF CompsInv, Comps!Ask
<1>2. GroupsOK(s)
  BY <1>1, RaisedOK
<1>3. PICK id \in Group \cup Env : v5' \in Comps!Requests(s, id)
  BY DEF Comps!Ask
<1> HIDE DEF s
<1>4. GroupsOK(v5')
  <2>1. {"mandatory"} \subseteq Comps!PkgType /\ {"mandatory"} # {} /\ Comps!PkgType # {}
    BY DEF Comps!PkgType
  <2>2. \/ \E types \in {{"mandatory"}, Comps!PkgType}, strict, miss \in BOOLEAN :
             v5' = Comps!InstallRequest(s, id, types, strict, miss)
        \/ v5' = Comps!RemoveRequest(s, id) \/ v5' = Comps!UpgradeRequest(s, id)
        \/ \E install \in BOOLEAN : v5' = Comps!MarkRequest(s, id, {"mandatory"}, install)
    BY <1>3 DEF Comps!Requests
  <2>3. ASSUME NEW types \in {{"mandatory"}, Comps!PkgType}, NEW strict \in BOOLEAN, NEW miss \in BOOLEAN
        PROVE  GroupsOK(Comps!InstallRequest(s, id, types, strict, miss))
    <3>1. types \in SUBSET Comps!PkgType /\ types # {}
      BY <2>1
    <3> QED BY <1>1, <1>2, <3>1, RequestsOK, Zenon
  <2>4. \A install \in BOOLEAN : GroupsOK(Comps!MarkRequest(s, id, {"mandatory"}, install))
    BY <1>1, <1>2, MarkRequestOK, Zenon
  <2>5. GroupsOK(Comps!RemoveRequest(s, id)) /\ GroupsOK(Comps!UpgradeRequest(s, id))
    BY <1>1, <1>2, RequestsOK, Zenon
  <2> QED BY <2>2, <2>3, <2>4, <2>5
<1>5. GroupsOK(v5)'
  BY <1>4 DEF Comps!Ask, GroupsOK, RecordsOK, BunchOK, Comps!PackageGroups
<1>6. DataOK' /\ v6' = Comps!NoGoal
  BY <1>1 DEF Comps!Ask, DataOK
<1>7. v7' \in [requests : Nat, runs : Nat] /\ v7'.requests # 0
  BY <1>1 DEF Comps!Ask
<1> QED BY <1>5, <1>6, <1>7 DEF CompsInv, Comps!NoGoal

\* The resolution: what may go is asked again.
LEMMA CompsResolveOK ==
  ASSUME CompsInv, Comps!Resolve
  PROVE  CompsInv'
<1>1. DataOK /\ GroupsOK(v5) /\ v7 \in [requests : Nat, runs : Nat] /\ v7.requests # 0
  BY DEF CompsInv, Comps!Resolve
<1>2. PICK safe \in SUBSET (v5.bunch.remove \cap v2) :
        /\ v6' = [on |-> TRUE, install |-> v5.bunch.install \cup v5.bunch.opt, upgrade |-> v5.bunch.upgrade,
                  erase |-> Comps!Unneeded(v5, v5.bunch.remove, safe),
                  members |-> v5.bunch.install \cup v5.bunch.opt \cup v5.bunch.upgrade \cup v5.bunch.remove]
        /\ v5' = [v5 EXCEPT !.reasons = Comps!StillNeeded(v5, v5.bunch.remove, safe)]
  BY DEF Comps!Resolve
<1>3. v5.bunch \in Bunch /\ v5 \in CompsSession
  BY <1>1 DEF GroupsOK, CompsSession
<1>4. /\ Comps!StillNeeded(v5, v5.bunch.remove, safe) \subseteq Member
      /\ Comps!Unneeded(v5, v5.bunch.remove, safe) \subseteq v5.bunch.remove
      /\ \A k \in Comps!Unneeded(v5, v5.bunch.remove, safe) : Comps!RemovablePkg(v5, k)
  BY <1>3 DEF Comps!StillNeeded, Comps!Unneeded, Bunch
<1>5. v5' \in CompsSession /\ v5'.group = v5.group /\ v5'.bunch = v5.bunch
  BY <1>2, <1>3, <1>4 DEF CompsSession
<1>6. UNCHANGED <<v1, v2, v3, v4, v7>>
  BY DEF Comps!Resolve
<1>7. GroupsOK(v5)'
  BY <1>1, <1>5, <1>6 DEF GroupsOK, RecordsOK, BunchOK, Comps!PackageGroups
<1>8. /\ v6' \in [on : BOOLEAN, install : SUBSET Member, upgrade : SUBSET Member, erase : SUBSET Member,
                 members : SUBSET Member]
      /\ v6'.on /\ v6'.erase = Comps!Unneeded(v5, v5.bunch.remove, safe)
      /\ v6'.install = v5.bunch.install \cup v5.bunch.opt
  <2>1. Comps!Unneeded(v5, v5.bunch.remove, safe) \subseteq Member
    BY <1>3, <1>4 DEF Bunch
  <2> QED BY <1>2, <1>3, <2>1 DEF Bunch
<1>9. \A k \in v6'.erase : Comps!RemovablePkg(v5, k)'
  BY <1>4, <1>5, <1>6, <1>8 DEF Comps!RemovablePkg, Comps!PackageGroups
<1>10. DataOK'
  BY <1>1, <1>6 DEF DataOK
<1> QED BY <1>1, <1>4, <1>5, <1>6, <1>7, <1>8, <1>9, <1>10 DEF CompsInv

\* A transaction, after which there is a new session.
LEMMA CompsRunOK ==
  ASSUME CompsInv, Comps!Run
  PROVE  CompsInv'
<1>1. DataOK /\ GroupsOK(v5) /\ v7 \in [requests : Nat, runs : Nat] /\ v6.install \subseteq Member
  BY DEF CompsInv
<1> DEFINE new == v6.install \ v2
           now == (v2 \cup new) \ v6.erase
           ran == new # {} \/ v6.erase # {}
<1>2. PICK groups \in Comps!Finals(v5.group, v4.group), envs \in Comps!Finals(v5.env, v4.env) :
        v4' = [group |-> Comps!Verified(v5.group, groups, now, ran), env |-> envs]
  BY Zenon DEF Comps!Run
<1>3. now \in SUBSET Member
  BY <1>1 DEF DataOK
<1>4. v2' = now
  BY DEF Comps!Run
<1> HIDE DEF now, ran
<1>5. /\ v5.group \in Records(Group, Comps!Record(Member)) /\ v5.env \in Records(Env, Comps!Record(Group))
      /\ v4.group \in [Group -> Comps!Record(Member)] /\ v4.env \in [Env -> Comps!Record(Group)]
  BY <1>1 DEF GroupsOK, CompsSession, DataOK, GroupRecord, EnvRecord
<1>6. groups \in [Group -> GroupRecord]
  BY <1>5, FinalsOK, Zenon DEF GroupRecord
<1>7. envs \in [Env -> EnvRecord]
  BY <1>5, FinalsOK, Zenon DEF EnvRecord
<1>8. v4' \in [group : [Group -> GroupRecord], env : [Env -> EnvRecord]]
  <2>1. Comps!Verified(v5.group, groups, now, ran) \in [Group -> GroupRecord]
    BY <1>3, <1>6, VerifiedOK, Zenon
  <2> QED BY <1>2, <1>7, <2>1
<1>9. v3' \in [Member -> Comps!Reason]
  BY <1>1 DEF Comps!Run, DataOK, Comps!Reason
<1>10. DataOK'
  BY <1>1, <1>3, <1>4, <1>8, <1>9 DEF DataOK, Comps!Run
<1>11. v5' = Comps!Fresh /\ v6' = Comps!NoGoal /\ v7' \in [requests : Nat, runs : Nat]
  BY <1>1 DEF Comps!Run, Comps!Reset
<1> QED BY <1>10, <1>11, NewSession

\* Every step keeps the invariant of groups.
LEMMA CompsStep == CompsInv /\ Comps!Next => CompsInv'
<1> SUFFICES ASSUME CompsInv, Comps!Next PROVE CompsInv'
  OBVIOUS
<1>1. DataOK /\ v7 \in [requests : Nat, runs : Nat]
  BY DEF CompsInv
<1>2. CASE Comps!Ask
  BY <1>2, AskOK
<1>3. CASE Comps!Resolve
  BY <1>3, CompsResolveOK
<1>4. CASE Comps!Run
  BY <1>4, CompsRunOK
<1>5. CASE Comps!GiveUp
  <2>1. DataOK' /\ v5' = Comps!Fresh /\ v6' = Comps!NoGoal /\ v7' \in [requests : Nat, runs : Nat]
    BY <1>1, <1>5 DEF Comps!GiveUp, Comps!Reset, DataOK
  <2> QED BY <2>1, NewSession
<1>6. CASE Comps!Publish
  <2>1. DataOK' /\ v5' = Comps!Fresh /\ v6' = Comps!NoGoal /\ v7' \in [requests : Nat, runs : Nat]
    BY <1>1, <1>6 DEF Comps!Publish, CompsInv, DataOK
  <2> QED BY <2>1, NewSession
<1>7. CASE Comps!OtherRequest
  <2>1. v2' \subseteq Member /\ v3' \in [Member -> Comps!Reason]
    BY <1>1, <1>7 DEF Comps!OtherRequest, DataOK, Comps!Reason
  <2>2. DataOK' /\ v5' = Comps!Fresh /\ v6' = Comps!NoGoal /\ v7' \in [requests : Nat, runs : Nat]
    BY <1>1, <1>7, <2>1 DEF Comps!OtherRequest, CompsInv, DataOK
  <2> QED BY <2>2, NewSession
<1> QED BY <1>2, <1>3, <1>4, <1>5, <1>6, <1>7 DEF Comps!Next

\* The type invariant of groups.
LEMMA CompsTypes == CompsInv => Comps!TypeOK
<1> SUFFICES ASSUME CompsInv PROVE Comps!TypeOK
  OBVIOUS
<1>1. DataOK /\ v5 \in CompsSession
  BY DEF CompsInv, GroupsOK
<1>2. \A f \in {"installed", "removed", "upgraded"} :
        v5.group[f] \in [Group -> GroupRecord] /\ v5.env[f] \in [Env -> EnvRecord]
  BY <1>1 DEF CompsSession, Records
<1>3. \A f \in DOMAIN Comps!NoBunch : v5.bunch[f] \subseteq Member
  <2>1. DOMAIN Comps!NoBunch = {"install", "opt", "own", "upgrade", "remove"} /\ v5.bunch \in Bunch
    BY <1>1 DEF Comps!NoBunch, CompsSession
  <2> QED BY <2>1 DEF Bunch
<1>4. \A f \in DOMAIN Comps!NoGoal \ {"on"} : v6[f] \subseteq Member
  <2>1. DOMAIN Comps!NoGoal \ {"on"} = {"install", "upgrade", "erase", "members"}
    BY DEF Comps!NoGoal
  <2> QED BY <2>1 DEF CompsInv
<1> QED BY <1>1, <1>2, <1>3, <1>4 DEF DataOK, GroupRecord, EnvRecord, Comps!TypeOK

\* The record a group ends up with has a package that may be removed marked only
\* if the group is upgraded.
LEMMA UnmarkedOutcomes ==
  ASSUME NEW g \in Group, NEW k, Comps!RemovablePkg(v5, k),
         NEW r \in Comps!Outcomes(v5.group, v4.group, g), k \in r.present,
         v5.group \in Records(Group, GroupRecord)
  PROVE  g \in Comps!Known(v5.group.upgraded)
<1> DEFINE new == {v5.group[f][g] : f \in {h \in {"installed", "upgraded"} : v5.group[h][g].types # {}}}
           gone == [v5.group.removed[g] EXCEPT !.types = {}, !.present = {},
                                               !.of = [y \in DOMAIN @ |-> "no"]]
           goneSet == IF v5.group.removed[g].types # {} THEN {gone} ELSE {}
<1>1. Comps!Outcomes(v5.group, v4.group, g)
        = IF new \cup goneSet = {} THEN {v4.group[g]} ELSE new \cup goneSet
  BY DEF Comps!Outcomes
<1>2. DOMAIN v5.group.installed = Group /\ DOMAIN v5.group.upgraded = Group
      /\ v5.group.removed[g] \in GroupRecord
  BY DEF Records
<1>3. gone.present = {}
  BY <1>2 DEF GroupRecord, Comps!Record
<1>4. k \notin gone.present
  BY <1>3
<1> HIDE DEF gone
<1>5. \/ r = v5.group.installed[g] /\ v5.group.installed[g].types # {}
      \/ r = v5.group.upgraded[g] /\ v5.group.upgraded[g].types # {}
      \/ r = v4.group[g] /\ v5.group.removed[g].types = {}
  BY <1>1, <1>4
<1>6. ~(r = v5.group.installed[g] /\ v5.group.installed[g].types # {})
  BY <1>2 DEF Comps!RemovablePkg, Comps!Holding, Comps!Known
<1>7. ~(r = v4.group[g] /\ v5.group.removed[g].types = {})
  BY DEF Comps!RemovablePkg, Comps!Holding, Comps!Known, Comps!PackageGroups
<1> QED BY <1>2, <1>5, <1>6, <1>7 DEF Comps!Known

\* What is erased is what is_removable_pkg allows, and the records that follow do
\* not have it marked.
LEMMA NothingMarked ==
  ASSUME CompsInv, Comps!Next
  PROVE  Comps!GoneIsUnmarked
<1> SUFFICES ASSUME v6.on, NEW k \in v2 \ v2', NEW g \in Group, k \in v4'.group[g].present
             PROVE  g \in Comps!Known(v5.group.upgraded)
  BY DEF Comps!GoneIsUnmarked
<1>1. Comps!Run
  BY DEF Comps!Next, Comps!Ask, Comps!Resolve, Comps!GiveUp, Comps!Publish, Comps!OtherRequest
<1> DEFINE new == v6.install \ v2
           now == (v2 \cup new) \ v6.erase
           ran == new # {} \/ v6.erase # {}
<1>2. PICK groups \in Comps!Finals(v5.group, v4.group), envs \in Comps!Finals(v5.env, v4.env) :
        v4' = [group |-> Comps!Verified(v5.group, groups, now, ran), env |-> envs]
  BY <1>1, Zenon DEF Comps!Run
<1>3. v2' = now
  BY <1>1 DEF Comps!Run
<1>4. k \in v6.erase /\ k \notin now
  BY <1>3
<1>5. Comps!RemovablePkg(v5, k)
  BY <1>4 DEF CompsInv
<1>6. v5.group \in Records(Group, GroupRecord) /\ v4.group \in [Group -> GroupRecord]
  BY DEF CompsInv, GroupsOK, CompsSession, DataOK
<1>7. groups \in [Group -> GroupRecord] /\ groups[g] \in Comps!Outcomes(v5.group, v4.group, g)
  <2>1. groups \in [Group -> GroupRecord]
    BY <1>6, FinalsOK, Zenon DEF GroupRecord
  <2>2. DOMAIN v4.group = Group
    BY <1>6
  <2> QED BY <2>1, <2>2 DEF Comps!Finals
<1> HIDE DEF now, ran
<1>8. k \in groups[g].present
  <2>1. v4'.group[g] \in {groups[g],
          [groups[g] EXCEPT !.present = @ \cup (Comps!Members(groups[g]) \cap now)]}
    BY <1>2 DEF Comps!Verified
  <2>2. groups[g] \in GroupRecord
    BY <1>7
  <2> QED BY <1>4, <2>1, <2>2 DEF GroupRecord, Comps!Record
<1> QED BY <1>5, <1>6, <1>7, <1>8, UnmarkedOutcomes, Zenon

\* What is both installed and removed has a record that does not say it is there,
\* or is not seen to be the same.
LEMMA OnlyUnverified == CompsInv => Comps!BothOnlyIfUnverified
<1> SUFFICES ASSUME CompsInv, NEW k \in v6.install \cap v6.erase
             PROVE  \/ \E g \in Comps!Known(v4.group) : k \in Comps!Members(v4.group[g]) \ v4.group[g].present
                    \/ k \notin Alike /\ \E g \in Comps!Known(v5.group.upgraded) :
                                          k \in Comps!Members(v5.group.upgraded[g])
  BY DEF Comps!BothOnlyIfUnverified
<1>1. DataOK /\ v5 \in CompsSession /\ RecordsOK(v5) /\ BunchOK(v5)
  BY DEF CompsInv, GroupsOK
<1>2. k \in v5.bunch.remove /\ k \in v5.bunch.install \cup v5.bunch.opt /\ Comps!RemovablePkg(v5, k)
  BY DEF CompsInv
<1>3. k \in Member
  BY DEF CompsInv
<1>4. v5.group.upgraded \in [Group -> GroupRecord] /\ v4.group \in [Group -> GroupRecord]
      /\ v5.group.installed \in [Group -> GroupRecord]
  BY <1>1 DEF CompsSession, Records, DataOK
<1>5. PICK old \in Comps!Known(v4.group) : v4.group[old].of[k] # "no"
  BY <1>1, <1>2 DEF BunchOK
<1>6. old \in Group /\ k \in Comps!Members(v4.group[old])
  BY <1>3, <1>4, <1>5 DEF Comps!Known, Comps!Members, GroupRecord, Comps!Record
<1>7. CASE k \in v5.bunch.own
  <2>1. PICK g \in Comps!Known(v5.group.upgraded) : v1.group[g][k] # "no"
    BY <1>1, <1>7 DEF BunchOK
  <2>2. k \in Comps!Members(v5.group.upgraded[g])
    <3>1. g \in Group /\ v5.group.upgraded[g].of = v1.group[g]
      BY <1>1, <1>4, <2>1 DEF RecordsOK, Comps!Known
    <3> QED BY <1>3, <1>4, <2>1, <3>1 DEF Comps!Members, GroupRecord, Comps!Record
  <2>3. k \notin Alike
    BY <1>1, <1>2, <1>7 DEF BunchOK
  <2> QED BY <2>1, <2>2, <2>3
<1>8. CASE k \notin v5.bunch.own
  <2>1. PICK g \in Comps!Known(v5.group.installed) : v1.group[g][k] # "no"
    BY <1>1, <1>2, <1>8 DEF BunchOK
  <2>2. k \notin v5.group.installed[g].present
    BY <1>2, <2>1 DEF Comps!RemovablePkg, Comps!Holding
  <2>3. Comps!PackageGroups(k) = {}
    BY <1>1, <1>3, <2>1, <2>2 DEF RecordsOK
  <2>4. k \notin v4.group[old].present
    BY <1>6, <2>3 DEF Comps!PackageGroups
  <2> QED BY <1>5, <1>6, <2>4
<1> QED BY <1>7, <1>8

------------------------------------------------------------------------------
(* The components together.                                                *)

\* Each component's invariant, while it is the topic.
RequestsInv ==
  /\ topic \in Topics
  /\ topic = "comps"   => CompsInv
  /\ topic = "modules" => ModulesInv
  /\ topic = "shell"   => ShellInv

\* The beginning.
LEMMA RequestsInit == Init => RequestsInv
BY CompsInit, ModulesInit, ShellInit DEF Init, RequestsInv

\* No topic becomes another.
LEMMA RequestsStep == RequestsInv /\ [Next]_vars => RequestsInv'
<1> SUFFICES ASSUME RequestsInv, [Next]_vars PROVE RequestsInv'
  OBVIOUS
<1>1. CASE Next
  <2>1. topic' = topic
    BY <1>1 DEF Next
  <2>2. topic = "comps" => CompsInv'
    BY <1>1, CompsStep DEF Next, RequestsInv
  <2>3. topic = "modules" => ModulesInv'
    BY <1>1, ModulesStep DEF Next, RequestsInv
  <2>4. topic = "shell" => ShellInv'
    BY <1>1, ShellStep DEF Next, RequestsInv
  <2> QED BY <2>1, <2>2, <2>3, <2>4 DEF RequestsInv
<1>2. CASE UNCHANGED vars
  <2>1. UNCHANGED <<topic, v1, v2, v3, v4, v5, v6, v7>>
    BY <1>2 DEF vars
  <2>2. CompsInv => CompsInv'
    BY <2>1 DEF CompsInv, DataOK, GroupsOK, RecordsOK, BunchOK, Comps!PackageGroups, Comps!RemovablePkg
  <2>3. ModulesInv => ModulesInv'
    BY <2>1 DEF ModulesInv, GoneIsExcused, Excused, Modules!Chosen
  <2>4. ShellInv => ShellInv'
    BY <2>1 DEF ShellInv, InstalledOK, SessionOK, KeepsReason, Shell!Names, Shell!Consistent
  <2> QED BY <2>1, <2>2, <2>3, <2>4 DEF RequestsInv
<1> QED BY <1>1, <1>2

\* The invariant holds in every state.
THEOREM Invariance == Spec => []RequestsInv
<1> QED BY RequestsInit, RequestsStep, PTL DEF Spec

\* Comps, module streams and shell keep their types.
THEOREM TypeCorrect == Spec => []TypeOK
<1>1. RequestsInv => TypeOK
  BY CompsTypes, ModulesFacts, ShellFacts DEF RequestsInv, TypeOK
<1> QED BY <1>1, Invariance, PTL

\* What a transaction of groups takes away is marked by no group it leaves behind,
\* unless that was upgraded.
THEOREM GroupsForgetWhatIsGone == Spec => NoMarkOfWhatIsGone
<1>1. RequestsInv /\ [Next]_vars => [topic = "comps" => Comps!GoneIsUnmarked]_vars
  BY NothingMarked DEF Next, RequestsInv
<1> QED BY <1>1, Invariance, PTL DEF Spec, NoMarkOfWhatIsGone

\* No package is both installed and removed but for two reasons.
THEOREM BothForTwoReasons == Spec => []BothOnlyIfUnverified
<1>1. RequestsInv => BothOnlyIfUnverified
  BY OnlyUnverified DEF RequestsInv, BothOnlyIfUnverified
<1> QED BY <1>1, Invariance, PTL

\* Packages of profiles that stay are only lost to module remove --all, to a stream
\* that was only enabled fail-safe, or to a switch-to that leaves the profile's own
\* stream unresolved.
THEOREM ProfilesKeepTheirPackages == Spec => LostOnlyToAll
<1>1. RequestsInv /\ [Next]_vars => [topic = "modules" => Modules!LossIsAskedFor]_vars
  BY LossAsked DEF Next, RequestsInv
<1> QED BY <1>1, Invariance, PTL DEF Spec, LostOnlyToAll

\* What a shell runs without having resolved it before is a solution of what was
\* asked for since the last run or reset.
THEOREM ShellRunsWhatWasAsked == Spec => RunsWhatWasAsked
<1>1. RequestsInv /\ [Next]_vars => [topic = "shell" => Shell!LeavesWhatWasAsked]_vars
  BY LeavesASolution DEF Next, RequestsInv
<1> QED BY <1>1, Invariance, PTL DEF Spec, RunsWhatWasAsked

\* No transaction of a shell takes the user's reason from a package, but for the
\* update of another that obsoletes it.
THEOREM ReasonsOfTheUser == Spec => UserStaysUser
<1>1. RequestsInv /\ [Next]_vars => [topic = "shell" => Shell!KeepsUser]_vars
  BY SessionKeepsUser DEF Next, RequestsInv
<1> QED BY <1>1, Invariance, PTL DEF Spec, UserStaysUser
==============================================================================
