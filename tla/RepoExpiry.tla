------------------------------ MODULE RepoExpiry ------------------------------
(*****************************************************************************)
(* When cached repository metadata is used as it is and when it is           *)
(* downloaded again: the marks of expired_repos.json (dnf/persistor.py),     *)
(* their way through a run of dnf (dnf/cli/cli.py, dnf/base.py, dnf/repo.py) *)
(* and the makecache timer.  What libdnf does with a repository is modelled  *)
(* from the way dnf/repo.py uses it.                                         *)
(*****************************************************************************)
CONSTANTS
  Process,    \* dnf processes that may run at the same time
  Repo,
  Worlds,     \* the worlds to look at, see AllFeatures
  Nobody      \* the metadata lock is free

\* A world is a set of things that may happen in it.
\* "idle": runs that leave out repositories, or load none; "timer": makecache
\* --timer; "failure": a download of metadata may fail; "package": one of a
\* package may; "unreadable": expired_repos.json may be; "crash": a process may
\* be killed; "nocache": the -C option may be given to `dnf clean'.
AllFeatures == {"idle", "timer", "failure", "package", "unreadable", "crash", "nocache"}

VARIABLES
  world,     \* what may happen; no step changes it
  marked,    \* ids in expired_repos.json
  cached,    \* repositories with metadata in the cache
  stale,     \* those whose metadata is older than metadata_expire
  recent,    \* last_makecache is younger than metadata_timer_sync
  mdLock,    \* the process inside the metadata lock, or Nobody
  run,       \* the state of each process
  due        \* history: told to be expired and not revalidated since

vars == <<world, marked, cached, stale, recent, mdLock, run, due>>

Commands == {"load", "system", "nosack", "clean", "makecache", "timer"}
Modes == {"default", "lazy", "freshest", "cacheonly"}

\* enabled: the enabled repositories; expired: repositories on which
\* Repo::expire was called; loaded: those with r.metadata; toAdd:
\* RepoPersistor.expired_to_add; reset: reset_last_makecache; owed and bad
\* (history): what was due when the run began and has not been revalidated
\* since, and repositories one of whose packages could not be downloaded.
Run == [pc : {"off", "begun", "loading", "closing"},
        command : Commands, mode : Modes,
        enabled : SUBSET Repo, expired : SUBSET Repo, loaded : SUBSET Repo,
        toAdd : SUBSET Repo, reset : BOOLEAN, owed : SUBSET Repo, bad : SUBSET Repo]

Off == [pc |-> "off", command |-> "nosack", mode |-> "default", enabled |-> {},
        expired |-> {}, loaded |-> {}, toAdd |-> {}, reset |-> FALSE, owed |-> {}, bad |-> {}]

Init ==
  /\ world \in Worlds
  /\ marked = {}
  /\ cached \in SUBSET Repo
  /\ stale \in SUBSET cached
  /\ recent = FALSE
  /\ mdLock = Nobody
  /\ run = [p \in Process |-> Off]
  /\ due = {}

\* Defect: the marks are not looked at.
NoneAtStart == {{}}

\* RepoPersistor.get_expired_repos: the marks, or every repository when the
\* file cannot be read.
ExpiredAtStart == {marked} \cup (IF "unreadable" \in world THEN {Repo} ELSE {})

\* Cli._configure_repos and Cli._process_demands: the repositories the options
\* enable, the marks, and how eagerly metadata is to be synchronised.
Begin(p) ==
  /\ run[p].pc = "off"
  /\ \E cmd \in Commands, mode \in Modes, on \in SUBSET Repo, old \in ExpiredAtStart :
       /\ "idle" \notin world => on = Repo /\ cmd \notin {"system", "nosack"}
       /\ cmd = "timer" => "timer" \in world
       /\ cmd # "load" => mode # "lazy"
       /\ cmd = "clean" /\ mode = "cacheonly" => "nocache" \in world
       /\ run' = [run EXCEPT ![p] =
            [Off EXCEPT !.pc = "begun", !.command = cmd, !.mode = mode, !.enabled = on,
                        !.owed = due,
                        !.expired = IF mode = "freshest" THEN old \cup on ELSE old]]
  /\ UNCHANGED <<world, marked, cached, stale, recent, mdLock, due>>

\* Base.fill_sack without available repositories disables all of them; an
\* error before it, or a command without a sack, goes straight to the end.
LoadNothing(p) ==
  /\ run[p].pc = "begun" /\ run[p].command \in {"system", "nosack"}
  /\ run' = [run EXCEPT ![p].pc = "closing",
                        ![p].enabled = IF run[p].command = "system" THEN {} ELSE @]
  /\ UNCHANGED <<world, marked, cached, stale, recent, mdLock, due>>

\* Base.fill_sack takes the metadata lock.
LoadStarts(p) ==
  /\ run[p].pc = "begun" /\ run[p].command = "load" /\ mdLock = Nobody
  /\ mdLock' = p
  /\ run' = [run EXCEPT ![p].pc = "loading"]
  /\ UNCHANGED <<world, marked, cached, stale, recent, due>>

\* Base.update_cache: the timer found that it has nothing to do.
TimerSkips(p) ==
  /\ run[p].pc = "begun" /\ run[p].command = "timer" /\ recent
  /\ run' = [run EXCEPT ![p].pc = "closing"]
  /\ UNCHANGED <<world, marked, cached, stale, recent, mdLock, due>>

\* Base.update_cache: what is missing or expired is expired now; then fill_sack.
\* Repo._metadata_expire_in takes for missing whatever has no r.metadata, and
\* nothing is loaded yet: the timer never gets to what is about to expire.
UpdateCache(p) ==
  /\ run[p].pc = "begun" /\ run[p].command \in {"makecache", "timer"}
  /\ run[p].command = "timer" => ~recent
  /\ run[p].enabled # {} /\ mdLock = Nobody
  /\ mdLock' = p
  /\ run' = [run EXCEPT
       ![p].pc = "loading",
       ![p].expired = @ \cup {r \in run[p].enabled : r \notin run[p].loaded \/ r \in stale},
       ![p].reset = run[p].command = "timer"]
  /\ UNCHANGED <<world, marked, cached, stale, recent, due>>

\* No repository is enabled: nothing to update.
UpdateNothing(p) ==
  /\ run[p].pc = "begun" /\ run[p].command \in {"makecache", "timer"}
  /\ run[p].enabled = {}
  /\ run' = [run EXCEPT ![p].pc = "closing"]
  /\ UNCHANGED <<world, marked, cached, stale, recent, mdLock, due>>

\* libdnf serves the cached metadata of r to p as it is.
Usable(p, r) ==
  r \in cached /\ \/ run[p].mode \in {"lazy", "cacheonly"}
                  \/ r \notin run[p].expired \cup stale

Pending(p) == run[p].enabled \ run[p].loaded

\* Repo.load from the cache ...
LoadCached(p) ==
  /\ run[p].pc = "loading"
  /\ \E r \in Pending(p) :
       Usable(p, r) /\ run' = [run EXCEPT ![p].loaded = @ \cup {r}]
  /\ UNCHANGED <<world, marked, cached, stale, recent, mdLock, due>>

\* ... or from the remote.
Refresh(p) ==
  /\ run[p].pc = "loading" /\ run[p].mode # "cacheonly"
  /\ \E r \in Pending(p) :
       /\ ~Usable(p, r)
       /\ run' = [q \in Process |->
            IF q = p THEN [run[p] EXCEPT !.loaded = @ \cup {r}, !.expired = @ \ {r},
                                         !.owed = @ \ {r}]
            ELSE [run[q] EXCEPT !.owed = @ \ {r}]]
       /\ cached' = cached \cup {r}
       /\ stale' = stale \ {r}
       /\ due' = due \ {r}
  /\ UNCHANGED <<world, marked, recent, mdLock>>

\* RepoError: fill_sack expires the repository, then disables it or lets the
\* error end the run, as skip_if_unavailable says.
LoadFails(p) ==
  /\ run[p].pc = "loading"
  /\ \E r \in Pending(p) :
       /\ ~Usable(p, r)
       /\ run[p].mode = "cacheonly" \/ "failure" \in world
       /\ \/ /\ run' = [run EXCEPT ![p].expired = @ \cup {r}, ![p].enabled = @ \ {r}]
             /\ UNCHANGED mdLock
          \/ /\ run' = [run EXCEPT ![p].expired = @ \cup {r}, ![p].pc = "closing"]
             /\ mdLock' = Nobody
  /\ UNCHANGED <<world, marked, cached, stale, recent, due>>

LoadEnds(p) ==
  /\ run[p].pc = "loading" /\ Pending(p) = {}
  /\ mdLock' = Nobody
  /\ run' = [run EXCEPT ![p].pc = "closing"]
  /\ UNCHANGED <<world, marked, cached, stale, recent, due>>

\* _download_payloads: a package cannot be downloaded, so that what its
\* repository says may be out of date.
PackageFails(p) ==
  /\ "package" \in world
  /\ run[p].pc = "closing" /\ run[p].command = "load" /\ run[p].mode # "cacheonly"
  /\ \E r \in run[p].enabled \cap run[p].loaded :
       run' = [run EXCEPT ![p].expired = @ \cup {r}, ![p].bad = @ \cup {r}]
  /\ UNCHANGED <<world, marked, cached, stale, recent, mdLock, due>>

\* Defect: metadata is removed but not its age.
CleanKeepsAge(p) ==
  /\ run[p].pc = "begun" /\ run[p].command = "clean" /\ mdLock = Nobody
  /\ run' = [run EXCEPT ![p].pc = "closing"]
  /\ cached' = {}
  /\ due' = {}
  /\ UNCHANGED <<world, marked, stale, recent, mdLock>>

\* CleanCommand.run inside its locks, by the cache types of its arguments:
\* expire-cache, metadata (which expires, too), all, or others.
Clean(p) ==
  /\ run[p].pc = "begun" /\ run[p].command = "clean" /\ mdLock = Nobody
  /\ \E types \in {"expire-cache", "metadata", "all"}
                    \cup (IF "idle" \in world THEN {"packages"} ELSE {}) :
       /\ run' = [run EXCEPT
            ![p].pc = "closing",
            ![p].toAdd = IF types \in {"expire-cache", "metadata"} THEN cached ELSE {}]
       /\ cached' = IF types \in {"metadata", "all"} THEN {} ELSE cached
       /\ due' = due \cap cached'
  /\ stale' = stale \cap cached'
  /\ UNCHANGED <<world, marked, recent, mdLock>>

\* Defect: repositories this run has not loaded are saved.
ExpiredUnloaded(p) == run[p].enabled \cap (run[p].expired \cup stale)

\* Base._store_persistent_data: what was used although it had expired.
UsedExpired(p) == run[p].enabled \cap run[p].loaded \cap (run[p].expired \cup stale)

\* RepoPersistor.save: the file is rewritten with what this run has to say, and
\* last_makecache touched if the timer had something to do, whatever came of it.
Close(p) ==
  /\ run[p].pc = "closing"
  /\ due' = due \cup ((run[p].toAdd \cup run[p].bad) \cap cached)
  /\ IF run[p].mode = "cacheonly" THEN UNCHANGED <<marked, recent>>
     ELSE /\ marked' = run[p].toAdd \cup UsedExpired(p)
          /\ recent' = (recent \/ run[p].reset)
  /\ run' = [run EXCEPT ![p] = Off]
  /\ UNCHANGED <<world, cached, stale, mdLock>>

Crash(p) ==
  /\ "crash" \in world
  /\ run[p].pc # "off"
  /\ run' = [run EXCEPT ![p] = Off]
  /\ mdLock' = IF mdLock = p THEN Nobody ELSE mdLock
  /\ UNCHANGED <<world, marked, cached, stale, recent, due>>

\* metadata_expire seconds pass for one repository.
Age ==
  /\ \E r \in cached \ stale : stale' = stale \cup {r}
  /\ UNCHANGED <<world, marked, cached, recent, mdLock, run, due>>

\* metadata_timer_sync seconds pass since the last timer run.
PeriodElapses ==
  /\ recent
  /\ recent' = FALSE
  /\ UNCHANGED <<world, marked, cached, stale, mdLock, run, due>>

Next ==
  \/ \E p \in Process :
       \/ Begin(p) \/ LoadNothing(p) \/ LoadStarts(p) \/ TimerSkips(p)
       \/ UpdateCache(p) \/ UpdateNothing(p) \/ LoadCached(p) \/ Refresh(p)
       \/ LoadFails(p) \/ LoadEnds(p) \/ PackageFails(p) \/ Clean(p) \/ Close(p) \/ Crash(p)
  \/ Age \/ PeriodElapses

Spec == Init /\ [][Next]_vars

------------------------------------------------------------------------------
\* Every variable has the type the code gives it.
TypeOK ==
  /\ world \in Worlds /\ marked \subseteq Repo /\ cached \subseteq Repo /\ stale \subseteq cached
  /\ recent \in BOOLEAN
  /\ mdLock \in Process \cup {Nobody}
  /\ run \in [Process -> Run]
  /\ due \subseteq Repo

\* "DNF will re-validate the cache for each repository the next time it is
\* used" (doc/command_ref.rst:582): a run begun after `dnf clean expire-cache',
\* unless it has asked for lazy or cache-only metadata, uses no metadata that
\* nobody has revalidated since.
RevalidatedWhenUsed ==
  \A p \in Process :
    run[p].mode \in {"default", "freshest"} => run[p].loaded \cap run[p].owed = {}

\* It holds where every run loads all repositories; a run that leaves one out
\* forgets its mark.
RevalidatedUnlessIdle == "idle" \notin world => RevalidatedWhenUsed

\* The reason: through all the runs that rewrite expired_repos.json, lazy ones
\* included, a repository keeps its mark until it is revalidated.
DueIsMarked == "idle" \notin world => due \subseteq marked

\* No mark is without a cause: between runs a marked repository is due, or old,
\* or has lost its metadata, so that nothing is revalidated for nothing.
MarksHaveReason ==
  "unreadable" \notin world /\ (\A p \in Process : run[p].pc = "off") =>
    marked \subseteq due \cup stale \cup (Repo \ cached)

\* The marks are those there should be: none is lost, though each run rewrites the
\* file with what it knows, and none is left over (base.py:246, persistor.py:95).
MarksAreExact == DueIsMarked /\ MarksHaveReason
==============================================================================
