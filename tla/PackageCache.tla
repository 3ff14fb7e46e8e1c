----------------------------- MODULE PackageCache -----------------------------
(*****************************************************************************)
(* The life of a downloaded package file (dnf/base.py, dnf/persistor.py):    *)
(* download_packages puts it into the cache, a transaction installs it, and  *)
(* _finalize_base deletes it or records it in tempfiles.json for the next    *)
(* run.  A session is one dnf process; a shell session finalizes after every *)
(* transaction and goes on.  The download and the rpmdb lock are abstract    *)
(* here (module LockPromise); ProcessLock is the code behind them.           *)
(*****************************************************************************)
CONSTANTS
  Session,      \* dnf processes that may run at the same time
  Pkg,          \* package files
  Worlds,       \* the worlds to look at, see World
  Nobody        \* a lock nobody holds

\* "crash": a process may be killed; "keepcache": the option may be set;
\* "erase": transactions that install nothing may succeed;
\* "clean": `dnf clean packages' may run; "plain": a caller of the API downloads
\* without resolving a transaction.
AllFeatures == {"crash", "keepcache", "erase", "clean", "plain"}

World == [features : SUBSET AllFeatures, sessions : SUBSET Session, pkgs : SUBSET Pkg]

ASSUME WorldAssumption == Worlds \subseteq World
ASSUME NobodyAssumption == Nobody \notin Session

VARIABLES
  world,         \* what may happen, and to whom; no step changes it
  cache,         \* package files that are on disk
  json,          \* names in tempfiles.json
  torn,          \* tempfiles.json is an empty file
  downloadLock, rpmdbLock,  \* the session inside, or Nobody
  pc,            \* where each session is
  keepcache,     \* conf.keepcache
  install,       \* transaction.install_set
  erase,         \* does the transaction remove anything?
  tempfiles,     \* _tempfiles
  transTemp,     \* _trans_tempfiles
  success,       \* _trans_success
  installSet,    \* _trans_install_set
  empty,         \* TempfilePersistor._empty
  todo,          \* files _clean_packages has yet to visit
  data,          \* what TempfilePersistor.save is about to write
  ran            \* history: the session's last transaction was carried out

files == <<cache, json, torn>>
locks == <<downloadLock, rpmdbLock>>
base == <<keepcache, install, erase, tempfiles, transTemp, success, installSet,
          ran>>
persistor == <<empty, todo, data>>
vars == <<world, files, locks, pc, base, persistor>>

Where == {"off", "ready", "resolved", "waiting", "downloading", "downloaded",
          "locked", "tested", "finalize", "sweep", "save", "truncate", "dump",
          "saved"}

Blank(x) == [s \in Session |-> x]

Init ==
  /\ world \in Worlds
  /\ cache = {} /\ json = {} /\ torn = FALSE
  /\ downloadLock = Nobody /\ rpmdbLock = Nobody
  /\ pc = Blank("off")
  /\ keepcache = Blank(FALSE)
  /\ install = Blank({}) /\ erase = Blank(FALSE)
  /\ tempfiles = Blank({}) /\ transTemp = Blank({})
  /\ success = Blank(FALSE) /\ installSet = Blank(FALSE)
  /\ empty = Blank(FALSE) /\ todo = Blank({}) /\ data = Blank({})
  /\ ran = Blank(FALSE)

Goto(s, where) == pc' = [pc EXCEPT ![s] = where]

------------------------------------------------------------------------------
(* A session up to the end of its transaction.                             *)

\* Base.__init__ and the configuration.
Start(s) ==
  /\ s \in world.sessions /\ pc[s] = "off"
  /\ \E k \in IF "keepcache" \in world.features THEN BOOLEAN ELSE {FALSE} :
       keepcache' = [keepcache EXCEPT ![s] = k]
  /\ Goto(s, "ready")
  /\ UNCHANGED <<world, files, locks, install, erase, tempfiles, transTemp, success,
                 installSet, ran, persistor>>

\* download_packages without a transaction: the files are only temporary.
DownloadPlain(s) ==
  /\ "plain" \in world.features
  /\ pc[s] = "ready" /\ downloadLock = Nobody
  /\ \E p \in world.pkgs :
       /\ tempfiles' = [tempfiles EXCEPT ![s] = @ \cup {p}]
       /\ cache' = cache \cup {p}
  /\ UNCHANGED <<world, json, torn, locks, pc, keepcache, install, erase, transTemp,
                 success, installSet, ran, persistor>>

\* Base.resolve: the transaction and the packages it installs.
Resolve(s) ==
  /\ pc[s] = "ready"
  /\ \E i \in SUBSET world.pkgs, e \in BOOLEAN :
       /\ i = {} => "erase" \in world.features
       /\ install' = [install EXCEPT ![s] = i]
       /\ erase' = [erase EXCEPT ![s] = e]
  /\ ran' = [ran EXCEPT ![s] = FALSE]
  /\ Goto(s, "resolved")
  /\ UNCHANGED <<world, files, locks, keepcache, tempfiles, transTemp, success,
                 installSet, persistor>>

\* Every error, refusal and early return on the way ends in _finalize_base: an
\* unresolvable request, a declined prompt, --downloadonly, a bad signature.
GiveUp(s) ==
  /\ pc[s] \in {"ready", "resolved", "waiting", "downloaded"}
  /\ Goto(s, "finalize")
  /\ UNCHANGED <<world, files, locks, base, persistor>>

\* download_packages: the files are noted before the first byte arrives.
AddTempfiles(s) ==
  /\ pc[s] = "resolved" /\ install[s] # {}
  /\ transTemp' = [transTemp EXCEPT ![s] = @ \cup install[s]]
  /\ Goto(s, "waiting")
  /\ UNCHANGED <<world, files, locks, keepcache, install, erase, tempfiles, success,
                 installSet, ran, persistor>>

TakeDownloadLock(s) ==
  /\ pc[s] = "waiting" /\ downloadLock = Nobody
  /\ downloadLock' = s
  /\ Goto(s, "downloading")
  /\ UNCHANGED <<world, files, rpmdbLock, base, persistor>>

\* One payload of _download_payloads arrives.
Download(s) ==
  /\ pc[s] = "downloading"
  /\ \E p \in install[s] \ cache : cache' = cache \cup {p}
  /\ UNCHANGED <<world, json, torn, locks, pc, base, persistor>>

DownloadEnds(s) ==
  /\ pc[s] = "downloading"
  /\ downloadLock' = Nobody
  /\ \/ install[s] \subseteq cache /\ Goto(s, "downloaded")
     \/ install[s] \ cache # {} /\ Goto(s, "finalize")      \* DownloadError
  /\ UNCHANGED <<world, files, rpmdbLock, base, persistor>>

\* do_transaction when only groups, environments or modules change.
EmptyTransaction(s) ==
  /\ pc[s] = "resolved" /\ install[s] = {} /\ ~erase[s]
  /\ success' = [success EXCEPT ![s] = TRUE]
  /\ ran' = [ran EXCEPT ![s] = TRUE]
  /\ Goto(s, "finalize")
  /\ UNCHANGED <<world, files, locks, keepcache, install, erase, tempfiles, transTemp,
                 installSet, persistor>>

TakeRpmdbLock(s) ==
  /\ \/ pc[s] = "downloaded"
     \/ pc[s] = "resolved" /\ install[s] = {} /\ erase[s]
  /\ rpmdbLock = Nobody
  /\ rpmdbLock' = s
  /\ Goto(s, "locked")
  /\ UNCHANGED <<world, files, downloadLock, base, persistor>>

\* _populate_rpm_ts reads the header of every file; check and test pass.
TransactionTest(s) ==
  /\ pc[s] = "locked" /\ install[s] \subseteq cache
  /\ Goto(s, "tested")
  /\ UNCHANGED <<world, files, locks, base, persistor>>

\* Check, test or ts.run refuses, or rpm's TEST flag is set: an exception or
\* an early return leaves the lock.
TransactionRefused(s) ==
  /\ pc[s] \in {"locked", "tested"}
  /\ rpmdbLock' = Nobody
  /\ Goto(s, "finalize")
  /\ UNCHANGED <<world, files, downloadLock, base, persistor>>

\* _run_transaction and _verify_transaction.  Elements that rpm failed to
\* install make no difference to what they leave behind.
RunTransaction(s) ==
  /\ pc[s] = "tested"
  /\ installSet' = [installSet EXCEPT ![s] = install[s] # {}]
  /\ success' = [success EXCEPT ![s] = TRUE]
  /\ ran' = [ran EXCEPT ![s] = TRUE]
  /\ rpmdbLock' = Nobody
  /\ Goto(s, "finalize")
  /\ UNCHANGED <<world, files, downloadLock, keepcache, install, erase, tempfiles,
                 transTemp, persistor>>

------------------------------------------------------------------------------
(* _finalize_base, with a new TempfilePersistor each time.                 *)

FinalizeKeeping(s) ==
  /\ pc[s] = "finalize" /\ keepcache[s]
  /\ empty' = [empty EXCEPT ![s] = FALSE]
  /\ data' = [data EXCEPT ![s] = {}]
  /\ Goto(s, "save")
  /\ UNCHANGED <<world, files, locks, base, todo>>

\* get_saved_tempfiles repairs an empty file; what was recorded joins what
\* this session downloaded.
FinalizeSuccess(s) ==
  /\ pc[s] = "finalize" /\ ~keepcache[s] /\ success[s]
  /\ cache' = cache \ tempfiles[s]
  /\ transTemp' = [transTemp EXCEPT ![s] = @ \cup json]
  /\ torn' = FALSE
  /\ empty' = [empty EXCEPT ![s] = TRUE]
  /\ data' = [data EXCEPT ![s] = {}]
  /\ todo' = [todo EXCEPT ![s] = IF installSet[s] THEN transTemp'[s] ELSE {}]
  /\ Goto(s, "sweep")
  /\ UNCHANGED <<world, json, locks, keepcache, install, erase, tempfiles, success,
                 installSet, ran>>

\* What the session downloaded for its transaction is to be recorded.
FinalizeFailure(s) ==
  /\ pc[s] = "finalize" /\ ~keepcache[s] /\ ~success[s]
  /\ cache' = cache \ tempfiles[s]
  /\ empty' = [empty EXCEPT ![s] = FALSE]
  /\ data' = [data EXCEPT ![s] = transTemp[s]]
  /\ Goto(s, "save")
  /\ UNCHANGED <<world, json, torn, locks, base, todo>>

\* _clean_packages, file by file.
Sweep(s) ==
  /\ pc[s] = "sweep"
  /\ \E f \in todo[s] :
       /\ cache' = cache \ {f}
       /\ todo' = [todo EXCEPT ![s] = @ \ {f}]
  /\ UNCHANGED <<world, json, torn, locks, pc, base, empty, data>>

\* Deviation: the first file that cannot be removed ends the loop.
SweepStops(s) ==
  /\ pc[s] = "sweep"
  /\ Goto(s, "save")
  /\ UNCHANGED <<world, files, locks, base, persistor>>

SweepEnds(s) ==
  /\ pc[s] = "sweep" /\ todo[s] = {}
  /\ Goto(s, "save")
  /\ UNCHANGED <<world, files, locks, base, persistor>>

\* Deviation: the flag is reset to None.
SaveNothingNone(s) ==
  /\ pc[s] = "save" /\ ~empty[s] /\ data[s] = {}
  /\ success' = [success EXCEPT ![s] = Nobody]
  /\ Goto(s, "saved")
  /\ UNCHANGED <<world, files, locks, keepcache, install, erase, tempfiles, transTemp,
                 installSet, ran, persistor>>

\* TempfilePersistor.save has nothing to do.
SaveNothing(s) ==
  /\ pc[s] = "save" /\ ~empty[s] /\ data[s] = {}
  /\ success' = [success EXCEPT ![s] = FALSE]
  /\ Goto(s, "saved")
  /\ UNCHANGED <<world, files, locks, keepcache, install, erase, tempfiles, transTemp,
                 installSet, ran, persistor>>

\* Deviation: the file is overwritten, as RepoPersistor.save does with its own.
SaveOverwrite(s) ==
  /\ pc[s] = "save" /\ (empty[s] \/ data[s] # {})
  /\ Goto(s, "truncate")
  /\ UNCHANGED <<world, files, locks, base, persistor>>

\* save reads the file, unless it is about to empty it.
SaveRead(s) ==
  /\ pc[s] = "save" /\ (empty[s] \/ data[s] # {})
  /\ IF empty[s] THEN UNCHANGED <<torn, data>>
     ELSE /\ data' = [data EXCEPT ![s] = @ \cup json]
          /\ torn' = FALSE
  /\ Goto(s, "truncate")
  /\ UNCHANGED <<world, cache, json, locks, base, empty, todo>>

\* open(json_path, 'w') empties the file ...
SaveTruncate(s) ==
  /\ pc[s] = "truncate"
  /\ json' = {} /\ torn' = TRUE
  /\ Goto(s, "dump")
  /\ UNCHANGED <<world, cache, locks, base, persistor>>

\* Deviation: the success of one transaction is left for the next.
SaveKeepsSuccess(s) ==
  /\ pc[s] = "dump"
  /\ json' = data[s] /\ torn' = FALSE
  /\ Goto(s, "saved")
  /\ UNCHANGED <<world, cache, locks, base, persistor>>

\* ... and json.dump fills it; then the rest of _finalize_base.
SaveDump(s) ==
  /\ pc[s] = "dump"
  /\ json' = data[s] /\ torn' = FALSE
  /\ success' = [success EXCEPT ![s] = FALSE]
  /\ Goto(s, "saved")
  /\ UNCHANGED <<world, cache, locks, keepcache, install, erase, tempfiles, transTemp,
                 installSet, ran, persistor>>

------------------------------------------------------------------------------
(* The environment.                                                        *)

Forget(s) ==
  /\ keepcache' = [keepcache EXCEPT ![s] = FALSE]
  /\ install' = [install EXCEPT ![s] = {}] /\ erase' = [erase EXCEPT ![s] = FALSE]
  /\ tempfiles' = [tempfiles EXCEPT ![s] = {}]
  /\ transTemp' = [transTemp EXCEPT ![s] = {}]
  /\ success' = [success EXCEPT ![s] = FALSE]
  /\ installSet' = [installSet EXCEPT ![s] = FALSE]
  /\ empty' = [empty EXCEPT ![s] = FALSE]
  /\ todo' = [todo EXCEPT ![s] = {}] /\ data' = [data EXCEPT ![s] = {}]
  /\ ran' = [ran EXCEPT ![s] = FALSE]
  /\ Goto(s, "off")

Release(lock, s) == IF lock = s THEN Nobody ELSE lock

\* The shell goes on to its next transaction (ShellCommand._clean) ...
Continue(s) ==
  /\ pc[s] = "saved"
  /\ install' = [install EXCEPT ![s] = {}] /\ erase' = [erase EXCEPT ![s] = FALSE]
  /\ Goto(s, "ready")
  /\ UNCHANGED <<world, files, locks, keepcache, tempfiles, transTemp, success,
                 installSet, ran, persistor>>

\* ... or the process is done.
Exit(s) ==
  /\ pc[s] = "saved"
  /\ Forget(s)
  /\ UNCHANGED <<world, files, locks>>

\* SIGKILL or power loss; the next contender takes the locks over.
Crash(s) ==
  /\ "crash" \in world.features
  /\ pc[s] # "off"
  /\ Forget(s)
  /\ downloadLock' = Release(downloadLock, s)
  /\ rpmdbLock' = Release(rpmdbLock, s)
  /\ UNCHANGED <<world, files>>

\* Deviation: only the lock of the downloads is taken.
CleanWithoutRpmdbLock ==
  /\ "clean" \in world.features
  /\ downloadLock = Nobody
  /\ cache' = {}
  /\ UNCHANGED <<world, json, torn, locks, pc, base, persistor>>

\* `dnf clean packages' works inside the three locks.
CleanPackages ==
  /\ "clean" \in world.features
  /\ downloadLock = Nobody /\ rpmdbLock = Nobody
  /\ cache' = {}
  /\ UNCHANGED <<world, json, torn, locks, pc, base, persistor>>

Transact(s) ==
  \/ Start(s) \/ DownloadPlain(s) \/ Resolve(s) \/ GiveUp(s)
  \/ AddTempfiles(s) \/ TakeDownloadLock(s) \/ Download(s) \/ DownloadEnds(s)
  \/ EmptyTransaction(s) \/ TakeRpmdbLock(s) \/ TransactionTest(s)
  \/ TransactionRefused(s) \/ RunTransaction(s)

Finalize(s) ==
  \/ FinalizeKeeping(s) \/ FinalizeSuccess(s) \/ FinalizeFailure(s)
  \/ Sweep(s) \/ SweepEnds(s)
  \/ SaveNothing(s) \/ SaveRead(s) \/ SaveTruncate(s) \/ SaveDump(s)

Next ==
  \/ \E s \in Session : Transact(s) \/ Finalize(s) \/ Continue(s) \/ Exit(s) \/ Crash(s)
  \/ CleanPackages

Spec == Init /\ [][Next]_vars

------------------------------------------------------------------------------
\* Every variable has the type the code gives it.
TypeOK ==
  /\ world \in World
  /\ cache \subseteq Pkg /\ json \subseteq Pkg /\ torn \in BOOLEAN
  /\ downloadLock \in Session \cup {Nobody}
  /\ rpmdbLock \in Session \cup {Nobody}
  /\ pc \in [Session -> Where]
  /\ {keepcache, erase, success, installSet, empty, ran}
       \subseteq [Session -> BOOLEAN]
  /\ {install, tempfiles, transTemp, todo, data} \subseteq [Session -> SUBSET Pkg]

\* What tempfiles.json says, or is about to say when a save is half done.
Recorded == json \cup UNION {data[s] : s \in {t \in Session : pc[t] = "dump"}}

\* Sessions that end at the same time may overwrite each other's records, as
\* nothing locks tempfiles.json (persistor.py:133); one session alone may not.
Alone == \A s, t \in world.sessions : s = t

\* "Packages are removed after the next successful transaction"
\* (doc/command_ref.rst:199).  What the code does: while its file is there a record
\* is dropped only by a transaction that succeeded and installed nothing
\* (base.py:516-521), or by a kill between the two halves of TempfilePersistor.save,
\* when tempfiles.json is empty (persistor.py:63); no other kill, and no other
\* order of the deletions and the emptying of the file, loses one.
ForgottenOnlyWithoutInstall ==
  [][\A f \in Recorded \ Recorded' :
       Alone /\ f \in cache' =>
         \E s \in Session :
           \/ pc[s] = "truncate" /\ empty[s] /\ ~installSet[s]
           \/ pc[s] = "dump" /\ pc'[s] = "off"]_vars

\* A file in the cache is accounted for if it is recorded, or if a running
\* session still has it in its lists.
AccountedFor(f) ==
  \/ f \in Recorded
  \/ \E s \in Session : f \in tempfiles[s] \cup transTemp[s]

\* No file is left in the cache that nobody will ever delete (base.py:510-524,
\* persistor.py:126-136), but by a session that is killed, keeps its cache, or
\* ends after a transaction that installed nothing: the lists of a session and
\* the file of records hand it over to each other.
OrphanOnlyWithReason ==
  [][\A f \in cache' :
       Alone /\ AccountedFor(f) /\ ~AccountedFor(f)' =>
         \E s \in Session :
           /\ pc[s] # "off" /\ pc'[s] = "off"
           /\ pc[s] = "saved" => keepcache[s] \/ (empty[s] /\ ~installSet[s])]_vars

\* A cached package outlives every transaction that was not carried out: only
\* a session that has run its transaction deletes (and `clean', and a session
\* the files it downloaded without one).  The flag base.py:516 looks at is
\* never left over from an earlier transaction of the same shell (base.py:537).
Deletes(s, f) ==
  \/ pc[s] = "finalize" /\ f \in tempfiles[s]
  \/ pc[s] = "sweep" /\ ran[s]
CleanRuns == cache' = {} /\ pc' = pc /\ todo' = todo
DeletedOnlyAfterRun ==
  [][\A f \in cache \ cache' : CleanRuns \/ \E s \in Session : Deletes(s, f)]_vars

\* Between the read of the package headers and the end of ts.run a package
\* file is lost only to the _finalize_base of another session, which takes no
\* lock (base.py:510-521); `dnf clean' cannot take it away (base.py:988-1048,
\* clean.py:99).
FilesGo(s) == install[s] \subseteq cache /\ ~(install[s] \subseteq cache')
TestedFilesKept ==
  [][\A s \in Session :
       pc[s] = "tested" /\ pc'[s] = "tested" /\ FilesGo(s) =>
         \E t \in Session \ {s} :
           \/ pc[t] = "finalize" /\ pc'[t] # "finalize"
           \/ todo'[t] # todo[t]]_vars
==============================================================================
