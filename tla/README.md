# A TLA+ model of dnf

dnf is mostly a sequential program: it reads options, loads metadata, has
libsolv decide on a goal, downloads packages and has rpm install them. What is
hard to test in it is what lies between its steps, its runs and its processes:
pid-file locks, JSON files that one run writes for the next, a history database
that must agree with the rpm database, child processes that end in any order,
and requests of one transaction that change the answers the next ones get.
Everything here is translated from the code in `src/dnf`; paths below are
relative to `src/`, and those without a directory to `src/dnf`.

Contents: [inventory](#inventory), [modules](#modules),
[runs](#runs-and-what-they-show), [bounds](#bounds), [fairness](#fairness),
[proofs](#proofs), [differences from the documentation](#differences-from-the-documentation),
[not modelled](#what-is-not-modelled), [plan](#plan).

## Inventory

| component | state | operations | what makes it correct | module |
|---|---|---|---|---|
| process lock (`lock.py`) | pid file; per process an RLock and a count; descriptors and their flock | `__enter__`, `_try_lock`, `__exit__`, process death | one process inside; the file names it; dead owners do not lock others out; nesting and threads | `ProcessLock` |
| package download (`base.py` `_download_remote_payloads`, `repo.py` `_download_payloads`, `drpm.py`) | targets, queue of deltas, rebuild jobs, two kinds of errors, retries | transfers, `enqueue`, `job_done`, `wait`, the retry loop | no error means complete; nothing is left in the queue; bounded jobs and retries; it ends | `PackageDownload` |
| package cache (`base.py` `_finalize_base`, `persistor.py` `TempfilePersistor`) | files, `tempfiles.json`, the lists and flags of a session | download, transaction, finalize, save, next transaction of a shell, clean | nothing is deleted without a transaction; nothing is forgotten; files in use stay | `PackageCache` |
| metadata expiry (`persistor.py` `RepoPersistor`, `base.py`, `repo.py`, `cli/cli.py`, `cli/commands/clean.py`) | `expired_repos.json`, `last_makecache`, expired and loaded flags per run | a run's beginning, load, makecache and its timer, clean, failed packages, save | what was told to be expired is revalidated before use; no mark without a cause | `RepoExpiry` |
| transaction run and history (`base.py` `do_transaction`, `_run_transaction`; `util.py`; `db/history.py`) | rpm database and its cookie, history records, module states, rpmdb lock | check, test, save of module states, `beg`, elements, `end`, the path without packages | records tell the truth after failures and kills; no stale plan is run | `TransactionRun` |
| solving and the shell (`base.py` marking, `resolve`, `_goal2transaction`; `goal.py`; `db/group.py` `RPMTransaction`; `cli/commands`) | the goal, the Base's transaction, pending items, demands and settings of the session | marking commands, resolve, reset, run, mark | what is run is what was asked for; reasons survive | `ShellSession` |
| groups (`comps.py`, `db/group.py`) | installed groups and environments, pending items, package bunches | install, remove, upgrade, mark | groups know which of their packages are there; nothing is both installed and removed | `CompsGroups` |
| replay, undo, rollback (`transaction_sr.py`, `cli/commands/history.py`, `db/history.py`) | a stored or merged transaction | store, replay with its checks, merge, revert | rollback is the inverse; a replay does what was stored | `HistoryReplay` |
| modules (`module/module_base.py`, `cli/commands/module.py`) | stream states and profiles as asked for and as stored | enable, disable, reset, install, switch-to, remove, upgrade | packages of profiles that stay are not taken away | `ModuleStreams` |
| keys (`base.py` `_sig_check_pkg`, `_get_key_for_package`; `crypto.py`, `dnssec.py`, `gpgsigcheck`) | rpm's keyring, repositories whose keys were tried, DNS answers | check, import, verify | only verified packages are run | `KeyImport` |
| dnf-automatic (`automatic`) | configuration, collected messages, exit status | one run, emitters, reboot | what is told is what happened | `AutomaticRun` |
| aliases (`cli/aliases.py`) | alias files | alias command, expansion | it ends, with the documented words | `CommandAliases` |
| configuration and plugins (`cli/cli.py` `configure`, `conf/config.py`, `conf/read.py`, `plugin.py`) | options and their priorities, repositories, loaded plugins | the steps of `Cli.configure` | what was typed is in force | `Configuration` |
| command line (`cli/main.py`, `cli/cli.py`) | demands, the command, exit status | configure, run, resolve, transaction | the exit status is true on every path | `CliRun` |
| lists (`cli/cli.py` `output_packages`, `check_updates`; `base.py` `_list_pattern`) | none | list, check-update | the same versions by every way | `PackageLists` |
| rpm callbacks (`yum/rpmtrans.py`) | current element, cache of items, counters | callback by kind | each is reported for its item | `RpmCallbacks` |
| clean command, log rotation (`cli/commands/clean.py`, `logging.py`) | three locks; the lock of the rotation | take all three without blocking, retry; rotate on emit | no deadlock with transactions; log calls end | in part |
| queries, transaction set, helpers, formatting | none | wrappers, names, pure functions | - | none |

How they interact: `main` configures (`Configuration`), runs a command that
marks requests (`ShellSession`, `CompsGroups`, `ModuleStreams`,
`HistoryReplay`), resolves, and calls `BaseCli.do_transaction` (`CliRun`). That
downloads under the download lock (`PackageDownload`), checks signatures
(`KeyImport`), then runs the transaction under the rpmdb lock
(`TransactionRun`) while rpm calls back (`RpmCallbacks`). `Base.close` or the
shell finalizes: it deletes or records packages (`PackageCache`) and saves marks
(`RepoExpiry`), *outside* all locks. `fill_sack` and `makecache` load metadata
inside the metadata lock; `clean` takes all three (`ProcessLock` is each of them).
Packages that cannot be downloaded expire their repository, which is where the
download meets the marks. Processes meet in the lock files, the cache directory
with its two JSON files, the rpm database and the history database.

The hard behaviours are listed one by one, at their lines, under "hazards" in
`PROJECT.json`, with the properties that would catch them going wrong.

## Modules

**`LockPromise`** is what the callers of `with lock:` rely on: at most one
process inside. It is the abstract specification of **`ProcessLock`**, which
models `dnf/lock.py` system call by system call: `OpenExisting`/`OpenNew` are
`os.open(O_CREAT)`, then come `Flock`, `Read` with its five outcomes, `Truncate`,
`Write` and `Close`; the close is one step with what `__enter__` makes of the
result, because the `finally` clause runs first and nothing shared is touched
between the two. Files are inodes: the path names one of them (`target`), and an
unlinked one lives on in the descriptors that refer to it. `ExitInner` and
`ExitOuter` are `__exit__`; the second unlinks whatever the path names, and if
that is nothing its `FileNotFoundError` leaves RLock and count taken. `Terminate`
stands for every death of a process, `Start` for a new one with the same pid.

**`PackageDownload`** models one call of `_download_remote_payloads`. A
package is one payload, whole or delta. librepo is external: a target is fetched
(`TransferPackage`, `TransferDelta` with its call of `DeltaInfo.enqueue`) or
fails for good (`TransferFails`, with fail_fast). Children of `applydeltarpm` end
in any order and any way (`ChildExits`). `JobDone` and `StartJobs` are operators
used where the code calls `job_done` and `start_job`; `phase` is the program
counter.

**`PackageCache`** follows package files through sessions. A session is
one process with its `Base`; `pc` is its place in
`do_transaction`/`_finalize_base`. The rewriting of `tempfiles.json` is three
steps, read, truncate, dump; the deletions are one step per file. The two locks
are the abstract ones, a variable that names the holder; `ProcessLock` is what is
behind them.

**`RepoExpiry`** follows the mark of a repository from `expired_repos.json`
through `Begin` (`_configure_repos`, `_process_demands`), the loading of
repositories one by one, and `Close` (`_store_persistent_data` and
`RepoPersistor.save`, which writes the whole file anew). A process is a record.
`due` and `owed` are history variables: what was told to be expired and has not
been revalidated since. `libdnf` is external: `Usable` says when it serves the
cache as it is. `Age` and `PeriodElapses` are the two clocks.

**`TransactionRun`** models `do_transaction` from the lock to the end: check
and test, module states, `history.beg`, the elements one by one, and the ways
out: success, failed elements (`HistoryEnd`), a list of problems
(`RpmProblems`), none (`RpmGlobalError`), an exception from the test, a kill. The
path for transactions without packages (`EmptyStores`, `EmptyBeg`, `EmptyEnd`)
works without the lock, as in the code. The rpm database is a set of packages
with a cookie that each change increases. `done` in a record, and `outside`, are
history variables. `modules` only says who stored the states last.

**`CompsGroups`** has the records of groups and environments in the history
(`db`), their persistors (`session`: installed, removed, upgraded) and the
`TransactionBunch` of the transaction. `Ask` is one request to `group install`,
`remove`, `upgrade` or `mark`, which goes through every `Solver` method that it
calls and may raise half way; `Resolve` is `_finalize_comps_trans` with the second
look at `is_removable_pkg` and the solver's weak jobs, `Run` stores the records
and the reasons, `Publish` changes the comps files, `OtherRequest` is a
transaction of another command between two of these.

**`ModuleStreams`** keeps the container's table (`table`), what is on disk
(`stored`) and the reasons of packages. `Command` is one of the eight commands
with one argument, as `module_base.py` carries it out, with `strict` or without,
including what it leaves marked when it raises; packages may belong to several
modules. `Run` has the check of switched streams in
`BaseCli.do_transaction`, the solver's dependencies between streams and the
saving of states; `RunUnresolved` is a transaction whose packages enable a
stream. The container itself, libdnf's, is modelled from its use.

**`ShellSession`** holds what a `Base` is asked for: jobs of the goal, settings that
commands leave behind, and the items that will be recorded (`session`). Obsoletes
belong to a version of a package: a later one may obsolete what an earlier one leaves
alone. Each marking command is an operator from session to session (`InstallCommand`,
`RepoRemoveOrDistroSync` ...), `Command` applies one. `Solutions` and `Cheapest` stand
for libsolv: all requests fulfilled, nothing removed that may not be, as few changes
as possible. `Resolved` is `_goal2transaction` with `RPMTransaction`, `NewReason` the
inheritance of reasons. `Run` is the shell's `transaction run`, which resolves first.
A dnf with one command is a session with one command.

**`HistoryReplay`** has a history whose transactions are sets of items, as
`serialize_transaction` and `MergedTransactionWrapper` see them. `Ordinary*` are
transactions of other commands, `Outside` a change by rpm, `Publish` of the
repositories. `Store`, `Undo`, `Redo`, `Rollback` and `Replay` share `Replayed`:
every item is replayed by `ReplayPkgAction` with its warnings and errors, the
goal is solved, and what it does is compared with what was stored. A group has no
versions: what the persistors record of one that is upgraded or downgraded, either
way, is that it stays (`PersistorAction`). The solver adds
what is missing (`Pulled`), of which nothing that it was asked to erase: a goal
with both has no solution. `was` and `why` in a log entry, and `did`, are history
variables.

**`KeyImport`** checks the packages of a transaction one by one (`Check`):
`CheckSig` is rpm's answer, `GetKeyForPackage` the loop over the key files of the
repository with the questions, the DNS and the early failures.
`GpgSigCheckEnds` decides on the transaction. **`AutomaticRun`** is `main` of
dnf-automatic step by step; each call of the Base may raise or do part of its
work, each emitter may fail. **`CliRun`** does the same for `main` of dnf: each
step ends in one of the exceptions `main` tells apart, and what is on disk by then
is in `done`, `failed` and `stored`.

**`CommandAliases`** is the resolution of a command line with its stack and
prefix (`Subresolve`) and the `alias` command that changes the files between two
of them. **`Configuration`** takes the steps of `Cli.configure` in their order: every
assignment goes through `SetValue` with its priority. Repositories come from the
`dnf.conf` that is read and then from the repository files. Plugins are called
twice (`Caller`), before the repositories are read (`PreConfigurePlugins`) and after
(`ConfigurePlugins`). **`PackageLists`** computes
what `list` and `check-update` show by the code's ways; a package is a name, a
version and a repository, and of the repositories that carry the latest version
`list available` takes one (`FirstOfName`). **`RpmCallbacks`** has rpm
call back in any order it may, and `report` compares what is reported with what it
is about.

**`Requests`** (groups, modules, the shell) and **`Surroundings`** (metadata,
history, keys, dnf-automatic, aliases, configuration, command line, lists,
callbacks) are sums of components that keep no state in common: a behaviour is one
of these, its `topic`. The components are taken with `INSTANCE ... WITH` and share
the variables `v1`, `v2` ...; every property says `topic = ... =>` and names the
component's. The constants are those of the components, renamed where two have
the same name (`Member`, `Alias`, `SignedPkg` ...). TLC counts the steps of a sum by
topic; with a `.cfg` whose `Topics` is one component every action of it is
counted, and taken.

`MC*` modules and their `.cfg` files give the constants values; `*Proofs` modules
have the theorems about the module they are named after.

Some modules have a constant of worlds (`Worlds`, `Considered`, `Asked`): what
the environment and the user may do in a behaviour, chosen in the beginning
(`world`). A world enables actions or inputs and changes none. Operators marked
"Defect" or "Deviation" are wrong variants of the definition after them; no
specification uses them. Each property has one it does not survive, so each
property depends on a piece of the code that could be wrong.

## Runs and what they show

| run | properties | states |
|---|---|---|
| `lock_safe` | `MutualExclusion`, `HolderIsNamed`, `KeepsPromise` | 63 000 |
| `lock_threads` | `SiblingExclusion`, `NoStrayLock`, `TakenOnlyFromDead`, `Progress` | 14 000 |
| `lock_late_opener` | `MutualExclusion`, violated | |
| `download` | `QueueIsServed`, `DownloadComplete`, `RetriedAtMostOnce`, `Terminates` | 35 000 |
| `cache` | `TypeOK`, `ForgottenOnlyWithoutInstall`, `OrphanOnlyWithReason`, `DeletedOnlyAfterRun`, `TestedFilesKept` | 860 000 |
| `tx` | `TypeOK`, `DoneUnlessProblems`, `PlanStillApplies`, `VersionIsAccountedFor`, `BlameIsTrue` | 1 100 000 |
| `tx_problems` | `DoneMeansDone`, violated | |
| `requests` | `TypeOK`; groups: `NoMarkOfWhatIsGone`, `BothOnlyIfUnverified`; modules: `LostOnlyToAll`; shell: `RunsWhatWasAsked`, `UserStaysUser` | 230 000 |
| `shell_resolution` | `RunsTheResolution`, violated | |
| `surroundings` | `TypeOK`; metadata: `RevalidatedUnlessIdle`, `MarksAreExact`; history: `RollbackRestores`, `ReplayIsExact`; keys: `RunsOnlyVerified`; dnf-automatic: `ToldWhatHappened`; aliases: `ResolvesAsDocumented`; configuration: `SettingsAsAsked`; command line: `ExitIsHonest`; lists: `ColoursKeepVersions`; callbacks: `ReportsAreTrue` | 284 000 |
| `expiry_idle` | `RevalidatedWhenUsed`, violated | |
| `exit_unrecorded` | `ZeroMeansDone`, violated | |

*Lock.* The lock excludes, and is an implementation of `LockPromise`, under one
condition on the environment, the constant `LateOpenerDeath = FALSE`: no process
ends while another still has open a pid file that names it and that it has
already unlinked. The condition is real. `lock_late_opener` drops it: A opens
the file, its owner B leaves the block (unlink) and ends, A reads a pid that is
dead and takes over an inode no path leads to, while C creates a new file. Both
are inside. The window is the few system calls between A's `open` and `read`;
comparing `os.fstat(fd)` with `os.stat(target)` after the flock would close it.
What needs no condition is proved (`SiblingExclusion`, see below).
`TakenOnlyFromDead` says that the three system calls from the check of `/proc` to
the write do not act on a stale answer, as long as pids are not given out again.
`NoStrayLock` holds with a malformed file, too, which locks everybody out. After
the `LockError` for it the count stays one too high (the exception passes by
`_unlock_thread`); a process that locks again after the file was removed by hand,
as the message asks, would never unlink. That removal is not modelled, and no
property is about it.

*Download.* `DeltaInfo.wait` waits for jobs and never looks whether the queue is
empty; `QueueIsServed` shows that it need not, as a delta is queued only while all
processors are at work. `RetriedAtMostOnce` and `Terminates`: what is retried is
downloaded whole, and each round collects its errors anew, so it cannot fail
recoverably again. With `retries=0` nothing else ends the loop, and in half of the
behaviours `retries` is 0 (`RetryLimits`).

*Package cache.* With one session at a time, records are lost only by
transactions that install nothing, and files are orphaned only by these, by
kills and by `keepcache`. Two sessions lose each other's records, see below. A kill
between the deletion of packages and the emptying of the list loses none. One
inside `TempfilePersistor.save`, between `open(..., 'w')` and `json.dump`, loses all
of them, and that is the only one (the second exception in
`ForgottenOnlyWithoutInstall`).
`DeletedOnlyAfterRun` is the promise that a shell whose next transaction is
refused keeps its packages. `TestedFilesKept` says exactly how a file may go
between rpm's test and its installation: by the `_finalize_base` of another
session, which deletes outside the locks; not by `dnf clean`, which holds them.

*Transaction.* `PlanStillApplies` depends on rpm's check and test inside the
lock: the transaction was resolved before it was taken. `VersionIsAccountedFor`
and `BlameIsTrue` relate the history to the rpm database; they need `end` to
record the cookie after the transaction, also when elements have failed.
`DoneUnlessProblems` is `DoneMeansDone` with the one exception `tx_problems` shows.

*Groups.* Two groups share a package and are installed, removed, upgraded and
marked in any order, twice in a transaction, with comps that change.
`NoMarkOfWhatIsGone`: when a package goes, every group that stays or comes agrees
that it is not there any more, although what `is_removable_pkg` answers changes from
request to request; a group that is upgraded in the same transaction is the
exception. `BothOnlyIfUnverified`:
`TransactionBunch.__iadd__` subtracts sets whose members are libcomps objects or
`CompsTransPkg`s, which are equal only to their own kind and compare requirements and
flags besides names (`own`, `Alike`), so it does not always do what it seems to. That
a package is not both installed and removed is owed to the second look at
`is_removable_pkg`, and fails for groups whose record was made without a transaction of
packages, and for groups upgraded to have a package of a removed group.

*Modules.* `LostOnlyToAll` names the ways in which a package of a profile that stays
is removed: `remove --all`, a request without `strict`, a profile a shell was refused,
and a switch-to that leaves the stream of the profile with a dependency that is not
met. In the instance two modules share a package, and one depends on a stream of
the other. The check of switched streams (`cli.py:169`) has no property: it is one
comparison before anything is stored, which a property could only repeat.

*Shell.* `RunsWhatWasAsked`: what was resolved and then given up, by `reset`, an
answer or an error, has no part in a later transaction; a `run` that is the first to
resolve leaves a solution of the requests since then. `UserStaysUser`: a package the
user asked for, or what replaces it, keeps that reason, with one exception the code
makes: the update of something already installed that newly obsoletes the package.
`shell_resolution`: when a request is resolved and another one makes the whole
unresolvable, `run` prints the problems, carries out the transaction of the resolution
before, and says "Complete!".

*History.* `RollbackRestores` is about undo and rollback on a system whose
repositories have changed: one that does not warn restores versions and groups. In the
run a rollback goes back over one or two transactions (a log has at most four, two of
them ordinary), of which the second may be a replay, an undo or a rollback itself; its
mutant, which forgets all but the last, is only noticed by a merge of two. When the
repositories have changed, or others have used rpm, the run has merges of one; these
and longer merges are covered by the proof (`RollsBack`). `ReplayIsExact`: without options a
replay does what was stored or fails.

*Metadata.* When repositories are not left out, no mark is lost and what is marked is
revalidated, through lazy and cache-only runs, clean, failed packages, an
unreadable file and kills; but for the last two no mark is left over either.
`expiry_idle` shows what happens otherwise: `clean expire-cache` writes the
marks, a run that needs no repository reads them and writes none, and the next
serves the repository from its cache; with a repository that is disabled for one run
it is the same.

*The others.* `RunsOnlyVerified`: however often keys are asked for, refused or
fail to help, a transaction is run only if every signature is by a key rpm has.
`ToldWhatHappened`: of the emitters' messages the last is true unless a failure
after it is not to be sent (`send_error_messages`). `ResolvesAsDocumented` compares
the recursion with the documented rewriting, also where both do not end.
`SettingsAsAsked`: options are applied three times, before and after files and
plugins are read, and come out as typed. `ExitIsHonest` needs the history;
`exit_unrecorded` shows what happens without. `ColoursKeepVersions`: for colours the
lists go another way through `_list_pattern`; what is shown is the same but for lines
of further repositories that carry the same version with the same priority, and with
`--showduplicates` it is the same throughout. `ReportsAreTrue` holds for
reinstallations, where two elements have one name, and for erased packages, for
which rpm passes no key.

`CHECK_DEADLOCK FALSE` is set where the model really stops: a download that is
over; a history, a cookie or a number of commands at its bound; a command that has
ended; pid files when no process may start again (`PidReuse = FALSE`). The other
runs (`lock_safe`, `cache`) check for deadlock.

## Bounds

- `lock_safe`: three processes, one thread each, three inodes (one per process
  that may hold a descriptor; a fourth could not be told from them), nesting up to
  `MaxCount` = 2, one blocking process and two that give up, first files that are
  absent, empty, malformed, or name a live or a dead process. Three
  processes are what the late opener needs. `lock_threads`: two threads of one
  process and a second process that waits; a first file is absent, empty or malformed.
- `download`: four packages and two processors, so that jobs run, wait in the
  queue and come back at once; `RetryLimits` = {0, 3}: a loop without a bound of its
  own, and one with more retries than are ever used.
- `cache`: two worlds. One session and two packages, so that a recorded and a new
  one differ; two sessions and one package, which is what they fight for.
- `tx`: two worlds. Two processes, two packages, two records (`records`) and three
  versions, so that the second transaction meets what the first left; one process,
  one package, three records and four versions, with rpm used by others. The
  guards are in `Resolve` (and `Outside`); a transaction that has begun is never
  cut short.
- groups: two packages, of which one is `Alike`, two groups that share one, an
  environment, two comps, two requests (`MaxRequests`) in each of two transactions
  (`MaxRuns`): what a request leaves behind meets another, and a record meets a
  transaction after it.
- modules: a module with two streams that share a profile's packages, a module that
  depends on one of them and shares a package with it, with and without a fail-safe
  stream and `strict`; two commands in each
  of two transactions.
- shell: three names, two in conflict; a later version of one obsoletes another name
  that may be installed, which its earlier version does not; two versions in two
  repositories; two commands and two transactions.
- history: two ordinary transactions (`MaxOrdinary`), one stored file or change from
  outside (`MaxOther`), and up to four transactions, or three and one of these
  (`MaxLog`), so that a rollback merges two and a replay follows a change; three names
  with a dependency and an obsoletion: pairs that cancel out, and one that does not.
- metadata: one process, two repositories, so that one can be loaded and the other
  not; two worlds, with and without runs that leave one out (`expiry_idle` has one
  in which all runs write their marks, `MCIdleWorlds`). keys: three packages,
  two key ids and two editions of one, two commands. dnf-automatic: two updates,
  which may succeed apart, three lists of emitters. aliases: two names, an option, an
  escaped word; two changes; lines of up to three words; the documented rule is
  followed for twelve steps (`MaxSteps`), more than any line takes that ends.
  configuration: command lines that contradict files, plugins and themselves, files
  with and without repositories in `dnf.conf`, plugins that act or fail in one
  hook or the other. command line: one package to install and one to erase, settings
  restricted by `Considered`. lists: two names, three versions, two repositories.
  callbacks: four transactions in every order of their elements.

Symmetry is used for inodes, packages and processes that the configuration does
not tell apart, and in no run with a liveness property.

## Fairness

- `ProcessLock!Fairness`: weak fairness of every thread's next step in
  `__enter__`. The operating system schedules runnable threads and `time.sleep(1)`
  ends. Nothing says that the body of a block ends or that a process dies, so
  `Progress` promises only that whoever tries gets in, or sees another one in, or
  gives up.
- `PackageDownload!Fairness`: dnf and librepo go on (timeouts of librepo bound a
  transfer), and each child ends. Both are needed: `os.wait` blocks.

No other liveness is claimed: the other components are sequences of steps that a
user may stop at any time.

## Proofs

Eight modules, named after what they are about. The theorems hold for every value
of the constants, that is for any number of processes, packages, repositories,
groups, module streams and keys and for all bounds. Where a theorem needs a
condition on the environment it is part of its statement (`ASSUME`), and the run
that checks the same property fulfils it. Such a condition is needed: without any
one of them TLC finds a counterexample. What the constants are, whatever the
environment does, is said by named assumptions of the modules that declare them,
which TLC evaluates for every run:

- `CompsAssumption`, `ShellAssumption`, `HistoryAssumption`: comps files, repositories
  and first systems are of the types the code has (packages, known groups); a first
  system has one version of each package and is consistent, as rpm leaves it.
- `ModulesAssumption`: what modules are. A profile lists packages of its stream, and no
  stream requires one of its own module. Packages may belong to any number of modules.
- `ListsAssumption`: versions can be compared, systems are finite.
- `RpmAssumption`: transactions are finite, what is erased is erased once and not
  installed as well, unless it is reinstalled (`goal.py` and rpm see to that).

The others (`PidAssumption` ...) say that something exists, is finite or differs.

**Lock.** Assumptions: those of the module (pids and null values differ, bounds
are numbers). `TypeCorrect` and `SiblingsExcluded` need no more. Their invariant
is `ObjectInv`: a thread inside `__enter__` or a block owns the RLock of its
process (`OwnerInv`), and `count` covers its blocks and a pending entry
(`CountInv`). Without the second, the RLock could be given back under a block.
`Exclusion`, `HolderNamed` and `Implements` also assume `~LateOpenerDeath`. For
them `MutualExclusion` is not inductive: a step may let a thread in whose `ret` is
its own pid, and only what happened at `Read` and `Write` says that this is
alright. `FileInv` carries it there: descriptors and flocks are held in the right
places and a flock is unique per inode (`DescriptorInv`, `FlockInv`); a thread
about to return its pid still has the file the path names, flocked, with its pid
in it (`WinnerInv`); one that is about to overwrite a file works on the file the
path names while nobody is inside (`WriterInv`); an unlinked file that is open
names a running process that is not its reader (`OrphanInv`, where the
assumption comes in). The holder is then unique because the one content of
`target` names it (`SoleOwner`, `SoleHolder`). `Implements` maps `inside` to the
processes with a thread in a block and shows each step to be `Acquire`, `Leave`
or a stutter.

`TakenFromDead` assumes that pids are not reused, and nothing about late openers:
also when the exclusion is lost, a pid in a lock file is overwritten only when its
owner is dead. The invariant (`TakeoverInv`) says that what a thread has read stays
in the file until it writes, because it has the flock, and that the dead stay
dead. `NeverStray` (`NoStrayLock`) assumes both and that a pid file left by an
earlier boot names nobody (`CleanBoot`): the death of a late opener lets a second
holder in, whose `__exit__` may find nothing to unlink and leaves `count` taken, and
then a later one does not unlink. With `CleanBoot` the count is exact (`CountExact`),
so that the outermost block is left with `count` 1, and whoever the path names is
inside or has decided to go in (`NamedInv`); or the file is malformed and stays
(`Blocked`), because what a thread overwrites is a pid or empty.

**Download.** Assumption: finitely many packages, at least one processor. The
invariant joins `TypeOK` with: a queue is not empty only while there are jobs
(`QueueInv`), what each phase may assume (`PhaseInv`), every package is good, in
the queue, a job, yet to be transferred, or in error (`AccountInv`), and in a
second round there are no deltas (`SecondRoundInv`). `Complete`, `QueueEmptied`,
`RetriedOnce` and `TypeCorrect` follow. The lemma `StartJobsKeeps` is what the
loop of `enqueue` preserves. `Served` adds the processors: a delta is queued once,
is not queued while a job works on it, and is neither while it is to be
transferred (`QueueDistinct`), so that starting n deltas makes n more jobs
(`FirstAreMany`, `StartJobsBusy`); then no processor is idle while a delta waits.

**Transaction.** `IInv` joins the types with: a process knows its plan and what is
left of it (`PlanInv`); the open transaction of a process is its own and records
what rpm has done so far (`TidInv`), which is why `HistoryEnd` may call it done
(`DoneIsTrue`); up to the first element the database has the cookie the transaction
began with (`BegunInv`, for the refusals); what was checked inside the lock stays
true inside the lock (`AppliesInv`, hence `NoStalePlan`). `Accounted` needs
`AccountInv`, which only counts open transactions that have packages: the others
change nothing and may not serve as an excuse. `BlameTrue` has a condition: in
worlds without kills and global errors one process runs at a time. With two, a
transaction without packages, which takes no lock, may end with a cookie that is
not current, and the next run reports a change from outside. `LastInv` is its
invariant: the history ends with the cookie there is, unless a transaction is open.
`TypeCorrect` includes who has the lock. The module has a lemma for each action,
and lemmas on the history as a sequence (`HistoryOpens`, `HistoryChanges`,
`HistoryCloses`).

**Package cache.** `DeletesAfterRun` and `TestedStay` are action properties for any
number of sessions; they need that `_trans_success` does not outlive
`_finalize_base` (`RanInv`) and that rpm runs inside the lock (`LockInv`).
`ForgetsWithoutInstall` and `OrphansWithReason` are about a session alone, as the
properties are, and need to know at each step of `_finalize_base` what the lists,
`tempfiles.json` and the cache hold (`SweptInv`, `SavedInv`). Neither has a condition
on kills.

**Composition.** `TransactionRun` and `PackageCache` use locks that are variables
which name a holder. `LockKeepsPromise` and `LocksKeepPromise` prove each of them
to implement `LockPromise`, for which a lock must be given back only by whoever has
it (`DownloadInv`, `LockInv`, `TypeOK`). With `Implements` of `ProcessLockProofs`
the components rely on no more than the pid file provides, as long as its condition
(`~LateOpenerDeath`) holds.

**Repository expiry.** Where one process runs at a time (`OneProcess`; two overwrite
each other's marks). `Revalidated` needs that in worlds without `"idle"` there is no
makecache timer with nothing to do, no failed download and no `dnf -C clean`: each
of these loses a mark as well. `KeepsInv` follows what is due from the file to the
repositories of a run and back. `MarksExact` also excludes kills, which leave
behind the marks of what has been revalidated, unless the file is unreadable;
`ReasonInv` says why each mark a run holds is there. `MetadataRevalidated` and
`MarksExact` of `SurroundingsProofs` are the same for the sum: the module takes
`RepoExpiryProofs` and `KeyImportProofs` as instances and cites their lemmas about
`Init` and `Next`.

**Keys.** `OnlyVerified` has no condition: whatever the user answers, the DNS says
and the key files hold, and however many packages share a key, rpm is given only
whole packages signed by keys it has. `JobInv` is about the packages checked so
far; `VerifiedGrows` is why a key imported for a later package does no harm, and
`GoodSignatures` what the parsing of rpmkeys' lines guarantees. `TypeCorrect`
assumes that key files hold keys.

**Groups** (`RequestsProofs`, as are the next two). `CompsInv`: what a session
installs or upgrades is described as the comps files describe it, and all of it that
is there is marked; what it removes is what the database had (`RecordsOK`). Every
package in a bunch is in one of these records (`BunchOK`), and what the resolution
erases passed `is_removable_pkg` with them. `GroupsForgetWhatIsGone` follows: a group of
the database or of the session that still counted the package as there would have had
it refused, and what a session adds is marked from these (`NothingMarked`). For
`BothForTwoReasons` the invariant says what `TransactionBunch.__iadd__` guarantees: no
more than that a package which is to be upgraded as a record has it is not removed
where the two objects are equal (`own`, `Alike`). There is a lemma for each method of
`Solver`.

**Modules.** `ProfilesKeepTheirPackages` needs that without `--all` no request is to
remove a package of a profile that is installed, unless it is also requested, belongs
to a fail-safe stream that was refused or to a profile whose stream a switch-to left
unresolved (`GoneIsExcused`), which each of the eight commands keeps, alone or after
others. It has no condition on which packages modules have in common.

**Shell.** `ShellInv` says that the system is consistent, that a session which has not
resolved anything has no items (`SessionOK`), and that items have the reasons they
should have (`KeepsReason`): that of the package that is updated, or `user` if one that
is obsoleted by something new had it (`BestReason`). `Cheapest`, which chooses, is shown
to find one of the `Solutions` if there is any, and the items made of a solution to lead
to it (`AfterGoal`). `ShellRunsWhatWasAsked` follows (`LeavesASolution`): a run that is
the first to resolve starts without items. `ReasonsOfTheUser` follows the
reasons through it.

**History** (`SurroundingsProofs`, as are the next three). `HistoryInv`: there is one
version of each package, and the records in the log and in the stored file are true to
form (`EntryOK`): some packages come, others go, yet others are reinstalled, and the
actions follow from their versions (`Did`). `ReplayExact` then has two halves. A
replay without an error asks for all that was stored (`AllAsked`, `AsksExactly`), as
each item that cannot be asked for is an error; and what the solver adds is an extra,
an error as well, unless the record had it, so that the target of the goal (`Target`)
and the system differ in what was stored. The actions come out the same because
they follow from the versions on both occasions (`DidSays`, `DidActs`). Without
`HistoryInv` a file could call an installation an upgrade, and be replayed as something
else.

`RollsBack` holds for a log of any length, whatever the transactions in it were, other
rollbacks included. It needs that the records are not only true to form but true:
`PastInv` says that each leads from what was there before it to what was there before
the next, unless others have used rpm in between. For packages that is `Went`: what is
gone was taken by an item, what is new was brought by one, what stays was both or
neither. For groups it is `Regrouped`. Every action keeps it (`PastRecorded`), the
replays because of what they record (`ReplayedPast`). Then:

- *The merge is true as well.* `Chained` is a log of which each record leads to the
  next. For one name, the first record that touches it knows the version there was,
  the last one the version there is, and outside them the version stays (`StaysAt`);
  so `Pair` of the two leads from one to the other (`PairLeads`, `MergedWent`). For
  one group, whether it is there is the parity of how often it was installed and
  removed (`Parity`, `NetFrom`), and if it is odd the last of these says which
  (`MergedNetted`). Both inductions are by the least counterexample (`Least`).
- *Turned around it leads back.* A reverted record asks to have what was taken and to
  erase what was brought (`AsksQuietly`). If no item warns, all of it could be asked
  for; the solver adds and removes nothing that would not be an extra, which is warned
  of; and what is left is what there was (`QuietRestores`, `QuietRegroups`).

The condition on groups that are installed once more is needed here: such a record has
an `Install` of a group that was there, and its reverse removes it. The proof
found an error of the model: groups that were upgraded had been recorded with
the actions of packages, and their reverse as a downgrade of something that
has no version.

**Command line and dnf-automatic.** `HonestExit` and `AutomaticTells` have no
condition. The invariants (`CommandInv`, `AutomaticInv`) say of each place in `main`
what has been changed by then, and, for dnf-automatic, that a message is at most as
new as what its emitter was notified of.

**Lists.** `SameVersions`: for colours `list installed` and `list available` take the
branch `all` of `_list_pattern`, which compares with all installed versions instead of
the latest (`NewerThanLatest`) and does not take one package per name. Of each name
the one that is taken (`FirstOfNameFacts`) has the version and the priority of the
others, as all of them are the latest of the best priority (`LatestIsOne`). It needs
that several versions have a latest (`Greatest`, from the well-foundedness of the
natural numbers and `ListsAssumption`).

**Callbacks.** `TrueReports`: the element at `te_index` is the one rpm is at, and the
cache, which is asked when rpm passes no key, has only items that erase. Of these there
is one with a given name (`RpmAssumption`, `ExtractIsDue`).

What stays with TLC. The liveness properties `Progress` and `Terminates`, because
fairness and ENABLED are outside the prover's reach. `ResolvesAsDocumented` and
`SettingsAsAsked`, which are about what recursive functions and folds compute for
every input: induction over data. `TypeOK` of `Surroundings` has the types of all nine
components, two of which have no proofs.

## Differences from the documentation

Five have a run that shows them: `lock_late_opener`, `expiry_idle`,
`tx_problems`, `shell_resolution` and `exit_unrecorded` (details under "findings"
in `PROJECT.json`). `expiry_idle` has a second form: a repository that is
disabled because it is unavailable (`skip_if_unavailable`) loses its mark the same
way. The following were met while the modules were written. The modules describe
what the code does in each case, the properties leave it out by name or by world,
and no run refutes the sentence that is quoted.

- `base.py:516-521`: `tempfiles.json` is emptied by any successful transaction,
  the files are deleted only if it installed something. `doc/command_ref.rst:199`:
  "Packages are removed after the next successful transaction." The exception in
  `ForgottenOnlyWithoutInstall`.
- `persistor.py:133`: read, extend and rewrite without a lock; of two sessions
  one loses its records. `base.py:527`: "The downloaded packages were saved in
  cache until the next successful transaction." Why two properties of
  `PackageCache` speak of a session alone.
- `base.py:1236`: a transaction with failed elements sets `_trans_success` and
  its packages are deleted; `doc/api_base.rst:25` has "upon successful
  transaction". Hence `DeletedOnlyAfterRun` speaks of a transaction that was run.
- `persistor.py:95`: a run that overlaps with `dnf clean expire-cache` overwrites
  its marks; `base.py:245`: with `-C` none is written. `doc/command_ref.rst:582`.
  Why the instance of `RepoExpiry` has one process, and `RevalidatedUnlessIdle` its
  condition.
- `base.py:383`: the makecache timer is reset also if nothing could be loaded;
  `doc/command_ref.rst:994` has "the last successful makecache run". See `Close`.
- `repo.py:594`: `_metadata_expire_in` looks for metadata in `self.metadata`,
  which is empty at that time, so that makecache expires every repository and the
  timer never gets to what is about to expire. `doc/command_ref.rst:988`: "Tries to
  avoid downloading whenever possible". See `UpdateCache`.
- `base.py:1252`: a failed transfer ends the download; `retries` does not apply.
  `doc/conf_ref.rst:1151`: "Setting this to `0` makes dnf try forever." See
  `GiveUp`.
- `base.py:965`: the path without packages stores module states and history under
  tsflags=test. `base.py:1027`: "just before anything is stored permanently". See
  `EmptyStores`.
- `db/history.py:366`: `last()` returns a transaction that was never ended, so that
  the run after a kill reports a change made outside; `base.py:973`: the path
  without packages reads and writes the history outside the lock, with the same
  effect. Why `BlameIsTrue` is about the world with one process and no kills.
- `module_base.py`, `remove --all`: it also removes packages that other installed
  profiles require; `doc/command_ref.rst:1074` says that it does not. The exception
  in `LostOnlyToAll`. Installing or switching to a fail-safe stream raises after
  the profiles are marked (`module/module_base.py:141`, `244`): in a shell they stay so.
- `module/module_base.py:248`: a switch-to removes the packages of the old stream that
  no installed profile needs; profiles of a stream whose dependencies are not met any
  more do not count, so that a package two modules share goes. The last exception in
  `LostOnlyToAll`.
- `base.py:823`, `db/group.py:295`: when an update newly obsoletes a package the user
  asked for, the updated package keeps its own reason, also that of a dependency, so
  that what replaces the user's package may be removed by `autoremove`; a package that
  is installed to replace it inherits the reason (`base.py:788`). The exception in
  `UserStaysUser`.
- `comps.py:716`: the record of an upgraded group is made with the marks there were, and
  `is_removable_pkg` does not look at it: a package that goes with another group of the
  same transaction stays marked. The exception in `NoMarkOfWhatIsGone`.
- `base.py:1597`: without colours `list available` shows one of the repositories that
  carry the latest version, with colours it shows all of them (`cli.py:620`). The
  exception in `ColoursKeepVersions`.
- `comps.py`: `group upgrade` does not remove packages that were dropped from the
  group. `Solver._exclude_packages_from_installed_groups` uses an attribute that
  does not exist (`upgrade_group_objects_upgrade=0` only; not modelled).
- `transaction_sr.py:402`: a group that is installed already is installed once more
  without a warning, so that a rollback to before it may remove it. The condition
  on groups in `Restores`. A change by rpm before the first merged transaction is
  not noticed by a rollback either (`outside`).
- `base.py:2560`: a newer edition of an installed key is never imported, as keys
  are looked up by id; `base.py:1924`: the marker of imported keys outlives them.
- `automatic/main.py:409`: a reboot that fails after the updates were applied turns
  their message into an error; errors are told only with `send_error_messages`. The
  exception in `ToldWhatHappened`.
- `conf/config.py:418`: `skip_broken` adjusts `strict` once, so
  `--skip-broken --setopt=strict=1` ends strict; `--exclude=` does not clear what a
  plugin assigned. The conditions in `CommandLineDecides`.
- `cli/commands/shell.py`: what commands set (`allow_erasing`,
  `clean_requirements_on_remove`, `--security`, `module_stream_switch`, the exit
  status of `check-update`) stays for the rest of the session; see `Commands`.
- `cli/aliases.py`: the backslash is taken from words that aliases bring in, not
  from a command typed with one; an empty value in `USER.conf` is ignored.

## What is not modelled

libdnf, libsolv, librepo, rpm, GnuPG, the DNS and applydeltarpm are external and
appear as the outcomes dnf sees. Left out as data: the contents, names and sizes of
packages and metadata, checksums (a rebuilt package is right or not), progress and
messages. Formatting, option parsing, completion, translations, packaging, systemd
units (but for the options they pass) and tests are not modelled, nor are commands
that only query (`repoquery`, `search`, `updateinfo`, `repolist`), offline upgrades,
and `scripts/update_releasenotes.py`, a tool of the developers. In modelled components
these are left out: an interrupted download that leaves rebuild jobs behind, children
the process did not start, `OSError`s of the file operations other than those named in
an action, the delta file of a failed rebuild, the plugin hooks after configuration,
the commands' own `pre_configure` and `configure` (`cli/cli.py:941`, `953`; they set
demands and options of their command, none of those in `Configuration`), installonly
packages in the shell and in a replay (`transaction_sr.py:333`), source packages,
substitutions. `PROJECT.json` lists every part with its state.

## Plan

What is left, in order:

1. `CleanLocks`, a composition of `LockPromise` instances: clean with its
   three locks and its retry, a transaction with two, log rotation on top. No
   deadlock, no starvation of clean that a fair scheduler would not resolve.
2. The hooks of plugins around resolve and transaction, against
   `doc/api_plugins.rst`; module states and packages across a crash.
3. Specs other than names in `ShellSession`, and installonly packages.

Runs are few on purpose: a component with several sets of conditions has several
worlds in one run, components that share no state share one, and a disagreement has
a run of its own where it is worth seeing.
