-------------------------------- MODULE CliRun --------------------------------
(**********************************************************************************)
(* One invocation of dnf, from main (dnf/cli/main.py) through Cli.run and         *)
(* BaseCli.do_transaction (dnf/cli/cli.py) to its exit status.  What Base does is *)
(* modelled by what its calls may end with.                                       *)
(**********************************************************************************)
EXTENDS FiniteSets, Naturals

CONSTANTS
  Install, Erase,   \* packages a transaction may install and erase
  Considered(_)     \* bound: settings and systems to look at

Running == 999      \* there is no exit status yet
Item == Install \cup Erase

VARIABLES
  world,        \* the command, its settings and the system, see World
  pc,
  status,       \* demands.success_exit_status
  unlocked,     \* has /usr of a bootc system been made writable
  stored,       \* are changes of modules and groups on disk
  done, failed, \* elements rpm has carried out, and elements that failed
  tid,          \* does the history have the transaction
  exit          \* the exit status

vars == <<world, pc, status, unlocked, stored, done, failed, tid, exit>>
effects == <<unlocked, stored, done, failed, tid>>

World ==
  [resolving : BOOLEAN, found : BOOLEAN, assumeyes : BOOLEAN, assumeno : BOOLEAN,
   downloadonly : BOOLEAN, test : BOOLEAN, record : BOOLEAN,
   system : {"package", "writable", "readonly"}, persistence : {"auto", "persist", "transient"},
   items : SUBSET Item, switch : BOOLEAN, modules : BOOLEAN, groups : BOOLEAN]

Init ==
  /\ world \in {w \in World : Considered(w)}
  /\ pc = "configure" /\ status = 0 /\ exit = Running
  /\ unlocked = FALSE /\ stored = FALSE /\ tid = FALSE
  /\ done = {} /\ failed = {}

Goto(l) == pc' = l /\ UNCHANGED exit
Return(code) == pc' = "exit" /\ exit' = code

\* The handlers of main: all that is known of an exception is 1, but for locks;
\* _main, cli_run and resolving handle some of them earlier in the same way.
Raise(exception) == Return(IF exception = "lock" THEN 200 ELSE 1)

Untouched == UNCHANGED <<world, status, effects>>

\* Cli.configure: a bad setting is sys.exit(1), --version and --help are sys.exit(0).
Configure ==
  /\ pc = "configure"
  /\ Goto("run") \/ Raise("error") \/ (~world.resolving /\ Return(0))
  /\ Untouched

\* Cli.run and the run of the command: metadata and downloads may be locked; a
\* check-update that finds updates demands the status 100.
Run ==
  /\ pc = "run"
  /\ \/ /\ status' = IF ~world.resolving /\ world.found THEN 100 ELSE 0
        /\ Goto(IF world.resolving THEN "resolve" ELSE "command")
     \/ (Raise("lock") \/ Raise("error")) /\ UNCHANGED status
  /\ UNCHANGED <<world, effects>>

\* The head of resolving: Base.resolve and Command.run_resolved.
Resolve ==
  /\ pc = "resolve"
  /\ Goto("transaction") \/ Raise("depsolve")
  /\ Untouched

------------------------------------------------------------------------------
(* BaseCli.do_transaction                                                  *)

Something == world.items # {} \/ world.modules \/ world.groups

\* Streams of modules must not be switched, and there must be something to do.
Begin ==
  /\ pc = "transaction"
  /\ CASE world.switch -> Raise("error")
       [] ~world.switch /\ ~Something -> Goto("command")
       [] OTHER -> Goto("bootc")
  /\ Untouched

Bootc == world.system # "package" /\ ~world.downloadonly

\* What is to persist must be able to: CliError otherwise.
MayPersist ==
  IF Bootc
  THEN /\ world.persistence # "persist"
       /\ world.system = "readonly" => world.persistence = "transient"
  ELSE world.persistence # "transient"

CheckPersistence ==
  /\ pc = "bootc"
  /\ \/ MayPersist /\ Goto("confirm")
     \/ ~MayPersist /\ Raise("cli")
     \/ MayPersist /\ Bootc /\ Raise("cli")      \* usr_drift_protected_paths
  /\ Untouched

PromptWanted == ~world.assumeyes \/ world.assumeno

\* The user is asked, and then /usr made writable.
Confirm ==
  /\ pc = "confirm"
  /\ \/ PromptWanted /\ Raise("cli") /\ UNCHANGED unlocked
     \/ /\ PromptWanted => ~world.assumeno
        /\ unlocked' = (Bootc /\ world.system = "readonly")
        /\ Goto("download")
  /\ UNCHANGED <<world, status, stored, done, failed, tid>>

\* download_packages and gpgsigcheck; then there is no more to do for downloadonly.
Download ==
  /\ pc = "download"
  /\ \/ Goto(IF world.downloadonly THEN "command" ELSE "base")
     \/ world.items \cap Install # {} /\ (Raise("lock") \/ Raise("error"))
  /\ Untouched

\* Base.do_transaction without packages
Empty ==
  /\ pc = "base" /\ world.items = {}
  /\ stored' = TRUE /\ Goto("command")
  /\ UNCHANGED <<world, status, unlocked, done, failed, tid>>

\* The lock of the rpm database, the check and the test of the transaction.
Test ==
  /\ pc = "base" /\ world.items # {}
  /\ \/ Goto(IF world.test THEN "command" ELSE "rpm") /\ stored' = ~world.test
     \/ (Raise("lock") \/ Raise("check") \/ Raise("error")) /\ UNCHANGED stored
  /\ UNCHANGED <<world, status, unlocked, done, failed, tid>>

\* Base._run_transaction: rpm refuses to start, or carries out what it can; the
\* plugins may fail before and after that.
Rpm ==
  /\ pc = "rpm"
  /\ tid' = world.record
  /\ \/ Raise("error") /\ UNCHANGED <<done, failed>>
     \/ \E bad \in SUBSET world.items :
          /\ failed' = bad /\ done' = world.items \ bad
          /\ Goto("verify") \/ Raise("error")
  /\ UNCHANGED <<world, status, unlocked, stored>>

\* Defect: the transaction is over, hence it has been successful.
NoneFailed == FALSE

\* The items of the transaction in the history, if there is one, are looked at.
SomeFailed == tid /\ failed # {}

Verify ==
  /\ pc = "verify"
  /\ IF SomeFailed THEN Raise("error") ELSE Goto("command")
  /\ Untouched

\* The end of cli_run: Command.run_transaction.
Finish ==
  /\ pc = "command"
  /\ Return(status) \/ Raise("error")
  /\ Untouched

\* KeyboardInterrupt while dnf works; rpm has signals blocked.
Interrupt ==
  /\ pc \in {"run", "resolve", "confirm", "download"}
  /\ Raise("interrupt")
  /\ Untouched

Next ==
  \/ Configure \/ Run \/ Resolve \/ Begin \/ CheckPersistence \/ Confirm \/ Download
  \/ Empty \/ Test \/ Rpm \/ Verify \/ Finish \/ Interrupt

Spec == Init /\ [][Next]_vars

------------------------------------------------------------------------------
\* Every variable has the type the code gives it.
TypeOK ==
  /\ world \in World /\ exit \in {0, 1, 100, 200, Running} /\ status \in {0, 100}
  /\ pc = "exit" <=> exit # Running
  /\ done \cup failed \subseteq world.items /\ done \cap failed = {}
  /\ \A b \in {unlocked, stored, tid} : b \in BOOLEAN

\* "0: Operation was successful." (doc/command_ref.rst:50): what was resolved is
\* installed and erased, unless dnf was to download or test only.
ZeroMeansDone ==
  exit = 0 /\ world.resolving /\ ~world.downloadonly /\ ~world.test =>
    done = world.items /\ (world.modules \/ world.groups => stored)

\* What the exit status says is true, whatever fails on the way, if there is a
\* history (BaseCli.do_transaction looks for failed items there): zero is success, and
\* 200, "There was a problem with acquiring or releasing of locks", leaves the
\* packages and the modules as they were.
ExitIsHonest ==
  /\ world.record => ZeroMeansDone
  /\ exit = 200 => done \cup failed = {} /\ ~stored
==============================================================================
