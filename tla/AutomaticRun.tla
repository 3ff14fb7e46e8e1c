----------------------------- MODULE AutomaticRun -----------------------------
(****************************************************************************)
(* A run of dnf-automatic (dnf/automatic/main.py) and what its emitters     *)
(* (dnf/automatic/emitter.py) tell of it.  The Base is modelled by what its *)
(* calls may do: raise, or have done their work.                            *)
(****************************************************************************)
EXTENDS Naturals, Sequences, SequencesExt

CONSTANTS
  Update,       \* packages there are updates of
  Emitters      \* lists of emitters to look at: conf.emitters.emit_via

\* The timer units and the options their services pass to dnf-automatic.
Units == [plain    |-> [install |-> "unset", download |-> "unset"],
          notify   |-> [install |-> "no", download |-> "no"],
          download |-> [install |-> "no", download |-> "yes"],
          install  |-> [install |-> "yes", download |-> "unset"]]
Kind == {"email", "command", "command_email", "stdio", "motd", "bad"}
Running == 2    \* there is no exit status yet
Stage == {"nothing", "available", "downloaded", "applied", "error"}
File == [apply : BOOLEAN, download : BOOLEAN, send : BOOLEAN, reboot : BOOLEAN]

VARIABLES
  unit, file,   \* the unit, and what the configuration file says
  emit,         \* emit_via
  pc,           \* where main is
  conf,         \* AutomaticConfig.commands
  has,          \* what has become of each update: "old", "cached", "new"
  notified,     \* what the emitters have been notified of
  told,         \* the last message each of them has delivered
  exit          \* the exit status

vars == <<unit, file, emit, pc, conf, has, notified, told, exit>>

Init ==
  /\ unit \in DOMAIN Units
  /\ file \in File
  /\ emit \in Emitters
  /\ pc = "start"
  /\ conf = [apply |-> FALSE, download |-> FALSE]
  /\ has = [u \in Update |-> "old"]
  /\ notified = {}
  /\ told = [i \in 1..Len(emit) |-> "nothing"]
  /\ exit = Running

Goto(l) == pc' = l /\ UNCHANGED exit
Return(status) == pc' = "done" /\ exit' = status

\* The handler of main: emitters that exist are notified, if that is wanted.
Raise ==
  IF file.send /\ pc # "start"
  THEN Goto("errcommit") /\ notified' = notified \cup {"error"}
  ELSE Return(1) /\ UNCHANGED notified

------------------------------------------------------------------------------
Overridden(option, value) == IF option = "unset" THEN value ELSE option = "yes"

\* CommandsConfig.imply
Imply(c) == [c EXCEPT !.download = @ \/ c.apply]

\* AutomaticConfig.__init__: options override the file.
Configured(c, options) ==
  Imply([apply |-> Overridden(options.install, c.apply),
         download |-> Overridden(options.download, c.download)])

\* AutomaticConfig and build_emitters, which knows five kinds of emitters.
ReadConf ==
  /\ pc = "start"
  /\ \/ /\ "bad" \notin ToSet(emit)
        /\ conf' = Configured([apply |-> file.apply, download |-> file.download], Units[unit])
        /\ Goto("resolve") /\ UNCHANGED notified
     \/ Raise /\ UNCHANGED conf
  /\ UNCHANGED <<unit, file, emit, has, told>>

\* Plugins, sleep, wait_for_network (which only warns), fill_sack, upgrade and
\* resolve; without updates the run ends without a message.
Prepare ==
  /\ pc = "resolve"
  /\ \/ Goto("available") /\ notified' = {"available"}
     \/ Return(0) /\ UNCHANGED notified
     \/ Raise
  /\ UNCHANGED <<unit, file, emit, conf, has, told>>

DownloadUpdates ==
  /\ pc = "available"
  /\ \/ ~conf.download /\ Goto("commit") /\ UNCHANGED <<has, notified>>
     \/ /\ conf.download
        /\ has' = [u \in Update |-> "cached"]
        /\ notified' = notified \cup {"downloaded"} /\ Goto("downloaded")
     \/ /\ conf.download
        /\ \E got \in (SUBSET Update) \ {Update} :
             has' = [u \in Update |-> IF u \in got THEN "cached" ELSE "old"]
        /\ Raise
  /\ UNCHANGED <<unit, file, emit, conf, told>>

\* gpgsigcheck raises after it has looked at every package.
GpgSigCheck ==
  /\ pc = "downloaded"
  /\ \/ ~conf.apply /\ Goto("commit") /\ UNCHANGED notified
     \/ conf.apply /\ Goto("transaction") /\ UNCHANGED notified
     \/ conf.apply /\ Raise
  /\ UNCHANGED <<unit, file, emit, conf, has, told>>

\* Defect: Base.do_transaction returns, hence the updates are applied.
AnyItems(new) == TRUE

\* No item of the transaction is in the state ERROR.
AllItems(new) == new = Update

\* Base.do_transaction runs rpm, which may fail for some of the items, or raises
\* before or after that.
ApplyUpdates ==
  /\ pc = "transaction"
  /\ \E new \in SUBSET Update :
       /\ has' = [u \in Update |-> IF u \in new THEN "new" ELSE "cached"]
       /\ \/ AllItems(new) /\ Goto("commit") /\ notified' = notified \cup {"applied"}
          \/ Raise
  /\ UNCHANGED <<unit, file, emit, conf, told>>

------------------------------------------------------------------------------
\* Emitter._prepare_msg: the message an emitter has, by what it was notified of.
PrepareMsg(known) ==
  CASE "error" \in known -> "error"
    [] "error" \notin known /\ "applied" \in known -> "applied"
    [] known \cap {"error", "applied"} = {} /\ "downloaded" \in known -> "downloaded"
    [] known = {"available"} -> "available"
    [] OTHER -> "nothing"

\* Failures of mail servers and commands are logged, those of files are not caught.
Catches(kind) == kind \in {"email", "command", "command_email"}

\* emitters.commit(): one after the other, those before i have delivered or lost
\* their message when the one at i fails.
CommitUntil(i) ==
  \E lost \in SUBSET {j \in 1..(i - 1) : Catches(emit[j])} :
    told' = [j \in 1..Len(emit) |->
               IF j < i /\ j \notin lost THEN PrepareMsg(notified) ELSE told[j]]

Failing(i) == i \in 1..Len(emit) /\ ~Catches(emit[i])

\* After it, the reboot command is run, if something was applied.
Commit ==
  /\ pc = "commit"
  /\ \/ /\ CommitUntil(Len(emit) + 1)
        /\ IF "applied" \in notified /\ file.reboot THEN Goto("reboot") ELSE Return(0)
        /\ UNCHANGED notified
     \/ \E i \in 1..Len(emit) : Failing(i) /\ CommitUntil(i) /\ Raise
  /\ UNCHANGED <<unit, file, emit, conf, has>>

Reboot ==
  /\ pc = "reboot"
  /\ \/ Return(0) /\ UNCHANGED notified
     \/ Raise
  /\ UNCHANGED <<unit, file, emit, conf, has, told>>

\* The commit of the handler: what it raises nobody catches, and the exit status is
\* that of an uncaught exception.
ErrorCommit ==
  /\ pc = "errcommit"
  /\ \/ CommitUntil(Len(emit) + 1)
     \/ \E i \in 1..Len(emit) : Failing(i) /\ CommitUntil(i)
  /\ Return(1)
  /\ UNCHANGED <<unit, file, emit, conf, has, notified>>

Next ==
  \/ ReadConf \/ Prepare \/ DownloadUpdates \/ GpgSigCheck \/ ApplyUpdates
  \/ Commit \/ Reboot \/ ErrorCommit

Spec == Init /\ [][Next]_vars

------------------------------------------------------------------------------
\* Every variable has the type the code gives it.
TypeOK ==
  /\ file \in File /\ conf \in [apply : BOOLEAN, download : BOOLEAN]
  /\ has \in [Update -> {"old", "cached", "new"}]
  /\ notified \subseteq Stage /\ told \in [1..Len(emit) -> Stage]
  /\ exit \in {Running, 0, 1}

\* What an emitter delivered last is what happened: no message says that updates
\* are applied when some are not, or that they are only there or only downloaded
\* when some of them are applied, unless an error that nobody wants to hear of came
\* in between; and a run that applied only some of them does not exit with 0
\* (main.py:382-394, emitter.py:50).
ToldWhatHappened ==
  /\ \A i \in DOMAIN told :
       /\ told[i] = "applied" => \A u \in Update : has[u] = "new"
       /\ told[i] \in {"available", "downloaded"} => \A u \in Update : has[u] # "new"
  /\ exit = 0 => \A u, v \in Update : has[u] = "new" => has[v] = "new"
==============================================================================
