---------------------------- MODULE PackageDownload ----------------------------
(*****************************************************************************)
(* Downloading the packages of a transaction (dnf/base.py                    *)
(* _download_remote_payloads, dnf/repo.py _download_payloads), some of them  *)
(* as delta RPMs which child processes turn into packages while the download *)
(* goes on (dnf/drpm.py DeltaInfo).  librepo and the children are external.  *)
(*****************************************************************************)
EXTENDS Naturals, Sequences, FiniteSets

CONSTANTS
  Package,    \* the packages to download
  JobLimit,   \* DeltaInfo.deltarpm_jobs, the number of processors
  RetryLimits \* values of the configuration option retries; 0 is for ever

ASSUME DownloadAssumption ==
  /\ IsFiniteSet(Package)
  /\ JobLimit \in Nat \ {0}
  /\ RetryLimits \subseteq Nat

VARIABLES
  phase,     \* where _download_remote_payloads is
  kind,      \* the payload of each package: the package itself, or a delta
  todo,      \* targets librepo has not finished
  queue,     \* DeltaInfo.queue
  child,     \* DeltaInfo.jobs, and what has become of each child
  err,       \* DeltaInfo.err: packages whose rebuild has failed
  fatal,     \* a target failed: _DownloadErrors._irrecoverable
  retries,   \* the option, what is left of it, and (history) how often the loop over
             \* retries has been entered, counted up to two
  good       \* packages with the right file in the cache

vars == <<phase, kind, todo, queue, child, err, fatal, retries, good>>

\* delta_factory: no delta for a package that is already there.
Init ==
  /\ phase = "transfer"
  /\ good \in SUBSET Package
  /\ kind \in [Package -> {"rpm", "delta"}]
  /\ \A p \in good : kind[p] = "rpm"
  /\ todo = Package
  /\ queue = <<>>
  /\ child = [p \in Package |-> "none"]
  /\ err = {} /\ fatal = FALSE
  /\ \E n \in RetryLimits : retries = [limit |-> n, left |-> n, rounds |-> 0]

Outcomes == {"rebuilt", "corrupt", "failed"}
Jobs == {p \in Package : child[p] # "none"}
Exited == {p \in Package : child[p] \in Outcomes}

\* librepo has fetched a whole package.
TransferPackage(p) ==
  /\ phase = "transfer" /\ p \in todo /\ kind[p] = "rpm"
  /\ todo' = todo \ {p}
  /\ good' = good \cup {p}
  /\ UNCHANGED <<phase, kind, queue, child, err, fatal, retries>>

\* Defect: a child's result is not checked.
JobDoneUnchecked(S) ==
  /\ err' = err
  /\ good' = good \cup {p \in S : child[p] = "rebuilt"}

\* DeltaInfo.job_done for the jobs S: a failed rebuild and a wrong checksum are
\* both recoverable errors.
JobDone(S) ==
  /\ err' = err \cup {p \in S : child[p] # "rebuilt"}
  /\ good' = good \cup {p \in S : child[p] = "rebuilt"}

\* The loop of DeltaInfo.enqueue: once the jobs S are gone the first n of q are
\* started, until all the processors are busy or nothing is queued.
StartJobs(S, q) ==
  LET busy == Cardinality(Jobs \ S)
  IN \E n \in 0..Len(q) :
       /\ n > 0 => busy + n <= JobLimit
       /\ n < Len(q) => busy + n >= JobLimit
       /\ queue' = SubSeq(q, n + 1, Len(q))
       /\ child' = [p \in Package |->
            IF \E i \in 1..n : q[i] = p THEN "running"
            ELSE IF p \in S THEN "none" ELSE child[p]]

\* librepo has fetched a delta: DeltaPayload._end_cb calls DeltaInfo.enqueue,
\* which reaps the children that have exited and starts new ones.
TransferDelta(p) ==
  /\ phase = "transfer" /\ p \in todo /\ kind[p] = "delta"
  /\ todo' = todo \ {p}
  /\ JobDone(Exited)
  /\ StartJobs(Exited, Append(queue, p))
  /\ UNCHANGED <<phase, kind, fatal, retries>>

\* A target fails; with fail_fast the others are left "Not finished".
TransferFails ==
  /\ phase = "transfer" /\ todo # {}
  /\ todo' = {}
  /\ fatal' = TRUE
  /\ phase' = "wait"
  /\ UNCHANGED <<kind, queue, child, err, retries, good>>

TransferEnds ==
  /\ phase = "transfer" /\ todo = {}
  /\ phase' = "wait"
  /\ UNCHANGED <<kind, todo, queue, child, err, fatal, retries, good>>

\* applydeltarpm ends, in any way.
ChildExits(p) ==
  /\ child[p] = "running"
  /\ \E o \in Outcomes : child' = [child EXCEPT ![p] = o]
  /\ UNCHANGED <<phase, kind, todo, queue, err, fatal, retries, good>>

\* Defect: a job that ends makes no room for the next.
WaitStartingNone ==
  /\ phase = "wait"
  /\ \E p \in Exited : JobDone({p}) /\ child' = [child EXCEPT ![p] = "none"]
  /\ UNCHANGED <<phase, kind, todo, queue, fatal, retries>>

\* DeltaInfo.wait: a child is reaped, and the next delta started.
WaitOne ==
  /\ phase = "wait"
  /\ \E p \in Exited :
       /\ JobDone({p})
       /\ IF queue = <<>>
          THEN child' = [child EXCEPT ![p] = "none"] /\ queue' = queue
          ELSE /\ child' = [child EXCEPT ![p] = "none", ![Head(queue)] = "running"]
               /\ queue' = Tail(queue)
  /\ UNCHANGED <<phase, kind, todo, fatal, retries>>

WaitEnds ==
  /\ phase = "wait" /\ Jobs = {}
  /\ phase' = "decide"
  /\ UNCHANGED <<kind, todo, queue, child, err, fatal, retries, good>>

\* A DownloadError, whatever `retries' says.
GiveUp ==
  /\ phase = "decide" /\ fatal
  /\ phase' = "raised"
  /\ UNCHANGED <<kind, todo, queue, child, err, fatal, retries, good>>

\* The condition of the loop over retries, and what entering it does to the counter.
MayRetry == err # {} /\ (retries.limit = 0 \/ retries.left > 0)
CountDown ==
  retries' = [limit |-> retries.limit,
              left |-> IF retries.left > 0 THEN retries.left - 1 ELSE retries.left,
              rounds |-> IF retries.rounds < 2 THEN retries.rounds + 1 ELSE 2]

\* Defect: what has failed is tried again as it was.
RetryAsBefore ==
  /\ phase = "decide" /\ ~fatal /\ MayRetry
  /\ CountDown
  /\ todo' = err /\ err' = {}
  /\ phase' = "transfer"
  /\ UNCHANGED <<kind, queue, child, fatal, good>>

\* Defect: the errors of the round before are not cleared (repo.py:92).
RetryWithOldErrors ==
  /\ phase = "decide" /\ ~fatal /\ MayRetry
  /\ CountDown
  /\ todo' = err
  /\ kind' = [p \in Package |-> IF p \in err THEN "rpm" ELSE kind[p]]
  /\ phase' = "transfer"
  /\ UNCHANGED <<queue, child, err, fatal, good>>

\* What could not be rebuilt is downloaded as it is.
Retry ==
  /\ phase = "decide" /\ ~fatal /\ MayRetry
  /\ CountDown
  /\ todo' = err /\ err' = {}
  /\ kind' = [p \in Package |-> IF p \in err THEN "rpm" ELSE kind[p]]
  /\ phase' = "transfer"
  /\ UNCHANGED <<queue, child, fatal, good>>

\* Whatever is still wrong is only logged.
Finish ==
  /\ phase = "decide" /\ ~fatal /\ ~MayRetry
  /\ phase' = "done"
  /\ UNCHANGED <<kind, todo, queue, child, err, fatal, retries, good>>

Downloading ==
  \/ \E p \in Package : TransferPackage(p) \/ TransferDelta(p)
  \/ TransferFails \/ TransferEnds \/ WaitOne \/ WaitEnds
  \/ GiveUp \/ Retry \/ Finish

Next == Downloading \/ \E p \in Package : ChildExits(p)

Spec == Init /\ [][Next]_vars

\* librepo and applydeltarpm come to an end, and dnf goes on after them.
Fairness == WF_vars(Downloading) /\ \A p \in Package : WF_vars(ChildExits(p))

FairSpec == Spec /\ Fairness

------------------------------------------------------------------------------
\* Every variable has the type the code gives it.
TypeOK ==
  /\ phase \in {"transfer", "wait", "decide", "raised", "done"}
  /\ kind \in [Package -> {"rpm", "delta"}]
  /\ todo \subseteq Package
  /\ queue \in Seq(Package)
  /\ child \in [Package -> Outcomes \cup {"none", "running"}]
  /\ err \subseteq Package
  /\ fatal \in BOOLEAN
  /\ retries \in [limit : RetryLimits, left : Nat, rounds : 0..2]
  /\ good \subseteq Package

\* download_packages returns without an error only when every package is in the
\* cache: its caller goes on to check signatures and to install.
DownloadComplete == phase = "done" => good = Package

\* DeltaInfo.wait waits for "all jobs" (drpm.py:174): its loop looks at the jobs
\* alone, yet nothing is left in the queue when it ends.
NothingLeftInQueue == phase \in {"decide", "done", "raised"} => queue = <<>> /\ Jobs = {}

\* A delta waits in the queue only while every processor is at work, and never
\* more than one job is run for each.
ProcessorsBusy ==
  /\ Cardinality(Jobs) <= JobLimit
  /\ queue # <<>> => Cardinality(Jobs) = JobLimit

\* The queue of deltas is served: from enqueue as well as from wait, in whatever
\* order the children end (drpm.py:150-179).
QueueIsServed == NothingLeftInQueue /\ ProcessorsBusy

\* However many rebuilds fail, the loop over retries is entered a single time, be
\* it bounded or not, and what the last round could not get is never just logged
\* (base.py:1264-1289): what is tried again is no delta any more.
RetriedAtMostOnce ==
  /\ retries.rounds <= 1
  /\ phase = "done" => err = {}

\* The download ends, also when the configuration has it retry for ever and the
\* loop has no bound of its own (retries = 0, base.py:1263).
Terminates == <>(phase \in {"done", "raised"})
==============================================================================
