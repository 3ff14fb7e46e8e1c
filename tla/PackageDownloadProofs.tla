------------------------- MODULE PackageDownloadProofs -------------------------
(***************************************************************************)
(* What PackageDownload guarantees for every set of packages, every number *)
(* of processors and every number of retries.                              *)
(***************************************************************************)
EXTENDS PackageDownload, FiniteSetTheorems, SequenceTheorems, TLAPS

------------------------------------------------------------------------------
(* The inductive invariant.                                                *)

Queued(q) == {q[i] : i \in 1..Len(q)}

\* DeltaInfo.wait would leave the queue behind if this were not so.
QueueInv == queue # <<>> => Jobs # {}

PhaseInv ==
  /\ phase # "transfer" => todo = {}
  /\ phase = "done" => ~fatal /\ err = {}

\* Unless a target has failed every package is in the cache or on its way.
AccountInv ==
  ~fatal => \A p \in Package : p \in good \cup err \cup todo \cup Jobs \cup Queued(queue)

\* Nothing is rebuilt in the second round, so that nothing can fail to be.
SecondRoundInv ==
  /\ retries.rounds <= 1
  /\ retries.left + retries.rounds = retries.limit \/ retries.limit = 0
  /\ retries.rounds > 0 =>
       /\ err = {} /\ queue = <<>> /\ Jobs = {}
       /\ \A p \in todo : kind[p] = "rpm"

IInv ==
  /\ TypeOK /\ QueueInv /\ NothingLeftInQueue
  /\ PhaseInv /\ AccountInv /\ SecondRoundInv

------------------------------------------------------------------------------
\* What a call of DeltaInfo.enqueue does to queue and jobs: the loop that starts
\* jobs (StartJobs) loses no delta and leaves none queued without a job.
LEMMA StartJobsKeeps ==
  ASSUME NEW S \in SUBSET Package, NEW q \in Seq(Package), TypeOK, StartJobs(S, q)
  PROVE  /\ queue' \in Seq(Package)
         /\ child' \in [Package -> Outcomes \cup {"none", "running"}]
         /\ queue' # <<>> => Jobs' # {}
         /\ Jobs \ S \subseteq Jobs'
         /\ Queued(q) \subseteq Jobs' \cup Queued(queue')
<1>1. PICK n \in 0..Len(q) :
        /\ n > 0 => Cardinality(Jobs \ S) + n <= JobLimit
        /\ n < Len(q) => Cardinality(Jobs \ S) + n >= JobLimit
        /\ queue' = SubSeq(q, n + 1, Len(q))
        /\ child' = [p \in Package |->
             IF \E i \in 1..n : q[i] = p THEN "running"
             ELSE IF p \in S THEN "none" ELSE child[p]]
  BY DEF StartJobs
<1>2. Len(q) \in Nat /\ \A i \in 1..Len(q) : q[i] \in Package
  OBVIOUS
<1>3. /\ queue' \in Seq(Package)
      /\ Len(queue') = IF n + 1 <= Len(q) THEN Len(q) - n ELSE 0
      /\ \A i \in 1..(Len(q) - n) : queue'[i] = q[n + i]
  <2>1. \A i \in (n + 1)..Len(q) : q[i] \in Package
    BY <1>2
  <2>2. /\ SubSeq(q, n + 1, Len(q)) \in Seq(Package)
        /\ Len(SubSeq(q, n + 1, Len(q))) =
             IF n + 1 <= Len(q) THEN Len(q) - (n + 1) + 1 ELSE 0
        /\ \A i \in 1..(Len(q) - (n + 1) + 1) : SubSeq(q, n + 1, Len(q))[i] = q[(n + 1) + i - 1]
    BY <1>2, <2>1, SubSeqProperties
  <2> QED BY <1>1, <1>2, <2>2
<1>4. child' \in [Package -> Outcomes \cup {"none", "running"}]
  BY <1>1 DEF TypeOK
<1>5. Jobs \ S \subseteq Jobs'
  BY <1>1 DEF Jobs
<1>6. \A i \in 1..n : q[i] \in Jobs'
  BY <1>1, <1>2 DEF Jobs
<1>7. Queued(q) \subseteq Jobs' \cup Queued(queue')
  <2> SUFFICES ASSUME NEW i \in 1..Len(q), i > n PROVE q[i] \in Queued(queue')
    BY <1>6 DEF Queued
  <2>1. i - n \in 1..(Len(q) - n) /\ Len(queue') = Len(q) - n
    BY <1>2, <1>3
  <2>2. queue'[i - n] = q[i]
    BY <1>2, <1>3, <2>1
  <2> QED BY <2>1, <2>2 DEF Queued
<1>8. queue' # <<>> => Jobs' # {}
  <2> SUFFICES ASSUME queue' # <<>>, Jobs \ S = {} PROVE Jobs' # {}
    BY <1>5
  <2>1. n < Len(q)
    BY <1>2, <1>3
  <2>2. Cardinality(Jobs \ S) = 0
    BY FS_EmptySet
  <2>3. n > 0
    BY <1>1, <1>2, <2>1, <2>2, DownloadAssumption
  <2> QED BY <1>6, <2>3
<1> QED BY <1>3, <1>4, <1>5, <1>7, <1>8

\* download_packages starts with every package to be transferred.
LEMMA InitInv == Init => IInv
<1> SUFFICES ASSUME Init PROVE IInv
  OBVIOUS
<1>1. TypeOK
  <2>1. queue \in Seq(Package)
    BY DEF Init
  <2>2. retries \in [limit : RetryLimits, left : Nat, rounds : 0..2]
    BY DownloadAssumption DEF Init
  <2> QED BY <2>1, <2>2 DEF Init, TypeOK
<1>2. QueueInv /\ NothingLeftInQueue /\ PhaseInv /\ AccountInv
  BY DEF Init, QueueInv, NothingLeftInQueue, PhaseInv, AccountInv
<1>3. SecondRoundInv
  BY DownloadAssumption DEF Init, SecondRoundInv
<1> QED BY <1>1, <1>2, <1>3 DEF IInv

\* Every step of the download keeps the account.
LEMMA StepInv == IInv /\ [Next]_vars => IInv'
<1> SUFFICES ASSUME IInv, [Next]_vars PROVE IInv'
  OBVIOUS
<1> USE DEF IInv
<1>1. ASSUME NEW p \in Package, TransferPackage(p) PROVE IInv'
  BY <1>1 DEF TransferPackage, TypeOK, QueueInv, NothingLeftInQueue, PhaseInv, AccountInv,
              SecondRoundInv, Jobs, Queued
<1>2. ASSUME NEW p \in Package, TransferDelta(p) PROVE IInv'
  <2> DEFINE q == Append(queue, p)
  <2>1. /\ phase = "transfer" /\ p \in todo /\ kind[p] = "delta"
        /\ todo' = todo \ {p} /\ JobDone(Exited) /\ StartJobs(Exited, q)
        /\ UNCHANGED <<phase, kind, fatal, retries>>
    BY <1>2 DEF TransferDelta
  <2>2. q \in Seq(Package) /\ Queued(queue) \cup {p} \subseteq Queued(q)
    <3>1. queue \in Seq(Package)
      BY DEF TypeOK
    <3>2. /\ q \in Seq(Package) /\ Len(q) = Len(queue) + 1 /\ Len(queue) \in Nat
          /\ \A i \in 1..Len(queue) : q[i] = queue[i]
          /\ q[Len(queue) + 1] = p
      BY <3>1, AppendProperties
    <3> QED BY <3>2 DEF Queued
  <2> HIDE DEF q
  <2>3. /\ queue' \in Seq(Package)
        /\ child' \in [Package -> Outcomes \cup {"none", "running"}]
        /\ queue' # <<>> => Jobs' # {}
        /\ Jobs \ Exited \subseteq Jobs'
        /\ Queued(q) \subseteq Jobs' \cup Queued(queue')
    <3>1. Exited \in SUBSET Package
      BY DEF Exited
    <3> QED BY <2>1, <2>2, <3>1, StartJobsKeeps
  <2>4. good' \subseteq Package /\ err' \subseteq Package
        /\ good \subseteq good' /\ err \subseteq err' /\ Exited \subseteq good' \cup err'
    BY <2>1 DEF JobDone, Exited, TypeOK
  <2>5. retries.rounds = 0
    BY <2>1 DEF SecondRoundInv, TypeOK
  <2>6. TypeOK' /\ QueueInv' /\ NothingLeftInQueue' /\ PhaseInv' /\ SecondRoundInv'
    BY <2>1, <2>3, <2>4, <2>5, DownloadAssumption
       DEF TypeOK, QueueInv, NothingLeftInQueue, PhaseInv, SecondRoundInv
  <2>7. AccountInv'
    <3> SUFFICES ASSUME ~fatal, NEW r \in Package
                 PROVE  r \in good' \cup err' \cup todo' \cup Jobs' \cup Queued(queue')
      BY <2>1 DEF AccountInv
    <3> QED BY <2>1, <2>2, <2>3, <2>4 DEF AccountInv
  <2> QED BY <2>6, <2>7
<1>3. CASE TransferFails
  BY <1>3 DEF TransferFails, TypeOK, QueueInv, NothingLeftInQueue, PhaseInv, AccountInv,
              SecondRoundInv, Jobs
<1>4. CASE TransferEnds
  BY <1>4 DEF TransferEnds, TypeOK, QueueInv, NothingLeftInQueue, PhaseInv, AccountInv,
              SecondRoundInv, Jobs, Queued
<1>5. CASE WaitOne
  <2>1. PICK p \in Exited :
          /\ JobDone({p})
          /\ IF queue = <<>>
             THEN child' = [child EXCEPT ![p] = "none"] /\ queue' = queue
             ELSE /\ child' = [child EXCEPT ![p] = "none", ![Head(queue)] = "running"]
                  /\ queue' = Tail(queue)
    BY <1>5 DEF WaitOne
  <2>2. phase = "wait" /\ UNCHANGED <<phase, kind, todo, fatal, retries>>
    BY <1>5 DEF WaitOne
  <2>3. p \in Package /\ p \in Jobs /\ retries.rounds = 0
    BY DEF Exited, Jobs, Outcomes, SecondRoundInv, TypeOK
  <2>4. good' \subseteq Package /\ err' \subseteq Package
        /\ good \subseteq good' /\ err \subseteq err' /\ p \in good' \cup err'
    BY <2>1, <2>3 DEF JobDone, TypeOK
  <2>5. /\ queue' \in Seq(Package)
        /\ child' \in [Package -> Outcomes \cup {"none", "running"}]
        /\ queue' # <<>> => Jobs' # {}
        /\ Jobs \ {p} \subseteq Jobs'
        /\ Queued(queue) \subseteq Jobs' \cup Queued(queue')
    <3>1. CASE queue = <<>>
      BY <2>1, <2>3, <3>1 DEF TypeOK, Jobs, Queued
    <3>2. CASE queue # <<>>
      <4>1. /\ Head(queue) \in Package /\ Tail(queue) \in Seq(Package)
            /\ Len(queue) \in Nat /\ Len(Tail(queue)) = Len(queue) - 1
            /\ \A i \in 1..Len(Tail(queue)) : Tail(queue)[i] = queue[i + 1]
            /\ Head(queue) = queue[1]
        <5>1. queue \in Seq(Package)
          BY DEF TypeOK
        <5> QED BY <3>2, <5>1, HeadTailProperties
      <4>2. /\ child' = [child EXCEPT ![p] = "none", ![Head(queue)] = "running"]
            /\ queue' = Tail(queue)
        BY <2>1, <3>2
      <4>3. child' \in [Package -> Outcomes \cup {"none", "running"}]
        BY <2>3, <4>1, <4>2 DEF TypeOK
      <4>4. Head(queue) \in Jobs' /\ Jobs \ {p} \subseteq Jobs'
        BY <2>3, <4>1, <4>2 DEF Jobs, TypeOK
      <4>5. Queued(queue) \subseteq {Head(queue)} \cup Queued(queue')
        <5> SUFFICES ASSUME NEW i \in 1..Len(queue), i # 1 PROVE queue[i] \in Queued(queue')
          BY <4>1 DEF Queued
        <5>1. i - 1 \in 1..Len(queue') /\ queue'[i - 1] = queue[i]
          BY <4>1, <4>2
        <5> QED BY <5>1 DEF Queued
      <4> QED BY <4>1, <4>2, <4>3, <4>4, <4>5
    <3> QED BY <3>1, <3>2
  <2>6. TypeOK' /\ QueueInv' /\ NothingLeftInQueue' /\ PhaseInv' /\ SecondRoundInv'
    BY <2>2, <2>3, <2>4, <2>5, DownloadAssumption
       DEF TypeOK, QueueInv, NothingLeftInQueue, PhaseInv, SecondRoundInv
  <2>7. AccountInv'
    <3> SUFFICES ASSUME ~fatal, NEW r \in Package
                 PROVE  r \in good' \cup err' \cup todo' \cup Jobs' \cup Queued(queue')
      BY <2>2 DEF AccountInv
    <3> QED BY <2>2, <2>4, <2>5 DEF AccountInv
  <2> QED BY <2>6, <2>7
<1>6. CASE WaitEnds
  BY <1>6 DEF WaitEnds, TypeOK, QueueInv, NothingLeftInQueue, PhaseInv, AccountInv,
              SecondRoundInv, Jobs, Queued
<1>7. CASE GiveUp
  BY <1>7 DEF GiveUp, TypeOK, QueueInv, NothingLeftInQueue, PhaseInv, AccountInv,
              SecondRoundInv, Jobs, Queued
<1>8. CASE Retry
  <2>1. /\ retries \in [limit : RetryLimits, left : Nat, rounds : 0..2]
        /\ retries.rounds = 0 /\ MayRetry /\ CountDown
    BY <1>8 DEF Retry, MayRetry, SecondRoundInv, TypeOK
  <2>5. /\ retries' \in [limit : RetryLimits, left : Nat, rounds : 0..2]
        /\ retries'.rounds = 1 /\ retries'.limit = retries.limit
        /\ retries'.left + 1 = retries.limit \/ retries.limit = 0
    <3>1. /\ retries' = [limit |-> retries.limit,
                         left |-> IF retries.left > 0 THEN retries.left - 1 ELSE retries.left,
                         rounds |-> 1]
          /\ retries.limit \in Nat /\ retries.left \in Nat
      <4>1. retries.limit \in Nat /\ retries.left \in Nat
        BY <2>1, DownloadAssumption
      <4>2. (IF retries.rounds < 2 THEN retries.rounds + 1 ELSE 2) = 1
        BY <2>1
      <4> QED BY <2>1, <4>1, <4>2 DEF CountDown
    <3>2. retries.left = retries.limit \/ retries.limit = 0
      BY <2>1, <3>1 DEF SecondRoundInv
    <3>3. retries.limit = 0 \/ retries.left > 0
      BY <2>1 DEF MayRetry
    <3>4. /\ retries'.limit = retries.limit /\ retries'.rounds = 1
          /\ retries'.left = IF retries.left > 0 THEN retries.left - 1 ELSE retries.left
      BY <3>1
    <3>5. retries.limit \in RetryLimits
      BY <2>1
    <3>6. retries' \in [limit : RetryLimits, left : Nat, rounds : 0..2]
      BY <3>1, <3>5
    <3>7. retries'.left + 1 = retries.limit \/ retries.limit = 0
      BY <3>1, <3>2, <3>3, <3>4
    <3> QED BY <3>4, <3>6, <3>7
  <2>2. TypeOK' /\ QueueInv' /\ NothingLeftInQueue' /\ PhaseInv'
    BY <1>8, <2>5 DEF Retry, TypeOK, QueueInv, NothingLeftInQueue, PhaseInv, Jobs
  <2>3. AccountInv'
    BY <1>8 DEF Retry, PhaseInv, AccountInv, Jobs, Queued
  <2>4. SecondRoundInv'
    BY <1>8, <2>5, DownloadAssumption DEF Retry, SecondRoundInv, NothingLeftInQueue, Jobs, TypeOK
  <2> QED BY <2>2, <2>3, <2>4
<1>9. CASE Finish
  <2>1. err = {}
    BY <1>9, DownloadAssumption DEF Finish, MayRetry, SecondRoundInv, TypeOK
  <2> QED
  BY <1>9, <2>1
     DEF Finish, TypeOK, QueueInv, NothingLeftInQueue, PhaseInv, AccountInv,
         SecondRoundInv, Jobs, Queued
<1>10. ASSUME NEW p \in Package, ChildExits(p) PROVE IInv'
  <2>1. child' \in [Package -> Outcomes \cup {"none", "running"}] /\ Jobs' = Jobs
    BY <1>10 DEF ChildExits, TypeOK, Jobs, Outcomes
  <2> QED
    BY <1>10, <2>1 DEF ChildExits, TypeOK, QueueInv, NothingLeftInQueue, PhaseInv, AccountInv,
                       SecondRoundInv, Queued
<1>11. CASE UNCHANGED vars
  BY <1>11 DEF vars, TypeOK, QueueInv, NothingLeftInQueue, PhaseInv, AccountInv,
               SecondRoundInv, Jobs, Queued
<1> QED BY <1>1, <1>2, <1>3, <1>4, <1>5, <1>6, <1>7, <1>8, <1>9, <1>10, <1>11
        DEF Next, Downloading

\* The invariant holds throughout.
LEMMA Invariance == Spec => []IInv
BY InitInv, StepInv, PTL DEF Spec

------------------------------------------------------------------------------
\* Every variable has the type the code gives it.
THEOREM TypeCorrect == Spec => []TypeOK
BY Invariance, PTL DEF IInv

\* Base.download_packages returns normally only with every package in the cache.
THEOREM Complete == Spec => []DownloadComplete
<1>1. IInv => DownloadComplete
  <2> SUFFICES ASSUME IInv, phase = "done" PROVE good = Package
    BY DEF DownloadComplete
  <2>1. ~fatal /\ err = {} /\ todo = {} /\ Jobs = {} /\ Queued(queue) = {}
    BY DEF IInv, PhaseInv, NothingLeftInQueue, Queued
  <2> QED BY <2>1 DEF IInv, AccountInv, TypeOK
<1> QED BY <1>1, Invariance, PTL

\* DeltaInfo.wait leaves neither a queued delta nor a running job.
THEOREM QueueEmptied == Spec => []NothingLeftInQueue
BY Invariance, PTL DEF IInv

\* The loop over retries in _download_remote_payloads runs at most once, and
\* never ends with packages it could not get.
THEOREM RetriedOnce == Spec => []RetriedAtMostOnce
<1>1. IInv => RetriedAtMostOnce
  BY DEF IInv, PhaseInv, SecondRoundInv, RetriedAtMostOnce
<1> QED BY <1>1, Invariance, PTL
------------------------------------------------------------------------------
(* Why no processor is idle while a delta is queued.                       *)

\* A delta is queued once, and not while a job works on it; a package that is
\* still to come as a delta is neither queued nor worked on.
QueueDistinct ==
  /\ \A i, j \in 1..Len(queue) : queue[i] = queue[j] => i = j
  /\ Queued(queue) \cap Jobs = {}
  /\ \A p \in todo : kind[p] = "delta" => p \notin Jobs \cup Queued(queue)

BusyInv == QueueDistinct /\ ProcessorsBusy

\* The first n of a queue without repetitions are n packages.
LEMMA FirstAreMany ==
  ASSUME NEW q \in Seq(Package), NEW n \in 0..Len(q),
         \A i, j \in 1..Len(q) : q[i] = q[j] => i = j
  PROVE  Cardinality({q[i] : i \in 1..n}) = n
<1> DEFINE T == {q[i] : i \in 1..n}
           f == [i \in 1..n |-> q[i]]
<1>1. Len(q) \in Nat
  OBVIOUS
<1>2. f \in Bijection(1..n, T)
  <2>1. \A i, j \in 1..n : f[i] = f[j] => i = j
    BY <1>1
  <2>2. f \in [1..n -> T] /\ \A t \in T : \E i \in 1..n : f[i] = t
    OBVIOUS
  <2> QED BY <2>1, <2>2 DEF Bijection, Injection, Surjection, IsInjective
<1>3. IsFiniteSet(1..n) /\ Cardinality(1..n) = n
  BY <1>1, FS_Interval
<1>4. ExistsBijection(1..n, T)
  BY <1>2 DEF ExistsBijection
<1> QED BY <1>3, <1>4, FS_Bijection

\* However many jobs are running, they are a finite set.
LEMMA JobsFinite == IsFiniteSet(Jobs) /\ Cardinality(Jobs) \in Nat
<1>1. Jobs \in SUBSET Package
  BY DEF Jobs
<1> QED BY <1>1, FS_Subset, FS_CardinalityType, DownloadAssumption

\* A call of DeltaInfo.enqueue starts a job for every processor that is free, or
\* for every delta that waits: StartJobs keeps ProcessorsBusy.
LEMMA StartJobsBusy ==
  ASSUME NEW S \in SUBSET Jobs, NEW q \in Seq(Package), TypeOK, StartJobs(S, q),
         \A i, j \in 1..Len(q) : q[i] = q[j] => i = j,
         Queued(q) \cap Jobs = {},
         Cardinality(Jobs) <= JobLimit
  PROVE  /\ ProcessorsBusy'
         /\ \A i, j \in 1..Len(queue') : queue'[i] = queue'[j] => i = j
         /\ Queued(queue') \cap Jobs' = {}
         /\ Queued(queue') \cup Jobs' \subseteq Queued(q) \cup Jobs
<1>1. PICK n \in 0..Len(q) :
        /\ n > 0 => Cardinality(Jobs \ S) + n <= JobLimit
        /\ n < Len(q) => Cardinality(Jobs \ S) + n >= JobLimit
        /\ queue' = SubSeq(q, n + 1, Len(q))
        /\ child' = [p \in Package |->
             IF \E i \in 1..n : q[i] = p THEN "running"
             ELSE IF p \in S THEN "none" ELSE child[p]]
  BY DEF StartJobs
<1> DEFINE T == {q[i] : i \in 1..n}
<1>2. Len(q) \in Nat /\ \A i \in 1..Len(q) : q[i] \in Package
  OBVIOUS
<1>3. /\ Len(queue') = IF n + 1 <= Len(q) THEN Len(q) - n ELSE 0
      /\ \A i \in 1..(Len(q) - n) : queue'[i] = q[n + i]
  <2>1. \A i \in (n + 1)..Len(q) : q[i] \in Package
    BY <1>2
  <2>2. /\ Len(SubSeq(q, n + 1, Len(q))) =
             IF n + 1 <= Len(q) THEN Len(q) - (n + 1) + 1 ELSE 0
        /\ \A i \in 1..(Len(q) - (n + 1) + 1) : SubSeq(q, n + 1, Len(q))[i] = q[(n + 1) + i - 1]
    BY <1>2, <2>1, SubSeqProperties
  <2> QED BY <1>1, <1>2, <2>2
<1>4. Len(queue') = Len(q) - n
  BY <1>2, <1>3
<1>5. Jobs' = (Jobs \ S) \cup T
  BY <1>1, <1>2 DEF Jobs
<1>6. T \subseteq Queued(q) /\ (Jobs \ S) \cap T = {}
  BY <1>2 DEF Queued
<1>7. Cardinality(T) = n
  BY FirstAreMany
<1>8. Cardinality(Jobs') = Cardinality(Jobs \ S) + n
  <2>1. IsFiniteSet(Jobs \ S) /\ IsFiniteSet(T)
    <3>1. Jobs \ S \in SUBSET Package /\ T \in SUBSET Package
      BY <1>2 DEF Jobs
    <3> QED BY <3>1, FS_Subset, DownloadAssumption
  <2>2. Cardinality((Jobs \ S) \cap T) = 0
    BY <1>6, FS_EmptySet
  <2>3. Cardinality((Jobs \ S) \cup T) =
          Cardinality(Jobs \ S) + Cardinality(T) - Cardinality((Jobs \ S) \cap T)
    BY <2>1, FS_Union
  <2>4. Cardinality(Jobs \ S) \in Nat
    BY <2>1, FS_CardinalityType
  <2> HIDE DEF T
  <2> QED BY <1>2, <1>5, <1>7, <2>2, <2>3, <2>4
<1>9. Cardinality(Jobs \ S) \in Nat /\ Cardinality(Jobs \ S) <= JobLimit
  <2>1. Jobs \ S \in SUBSET Jobs
    OBVIOUS
  <2>2. Cardinality(Jobs \ S) <= Cardinality(Jobs) /\ Cardinality(Jobs \ S) \in Nat
    BY <2>1, JobsFinite, FS_Subset, FS_CardinalityType
  <2> QED BY <2>2, JobsFinite, DownloadAssumption
<1>10. ProcessorsBusy'
  <2>1. Cardinality(Jobs') <= JobLimit
    BY <1>1, <1>2, <1>8, <1>9, DownloadAssumption
  <2>2. queue' # <<>> => n < Len(q)
    BY <1>1, <1>2, <1>3, <1>4
  <2>3. queue' # <<>> => Cardinality(Jobs') = JobLimit
    BY <1>1, <1>2, <1>8, <1>9, <2>1, <2>2, DownloadAssumption
  <2> QED BY <2>1, <2>3 DEF ProcessorsBusy
<1>11. \A i \in 1..Len(queue') : n + i \in 1..Len(q) /\ queue'[i] = q[n + i]
  BY <1>2, <1>3, <1>4
<1>12. \A i, j \in 1..Len(queue') : queue'[i] = queue'[j] => i = j
  <2> SUFFICES ASSUME NEW i \in 1..Len(queue'), NEW j \in 1..Len(queue'),
                      queue'[i] = queue'[j]
               PROVE  i = j
    OBVIOUS
  <2>1. n + i = n + j
    BY <1>11
  <2> QED BY <1>2, <1>4, <2>1
<1>13. Queued(queue') \cap Jobs' = {}
  <2> SUFFICES ASSUME NEW i \in 1..Len(queue'), queue'[i] \in Jobs' PROVE FALSE
    BY DEF Queued
  <2>1. n + i \in 1..Len(q) /\ q[n + i] \in Queued(q) /\ queue'[i] = q[n + i]
    BY <1>11 DEF Queued
  <2>2. PICK j \in 1..n : q[j] = q[n + i]
    BY <1>5, <2>1
  <2>3. j \in 1..Len(q) /\ j # n + i
    BY <1>2, <1>4
  <2> QED BY <2>1, <2>2, <2>3
<1>14. Queued(queue') \subseteq Queued(q)
  BY <1>11 DEF Queued
<1> QED BY <1>5, <1>6, <1>10, <1>12, <1>13, <1>14

\* In the beginning nothing is queued.
LEMMA BusyStart == Init => BusyInv
<1> SUFFICES ASSUME Init PROVE BusyInv
  OBVIOUS
<1>1. queue = <<>> /\ Jobs = {} /\ Queued(queue) = {}
  BY DEF Init, Jobs, Queued
<1>2. Cardinality(Jobs) = 0
  BY <1>1, FS_EmptySet
<1> QED BY <1>1, <1>2, DownloadAssumption DEF BusyInv, QueueDistinct, ProcessorsBusy

\* Every step of the download keeps the processors busy.
LEMMA BusyStep == IInv /\ BusyInv /\ [Next]_vars => BusyInv'
<1> SUFFICES ASSUME IInv, BusyInv, [Next]_vars PROVE BusyInv'
  OBVIOUS
<1> USE DEF BusyInv
<1>0. TypeOK
  BY DEF IInv
<1>1. ASSUME Jobs' = Jobs, queue' = queue,
             \A p \in todo' : kind'[p] = "delta" => p \in todo /\ kind[p] = "delta"
      PROVE  BusyInv'
  BY <1>1 DEF QueueDistinct, ProcessorsBusy, Queued
<1>2. ASSUME NEW p \in Package, TransferPackage(p) PROVE BusyInv'
  BY <1>1, <1>2 DEF TransferPackage, Jobs
<1>3. ASSUME NEW p \in Package, TransferDelta(p) PROVE BusyInv'
  <2> DEFINE q == Append(queue, p)
  <2>1. /\ p \in todo /\ kind[p] = "delta" /\ todo' = todo \ {p}
        /\ StartJobs(Exited, q) /\ kind' = kind
    BY <1>3 DEF TransferDelta
  <2>2. /\ q \in Seq(Package) /\ Len(q) = Len(queue) + 1 /\ Len(queue) \in Nat
        /\ \A i \in 1..Len(queue) : q[i] = queue[i]
        /\ q[Len(queue) + 1] = p
    BY <1>0, AppendProperties DEF TypeOK
  <2> HIDE DEF q
  <2>3. Queued(q) = Queued(queue) \cup {p}
    <3>1. ASSUME NEW i \in 1..Len(q) PROVE q[i] \in Queued(queue) \cup {p}
      <4>1. i \in 1..Len(queue) \/ i = Len(queue) + 1
        BY <2>2
      <4> QED BY <2>2, <4>1 DEF Queued
    <3>2. ASSUME NEW i \in 1..Len(queue) PROVE queue[i] \in Queued(q)
      <4>1. i \in 1..Len(q) /\ q[i] = queue[i]
        BY <2>2
      <4> QED BY <4>1 DEF Queued
    <3>3. p \in Queued(q)
      <4>1. Len(queue) + 1 \in 1..Len(q)
        BY <2>2
      <4> QED BY <2>2, <4>1 DEF Queued
    <3> QED BY <3>1, <3>2, <3>3 DEF Queued
  <2>4. \A i, j \in 1..Len(q) : q[i] = q[j] => i = j
    <3> SUFFICES ASSUME NEW i \in 1..Len(q), NEW j \in 1..Len(q), q[i] = q[j] PROVE i = j
      OBVIOUS
    <3>1. \A k \in 1..Len(queue) : q[k] # p
      BY <2>1, <2>2 DEF QueueDistinct, Queued
    <3>2. \A k \in 1..Len(q) : k \in 1..Len(queue) \/ k = Len(queue) + 1
      BY <2>2
    <3> QED BY <2>2, <3>1, <3>2 DEF QueueDistinct
  <2>5. Queued(q) \cap Jobs = {} /\ Exited \in SUBSET Jobs
    BY <2>1, <2>3 DEF QueueDistinct, Exited, Jobs, Outcomes
  <2>6. /\ ProcessorsBusy'
        /\ \A i, j \in 1..Len(queue') : queue'[i] = queue'[j] => i = j
        /\ Queued(queue') \cap Jobs' = {}
        /\ Queued(queue') \cup Jobs' \subseteq Queued(q) \cup Jobs
    BY <1>0, <2>1, <2>2, <2>4, <2>5, StartJobsBusy DEF ProcessorsBusy
  <2>7. \A r \in todo' : kind'[r] = "delta" => r \notin Jobs' \cup Queued(queue')
    BY <2>1, <2>3, <2>6 DEF QueueDistinct
  <2> QED BY <2>6, <2>7 DEF QueueDistinct, Queued
<1>4. CASE TransferFails
  BY <1>1, <1>4 DEF TransferFails, Jobs
<1>5. CASE TransferEnds
  BY <1>1, <1>5 DEF TransferEnds, Jobs
<1>6. CASE WaitOne
  <2>1. PICK p \in Exited :
          IF queue = <<>>
          THEN child' = [child EXCEPT ![p] = "none"] /\ queue' = queue
          ELSE /\ child' = [child EXCEPT ![p] = "none", ![Head(queue)] = "running"]
               /\ queue' = Tail(queue)
    BY <1>6 DEF WaitOne
  <2>2. todo' = {} /\ p \in Jobs /\ p \in Package
    BY <1>6 DEF WaitOne, IInv, PhaseInv, Exited, Jobs, Outcomes
  <2>3. IsFiniteSet(Jobs \ {p}) /\ Cardinality(Jobs \ {p}) = Cardinality(Jobs) - 1
    BY <2>2, JobsFinite, FS_RemoveElement
  <2>4. CASE queue = <<>>
    <3>1. queue' = <<>> /\ Jobs' = Jobs \ {p} /\ Queued(queue') = {}
      BY <1>0, <2>1, <2>2, <2>4 DEF Jobs, TypeOK, Queued
    <3>2. Cardinality(Jobs') <= JobLimit
      BY <2>3, <3>1, JobsFinite, DownloadAssumption DEF ProcessorsBusy
    <3> QED BY <2>2, <3>1, <3>2 DEF QueueDistinct, ProcessorsBusy
  <2>5. CASE queue # <<>>
    <3>1. /\ Head(queue) \in Package
          /\ Len(queue) \in Nat /\ Len(Tail(queue)) = Len(queue) - 1
          /\ \A i \in 1..Len(Tail(queue)) : Tail(queue)[i] = queue[i + 1]
          /\ Head(queue) = queue[1] /\ 1 \in 1..Len(queue)
      <4>1. queue \in Seq(Package)
        BY <1>0 DEF TypeOK
      <4>2. Len(queue) > 0
        BY <2>5, <4>1
      <4> QED BY <2>5, <4>1, <4>2, HeadTailProperties
    <3>2. /\ child' = [child EXCEPT ![p] = "none", ![Head(queue)] = "running"]
          /\ queue' = Tail(queue)
      BY <2>1, <2>5
    <3>3. Head(queue) \notin Jobs
      BY <3>1 DEF QueueDistinct, Queued
    <3>4. Jobs' = (Jobs \ {p}) \cup {Head(queue)}
      BY <1>0, <2>2, <3>1, <3>2 DEF Jobs, TypeOK
    <3>5. Cardinality(Jobs') = Cardinality(Jobs)
      <4>1. Cardinality(Jobs') = Cardinality(Jobs \ {p}) + 1
        BY <2>3, <3>3, <3>4, FS_AddElement
      <4> QED BY <2>3, <4>1, JobsFinite
    <3>6. ProcessorsBusy'
      BY <2>5, <3>5 DEF ProcessorsBusy
    <3>7. \A i \in 1..Len(queue') : i + 1 \in 1..Len(queue) /\ queue'[i] = queue[i + 1]
      BY <3>1, <3>2
    <3>8. \A i, j \in 1..Len(queue') : queue'[i] = queue'[j] => i = j
      <4> SUFFICES ASSUME NEW i \in 1..Len(queue'), NEW j \in 1..Len(queue'),
                          queue'[i] = queue'[j]
                   PROVE  i = j
        OBVIOUS
      <4>1. i + 1 = j + 1
        BY <3>7 DEF QueueDistinct
      <4> QED BY <4>1
    <3>9. Queued(queue') \cap Jobs' = {}
      <4> SUFFICES ASSUME NEW i \in 1..Len(queue'), queue'[i] \in Jobs' PROVE FALSE
        BY DEF Queued
      <4>1. i + 1 \in 1..Len(queue) /\ queue[i + 1] \notin Jobs /\ queue'[i] = queue[i + 1]
        BY <3>7 DEF QueueDistinct, Queued
      <4>2. queue[i + 1] = queue[1]
        BY <3>1, <3>4, <4>1
      <4>3. i + 1 = 1
        BY <3>1, <4>1, <4>2 DEF QueueDistinct
      <4> QED BY <4>3
    <3> QED BY <2>2, <3>6, <3>8, <3>9 DEF QueueDistinct
  <2> QED BY <2>4, <2>5
<1>7. CASE WaitEnds
  BY <1>1, <1>7 DEF WaitEnds, Jobs
<1>8. CASE GiveUp
  BY <1>1, <1>8 DEF GiveUp, Jobs
<1>9. CASE Retry
  <2>1. todo' = err /\ \A p \in err : kind'[p] = "rpm"
    BY <1>0, <1>9 DEF Retry, TypeOK
  <2> QED BY <1>1, <1>9, <2>1 DEF Retry, Jobs
<1>10. CASE Finish
  BY <1>1, <1>10 DEF Finish, Jobs
<1>11. ASSUME NEW p \in Package, ChildExits(p) PROVE BusyInv'
  <2>1. Jobs' = Jobs
    BY <1>0, <1>11 DEF ChildExits, TypeOK, Jobs, Outcomes
  <2> QED BY <1>1, <1>11, <2>1 DEF ChildExits
<1>12. CASE UNCHANGED vars
  BY <1>1, <1>12 DEF vars, Jobs
<1> QED BY <1>2, <1>3, <1>4, <1>5, <1>6, <1>7, <1>8, <1>9, <1>10, <1>11, <1>12
        DEF Next, Downloading

\* DeltaInfo.enqueue and DeltaInfo.wait serve the queue between them: a delta
\* waits only while every processor has a job, no processor has two, and nothing
\* waits when DeltaInfo.wait returns.
THEOREM Served == Spec => []QueueIsServed
<1>1. IInv => NothingLeftInQueue
  BY DEF IInv
<1>2. BusyInv => ProcessorsBusy
  BY DEF BusyInv
<1> QED BY <1>1, <1>2, Invariance, BusyStart, BusyStep, PTL DEF Spec, QueueIsServed
==============================================================================
