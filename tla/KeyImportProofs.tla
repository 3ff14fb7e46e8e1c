---------------------------- MODULE KeyImportProofs ----------------------------
(******************************************************************************)
(* What KeyImport guarantees for every set of packages and keys, whatever the *)
(* keys are called, whoever owns them and wherever they come from.            *)
(******************************************************************************)
EXTENDS KeyImport, TLAPS

\* The packages rpm may be given, with the keys it has.
Verified(p, ring) ==
  From[p] \in Checked =>
    Signers[p] # {} /\ Signers[p] \subseteq {Id[k] : k \in ring} /\ p \notin Damaged

\* What gpgsigcheck has looked at without an error is verified; an error is
\* remembered to the end.
JobInv ==
  /\ job.state = "checking" /\ ~job.failed => \A p \in job.checked : Verified(p, keyring)
  /\ job.state = "run" => \A p \in job.checked : Verified(p, keyring)

IInv == job \in Job /\ JobInv

------------------------------------------------------------------------------
(* Lemmas about signatures.                                                *)

\* What rpmkeys says of a package for which _process_rpm_output finds nothing wrong.
LEMMA GoodSignatures ==
  ASSUME NEW p, NEW ring, CheckSig(p, ring) = 0
  PROVE  Signers[p] # {} /\ Signers[p] \subseteq {Id[k] : k \in ring} /\ p \notin Damaged
<1> DEFINE lines == RpmKeys(p, ring)
<1>1. "BAD" \notin lines /\ "NOKEY" \notin lines /\ lines # {"NOTFOUND"}
  <2>1. ProcessRpmOutput(lines) = 0
    BY DEF CheckSig
  <2> QED BY <2>1 DEF ProcessRpmOutput
<1>2. p \notin Damaged
  BY <1>1 DEF RpmKeys
<1>3. Signers[p] \subseteq {Id[k] : k \in ring}
  BY <1>1 DEF RpmKeys
<1>4. Signers[p] # {}
  BY <1>1, <1>2 DEF RpmKeys
<1> QED BY <1>2, <1>3, <1>4

\* _sig_check_pkg returns 0 only for what is verified, or need not be.
LEMMA ZeroIsVerified ==
  ASSUME NEW p, NEW ring, SigCheckPkg(p, ring) = 0
  PROVE  Verified(p, ring)
BY GoodSignatures DEF SigCheckPkg, Verified

\* More keys do no harm.
LEMMA VerifiedGrows ==
  ASSUME NEW p, NEW ring, NEW more, ring \subseteq more, Verified(p, ring)
  PROVE  Verified(p, more)
BY DEF Verified

\* What Done makes of a job.
LEMMA DoneJob ==
  ASSUME job \in Job, NEW p \in job.left, NEW failed \in BOOLEAN, Done(p, failed)
  PROVE  /\ job' \in Job /\ job'.state = job.state /\ job'.checked = job.checked \cup {p}
         /\ job'.failed = (job.failed \/ failed)
BY DEF Job, Done

------------------------------------------------------------------------------
\* Every step of a command keeps what it knows of the packages.
LEMMA StepInv == IInv /\ [Next]_vars => IInv'
<1> SUFFICES ASSUME IInv, [Next]_vars PROVE IInv'
  OBVIOUS
<1> USE DEF IInv, Job
<1>1. CASE Start
  BY <1>1 DEF Start, JobInv, Idle
<1>2. ASSUME job.state = "checking", NEW p \in job.left, CheckOnly(p) PROVE IInv'
  <2> DEFINE result == SigCheckPkg(p, keyring)
  <2>1. keyring' = keyring
    BY <1>2 DEF CheckOnly
  <2>2. CASE job' = [job EXCEPT !.state = "failed"]
    BY <2>1, <2>2 DEF JobInv
  <2>3. CASE Done(p, result # 0)
    <3>1. job' \in Job /\ job'.state = "checking" /\ job'.checked = job.checked \cup {p}
          /\ (~job'.failed => ~job.failed /\ result = 0)
      BY <1>2, <2>3 DEF Done
    <3>2. ~job'.failed => \A q \in job'.checked : Verified(q, keyring')
      BY <1>2, <2>1, <3>1, ZeroIsVerified DEF JobInv
    <3> QED BY <3>1, <3>2 DEF JobInv
  <2> QED BY <1>2, <2>2, <2>3 DEF CheckOnly
<1>3. ASSUME job.state = "checking", NEW p \in job.left, GetKeyForPackage(p) PROVE IInv'
  <2>1. keyring \subseteq keyring'
    BY <1>3 DEF GetKeyForPackage
  <2>2. \/ job' = [job EXCEPT !.state = "failed"]
        \/ \E more, installed \in BOOLEAN :
             Done(p, more \/ KeysDidNotHelp(p, keyring', installed))
    BY <1>3 DEF GetKeyForPackage
  <2>3. CASE job' = [job EXCEPT !.state = "failed"]
    BY <2>3 DEF JobInv
  <2>4. ASSUME NEW more \in BOOLEAN, NEW installed \in BOOLEAN,
               Done(p, more \/ KeysDidNotHelp(p, keyring', installed))
        PROVE  IInv'
    <3>1. job' \in Job /\ job'.state = "checking" /\ job'.checked = job.checked \cup {p}
          /\ (~job'.failed => ~job.failed /\ SigCheckPkg(p, keyring') = 0)
      BY <1>3, <2>4 DEF Done, KeysDidNotHelp
    <3>2. ~job'.failed => \A q \in job'.checked : Verified(q, keyring')
      BY <1>3, <2>1, <3>1, ZeroIsVerified, VerifiedGrows DEF JobInv
    <3> QED BY <3>1, <3>2 DEF JobInv
  <2> QED BY <2>2, <2>3, <2>4
<1>4. CASE GpgSigCheckEnds
  BY <1>4 DEF GpgSigCheckEnds, JobInv
<1>5. CASE CommandEnds
  BY <1>5 DEF CommandEnds, JobInv, Idle
<1>6. CASE RemoveKey
  BY <1>6 DEF RemoveKey, JobInv
<1>7. CASE UNCHANGED vars
  BY <1>7 DEF vars, JobInv
<1> QED BY <1>1, <1>2, <1>3, <1>4, <1>5, <1>6, <1>7 DEF Next, Check

\* Before the first command nothing is checked.
LEMMA InitInv == Init => IInv
BY DEF Init, IInv, Job, JobInv, Idle

\* A transaction that is run has been checked to its end.
LEMMA RunIsVerified == IInv => RunsOnlyVerified
BY DEF IInv, JobInv, Verified, RunsOnlyVerified

\* rpm is given only packages that are whole and whose signatures are all by keys it
\* has (base.py:2578, 2670): whatever the user answers, whatever cannot be retrieved,
\* and however many packages share a key.
THEOREM OnlyVerified == Spec => []RunsOnlyVerified
BY InitInv, StepInv, RunIsVerified, PTL DEF Spec

------------------------------------------------------------------------------
(* Types, for key files that hold keys.                                    *)

KeyFilesHoldKeys == GpgKey \in [Repo -> Seq(Key)]

\* What the DNS has told is a key that was asked about, or that there is none.
LEMMA LearnedType ==
  ASSUME TypeOK, NEW keys \in SUBSET Key, NEW answer
  PROVE  Learned(keys, answer) \in [Email -> Key \cup {"unknown", "none"}]
<1> DEFINE told(e) == {k \in keys : Owner[k] = e /\ answer[k] \in {"VALID", "PROVEN_NONEXISTENCE"}}
<1>1. ASSUME NEW e \in Email, told(e) # {} PROVE (CHOOSE l \in told(e) : TRUE) \in Key
  <2> HIDE DEF told
  <2>1. (CHOOSE l \in told(e) : TRUE) \in told(e)
    BY <1>1
  <2> QED BY <2>1 DEF told
<1>2. Learned(keys, answer) =
        [e \in Email |->
           IF cache[e] # "unknown" \/ told(e) = {} THEN cache[e]
           ELSE IF answer[CHOOSE l \in told(e) : TRUE] = "VALID"
                THEN CHOOSE l \in told(e) : TRUE ELSE "none"]
  BY DEF Learned
<1> HIDE DEF told
<1> QED BY <1>1, <1>2 DEF TypeOK

\* Only keys of the repository's key files join the keyring.
LEMMA UrlsAreKeys ==
  ASSUME KeyFilesHoldKeys, NEW r \in Repo, NEW n \in 0..Len(GpgKey[r])
  PROVE  Range(SubSeq(GpgKey[r], 1, n)) \subseteq Key /\ SubSeq(GpgKey[r], 1, n) \in Seq(Key)
<1>1. GpgKey[r] \in Seq(Key)
  BY DEF KeyFilesHoldKeys
<1>2. /\ SubSeq(GpgKey[r], 1, n) \in Seq(Key)
      /\ Len(SubSeq(GpgKey[r], 1, n)) = n
      /\ \A i \in 1..n : SubSeq(GpgKey[r], 1, n)[i] = GpgKey[r][i]
  BY <1>1
<1> QED BY <1>1, <1>2 DEF Range

\* A command begins with packages to check, or has failed.
LEMMA StartJob == ASSUME Start PROVE job' \in Job
<1>1. PICK pkgs \in SUBSET Package :
        \/ job' = [Idle EXCEPT !.state = "failed"]
        \/ job' = [Idle EXCEPT !.state = "checking", !.left = pkgs]
  BY DEF Start
<1> QED BY <1>1 DEF Idle, Job

\* Before the first command every variable has its type.
LEMMA TypeInit == Init => TypeOK
<1>1. Idle \in Job /\ Unknown \in [Email -> Key \cup {"unknown", "none"}]
  BY DEF Idle, Job, Unknown
<1> SUFFICES ASSUME Init PROVE TypeOK
  OBVIOUS
<1>2. keyring \subseteq Key /\ marker \in BOOLEAN /\ tried \subseteq Repo
  BY DEF Init
<1>3. conf \in Conf
  BY DEF Init
<1>4. cache \in [Email -> Key \cup {"unknown", "none"}]
  BY <1>1 DEF Init
<1>5. job \in Job
  BY <1>1 DEF Init
<1>6. runs \in Nat
  BY DEF Init
<1> QED BY <1>2, <1>3, <1>4, <1>5, <1>6 DEF TypeOK

\* No step leaves the types.
LEMMA TypeStep == KeyFilesHoldKeys /\ TypeOK /\ [Next]_vars => TypeOK'
<1> SUFFICES ASSUME KeyFilesHoldKeys, TypeOK, [Next]_vars PROVE TypeOK'
  OBVIOUS
<1> USE DEF TypeOK, Job
<1>1. CASE Start
  <2>1. keyring \in SUBSET Key
    OBVIOUS
  <2>2. PICK same \in BOOLEAN, answer \in Answers(keyring) :
          /\ tried' = IF same THEN tried ELSE {}
          /\ cache' = IF same THEN CheckImportedKeysValidity(answer) ELSE Unknown
    BY <1>1 DEF Start
  <2>3. cache' \in [Email -> Key \cup {"unknown", "none"}]
    BY <2>1, <2>2, LearnedType DEF CheckImportedKeysValidity, Unknown
  <2>4. marker' \in BOOLEAN /\ runs' \in Nat /\ UNCHANGED <<keyring, conf>>
    BY <1>1 DEF Start, GpgKeyCheck
  <2>5. job' \in Job
    BY <1>1, StartJob
  <2> QED BY <2>2, <2>3, <2>4, <2>5
<1>2. ASSUME NEW p \in job.left, CheckOnly(p) PROVE TypeOK'
  <2>1. UNCHANGED <<keyring, marker, tried, cache, conf, runs>>
    BY <1>2 DEF CheckOnly
  <2>2. CASE job' = [job EXCEPT !.state = "failed"]
    BY <2>1, <2>2
  <2>3. CASE Done(p, SigCheckPkg(p, keyring) # 0)
    <3>1. job' \in Job
      BY <1>2, <2>3, DoneJob
    <3> QED BY <2>1, <3>1
  <2> QED BY <1>2, <2>2, <2>3 DEF CheckOnly
<1>3. ASSUME NEW p \in job.left, GetKeyForPackage(p) PROVE TypeOK'
  <2> DEFINE urls == IF From[p] \in tried THEN <<>> ELSE GpgKey[From[p]]
  <2>1. From[p] \in Repo
    BY <1>3 DEF GetKeyForPackage, SigCheckPkg
  <2>2. PICK n \in 0..Len(urls), lost \in BOOLEAN,
             yes \in SUBSET Range(urls), answer \in Answers(Range(urls)) :
          LET seen == {k \in Range(SubSeq(urls, 1, n)) : ~KeyInstalled(k, keyring)}
              got == {k \in seen : Approved(k, k \in yes, answer[k])}
          IN /\ keyring' = keyring \cup got
             /\ cache' = IF conf.dns THEN Learned(seen, answer) ELSE cache
             /\ IF n < Len(urls) /\ lost
                THEN job' = [job EXCEPT !.state = "failed"]
                ELSE Done(p, n < Len(urls)
                             \/ KeysDidNotHelp(p, keyring', From[p] \in tried \/ got # {}))
    BY <1>3 DEF GetKeyForPackage
  <2>3. Range(SubSeq(urls, 1, n)) \subseteq Key
    <3>1. CASE From[p] \in tried
      BY <3>1 DEF Range
    <3>2. CASE From[p] \notin tried
      BY <2>1, <3>2, UrlsAreKeys
    <3> QED BY <3>1, <3>2
  <2> DEFINE seen == {k \in Range(SubSeq(urls, 1, n)) : ~KeyInstalled(k, keyring)}
  <2>4. seen \in SUBSET Key
    BY <2>3
  <2>5. keyring' \subseteq Key /\ cache' \in [Email -> Key \cup {"unknown", "none"}]
    <3>1. Learned(seen, answer) \in [Email -> Key \cup {"unknown", "none"}]
      BY <2>4, LearnedType
    <3> QED BY <2>2, <2>4, <3>1
  <2>6. job' \in Job
    <3>1. CASE job' = [job EXCEPT !.state = "failed"]
      BY <3>1
    <3>2. ASSUME NEW failed \in BOOLEAN, Done(p, failed) PROVE job' \in Job
      BY <1>3, <3>2, DoneJob
    <3> QED BY <2>2, <3>1, <3>2 DEF KeysDidNotHelp
  <2>7. tried' \subseteq Repo /\ UNCHANGED <<marker, conf, runs>>
    BY <1>3, <2>1 DEF GetKeyForPackage
  <2> QED BY <2>5, <2>6, <2>7
<1>4. CASE GpgSigCheckEnds
  BY <1>4 DEF GpgSigCheckEnds
<1>5. CASE CommandEnds
  BY <1>5 DEF CommandEnds, Idle
<1>6. CASE RemoveKey
  BY <1>6 DEF RemoveKey
<1>7. CASE UNCHANGED vars
  BY <1>7 DEF vars
<1> QED BY <1>1, <1>2, <1>3, <1>4, <1>5, <1>6, <1>7 DEF Next, Check

\* Every variable has the type the code gives it.
THEOREM TypeCorrect == ASSUME KeyFilesHoldKeys PROVE Spec => []TypeOK
<1>1. TypeOK /\ [Next]_vars => TypeOK'
  BY TypeStep
<1> QED BY <1>1, TypeInit, PTL DEF Spec
=============================================================================
