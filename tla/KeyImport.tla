------------------------------ MODULE KeyImport ------------------------------
(******************************************************************************)
(* The signatures of the packages of a transaction and the keys to check      *)
(* them with: dnf/base.py (_sig_check_pkg, _get_key_for_package), gpgsigcheck *)
(* of dnf/cli/cli.py and of dnf/automatic/main.py, dnf/rpm/miscutils.py,      *)
(* dnf/crypto.py and dnf/dnssec.py.  rpm's keyring and the DNS are modelled   *)
(* from the way the code uses them.                                           *)
(******************************************************************************)
EXTENDS Naturals, Sequences, Functions

CONSTANTS
  Key, Repo, Package, Email,
  Id,           \* the key id of a key: newer editions of a key have the same
  Owner,        \* its e-mail address
  Outdated,     \* keys that rpm does not trust (any more)
  From,         \* the repository of a package, or "commandline"
  Signers,      \* the ids of the keys a package is signed with
  Damaged,      \* packages whose contents do not fit their signatures
  GpgKey,       \* repo.gpgkey: the keys at its URLs, in order
  Checked,      \* repositories with gpgcheck; "commandline" with localpkg_gpgcheck
  MaxRuns       \* bound: commands

VARIABLES
  keyring,      \* the keys in the rpm database
  marker,       \* there is a file .gpgkeyschecked.yum
  tried,        \* _repo_set_imported_gpg_keys of the Base
  cache,        \* DNSSECKeyVerification._cache: what the DNS has for an address
  conf,         \* who is asked, and is gpgkey_dns_verification set?
  job,          \* the check of a transaction, see Job
  runs

vars == <<keyring, marker, tried, cache, conf, job, runs>>

\* What is not secure or bogus counts like an ERROR.
Validity == {"VALID", "REVOKED", "PROVEN_NONEXISTENCE", "ERROR"}

\* user: there is a terminal; yes, no: assumeyes, assumeno; unattended: neither;
\* automatic: dnf-automatic, which never imports a key.
Conf == [asks : {"user", "yes", "no", "unattended", "automatic"}, dns : BOOLEAN]

\* The packages left to check, those checked, and how it goes.
Job == [state : {"idle", "checking", "run", "failed"}, left : SUBSET Package,
        checked : SUBSET Package, failed : BOOLEAN]

Unknown == [e \in Email |-> "unknown"]
Idle == [state |-> "idle", left |-> {}, checked |-> {}, failed |-> FALSE]

Init ==
  /\ keyring \in SUBSET Key /\ \A k, l \in keyring : Id[k] = Id[l] => k = l
  /\ marker = FALSE
  /\ tried = {} /\ cache = Unknown
  /\ conf \in Conf
  /\ job = Idle
  /\ runs = 0

------------------------------------------------------------------------------
(* Signatures.                                                             *)

\* What rpmkeys says of each signature of a package.
RpmKeys(p, ring) ==
  {IF i \notin {Id[k] : k \in ring} THEN "NOKEY"
   ELSE IF i \in {Id[k] : k \in ring \ Outdated} THEN "OK" ELSE "NOTTRUSTED" : i \in Signers[p]}
  \cup (IF Signers[p] = {} THEN {"NOTFOUND"} ELSE {})
  \cup (IF p \in Damaged THEN {"BAD"} ELSE {})

\* _process_rpm_output: good, missing key, damaged, untrusted, unsigned.
ProcessRpmOutput(lines) ==
  CASE "BAD" \in lines -> 2
    [] "BAD" \notin lines /\ "NOKEY" \in lines -> 1
    [] lines \cap {"BAD", "NOKEY", "OK"} = {} /\ "NOTTRUSTED" \in lines -> 3
    [] lines = {"NOTFOUND"} -> 4
    [] OTHER -> 0

CheckSig(p, ring) == ProcessRpmOutput(RpmKeys(p, ring))

\* Base._sig_check_pkg: 0 is good, 1 may be helped with a key, 2 is fatal.
SigCheckPkg(p, ring) ==
  LET sig == CheckSig(p, ring)
      hasgpgkey == From[p] \in Repo /\ GpgKey[From[p]] # <<>>
  IN IF From[p] \notin Checked \/ sig = 0 THEN 0
     ELSE IF sig \in {1, 3} /\ hasgpgkey THEN 1 ELSE 2

------------------------------------------------------------------------------
(* The DNS: an answer is remembered if it is a key or the proof that there is *)
(* none, for as long as the process lives.                                    *)

\* DNSSECKeyVerification._cache_hit
CacheHit(known, k) ==
  IF known = k THEN "VALID" ELSE IF known = "none" THEN "PROVEN_NONEXISTENCE" ELSE "REVOKED"

\* DNSSECKeyVerification.verify; answer: what _cache_miss would return.
Verify(k, answer) ==
  IF cache[Owner[k]] # "unknown" THEN CacheHit(cache[Owner[k]], k) ELSE answer

Learned(keys, answer) ==
  [e \in Email |->
     LET told == {k \in keys : Owner[k] = e /\ answer[k] \in {"VALID", "PROVEN_NONEXISTENCE"}} IN
     IF cache[e] # "unknown" \/ told = {} THEN cache[e]
     ELSE LET k == CHOOSE l \in told : TRUE IN IF answer[k] = "VALID" THEN k ELSE "none"]

Answers(keys) == IF conf.dns THEN [keys -> Validity] ELSE {[k \in keys |-> "ERROR"]}

\* RpmImportedKeys.check_imported_keys_validity, when the sack is filled: it only
\* reports.
CheckImportedKeysValidity(answer) == IF conf.dns THEN Learned(keyring, answer) ELSE cache

\* The part of _get_key_for_package that decides on one key.
Approved(k, yes, answer) ==
  CASE conf.asks = "no" -> FALSE
    [] conf.asks = "yes" -> conf.dns => Verify(k, answer) \in {"VALID", "PROVEN_NONEXISTENCE"}
    [] OTHER -> yes

------------------------------------------------------------------------------
(* A command.                                                              *)

\* Base._gpg_key_check
GpgKeyCheck == marker \/ keyring # {}

\* The command begins: _checkGPGKey refuses, if there is neither a key nor a place
\* to get one from; else a transaction is resolved and downloaded.  A shell goes on
\* with its Base.
Start ==
  /\ job.state = "idle" /\ runs < MaxRuns
  /\ runs' = runs + 1 /\ marker' = GpgKeyCheck
  /\ \E same \in BOOLEAN, answer \in Answers(keyring), pkgs \in (SUBSET Package) \ {{}} :
       /\ tried' = IF same THEN tried ELSE {}
       /\ cache' = IF same THEN CheckImportedKeysValidity(answer) ELSE Unknown
       /\ IF ~GpgKeyCheck /\ \E r \in Repo \cap Checked : GpgKey[r] = <<>>
          THEN job' = [Idle EXCEPT !.state = "failed"]
          ELSE job' = [Idle EXCEPT !.state = "checking", !.left = pkgs]
  /\ UNCHANGED <<keyring, conf>>

Done(p, failed) ==
  job' = [job EXCEPT !.left = @ \ {p}, !.checked = @ \cup {p}, !.failed = @ \/ failed]

\* Nothing to do for p, or no help for it.
CheckOnly(p) ==
  LET result == SigCheckPkg(p, keyring) IN
  /\ result # 1 \/ conf.asks \in {"unattended", "automatic"}
  /\ IF result = 1 /\ conf.asks = "unattended"
     THEN job' = [job EXCEPT !.state = "failed"]
     ELSE Done(p, result # 0)
  /\ UNCHANGED <<keyring, marker, tried, cache, conf, runs>>

\* misc.keyInstalled: also an older or a newer edition will do.
KeyInstalled(k, ring) == \E l \in ring : Id[l] = Id[k]

\* Defect: whether the keys are the right ones is not looked at.
TrustsItsKeys(p, ring, installed) == ~installed

\* The end of _get_key_for_package: does it fail?
KeysDidNotHelp(p, ring, installed) == ~installed \/ SigCheckPkg(p, ring) # 0

\* _get_key_for_package: the keys of the repository are looked at once for each
\* Base.  The user answers for each of them; n of them are read before one cannot
\* be retrieved, which ends the command, or not be imported or verified.
GetKeyForPackage(p) ==
  LET r == From[p]
      urls == IF r \in tried THEN <<>> ELSE GpgKey[r]
  IN
  /\ SigCheckPkg(p, keyring) = 1 /\ conf.asks \notin {"unattended", "automatic"}
  /\ tried' = tried \cup {r}
  /\ \E n \in 0..Len(urls), lost \in BOOLEAN,
        yes \in SUBSET Range(urls), answer \in Answers(Range(urls)) :
       LET seen == {k \in Range(SubSeq(urls, 1, n)) : ~KeyInstalled(k, keyring)}
           got == {k \in seen : Approved(k, k \in yes, answer[k])}
       IN /\ keyring' = keyring \cup got
          /\ cache' = IF conf.dns THEN Learned(seen, answer) ELSE cache
          /\ IF n < Len(urls) /\ lost
             THEN job' = [job EXCEPT !.state = "failed"]
             ELSE Done(p, n < Len(urls) \/ KeysDidNotHelp(p, keyring', r \in tried \/ got # {}))
  /\ UNCHANGED <<marker, conf, runs>>

Check == job.state = "checking" /\ \E p \in job.left : CheckOnly(p) \/ GetKeyForPackage(p)

\* gpgsigcheck returns and the transaction is run, or it raises an Error.
GpgSigCheckEnds ==
  /\ job.state = "checking" /\ job.left = {}
  /\ job' = [job EXCEPT !.state = IF job.failed THEN "failed" ELSE "run"]
  /\ UNCHANGED <<keyring, marker, tried, cache, conf, runs>>

CommandEnds ==
  /\ job.state \in {"run", "failed"}
  /\ job' = Idle
  /\ UNCHANGED <<keyring, marker, tried, cache, conf, runs>>

\* The keys are packages, which can be removed between the commands.
RemoveKey ==
  /\ job.state = "idle" /\ runs < MaxRuns
  /\ \E k \in keyring : keyring' = keyring \ {k}
  /\ UNCHANGED <<marker, tried, cache, conf, job, runs>>

Next == Start \/ Check \/ GpgSigCheckEnds \/ CommandEnds \/ RemoveKey

Spec == Init /\ [][Next]_vars

------------------------------------------------------------------------------
\* Every variable has the type the code gives it.
TypeOK ==
  /\ keyring \subseteq Key /\ marker \in BOOLEAN /\ tried \subseteq Repo /\ conf \in Conf
  /\ cache \in [Email -> Key \cup {"unknown", "none"}]
  /\ job \in Job /\ runs \in Nat

\* A transaction is run only if every package of a repository that wants it checked
\* is whole and all of its signatures are by keys that rpm has by then, whichever of
\* the packages brought them and however often keys were asked for
\* (base.py:2578, 2670).
RunsOnlyVerified ==
  job.state = "run" =>
    \A p \in job.checked : From[p] \in Checked =>
      Signers[p] # {} /\ Signers[p] \subseteq {Id[k] : k \in keyring} /\ p \notin Damaged
==============================================================================
