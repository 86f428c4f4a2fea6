---------------------------- MODULE Attestation ----------------------------
(***************************************************************************)
(* The Azure Attestation appraisal (evidence.rs, snp.rs and the verifier's *)
(* adapters/maa.rs): the reports carried by the certificates of one key    *)
(* set, each compared with the execution policy of the statement.          *)
(***************************************************************************)
EXTENDS Adapter, FiniteSets

CONSTANT MaxKeys    \* MAX_KEYS of one response

ASSUME MaxKeysAssumption == MaxKeys \in Nat \ {0}

MAA == "AzureAttestation"

(* What one key's certificates carry: no evidence, evidence that does not  *)
(* parse, or a report.                                                     *)
Keys == [kind : {"Ordinary", "Malformed", "Report"}, genuine : BOOLEAN, hostData : Nat]

(* Mutant: an evidence extension that does not parse is passed over.       *)
MutBears(key) == key.kind = "Report"

(* key_evidence: an extension that is there and unreadable is evidence.    *)
Bears(key) == key.kind # "Ordinary"

Authentic(key) == key.kind = "Report" /\ key.genuine

(* The findings on each check; a certificate without the extensions has    *)
(* none, and leaves only a note.                                           *)
Validation(keys) ==
    {IF Authentic(keys[i]) THEN "Pass" ELSE "Fail" : i \in {j \in DOMAIN keys : Bears(keys[j])}}

HostData(keys, digest) ==
    {IF ~Authentic(keys[i]) THEN "CannotEvaluate"
     ELSE IF keys[i].hostData = digest THEN "Pass" ELSE "Fail"
        : i \in {j \in DOMAIN keys : Bears(keys[j])}}

CertificateCoverage(keys) ==
    Validation(keys) \cup (IF \E i \in DOMAIN keys : keys[i].kind = "Report"
                           THEN {} ELSE {"CannotEvaluate"})

UsableKeySet(keys) == Len(keys) \in 1..MaxKeys

(* A key set that cannot be read is a failure of its coverage alone.       *)
AppraiseKeys(keys, digest) ==
    IF ~UsableKeySet(keys)
    THEN [Unevaluated(MAA) EXCEPT !["maa-certificate-coverage"] = "Fail"]
    ELSE [Unevaluated(MAA) EXCEPT
             !["snp-validation"]           = Roll(Validation(keys)),
             !["cce-policy-host-data"]     = Roll(HostData(keys, digest)),
             !["maa-certificate-coverage"] = Roll(CertificateCoverage(keys))]

(* Seven limits, one note per ordinary certificate, the target and the     *)
(* version; saved metadata is disclosed to be the collector's word.        *)
AttestationNotes(keys, saved) ==
    9 + Cardinality({i \in DOMAIN keys : UsableKeySet(keys) /\ ~Bears(keys[i])})
      + (IF saved THEN 1 ELSE 0)

-----------------------------------------------------------------------------
(* maa-evidence.json; "target" is compared exactly, spelling included.     *)
NoHost == [name |-> 0, form |-> "Spelled"]
KeySets == [current : BOOLEAN, target : Hosts,
            object : BOOLEAN, keys : Seq(Keys)]

Valid(evidence, target) ==
    /\ evidence.current
    /\ evidence.target = target
    /\ evidence.object

(* target_host: an endpoint named for a live run overrides the policy's.   *)
Target(policy, endpoint) == IF endpoint # NoHost THEN endpoint ELSE policy.target

AppraiseAttestation(target, claim, evidence, saved) ==
    IF ~Valid(evidence, target) THEN NotAttempted(MAA)
    ELSE Report(MAA, AppraiseKeys(evidence.keys, claim.digest),
                AttestationNotes(evidence.keys, saved))
=============================================================================
