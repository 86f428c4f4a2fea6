------------------------------ MODULE Rebuild ------------------------------
(***************************************************************************)
(* The image-reproduction appraisal (image-reproduction/src/lib.rs and the *)
(* verifier's adapters/reproduction.rs): the record the statement commits  *)
(* to by digest, and an operator's rebuild compared with that record.  A   *)
(* record's "bytes" stands for its exact bytes, and so for its SHA-256.    *)
(***************************************************************************)
EXTENDS Adapter, FiniteSets

REPRO == "ImageReproduction"

Informational == 1..3             \* INFORMATIONAL_FIELDS

(* "claimed" are the five inputs the statement repeats, "other" the four   *)
(* it does not, "builder" what is reported and never compared; 0 is a      *)
(* missing field.  Layers that are not digests make it "NotRecord"; a file *)
(* that is a directory, a link out of the bundle or oversized, "Unusable". *)
Records == [bytes : Nat, claimed : Nat, other : Nat, builder : [Informational -> Nat],
            layers : Seq(Nat),
            form : {"Record", "NotRecord", "OtherSchema", "Absent", "Unusable"}]

Claims == [payload : {"Json", "NotJson", "Unavailable"},
           shape : {"WellFormed", "Malformed", "OtherVersion"},
           component : Nat, repository : Nat, inputs : Nat, record : Nat]
RebuildPolicies == [profile : BOOLEAN, component : Nat, repository : Nat]

-----------------------------------------------------------------------------
(* read_claim and check_component.                                         *)
ClaimState(claim, policy) ==
    IF claim.payload = "Unavailable"         THEN "CannotEvaluate"
    ELSE IF claim.payload = "NotJson"        THEN "Fail"
    ELSE IF claim.shape = "OtherVersion"     THEN "CannotEvaluate"
    ELSE IF \/ claim.shape = "Malformed"
            \/ claim.component # policy.component THEN "Fail"
    ELSE "Pass"

HasInputs(record) == record.claimed # 0 /\ record.other # 0

(* parse_record of the published one: an empty list of layers could not    *)
(* fail to be matched.                                                     *)
Expectation(record) == record.layers # <<>> /\ HasInputs(record)

(* Mutant: the record is read, and believed, before its digest is.         *)
MutBinding(claim, record) ==
    IF record.form = "Absent"                 THEN "CannotEvaluate"
    ELSE IF record.form = "OtherSchema"       THEN "CannotEvaluate"
    ELSE IF \/ record.form = "NotRecord"
            \/ ~Expectation(record)
            \/ record.claimed # claim.inputs  THEN "Fail"
    ELSE "Pass"

(* bind_record: the digest comes first, and over the exact bytes.          *)
Binding(claim, record) ==
    IF record.form = "Absent"                 THEN "CannotEvaluate"
    ELSE IF record.bytes # claim.record       THEN "Fail"
    ELSE IF record.form = "OtherSchema"       THEN "CannotEvaluate"
    ELSE IF \/ record.form = "NotRecord"
            \/ ~Expectation(record)
            \/ record.claimed # claim.inputs  THEN "Fail"
    ELSE "Pass"

(* read_rebuilt: what the operator's file cannot say is never a finding.   *)
Comparable(published, rebuilt) ==
    rebuilt.form = "Record" /\ HasInputs(rebuilt)

SameLayers(published, rebuilt) == published.layers = rebuilt.layers
SameInputs(published, rebuilt) ==
    published.claimed = rebuilt.claimed /\ published.other = rebuilt.other

Compared(same) == IF same THEN "Pass" ELSE "Fail"

AppraiseRecords(policy, claim, published, rebuilt) ==
    LET bound == Binding(claim, published) = "Pass"
        ready == bound /\ Comparable(published, rebuilt)
    IN  [Unevaluated(REPRO) EXCEPT
            !["reproduction-claim"] = "Pass",
            !["source-repository"]  = Compared(claim.repository = policy.repository),
            !["record-binding"]     = Binding(claim, published),
            !["rebuild-inputs"] =
                IF ready THEN Compared(SameInputs(published, rebuilt)) ELSE "CannotEvaluate",
            !["rebuild-layers"] =
                IF ready THEN Compared(SameLayers(published, rebuilt)) ELSE "CannotEvaluate"]

RebuildNotes(claim, published, rebuilt) ==
    IF /\ Binding(claim, published) = "Pass"
       /\ Comparable(published, rebuilt)
    THEN Cardinality({f \in Informational : published.builder[f] # rebuilt.builder[f]})
    ELSE 0

(* Nothing is asked of the evidence until the claim is established.        *)
AppraiseRebuild(policy, claim, published, rebuilt) ==
    IF "Unusable" \in {published.form, rebuilt.form} THEN NotAttempted(REPRO)
    ELSE IF ~policy.profile THEN Report(REPRO, Unevaluated(REPRO), 0)
    ELSE IF ClaimState(claim, policy) # "Pass"
    THEN Report(REPRO, [Unevaluated(REPRO) EXCEPT
                           !["reproduction-claim"] = ClaimState(claim, policy)], 0)
    ELSE Report(REPRO, AppraiseRecords(policy, claim, published, rebuilt),
                RebuildNotes(claim, published, rebuilt))
=============================================================================
