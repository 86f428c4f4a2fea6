------------------------------- MODULE Fleet -------------------------------
(***************************************************************************)
(* The Azure Confidential Ledger appraisal: what one node's evidence       *)
(* establishes (snp.rs, identity.rs) and how the nodes roll up into the    *)
(* checks a gate reads (the adapter's lib.rs, and appraise_evidence in     *)
(* the verifier's adapters/acl.rs).  A certificate, a digest or a key is a *)
(* number; 0 is one that is absent or unusable.  What the attestation      *)
(* library verifies is a field of the evidence.                            *)
(***************************************************************************)
EXTENDS Adapter, FiniteSets

ACL == "AzureConfidentialLedger"

(* The signer and the chip tie a report to the AMD chain endorsing it: no  *)
(* chain names chip 0, so a report signed by 0 is one nobody signed.       *)
Reports == [signer : Nat, generation : Generations, tcb : Seq(Nat),
            hostData : Nat, key : Nat]
AmdChains    == [count : Nat, chip : Nat]
(* "Outdated" is authentic but of another feed or below the least SVN;     *)
(* "Oversized" is authentic and larger than one file this build re-reads.  *)
UvmEndorsements == {"Endorsed", "Outdated", "WrongRole", "Forged", "Empty", "Oversized"}
NodeCertificates == [kind : {"None", "One", "Other"}, key : Nat, issuer : Nat]
Unlisted == [kind |-> "Unlisted", key |-> 0, issuer |-> 0]    \* a node listed without one

Nodes  == [id : Nat, report : Reports, amd : AmdChains,
           uvm : UvmEndorsements, cert : NodeCertificates]
Floors == [generation : Generations \cup {"other"}, tcb : Seq(Nat)]
Bundles == [ledger : Hosts, service : Nat, nodes : Seq(Nodes)]

-----------------------------------------------------------------------------
(* tav::verify_attestation: the report's signature under the AMD chain.    *)
Authenticates(node) ==
    /\ node.amd.count = 3
    /\ node.report.signer = node.amd.chip
    /\ node.amd.chip # 0

(* tcb_floor: an empty floor, or one naming no known generation, would be  *)
(* skipped by the library, which is to accept any TCB.                     *)
UsableFloor(floors) ==
    floors # <<>> /\ \A i \in DOMAIN floors : floors[i].generation \in Generations

(* Mutant: a floor for another generation is taken to cover the node.      *)
MutFloorCovers(generation, floors) == floors # <<>>

FloorCovers(generation, floors) ==
    \E i \in DOMAIN floors : floors[i].generation = generation

(* The library compares the entries of the node's own generation only.     *)
MeetsFloor(report, floors) ==
    \A i \in DOMAIN floors :
        floors[i].generation = report.generation => AtLeast(report.tcb, floors[i].tcb)

EndorsedRole(uvm) == uvm \in {"Endorsed", "Outdated", "Oversized"}

(* verify_node: Err, or an authentic report with or without an unmet       *)
(* requirement; the library's own HOST_DATA comparison is one of them.     *)
VerifyNode(node, digest, floors) ==
    IF ~( /\ UsableFloor(floors)
          /\ Authenticates(node)
          /\ FloorCovers(node.report.generation, floors)
          /\ EndorsedRole(node.uvm) )
    THEN "Refused"
    ELSE IF /\ node.report.hostData = digest
            /\ MeetsFloor(node.report, floors)
            /\ node.uvm # "Outdated"
         THEN "Met" ELSE "Unmet"

(* identity.rs verify_binding: both links, the report to the key and the   *)
(* key to the service.                                                     *)
VerifyBinding(node, service) ==
    /\ node.cert.kind = "One"
    /\ node.cert.key = node.report.key
    /\ node.cert.issuer = service

(* Mutant: with no certificate recorded the node is taken to be foreign.   *)
MutAssessBinding(node, service) ==
    IF service # 0 /\ VerifyBinding(node, service) THEN "Pass" ELSE "Fail"

AssessBinding(node, service) ==
    IF service = 0 \/ node.cert.kind = "None" THEN "CannotEvaluate"
    ELSE IF VerifyBinding(node, service)      THEN "Pass" ELSE "Fail"

(* Mutant: a node of another policy is also a node below its requirements. *)
MutNodeOutcome(node, service, digest, floors) ==
    LET verified == VerifyNode(node, digest, floors)
    IN  IF verified = "Refused"
        THEN [binding |-> "CannotEvaluate", attestation |-> "Fail",
              hostData |-> "CannotEvaluate", key |-> 0]
        ELSE [binding     |-> AssessBinding(node, service),
              attestation |-> IF verified = "Met" THEN "Pass" ELSE "Fail",
              hostData    |-> IF node.report.hostData = digest THEN "Pass" ELSE "Fail",
              key         |-> node.report.key]

(* Nothing in a report that did not authenticate is an identity or a       *)
(* disagreement; one rejected while its policy disagrees is accused of     *)
(* that only, the library having stopped at the first unmet requirement.   *)
NodeOutcome(node, service, digest, floors) ==
    LET verified == VerifyNode(node, digest, floors)
        agrees   == node.report.hostData = digest
    IN  IF verified = "Refused"
        THEN [binding |-> "CannotEvaluate", attestation |-> "Fail",
              hostData |-> "CannotEvaluate", key |-> 0]
        ELSE [binding     |-> AssessBinding(node, service),
              attestation |-> IF verified = "Met" THEN "Pass"
                              ELSE IF agrees THEN "Fail" ELSE "CannotEvaluate",
              hostData    |-> IF agrees THEN "Pass" ELSE "Fail",
              key         |-> node.report.key]

(* N entries are N nodes only if they attested N different keys.           *)
Coverage(outcomes) ==
    IF \/ \E i \in DOMAIN outcomes : outcomes[i].hostData = "CannotEvaluate"
       \/ Cardinality({outcomes[i].key : i \in DOMAIN outcomes}) # Len(outcomes)
    THEN "Fail" ELSE "Pass"

(* Every rule is of the form "all agreed", which no node satisfies.        *)
Aggregate(outcomes) ==
    LET each(field) == Roll({outcomes[i][field] : i \in DOMAIN outcomes})
    IN  [Unevaluated(ACL) EXCEPT
            !["ledger-identity-binding"] = each("binding"),
            !["snp-uvm-validation"]      = each("attestation"),
            !["cce-policy-host-data"]    = each("hostData"),
            !["node-coverage"] = IF outcomes = <<>> THEN "CannotEvaluate" ELSE Coverage(outcomes)]

AppraiseNodes(bundle, digest, floors, notes) ==
    LET outcomes == [i \in DOMAIN bundle.nodes |->
                        NodeOutcome(bundle.nodes[i], bundle.service, digest, floors)]
        questionable == {i \in DOMAIN outcomes :
                            \/ outcomes[i].attestation # "Pass"
                            \/ outcomes[i].hostData # "Pass"}
    IN  IF bundle.nodes = <<>> THEN NotAttempted(ACL)
        ELSE Report(ACL, Aggregate(outcomes), notes + Cardinality(questionable))

-----------------------------------------------------------------------------
(* A policy pins the build ("pin") and the fleet's size ("count"); 0 is    *)
(* no such requirement.                                                    *)
LedgerPolicies == [host : Hosts, floors : Seq(Floors),
                   pin : Nat, count : Nat]
(* The statement's execution policy: its digest, whether it could be read, *)
(* and whether it exceeds what the policy allows.                          *)
PolicyClaims == [readable : BOOLEAN, oversized : BOOLEAN, digest : Nat]

ClaimUsable(claim) == claim.readable /\ ~claim.oversized
PinMet(policy, claim) == policy.pin \in {0, claim.digest}

(* Before any evidence is looked for: what ends the appraisal already.     *)
BeforeEvidence(policy, claim) ==
    IF ~ClaimUsable(claim) THEN NotAttempted(ACL)
    ELSE Disagreed(ACL, "cce-policy-host-data")

(* The evidence is about the ledger the policy names, and all of it.       *)
AppraiseLedger(policy, claim, bundle) ==
    IF ~SameHost(policy.host, bundle.ledger)
    THEN Disagreed(ACL, "ledger-identity-binding")
    ELSE IF policy.count \notin {0, Len(bundle.nodes)} THEN NotAttempted(ACL)
    ELSE AppraiseNodes(bundle, claim.digest, policy.floors, IF policy.pin = 0 THEN 0 ELSE 1)
=============================================================================
