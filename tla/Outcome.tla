------------------------------ MODULE Outcome ------------------------------
(***************************************************************************)
(* The vocabulary of a verification result and the pure functions that     *)
(* produce one: outcome.rs, and decide / diagnose / choose_primary / gaps  *)
(* / narrow_for_resource / diagnose_resource in main.rs.  Messages,        *)
(* actions and identifiers are left out; a diagnostic is its code,         *)
(* category and severity, which is what a gate reads.                      *)
(***************************************************************************)
EXTENDS Naturals, Sequences

Passes   == {"ArtifactTransparent", "ResourceTransparent", "StatementTransparent"}
Verdicts == Passes \cup {"Untrusted", "PolicyFailed", "ResourceFailed",
                         "CannotEvaluate", "UsageError"}

IsPass(v) == v \in Passes

ExitCode(v) == CASE v \in Passes                            -> 0
                 [] v = "Untrusted"                         -> 1
                 [] v \in {"PolicyFailed", "ResourceFailed"} -> 2
                 [] v = "CannotEvaluate"                    -> 3
                 [] v = "UsageError"                        -> 4

CheckStates == {"Pass", "Fail", "NotChecked", "CannotEvaluate"}
Categories  == {"Input", "Trust", "Crypto", "Binding", "Policy",
                "SignerIdentity", "Unsupported", "Internal"}

(* The acquisition faults, the configuration ones apart: is_configuration. *)
ConfigurationFaults == {"InvalidIssuer", "InvalidRootSource", "UnsupportedProvider",
                        "UnsupportedPlatform"}
AcquisitionFaults == ConfigurationFaults \cup
    {"Transport", "TlsAuthentication", "ResponseTooLarge", "MalformedIdentity",
     "MalformedKeySet", "ServiceKeyMismatch", "DeadlineExceeded", "MalformedRoots"}

(* Every code a pipeline may match on.                                     *)
Codes == AcquisitionFaults \cup
    {"None", "StatementUnreadable", "PolicyUnreadable", "PolicyMalformed",
     "AdapterPolicyMismatch", "ExternalRootSourceInvalid", "TrustedRootsUnreadable",
     "TrustedRootsUnusable", "TrustMaterialUnreadable", "TrustMaterialUnusable",
     "AcquisitionNotConfigured", "NoLedgerSelected", "AcquisitionAmbiguousKid",
     "StatementMalformed", "UnsupportedFeature", "CryptoBackendError",
     "ArtifactUnreadable", "StatementSignatureInvalid", "StatementSignatureNotEvaluated",
     "CertificateChainInvalid", "CertificateChainNotAnchored",
     "ReceiptRootSignatureInvalid", "ReceiptNotBoundToStatement", "ReceiptKeyUnknown",
     "ReceiptKeyRevoked", "ReceiptUnevaluable", "NoReceipt", "NoVerifiedReceipt",
     "ArtifactBindingMismatch", "ArtifactBindingUnevaluable",
     "ArtifactBindingNotRequested", "PolicyAssertionFailed",
     "PolicyAssertionUnevaluable", "PolicyProducedNoAssertions",
     "ResourceAppraisalScoped", "ResourceCheckFailed", "ResourceAppraisalIncomplete",
     "ResourceAppraisalNote", "UnexplainedFailure"}

(* A diagnostic is filed where the code pushes it: "phase" is the block of *)
(* evaluate that raised it and "index" the receipt, assertion or source it *)
(* is about, so that "the first error" is well defined on a set of them.   *)
Diagnostics == [code : Codes, category : Categories, severity : {"Error", "Warning"},
                phase : Nat, index : Nat]

Diag(severity, code, category, phase, index) ==
    [code |-> code, category |-> category, severity |-> severity,
     phase |-> phase, index |-> index]

Err(code, category, phase, index)  == Diag("Error", code, category, phase, index)
Warn(code, category, phase, index) == Diag("Warning", code, category, phase, index)
NoDiagnostic == Warn("None", "Internal", 0, 0)

Before(d, e) == d.phase < e.phase \/ (d.phase = e.phase /\ d.index < e.index)
FirstOf(S)   == CHOOSE d \in S : \A e \in S : ~Before(e, d)
When(condition, diagnostic) == IF condition THEN {diagnostic} ELSE {}

(***************************************************************************)
(* Facts: what scitt-receipt reports of one statement.  "sig" and "root"   *)
(* are Option<bool>: "Unknown" is None, never a failure.                   *)
(***************************************************************************)
Trilean       == {"Yes", "No", "Unknown"}
ChainOutcomes == {"None", "Valid", "Anchored", "Invalid", "Insufficient", "Unsupported"}
KeyLookups    == {"None", "Found", "UnknownKid", "Revoked"}
UnevaluableKinds == {"Unreadable", "Unsupported", "TrustMaterial"}

ReceiptFacts   == [lookup : KeyLookups, root : Trilean, bound : Trilean]
StatementFacts == [sig : Trilean, chain : ChainOutcomes, certs : BOOLEAN,
                   receipts : Seq(ReceiptFacts), unevaluable : Seq(UnevaluableKinds)]

(* receipt.rs fully_verified *)
FullyVerified(r) == r.root = "Yes" /\ r.bound = "Yes" /\ r.lookup = "Found"

(* Mutant: every receipt must verify, not one.                             *)
MutAnyReceiptVerified(f) ==
    f.receipts # <<>> /\ \A i \in DOMAIN f.receipts : FullyVerified(f.receipts[i])

AnyReceiptVerified(f) == \E i \in DOMAIN f.receipts : FullyVerified(f.receipts[i])
ReceiptsPresent(f)    == Len(f.receipts) + Len(f.unevaluable)
ChainValid(f)         == f.chain \in {"Valid", "Anchored"}

Bindings == {"NotRequested", "Bound", "Mismatch", "CannotCompare"}

BindingState(b) == CASE b = "Bound"         -> "Pass"
                     [] b = "Mismatch"      -> "Fail"
                     [] b = "CannotCompare" -> "CannotEvaluate"
                     [] b = "NotRequested"  -> "NotChecked"

SignatureState(f) == CASE f.sig = "Yes"     -> "Pass"
                       [] f.sig = "No"      -> "Fail"
                       [] f.sig = "Unknown" -> "CannotEvaluate"

(* A receipt that does not verify is never a failure: it may be noise.     *)
ReceiptState(f) == IF AnyReceiptVerified(f) THEN "Pass" ELSE "CannotEvaluate"

(***************************************************************************)
(* A policy decision is the sequence of its assertion results.             *)
(***************************************************************************)
AssertionOutcomes == {"Pass", "Fail", "CannotEvaluate"}
AssertionResults  == [rule : {"plain", "chainRootSource", "externalSignatures"},
                      outcome : AssertionOutcomes,
                      anchored : BOOLEAN,     \* root pin or root source matched
                      material : BOOLEAN]     \* an acquired HTTPS root bundle was used

DecisionFailed(d)      == \E i \in DOMAIN d : d[i].outcome = "Fail"
DecisionUnevaluable(d) == \E i \in DOMAIN d : d[i].outcome = "CannotEvaluate"
DecisionSatisfied(d)   == d # <<>> /\ \A i \in DOMAIN d : d[i].outcome = "Pass"

PolicyState(d) == IF DecisionFailed(d)         THEN "Fail"
                  ELSE IF DecisionSatisfied(d) THEN "Pass" ELSE "CannotEvaluate"

(***************************************************************************)
(* decide: the verdict on the statement, before any adapter, in the order  *)
(* of its early returns.                                                   *)
(***************************************************************************)
Indicted(f, b) == f.sig = "No" \/ b = "Mismatch" \/ f.chain = "Invalid"

(* Mutant: the supplied roots are not asked about.                         *)
MutUnanswered(f, anchoring) == ~AnyReceiptVerified(f) \/ f.sig = "Unknown"

Unanswered(f, anchoring) == \/ anchoring /\ ~ChainValid(f)
                            \/ ~AnyReceiptVerified(f)
                            \/ f.sig = "Unknown"

Success(b, mode) == IF mode = "None" \/ b = "NotRequested" THEN "StatementTransparent"
                    ELSE IF b = "Bound"                    THEN "ArtifactTransparent"
                    ELSE IF b = "CannotCompare"            THEN "CannotEvaluate"
                    ELSE "Untrusted"

Decide(f, b, d, mode, anchoring) ==
    IF Indicted(f, b)                THEN "Untrusted"
    ELSE IF Unanswered(f, anchoring) THEN "CannotEvaluate"
    ELSE IF DecisionFailed(d)        THEN "PolicyFailed"
    ELSE IF ~DecisionSatisfied(d)    THEN "CannotEvaluate"
    ELSE Success(b, mode)

(***************************************************************************)
(* Adapters.  required_checks_pass: every required name is exactly one     *)
(* check and that check passed; an empty contract is never met.            *)
(***************************************************************************)
Named(checks, name) == {i \in DOMAIN checks : checks[i].name = name}

RequiredMet(checks, name) ==
    \E i \in DOMAIN checks : Named(checks, name) = {i} /\ checks[i].state = "Pass"

RequiredChecksPass(checks, required) ==
    required # <<>> /\ \A n \in DOMAIN required : RequiredMet(checks, required[n])

(* No adapter ran: not the same as an adapter that established nothing.    *)
NoResource == [ran |-> FALSE, checks |-> <<>>, required |-> <<>>, notes |-> 0]

ScopedPass(r) == RequiredChecksPass(r.checks, r.required)
Blocking(r)   == r.required = <<>> \/ ~ScopedPass(r)
AnyFail(r)    == \E i \in DOMAIN r.checks : r.checks[i].state = "Fail"

Narrow(v, r) == IF ~r.ran \/ ~IsPass(v)  THEN v
                ELSE IF ScopedPass(r)   THEN "ResourceTransparent"
                ELSE IF AnyFail(r)      THEN "ResourceFailed" ELSE "CannotEvaluate"

(***************************************************************************)
(* What asking the selected ledgers and root endpoints came to: the        *)
(* record's acquisition block.                                             *)
(***************************************************************************)
(* "config" is a configuration document that was retrieved for that issuer.*)
AcquisitionBlocks ==
    [attempted : BOOLEAN, present : BOOLEAN,
     acquired  : Seq([ambiguous : BOOLEAN, config : BOOLEAN]),
     failed    : Seq(AcquisitionFaults),
     roots     : Seq(AcquisitionFaults \cup {"Acquired"})]

NothingAcquired(attempted, present) ==
    [attempted |-> attempted, present |-> present,
     acquired |-> <<>>, failed |-> <<>>, roots |-> <<>>]
=============================================================================
