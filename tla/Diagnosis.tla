----------------------------- MODULE Diagnosis -----------------------------
(***************************************************************************)
(* What a run says about itself: the diagnostics, the primary one, and the *)
(* checks it declares it did not make (main.rs diagnose, diagnose_resource,*)
(* choose_primary, classify_core_error, gaps).                             *)
(***************************************************************************)
EXTENDS Outcome

(***************************************************************************)
(* diagnose, one operator per block of the function.                       *)
(***************************************************************************)
StatementProblems(f, anchoring) ==
    UNION {When(f.sig = "No",      Err("StatementSignatureInvalid", "Crypto", 1, 1)),
           When(f.sig = "Unknown", Err("StatementSignatureNotEvaluated", "Unsupported", 1, 2)),
           When(f.chain = "Invalid", Err("CertificateChainInvalid", "SignerIdentity", 1, 3)),
           When(anchoring /\ ~ChainValid(f),
                Err("CertificateChainNotAnchored", "Unsupported", 1, 4))}

(* A broken receipt is a warning: appending one needs no key.  A receipt   *)
(* whose key is unknown or revoked is an error.                            *)
ReceiptProblems(f) ==
    (UNION {LET r == f.receipts[i] IN
            UNION {When(r.root = "No",  Warn("ReceiptRootSignatureInvalid", "Crypto", 2, i)),
                   When(r.bound = "No", Warn("ReceiptNotBoundToStatement", "Crypto", 2, i)),
                   When(r.lookup = "UnknownKid", Err("ReceiptKeyUnknown", "Trust", 2, i)),
                   When(r.lookup = "Revoked",    Err("ReceiptKeyRevoked", "Trust", 2, i))}
            : i \in DOMAIN f.receipts})
    \cup {Warn("ReceiptUnevaluable", "Input", 3, i) : i \in DOMAIN f.unevaluable}

(* Mutant: only the absence of receipts is named, not their failure.       *)
MutTransparencyProblem(f) == When(ReceiptsPresent(f) = 0, Err("NoReceipt", "Trust", 4, 0))

TransparencyProblem(f) ==
    IF ReceiptsPresent(f) = 0 THEN {Err("NoReceipt", "Trust", 4, 0)}
    ELSE When(~AnyReceiptVerified(f), Err("NoVerifiedReceipt", "Trust", 4, 0))

BindingProblem(b) ==
    When(b = "Mismatch", Err("ArtifactBindingMismatch", "Binding", 5, 0))
    \cup When(b = "CannotCompare", Err("ArtifactBindingUnevaluable", "Binding", 5, 0))

PolicyProblems(d) ==
    (UNION {When(d[i].outcome = "Fail", Err("PolicyAssertionFailed", "Policy", 6, i))
            \cup When(d[i].outcome = "CannotEvaluate",
                      Err("PolicyAssertionUnevaluable", "Policy", 6, i))
            : i \in DOMAIN d})
    \cup When(d = <<>>, Err("PolicyProducedNoAssertions", "Policy", 7, 0))

Diagnose(f, b, d, anchoring) ==
    UNION {StatementProblems(f, anchoring), ReceiptProblems(f), TransparencyProblem(f),
           BindingProblem(b), PolicyProblems(d)}

NoBindingNote(v, mode) ==
    When(v = "StatementTransparent" /\ mode # "SavedEvidence",
         Warn("ArtifactBindingNotRequested", "Binding", 8, 0))

DiagnoseResource(v, r) ==
    IF ~r.ran THEN {}
    ELSE When(v = "ResourceTransparent", Warn("ResourceAppraisalScoped", "Binding", 9, 0))
         \cup {Err("ResourceCheckFailed", "Binding", 10, i) :
                  i \in {k \in DOMAIN r.checks : r.checks[k].state = "Fail"}}
         \cup When(v = "CannotEvaluate" /\ Blocking(r),
                   Err("ResourceAppraisalIncomplete", "Binding", 11, 0))
         \cup {Warn("ResourceAppraisalNote", "Binding", 12, i) : i \in 1..r.notes}

(***************************************************************************)
(* choose_primary: the first error of the first wanted category that has   *)
(* one, else the first error, else the backstop.                           *)
(***************************************************************************)
Wanted(v) ==
    CASE v = "Untrusted"      -> <<"Crypto", "Binding", "SignerIdentity">>
      [] v = "PolicyFailed"   -> <<"Policy">>
      [] v = "ResourceFailed" -> <<"Binding">>
      [] v = "CannotEvaluate" -> <<"Trust", "Unsupported", "Policy">>
      [] OTHER                -> <<"Input", "Internal">>

Errors(ds)          == {d \in ds : d.severity = "Error"}
InCategory(ds, c)   == {d \in Errors(ds) : d.category = c}
UnexplainedFailure  == Err("UnexplainedFailure", "Internal", 99, 0)

ChoosePrimary(v, ds) ==
    LET hits == {k \in DOMAIN Wanted(v) : InCategory(ds, Wanted(v)[k]) # {}}
    IN  IF IsPass(v) THEN NoDiagnostic
        ELSE IF hits # {}
        THEN FirstOf(InCategory(ds, Wanted(v)[CHOOSE k \in hits : \A j \in hits : k <= j]))
        ELSE IF Errors(ds) # {} THEN FirstOf(Errors(ds)) ELSE UnexplainedFailure

(***************************************************************************)
(* classify_core_error: a statement the core could not evaluate at all is  *)
(* never untrusted.  The statement's own parse and signature can raise     *)
(* these classes of error.                                                 *)
(***************************************************************************)
CoreErrors == {"Malformed", "Structure", "UnsupportedVds", "UnsupportedAlgorithm",
               "TrustMaterial", "UnknownKid", "Crypto"}

ClassifyCoreError(e) ==
    CASE e \in {"UnsupportedVds", "UnsupportedAlgorithm"} ->
            Err("UnsupportedFeature", "Unsupported", 1, 0)
      [] e = "TrustMaterial" -> Err("TrustMaterialUnusable", "Trust", 1, 0)
      [] e = "UnknownKid"    -> Err("ReceiptKeyUnknown", "Trust", 1, 0)
      [] e = "Crypto"        -> Err("CryptoBackendError", "Unsupported", 1, 0)
      [] e \in {"Malformed", "Structure"} -> Err("StatementMalformed", "Input", 1, 0)

(***************************************************************************)
(* gaps: the checks a run declares it did not make.  "known" and "decided" *)
(* say whether facts and a decision exist yet.                             *)
(***************************************************************************)
RootAuthorized(d) == \E i \in DOMAIN d : /\ d[i].rule = "chainRootSource"
                                         /\ d[i].outcome = "Pass"
                                         /\ d[i].anchored

ChainGap(f, d) ==
    CASE ~f.certs                                            -> {"NoCertificateChain"}
      [] f.certs /\ ChainValid(f) ->
            IF f.chain = "Anchored" \/ RootAuthorized(d) THEN {}
            ELSE {"CertificateChainNotAnchoredExternally"}
      [] f.certs /\ f.chain = "Invalid"                      -> {}
      [] f.certs /\ f.chain \in {"Insufficient", "None"}     -> {"CertificateChainNotValidated"}
      [] f.certs /\ f.chain = "Unsupported"                  -> {"CertificateChainUnsupported"}

DecisionGaps(d) ==
    {g \in {"ExternalSignerChainNotValidated", "RootSourceFreshnessNotChecked",
            "PolicyAssertionUnevaluable"} : \E i \in DOMAIN d :
        \/ /\ g = "ExternalSignerChainNotValidated"
           /\ d[i].rule = "externalSignatures" /\ d[i].outcome = "Pass" /\ ~d[i].anchored
        \/ g = "RootSourceFreshnessNotChecked" /\ d[i].material
        \/ g = "PolicyAssertionUnevaluable" /\ d[i].outcome = "CannotEvaluate"}

MaaGaps == {"MaaSigningKeyBindingNotEstablished", "MaaFreshnessNotEstablished",
            "MaaCertificateValidityNotChecked", "MaaVersionHeaderNotAttested",
            "MaaGuestEnforcementNotEstablished", "MaaPlatformPolicyNotAppraised",
            "MaaCertificateScopeLimited"}

GapNames == MaaGaps \cup
    {"MaaSavedMetadataUnsigned", "MaaAppraisalLimitation", "GuestMeasurementNotAppraised",
     "AmdCertificateRevocationNotChecked", "NoCertificateChain",
     "CertificateChainNotAnchoredExternally", "CertificateChainNotValidated",
     "CertificateChainUnsupported", "ExternalSignerChainNotValidated",
     "RootSourceFreshnessNotChecked", "PolicyAssertionUnevaluable",
     "ArtifactBindingNotRequested", "RevocationNotChecked", "PolicyNotEvaluated"}

AdapterGaps(adapter, mode) ==
    CASE adapter = "AzureAttestation" ->
            MaaGaps
            \cup (IF mode = "SavedEvidence" THEN {"MaaSavedMetadataUnsigned"} ELSE {})
      [] adapter = "AmdSnpDevice" ->
            {"GuestMeasurementNotAppraised", "AmdCertificateRevocationNotChecked"}
      [] OTHER -> {}

Gaps(adapter, mode, known, f, decided, d) ==
    UNION {AdapterGaps(adapter, mode),
           IF mode = "None" THEN {"ArtifactBindingNotRequested"} ELSE {},
           IF known THEN ChainGap(f, IF decided THEN d ELSE <<>>) ELSE {},
           {"RevocationNotChecked"},
           IF decided THEN DecisionGaps(d) ELSE {"PolicyNotEvaluated"}}
=============================================================================
