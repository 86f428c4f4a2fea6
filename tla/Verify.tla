------------------------------- MODULE Verify -------------------------------
(***************************************************************************)
(* One run of the verify command up to its assessment: main.rs evaluate,   *)
(* resolve_trust, check_binding and run_adapter, one action per stage.     *)
(* Every stage can end the run early with an incomplete assessment; the    *)
(* environment (files, network, statement, policy, evidence) chooses what  *)
(* a stage finds.                                                          *)
(***************************************************************************)
EXTENDS Cli, Diagnosis

CONSTANTS
    Requests,      \* the command lines tried
    Policies,      \* the policies that parse
    Statements,    \* the facts a statement may yield
    Decisions,     \* the results a policy may produce
    Acquisitions,  \* what asking the selected ledgers and root endpoints may yield
    Required,      \* the names of the checks an adapter requires
    Appraisals     \* what an adapter may report

PolicyDocuments == [adapters : SUBSET AdapterNames, rootSourcesValid : BOOLEAN]

AdapterChecks == [name : STRING, state : CheckStates]
Resources     == [ran : BOOLEAN, checks : Seq(AdapterChecks),
                  required : Seq(STRING), notes : Nat]

ASSUME RequestsAssumption     == Requests \subseteq CommandLines
ASSUME PoliciesAssumption     == Policies \subseteq PolicyDocuments
ASSUME StatementsAssumption   == Statements \subseteq StatementFacts
ASSUME DecisionsAssumption    == Decisions \subseteq Seq(AssertionResults)
ASSUME AcquisitionsAssumption ==
    Acquisitions \subseteq {a \in AcquisitionBlocks : a.attempted /\ a.present}
ASSUME RequiredAssumption     == Required \in Seq(STRING)
ASSUME AppraisalsAssumption   == Appraisals \subseteq {r \in Resources : r.ran}

VARIABLES
    args, pc, policy,
    acquisition,   \* the record's acquisition block
    facts,         \* meaningful from pc = "Binding" on
    binding, decision, base, resource,
    assessment     \* what evaluate returns

vars == <<args, pc, policy, acquisition, facts, binding, decision, base, resource, assessment>>

Unverified   == [sig |-> "Unknown", chain |-> "None", certs |-> FALSE,
                 receipts |-> <<>>, unevaluable |-> <<>>]
NoPolicy     == [adapters |-> {}, rootSourcesValid |-> TRUE]
NothingChecked == [signature |-> "NotChecked", receipt |-> "NotChecked",
                   binding |-> "NotChecked", policy |-> "NotChecked",
                   adapter |-> <<>>, required |-> <<>>]

Pending == [verdict |-> "CannotEvaluate", primary |-> NoDiagnostic, diagnostics |-> {},
            checks |-> NothingChecked, notChecked |-> {}, trust |-> "unsigned-scitt-keys",
            binding |-> "NotRequested"]

Init == /\ args \in Requests
        /\ pc = "Parse"
        /\ policy = NoPolicy
        /\ acquisition = NothingAcquired(FALSE, FALSE)
        /\ facts = Unverified
        /\ binding = "NotRequested"
        /\ decision = <<>>
        /\ base = "CannotEvaluate"
        /\ resource = NoResource
        /\ assessment = Pending

-----------------------------------------------------------------------------
(* Assessment::incomplete, for the aborts before any fact is known.        *)
Incomplete(verdict, trust, primary) ==
    [verdict |-> verdict, primary |-> primary, diagnostics |-> {primary},
     checks |-> NothingChecked, binding |-> "NotRequested", trust |-> trust,
     notChecked |-> Gaps(args.adapter, args.mode, FALSE, Unverified, FALSE, <<>>)]

Abort(verdict, trust, primary) ==
    /\ pc' = "Done"
    /\ assessment' = Incomplete(verdict, trust, primary)
    /\ UNCHANGED <<args, binding, decision, base, resource, facts>>

Proceed(stage) == pc' = stage /\ UNCHANGED <<args, assessment>>

(* cli::parse.  A refused command line prints usage and exits 4.           *)
Parse ==
    /\ pc = "Parse"
    /\ IF Accepted(args) THEN Proceed("Inputs") ELSE Proceed("Refused")
    /\ UNCHANGED <<policy, acquisition, facts, binding, decision, base, resource>>

ReadInputs ==
    /\ pc = "Inputs"
    /\ UNCHANGED acquisition
    /\ \/ \E code \in {"StatementUnreadable", "PolicyUnreadable", "PolicyMalformed"} :
            /\ Abort("UsageError", "unsigned-scitt-keys", Err(code, "Input", 1, 0))
            /\ UNCHANGED policy
       \/ /\ policy' \in Policies
          /\ Proceed("Request")
          /\ UNCHANGED <<facts, binding, decision, base, resource>>

(* adapters::validate_request: the policy and the command line name the    *)
(* same adapter, and only one.                                             *)
ValidRequest(adapter, configured) ==
    IF adapter = "None" THEN configured = {} ELSE configured = {adapter}

CheckRequest ==
    /\ pc = "Request"
    /\ UNCHANGED <<policy, acquisition>>
    /\ IF ~ValidRequest(args.adapter, policy.adapters)
       THEN Abort("UsageError", "unsigned-scitt-keys",
                  Err("AdapterPolicyMismatch", "Input", 1, 0))
       ELSE IF ~policy.rootSourcesValid
       THEN Abort("UsageError", "unsigned-scitt-keys",
                  Err("ExternalRootSourceInvalid", "Input", 1, 0))
       ELSE Proceed("Anchors") /\ UNCHANGED <<facts, binding, decision, base, resource>>

ReadTrustedRoots ==
    /\ pc = "Anchors"
    /\ UNCHANGED <<policy, acquisition>>
    /\ \/ /\ args.trustedRoots
          /\ \E code \in {"TrustedRootsUnreadable", "TrustedRootsUnusable"} :
                Abort("UsageError", "unsigned-scitt-keys", Err(code, "Input", 1, 0))
       \/ /\ Proceed("Keys")
          /\ UNCHANGED <<facts, binding, decision, base, resource>>

-----------------------------------------------------------------------------
(* What scitt-receipt can report of a statement checked with or without    *)
(* supplied roots, and with or without any key: chain::validate anchors    *)
(* exactly when roots were supplied, and no key is found in an empty set.  *)
Reportable(f, roots, keys) ==
    /\ f.chain = "Anchored" => roots
    /\ f.chain = "Valid"    => ~roots
    /\ ~f.certs => f.sig = "Unknown" /\ f.chain = "Insufficient"
    /\ ~keys => \A i \in DOMAIN f.receipts : f.receipts[i].lookup # "Found"

StatementRead(trust, keys) ==
    \/ \E e \in {"Malformed", "Structure"} :
          Abort("CannotEvaluate", trust, ClassifyCoreError(e))
    \/ /\ facts' \in {f \in Statements : Reportable(f, args.trustedRoots, keys)}
       /\ Proceed("Binding")
       /\ UNCHANGED <<binding, decision, base, resource>>

(* resolve_local.  A receipt is always looked up in a local key set.       *)
ResolveLocal ==
    /\ pc = "Keys" /\ ~args.online
    /\ UNCHANGED <<policy, acquisition>>
    /\ \/ Abort("UsageError", "unsigned-scitt-keys",
                Err("TrustMaterialUnreadable", "Input", 1, 0))
       \/ Abort("CannotEvaluate", "unsigned-scitt-keys",
                Err("TrustMaterialUnusable", "Trust", 1, 0))
       \/ StatementRead("unsigned-scitt-keys", TRUE)

(* resolve_online up to selection: the statement is parsed and the ledgers *)
(* are selected before any request.                                        *)
SelectLedgers ==
    /\ pc = "Keys" /\ args.online
    /\ UNCHANGED policy
    /\ \/ /\ \E e \in {"Malformed", "Structure"} :
                Abort("CannotEvaluate", "no-key-set", ClassifyCoreError(e))
          /\ UNCHANGED acquisition
       \/ /\ Abort("UsageError", "no-key-set",
                   Err("AcquisitionNotConfigured", "Input", 1, 0))
          /\ UNCHANGED acquisition
       \/ /\ acquisition' = NothingAcquired(FALSE, TRUE)
          /\ Proceed("Scope")
          /\ UNCHANGED <<facts, binding, decision, base, resource>>
       \/ /\ acquisition' \in Acquisitions
          /\ Proceed("Scope")
          /\ UNCHANGED <<facts, binding, decision, base, resource>>

TrustOf(a) == IF ~a.present THEN "unsigned-scitt-keys"
              ELSE IF a.acquired = <<>> THEN "no-key-set" ELSE "acquired-key-set"

(* What acquisition has to say.  It is added to the verdict's own reasons  *)
(* and never becomes one: a fetch that failed says nothing of the artifact.*)
FaultCategory(fault) == IF fault \in ConfigurationFaults THEN "Input" ELSE "Trust"

Notices(a) ==
    IF ~a.present THEN {}
    ELSE IF ~a.attempted THEN {Warn("NoLedgerSelected", "Trust", 0, 0)}
    ELSE {Err(a.failed[i], FaultCategory(a.failed[i]), 0, i) : i \in DOMAIN a.failed}
         \cup {Warn("AcquisitionAmbiguousKid", "Trust", 0, 10 + i) :
                  i \in {k \in DOMAIN a.acquired : a.acquired[k].ambiguous}}
         \cup {Err(a.roots[i], "Trust", 0, 20 + i) :
                  i \in {k \in DOMAIN a.roots : a.roots[k] # "Acquired"}}

(* verify_or_fail: a core error after the fetch keeps the acquisition.     *)
VerifyScoped ==
    /\ pc = "Scope"
    /\ UNCHANGED <<policy, acquisition>>
    /\ StatementRead(TrustOf(acquisition), acquisition.acquired # <<>>)

-----------------------------------------------------------------------------
(* The artifact cannot be read: the statement's own checks are kept, and   *)
(* the binding is one that was asked for and could not be made.            *)
ArtifactUnreadable ==
    LET primary == Err("ArtifactUnreadable", "Input", 1, 0)
    IN  [verdict |-> "UsageError", primary |-> primary,
         diagnostics |-> {primary} \cup Notices(acquisition),
         checks |-> [NothingChecked EXCEPT !.signature = SignatureState(facts),
                                           !.receipt = ReceiptState(facts),
                                           !.binding = "CannotEvaluate"],
         binding |-> "CannotCompare", trust |-> TrustOf(acquisition),
         notChecked |-> Gaps(args.adapter, args.mode, TRUE, facts, FALSE, <<>>)]

(* check_binding compares only for an artifact and an artifact mode.       *)
CheckBinding ==
    /\ pc = "Binding"
    /\ UNCHANGED <<args, policy, acquisition, facts, decision, base, resource>>
    /\ \/ /\ args.artifact
          /\ binding' = "CannotCompare"
          /\ assessment' = ArtifactUnreadable
          /\ pc' = "Done"
       \/ /\ binding' \in IF args.artifact /\ ArtifactMode(args.mode)
                          THEN {"Bound", "Mismatch", "CannotCompare"} ELSE {"NotRequested"}
          /\ Proceed("Policy")

(* A root source is usable only when it was acquired in this run.          *)
RootAvailable(a) == \E i \in DOMAIN a.roots : a.roots[i] = "Acquired"
Decidable(d) == \A i \in DOMAIN d : d[i].material => RootAvailable(acquisition)

EvaluatePolicy ==
    /\ pc = "Policy"
    /\ decision' \in {d \in Decisions : Decidable(d)}
    /\ base' = Decide(facts, binding, decision', args.mode, args.trustedRoots)
    /\ Proceed("Adapter")
    /\ UNCHANGED <<policy, acquisition, facts, binding, resource>>

-----------------------------------------------------------------------------
(* not_attempted: the checks the adapter requires, none of them made.      *)
NotAttempted ==
    [ran |-> TRUE, required |-> Required, notes |-> 1,
     checks |-> [i \in DOMAIN Required |-> [name |-> Required[i], state |-> "CannotEvaluate"]]]

(* The branches of run_adapter before the acceptance check.                *)
HasEvidenceSource(c) == \/ c.mode = "SavedEvidence" /\ c.evidence
                        \/ c.mode = "LiveEvidence"
(* Mutant: the evidence is appraised whatever became of the statement.     *)
MutAppraisable == HasEvidenceSource(args)

Appraisable == HasEvidenceSource(args) /\ IsPass(base)

SkipAdapter ==
    /\ pc = "Adapter" /\ args.adapter = "None"
    /\ Proceed("Assess")
    /\ UNCHANGED <<policy, acquisition, facts, binding, decision, base, resource>>

RunAdapter ==
    /\ pc = "Adapter" /\ args.adapter # "None"
    /\ resource' \in IF Appraisable THEN Appraisals ELSE {NotAttempted}
    /\ Proceed("Assess")
    /\ UNCHANGED <<policy, acquisition, facts, binding, decision, base>>

-----------------------------------------------------------------------------
Limitations ==
    IF args.adapter = "AzureAttestation" /\ resource.notes > 0
    THEN {"MaaAppraisalLimitation"} ELSE {}

Assess ==
    LET verdict == Narrow(base, resource)
        found   == UNION {Notices(acquisition),
                          Diagnose(facts, binding, decision, args.trustedRoots),
                          NoBindingNote(verdict, args.mode),
                          DiagnoseResource(verdict, resource)}
    IN  /\ pc = "Assess"
        /\ pc' = "Done"
        /\ assessment' =
              [verdict |-> verdict, primary |-> ChoosePrimary(verdict, found),
               diagnostics |-> found,
               checks |-> [signature |-> SignatureState(facts),
                           receipt |-> ReceiptState(facts),
                           binding |-> BindingState(binding),
                           policy |-> PolicyState(decision),
                           adapter |-> resource.checks, required |-> resource.required],
               binding |-> binding, trust |-> TrustOf(acquisition),
               notChecked |-> Limitations \cup
                              Gaps(args.adapter, args.mode, TRUE, facts, TRUE, decision)]
        /\ UNCHANGED <<args, policy, acquisition, facts, binding, decision, base, resource>>

(* evaluate has returned, or the command line was refused.                 *)
Finished == pc \in {"Done", "Refused"} /\ UNCHANGED vars

Next == \/ Parse \/ ReadInputs \/ CheckRequest \/ ReadTrustedRoots
        \/ ResolveLocal \/ SelectLedgers \/ VerifyScoped
        \/ CheckBinding \/ EvaluatePolicy \/ SkipAdapter \/ RunAdapter \/ Assess
        \/ Finished

Spec == Init /\ [][Next]_vars

-----------------------------------------------------------------------------
(* Every variable holds a value of its kind.                               *)
Stages == {"Parse", "Refused", "Inputs", "Request", "Anchors", "Keys", "Scope",
           "Binding", "Policy", "Adapter", "Assess", "Done"}
CheckReports == [signature : CheckStates, receipt : CheckStates, binding : CheckStates,
                 policy : CheckStates, adapter : Seq(AdapterChecks), required : Seq(STRING)]
TrustModes  == {"unsigned-scitt-keys", "acquired-key-set", "no-key-set"}
Assessments == [verdict : Verdicts, primary : Diagnostics, diagnostics : SUBSET Diagnostics,
                checks : CheckReports, binding : Bindings, trust : TrustModes,
                notChecked : SUBSET GapNames]

TypeOK == /\ args \in CommandLines
          /\ pc \in Stages
          /\ policy \in PolicyDocuments
          /\ acquisition \in AcquisitionBlocks
          /\ facts \in StatementFacts
          /\ binding \in Bindings
          /\ decision \in Seq(AssertionResults)
          /\ base \in Verdicts
          /\ resource \in Resources
          /\ assessment \in Assessments

Passed  == pc = "Done" /\ IsPass(assessment.verdict)
Decided == pc \in {"Adapter", "Assess"} \/ Passed

(* A run that exits 0 established everything it was asked: the statement's *)
(* own signature, one receipt under a key this run really held, the whole  *)
(* policy, the supplied roots when they were supplied, the artifact or the *)
(* adapter when one was requested, and no adapter the policy configures    *)
(* was left out (decide, check_binding, narrow_for_resource and            *)
(* validate_request taken together).                                       *)
PassMeansEstablished ==
    Passed =>
        /\ facts.sig = "Yes" /\ AnyReceiptVerified(facts) /\ facts.chain # "Invalid"
        /\ DecisionSatisfied(decision)
        /\ args.trustedRoots => facts.chain = "Anchored"
        /\ args.artifact => binding = "Bound"
        /\ args.adapter # "None" => ScopedPass(resource)
        /\ policy.adapters = {args.adapter} \ {"None"}
        /\ args.online => acquisition.acquired # <<>>

(* Which of the three passes is reported says exactly what was requested:  *)
(* an artifact comparison, an adapter or neither, so that a gate reading   *)
(* the verdict never takes the narrow claim for the wide one.              *)
PassNamesItsClaim ==
    Passed => assessment.verdict = IF args.adapter # "None" THEN "ResourceTransparent"
                                   ELSE IF args.artifact    THEN "ArtifactTransparent"
                                   ELSE "StatementTransparent"

(* Receipts sit in a header nothing signs.  Whoever appends one, of any    *)
(* kind, can neither take a pass away nor make the statement untrusted.    *)
NoVetoByReceipt ==
    pc \in {"Adapter", "Assess"} =>
        LET With(f) == Decide(f, binding, decision, args.mode, args.trustedRoots)
        IN  /\ IsPass(base) =>
                 /\ \A r \in ReceiptFacts :
                        With([facts EXCEPT !.receipts = Append(@, r)]) = base
                 /\ \A k \in UnevaluableKinds :
                        With([facts EXCEPT !.unevaluable = Append(@, k)]) = base
            /\ base = "Untrusted" => With([facts EXCEPT !.receipts = <<>>]) = base

(* An adapter never turns a failure into anything else, and evidence is    *)
(* appraised only for a statement that was already accepted.               *)
AdapterOnlyNarrows ==
    [][/\ pc = "Assess" /\ ~IsPass(base) => assessment'.verdict = base
       /\ resource' # resource /\ ~IsPass(base) => resource' = NotAttempted]_vars

(* A red gate always says why: the primary diagnostic of every run that    *)
(* did not pass is one of the errors it lists, never the backstop, and for *)
(* exit 2 it comes from the side that failed.                              *)
FailureIsNamed ==
    pc = "Done" /\ ~IsPass(assessment.verdict) =>
        /\ assessment.primary \in Errors(assessment.diagnostics)
        /\ assessment.primary # UnexplainedFailure
        /\ assessment.verdict = "PolicyFailed"   => assessment.primary.category = "Policy"
        /\ assessment.verdict = "ResourceFailed" => assessment.primary.code = "ResourceCheckFailed"

(* Only --online reaches the network: neither keys nor live evidence are   *)
(* collected without it, whatever the policy or the binding mode say.      *)
NetworkNeedsOnline ==
    /\ acquisition.attempted => args.online
    /\ resource.ran /\ resource # NotAttempted /\ args.mode = "LiveEvidence" => args.online
=============================================================================
