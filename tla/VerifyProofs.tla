---------------------------- MODULE VerifyProofs ----------------------------
(***************************************************************************)
(* Theorems about a run of the verify command, for every set of command    *)
(* lines, policies, statements, decisions, acquisitions and appraisals.    *)
(***************************************************************************)
EXTENDS Verify, OutcomeProofs

-----------------------------------------------------------------------------
(* Type correctness.                                                       *)
LEMMA GapsTyped ==
    ASSUME NEW adapter, NEW mode, NEW known, NEW f \in StatementFacts, NEW decided, NEW d
    PROVE  Gaps(adapter, mode, known, f, decided, d) \subseteq GapNames
  <1>1. AdapterGaps(adapter, mode) \subseteq GapNames
    BY DEF AdapterGaps, GapNames
  <1>2. \A x : DecisionGaps(x) \subseteq GapNames
    BY DEF DecisionGaps, GapNames
  <1>3. \A x : ChainGap(f, x) \subseteq GapNames
    BY DEF ChainGap, ChainValid, GapNames, StatementFacts, ChainOutcomes
  <1>4. {"ArtifactBindingNotRequested", "RevocationNotChecked", "PolicyNotEvaluated"}
            \subseteq GapNames
    BY DEF GapNames
  <1> QED BY <1>1, <1>2, <1>3, <1>4 DEF Gaps

LEMMA NoticesTyped ==
    ASSUME NEW a \in AcquisitionBlocks
    PROVE  Notices(a) \subseteq Filed
  <1>1. AcquisitionFaults \subseteq Codes \ {"UnexplainedFailure"}
    BY DEF AcquisitionFaults, ConfigurationFaults, Codes
  <1>2. ASSUME NEW i \in DOMAIN a.failed
        PROVE  Err(a.failed[i], FaultCategory(a.failed[i]), 0, i) \in Filed
    <2>1. a.failed[i] \in AcquisitionFaults /\ i \in Nat
      BY <1>2 DEF AcquisitionBlocks
    <2>2. FaultCategory(a.failed[i]) \in Categories
      BY DEF FaultCategory, Categories
    <2> QED BY <1>1, <2>1, <2>2, DiagTyped
  <1>3. ASSUME NEW i \in DOMAIN a.acquired
        PROVE  Warn("AcquisitionAmbiguousKid", "Trust", 0, 10 + i) \in Filed
    <2>1. 10 + i \in Nat
      BY <1>3 DEF AcquisitionBlocks
    <2> QED BY <2>1, DiagTyped DEF Categories, Codes
  <1>4. ASSUME NEW i \in DOMAIN a.roots, a.roots[i] # "Acquired"
        PROVE  Err(a.roots[i], "Trust", 0, 20 + i) \in Filed
    <2>1. a.roots[i] \in AcquisitionFaults /\ 20 + i \in Nat
      BY <1>4 DEF AcquisitionBlocks
    <2> QED BY <1>1, <2>1, DiagTyped DEF Categories
  <1>5. Warn("NoLedgerSelected", "Trust", 0, 0) \in Filed
    BY DiagTyped DEF Categories, Codes
  <1> QED BY <1>2, <1>3, <1>4, <1>5 DEF Notices

LEMMA NothingTyped ==
    /\ \A x, y \in BOOLEAN : NothingAcquired(x, y) \in AcquisitionBlocks
    /\ NothingChecked \in CheckReports
    /\ NoResource \in Resources
    /\ NoPolicy \in PolicyDocuments
    /\ Unverified \in StatementFacts
    /\ NoDiagnostic \in Diagnostics
  <1>1. \A x, y \in BOOLEAN : NothingAcquired(x, y) \in AcquisitionBlocks
    BY DEF NothingAcquired, AcquisitionBlocks
  <1>2. NothingChecked \in CheckReports
    BY DEF NothingChecked, CheckReports, CheckStates
  <1>3. NoResource \in Resources
    BY DEF NoResource, Resources
  <1>4. NoPolicy \in PolicyDocuments
    BY DEF NoPolicy, PolicyDocuments
  <1>5. Unverified \in StatementFacts
    BY DEF Unverified, StatementFacts, Trilean, ChainOutcomes
  <1>6. NoDiagnostic \in Diagnostics
    BY DEF NoDiagnostic, Warn, Diag, Diagnostics, Codes, Categories
  <1> QED BY <1>1, <1>2, <1>3, <1>4, <1>5, <1>6

LEMMA IncompleteTyped ==
    ASSUME NEW v \in Verdicts, NEW t \in TrustModes, NEW p \in Diagnostics
    PROVE  Incomplete(v, t, p) \in Assessments
  BY GapsTyped, NothingTyped DEF Incomplete, Assessments, Bindings

(* The verdicts, trust modes and diagnostics the aborts use.               *)
LEMMA AbortParts ==
    /\ {"UsageError", "CannotEvaluate"} \subseteq Verdicts
    /\ {"unsigned-scitt-keys", "no-key-set"} \subseteq TrustModes
    /\ \A a : TrustOf(a) \in TrustModes
    /\ \A code \in Codes \ {"UnexplainedFailure"} : Err(code, "Input", 1, 0) \in Filed
    /\ Err("TrustMaterialUnusable", "Trust", 1, 0) \in Filed
    /\ \A e \in CoreErrors : ClassifyCoreError(e) \in Filed
    /\ Filed \subseteq Diagnostics
  <1>1. \A code \in Codes \ {"UnexplainedFailure"} : Err(code, "Input", 1, 0) \in Filed
    BY DiagTyped DEF Categories
  <1>2. Err("TrustMaterialUnusable", "Trust", 1, 0) \in Filed
    BY DiagTyped DEF Categories, Codes
  <1>3. /\ Err("UnsupportedFeature", "Unsupported", 1, 0) \in Filed
        /\ Err("ReceiptKeyUnknown", "Trust", 1, 0) \in Filed
        /\ Err("CryptoBackendError", "Unsupported", 1, 0) \in Filed
        /\ Err("StatementMalformed", "Input", 1, 0) \in Filed
    BY DiagTyped DEF Categories, Codes
  <1>4. \A e \in CoreErrors : ClassifyCoreError(e) \in Filed
    BY <1>2, <1>3 DEF CoreErrors, ClassifyCoreError
  <1> QED BY <1>1, <1>2, <1>4 DEF Verdicts, TrustModes, TrustOf, Filed

LEMMA StatesTyped ==
    ASSUME NEW f \in StatementFacts, NEW b \in Bindings, NEW d \in Seq(AssertionResults)
    PROVE  /\ SignatureState(f) \in CheckStates /\ ReceiptState(f) \in CheckStates
           /\ BindingState(b) \in CheckStates   /\ PolicyState(d) \in CheckStates
  BY DEF SignatureState, ReceiptState, BindingState, PolicyState, CheckStates,
         StatementFacts, Bindings, Trilean

LEMMA NotAttemptedTyped == NotAttempted \in Resources
  <1> DEFINE made == [i \in DOMAIN Required |->
                        [name |-> Required[i], state |-> "CannotEvaluate"]]
  <1>1. DOMAIN Required = 1..Len(Required) /\ Len(Required) \in Nat
    BY RequiredAssumption
  <1>2. \A i \in 1..Len(Required) : made[i] \in AdapterChecks
    BY <1>1, RequiredAssumption DEF AdapterChecks, CheckStates
  <1>3. made \in [1..Len(Required) -> AdapterChecks]
    BY <1>1, <1>2
  <1>4. made \in Seq(AdapterChecks)
    <2> HIDE DEF made
    <2> QED BY <1>1, <1>3
  <1> QED BY <1>4, RequiredAssumption DEF NotAttempted, Resources

(* An abort leaves every variable with a value of its kind.                *)
LEMMA AbortTyped ==
    ASSUME TypeOK, NEW v \in Verdicts, NEW t \in TrustModes, NEW p \in Diagnostics,
           Abort(v, t, p), policy' \in PolicyDocuments, acquisition' \in AcquisitionBlocks
    PROVE  TypeOK'
  <1>1. assessment' \in Assessments
    BY IncompleteTyped DEF Abort
  <1> QED BY <1>1 DEF TypeOK, Abort, Stages

LEMMA StatementReadTyped ==
    ASSUME TypeOK, NEW t \in TrustModes, NEW keys, StatementRead(t, keys),
           policy' = policy, acquisition' = acquisition
    PROVE  TypeOK'
  <1>1. ASSUME NEW e \in {"Malformed", "Structure"},
               Abort("CannotEvaluate", t, ClassifyCoreError(e))
        PROVE  TypeOK'
    <2>1. ClassifyCoreError(e) \in Diagnostics /\ "CannotEvaluate" \in Verdicts
      BY AbortParts DEF CoreErrors
    <2> QED BY <1>1, <2>1, AbortTyped DEF TypeOK
  <1>2. ASSUME facts' \in Statements, Proceed("Binding"),
               UNCHANGED <<binding, decision, base, resource>>
        PROVE  TypeOK'
    BY <1>2, StatementsAssumption DEF TypeOK, Proceed, Stages
  <1> QED BY <1>1, <1>2 DEF StatementRead

(* Everything Assess files is well formed, and none of it is the backstop. *)
LEMMA FoundTyped ==
    ASSUME TypeOK, NEW v
    PROVE  UNION {Notices(acquisition),
                  Diagnose(facts, binding, decision, args.trustedRoots),
                  NoBindingNote(v, args.mode), DiagnoseResource(v, resource)} \subseteq Filed
  <1>1. Notices(acquisition) \subseteq Filed
    BY NoticesTyped DEF TypeOK
  <1>2. Diagnose(facts, binding, decision, args.trustedRoots) \subseteq Filed
    BY DiagnoseTyped DEF TypeOK, CommandLines
  <1>3. NoBindingNote(v, args.mode) \subseteq Filed
    BY OutcomeProblemsTyped
  <1>4. DiagnoseResource(v, resource) \subseteq Filed
    BY DiagnoseResourceTyped DEF TypeOK, Resources
  <1> QED BY <1>1, <1>2, <1>3, <1>4

LEMMA AssessTyped ==
    ASSUME TypeOK, Assess
    PROVE  TypeOK'
  <1> DEFINE verdict == Narrow(base, resource)
             found   == UNION {Notices(acquisition),
                               Diagnose(facts, binding, decision, args.trustedRoots),
                               NoBindingNote(verdict, args.mode),
                               DiagnoseResource(verdict, resource)}
  <1>1. verdict \in Verdicts
    BY NarrowOnlyNarrows DEF TypeOK, Resources
  <1>2. found \subseteq Filed
    <2> HIDE DEF verdict
    <2> QED BY FoundTyped
  <1>3. found \subseteq Diagnostics /\ ChoosePrimary(verdict, found) \in Diagnostics
    <2> HIDE DEF found
    <2> QED BY <1>2, PrimaryTyped DEF Filed
  <1>4. Limitations \cup Gaps(args.adapter, args.mode, TRUE, facts, TRUE, decision)
            \subseteq GapNames
    BY GapsTyped DEF TypeOK, Limitations, GapNames
  <1>5. [signature |-> SignatureState(facts), receipt |-> ReceiptState(facts),
         binding |-> BindingState(binding), policy |-> PolicyState(decision),
         adapter |-> resource.checks, required |-> resource.required] \in CheckReports
    BY StatesTyped DEF TypeOK, CheckReports, Resources
  <1>6. assessment' \in Assessments
    <2> HIDE DEF found, verdict
    <2>1. TrustOf(acquisition) \in TrustModes /\ binding \in Bindings
      BY AbortParts DEF TypeOK
    <2>2. assessment' = [verdict |-> verdict, primary |-> ChoosePrimary(verdict, found),
               diagnostics |-> found,
               checks |-> [signature |-> SignatureState(facts),
                           receipt |-> ReceiptState(facts),
                           binding |-> BindingState(binding),
                           policy |-> PolicyState(decision),
                           adapter |-> resource.checks, required |-> resource.required],
               binding |-> binding, trust |-> TrustOf(acquisition),
               notChecked |-> Limitations \cup
                              Gaps(args.adapter, args.mode, TRUE, facts, TRUE, decision)]
      BY DEF Assess, found, verdict
    <2> QED BY <1>1, <1>3, <1>4, <1>5, <2>1, <2>2 DEF Assessments
  <1> QED BY <1>6 DEF TypeOK, Assess, Stages

LEMMA InitTyped == Init => TypeOK
  <1> SUFFICES ASSUME Init PROVE TypeOK OBVIOUS
  <1>1. Pending \in Assessments
    BY NothingTyped DEF Pending, Assessments, Verdicts, TrustModes, Bindings
  <1>2. NothingAcquired(FALSE, FALSE) \in AcquisitionBlocks
    BY NothingTyped
  <1>3. args \in CommandLines /\ decision \in Seq(AssertionResults)
    BY RequestsAssumption DEF Init
  <1>4. policy \in PolicyDocuments /\ facts \in StatementFacts /\ resource \in Resources
    BY NothingTyped DEF Init
  <1> QED BY <1>1, <1>2, <1>3, <1>4 DEF Init, TypeOK, Stages, Bindings, Verdicts

LEMMA NextTyped == TypeOK /\ [Next]_vars => TypeOK'
  <1> SUFFICES ASSUME TypeOK, [Next]_vars PROVE TypeOK' OBVIOUS
  <1>1. CASE Parse
    BY <1>1 DEF TypeOK, Parse, Proceed, Stages
  <1>2. CASE ReadInputs
    <2>1. ASSUME NEW code \in {"StatementUnreadable", "PolicyUnreadable", "PolicyMalformed"},
                 Abort("UsageError", "unsigned-scitt-keys", Err(code, "Input", 1, 0)),
                 UNCHANGED policy, UNCHANGED acquisition
          PROVE  TypeOK'
      <3>1. Err(code, "Input", 1, 0) \in Diagnostics
        BY AbortParts DEF Codes
      <3> QED BY <2>1, <3>1, AbortParts, AbortTyped DEF TypeOK
    <2>2. ASSUME policy' \in Policies, Proceed("Request"), UNCHANGED acquisition,
                 UNCHANGED <<facts, binding, decision, base, resource>>
          PROVE  TypeOK'
      BY <2>2, PoliciesAssumption DEF TypeOK, Proceed, Stages
    <2> QED BY <1>2, <2>1, <2>2 DEF ReadInputs
  <1>3. CASE CheckRequest
    <2>1. /\ Err("AdapterPolicyMismatch", "Input", 1, 0) \in Diagnostics
          /\ Err("ExternalRootSourceInvalid", "Input", 1, 0) \in Diagnostics
      BY AbortParts DEF Codes
    <2>2. ASSUME NEW p \in Diagnostics, UNCHANGED <<policy, acquisition>>,
                 Abort("UsageError", "unsigned-scitt-keys", p)
          PROVE  TypeOK'
      BY <2>2, AbortParts, AbortTyped DEF TypeOK
    <2>3. ASSUME Proceed("Anchors"), UNCHANGED <<policy, acquisition>>,
                 UNCHANGED <<facts, binding, decision, base, resource>>
          PROVE  TypeOK'
      BY <2>3 DEF TypeOK, Proceed, Stages
    <2> QED BY <1>3, <2>1, <2>2, <2>3 DEF CheckRequest
  <1>4. CASE ReadTrustedRoots
    <2>1. ASSUME NEW code \in {"TrustedRootsUnreadable", "TrustedRootsUnusable"},
                 Abort("UsageError", "unsigned-scitt-keys", Err(code, "Input", 1, 0)),
                 UNCHANGED <<policy, acquisition>>
          PROVE  TypeOK'
      <3>1. Err(code, "Input", 1, 0) \in Diagnostics
        BY AbortParts DEF Codes
      <3> QED BY <2>1, <3>1, AbortParts, AbortTyped DEF TypeOK
    <2>2. ASSUME Proceed("Keys"), UNCHANGED <<policy, acquisition>>,
                 UNCHANGED <<facts, binding, decision, base, resource>>
          PROVE  TypeOK'
      BY <2>2 DEF TypeOK, Proceed, Stages
    <2> QED BY <1>4, <2>1, <2>2 DEF ReadTrustedRoots
  <1>5. CASE ResolveLocal
    <2>1. /\ Err("TrustMaterialUnreadable", "Input", 1, 0) \in Diagnostics
          /\ Err("TrustMaterialUnusable", "Trust", 1, 0) \in Diagnostics
      BY AbortParts DEF Codes
    <2>2. ASSUME NEW v \in {"UsageError", "CannotEvaluate"}, NEW p \in Diagnostics,
                 UNCHANGED <<policy, acquisition>>, Abort(v, "unsigned-scitt-keys", p)
          PROVE  TypeOK'
      BY <2>2, AbortParts, AbortTyped DEF TypeOK
    <2>3. ASSUME StatementRead("unsigned-scitt-keys", TRUE),
                 UNCHANGED <<policy, acquisition>>
          PROVE  TypeOK'
      BY <2>3, AbortParts, StatementReadTyped
    <2> QED BY <1>5, <2>1, <2>2, <2>3 DEF ResolveLocal
  <1>6. CASE SelectLedgers
    <2>1. /\ Err("AcquisitionNotConfigured", "Input", 1, 0) \in Diagnostics
          /\ \A e \in {"Malformed", "Structure"} : ClassifyCoreError(e) \in Diagnostics
      BY AbortParts DEF Codes, CoreErrors
    <2>2. ASSUME NEW v \in {"UsageError", "CannotEvaluate"}, NEW p \in Diagnostics,
                 UNCHANGED <<policy, acquisition>>, Abort(v, "no-key-set", p)
          PROVE  TypeOK'
      BY <2>2, AbortParts, AbortTyped DEF TypeOK
    <2>3. ASSUME acquisition' \in AcquisitionBlocks, Proceed("Scope"), UNCHANGED policy,
                 UNCHANGED <<facts, binding, decision, base, resource>>
          PROVE  TypeOK'
      BY <2>3 DEF TypeOK, Proceed, Stages
    <2> QED BY <1>6, <2>1, <2>2, <2>3, NothingTyped, AcquisitionsAssumption DEF SelectLedgers
  <1>7. CASE VerifyScoped
    BY <1>7, AbortParts, StatementReadTyped DEF VerifyScoped
  <1>8. CASE CheckBinding
    <2>1. ArtifactUnreadable \in Assessments
      <3>1. Err("ArtifactUnreadable", "Input", 1, 0) \in Diagnostics
        BY AbortParts DEF Codes
      <3>2. Notices(acquisition) \subseteq Diagnostics
        BY NoticesTyped, AbortParts DEF TypeOK
      <3>3. [NothingChecked EXCEPT !.signature = SignatureState(facts),
                                   !.receipt = ReceiptState(facts),
                                   !.binding = "CannotEvaluate"] \in CheckReports
        BY NothingTyped, StatesTyped DEF TypeOK, CheckReports, CheckStates
      <3>4. Gaps(args.adapter, args.mode, TRUE, facts, FALSE, <<>>) \subseteq GapNames
        BY GapsTyped DEF TypeOK
      <3> QED BY <3>1, <3>2, <3>3, <3>4, AbortParts
              DEF ArtifactUnreadable, Assessments, Bindings
    <2> QED BY <1>8, <2>1 DEF CheckBinding, Proceed, TypeOK, Stages, Bindings
  <1>9. CASE EvaluatePolicy
    <2>1. decision' \in Seq(AssertionResults)
      BY <1>9, DecisionsAssumption DEF EvaluatePolicy
    <2>2. base' \in Verdicts
      BY <1>9, DecidePass DEF EvaluatePolicy, TypeOK, StatementFacts, CommandLines
    <2> QED BY <1>9, <2>1, <2>2 DEF EvaluatePolicy, TypeOK, Proceed, Stages
  <1>10. CASE SkipAdapter
    BY <1>10 DEF SkipAdapter, TypeOK, Proceed, Stages
  <1>11. CASE RunAdapter
    <2>1. resource' \in Resources
      BY <1>11, AppraisalsAssumption, NotAttemptedTyped DEF RunAdapter
    <2> QED BY <1>11, <2>1 DEF RunAdapter, TypeOK, Proceed, Stages
  <1>12. CASE Assess
    BY <1>12, AssessTyped
  <1>13. CASE UNCHANGED vars
    BY <1>13 DEF vars, TypeOK
  <1>14. CASE Finished
    BY <1>13, <1>14 DEF Finished
  <1> QED BY <1>1, <1>2, <1>3, <1>4, <1>5, <1>6, <1>7, <1>8, <1>9, <1>10, <1>11,
             <1>12, <1>13, <1>14 DEF Next

(* Every variable of a run keeps a value of its kind, whatever the inputs. *)
THEOREM TypeCorrect == Spec => []TypeOK
  <1>1. Init => TypeOK
    BY InitTyped
  <1>2. TypeOK /\ [Next]_vars => TypeOK'
    BY NextTyped
  <1> QED BY <1>1, <1>2, PTL DEF Spec

-----------------------------------------------------------------------------
(* What each stage has established, which is why the next one may rely on  *)
(* it: the inductive strengthening of the safety properties.               *)
Past(stages) == pc \notin stages /\ (pc = "Done" => Passed)
Early == {"Parse", "Refused"}

LineAccepted    == pc \notin Early => Accepted(args)
AdapterAgreed   == Past(Early \cup {"Inputs", "Request"}) =>
                      policy.adapters = {args.adapter} \ {"None"}
FactsReported   == Past(Early \cup {"Inputs", "Request", "Anchors", "Keys", "Scope"}) =>
                      Reportable(facts, args.trustedRoots,
                                 ~args.online \/ acquisition.acquired # <<>>)
ArtifactBound   == Past(Early \cup {"Inputs", "Request", "Anchors", "Keys", "Scope", "Binding"}) =>
                      (args.artifact <=> binding # "NotRequested")
BaseDecided     == pc \in {"Adapter", "Assess"} \/ Passed =>
                      base = Decide(facts, binding, decision, args.mode, args.trustedRoots)
ResourceMatches == /\ pc \notin {"Assess", "Done"} => resource = NoResource
                   /\ pc = "Assess" \/ Passed => (resource.ran <=> args.adapter # "None")
PassIsNarrowed  == Passed => assessment.verdict = Narrow(base, resource)

OnlineAsked     == pc = "Scope" \/ acquisition.attempted => args.online

IInv == /\ TypeOK /\ OnlineAsked
        /\ LineAccepted /\ AdapterAgreed /\ FactsReported /\ ArtifactBound
        /\ BaseDecided /\ ResourceMatches /\ PassIsNarrowed

LEMMA InitEstablishes == Init => IInv
  <1> SUFFICES ASSUME Init PROVE IInv OBVIOUS
  <1>1. ~Passed /\ pc = "Parse" /\ resource = NoResource
    BY DEF Init, Passed
  <1>2. OnlineAsked
    BY DEF Init, OnlineAsked, NothingAcquired
  <1> QED BY <1>1, <1>2, InitTyped DEF IInv, LineAccepted, AdapterAgreed, FactsReported,
             ArtifactBound, BaseDecided, ResourceMatches, PassIsNarrowed, Past, Early

(* A run that stops early ends without a pass, so it claims nothing.       *)
LEMMA AbortEstablishes ==
    ASSUME IInv, TypeOK', pc \notin Early, NEW v \in {"UsageError", "CannotEvaluate"},
           NEW t, NEW p, Abort(v, t, p), UNCHANGED acquisition
    PROVE  IInv'
  <1>3. OnlineAsked'
    BY DEF IInv, OnlineAsked, Abort
  <1>1. pc' = "Done" /\ ~Passed'
    BY DEF Abort, Incomplete, Passed, IsPass, Passes
  <1>2. LineAccepted'
    BY DEF IInv, LineAccepted, Abort
  <1> QED BY <1>1, <1>2, <1>3 DEF IInv, AdapterAgreed, FactsReported, ArtifactBound,
             BaseDecided, ResourceMatches, PassIsNarrowed, Past

LEMMA StatementReadEstablishes ==
    ASSUME IInv, TypeOK', NEW t, NEW keys \in BOOLEAN, StatementRead(t, keys),
           pc \in {"Keys", "Scope"}, policy' = policy, acquisition' = acquisition,
           keys = (~args.online \/ acquisition.acquired # <<>>)
    PROVE  IInv'
  <1>0. pc \notin Early
    BY DEF Early
  <1>1. ASSUME NEW e, Abort("CannotEvaluate", t, ClassifyCoreError(e)) PROVE IInv'
    BY <1>0, <1>1, AbortEstablishes
  <1>2. ASSUME facts' \in {f \in Statements : Reportable(f, args.trustedRoots, keys)},
               Proceed("Binding"), UNCHANGED <<binding, decision, base, resource>>
        PROVE  IInv'
    <2>1. Reportable(facts', args.trustedRoots, keys)
      BY <1>2
    <2>2. pc' = "Binding" /\ args' = args /\ assessment' = assessment /\ ~Passed'
      BY <1>2 DEF Proceed, Passed
    <2>3. FactsReported'
      BY <2>1, <2>2 DEF FactsReported
    <2>4. LineAccepted' /\ AdapterAgreed' /\ ResourceMatches' /\ OnlineAsked'
      BY <1>2, <2>2 DEF IInv, LineAccepted, AdapterAgreed, ResourceMatches, OnlineAsked,
                        Past, Early
    <2> QED BY <2>2, <2>3, <2>4 DEF IInv, ArtifactBound, BaseDecided, PassIsNarrowed, Past
  <1> QED BY <1>1, <1>2 DEF StatementRead

LEMMA NextEstablishes == IInv /\ [Next]_vars => IInv'
  <1> SUFFICES ASSUME IInv, [Next]_vars PROVE IInv' OBVIOUS
  <1>0. TypeOK'
    BY NextTyped DEF IInv
  <1> USE <1>0
  <1> USE DEF Past, Early
  <1>1. CASE Parse
    <2>1. ~Passed' /\ UNCHANGED <<args, resource>>
      BY <1>1 DEF Parse, Proceed, Passed
    <2>2. (pc' = "Inputs" /\ Accepted(args)) \/ pc' = "Refused"
      BY <1>1 DEF Parse, Proceed
    <2>3. LineAccepted' /\ AdapterAgreed' /\ FactsReported' /\ ArtifactBound'
      BY <2>1, <2>2 DEF LineAccepted, AdapterAgreed, FactsReported, ArtifactBound
    <2>4. ResourceMatches' /\ OnlineAsked'
      BY <1>1, <2>1, <2>2 DEF IInv, ResourceMatches, OnlineAsked, Parse
    <2> QED BY <2>1, <2>2, <2>3, <2>4 DEF IInv, BaseDecided, PassIsNarrowed
  <1>2. CASE ReadInputs
    <2>1. ASSUME NEW code,
                 Abort("UsageError", "unsigned-scitt-keys", Err(code, "Input", 1, 0))
          PROVE  IInv'
      BY <1>2, <2>1, AbortEstablishes DEF ReadInputs
    <2>2. ASSUME Proceed("Request"), UNCHANGED <<facts, binding, decision, base, resource>>
          PROVE  IInv'
      <3>1. pc' = "Request" /\ ~Passed' /\ UNCHANGED args
        BY <2>2 DEF Proceed, Passed
      <3>2. LineAccepted' /\ ResourceMatches' /\ OnlineAsked'
        BY <1>2, <2>2, <3>1 DEF IInv, LineAccepted, ResourceMatches, OnlineAsked, ReadInputs
      <3> QED BY <3>1, <3>2 DEF IInv, AdapterAgreed, FactsReported, ArtifactBound,
                 BaseDecided, PassIsNarrowed
    <2> QED BY <1>2, <2>1, <2>2 DEF ReadInputs
  <1>3. CASE CheckRequest
    <2>1. ASSUME NEW p, Abort("UsageError", "unsigned-scitt-keys", p) PROVE IInv'
      BY <1>3, <2>1, AbortEstablishes DEF CheckRequest
    <2>2. ASSUME ValidRequest(args.adapter, policy.adapters), Proceed("Anchors"),
                 UNCHANGED <<facts, binding, decision, base, resource>>
          PROVE  IInv'
      <3>1. pc' = "Anchors" /\ ~Passed' /\ UNCHANGED <<args, policy>>
        BY <1>3, <2>2 DEF Proceed, Passed, CheckRequest
      <3>2. LineAccepted' /\ ResourceMatches' /\ OnlineAsked'
        BY <1>3, <2>2, <3>1 DEF IInv, LineAccepted, ResourceMatches, OnlineAsked, CheckRequest
      <3>3. policy.adapters = {args.adapter} \ {"None"}
        BY <2>2 DEF ValidRequest
      <3> QED BY <3>1, <3>2, <3>3 DEF IInv, AdapterAgreed, FactsReported, ArtifactBound,
                 BaseDecided, PassIsNarrowed
    <2> QED BY <1>3, <2>1, <2>2 DEF CheckRequest
  <1>4. CASE ReadTrustedRoots
    <2>1. ASSUME NEW code,
                 Abort("UsageError", "unsigned-scitt-keys", Err(code, "Input", 1, 0))
          PROVE  IInv'
      BY <1>4, <2>1, AbortEstablishes DEF ReadTrustedRoots
    <2>2. ASSUME Proceed("Keys"), UNCHANGED <<facts, binding, decision, base, resource>>
          PROVE  IInv'
      <3>1. pc = "Anchors" /\ pc' = "Keys" /\ ~Passed' /\ UNCHANGED <<args, policy>>
        BY <1>4, <2>2 DEF Proceed, Passed, ReadTrustedRoots
      <3>2. LineAccepted' /\ AdapterAgreed' /\ ResourceMatches' /\ OnlineAsked'
        BY <1>4, <2>2, <3>1 DEF IInv, LineAccepted, AdapterAgreed, ResourceMatches,
                                OnlineAsked, ReadTrustedRoots
      <3> QED BY <3>1, <3>2 DEF IInv, FactsReported, ArtifactBound, BaseDecided, PassIsNarrowed
    <2> QED BY <1>4, <2>1, <2>2 DEF ReadTrustedRoots
  <1>5. CASE ResolveLocal
    <2>1. ASSUME NEW v \in {"UsageError", "CannotEvaluate"}, NEW p,
                 Abort(v, "unsigned-scitt-keys", p)
          PROVE  IInv'
      BY <1>5, <2>1, AbortEstablishes DEF ResolveLocal
    <2>2. ASSUME StatementRead("unsigned-scitt-keys", TRUE) PROVE IInv'
      BY <1>5, <2>2, StatementReadEstablishes DEF ResolveLocal
    <2> QED BY <1>5, <2>1, <2>2 DEF ResolveLocal
  <1>6. CASE SelectLedgers
    <2>1. ASSUME NEW v \in {"UsageError", "CannotEvaluate"}, NEW p, Abort(v, "no-key-set", p),
                 UNCHANGED acquisition
          PROVE  IInv'
      BY <1>6, <2>1, AbortEstablishes DEF SelectLedgers
    <2>2. ASSUME Proceed("Scope"), UNCHANGED <<facts, binding, decision, base, resource>>
          PROVE  IInv'
      <3>1. /\ pc = "Keys" /\ pc' = "Scope" /\ ~Passed' /\ args.online
            /\ UNCHANGED <<args, policy>>
        BY <1>6, <2>2 DEF Proceed, Passed, SelectLedgers
      <3>2. LineAccepted' /\ AdapterAgreed' /\ ResourceMatches' /\ OnlineAsked'
        BY <2>2, <3>1 DEF IInv, LineAccepted, AdapterAgreed, ResourceMatches, OnlineAsked
      <3> QED BY <3>1, <3>2 DEF IInv, FactsReported, ArtifactBound, BaseDecided, PassIsNarrowed
    <2> QED BY <1>6, <2>1, <2>2 DEF SelectLedgers
  <1>7. CASE VerifyScoped
    <2>1. args.online
      BY <1>7 DEF VerifyScoped, IInv, OnlineAsked
    <2> QED BY <1>7, <2>1, StatementReadEstablishes DEF VerifyScoped
  <1>8. CASE CheckBinding
    <2>0. pc = "Binding" /\ UNCHANGED <<args, policy, acquisition, facts, decision, base, resource>>
      BY <1>8 DEF CheckBinding
    <2>1. LineAccepted' /\ OnlineAsked' /\ (args.artifact <=> ArtifactMode(args.mode))
      BY <1>8, <2>0 DEF IInv, LineAccepted, OnlineAsked, CheckBinding, Proceed, Accepted,
                        ArtifactAccepted
    <2>2. CASE pc' = "Done"
      <3>1. assessment' = ArtifactUnreadable
        BY <1>8, <2>2 DEF CheckBinding, Proceed
      <3>2. ~Passed'
        BY <3>1 DEF Passed, ArtifactUnreadable, IsPass, Passes
      <3> QED BY <2>1, <2>2, <3>2 DEF IInv, AdapterAgreed, FactsReported, ArtifactBound,
                 BaseDecided, ResourceMatches, PassIsNarrowed
    <2>3. CASE pc' # "Done"
      <3>1. /\ pc' = "Policy" /\ ~Passed'
            /\ binding' \in IF args.artifact /\ ArtifactMode(args.mode)
                            THEN {"Bound", "Mismatch", "CannotCompare"} ELSE {"NotRequested"}
        BY <1>8, <2>3 DEF CheckBinding, Proceed, Passed
      <3>2. AdapterAgreed' /\ FactsReported' /\ ResourceMatches'
        BY <2>0, <3>1 DEF IInv, AdapterAgreed, FactsReported, ResourceMatches
      <3>3. ArtifactBound'
        BY <2>0, <2>1, <3>1 DEF ArtifactBound
      <3> QED BY <2>1, <3>1, <3>2, <3>3 DEF IInv, BaseDecided, PassIsNarrowed
    <2> QED BY <2>2, <2>3
  <1>9. CASE EvaluatePolicy
    <2>1. /\ pc = "Policy" /\ pc' = "Adapter" /\ ~Passed'
          /\ UNCHANGED <<args, policy, acquisition, facts, binding, resource, assessment>>
          /\ base' = Decide(facts, binding, decision', args.mode, args.trustedRoots)
      BY <1>9 DEF EvaluatePolicy, Proceed, Passed
    <2>2. /\ LineAccepted' /\ OnlineAsked' /\ AdapterAgreed' /\ FactsReported'
          /\ ArtifactBound' /\ ResourceMatches'
      BY <2>1 DEF IInv, LineAccepted, OnlineAsked, AdapterAgreed, FactsReported,
                  ArtifactBound, ResourceMatches
    <2>3. BaseDecided'
      BY <2>1 DEF BaseDecided
    <2> QED BY <2>1, <2>2, <2>3 DEF IInv, PassIsNarrowed
  <1>10. CASE SkipAdapter \/ RunAdapter
    <2>1. /\ pc = "Adapter" /\ pc' = "Assess" /\ ~Passed'
          /\ UNCHANGED <<args, policy, acquisition, facts, binding, decision, base, assessment>>
      BY <1>10 DEF SkipAdapter, RunAdapter, Proceed, Passed
    <2>2. resource'.ran <=> args.adapter # "None"
      <3>1. CASE SkipAdapter
        BY <3>1 DEF SkipAdapter, IInv, ResourceMatches, NoResource
      <3>2. CASE RunAdapter
        <4>1. NotAttempted.ran /\ \A r \in Appraisals : r.ran
          BY AppraisalsAssumption DEF NotAttempted
        <4> QED BY <3>2, <4>1 DEF RunAdapter
      <3> QED BY <1>10, <3>1, <3>2
    <2>3. /\ LineAccepted' /\ OnlineAsked' /\ AdapterAgreed' /\ FactsReported'
          /\ ArtifactBound' /\ BaseDecided'
      BY <2>1 DEF IInv, LineAccepted, OnlineAsked, AdapterAgreed, FactsReported,
                  ArtifactBound, BaseDecided
    <2>4. ResourceMatches'
      BY <2>1, <2>2 DEF ResourceMatches
    <2> QED BY <2>1, <2>3, <2>4 DEF IInv, PassIsNarrowed
  <1>11. CASE Assess
    <2>1. /\ pc = "Assess" /\ pc' = "Done" /\ assessment'.verdict = Narrow(base, resource)
          /\ UNCHANGED <<args, policy, acquisition, facts, binding, decision, base, resource>>
      BY <1>11 DEF Assess
    <2>2. /\ LineAccepted' /\ OnlineAsked' /\ AdapterAgreed' /\ FactsReported'
          /\ ArtifactBound' /\ BaseDecided' /\ ResourceMatches'
      BY <2>1 DEF IInv, LineAccepted, OnlineAsked, AdapterAgreed, FactsReported,
                  ArtifactBound, BaseDecided, ResourceMatches
    <2> QED BY <2>1, <2>2 DEF IInv, PassIsNarrowed
  <1>12. CASE UNCHANGED vars
    BY <1>12 DEF vars, IInv, LineAccepted, OnlineAsked, AdapterAgreed, FactsReported,
                 ArtifactBound, BaseDecided, ResourceMatches, PassIsNarrowed, Passed
  <1>13. CASE Finished
    BY <1>12, <1>13 DEF Finished
  <1> QED BY <1>1, <1>2, <1>3, <1>4, <1>5, <1>6, <1>7, <1>8, <1>9, <1>10, <1>11,
             <1>12, <1>13 DEF Next

(* Each stage may rely on what the earlier ones established.               *)
THEOREM StagesEstablish == Spec => []IInv
  <1> QED BY InitEstablishes, NextEstablishes, PTL DEF Spec

-----------------------------------------------------------------------------
LEMMA EstablishedImplies ==
    ASSUME IInv
    PROVE  PassMeansEstablished /\ PassNamesItsClaim /\ NetworkNeedsOnline
  <1>1. ASSUME Passed
        PROVE  /\ facts.sig = "Yes" /\ AnyReceiptVerified(facts) /\ facts.chain # "Invalid"
               /\ DecisionSatisfied(decision)
               /\ args.trustedRoots => facts.chain = "Anchored"
               /\ args.artifact => binding = "Bound"
               /\ args.adapter # "None" => ScopedPass(resource)
               /\ policy.adapters = {args.adapter} \ {"None"}
               /\ args.online => acquisition.acquired # <<>>
               /\ assessment.verdict = IF args.adapter # "None" THEN "ResourceTransparent"
                                       ELSE IF args.artifact    THEN "ArtifactTransparent"
                                       ELSE "StatementTransparent"
    <2>1. pc = "Done" /\ IsPass(assessment.verdict)
      BY <1>1 DEF Passed
    <2>2. /\ assessment.verdict = Narrow(base, resource)
          /\ base = Decide(facts, binding, decision, args.mode, args.trustedRoots)
          /\ resource.ran <=> args.adapter # "None"
      BY <1>1 DEF IInv, PassIsNarrowed, BaseDecided, ResourceMatches
    <2>3. /\ base \in Verdicts /\ resource.ran \in BOOLEAN /\ facts.sig \in Trilean
          /\ binding \in Bindings /\ args.trustedRoots \in BOOLEAN /\ args.artifact \in BOOLEAN
      BY DEF IInv, TypeOK, Resources, StatementFacts, CommandLines
    <2>4. /\ IsPass(base)
          /\ resource.ran => ScopedPass(resource) /\ assessment.verdict = "ResourceTransparent"
          /\ ~resource.ran => assessment.verdict = base
      BY <2>1, <2>2, <2>3, NarrowOnlyNarrows
    <2>5. /\ facts.sig = "Yes" /\ facts.chain # "Invalid" /\ AnyReceiptVerified(facts)
          /\ args.trustedRoots => ChainValid(facts)
          /\ DecisionSatisfied(decision) /\ base = Success(binding, args.mode)
      BY <2>2, <2>3, <2>4, DecidePass
    <2>6. Accepted(args) /\ (args.artifact <=> binding # "NotRequested")
      BY <2>1, <1>1 DEF IInv, LineAccepted, ArtifactBound, Past, Early
    <2>7. args.artifact => args.mode # "None"
      BY <2>6 DEF Accepted, ArtifactAccepted, ArtifactMode
    <2>8. args.artifact => binding = "Bound"
      BY <2>3, <2>4, <2>5, <2>6, <2>7 DEF Success, IsPass, Passes, Bindings
    <2>9. Reportable(facts, args.trustedRoots, ~args.online \/ acquisition.acquired # <<>>)
      BY <2>1, <1>1 DEF IInv, FactsReported, Past, Early
    <2>10. args.trustedRoots => facts.chain = "Anchored"
      BY <2>5, <2>9 DEF Reportable, ChainValid
    <2>11. args.online => acquisition.acquired # <<>>
      BY <2>5, <2>9 DEF Reportable, AnyReceiptVerified, FullyVerified
    <2>12. policy.adapters = {args.adapter} \ {"None"}
      BY <2>1, <1>1 DEF IInv, AdapterAgreed, Past, Early
    <2>13. args.adapter = "None" =>
              base = IF args.artifact THEN "ArtifactTransparent" ELSE "StatementTransparent"
      BY <2>5, <2>6, <2>7, <2>8 DEF Success
    <2> QED BY <2>2, <2>4, <2>5, <2>8, <2>10, <2>11, <2>12, <2>13
  <1>2. NetworkNeedsOnline
    <2>1. resource.ran => pc \in {"Assess", "Done"}
      BY DEF IInv, ResourceMatches, NoResource
    <2>2. resource.ran /\ args.mode = "LiveEvidence" => args.online
      BY <2>1 DEF IInv, LineAccepted, Early, Accepted, EvidenceAccepted
    <2> QED BY <2>2 DEF NetworkNeedsOnline, IInv, OnlineAsked
  <1> QED BY <1>1, <1>2 DEF PassMeansEstablished, PassNamesItsClaim

(* Exit 0 means that everything the run was asked for was established.     *)
THEOREM PassIsEarned == Spec => []PassMeansEstablished
  <1>1. IInv => PassMeansEstablished
    BY EstablishedImplies
  <1> QED BY <1>1, StagesEstablish, PTL

(* Which of the three passes is reported is what was requested.            *)
THEOREM PassIsNamed == Spec => []PassNamesItsClaim
  <1>1. IInv => PassNamesItsClaim
    BY EstablishedImplies
  <1> QED BY <1>1, StagesEstablish, PTL

(* Nothing but --online reaches the network.                               *)
THEOREM NetworkIsAskedFor == Spec => []NetworkNeedsOnline
  <1>1. IInv => NetworkNeedsOnline
    BY EstablishedImplies
  <1> QED BY <1>1, StagesEstablish, PTL

(* No appended receipt takes a pass away or makes a statement untrusted.   *)
THEOREM ReceiptsHaveNoVeto == Spec => []NoVetoByReceipt
  <1>1. IInv => NoVetoByReceipt
    <2> SUFFICES ASSUME IInv, pc \in {"Adapter", "Assess"}
                 PROVE  LET With(f) == Decide(f, binding, decision, args.mode, args.trustedRoots)
                        IN  /\ IsPass(base) =>
                                 /\ \A r \in ReceiptFacts :
                                        With([facts EXCEPT !.receipts = Append(@, r)]) = base
                                 /\ \A k \in UnevaluableKinds :
                                        With([facts EXCEPT !.unevaluable = Append(@, k)]) = base
                            /\ base = "Untrusted" =>
                                 With([facts EXCEPT !.receipts = <<>>]) = base
      BY DEF NoVetoByReceipt
    <2>1. facts \in StatementFacts /\ binding \in Bindings
      BY DEF IInv, TypeOK
    <2>2. base = Decide(facts, binding, decision, args.mode, args.trustedRoots)
      BY DEF IInv, BaseDecided
    <2>3. NoVetoOver(facts, binding, decision, args.mode, args.trustedRoots)
      BY <2>1, NoVeto
    <2> QED BY <2>2, <2>3 DEF NoVetoOver
  <1> QED BY <1>1, StagesEstablish, PTL

(* An adapter only narrows, and appraises only what was already accepted.  *)
THEOREM AdapterNarrows == Spec => AdapterOnlyNarrows
  <1> DEFINE Narrows ==
        /\ pc = "Assess" /\ ~IsPass(base) => assessment'.verdict = base
        /\ resource' # resource /\ ~IsPass(base) => resource' = NotAttempted
  <1>1. ASSUME TypeOK, Next PROVE Narrows
    <2>1. CASE Assess
      BY <1>1, <2>1, NarrowOnlyNarrows DEF Assess, TypeOK, Resources
    <2>2. CASE RunAdapter
      BY <2>2 DEF RunAdapter, Appraisable
    <2>3. ASSUME ~Assess, ~RunAdapter
          PROVE  resource' = resource /\ pc # "Assess"
      <3>1. CASE Parse \/ ReadInputs \/ CheckRequest \/ ReadTrustedRoots
        BY <3>1 DEF Parse, ReadInputs, CheckRequest, ReadTrustedRoots, Abort
      <3>2. CASE ResolveLocal
        BY <3>2 DEF ResolveLocal, StatementRead, Abort
      <3>3. CASE SelectLedgers
        BY <3>3 DEF SelectLedgers, Abort
      <3>4. CASE VerifyScoped
        BY <3>4 DEF VerifyScoped, StatementRead, Abort
      <3>5. CASE CheckBinding \/ EvaluatePolicy \/ SkipAdapter \/ Finished
        BY <3>5 DEF CheckBinding, EvaluatePolicy, SkipAdapter, Finished, vars
      <3> QED BY <1>1, <2>3, <3>1, <3>2, <3>3, <3>4, <3>5 DEF Next
    <2> QED BY <2>1, <2>2, <2>3
  <1>2. TypeOK /\ [Next]_vars => [Narrows]_vars
    BY <1>1
  <1> QED BY <1>2, TypeCorrect, PTL DEF Spec, AdapterOnlyNarrows

-----------------------------------------------------------------------------
(* An early end carries the one error that caused it.                      *)
LEMMA AbortIsNamed ==
    ASSUME NEW v \in {"UsageError", "CannotEvaluate"}, NEW t, NEW p \in Filed,
           p.severity = "Error", Abort(v, t, p)
    PROVE  FailureIsNamed'
  <1>1. p # UnexplainedFailure
    BY DEF Filed, UnexplainedFailure, Err, Diag
  <1>2. /\ assessment'.verdict = v /\ assessment'.primary = p
        /\ assessment'.diagnostics = {p}
    BY DEF Abort, Incomplete
  <1> QED BY <1>1, <1>2 DEF FailureIsNamed, Errors

LEMMA AbortErrors ==
    /\ \A code \in Codes \ {"UnexplainedFailure"} :
          Err(code, "Input", 1, 0) \in Filed /\ Err(code, "Input", 1, 0).severity = "Error"
    /\ Err("TrustMaterialUnusable", "Trust", 1, 0).severity = "Error"
    /\ \A e \in CoreErrors : ClassifyCoreError(e).severity = "Error"
  BY AbortParts DEF Err, Diag, ClassifyCoreError, CoreErrors

LEMMA AssessIsNamed ==
    ASSUME IInv, Assess
    PROVE  FailureIsNamed'
  <1> DEFINE verdict == Narrow(base, resource)
             own     == Diagnose(facts, binding, decision, args.trustedRoots)
             found   == UNION {Notices(acquisition), own, NoBindingNote(verdict, args.mode),
                               DiagnoseResource(verdict, resource)}
  <1>1. /\ pc = "Assess" /\ assessment'.verdict = verdict
        /\ assessment'.diagnostics = found
        /\ assessment'.primary = ChoosePrimary(verdict, found)
    BY DEF Assess
  <1>2. /\ facts \in StatementFacts /\ binding \in Bindings /\ base \in Verdicts
        /\ decision \in Seq(AssertionResults) /\ args.trustedRoots \in BOOLEAN
        /\ resource \in Resources /\ acquisition \in AcquisitionBlocks
    BY DEF IInv, TypeOK, CommandLines
  <1>3. base = Decide(facts, binding, decision, args.mode, args.trustedRoots)
    BY <1>1 DEF IInv, BaseDecided
  <1>4. found \subseteq Filed /\ found \subseteq Diagnostics
    <2> HIDE DEF verdict
    <2> QED BY FoundTyped, AbortParts DEF IInv
  <1>5. ASSUME ~IsPass(verdict)
        PROVE  /\ Errors(found) # {}
               /\ verdict = "PolicyFailed" => InCategory(found, "Policy") # {}
               /\ verdict = "ResourceFailed" => InCategory(found, "Binding") # {}
               /\ verdict = "ResourceFailed" => \A e \in InCategory(found, "Binding") :
                                                   e.code = "ResourceCheckFailed"
    <2>1. CASE ~IsPass(base)
      <3>1. verdict = base
        BY <1>2, <2>1, NarrowOnlyNarrows DEF Resources
      <3>2. verdict # "ResourceFailed"
        BY <1>2, <1>3, <3>1, DecidePass DEF StatementFacts
      <3>3. Errors(own) # {} /\ (verdict = "PolicyFailed" => InCategory(own, "Policy") # {})
        BY <1>2, <1>3, <2>1, <3>1, DiagnoseNamesFailure
      <3> HIDE DEF own, verdict
      <3> QED BY <3>2, <3>3 DEF Errors, InCategory
    <2>2. CASE IsPass(base)
      <3>1. /\ verdict \in {"ResourceFailed", "CannotEvaluate"}
            /\ Errors(DiagnoseResource(verdict, resource)) # {}
            /\ verdict = "ResourceFailed" =>
                  InCategory(DiagnoseResource(verdict, resource), "Binding") # {}
            /\ verdict = "ResourceFailed" =>
                  \A e \in Errors(DiagnoseResource(verdict, resource)) :
                     e.code = "ResourceCheckFailed"
        BY <1>2, <1>5, <2>2, ResourceNamesFailure
      <3>2. args.adapter # "None"
        <4>1. resource.ran
          BY <1>5, <2>2 DEF Narrow
        <4> QED BY <1>1, <4>1 DEF IInv, ResourceMatches
      <3>3. binding = "NotRequested"
        BY <1>1, <1>2, <3>2 DEF IInv, LineAccepted, ArtifactBound, Past, Early, Accepted,
           ArtifactAccepted, ArtifactMode, EvidenceMode, TypeOK, CommandLines
      <3>4. \A e \in own : e.category # "Binding"
        BY <3>3, NoBindingError
      <3>5. \A e \in Notices(acquisition) : e.category # "Binding"
        BY DEF Notices, FaultCategory, Err, Warn, Diag, When
      <3>6. \A e \in NoBindingNote(verdict, args.mode) : e.severity # "Error"
        BY DEF NoBindingNote, When, Warn, Diag
      <3> HIDE DEF own, verdict
      <3> QED BY <3>1, <3>4, <3>5, <3>6 DEF Errors, InCategory
    <2> QED BY <2>1, <2>2
  <1> HIDE DEF found, verdict
  <1>6. SUFFICES ASSUME ~IsPass(verdict)
        PROVE  /\ ChoosePrimary(verdict, found) \in Errors(found)
               /\ ChoosePrimary(verdict, found) # UnexplainedFailure
               /\ verdict = "PolicyFailed" => ChoosePrimary(verdict, found).category = "Policy"
               /\ verdict = "ResourceFailed" =>
                     ChoosePrimary(verdict, found).code = "ResourceCheckFailed"
    BY <1>1 DEF FailureIsNamed
  <1>7. ChoosePrimary(verdict, found) \in Errors(found)
    BY <1>4, <1>5, <1>6, PrimaryIsAnError
  <1>8. ChoosePrimary(verdict, found) # UnexplainedFailure
    BY <1>4, <1>7 DEF Errors, Filed, UnexplainedFailure, Err, Diag
  <1>9. /\ verdict = "PolicyFailed" => ChoosePrimary(verdict, found).category = "Policy"
        /\ verdict = "ResourceFailed" =>
              ChoosePrimary(verdict, found) \in InCategory(found, "Binding")
    BY <1>4, <1>5, <1>6, PrimaryCategory
  <1> QED BY <1>5, <1>6, <1>7, <1>8, <1>9

LEMMA NextNames == IInv /\ FailureIsNamed /\ [Next]_vars => FailureIsNamed'
  <1> SUFFICES ASSUME IInv, FailureIsNamed, [Next]_vars PROVE FailureIsNamed' OBVIOUS
  <1>1. ASSUME pc' # "Done" PROVE FailureIsNamed'
    BY <1>1 DEF FailureIsNamed
  <1>2. CASE ReadInputs
    <2>1. ASSUME NEW code \in {"StatementUnreadable", "PolicyUnreadable", "PolicyMalformed"},
                 Abort("UsageError", "unsigned-scitt-keys", Err(code, "Input", 1, 0))
          PROVE  FailureIsNamed'
      <3>1. code \in Codes \ {"UnexplainedFailure"}
        BY DEF Codes
      <3> QED BY <2>1, <3>1, AbortErrors, AbortIsNamed
    <2> QED BY <1>1, <1>2, <2>1 DEF ReadInputs, Proceed
  <1>3. CASE CheckRequest
    <2>1. ASSUME NEW code \in {"AdapterPolicyMismatch", "ExternalRootSourceInvalid"},
                 Abort("UsageError", "unsigned-scitt-keys", Err(code, "Input", 1, 0))
          PROVE  FailureIsNamed'
      <3>1. code \in Codes \ {"UnexplainedFailure"}
        BY DEF Codes
      <3> QED BY <2>1, <3>1, AbortErrors, AbortIsNamed
    <2> QED BY <1>1, <1>3, <2>1 DEF CheckRequest, Proceed
  <1>4. CASE ReadTrustedRoots
    <2>1. ASSUME NEW code \in {"TrustedRootsUnreadable", "TrustedRootsUnusable"},
                 Abort("UsageError", "unsigned-scitt-keys", Err(code, "Input", 1, 0))
          PROVE  FailureIsNamed'
      <3>1. code \in Codes \ {"UnexplainedFailure"}
        BY DEF Codes
      <3> QED BY <2>1, <3>1, AbortErrors, AbortIsNamed
    <2> QED BY <1>1, <1>4, <2>1 DEF ReadTrustedRoots, Proceed
  <1>5. ASSUME NEW t, NEW keys, StatementRead(t, keys) PROVE FailureIsNamed'
    <2>1. ASSUME NEW e \in {"Malformed", "Structure"},
                 Abort("CannotEvaluate", t, ClassifyCoreError(e))
          PROVE  FailureIsNamed'
      <3>1. e \in CoreErrors
        BY DEF CoreErrors
      <3> QED BY <2>1, <3>1, AbortErrors, AbortParts, AbortIsNamed
    <2> QED BY <1>1, <1>5, <2>1 DEF StatementRead, Proceed
  <1>6. CASE ResolveLocal
    <2>1. Err("TrustMaterialUnreadable", "Input", 1, 0) \in Filed
          /\ Err("TrustMaterialUnreadable", "Input", 1, 0).severity = "Error"
      BY AbortErrors DEF Codes
    <2>2. ASSUME Abort("UsageError", "unsigned-scitt-keys",
                       Err("TrustMaterialUnreadable", "Input", 1, 0))
          PROVE  FailureIsNamed'
      BY <2>1, <2>2, AbortIsNamed
    <2>3. ASSUME Abort("CannotEvaluate", "unsigned-scitt-keys",
                       Err("TrustMaterialUnusable", "Trust", 1, 0))
          PROVE  FailureIsNamed'
      BY <2>3, AbortErrors, AbortParts, AbortIsNamed
    <2> QED BY <1>5, <1>6, <2>2, <2>3 DEF ResolveLocal
  <1>7. CASE SelectLedgers
    <2>1. ASSUME NEW e \in {"Malformed", "Structure"},
                 Abort("CannotEvaluate", "no-key-set", ClassifyCoreError(e))
          PROVE  FailureIsNamed'
      <3>1. e \in CoreErrors
        BY DEF CoreErrors
      <3> QED BY <2>1, <3>1, AbortErrors, AbortParts, AbortIsNamed
    <2>2. ASSUME Abort("UsageError", "no-key-set",
                       Err("AcquisitionNotConfigured", "Input", 1, 0))
          PROVE  FailureIsNamed'
      <3>1. "AcquisitionNotConfigured" \in Codes \ {"UnexplainedFailure"}
        BY DEF Codes
      <3> QED BY <2>2, <3>1, AbortErrors, AbortIsNamed
    <2> QED BY <1>1, <1>7, <2>1, <2>2 DEF SelectLedgers, Proceed
  <1>8. CASE VerifyScoped
    BY <1>5, <1>8 DEF VerifyScoped
  <1>9. CASE CheckBinding
    <2>1. CASE assessment' = ArtifactUnreadable
      <3>1. "ArtifactUnreadable" \in Codes \ {"UnexplainedFailure"}
        BY DEF Codes
      <3> DEFINE p == Err("ArtifactUnreadable", "Input", 1, 0)
      <3>2. p \in Filed /\ p.severity = "Error"
        BY <3>1, AbortErrors
      <3>3. p # UnexplainedFailure
        BY DEF UnexplainedFailure, Err, Diag
      <3>4. /\ assessment'.verdict = "UsageError" /\ assessment'.primary = p
            /\ p \in assessment'.diagnostics
        BY <2>1 DEF ArtifactUnreadable
      <3> HIDE DEF p
      <3> QED BY <3>2, <3>3, <3>4 DEF FailureIsNamed, Errors
    <2> QED BY <1>1, <1>9, <2>1 DEF CheckBinding, Proceed
  <1>10. CASE Assess
    BY <1>10, AssessIsNamed
  <1>11. CASE Parse \/ EvaluatePolicy \/ SkipAdapter \/ RunAdapter
    BY <1>1, <1>11 DEF Parse, EvaluatePolicy, SkipAdapter, RunAdapter, Proceed
  <1>12. CASE Finished \/ UNCHANGED vars
    BY <1>12 DEF Finished, vars, FailureIsNamed
  <1> QED BY <1>2, <1>3, <1>4, <1>6, <1>7, <1>8, <1>9, <1>10, <1>11, <1>12 DEF Next

(* A run that did not pass always names one of its own errors, and exit 2  *)
(* is named by the side that failed.                                       *)
THEOREM FailuresAreNamed == Spec => []FailureIsNamed
  <1>1. Init => FailureIsNamed
    BY DEF Init, FailureIsNamed
  <1> QED BY <1>1, NextNames, StagesEstablish, PTL DEF Spec
=============================================================================
