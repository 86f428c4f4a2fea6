--------------------------- MODULE OutcomeProofs ---------------------------
(***************************************************************************)
(* Lemmas about the pure functions of Outcome and Diagnosis: what decide,  *)
(* narrow_for_resource, diagnose and choose_primary return for every       *)
(* statement, decision and appraisal.                                      *)
(***************************************************************************)
EXTENDS Diagnosis, WellFoundedInduction, TLAPS

-----------------------------------------------------------------------------
(* Every nonempty set of naturals has a least element.                     *)
LEMMA LeastNatural ==
    ASSUME NEW S, S \subseteq Nat, S # {}
    PROVE  \E m \in S : \A k \in S : m <= k
  <1>1. PICK m \in S : \A k \in S : <<k, m>> \notin OpToRel(<, Nat)
    BY NatLessThanWellFounded, WFMin, Zenon
  <1>2. \A k \in S : ~(k < m)
    BY <1>1 DEF OpToRel
  <1> QED BY <1>2

(* A set of diagnostics has a first one: "the first error" names something.*)
LEMMA FirstOfMember ==
    ASSUME NEW S, S \subseteq Diagnostics, S # {}
    PROVE  FirstOf(S) \in S
  <1> DEFINE phases == {d.phase : d \in S}
  <1>1. phases \subseteq Nat /\ phases # {}
    BY DEF Diagnostics
  <1>2. PICK p \in phases : \A k \in phases : p <= k
    <2> HIDE DEF phases
    <2> QED BY <1>1, LeastNatural
  <1> DEFINE indices == {d.index : d \in {e \in S : e.phase = p}}
  <1>3. indices \subseteq Nat /\ indices # {}
    BY <1>2 DEF Diagnostics
  <1>4. PICK i \in indices : \A k \in indices : i <= k
    <2> HIDE DEF indices, phases
    <2> QED BY <1>3, LeastNatural
  <1>5. PICK d \in S : d.phase = p /\ d.index = i
    BY <1>4
  <1>6. ASSUME NEW e \in S PROVE ~Before(e, d)
    <2>1. p <= e.phase /\ (e.phase = p => i <= e.index)
      BY <1>2, <1>4
    <2>2. e.phase \in Nat /\ e.index \in Nat /\ p \in Nat /\ i \in Nat
      BY <1>1, <1>3 DEF Diagnostics
    <2> QED BY <2>1, <2>2, <1>5 DEF Before
  <1> QED BY <1>5, <1>6 DEF FirstOf

-----------------------------------------------------------------------------
(* Every block of diagnose files well-formed diagnostics, and none files   *)
(* the backstop itself.                                                    *)
Filed == {d \in Diagnostics : d.code # "UnexplainedFailure"}

LEMMA DiagTyped ==
    ASSUME NEW code \in Codes \ {"UnexplainedFailure"}, NEW category \in Categories,
           NEW phase \in Nat, NEW index \in Nat
    PROVE  /\ Err(code, category, phase, index) \in Filed
           /\ Warn(code, category, phase, index) \in Filed
  BY DEF Err, Warn, Diag, Diagnostics, Filed

LEMMA WhenTyped ==
    ASSUME NEW condition, NEW d \in Filed
    PROVE  When(condition, d) \subseteq Filed
  BY DEF When

LEMMA StatementProblemsTyped ==
    ASSUME NEW f \in StatementFacts, NEW anchoring \in BOOLEAN
    PROVE  StatementProblems(f, anchoring) \subseteq Filed
  <1>1. /\ Err("StatementSignatureInvalid", "Crypto", 1, 1) \in Filed
        /\ Err("StatementSignatureNotEvaluated", "Unsupported", 1, 2) \in Filed
        /\ Err("CertificateChainInvalid", "SignerIdentity", 1, 3) \in Filed
        /\ Err("CertificateChainNotAnchored", "Unsupported", 1, 4) \in Filed
    BY DiagTyped DEF Categories, Codes
  <1> QED BY <1>1 DEF StatementProblems, When

LEMMA ReceiptProblemsTyped ==
    ASSUME NEW f \in StatementFacts
    PROVE  ReceiptProblems(f) \subseteq Filed
  <1>1. ASSUME NEW i \in DOMAIN f.receipts
        PROVE  /\ Warn("ReceiptRootSignatureInvalid", "Crypto", 2, i) \in Filed
               /\ Warn("ReceiptNotBoundToStatement", "Crypto", 2, i) \in Filed
               /\ Err("ReceiptKeyUnknown", "Trust", 2, i) \in Filed
               /\ Err("ReceiptKeyRevoked", "Trust", 2, i) \in Filed
    <2>1. i \in Nat BY <1>1 DEF StatementFacts
    <2> QED BY <2>1, DiagTyped DEF Categories, Codes
  <1>2. ASSUME NEW i \in DOMAIN f.unevaluable
        PROVE  Warn("ReceiptUnevaluable", "Input", 3, i) \in Filed
    <2>1. i \in Nat BY <1>2 DEF StatementFacts
    <2> QED BY <2>1, DiagTyped DEF Categories, Codes
  <1> DEFINE Of(i) == UNION
        {When(f.receipts[i].root = "No",  Warn("ReceiptRootSignatureInvalid", "Crypto", 2, i)),
         When(f.receipts[i].bound = "No", Warn("ReceiptNotBoundToStatement", "Crypto", 2, i)),
         When(f.receipts[i].lookup = "UnknownKid", Err("ReceiptKeyUnknown", "Trust", 2, i)),
         When(f.receipts[i].lookup = "Revoked",    Err("ReceiptKeyRevoked", "Trust", 2, i))}
  <1>3. \A i \in DOMAIN f.receipts : Of(i) \subseteq Filed
    BY <1>1, WhenTyped
  <1> DEFINE judged == UNION {Of(i) : i \in DOMAIN f.receipts}
             unread == {Warn("ReceiptUnevaluable", "Input", 3, i) : i \in DOMAIN f.unevaluable}
  <1>4. ReceiptProblems(f) = judged \cup unread
    BY DEF ReceiptProblems
  <1>5. judged \subseteq Filed
    <2> HIDE DEF Of
    <2> QED BY <1>3
  <1>6. unread \subseteq Filed
    BY <1>2
  <1> HIDE DEF judged, unread
  <1> QED BY <1>4, <1>5, <1>6

LEMMA OutcomeProblemsTyped ==
    ASSUME NEW f, NEW b, NEW v, NEW mode
    PROVE  /\ TransparencyProblem(f) \subseteq Filed
           /\ BindingProblem(b) \subseteq Filed
           /\ NoBindingNote(v, mode) \subseteq Filed
  <1>1. /\ Err("NoReceipt", "Trust", 4, 0) \in Filed
        /\ Err("NoVerifiedReceipt", "Trust", 4, 0) \in Filed
        /\ Err("ArtifactBindingMismatch", "Binding", 5, 0) \in Filed
        /\ Err("ArtifactBindingUnevaluable", "Binding", 5, 0) \in Filed
        /\ Warn("ArtifactBindingNotRequested", "Binding", 8, 0) \in Filed
    BY DiagTyped DEF Categories, Codes
  <1> QED BY <1>1 DEF TransparencyProblem, BindingProblem, NoBindingNote, When

LEMMA PolicyProblemsTyped ==
    ASSUME NEW d \in Seq(AssertionResults)
    PROVE  PolicyProblems(d) \subseteq Filed
  <1>1. ASSUME NEW i \in DOMAIN d
        PROVE  /\ Err("PolicyAssertionFailed", "Policy", 6, i) \in Filed
               /\ Err("PolicyAssertionUnevaluable", "Policy", 6, i) \in Filed
    <2>1. i \in Nat BY <1>1
    <2> QED BY <2>1, DiagTyped DEF Categories, Codes
  <1>2. Err("PolicyProducedNoAssertions", "Policy", 7, 0) \in Filed
    BY DiagTyped DEF Categories, Codes
  <1> DEFINE Of(i) == When(d[i].outcome = "Fail", Err("PolicyAssertionFailed", "Policy", 6, i))
                      \cup When(d[i].outcome = "CannotEvaluate",
                                Err("PolicyAssertionUnevaluable", "Policy", 6, i))
  <1>3. \A i \in DOMAIN d : Of(i) \subseteq Filed
    BY <1>1, WhenTyped
  <1> DEFINE judged == UNION {Of(i) : i \in DOMAIN d}
             empty  == When(d = <<>>, Err("PolicyProducedNoAssertions", "Policy", 7, 0))
  <1>4. PolicyProblems(d) = judged \cup empty
    BY DEF PolicyProblems
  <1>5. judged \subseteq Filed
    <2> HIDE DEF Of
    <2> QED BY <1>3
  <1>6. empty \subseteq Filed
    BY <1>2, WhenTyped
  <1> HIDE DEF judged, empty
  <1> QED BY <1>4, <1>5, <1>6

LEMMA DiagnoseTyped ==
    ASSUME NEW f \in StatementFacts, NEW b, NEW d \in Seq(AssertionResults),
           NEW anchoring \in BOOLEAN
    PROVE  Diagnose(f, b, d, anchoring) \subseteq Filed
  BY StatementProblemsTyped, ReceiptProblemsTyped, OutcomeProblemsTyped,
     PolicyProblemsTyped DEF Diagnose

LEMMA DiagnoseResourceTyped ==
    ASSUME NEW v, NEW r, DOMAIN r.checks \subseteq Nat, r.notes \in Nat
    PROVE  DiagnoseResource(v, r) \subseteq Filed
  <1>1. /\ Warn("ResourceAppraisalScoped", "Binding", 9, 0) \in Filed
        /\ Err("ResourceAppraisalIncomplete", "Binding", 11, 0) \in Filed
    BY DiagTyped DEF Categories, Codes
  <1>2. \A i \in Nat : /\ Err("ResourceCheckFailed", "Binding", 10, i) \in Filed
                       /\ Warn("ResourceAppraisalNote", "Binding", 12, i) \in Filed
    BY DiagTyped DEF Categories, Codes
  <1> QED BY <1>1, <1>2 DEF DiagnoseResource, When

-----------------------------------------------------------------------------
(* choose_primary: with an error in hand the primary diagnostic of a run   *)
(* that did not pass is one of them, and never the backstop by default.    *)
LEMMA PrimaryIsAnError ==
    ASSUME NEW v, NEW ds, ds \subseteq Diagnostics, ~IsPass(v)
    PROVE  /\ Errors(ds) # {} => ChoosePrimary(v, ds) \in Errors(ds)
           /\ Errors(ds) = {} => ChoosePrimary(v, ds) = UnexplainedFailure
  <1> DEFINE hits == {k \in DOMAIN Wanted(v) : InCategory(ds, Wanted(v)[k]) # {}}
  <1>1. CASE hits # {}
    <2>1. hits \subseteq Nat
      BY DEF Wanted
    <2>2. \E k \in hits : \A j \in hits : k <= j
      <3> HIDE DEF hits
      <3> QED BY <1>1, <2>1, LeastNatural
    <2> DEFINE k == CHOOSE k \in hits : \A j \in hits : k <= j
    <2>3. k \in hits
      <3> HIDE DEF hits
      <3> QED BY <2>2
    <2> DEFINE c == Wanted(v)[k]
    <2>4. InCategory(ds, c) # {} /\ InCategory(ds, c) \subseteq Errors(ds)
      BY <2>3 DEF InCategory
    <2>5. Errors(ds) \subseteq Diagnostics
      BY DEF Errors
    <2>6. FirstOf(InCategory(ds, c)) \in InCategory(ds, c)
      <3> HIDE DEF c
      <3> QED BY <2>4, <2>5, FirstOfMember
    <2>7. ChoosePrimary(v, ds) = FirstOf(InCategory(ds, c))
      BY <1>1 DEF ChoosePrimary
    <2> HIDE DEF c
    <2> QED BY <2>4, <2>6, <2>7
  <1>2. CASE hits = {} /\ Errors(ds) # {}
    <2>1. ChoosePrimary(v, ds) = FirstOf(Errors(ds))
      BY <1>2 DEF ChoosePrimary
    <2> QED BY <1>2, <2>1, FirstOfMember DEF Errors
  <1>3. CASE hits = {} /\ Errors(ds) = {}
    BY <1>3 DEF ChoosePrimary
  <1> QED BY <1>1, <1>2, <1>3

LEMMA PrimaryTyped ==
    ASSUME NEW v, NEW ds, ds \subseteq Diagnostics
    PROVE  ChoosePrimary(v, ds) \in Diagnostics
  <1>1. UnexplainedFailure \in Diagnostics /\ NoDiagnostic \in Diagnostics
    BY DEF UnexplainedFailure, NoDiagnostic, Err, Warn, Diag, Diagnostics, Codes, Categories
  <1>2. CASE IsPass(v)
    BY <1>1, <1>2 DEF ChoosePrimary
  <1>3. CASE ~IsPass(v)
    BY <1>1, <1>3, PrimaryIsAnError DEF Errors
  <1> QED BY <1>2, <1>3

(* The category choose_primary wants first wins when it has an error.      *)
LEMMA PrimaryCategory ==
    ASSUME NEW ds, ds \subseteq Diagnostics
    PROVE  /\ InCategory(ds, "Policy") # {} =>
                 ChoosePrimary("PolicyFailed", ds).category = "Policy"
           /\ InCategory(ds, "Binding") # {} =>
                 ChoosePrimary("ResourceFailed", ds) \in InCategory(ds, "Binding")
  <1>1. ASSUME NEW v \in {"PolicyFailed", "ResourceFailed"}, NEW c, Wanted(v) = <<c>>,
               InCategory(ds, c) # {}
        PROVE  ChoosePrimary(v, ds) \in InCategory(ds, c)
    <2> DEFINE hits == {k \in DOMAIN Wanted(v) : InCategory(ds, Wanted(v)[k]) # {}}
    <2>1. hits = {1}
      BY <1>1
    <2>2. (CHOOSE k \in hits : \A j \in hits : k <= j) = 1
      BY <2>1
    <2>3. ChoosePrimary(v, ds) = FirstOf(InCategory(ds, Wanted(v)[1]))
      BY <2>1, <2>2, <1>1 DEF ChoosePrimary, IsPass, Passes
    <2>4. FirstOf(InCategory(ds, c)) \in InCategory(ds, c)
      BY <1>1, FirstOfMember DEF InCategory, Errors
    <2> QED BY <2>3, <2>4, <1>1
  <1>2. Wanted("PolicyFailed") = <<"Policy">> /\ Wanted("ResourceFailed") = <<"Binding">>
    BY DEF Wanted
  <1> QED BY <1>1, <1>2 DEF InCategory

-----------------------------------------------------------------------------
(* decide returns a verdict, and a pass only when nothing indicts the      *)
(* statement, everything was answered and the whole policy is satisfied.   *)
LEMMA DecidePass ==
    ASSUME NEW f, NEW b \in Bindings, NEW d, NEW mode, NEW anchoring \in BOOLEAN,
           f.sig \in Trilean
    PROVE  /\ Decide(f, b, d, mode, anchoring) \in Verdicts
           /\ Decide(f, b, d, mode, anchoring) \notin {"ResourceFailed", "ResourceTransparent"}
           /\ IsPass(Decide(f, b, d, mode, anchoring)) =>
                 /\ f.sig = "Yes" /\ f.chain # "Invalid" /\ AnyReceiptVerified(f)
                 /\ anchoring => ChainValid(f)
                 /\ DecisionSatisfied(d) /\ ~DecisionFailed(d)
                 /\ Decide(f, b, d, mode, anchoring) = Success(b, mode)
  BY DEF Decide, Indicted, Unanswered, Success, IsPass, Passes, Verdicts, Trilean, Bindings

(* narrow_for_resource only narrows, and with an adapter the only pass     *)
(* left is the one that names it.                                          *)
LEMMA NarrowOnlyNarrows ==
    ASSUME NEW v \in Verdicts, NEW r, r.ran \in BOOLEAN
    PROVE  /\ Narrow(v, r) \in Verdicts
           /\ ~IsPass(v) => Narrow(v, r) = v
           /\ ~r.ran => Narrow(v, r) = v
           /\ IsPass(Narrow(v, r)) => IsPass(v)
           /\ IsPass(Narrow(v, r)) /\ r.ran =>
                 ScopedPass(r) /\ Narrow(v, r) = "ResourceTransparent"
  BY DEF Narrow, IsPass, Passes, Verdicts

-----------------------------------------------------------------------------
(* What one more receipt, or one more receipt that cannot be read, does to *)
(* a decided verdict.                                                      *)
LEMMA AppendedReceipt ==
    ASSUME NEW f \in StatementFacts, NEW r \in ReceiptFacts, AnyReceiptVerified(f)
    PROVE  AnyReceiptVerified([f EXCEPT !.receipts = Append(@, r)])
  <1> DEFINE g == [f EXCEPT !.receipts = Append(@, r)]
  <1>1. PICK i \in DOMAIN f.receipts : FullyVerified(f.receipts[i])
    BY DEF AnyReceiptVerified
  <1>2. g.receipts = Append(f.receipts, r) /\ f.receipts \in Seq(ReceiptFacts)
    BY DEF StatementFacts
  <1>3. i \in DOMAIN g.receipts /\ g.receipts[i] = f.receipts[i]
    BY <1>2
  <1> QED BY <1>1, <1>3 DEF AnyReceiptVerified

NoVetoOver(f, b, d, mode, anchoring) ==
    LET With(g) == Decide(g, b, d, mode, anchoring) IN
    /\ IsPass(With(f)) =>
          /\ \A r \in ReceiptFacts : With([f EXCEPT !.receipts = Append(@, r)]) = With(f)
          /\ \A k \in UnevaluableKinds :
                With([f EXCEPT !.unevaluable = Append(@, k)]) = With(f)
    /\ With(f) = "Untrusted" => With([f EXCEPT !.receipts = <<>>]) = "Untrusted"

LEMMA NoVeto ==
    ASSUME NEW f \in StatementFacts, NEW b \in Bindings, NEW d, NEW mode, NEW anchoring
    PROVE  NoVetoOver(f, b, d, mode, anchoring)
  <1> DEFINE With(g) == Decide(g, b, d, mode, anchoring)
  <1>1. ASSUME IsPass(With(f)), NEW r \in ReceiptFacts
        PROVE  With([f EXCEPT !.receipts = Append(@, r)]) = With(f)
    <2> DEFINE g == [f EXCEPT !.receipts = Append(@, r)]
    <2>1. AnyReceiptVerified(f)
      BY <1>1 DEF Decide, Indicted, Unanswered, IsPass, Passes
    <2>2. AnyReceiptVerified(g)
      BY <2>1, AppendedReceipt
    <2>3. g.sig = f.sig /\ g.chain = f.chain
      BY DEF StatementFacts
    <2>4. With(g) = With(f)
      <3> HIDE DEF g
      <3> QED BY <2>1, <2>2, <2>3 DEF Decide, Indicted, Unanswered, ChainValid
    <2> QED BY <2>4
  <1>2. ASSUME IsPass(With(f)), NEW k \in UnevaluableKinds
        PROVE  With([f EXCEPT !.unevaluable = Append(@, k)]) = With(f)
    <2> DEFINE g == [f EXCEPT !.unevaluable = Append(@, k)]
    <2>1. g.sig = f.sig /\ g.chain = f.chain /\ g.receipts = f.receipts
      BY DEF StatementFacts
    <2>2. With(g) = With(f)
      <3> HIDE DEF g
      <3> QED BY <2>1 DEF Decide, Indicted, Unanswered, ChainValid, AnyReceiptVerified
    <2> QED BY <2>2
  <1>3. ASSUME With(f) = "Untrusted"
        PROVE  With([f EXCEPT !.receipts = <<>>]) = "Untrusted"
    <2> DEFINE g == [f EXCEPT !.receipts = <<>>]
    <2>1. g.sig = f.sig /\ g.chain = f.chain
      BY DEF StatementFacts
    <2>2. Indicted(f, b)
      BY <1>3 DEF Decide, Indicted, Success, Bindings
    <2>3. With(g) = "Untrusted"
      <3> HIDE DEF g
      <3> QED BY <2>1, <2>2 DEF Decide, Indicted
    <2> QED BY <2>3
  <1> QED BY <1>1, <1>2, <1>3 DEF NoVetoOver

-----------------------------------------------------------------------------
(* Whatever keeps decide from a pass is one of the errors diagnose lists.  *)
LEMMA DiagnoseNamesFailure ==
    ASSUME NEW f \in StatementFacts, NEW b \in Bindings, NEW d \in Seq(AssertionResults),
           NEW mode, NEW anchoring \in BOOLEAN, ~IsPass(Decide(f, b, d, mode, anchoring))
    PROVE  /\ Errors(Diagnose(f, b, d, anchoring)) # {}
           /\ Decide(f, b, d, mode, anchoring) = "PolicyFailed" =>
                 InCategory(Diagnose(f, b, d, anchoring), "Policy") # {}
  <1> DEFINE ds == Diagnose(f, b, d, anchoring)
  <1>1. \A code, category, phase, index :
           /\ Err(code, category, phase, index).severity = "Error"
           /\ Err(code, category, phase, index).category = category
    BY DEF Err, Diag
  <1>2. CASE f.sig = "No" \/ f.sig = "Unknown" \/ f.chain = "Invalid"
             \/ (anchoring /\ ~ChainValid(f))
    <2>1. \E e \in StatementProblems(f, anchoring) : e.severity = "Error"
      BY <1>1, <1>2 DEF StatementProblems, When
    <2>2. Errors(ds) # {}
      BY <2>1 DEF Errors, Diagnose
    <2>3. Decide(f, b, d, mode, anchoring) # "PolicyFailed"
      BY <1>2 DEF Decide, Indicted, Unanswered
    <2> QED BY <2>2, <2>3
  <1>3. CASE ~AnyReceiptVerified(f)
    <2>1. \E e \in TransparencyProblem(f) : e.severity = "Error"
      BY <1>1, <1>3 DEF TransparencyProblem, When
    <2>2. Errors(ds) # {}
      BY <2>1 DEF Errors, Diagnose
    <2>3. Decide(f, b, d, mode, anchoring) # "PolicyFailed"
      BY <1>3 DEF Decide, Unanswered
    <2> QED BY <2>2, <2>3
  <1>4. CASE DecisionFailed(d)
    <2>1. PICK i \in DOMAIN d : d[i].outcome = "Fail"
      BY <1>4 DEF DecisionFailed
    <2>2. Err("PolicyAssertionFailed", "Policy", 6, i) \in PolicyProblems(d)
      BY <2>1 DEF PolicyProblems, When
    <2>3. Err("PolicyAssertionFailed", "Policy", 6, i) \in InCategory(ds, "Policy")
      BY <1>1, <2>2 DEF InCategory, Errors, Diagnose
    <2> QED BY <2>3 DEF InCategory
  <1>5. CASE b \in {"Mismatch", "CannotCompare"} /\ ~DecisionFailed(d)
    <2>1. \E e \in BindingProblem(b) : e.severity = "Error"
      BY <1>1, <1>5 DEF BindingProblem, When
    <2>2. Errors(ds) # {}
      BY <2>1 DEF Errors, Diagnose
    <2>3. Decide(f, b, d, mode, anchoring) # "PolicyFailed"
      BY <1>5 DEF Decide, Success
    <2> QED BY <2>2, <2>3
  <1>6. CASE ~DecisionSatisfied(d) /\ ~DecisionFailed(d)
    <2>1. \E e \in PolicyProblems(d) : e.severity = "Error"
      <3>1. CASE d = <<>>
        BY <1>1, <3>1 DEF PolicyProblems, When
      <3>2. CASE d # <<>>
        <4>0. \A i \in DOMAIN d : d[i].outcome \in {"Pass", "Fail", "CannotEvaluate"}
          <5>1. \A i \in DOMAIN d : d[i] \in AssertionResults
            OBVIOUS
          <5> QED BY <5>1 DEF AssertionResults, AssertionOutcomes
        <4>1. PICK i \in DOMAIN d : d[i].outcome = "CannotEvaluate"
          BY <1>6, <3>2, <4>0 DEF DecisionSatisfied, DecisionFailed
        <4>2. Err("PolicyAssertionUnevaluable", "Policy", 6, i) \in PolicyProblems(d)
          BY <4>1 DEF PolicyProblems, When
        <4> QED BY <1>1, <4>2
      <3> QED BY <3>1, <3>2
    <2>2. Errors(ds) # {}
      BY <2>1 DEF Errors, Diagnose
    <2>3. Decide(f, b, d, mode, anchoring) # "PolicyFailed"
      BY <1>6 DEF Decide, Success
    <2> QED BY <2>2, <2>3
  <1>7. \/ f.sig = "No" \/ f.sig = "Unknown" \/ f.chain = "Invalid"
        \/ anchoring /\ ~ChainValid(f)
        \/ ~AnyReceiptVerified(f)
        \/ DecisionFailed(d)
        \/ b \in {"Mismatch", "CannotCompare"}
        \/ ~DecisionSatisfied(d)
    BY DEF Decide, Indicted, Unanswered, Success, IsPass, Passes, Bindings
  <1> QED BY <1>2, <1>3, <1>4, <1>5, <1>6, <1>7

(* With nothing compared, diagnose files no error of the adapter's own     *)
(* category, so the adapter's error is the one that is named.              *)
LEMMA NoBindingError ==
    ASSUME NEW f, NEW d, NEW anchoring, NEW e \in Diagnose(f, "NotRequested", d, anchoring)
    PROVE  e.category # "Binding"
  <1>1. \A code, category, phase, index :
           /\ Err(code, category, phase, index).category = category
           /\ Warn(code, category, phase, index).category = category
    BY DEF Err, Warn, Diag
  <1>2. CASE e \in StatementProblems(f, anchoring)
    BY <1>1, <1>2 DEF StatementProblems, When
  <1>3. CASE e \in ReceiptProblems(f)
    BY <1>1, <1>3 DEF ReceiptProblems, When
  <1>4. CASE e \in TransparencyProblem(f)
    BY <1>1, <1>4 DEF TransparencyProblem, When
  <1>5. CASE e \in BindingProblem("NotRequested")
    BY <1>5 DEF BindingProblem, When
  <1>6. CASE e \in PolicyProblems(d)
    BY <1>1, <1>6 DEF PolicyProblems, When
  <1> QED BY <1>2, <1>3, <1>4, <1>5, <1>6 DEF Diagnose

(* A pass an adapter took away is explained by the adapter.                *)
LEMMA ResourceNamesFailure ==
    ASSUME NEW v \in Verdicts, NEW r, IsPass(v), ~IsPass(Narrow(v, r))
    PROVE  LET w == Narrow(v, r) IN
           /\ w \in {"ResourceFailed", "CannotEvaluate"}
           /\ Errors(DiagnoseResource(w, r)) # {}
           /\ w = "ResourceFailed" => InCategory(DiagnoseResource(w, r), "Binding") # {}
           /\ w = "ResourceFailed" => \A e \in Errors(DiagnoseResource(w, r)) :
                                         e.code = "ResourceCheckFailed"
  <1> DEFINE w == Narrow(v, r)
  <1>1. \A code, category, phase, index :
           /\ Err(code, category, phase, index).severity = "Error"
           /\ Err(code, category, phase, index).category = category
           /\ Err(code, category, phase, index).code = code
           /\ Warn(code, category, phase, index).severity = "Warning"
    BY DEF Err, Warn, Diag
  <1>2. r.ran /\ ~ScopedPass(r) /\ w = IF AnyFail(r) THEN "ResourceFailed" ELSE "CannotEvaluate"
    BY DEF Narrow, IsPass, Passes
  <1>3. CASE AnyFail(r)
    <2>1. PICK i \in DOMAIN r.checks : r.checks[i].state = "Fail"
      BY <1>3 DEF AnyFail
    <2>2. Err("ResourceCheckFailed", "Binding", 10, i) \in DiagnoseResource(w, r)
      BY <1>2, <2>1 DEF DiagnoseResource
    <2>3. Err("ResourceCheckFailed", "Binding", 10, i) \in
             InCategory(DiagnoseResource(w, r), "Binding")
      BY <1>1, <2>2 DEF InCategory, Errors
    <2>4. w = "ResourceFailed"
      BY <1>2, <1>3
    <2>5. ASSUME NEW e \in DiagnoseResource("ResourceFailed", r), e.severity = "Error"
          PROVE  e.code = "ResourceCheckFailed"
      BY <1>1, <1>2, <2>5 DEF DiagnoseResource, When
    <2> QED BY <2>3, <2>4, <2>5 DEF InCategory, Errors
  <1>4. CASE ~AnyFail(r)
    <2>1. w = "CannotEvaluate" /\ Blocking(r)
      BY <1>2, <1>4 DEF Blocking
    <2>2. Err("ResourceAppraisalIncomplete", "Binding", 11, 0) \in DiagnoseResource(w, r)
      BY <1>2, <2>1 DEF DiagnoseResource, When
    <2> QED BY <1>1, <2>1, <2>2 DEF Errors
  <1> QED BY <1>3, <1>4
=============================================================================
