---------------------------- MODULE ScopingProofs ----------------------------
(***************************************************************************)
(* Theorems about ledger selection and key scoping, for every policy,      *)
(* every statement, every key set a ledger may serve and every limit.      *)
(***************************************************************************)
EXTENDS Scoping, FiniteSetTheorems, WellFoundedInduction, TLAPS

-----------------------------------------------------------------------------
(* The first entry with a kid is well defined.                             *)
LEMMA LeastIn ==
    ASSUME NEW T \in SUBSET Nat, T # {}
    PROVE  \E x \in T : \A y \in T : x <= y
  <1> DEFINE R == OpToRel(<, Nat)
  <1>1. IsWellFoundedOn(R, Nat)
    BY NatLessThanWellFounded
  <1>2. \A x, y \in Nat : y < x => <<y, x>> \in R
    BY DEF OpToRel
  <1> HIDE DEF R
  <1>3. PICK x \in T : \A y \in T : ~ (<<y, x>> \in R)
    BY <1>1, WFMin
  <1>4. \A y \in T : y \in Nat /\ ~(y < x)
    BY <1>2, <1>3
  <1> QED BY <1>4

LEMMA FindIsFirst ==
    ASSUME NEW keys \in Seq(LedgerKeys), NEW kid, Labelled(keys, kid) # {}
    PROVE  \E k \in Labelled(keys, kid) :
              /\ Find(keys, kid) = keys[k]
              /\ keys[k] \in LedgerKeys
              /\ \A j \in Labelled(keys, kid) : k <= j
  <1>1. DOMAIN keys \subseteq Nat /\ \A k \in DOMAIN keys : keys[k] \in LedgerKeys
    OBVIOUS
  <1>2. Labelled(keys, kid) \in SUBSET Nat
    BY <1>1 DEF Labelled
  <1>3. PICK x \in Labelled(keys, kid) : \A y \in Labelled(keys, kid) : x <= y
    BY <1>2, LeastIn
  <1> DEFINE k == CHOOSE l \in Labelled(keys, kid) : \A y \in Labelled(keys, kid) : l <= y
  <1>4. k \in Labelled(keys, kid) /\ \A y \in Labelled(keys, kid) : k <= y
    BY <1>3
  <1>5. Find(keys, kid) = keys[k]
    BY DEF Find
  <1> HIDE DEF k
  <1>6. keys[k] \in LedgerKeys
    BY <1>1, <1>4 DEF Labelled
  <1> QED BY <1>4, <1>5, <1>6

-----------------------------------------------------------------------------
(* One receipt under one key set.                                          *)
Sound(b, keys) == Evaluate(b, keys).facts /\ FullyVerified(Evaluate(b, keys).receipt)

LEMMA EvaluationIsExact ==
    ASSUME NEW b \in Receipts, NEW keys \in Seq(LedgerKeys)
    PROVE  Sound(b, keys) <=> Holds(b, keys)
  <1>0. /\ b.form \in Forms /\ b.kid \in Nat /\ b.signer \in Nat
        /\ b.supported \in BOOLEAN /\ b.bound \in BOOLEAN
        /\ \A k \in DOMAIN keys : keys[k] \in LedgerKeys
    BY DEF Receipts
  <1>1. ASSUME Labelled(keys, b.kid) = {}
        PROVE  ~Sound(b, keys) /\ ~Holds(b, keys)
    <2>1. \A k \in DOMAIN keys : keys[k].kid # b.kid
      BY <1>1 DEF Labelled
    <2>2. ~Holds(b, keys)
      BY <2>1 DEF Holds
    <2>3. ~Sound(b, keys)
      BY <1>1 DEF Sound, Evaluate, Stopped, Reported, FullyVerified
    <2> QED BY <2>2, <2>3
  <1>2. ASSUME Labelled(keys, b.kid) # {}
        PROVE  Sound(b, keys) <=> Holds(b, keys)
    <2>1. PICK k \in Labelled(keys, b.kid) :
             /\ Find(keys, b.kid) = keys[k]
             /\ keys[k] \in LedgerKeys
             /\ \A j \in Labelled(keys, b.kid) : k <= j
      BY <1>2, FindIsFirst
    <2>2. k \in DOMAIN keys /\ keys[k].kid = b.kid /\ b.kid # None
      BY <2>1 DEF Labelled, LedgerKeys
    <2> DEFINE good == keys[k] = [kid |-> b.kid, key |-> b.signer, usable |-> TRUE]
    <2>3. good <=> keys[k].usable /\ keys[k].key = b.signer
      BY <2>1, <2>2 DEF LedgerKeys
    <2>4. Sound(b, keys) <=> b.form = "Well" /\ b.supported /\ b.bound
                                /\ keys[k].usable /\ keys[k].key = b.signer
      BY <1>0, <1>2, <2>1, <2>2
      DEF Sound, Evaluate, Stopped, Reported, FullyVerified, Forms
    <2>5. good => \A j \in DOMAIN keys : keys[j].kid = b.kid => k <= j
      BY <2>1 DEF Labelled
    <2>6. ASSUME NEW l \in DOMAIN keys,
                 keys[l] = [kid |-> b.kid, key |-> b.signer, usable |-> TRUE],
                 \A j \in DOMAIN keys : keys[j].kid = b.kid => l <= j
          PROVE  good
      <3>1. l \in Labelled(keys, b.kid)
        BY <2>6 DEF Labelled
      <3>2. k <= l /\ l <= k /\ k \in Nat /\ l \in Nat
        BY <2>1, <2>2, <2>6, <3>1
      <3>3. k = l
        BY <3>2
      <3> QED BY <2>6, <3>3
    <2>7. Holds(b, keys) <=> b.form = "Well" /\ b.supported /\ b.bound /\ good
      <3> HIDE DEF good
      <3> QED BY <2>2, <2>5, <2>6 DEF Holds, good
    <2> QED BY <2>3, <2>4, <2>7
  <1> QED BY <1>1, <1>2

LEMMA EvaluationReports ==
    ASSUME NEW b \in Receipts, NEW keys, Evaluate(b, keys).facts
    PROVE  /\ Evaluate(b, keys).receipt \in [lookup : KeyLookups, root : Trilean, bound : Trilean,
                                             issuer : {b.issuer}, at : {b.at}]
           /\ Evaluate(b, NoKeys).facts
  <1>1. Labelled(NoKeys, b.kid) = {}
    BY DEF Labelled, NoKeys
  <1> QED BY <1>1 DEF Evaluate, Stopped, Reported, KeyLookups, Trilean

LEMMA NothingWithoutKeys ==
    ASSUME NEW b \in Receipts
    PROVE  Evaluate(b, NoKeys).receipt.lookup # "Found" \/ ~Evaluate(b, NoKeys).facts
  <1>1. Labelled(NoKeys, b.kid) = {}
    BY DEF Labelled, NoKeys
  <1> QED BY <1>1 DEF Evaluate, Stopped, Reported

LEMMA DropsAreKinds ==
    ASSUME NEW b \in Receipts, NEW keys, ~Evaluate(b, keys).facts
    PROVE  Evaluate(b, keys).kind \in UnevaluableKinds
  BY DEF Evaluate, Stopped, Reported, UnevaluableKinds

-----------------------------------------------------------------------------
(* The merge: what becomes of the receipt at one place depends on it, on   *)
(* its place and on the key set of the ledger it names, and nothing else.  *)
Base(i, b) == Stamped(i, Evaluate(b, NoKeys).receipt)

Decided(i, b, acq) ==
    IF b.issuer \notin DOMAIN acq                     THEN NotSelected(Base(i, b))
    ELSE IF ~Evaluate(b, acq[b.issuer]).facts         THEN Unevaluable(Base(i, b))
    ELSE Stamped(i, Evaluate(b, acq[b.issuer]).receipt)

Evaluable(s) == {k \in DOMAIN s : Evaluate(s[k], NoKeys).facts}

LEMMA PassHolds ==
    ASSUME NEW s, NEW keys, NEW i \in DOMAIN s, NEW r, r.index = i
    PROVE  r \in Pass(s, keys) <=> /\ Evaluate(s[i], keys).facts
                                   /\ r = Stamped(i, Evaluate(s[i], keys).receipt)
  BY DEF Pass, Stamped

LEMMA MergeIsLocal ==
    ASSUME NEW s \in Seq(Receipts), NEW acq
    PROVE  Merged(s, acq) = {Decided(i, s[i], acq) : i \in Evaluable(s)}
  <1>1. Pass(s, NoKeys) = {Base(i, s[i]) : i \in Evaluable(s)}
    BY DEF Pass, Base, Evaluable
  <1>2. ASSUME NEW i \in Evaluable(s)
        PROVE  MergeReceipt(s, acq, Base(i, s[i])) = Decided(i, s[i], acq)
    <2> DEFINE r    == Base(i, s[i])
               keys == acq[s[i].issuer]
               own  == Stamped(i, Evaluate(s[i], keys).receipt)
    <2>1. i \in DOMAIN s /\ s[i] \in Receipts /\ Evaluate(s[i], NoKeys).facts
      BY <1>2 DEF Evaluable
    <2>2. r.index = i /\ r.issuer = s[i].issuer
      BY <2>1, EvaluationReports DEF Base, Stamped
    <2>3. own.index = i
      BY DEF Stamped
    <2>4. \A f \in Pass(s, keys) : f.index \in DOMAIN s
      BY DEF Pass, Stamped
    <2> HIDE DEF own
    <2>5. Scoped(s, keys, r) = IF Evaluate(s[i], keys).facts THEN {own} ELSE {}
      <3> HIDE DEF r, keys
      <3>1. Scoped(s, keys, r) = {f \in Pass(s, keys) : f.index = i}
        BY <2>2 DEF Scoped
      <3>2. \A f : f.index = i => (f \in Pass(s, keys) <=> Evaluate(s[i], keys).facts /\ f = own)
        BY <2>1, PassHolds DEF own, keys
      <3> QED BY <2>3, <3>1, <3>2
    <2> HIDE DEF r, keys
    <2>6. MergeReceipt(s, acq, r) =
            IF s[i].issuer \notin DOMAIN acq THEN NotSelected(r)
            ELSE IF Scoped(s, keys, r) = {} THEN Unevaluable(r)
            ELSE CHOOSE f \in Scoped(s, keys, r) : TRUE
      BY <2>2 DEF MergeReceipt, keys
    <2>7. Decided(i, s[i], acq) =
            IF s[i].issuer \notin DOMAIN acq THEN NotSelected(r)
            ELSE IF ~Evaluate(s[i], keys).facts THEN Unevaluable(r)
            ELSE own
      BY DEF Decided, r, keys, own
    <2>8. (CHOOSE f \in {own} : TRUE) = own
      OBVIOUS
    <2> QED BY <2>5, <2>6, <2>7, <2>8 DEF r
  <1> QED BY <1>1, <1>2 DEF Merged

Filed(i, o, t) == [index : {i}, lookup : KeyLookups, root : Trilean, bound : Trilean,
                   issuer : {o}, at : {t}]

LEMMA MarksKeepFacts ==
    ASSUME NEW i, NEW o, NEW t, NEW r \in Filed(i, o, t)
    PROVE  /\ NotSelected(r) \in Filed(i, o, t) /\ NotSelected(r).lookup = "None"
           /\ NotSelected(r).root = "Unknown"
           /\ Unevaluable(r) \in Filed(i, o, t) /\ Unevaluable(r).root = "Unknown"
  <1>1. "None" \in KeyLookups /\ "Unknown" \in Trilean
    BY DEF KeyLookups, Trilean
  <1>2. \A l \in KeyLookups : [r EXCEPT !.lookup = l] \in Filed(i, o, t)
                                /\ [r EXCEPT !.lookup = l].lookup = l
    BY DEF Filed
  <1>3. \A q \in Filed(i, o, t) : \A x \in Trilean :
           /\ [q EXCEPT !.root = x] \in Filed(i, o, t)
           /\ [q EXCEPT !.root = x].lookup = q.lookup /\ [q EXCEPT !.root = x].root = x
    BY DEF Filed
  <1> DEFINE sought == [r EXCEPT !.lookup = "None"]
  <1>4. NotSelected(r) = [sought EXCEPT !.root = "Unknown"]
    BY DEF NotSelected
  <1>5. sought \in Filed(i, o, t) /\ sought.lookup = "None"
    BY <1>1, <1>2
  <1> HIDE DEF sought
  <1> QED BY <1>1, <1>3, <1>4, <1>5 DEF Unevaluable

LEMMA DecidedFacts ==
    ASSUME NEW i, NEW b \in Receipts, NEW acq, Evaluate(b, NoKeys).facts
    PROVE  /\ Decided(i, b, acq) \in Filed(i, b.issuer, b.at)
           /\ Decided(i, b, acq).index = i /\ Decided(i, b, acq).issuer = b.issuer
           /\ b.issuer \notin DOMAIN acq => Decided(i, b, acq).lookup = "None"
           /\ FullyVerified(Decided(i, b, acq)) <=>
                 b.issuer \in DOMAIN acq /\ Sound(b, acq[b.issuer])
  <1>0. \A r \in Filed(i, b.issuer, b.at) : r.index = i /\ r.issuer = b.issuer
    BY DEF Filed
  <1>1. Base(i, b) \in Filed(i, b.issuer, b.at)
    BY EvaluationReports DEF Base, Stamped, Filed
  <1>2. CASE b.issuer \notin DOMAIN acq
    <2>1. Decided(i, b, acq) = NotSelected(Base(i, b))
      BY <1>2 DEF Decided
    <2> QED BY <1>0, <1>1, <1>2, <2>1, MarksKeepFacts DEF FullyVerified
  <1>3. CASE b.issuer \in DOMAIN acq /\ ~Evaluate(b, acq[b.issuer]).facts
    <2>1. Decided(i, b, acq) = Unevaluable(Base(i, b))
      BY <1>3 DEF Decided
    <2> QED BY <1>0, <1>1, <1>3, <2>1, MarksKeepFacts DEF FullyVerified, Sound
  <1>4. CASE b.issuer \in DOMAIN acq /\ Evaluate(b, acq[b.issuer]).facts
    <2> DEFINE own == Evaluate(b, acq[b.issuer]).receipt
    <2>1. own \in [lookup : KeyLookups, root : Trilean, bound : Trilean,
                   issuer : {b.issuer}, at : {b.at}]
      BY <1>4, EvaluationReports
    <2>2. Decided(i, b, acq) = Stamped(i, own)
      BY <1>4 DEF Decided
    <2>3. Sound(b, acq[b.issuer]) <=> FullyVerified(own)
      BY <1>4 DEF Sound
    <2> HIDE DEF own
    <2>4. /\ Stamped(i, own) \in Filed(i, b.issuer, b.at)
          /\ FullyVerified(Stamped(i, own)) <=> FullyVerified(own)
      BY <2>1 DEF Filed, FullyVerified, Stamped
    <2> QED BY <1>0, <1>4, <2>2, <2>3, <2>4
  <1> QED BY <1>2, <1>3, <1>4

-----------------------------------------------------------------------------
(* The inductive invariant: what was chosen is what the policy authorises, *)
(* only chosen ledgers are asked, only asked ones answer, and the result   *)
(* is the merge under what was acquired.                                   *)
RequestTyped == /\ allow \in Allowlists /\ explicit \in Issuers \cup {None}
                /\ statement \in Statements
                /\ stage \in {"Select", "Acquire", "Verify", "Done", "Refused"}

ChoiceAuthorised ==
    /\ selection.kind \in {"Undecided", "Refused", "Nothing", "Ready"}
    /\ selection.issuers \subseteq allow \cap Routable
    /\ Cardinality(selection.issuers) <= MaxLedgers
    /\ explicit # None => selection.issuers \subseteq {explicit}

OnlyChosenAnswer ==
    /\ stage = "Select" => asked = {}
    /\ asked \subseteq selection.issuers
    /\ DOMAIN acquired \subseteq asked
    /\ \A l \in DOMAIN acquired : acquired[l] \in KeySets

ResultIsTheMerge ==
    IF stage = "Done"
    THEN /\ receipts = Merged(statement, acquired)
         /\ unevaluable = Drops(statement, NoKeys)
         /\ liveThen = ValidAt(receipts, live)
    ELSE receipts = {} /\ unevaluable = {} /\ liveThen = "Unknown"

IInv == RequestTyped /\ ChoiceAuthorised /\ OnlyChosenAnswer /\ ResultIsTheMerge

LEMMA SelectIsAuthorised ==
    ASSUME RequestTyped, NEW s
    PROVE  LET chosen == Select(s)
           IN  /\ chosen.kind \in {"Refused", "Nothing", "Ready"}
               /\ chosen.issuers \subseteq allow \cap Routable
               /\ Cardinality(chosen.issuers) <= MaxLedgers
               /\ explicit # None => chosen.issuers \subseteq {explicit}
  <1>1. Cardinality({}) = 0 /\ MaxLedgers \in Nat
    BY FS_EmptySet, LimitAssumption
  <1>2. CASE Refusable(Chosen(s)) \/ Chosen(s) = {}
    <2>1. Select(s).issuers = {} /\ Select(s).kind \in {"Refused", "Nothing"}
      BY <1>2 DEF Select
    <2> QED BY <1>1, <2>1
  <1>3. CASE ~Refusable(Chosen(s)) /\ Chosen(s) # {}
    <2>1. Select(s) = [kind |-> "Ready", issuers |-> Chosen(s)]
      BY <1>3 DEF Select
    <2>2. explicit # None => explicit \in allow
      BY <1>3 DEF Refusable
    <2>3. Chosen(s) \subseteq allow /\ (explicit # None => Chosen(s) = {explicit})
      BY <2>2 DEF Chosen
    <2>4. Chosen(s) \subseteq Routable /\ ~(Cardinality(Chosen(s)) > MaxLedgers)
      BY <1>3 DEF Refusable
    <2>5. Cardinality(Chosen(s)) \in Nat
      <3>1. Chosen(s) \in SUBSET Issuers
        BY <2>4, RoutableAssumption
      <3>2. IsFiniteSet(Chosen(s))
        BY <3>1, IssuersAssumption, FS_Subset
      <3> QED BY <3>2, FS_CardinalityType
    <2>6. Cardinality(Chosen(s)) <= MaxLedgers
      BY <1>1, <2>4, <2>5
    <2> QED BY <2>1, <2>3, <2>4, <2>6
  <1> QED BY <1>2, <1>3

LEMMA InitIInv == Init => IInv
  <1> SUFFICES ASSUME Init PROVE IInv
    OBVIOUS
  <1>1. Cardinality({}) = 0 /\ MaxLedgers \in Nat
    BY FS_EmptySet, LimitAssumption
  <1>2. selection.issuers = {} /\ selection.kind = "Undecided"
    BY DEF Init, Undecided
  <1>3. RequestTyped
    BY DEF Init, RequestTyped
  <1>4. ChoiceAuthorised
    BY <1>1, <1>2 DEF ChoiceAuthorised
  <1>5. OnlyChosenAnswer
    BY DEF Init, OnlyChosenAnswer
  <1>6. ResultIsTheMerge
    BY DEF Init, ResultIsTheMerge
  <1> QED BY <1>3, <1>4, <1>5, <1>6 DEF IInv

LEMMA StepIInv == IInv /\ [Next]_vars => IInv'
  <1> SUFFICES ASSUME IInv, [Next]_vars PROVE IInv'
    OBVIOUS
  <1> USE DEF request
  <1>1. CASE SelectLedgers
    <2>1. RequestTyped /\ UNCHANGED request /\ stage = "Select"
      BY <1>1 DEF IInv, SelectLedgers
    <2>2. RequestTyped'
      BY <1>1, <2>1 DEF RequestTyped, SelectLedgers
    <2>3. ChoiceAuthorised'
      BY <1>1, <2>1, SelectIsAuthorised DEF ChoiceAuthorised, SelectLedgers
    <2>4. OnlyChosenAnswer'
      BY <1>1 DEF IInv, OnlyChosenAnswer, SelectLedgers
    <2>5. ResultIsTheMerge'
      BY <1>1, <2>1 DEF IInv, ResultIsTheMerge, SelectLedgers
    <2> QED BY <2>2, <2>3, <2>4, <2>5 DEF IInv
  <1>2. CASE AskLedger
    <2>1. RequestTyped' /\ ChoiceAuthorised'
      BY <1>2 DEF IInv, RequestTyped, ChoiceAuthorised, AskLedger
    <2>2. OnlyChosenAnswer'
      <3>1. PICK i \in selection.issuers \ asked :
               /\ asked' = asked \cup {i}
               /\ \/ UNCHANGED acquired
                  \/ \E keys \in KeySets :
                        acquired' = [l \in DOMAIN acquired \cup {i} |->
                                        IF l = i THEN keys ELSE acquired[l]]
        BY <1>2 DEF AskLedger
      <3>2. CASE UNCHANGED acquired
        BY <1>2, <3>1, <3>2 DEF IInv, OnlyChosenAnswer, AskLedger
      <3>3. CASE \E keys \in KeySets :
                    acquired' = [l \in DOMAIN acquired \cup {i} |->
                                    IF l = i THEN keys ELSE acquired[l]]
        <4>1. DOMAIN acquired' = DOMAIN acquired \cup {i}
          BY <3>3
        <4>2. \A l \in DOMAIN acquired' : acquired'[l] \in KeySets
          BY <3>3 DEF IInv, OnlyChosenAnswer
        <4> QED BY <1>2, <3>1, <4>1, <4>2 DEF IInv, OnlyChosenAnswer, AskLedger
      <3> QED BY <3>1, <3>2, <3>3
    <2>3. ResultIsTheMerge'
      BY <1>2 DEF IInv, ResultIsTheMerge, AskLedger
    <2> QED BY <2>1, <2>2, <2>3 DEF IInv
  <1>3. CASE EndAcquisition
    <2>1. RequestTyped' /\ ChoiceAuthorised' /\ OnlyChosenAnswer'
      BY <1>3 DEF IInv, RequestTyped, ChoiceAuthorised, OnlyChosenAnswer, EndAcquisition
    <2>2. ResultIsTheMerge'
      BY <1>3 DEF IInv, ResultIsTheMerge, EndAcquisition
    <2> QED BY <2>1, <2>2 DEF IInv
  <1>4. CASE VerifyScoped
    <2>1. RequestTyped' /\ ChoiceAuthorised' /\ OnlyChosenAnswer'
      BY <1>4 DEF IInv, RequestTyped, ChoiceAuthorised, OnlyChosenAnswer, VerifyScoped
    <2>2. ResultIsTheMerge'
      BY <1>4 DEF ResultIsTheMerge, VerifyScoped
    <2> QED BY <2>1, <2>2 DEF IInv
  <1>5. CASE Finished \/ UNCHANGED vars
    BY <1>5 DEF IInv, RequestTyped, ChoiceAuthorised, OnlyChosenAnswer, ResultIsTheMerge,
                Finished, vars
  <1> QED BY <1>1, <1>2, <1>3, <1>4, <1>5 DEF Next

(* Every step of an online run keeps what was chosen within what the       *)
(* policy authorises, and the result is the merge of what was acquired.    *)
THEOREM SelectionInvariant == Spec => []IInv
  BY InitIInv, StepIInv, PTL DEF Spec

-----------------------------------------------------------------------------
(* The properties.                                                         *)
LEMMA IInvInstances ==
    ASSUME IInv
    PROVE  /\ statement \in Seq(Receipts)
           /\ \A i \in DOMAIN statement : statement[i] \in Receipts
           /\ \A l \in DOMAIN acquired : acquired[l] \in Seq(LedgerKeys)
  <1>1. statement \in Seq(Receipts)
    BY StatementsAssumption DEF IInv, RequestTyped
  <1>2. \A l \in DOMAIN acquired : acquired[l] \in Seq(LedgerKeys)
    BY KeySetsAssumption DEF IInv, OnlyChosenAnswer
  <1> QED BY <1>1, <1>2

LEMMA MergedFactsTyped ==
    ASSUME NEW s \in Seq(Receipts), NEW acq
    PROVE  Merged(s, acq) \subseteq [index : DOMAIN s, lookup : KeyLookups, root : Trilean,
                                     bound : Trilean, issuer : Issuers \cup {None}, at : Nat]
  <1>1. SUFFICES ASSUME NEW i \in Evaluable(s)
                 PROVE  Decided(i, s[i], acq) \in
                           [index : DOMAIN s, lookup : KeyLookups, root : Trilean,
                            bound : Trilean, issuer : Issuers \cup {None}, at : Nat]
    BY MergeIsLocal
  <1>2. i \in DOMAIN s /\ s[i] \in Receipts /\ Evaluate(s[i], NoKeys).facts
    BY DEF Evaluable
  <1>3. s[i].issuer \in Issuers \cup {None} /\ s[i].at \in Nat
    BY <1>2 DEF Receipts
  <1> HIDE DEF Receipts
  <1>4. Decided(i, s[i], acq) \in Filed(i, s[i].issuer, s[i].at)
    BY <1>2, DecidedFacts
  <1> QED BY <1>2, <1>3, <1>4 DEF Filed

(* The variables of an online run keep their types; a ledger answers only  *)
(* when it was asked, and every merged receipt is filed under its place.   *)
THEOREM ScopingTypeCorrect == Spec => []TypeOK
  <1>1. IInv => TypeOK
    <2> SUFFICES ASSUME IInv PROVE TypeOK
      OBVIOUS
    <2>1. receipts \subseteq MergedFacts
      <3>1. CASE stage = "Done"
        BY <3>1, IInvInstances, MergedFactsTyped DEF IInv, ResultIsTheMerge, MergedFacts
      <3>2. CASE stage # "Done"
        BY <3>2 DEF IInv, ResultIsTheMerge
      <3> QED BY <3>1, <3>2
    <2>2. unevaluable \subseteq [index : DOMAIN statement, kind : UnevaluableKinds]
      <3>1. CASE stage = "Done"
        <4>1. Drops(statement, NoKeys) \subseteq
                 [index : DOMAIN statement, kind : UnevaluableKinds]
          BY IInvInstances, DropsAreKinds DEF Drops
        <4> QED BY <3>1, <4>1 DEF IInv, ResultIsTheMerge
      <3>2. CASE stage # "Done"
        BY <3>2 DEF IInv, ResultIsTheMerge
      <3> QED BY <3>1, <3>2
    <2>3. liveThen \in Trilean
      BY DEF IInv, ResultIsTheMerge, ValidAt, Trilean
    <2> QED BY <2>1, <2>2, <2>3
            DEF IInv, RequestTyped, ChoiceAuthorised, OnlyChosenAnswer, TypeOK
  <1> QED BY <1>1, SelectionInvariant, PTL

(* Whatever receipts were appended, a run asks only ledgers of the         *)
(* policy's allowlist that --ledger allows, within the limit.              *)
THEOREM StatementHasNoSay == Spec => []StatementChoosesNothing
  <1>1. IInv => StatementChoosesNothing
    <2> SUFFICES ASSUME IInv PROVE StatementChoosesNothing
      OBVIOUS
    <2>1. /\ selection.issuers \in SUBSET Issuers
          /\ asked \in SUBSET selection.issuers
          /\ Cardinality(selection.issuers) <= MaxLedgers
      BY RoutableAssumption DEF IInv, ChoiceAuthorised, OnlyChosenAnswer
    <2>2. IsFiniteSet(selection.issuers)
      BY <2>1, IssuersAssumption, FS_Subset
    <2>3. /\ Cardinality(asked) <= Cardinality(selection.issuers)
          /\ Cardinality(asked) \in Nat /\ Cardinality(selection.issuers) \in Nat
      BY <2>1, <2>2, FS_Subset, FS_CardinalityType
    <2>4. Cardinality(asked) <= MaxLedgers
      BY <2>1, <2>3, LimitAssumption
    <2> QED BY <2>4 DEF IInv, ChoiceAuthorised, OnlyChosenAnswer, StatementChoosesNothing
  <1> QED BY <1>1, SelectionInvariant, PTL

LEMMA VerifiedExactly ==
    ASSUME NEW s \in Seq(Receipts), NEW acq, NEW i \in DOMAIN s,
           \A l \in DOMAIN acq : acq[l] \in Seq(LedgerKeys)
    PROVE  VerifiedAt(Merged(s, acq), i) <=> HoldsForOwnLedger(s[i], acq)
  <1>1. s[i] \in Receipts
    OBVIOUS
  <1> DEFINE d == Decided(i, s[i], acq)
  <1>2. VerifiedAt(Merged(s, acq), i) <=> Evaluate(s[i], NoKeys).facts /\ FullyVerified(d)
    <2>1. \A j \in Evaluable(s) : Decided(j, s[j], acq).index = j
      <3> TAKE j \in Evaluable(s)
      <3>1. s[j] \in Receipts /\ Evaluate(s[j], NoKeys).facts
        BY DEF Evaluable
      <3> QED BY <3>1, DecidedFacts
    <2> QED BY <2>1, MergeIsLocal DEF VerifiedAt, Evaluable
  <1>3. Evaluate(s[i], NoKeys).facts =>
           (FullyVerified(d) <=> s[i].issuer \in DOMAIN acq /\ Sound(s[i], acq[s[i].issuer]))
    BY <1>1, DecidedFacts
  <1>4. Sound(s[i], acq[s[i].issuer]) => Evaluate(s[i], NoKeys).facts
    BY <1>1, EvaluationReports DEF Sound
  <1>5. s[i].issuer \in DOMAIN acq =>
           (Sound(s[i], acq[s[i].issuer]) <=> Holds(s[i], acq[s[i].issuer]))
    BY <1>1, EvaluationIsExact
  <1> HIDE DEF d
  <1> QED BY <1>2, <1>3, <1>4, <1>5 DEF HoldsForOwnLedger

(* A receipt is verified exactly when it holds under the keys of the       *)
(* ledger it names, for any statement and any key sets.                    *)
THEOREM ReceiptsStayApart == Spec => []DecidedByOwnLedger
  <1>1. IInv => DecidedByOwnLedger
    BY IInvInstances, VerifiedExactly DEF IInv, ResultIsTheMerge, DecidedByOwnLedger
  <1> QED BY <1>1, SelectionInvariant, PTL

(* A receipt of a ledger that was not acquired is never an unknown key.    *)
THEOREM NotSoughtSaysSo == Spec => []NotSoughtIsNotUnknown
  <1>1. IInv => NotSoughtIsNotUnknown
    <2> SUFFICES ASSUME IInv, stage = "Done", NEW r \in receipts, r.issuer \notin DOMAIN acquired
                 PROVE  r.lookup = "None"
      BY DEF NotSoughtIsNotUnknown
    <2>1. PICK i \in Evaluable(statement) : r = Decided(i, statement[i], acquired)
      BY IInvInstances, MergeIsLocal DEF IInv, ResultIsTheMerge
    <2>2. statement[i] \in Receipts /\ Evaluate(statement[i], NoKeys).facts
      BY IInvInstances DEF Evaluable
    <2>3. r.issuer = statement[i].issuer
      BY <2>1, <2>2, DecidedFacts
    <2> QED BY <2>1, <2>2, <2>3, DecidedFacts
  <1> QED BY <1>1, SelectionInvariant, PTL

(* What a run verified under an acquired key set, an offline run given     *)
(* that key set verifies too.                                              *)
THEOREM ReplayVerifies == Spec => []ReplayAgrees
  <1>1. IInv => ReplayAgrees
    <2> SUFFICES ASSUME IInv, stage = "Done", NEW l \in DOMAIN acquired, NEW r \in receipts,
                        r.issuer = l, FullyVerified(r)
                 PROVE  VerifiedAt(Pass(statement, acquired[l]), r.index)
      BY DEF ReplayAgrees
    <2>1. PICK i \in Evaluable(statement) : r = Decided(i, statement[i], acquired)
      BY IInvInstances, MergeIsLocal DEF IInv, ResultIsTheMerge
    <2>2. i \in DOMAIN statement /\ statement[i] \in Receipts /\ Evaluate(statement[i], NoKeys).facts
      BY IInvInstances DEF Evaluable
    <2>3. r.issuer = statement[i].issuer /\ r.index = i
      BY <2>1, <2>2, DecidedFacts
    <2>4. Sound(statement[i], acquired[l])
      BY <2>1, <2>2, <2>3, DecidedFacts
    <2>5. r = Stamped(i, Evaluate(statement[i], acquired[l]).receipt)
      BY <2>1, <2>3, <2>4 DEF Decided, Sound
    <2>6. r \in Pass(statement, acquired[l])
      BY <2>2, <2>3, <2>4, <2>5, PassHolds DEF Sound
    <2> QED BY <2>6 DEF VerifiedAt
  <1> QED BY <1>1, SelectionInvariant, PTL

LEMMA AppendedIsLast ==
    ASSUME NEW s \in Seq(Receipts), NEW b \in Receipts, NEW acq
    PROVE  /\ {r \in Merged(Append(s, b), acq) : r.index # Len(s) + 1} = Merged(s, acq)
           /\ \A r \in Merged(s, acq) : r.index # Len(s) + 1
  <1> DEFINE more == Append(s, b)
             last == Len(s) + 1
  <1>1. more \in Seq(Receipts) /\ Len(s) \in Nat /\ Len(more) = last
    OBVIOUS
  <1>2. DOMAIN s = 1 .. Len(s) /\ DOMAIN more = 1 .. last
    BY <1>1
  <1>3. \A i \in DOMAIN s : i \in DOMAIN more /\ i # last /\ more[i] = s[i]
    BY <1>1, <1>2
  <1>4. \A i \in DOMAIN more : i # last => i \in DOMAIN s
    BY <1>1, <1>2
  <1> HIDE DEF more, last
  <1>5. Evaluable(s) = {i \in Evaluable(more) : i # last}
    BY <1>3, <1>4 DEF Evaluable
  <1>6. ASSUME NEW i \in Evaluable(more)
        PROVE  Decided(i, more[i], acq).index = i
    <2>1. more[i] \in Receipts /\ Evaluate(more[i], NoKeys).facts
      BY <1>1 DEF Evaluable
    <2> QED BY <2>1, DecidedFacts
  <1>7. Merged(more, acq) = {Decided(i, more[i], acq) : i \in Evaluable(more)}
    BY <1>1, MergeIsLocal
  <1>8. Merged(s, acq) = {Decided(i, s[i], acq) : i \in Evaluable(s)}
    BY MergeIsLocal
  <1>9. \A i \in Evaluable(s) : Decided(i, s[i], acq) = Decided(i, more[i], acq)
    BY <1>3 DEF Evaluable
  <1>10. {r \in Merged(more, acq) : r.index # last} = Merged(s, acq)
    BY <1>5, <1>6, <1>7, <1>8, <1>9
  <1> QED BY <1>10 DEF more, last

LEMMA UnverifiedTimesDoNotCount ==
    ASSUME NEW few, NEW more, NEW last, NEW times,
           {r \in more : r.index # last} = few, ~VerifiedAt(more, last)
    PROVE  ValidAt(more, times) = ValidAt(few, times)
  <1>1. {r \in more : FullyVerified(r)} = {r \in few : FullyVerified(r)}
    BY DEF VerifiedAt
  <1>2. Times(more) = Times(few)
    BY <1>1 DEF Times
  <1> QED BY <1>2 DEF ValidAt

(* A receipt that somebody appends changes the facts of no other receipt,  *)
(* and the registration times only when it verifies.                       *)
THEOREM AppendedIsInert == Spec => []AppendedReceiptsAreInert
  <1>1. IInv => AppendedReceiptsAreInert
    <2> SUFFICES ASSUME IInv, stage = "Done", NEW b \in Offered
                 PROVE  LET more == Merged(Append(statement, b), acquired)
                            last == Len(statement) + 1
                        IN  /\ {r \in more : r.index # last} = receipts
                            /\ ~VerifiedAt(more, last) => ValidAt(more, live) = liveThen
      BY DEF AppendedReceiptsAreInert
    <2>1. b \in Receipts
      <3>1. PICK s \in Statements : \E i \in DOMAIN s : b = s[i]
        BY DEF Offered
      <3>2. s \in Seq(Receipts)
        BY StatementsAssumption
      <3> QED BY <3>1, <3>2
    <2> DEFINE more == Merged(Append(statement, b), acquired)
               last == Len(statement) + 1
    <2>2. /\ statement \in Seq(Receipts)
          /\ receipts = Merged(statement, acquired) /\ liveThen = ValidAt(receipts, live)
      BY IInvInstances DEF IInv, ResultIsTheMerge
    <2>3. {r \in more : r.index # last} = receipts
      BY <2>1, <2>2, AppendedIsLast
    <2> HIDE DEF more, last
    <2>4. ~VerifiedAt(more, last) => ValidAt(more, live) = liveThen
      BY <2>2, <2>3, UnverifiedTimesDoNotCount
    <2> QED BY <2>3, <2>4 DEF more, last
  <1> QED BY <1>1, SelectionInvariant, PTL
=============================================================================
