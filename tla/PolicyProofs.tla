---------------------------- MODULE PolicyProofs ----------------------------
(***************************************************************************)
(* Theorems about the policy, for all documents, statements and acquired   *)
(* sources.                                                                *)
(***************************************************************************)
EXTENDS Policy, FiniteSetTheorems, SequenceTheorems, WellFoundedInduction, TLAPS

Outcomes == {Pass, Fail, CannotEvaluate}

-----------------------------------------------------------------------------
(* The assertions that this build knows.                                   *)
LEMMA TheOrder ==
    ToSet(Order) = Lists \cup
        {"issuer", "statementSubject", "statementIssuer", "signerSubjectContains",
         "signerIssuerContains", "certificateChainValidated", "requireChainToRootSha256",
         "requireChainToRootFromHttps", "requireEku", "certificateValidAtSigningTime",
         "receiptCount", "registeredAfter", "registeredBefore", "maxAgeDays", "minSvn",
         "requireKidBoundToKey"}
  <1>1. ToSet(Order) = {Order[i] : i \in 1..19}
    BY DEF Order, ToSet
  <1>2. 1..19 = {1, 2, 3, 4, 5, 6, 7, 8, 9, 10, 11, 12, 13, 14, 15, 16, 17, 18, 19}
    OBVIOUS
  <1>3. \A x : x \in ToSet(Order) <=> \E i \in {1, 2, 3, 4, 5, 6, 7, 8, 9, 10, 11, 12, 13, 14,
                                               15, 16, 17, 18, 19} : x = Order[i]
    BY <1>1, <1>2
  <1>4. ToSet(Order) = {Order[1], Order[2], Order[3], Order[4], Order[5], Order[6], Order[7],
                        Order[8], Order[9], Order[10], Order[11], Order[12], Order[13],
                        Order[14], Order[15], Order[16], Order[17], Order[18], Order[19]}
    BY <1>3
  <1> QED BY <1>4 DEF Order, Lists

LEMMA OthersHaveNoAnswer ==
    ASSUME NEW name, name \notin ToSet(Order), NEW a, NEW f, NEW s, NEW t
    PROVE  Answers(name, a, f, s, t) = <<>>
  BY TheOrder, Zenon DEF Answers, Lists

-----------------------------------------------------------------------------
(* Answers are among the three outcomes.                                   *)
LEMMA AnswerIsOutcome == \A k, h : Answer(k, h) \in Outcomes
  BY DEF Answer, Outcomes

LEMMA RuleOutcomes ==
    ASSUME NEW rule, NEW f, NEW s
    PROVE  /\ Header(rule, f) \in Outcomes
           /\ PayloadClaim(rule, f) \in Outcomes
           /\ External(rule, f, s) \in Outcomes
  <1>1. \A m, at : Evaluated(m, at) \in Outcomes
    BY AnswerIsOutcome DEF Evaluated, Outcomes
  <1>2. \A node, path : CheckPath(rule, path, f, s) \in Outcomes
                        /\ CheckChain(rule, node, f, s) \in Outcomes
    BY AnswerIsOutcome DEF CheckPath, CheckChain, Outcomes
  <1>3. \A node : Signature(rule, node, f, s) \in Outcomes
    BY <1>2 DEF Signature, Outcomes
  <1> QED BY <1>1, <1>3 DEF Header, PayloadClaim, External, Outcomes

LEMMA EachIsSeq ==
    ASSUME NEW rules, rules \in Seq(ToSet(rules)), NEW h \in [DOMAIN rules -> Outcomes]
    PROVE  h \in Seq(Outcomes) /\ Len(h) = Len(rules)
  <1>1. DOMAIN rules = 1..Len(rules) /\ Len(rules) \in Nat
    BY LenProperties
  <1> QED BY <1>1

LEMMA AnswersAreOutcomes ==
    ASSUME NEW a, NEW name, NEW f, NEW s, NEW t,
           name \in Lists => a[name] \in Seq(ToSet(a[name]))
    PROVE  /\ Answers(name, a, f, s, t) \in Seq(Outcomes)
           /\ name \in Lists => Len(Answers(name, a, f, s, t)) = Len(a[name])
           /\ name \in ToSet(Order) \ (Lists \cup {"requireKidBoundToKey"}) =>
                 Answers(name, a, f, s, t) # <<>>
  <1>1. /\ \A x \in Outcomes : <<x>> \in Seq(Outcomes) /\ <<x>> # <<>>
        /\ <<>> \in Seq(Outcomes)
    OBVIOUS
  <1>2. CASE name = "protectedHeaders"
    <2>1. a.protectedHeaders \in Seq(ToSet(a.protectedHeaders))
      BY <1>2 DEF Lists
    <2>2. Answers(name, a, f, s, t) = [i \in DOMAIN a.protectedHeaders |->
                                          Header(a.protectedHeaders[i], f)]
      BY <1>2 DEF Answers, Each
    <2>3. Answers(name, a, f, s, t) \in [DOMAIN a.protectedHeaders -> Outcomes]
      BY <2>2, RuleOutcomes
    <2> QED BY <1>2, <2>1, <2>3, EachIsSeq DEF Lists
  <1>3. CASE name = "payloadJson"
    <2>1. a.payloadJson \in Seq(ToSet(a.payloadJson))
      BY <1>3 DEF Lists
    <2>2. Answers(name, a, f, s, t) = [i \in DOMAIN a.payloadJson |->
                                          PayloadClaim(a.payloadJson[i], f)]
      BY <1>3 DEF Answers, Each
    <2>3. Answers(name, a, f, s, t) \in [DOMAIN a.payloadJson -> Outcomes]
      BY <2>2, RuleOutcomes
    <2> QED BY <1>3, <2>1, <2>3, EachIsSeq DEF Lists
  <1>4. CASE name = "externalSignatures"
    <2>1. a.externalSignatures \in Seq(ToSet(a.externalSignatures))
      BY <1>4 DEF Lists
    <2>2. Answers(name, a, f, s, t) = [i \in DOMAIN a.externalSignatures |->
                                          External(a.externalSignatures[i], f, s)]
      BY <1>4 DEF Answers, Each
    <2>3. Answers(name, a, f, s, t) \in [DOMAIN a.externalSignatures -> Outcomes]
      BY <2>2, RuleOutcomes
    <2> QED BY <1>4, <2>1, <2>3, EachIsSeq DEF Lists
  <1>5. CASE name \notin Lists
    <2>1. Purpose(a, f) \in Outcomes /\ KidBound(f) \in Outcomes
      BY AnswerIsOutcome DEF Purpose, KidBound, Outcomes
    <2>2. /\ \A u : RootFromHttps(u, f, s) \in Outcomes
          /\ \A accepted : Registered(f, accepted) \in Outcomes
      BY AnswerIsOutcome DEF RootFromHttps, Registered
    <2>3. \/ Answers(name, a, f, s, t) = <<>> /\ name \notin ToSet(Order) \ {"requireKidBoundToKey"}
          \/ \E x \in Outcomes : Answers(name, a, f, s, t) = <<x>>
      <3>2. CASE name \in {"issuer", "statementSubject", "statementIssuer",
                           "signerSubjectContains", "signerIssuerContains"}
        BY <3>2, AnswerIsOutcome DEF Answers
      <3>3. CASE name \in {"certificateChainValidated", "requireChainToRootSha256",
                           "requireChainToRootFromHttps", "requireEku",
                           "certificateValidAtSigningTime"}
        BY <3>3, <2>1, <2>2, AnswerIsOutcome DEF Answers
      <3>4. CASE name \in {"receiptCount", "registeredAfter", "registeredBefore",
                           "maxAgeDays", "minSvn"}
        BY <3>4, <2>2, AnswerIsOutcome DEF Answers
      <3>5. CASE name = "requireKidBoundToKey"
        BY <3>5, <2>1 DEF Answers
      <3>6. CASE name \notin ToSet(Order)
        BY <3>6, OthersHaveNoAnswer
      <3> QED BY <1>5, <3>2, <3>3, <3>4, <3>5, <3>6, TheOrder DEF Lists
    <2> QED BY <1>1, <1>5, <2>3
  <1> QED BY <1>2, <1>3, <1>4, <1>5 DEF Lists

-----------------------------------------------------------------------------
(* What the answers depend on: a statement's receipts enter only through   *)
(* those that verified and, for receiptCount, through their number.        *)
SameBut(f, g) == /\ f.protected = g.protected /\ f.payload = g.payload
                 /\ f.document = g.document /\ f.leaf = g.leaf /\ f.chain = g.chain

LEMMA ClaimsFromTheHeader ==
    ASSUME NEW f, NEW g, SameBut(f, g)
    PROVE  /\ \A path, type : Claim(f, path, type) = Claim(g, path, type)
           /\ \A rule : Header(rule, f) = Header(rule, g)
           /\ \A rule : PayloadClaim(rule, f) = PayloadClaim(rule, g)
  <1>1. OffersJson(f) = OffersJson(g)
    BY DEF SameBut, OffersJson
  <1> QED BY <1>1 DEF SameBut, Claim, Header, PayloadClaim

LEMMA TimesFromTheVerified ==
    ASSUME NEW f, NEW g, Verified(f) = Verified(g)
    PROVE  /\ Times(f) = Times(g) /\ RegisteredAt(f) = RegisteredAt(g)
           /\ Issuers(f) = Issuers(g) /\ KidBound(f) = KidBound(g)
           /\ \A path : ValidAt(path, f) = ValidAt(path, g)
           /\ \A accepted : Registered(f, accepted) = Registered(g, accepted)
  <1>1. Times(f) = Times(g)
    BY DEF Times
  <1>2. RegisteredAt(f) = RegisteredAt(g)
    BY <1>1 DEF RegisteredAt
  <1> QED BY <1>1, <1>2 DEF Issuers, KidBound, ValidAt, Registered

LEMMA ExternalFromTheVerified ==
    ASSUME NEW f, NEW g, SameBut(f, g), Verified(f) = Verified(g), NEW s
    PROVE  \A rule : External(rule, f, s) = External(rule, g, s)
  <1>1. \A rule, path : CheckPath(rule, path, f, s) = CheckPath(rule, path, g, s)
    BY TimesFromTheVerified DEF CheckPath
  <1>2. \A rule, node : CheckChain(rule, node, f, s) = CheckChain(rule, node, g, s)
    BY <1>1 DEF CheckChain
  <1>3. \A rule, node : Signature(rule, node, f, s) = Signature(rule, node, g, s)
    BY <1>2 DEF Signature, Detached, SameBut
  <1> QED BY <1>3 DEF External, SameBut

LEMMA AnswersFromTheVerified ==
    ASSUME NEW f, NEW g, SameBut(f, g), Verified(f) = Verified(g),
           NEW name, name # "receiptCount", NEW a, NEW s, NEW t
    PROVE  Answers(name, a, f, s, t) = Answers(name, a, g, s, t)
  <1>1. Decided(f) = Decided(g) /\ SigningTime(f) = SigningTime(g)
    BY TimesFromTheVerified DEF SameBut, Decided, SigningTime
  <1>2. Purpose(a, f) = Purpose(a, g) /\ \A u : RootFromHttps(u, f, s) = RootFromHttps(u, g, s)
    BY DEF SameBut, Purpose, RootFromHttps
  <1>3. /\ Each(a.protectedHeaders, LAMBDA r : Header(r, f))
              = Each(a.protectedHeaders, LAMBDA r : Header(r, g))
        /\ Each(a.payloadJson, LAMBDA r : PayloadClaim(r, f))
              = Each(a.payloadJson, LAMBDA r : PayloadClaim(r, g))
    BY ClaimsFromTheHeader DEF Each
  <1>4. Each(a.externalSignatures, LAMBDA r : External(r, f, s))
           = Each(a.externalSignatures, LAMBDA r : External(r, g, s))
    BY ExternalFromTheVerified DEF Each
  <1>5. /\ Claim(f, Subject, "Text") = Claim(g, Subject, "Text")
        /\ Claim(f, Issuer, "Text") = Claim(g, Issuer, "Text")
        /\ Claim(f, Svn, "Int") = Claim(g, Svn, "Int")
    BY ClaimsFromTheHeader
  <1>6. f.leaf = g.leaf /\ f.chain = g.chain
    BY DEF SameBut
  <1>7. CASE name \in {"issuer", "statementSubject", "statementIssuer", "minSvn"}
    BY <1>5, <1>7, TimesFromTheVerified DEF Answers
  <1>8. CASE name \in Lists
    BY <1>3, <1>4, <1>8 DEF Answers, Lists
  <1>9. CASE name \in {"signerSubjectContains", "signerIssuerContains",
                      "certificateChainValidated", "requireChainToRootSha256"}
    BY <1>1, <1>6, <1>9 DEF Answers
  <1>10. CASE name \in {"requireChainToRootFromHttps", "requireEku",
                       "certificateValidAtSigningTime"}
    BY <1>1, <1>2, <1>10 DEF Answers
  <1>11. CASE name \in {"registeredAfter", "registeredBefore", "maxAgeDays",
                       "requireKidBoundToKey"}
    BY <1>11, TimesFromTheVerified DEF Answers
  <1>12. CASE name \notin ToSet(Order)
    BY <1>12, OthersHaveNoAnswer
  <1> QED BY <1>7, <1>8, <1>9, <1>10, <1>11, <1>12, TheOrder DEF Lists

(* Adding a receipt that does not verify leaves the verified ones.         *)
LEMMA AddedIsNotVerified ==
    ASSUME NEW f \in Statements, NEW r, ~r.verified,
           NEW list \in {Append(f.receipts, r), <<r>> \o f.receipts}
    PROVE  SameBut(With(f, list), f) /\ Verified(With(f, list)) = Verified(f)
  <1>1. f.receipts \in Seq(ToSet(f.receipts)) /\ Facts(f)
    BY StatementsAssumption
  <1>2. With(f, list).receipts = list /\ SameBut(With(f, list), f)
    BY <1>1 DEF Facts, With, SameBut
  <1> DEFINE old == f.receipts
             S   == ToSet(old) \cup {r}
  <1>3. old \in Seq(S) /\ Len(old) \in Nat /\ DOMAIN old = 1..Len(old)
    BY <1>1, SeqMonotonic, LenProperties
  <1>4. <<r>> \in Seq(S) /\ Len(<<r>>) = 1 /\ <<r>>[1] = r
    OBVIOUS
  <1>5. \E place \in 1..(Len(old) + 1), shift \in {0, 1} :
           /\ list \in Seq(S) /\ DOMAIN list = 1..(Len(old) + 1)
           /\ list[place] = r
           /\ \A k \in DOMAIN list \ {place} : k - shift \in DOMAIN old /\ list[k] = old[k - shift]
           /\ \A k \in DOMAIN old : k + shift \in DOMAIN list \ {place} /\ list[k + shift] = old[k]
    <2>1. CASE list = Append(old, r)
      <3>1. /\ list \in Seq(S) /\ Len(list) = Len(old) + 1 /\ list[Len(old) + 1] = r
            /\ \A k \in 1..Len(old) : list[k] = old[k]
        BY <1>3, <2>1, AppendProperties
      <3>2. DOMAIN list = 1..(Len(old) + 1)
        BY <3>1, LenProperties
      <3> WITNESS Len(old) + 1 \in 1..(Len(old) + 1), 0 \in {0, 1}
      <3> QED BY <1>3, <3>1, <3>2
    <2>2. CASE list = <<r>> \o old
      <3>1. /\ list \in Seq(S) /\ Len(list) = Len(old) + 1
            /\ \A k \in 1..(Len(old) + 1) : list[k] = IF k <= 1 THEN <<r>>[k] ELSE old[k - 1]
        BY <1>3, <1>4, <2>2, ConcatProperties
      <3>2. DOMAIN list = 1..(Len(old) + 1)
        BY <3>1, LenProperties
      <3> WITNESS 1 \in 1..(Len(old) + 1), 1 \in {0, 1}
      <3> QED BY <1>3, <1>4, <3>1, <3>2
    <2> QED BY <2>1, <2>2
  <1>6. {list[k] : k \in {j \in DOMAIN list : list[j].verified}}
           = {old[k] : k \in {j \in DOMAIN old : old[j].verified}}
    <2> HIDE DEF old, S
    <2>1. PICK place \in 1..(Len(old) + 1), shift \in {0, 1} :
             /\ list \in Seq(S) /\ DOMAIN list = 1..(Len(old) + 1)
             /\ list[place] = r
             /\ \A k \in DOMAIN list \ {place} : k - shift \in DOMAIN old
                   /\ list[k] = old[k - shift]
             /\ \A k \in DOMAIN old : k + shift \in DOMAIN list \ {place}
                   /\ list[k + shift] = old[k]
      BY <1>5
    <2>2. \A k \in DOMAIN list : list[k].verified => k # place
      BY <2>1
    <2> QED BY <2>1, <2>2
  <1>7. Verified(With(f, list)) = Verified(f)
    BY <1>2, <1>6 DEF Verified
  <1> QED BY <1>2, <1>7
-----------------------------------------------------------------------------
(* The inductive invariant: what has been answered so far is the answers   *)
(* of the assertions whose turn has come, each with those of its rules.    *)
Result == [rule : ToSet(Order) \cup {"adapters"}, outcome : Outcomes]

Asked(i) == Requested(policy.assertions, Order[i])
Given(i) == Answers(Order[i], policy.assertions, facts, sources, now)

Typed ==
    /\ policy \in Policies /\ facts \in Statements /\ sources \in SourceLists /\ now \in Clocks
    /\ whole \in BOOLEAN /\ stage \in {"Load", "Evaluate", "Refused", "Done"}
    /\ turn \in 1..(Len(Order) + 1) /\ results \in Seq(Result)

Answered(i) == \A k \in DOMAIN Given(i) :
                  [rule |-> Order[i], outcome |-> Given(i)[k]] \in ToSet(results)

FromRule(r) == \E i \in DOMAIN Order : /\ r.rule = Order[i] /\ Asked(i)
                                       /\ \E k \in DOMAIN Given(i) : r.outcome = Given(i)[k]

FromAdapters(r) == /\ r.rule = "adapters" /\ r.outcome = CannotEvaluate
                   /\ stage = "Done" /\ whole /\ policy.adapters # {}

PolicyInv ==
    /\ Typed
    /\ stage \in {"Evaluate", "Done"} => ~Refused(policy)
    /\ \A i \in 1..(turn - 1) : Asked(i) => Answered(i)
    /\ \A r \in ToSet(results) : FromRule(r) \/ FromAdapters(r)
    /\ stage = "Done" => /\ Upcoming = {}
                         /\ whole /\ policy.adapters # {} =>
                              [rule |-> "adapters", outcome |-> CannotEvaluate] \in ToSet(results)

LEMMA OrderIsSeq == Len(Order) = 19 /\ DOMAIN Order = 1..19
  BY DEF Order

LEMMA GivenIsSeq ==
    ASSUME policy \in Policies, NEW i, Asked(i)
    PROVE  Given(i) \in Seq(Outcomes)
  <1>1. Order[i] \in Lists
          => policy.assertions[Order[i]] \in Seq(ToSet(policy.assertions[Order[i]]))
    BY PoliciesAssumption DEF Asked, Requested
  <1> QED BY <1>1, AnswersAreOutcomes DEF Given

(* Appending to the results keeps what they hold.                          *)
LEMMA ResultsGrow ==
    ASSUME NEW s \in Seq(Result), NEW t \in Seq(Result)
    PROVE  s \o t \in Seq(Result) /\ ToSet(s \o t) = ToSet(s) \cup ToSet(t)
  <1>1. /\ s \o t \in Seq(Result) /\ Len(s \o t) = Len(s) + Len(t)
        /\ \A i \in 1..(Len(s) + Len(t)) : (s \o t)[i] = IF i <= Len(s) THEN s[i] ELSE t[i - Len(s)]
    BY ConcatProperties
  <1>2. /\ DOMAIN s = 1..Len(s) /\ DOMAIN t = 1..Len(t) /\ Len(s) \in Nat /\ Len(t) \in Nat
        /\ DOMAIN (s \o t) = 1..(Len(s) + Len(t))
    BY <1>1, LenProperties
  <1>3. \A x \in ToSet(s) : x \in ToSet(s \o t)
    BY <1>1, <1>2 DEF ToSet
  <1>4. \A x \in ToSet(t) : x \in ToSet(s \o t)
    <2> TAKE x \in ToSet(t)
    <2>1. PICK i \in 1..Len(t) : x = t[i]
      BY <1>2 DEF ToSet
    <2>2. (s \o t)[i + Len(s)] = t[i] /\ i + Len(s) \in DOMAIN (s \o t)
      BY <1>1, <1>2
    <2> QED BY <2>1, <2>2 DEF ToSet
  <1>5. \A x \in ToSet(s \o t) : x \in ToSet(s) \cup ToSet(t)
    <2> TAKE x \in ToSet(s \o t)
    <2>1. PICK i \in 1..(Len(s) + Len(t)) : x = (s \o t)[i]
      BY <1>2 DEF ToSet
    <2>2. CASE i <= Len(s)
      BY <1>1, <1>2, <2>1, <2>2 DEF ToSet
    <2>3. CASE i > Len(s)
      <3>1. i - Len(s) \in DOMAIN t /\ x = t[i - Len(s)]
        BY <1>1, <1>2, <2>1, <2>3
      <3> QED BY <3>1 DEF ToSet
    <2> QED BY <1>2, <2>1, <2>2, <2>3
  <1> QED BY <1>1, <1>3, <1>4, <1>5
LEMMA NamedResults ==
    ASSUME NEW name \in ToSet(Order) \cup {"adapters"}, NEW o \in Seq(Outcomes)
    PROVE  /\ Named(name, o) \in Seq(Result)
           /\ ToSet(Named(name, o)) = {[rule |-> name, outcome |-> o[k]] : k \in DOMAIN o}
  <1>1. DOMAIN o = 1..Len(o) /\ Len(o) \in Nat /\ \A k \in 1..Len(o) : o[k] \in Outcomes
    BY LenProperties, ElementOfSeq
  <1>2. Named(name, o) = [k \in 1..Len(o) |-> [rule |-> name, outcome |-> o[k]]]
    BY <1>1 DEF Named
  <1> QED BY <1>1, <1>2 DEF Result, ToSet

LEMMA AdapterResults ==
    ASSUME policy \in Policies
    PROVE  /\ Adapters \in Seq(Result)
           /\ ToSet(Adapters) = IF policy.adapters = {} THEN {}
                                ELSE {[rule |-> "adapters", outcome |-> CannotEvaluate]}
  <1> DEFINE n == Cardinality(policy.adapters)
  <1>1. n \in Nat /\ (n = 0 <=> policy.adapters = {})
    BY PoliciesAssumption, FS_CardinalityType, FS_EmptySet
  <1>2. Adapters = [i \in 1..n |-> [rule |-> "adapters", outcome |-> CannotEvaluate]]
    BY DEF Adapters
  <1>3. [rule |-> "adapters", outcome |-> CannotEvaluate] \in Result
    BY DEF Result, Outcomes
  <1> HIDE DEF n
  <1>4. Adapters \in Seq(Result) /\ DOMAIN Adapters = 1..n
    BY <1>1, <1>2, <1>3
  <1>5. CASE n = 0
    <2>1. ToSet(Adapters) = {}
      BY <1>4, <1>5 DEF ToSet
    <2> QED BY <1>1, <1>4, <1>5, <2>1
  <1>6. CASE n # 0
    <2>1. 1 \in 1..n
          /\ \A i \in 1..n : Adapters[i] = [rule |-> "adapters", outcome |-> CannotEvaluate]
      BY <1>1, <1>2, <1>6
    <2>2. ToSet(Adapters) = {[rule |-> "adapters", outcome |-> CannotEvaluate]}
      BY <1>4, <2>1 DEF ToSet
    <2> QED BY <1>1, <1>4, <1>6, <2>2
  <1> QED BY <1>5, <1>6

LEMMA PolicyInitially == Init => PolicyInv
  <1> SUFFICES ASSUME Init PROVE PolicyInv
    OBVIOUS
  <1>1. results \in Seq(Result) /\ ToSet(results) = {}
    BY EmptySeq DEF Init, ToSet
  <1>2. Typed
    BY <1>1, OrderIsSeq DEF Init, Typed
  <1> QED BY <1>1, <1>2 DEF Init, PolicyInv

LEMMA PolicyPreserved == PolicyInv /\ [Next]_vars => PolicyInv'
  <1> SUFFICES ASSUME PolicyInv, [Next]_vars PROVE PolicyInv'
    OBVIOUS
  <1> USE DEF PolicyInv, Typed
  <1>1. CASE Load
    <2>1. UNCHANGED <<input, turn, results>> /\ stage' \in {"Refused", "Evaluate"}
          /\ (stage' = "Evaluate" => ~Refused(policy)) /\ stage = "Load"
      BY <1>1 DEF Load
    <2>2. \A i : Asked(i)' = Asked(i) /\ Given(i)' = Given(i) /\ Answered(i)' = Answered(i)
      BY <2>1 DEF input, Asked, Given, Answered
    <2>3. \A r : FromRule(r)' = FromRule(r) /\ ~FromAdapters(r)
      BY <2>1, <2>2 DEF FromRule, FromAdapters
    <2> QED BY <2>1, <2>2, <2>3 DEF input
  <1>2. CASE Evaluate
    <2>1. PICK i \in Upcoming : results' = results \o Named(Order[i], Given(i)) /\ turn' = i + 1
      BY <1>2 DEF Evaluate, Given
    <2>2. UNCHANGED <<input, stage>> /\ stage = "Evaluate"
      BY <1>2 DEF Evaluate
    <2>3. /\ i \in turn..19 /\ turn \in 1..20 /\ Asked(i)
          /\ \A j \in turn..(i - 1) : ~Asked(j)
      BY OrderIsSeq DEF Upcoming, Asked
    <2>4. Order[i] \in ToSet(Order)
      <3>1. i \in DOMAIN Order /\ ToSet(Order) = {Order[j] : j \in DOMAIN Order}
        BY <2>3, OrderIsSeq DEF ToSet
      <3> HIDE DEF PolicyInv, Typed
      <3> QED BY <3>1, Zenon
    <2>5. Given(i) \in Seq(Outcomes)
      BY <2>3, GivenIsSeq
    <2>6. /\ Named(Order[i], Given(i)) \in Seq(Result)
          /\ ToSet(Named(Order[i], Given(i)))
                = {[rule |-> Order[i], outcome |-> Given(i)[k]] : k \in DOMAIN Given(i)}
      BY <2>4, <2>5, NamedResults
    <2>7. results' \in Seq(Result) /\ ToSet(results') = ToSet(results) \cup
             {[rule |-> Order[i], outcome |-> Given(i)[k]] : k \in DOMAIN Given(i)}
      BY <2>1, <2>6, ResultsGrow
    <2>8. \A j : Asked(j)' = Asked(j) /\ Given(j)' = Given(j)
      BY <2>2 DEF input, Asked, Given
    <2>9. (\A j \in 1..(turn - 1) : Asked(j) => Answered(j))'
      <3>1. Answered(i)' /\ \A j : Answered(j) => Answered(j)'
        BY <2>7, <2>8 DEF Answered
      <3>2. \A j \in 1..i : j \in 1..(turn - 1) \/ j \in turn..(i - 1) \/ j = i
        BY <2>3
      <3> QED BY <2>1, <2>3, <2>8, <3>1, <3>2
    <2>10. (\A r \in ToSet(results) : FromRule(r) \/ FromAdapters(r))'
      <3>1. \A r : FromRule(r)' = FromRule(r) /\ ~FromAdapters(r)
        BY <2>2, <2>8 DEF FromRule, FromAdapters
      <3>2. \A k \in DOMAIN Given(i) : FromRule([rule |-> Order[i], outcome |-> Given(i)[k]])
        <4> TAKE k \in DOMAIN Given(i)
        <4>1. i \in DOMAIN Order /\ Asked(i)
          BY <2>3, OrderIsSeq
        <4> DEFINE r == [rule |-> Order[i], outcome |-> Given(i)[k]]
        <4>2. r.rule = Order[i] /\ r.outcome = Given(i)[k]
          OBVIOUS
        <4> HIDE DEF r
        <4>3. FromRule(r)
          BY <4>1, <4>2, Zenon DEF FromRule
        <4> QED BY <4>3 DEF r
      <3> QED BY <2>7, <3>1, <3>2
    <2>11. Typed'
      <3>1. turn' \in 1..(Len(Order) + 1)
        BY <2>1, <2>3, OrderIsSeq
      <3>2. UNCHANGED <<policy, facts, sources, now, whole>>
        BY <2>2 DEF input
      <3> QED BY <2>2, <2>7, <3>1, <3>2
    <2>12. stage' = "Evaluate" /\ ~Refused(policy')
      BY <2>2 DEF input
    <2> QED
      <3> HIDE DEF Typed
      <3> QED BY <2>9, <2>10, <2>11, <2>12
  <1>3. CASE Finish
    <2>1. /\ UNCHANGED <<input, turn>> /\ stage = "Evaluate" /\ stage' = "Done" /\ Upcoming = {}
          /\ results' = IF whole THEN results \o Adapters ELSE results
      BY <1>3 DEF Finish
    <2>2. /\ results' \in Seq(Result)
          /\ ToSet(results') = IF whole /\ policy.adapters # {}
                               THEN ToSet(results)
                                    \cup {[rule |-> "adapters", outcome |-> CannotEvaluate]}
                               ELSE ToSet(results)
      BY <2>1, AdapterResults, ResultsGrow
    <2>3. \A i : Asked(i)' = Asked(i) /\ Given(i)' = Given(i) /\ Upcoming' = Upcoming
      BY <2>1 DEF input, Asked, Given, Upcoming
    <2>4. \A i : Answered(i) => Answered(i)'
      BY <2>2, <2>3 DEF Answered
    <2>5. \A r : FromRule(r)' = FromRule(r) /\ ~FromAdapters(r)
      BY <2>1, <2>3 DEF FromRule, FromAdapters
    <2>6. whole /\ policy.adapters # {} =>
             FromAdapters([rule |-> "adapters", outcome |-> CannotEvaluate])'
      BY <2>1 DEF FromAdapters, input
    <2> QED BY <2>1, <2>2, <2>3, <2>4, <2>5, <2>6 DEF input
  <1>4. CASE UNCHANGED vars
    <2>1. \A i : Asked(i)' = Asked(i) /\ Given(i)' = Given(i) /\ Upcoming' = Upcoming
                 /\ Answered(i)' = Answered(i)
      BY <1>4 DEF vars, input, Asked, Given, Upcoming, Answered
    <2>2. \A r : FromRule(r)' = FromRule(r) /\ FromAdapters(r)' = FromAdapters(r)
      BY <1>4, <2>1 DEF vars, input, FromRule, FromAdapters
    <2> QED BY <1>4, <2>1, <2>2 DEF vars, input
  <1> QED BY <1>1, <1>2, <1>3, <1>4 DEF Next, Finished

(* What has been answered is what the rules come to, in their order.       *)
THEOREM PolicyInvariant == Spec => []PolicyInv
  BY PolicyInitially, PolicyPreserved, PTL DEF Spec
-----------------------------------------------------------------------------
(* Every variable keeps its type, and an answer is one of three outcomes,  *)
(* an adapter's without evidence included.                                 *)
THEOREM PolicyTypeCorrect == Spec => []TypeOK
  <1>1. PolicyInv => TypeOK
    <2> SUFFICES ASSUME PolicyInv PROVE TypeOK
      OBVIOUS
    <2>1. \A i \in DOMAIN results : results[i] \in Result
      BY LenProperties, ElementOfSeq DEF PolicyInv, Typed
    <2> QED BY <2>1 DEF PolicyInv, Typed, TypeOK, Result, Outcomes
  <1> QED BY <1>1, PolicyInvariant, PTL

(* A receipt that anyone may append, in front of the others or behind      *)
(* them, has no say in any rule but receiptCount, which exists to see it.  *)
THEOREM JunkIsInert == Spec => []JunkReceiptsDecideNothing
  <1>1. PolicyInv => JunkReceiptsDecideNothing
    <2> SUFFICES ASSUME PolicyInv, NEW n \in Asking \ {"receiptCount"}, NEW r \in Receipts,
                        ~r.verified
                 PROVE  /\ Told(n, With(facts, Append(facts.receipts, r)), sources)
                              = Told(n, facts, sources)
                        /\ Told(n, With(facts, <<r>> \o facts.receipts), sources)
                              = Told(n, facts, sources)
      BY DEF JunkReceiptsDecideNothing
    <2>1. \A list \in {Append(facts.receipts, r), <<r>> \o facts.receipts} :
             SameBut(With(facts, list), facts) /\ Verified(With(facts, list)) = Verified(facts)
      BY AddedIsNotVerified DEF PolicyInv, Typed
    <2>2. \A list \in {Append(facts.receipts, r), <<r>> \o facts.receipts} :
             Told(n, With(facts, list), sources) = Told(n, facts, sources)
      <3> TAKE list \in {Append(facts.receipts, r), <<r>> \o facts.receipts}
      <3>1. SameBut(With(facts, list), facts) /\ Verified(With(facts, list)) = Verified(facts)
        BY <2>1
      <3>2. n # "receiptCount"
        OBVIOUS
      <3> QED BY <3>1, <3>2, AnswersFromTheVerified DEF Told
    <2> QED BY <2>2
  <1> QED BY <1>1, PolicyInvariant, PTL

-----------------------------------------------------------------------------
(* When nothing is upcoming every assertion of the policy has been asked.  *)
LEMMA LeastOf ==
    ASSUME NEW T \in SUBSET Nat, T # {}
    PROVE  \E x \in T : \A y \in T : x <= y
  <1> DEFINE R == OpToRel(<, Nat)
  <1>1. IsWellFoundedOn(R, Nat)
    BY NatLessThanWellFounded
  <1>2. \A x, y \in Nat : y < x => <<y, x>> \in R
    BY DEF OpToRel
  <1> HIDE DEF R
  <1>3. PICK x \in T : \A y \in T : ~ (<<y, x>> \in R)
    BY <1>1, WFMin
  <1>4. \A y \in T : y \in Nat /\ ~(y < x)
    BY <1>2, <1>3
  <1> QED BY <1>4

LEMMA AllAsked ==
    ASSUME PolicyInv, stage = "Done"
    PROVE  \A i \in 1..19 : Asked(i) => Answered(i)
  <1> DEFINE left == {i \in turn..19 : Asked(i)}
  <1>1. turn \in 1..20 /\ Upcoming = {}
    BY OrderIsSeq DEF PolicyInv, Typed
  <1>2. left = {}
    <2> SUFFICES ASSUME left # {} PROVE FALSE
      OBVIOUS
    <2>1. left \in SUBSET Nat
      BY <1>1
    <2>2. PICK x \in left : \A y \in left : x <= y
      <3> HIDE DEF left
      <3> QED BY <2>1, LeastOf
    <2>3. \A j \in turn..(x - 1) : ~Asked(j)
      <3>1. \A j \in turn..(x - 1) : j \in turn..19 /\ ~(x <= j)
        BY <1>1, <2>2
      <3> QED BY <2>2, <3>1
    <2>4. x \in Upcoming
      BY <2>2, <2>3, OrderIsSeq DEF Upcoming, Asked
    <2> QED BY <1>1, <2>4
  <1>3. \A i \in 1..19 : Asked(i) => i \in 1..(turn - 1)
    BY <1>1, <1>2
  <1> QED BY <1>3 DEF PolicyInv

(* A rule that passed was asked and came to Pass; and if the policy is     *)
(* satisfied, each answer of each assertion is Pass.                       *)
LEMMA PassedIsGiven ==
    ASSUME PolicyInv, NEW name \in ToSet(Order), Passed(name)
    PROVE  /\ stage = "Done" /\ Requested(policy.assertions, name)
           /\ LET o == Answers(name, policy.assertions, facts, sources, now)
              IN  \E k \in DOMAIN o : o[k] = Pass
  <1> DEFINE r == [rule |-> name, outcome |-> Pass]
  <1>1. stage = "Done" /\ r \in ToSet(results)
    BY DEF Passed
  <1>2. r.rule = name /\ r.outcome = Pass
    OBVIOUS
  <1> HIDE DEF r
  <1>3. ~FromAdapters(r)
    BY <1>2 DEF FromAdapters, Pass, CannotEvaluate
  <1>4. FromRule(r)
    BY <1>1, <1>3 DEF PolicyInv
  <1> QED BY <1>1, <1>2, <1>4 DEF FromRule, Asked, Given

LEMMA SatisfiedIsGiven ==
    ASSUME PolicyInv, stage = "Done", Satisfied,
           NEW name \in ToSet(Order), Requested(policy.assertions, name)
    PROVE  LET o == Answers(name, policy.assertions, facts, sources, now)
           IN  \A k \in DOMAIN o : o[k] = Pass /\ Passed(name)
  <1>1. PICK i \in 1..19 : name = Order[i]
    BY OrderIsSeq DEF ToSet
  <1>2. Answered(i)
    BY <1>1, AllAsked DEF Asked
  <1>3. \A r \in ToSet(results) : r.outcome = Pass
    BY DEF Satisfied, ToSet
  <1> SUFFICES ASSUME NEW k \in DOMAIN Given(i)
               PROVE  Given(i)[k] = Pass /\ Passed(name)
    BY <1>1 DEF Given
  <1>4. [rule |-> Order[i], outcome |-> Given(i)[k]] \in ToSet(results)
    BY <1>2 DEF Answered
  <1>5. Given(i)[k] = Pass
    BY <1>3, <1>4
  <1> QED BY <1>1, <1>4, <1>5 DEF Passed
(* The rules with one answer.                                              *)
LEMMA SingleAnswers ==
    \A a, f, s, t :
       /\ Answers("requireEku", a, f, s, t) = <<Purpose(a, f)>>
       /\ Answers("requireChainToRootFromHttps", a, f, s, t)
             = <<RootFromHttps(a.requireChainToRootFromHttps, f, s)>>
       /\ Answers("requireChainToRootSha256", a, f, s, t)
             = <<Answer(Decided(f), f.chain.kind = "Valid"
                   /\ f.chain.root = a.requireChainToRootSha256)>>
       /\ Answers("certificateValidAtSigningTime", a, f, s, t)
             = <<Answer(SigningTime(f) # {}, SigningTime(f) = {a.certificateValidAtSigningTime})>>
  BY DEF Answers

LEMMA SingleIsPass ==
    ASSUME PolicyInv, NEW name \in ToSet(Order), NEW o,
           Answers(name, policy.assertions, facts, sources, now) = <<o>>
    PROVE  /\ Passed(name) => o = Pass
           /\ stage = "Done" /\ Satisfied /\ Requested(policy.assertions, name) => o = Pass
  <1>1. DOMAIN <<o>> = {1} /\ <<o>>[1] = o
    OBVIOUS
  <1>2. Passed(name) => o = Pass
    BY <1>1, PassedIsGiven
  <1>3. stage = "Done" /\ Satisfied /\ Requested(policy.assertions, name) => o = Pass
    BY <1>1, SatisfiedIsGiven
  <1> QED BY <1>2, <1>3

-----------------------------------------------------------------------------
(* A published root is that of the only acquisition of its URL.            *)
LEMMA PublishedByOne ==
    ASSUME NEW s \in SourceLists, NEW url
    PROVE  /\ \A root \in Published(url, s) :
                 \E k \in DOMAIN s : /\ s[k].url = url /\ root \in s[k].roots
                                     /\ \A j \in DOMAIN s : s[j].url = url => j = k
           /\ \A k \in DOMAIN s :
                 s[k].url = url /\ (\A j \in DOMAIN s : s[j].url = url => j = k)
                    => Published(url, s) = s[k].roots
  <1> DEFINE of == {k \in DOMAIN s : s[k].url = url}
  <1>1. IsFiniteSet(of)
    <2>1. s \in Seq(ToSet(s))
      BY SourcesAssumption
    <2>2. DOMAIN s = 1..Len(s) /\ Len(s) \in Nat
      BY <2>1, LenProperties
    <2>3. IsFiniteSet(1..Len(s))
      BY <2>2, FS_Interval
    <2> QED BY <2>2, <2>3, FS_Subset
  <1>2. Published(url, s) = IF Cardinality(of) = 1 THEN UNION {s[k].roots : k \in of} ELSE {}
    BY DEF Published
  <1>3. Cardinality(of) = 1 <=> \E k : of = {k}
    <2> HIDE DEF of
    <2> QED BY <1>1, FS_Singleton
  <1>4. ASSUME NEW root \in Published(url, s)
        PROVE  \E k \in DOMAIN s : /\ s[k].url = url /\ root \in s[k].roots
                                   /\ \A j \in DOMAIN s : s[j].url = url => j = k
    <2>1. PICK k : of = {k}
      BY <1>2, <1>3, <1>4
    <2>2. root \in s[k].roots
      <3> HIDE DEF of
      <3> QED BY <1>2, <1>3, <1>4, <2>1
    <2>3. \A j \in DOMAIN s : s[j].url = url => j = k
      BY <2>1
    <2>4. k \in DOMAIN s /\ s[k].url = url
      BY <2>1
    <2> QED BY <2>2, <2>3, <2>4
  <1>5. ASSUME NEW k \in DOMAIN s, s[k].url = url, \A j \in DOMAIN s : s[j].url = url => j = k
        PROVE  Published(url, s) = s[k].roots
    <2>1. of = {k}
      BY <1>5
    <2>2. UNION {s[j].roots : j \in {k}} = s[k].roots
      OBVIOUS
    <2> HIDE DEF of
    <2>3. Cardinality(of) = 1
      BY <1>3, <2>1
    <2> QED BY <1>2, <2>1, <2>2, <2>3
  <1> QED BY <1>4, <1>5

LEMMA Distinct == Pass # Fail /\ Pass # CannotEvaluate /\ Fail # CannotEvaluate
  BY DEF Pass, Fail, CannotEvaluate

(* An external signature whose outcome is a pass under a rule that names a *)
(* root or a time was checked along a path that validated.                 *)
LEMMA PassedPath ==
    ASSUME NEW rule, NEW f, NEW s, External(rule, f, s) = Pass,
           rule.pin \cup rule.url \cup rule.valid # {}
    PROVE  LET at == Resolve(CHOOSE r \in f.protected : TRUE, rule.path)
           IN  /\ at.kind \notin {"Error", "None"}
               /\ IsSigned(rule, at.node)
               /\ at.node.material \notin {"Unavailable", "Malformed"}
               /\ at.node.chain.kind = "Valid"
               /\ CheckPath(rule, at.node.chain, f, s) = Pass
  <1> DEFINE at == Resolve(CHOOSE r \in f.protected : TRUE, rule.path)
  <1> HIDE DEF at
  <1>1. at.kind \notin {"Error", "None"} /\ Signature(rule, at.node, f, s) = Pass
    BY Distinct DEF External, at
  <1>2. CheckChain(rule, at.node, f, s) = Pass
    BY <1>1, Distinct DEF Signature
  <1>3. /\ IsSigned(rule, at.node) /\ at.node.material \notin {"Unavailable", "Malformed"}
        /\ at.node.chain.kind = "Valid" /\ CheckPath(rule, at.node.chain, f, s) = Pass
    BY <1>2, Distinct DEF CheckChain
  <1> QED BY <1>1, <1>3 DEF at
(* The outcome of an asked external signature, with what it was asked of.  *)
LEMMA AskedExternal ==
    ASSUME facts \in Statements, NEW x \in Externals
    PROVE  /\ x.at = Resolve(CHOOSE r \in facts.protected : TRUE, x.rule.path)
           /\ x.outcome = External(x.rule, facts, sources)
           /\ facts.protected # {} /\ stage = "Done"
  <1>1. PICK i \in DOMAIN policy.assertions.externalSignatures, root \in facts.protected :
           x = [rule |-> policy.assertions.externalSignatures[i],
                at |-> Resolve(root, policy.assertions.externalSignatures[i].path),
                outcome |-> External(policy.assertions.externalSignatures[i], facts, sources)]
    BY DEF Externals
  <1>2. root = CHOOSE r \in facts.protected : TRUE
    BY StatementsAssumption
  <1> QED BY <1>1, <1>2 DEF Externals

(* One that passed on more than the signature itself has a validated path, *)
(* which was checked.                                                      *)
LEMMA PassedExternal ==
    ASSUME facts \in Statements, NEW x \in Externals, x.outcome = Pass,
           x.rule.pin \cup x.rule.url \cup x.rule.valid # {}
    PROVE  Validated(x) /\ CheckPath(x.rule, x.at.node.chain, facts, sources) = Pass
  <1> DEFINE rule == x.rule
             at   == Resolve(CHOOSE r \in facts.protected : TRUE, rule.path)
  <1>1. x.at = at /\ External(rule, facts, sources) = Pass
    BY AskedExternal
  <1>2. rule.pin \cup rule.url \cup rule.valid # {}
    OBVIOUS
  <1>3. /\ at.kind \notin {"Error", "None"} /\ IsSigned(rule, at.node)
        /\ at.node.material \notin {"Unavailable", "Malformed"}
        /\ at.node.chain.kind = "Valid"
        /\ CheckPath(rule, at.node.chain, facts, sources) = Pass
    <2> HIDE DEF rule
    <2> QED BY <1>1, <1>2, PassedPath
  <1>4. x.rule = rule
    OBVIOUS
  <1> HIDE DEF at, rule
  <1> QED BY <1>1, <1>3, <1>4 DEF Validated

(* A root counts as published only by the one acquisition of exactly the   *)
(* URL that the policy names, for the statement's chain and for those of   *)
(* the external signatures: any list of sources, any statement.            *)
THEOREM OneAcquisitionAuthorises == Spec => []AuthorisedByOneAcquisition
  <1>1. PolicyInv => AuthorisedByOneAcquisition
    <2> SUFFICES ASSUME PolicyInv PROVE AuthorisedByOneAcquisition
      OBVIOUS
    <2>1. facts \in Statements /\ sources \in SourceLists
      BY DEF PolicyInv, Typed
    <2>2. \A url : \A root \in Published(url, sources) : OneAcquisition(url, root)
      BY <2>1, PublishedByOne DEF OneAcquisition
    <2>3. ASSUME Passed("requireChainToRootFromHttps")
          PROVE  /\ facts.chain.kind = "Valid"
                 /\ OneAcquisition(policy.assertions.requireChainToRootFromHttps, facts.chain.root)
      <3> DEFINE url == policy.assertions.requireChainToRootFromHttps
      <3>1. RootFromHttps(url, facts, sources) = Pass
        BY <2>3, SingleIsPass, SingleAnswers, TheOrder
      <3>2. facts.chain.kind = "Valid" /\ facts.chain.root \in Published(url, sources)
        BY <3>1, Distinct DEF RootFromHttps, Answer
      <3> QED BY <2>2, <3>2
    <2>4. ASSUME NEW x \in Externals, x.outcome = Pass, NEW url \in x.rule.url
          PROVE  Validated(x) /\ OneAcquisition(url, x.at.node.chain.root)
      <3>1. /\ x.at = Resolve(CHOOSE r \in facts.protected : TRUE, x.rule.path)
            /\ External(x.rule, facts, sources) = Pass
        BY <2>1, <2>4, AskedExternal
      <3>2. Validated(x) /\ CheckPath(x.rule, x.at.node.chain, facts, sources) = Pass
        <4> DEFINE rule == x.rule
                   at == Resolve(CHOOSE r \in facts.protected : TRUE, rule.path)
        <4>1. rule.pin \cup rule.url \cup rule.valid # {} /\ x.at = at
              /\ External(rule, facts, sources) = Pass
          BY <2>4, <3>1
        <4>2. /\ at.kind \notin {"Error", "None"} /\ IsSigned(rule, at.node)
              /\ at.node.material \notin {"Unavailable", "Malformed"}
              /\ at.node.chain.kind = "Valid"
              /\ CheckPath(rule, at.node.chain, facts, sources) = Pass
          <5> HIDE DEF rule
          <5> QED BY <4>1, PassedPath
        <4> HIDE DEF at
        <4> QED BY <4>1, <4>2 DEF Validated
      <3>3. x.at.node.chain.root \in Published(url, sources)
        BY <2>4, <3>2, Distinct DEF CheckPath, Answer
      <3> QED BY <2>2, <3>2, <3>3
    <2> QED BY <2>3, <2>4 DEF AuthorisedByOneAcquisition
  <1> QED BY <1>1, PolicyInvariant, PTL

(* An accepted purpose is that of a leaf under an anchor that was supplied *)
(* to the run, pinned by the policy or published where the policy says.    *)
THEOREM PurposeHasAnAuthority == Spec => []PurposeNeedsAnAuthority
  <1>1. PolicyInv => PurposeNeedsAnAuthority
    <2> DEFINE a == policy.assertions
    <2> SUFFICES ASSUME PolicyInv, stage = "Done", Satisfied, Requested(a, "requireEku")
                 PROVE  /\ facts.chain.kind = "Valid"
                        /\ \E e \in facts.chain.eku : a.requireEku \subseteq e
                        /\ \/ facts.chain.anchored
                           \/ Requested(a, "requireChainToRootSha256")
                              /\ facts.chain.root = a.requireChainToRootSha256
                           \/ Requested(a, "requireChainToRootFromHttps")
                              /\ facts.chain.root
                                    \in Published(a.requireChainToRootFromHttps, sources)
      BY DEF PurposeNeedsAnAuthority
    <2>1. Purpose(a, facts) = Pass
      BY SingleIsPass, SingleAnswers, TheOrder
    <2>2. /\ facts.chain.kind = "Valid" /\ \E e \in facts.chain.eku : a.requireEku \subseteq e
          /\ \/ facts.chain.anchored
             \/ Requested(a, "requireChainToRootSha256")
             \/ Requested(a, "requireChainToRootFromHttps")
      BY <2>1, Distinct DEF Purpose, Answer
    <2>3. ASSUME Requested(a, "requireChainToRootSha256")
          PROVE  facts.chain.root = a.requireChainToRootSha256
      <3>1. Answer(Decided(facts), facts.chain.kind = "Valid"
                                   /\ facts.chain.root = a.requireChainToRootSha256) = Pass
        BY <2>3, SingleIsPass, SingleAnswers, TheOrder
      <3> QED BY <3>1, Distinct DEF Answer
    <2>4. ASSUME Requested(a, "requireChainToRootFromHttps")
          PROVE  facts.chain.root \in Published(a.requireChainToRootFromHttps, sources)
      <3>1. RootFromHttps(a.requireChainToRootFromHttps, facts, sources) = Pass
        BY <2>4, SingleIsPass, SingleAnswers, TheOrder
      <3> QED BY <3>1, Distinct DEF RootFromHttps, Answer
    <2> QED BY <2>2, <2>3, <2>4
  <1> QED BY <1>1, PolicyInvariant, PTL
-----------------------------------------------------------------------------
(* Acceptance is an answer to everything that was asked: no assertion is   *)
(* skipped, none is vacuous, and evaluate never vouches for an adapter.    *)
THEOREM AcceptedIsAnswered == Spec => []AcceptanceAnsweredEverything
  <1>1. PolicyInv => AcceptanceAnsweredEverything
    <2> DEFINE a == policy.assertions
    <2> SUFFICES ASSUME PolicyInv, stage = "Done", Satisfied
                 PROVE  /\ whole => policy.adapters = {}
                        /\ \E name \in DOMAIN a : Passed(name)
                        /\ \A name \in DOMAIN a :
                              Passed(name) \/ (name = "requireKidBoundToKey" /\ ~a[name])
      BY DEF AcceptanceAnsweredEverything
    <2>1. results \in Seq(Result) /\ results # <<>> /\ \A r \in ToSet(results) : r.outcome = Pass
      BY DEF Satisfied, ToSet, PolicyInv, Typed
    <2>2. \A r \in ToSet(results) : ~FromAdapters(r)
      BY <2>1, Distinct DEF FromAdapters
    <2>3. whole => policy.adapters = {}
      <3> SUFFICES ASSUME whole, policy.adapters # {} PROVE FALSE
        OBVIOUS
      <3>1. [rule |-> "adapters", outcome |-> CannotEvaluate] \in ToSet(results)
        BY DEF PolicyInv
      <3> QED BY <2>1, <3>1, Distinct
    <2>4. \E name \in DOMAIN a : Passed(name)
      <3>1. results[1] \in ToSet(results)
        BY <2>1, EmptySeq, LenProperties DEF ToSet
      <3>2. FromRule(results[1]) /\ results[1] \in Result /\ results[1].outcome = Pass
        BY <2>1, <2>2, <3>1, ElementOfSeq DEF PolicyInv, ToSet
      <3>3. results[1].rule \in DOMAIN a
        BY <3>2 DEF FromRule, Asked, Requested
      <3>4. results[1] = [rule |-> results[1].rule, outcome |-> Pass]
        BY <3>2 DEF Result
      <3> QED BY <3>1, <3>3, <3>4 DEF Passed
    <2>5. ASSUME NEW name \in DOMAIN a
          PROVE  Passed(name) \/ (name = "requireKidBoundToKey" /\ ~a[name])
      <3> DEFINE o == Answers(name, a, facts, sources, now)
      <3>1. name \in ToSet(Order) /\ (name \in Lists => a[name] \in Seq(ToSet(a[name])))
        BY <2>5, PoliciesAssumption DEF PolicyInv, Typed
      <3>2. \A k \in DOMAIN o : Passed(name)
        BY <2>5, <3>1, SatisfiedIsGiven DEF Requested
      <3>3. CASE name = "requireKidBoundToKey"
        <4>1. a[name] => o = <<KidBound(facts)>>
          BY <3>3 DEF Answers
        <4>2. DOMAIN <<KidBound(facts)>> = {1}
          OBVIOUS
        <4> HIDE DEF o
        <4> QED BY <3>2, <3>3, <4>1, <4>2
      <3>4. CASE name # "requireKidBoundToKey"
        <4>1. name \in Lists => a[name] # <<>>
          BY <2>5 DEF PolicyInv, Refused, Requested
        <4>2. /\ o \in Seq(Outcomes) /\ (name \in Lists => Len(o) = Len(a[name]))
              /\ name \notin Lists => o # <<>>
          BY <3>1, <3>4, AnswersAreOutcomes
        <4> HIDE DEF o
        <4>3. o # <<>>
          BY <3>1, <4>1, <4>2, EmptySeq
        <4>4. 1 \in DOMAIN o
          BY <4>2, <4>3, EmptySeq, LenProperties
        <4> QED BY <3>2, <4>4
      <3> QED BY <3>3, <3>4
    <2> QED BY <2>3, <2>4, <2>5
  <1> QED BY <1>1, PolicyInvariant, PTL

(* A window that holds for the registrations holds at each of them.        *)
LEMMA ValidAtEach ==
    ASSUME NEW path, NEW f
    PROVE  /\ ValidAt(path, f) = {} <=> \A r \in Verified(f) : r.at = {}
           /\ ValidAt(path, f) # {} => ValidAt(path, f) =
                {\A r \in Verified(f) : \A t \in r.at : path.from <= t /\ t <= path.to}
  <1>1. Times(f) = {} <=> \A r \in Verified(f) : r.at = {}
    BY DEF Times
  <1>2. (\A t \in Times(f) : path.from <= t /\ t <= path.to)
           <=> \A r \in Verified(f) : \A t \in r.at : path.from <= t /\ t <= path.to
    BY DEF Times
  <1> QED BY <1>1, <1>2 DEF ValidAt

(* A certificate said to have been live was so at each attested            *)
(* registration of the statement, on a path that validated.                *)
THEOREM LiveEverywhere == Spec => []LiveAtEveryRegistration
  <1>1. PolicyInv => LiveAtEveryRegistration
    <2> SUFFICES ASSUME PolicyInv PROVE LiveAtEveryRegistration
      OBVIOUS
    <2>1. ASSUME NEW path, path.kind = "Valid", ValidAt(path, facts) = {TRUE}
          PROVE  LiveAt(path)
      BY <2>1, ValidAtEach DEF LiveAt
    <2>2. ASSUME Passed("certificateValidAtSigningTime"),
                 policy.assertions.certificateValidAtSigningTime
          PROVE  LiveAt(facts.chain)
      <3> DEFINE name == "certificateValidAtSigningTime"
                 o    == Answer(SigningTime(facts) # {}, SigningTime(facts)
                                   = {policy.assertions.certificateValidAtSigningTime})
      <3>1. o = Pass
        <4>1. Answers(name, policy.assertions, facts, sources, now) = <<o>>
          BY DEF Answers
        <4>2. name \in ToSet(Order) /\ Passed(name)
          BY <2>2, TheOrder
        <4> HIDE DEF o, name
        <4> QED BY <4>1, <4>2, SingleIsPass
      <3>2. SigningTime(facts) = {policy.assertions.certificateValidAtSigningTime}
        BY <3>1, Distinct DEF Answer
      <3>3. facts.chain.kind = "Valid" /\ ValidAt(facts.chain, facts) = SigningTime(facts)
        BY <3>2 DEF SigningTime
      <3>4. TRUE \in ValidAt(facts.chain, facts)
        BY <2>2, <3>2, <3>3
      <3> QED BY <2>1, <3>2, <3>3, <3>4
    <2>3. ASSUME NEW x \in Externals, x.outcome = Pass, x.rule.valid = {TRUE}
          PROVE  Validated(x) /\ LiveAt(x.at.node.chain)
      <3>1. Validated(x) /\ CheckPath(x.rule, x.at.node.chain, facts, sources) = Pass
        BY <2>3, PassedExternal DEF PolicyInv, Typed
      <3>3. ValidAt(x.at.node.chain, facts) = {TRUE}
        BY <2>3, <3>1, Distinct DEF CheckPath, Answer
      <3> QED BY <2>1, <3>1, <3>3 DEF Validated
    <2> QED BY <2>2, <2>3 DEF LiveAtEveryRegistration
  <1> QED BY <1>1, PolicyInvariant, PTL
(* "Missing authorization must not hide a known registration-time failure":*)
(* where an external signature is left unanswered, neither the pin, nor a  *)
(* root source that was acquired, nor an attested time speaks against it.  *)
THEOREM NothingKnownIsHidden == Spec => []KnownFailuresAreReported
  <1>1. PolicyInv => KnownFailuresAreReported
    <2> SUFFICES ASSUME PolicyInv, NEW x \in Externals, x.outcome = CannotEvaluate, Validated(x)
                 PROVE
        LET path   == x.at.node.chain
            within == \A r \in Verified(facts) : \A t \in r.at : path.from <= t /\ t <= path.to
        IN  /\ x.rule.pin \subseteq {path.root}
            /\ \A url \in x.rule.url : \A k \in DOMAIN sources :
                  /\ sources[k].url = url /\ sources[k].roots # {}
                  /\ \A j \in DOMAIN sources : sources[j].url = url => j = k
                  => path.root \in sources[k].roots
            /\ (\E r \in Verified(facts) : r.at # {}) => x.rule.valid \subseteq {within}
      BY DEF KnownFailuresAreReported
    <2> DEFINE node   == x.at.node
               path   == node.chain
               rule   == x.rule
               within == \A r \in Verified(facts) : \A t \in r.at : path.from <= t /\ t <= path.to
    <2>1. facts \in Statements /\ sources \in SourceLists
      BY DEF PolicyInv, Typed
    <2>2. /\ x.at = Resolve(CHOOSE r \in facts.protected : TRUE, rule.path)
          /\ External(rule, facts, sources) = CannotEvaluate /\ facts.protected # {}
      BY <2>1, AskedExternal
    <2>3. Signature(rule, node, facts, sources) = CannotEvaluate
      BY <2>2 DEF External, Validated
    <2>4. CheckChain(rule, node, facts, sources) # Fail
      BY <2>3, Distinct DEF Signature
    <2>5. CASE rule.pin = {} /\ rule.url = {} /\ rule.valid = {}
      BY <2>5
    <2>6. CASE ~(rule.pin = {} /\ rule.url = {} /\ rule.valid = {})
      <3>1. CheckPath(rule, path, facts, sources) # Fail
        BY <2>4, <2>6 DEF CheckChain, Validated
      <3>2. /\ rule.pin \subseteq {path.root}
            /\ \A url \in rule.url :
                    Published(url, sources) = {} \/ path.root \in Published(url, sources)
            /\ rule.valid = {} \/ ValidAt(path, facts) = {} \/ ValidAt(path, facts) = rule.valid
        BY <3>1 DEF CheckPath
      <3>3. ASSUME NEW url \in rule.url, NEW k \in DOMAIN sources, sources[k].url = url,
                   sources[k].roots # {}, \A j \in DOMAIN sources : sources[j].url = url => j = k
            PROVE  path.root \in sources[k].roots
        <4>1. Published(url, sources) = sources[k].roots
          BY <2>1, <3>3, PublishedByOne
        <4> QED BY <3>2, <3>3, <4>1
      <3>4. ASSUME NEW r \in Verified(facts), r.at # {}
            PROVE  rule.valid \subseteq {within}
        <4>1. ValidAt(path, facts) # {}
          BY <3>4, ValidAtEach
        <4>2. ValidAt(path, facts) = {within}
          BY <4>1, ValidAtEach
        <4> HIDE DEF within
        <4> QED BY <3>2, <4>1, <4>2
      <3> QED BY <3>2, <3>3, <3>4
    <2> QED BY <2>5, <2>6
  <1> QED BY <1>1, PolicyInvariant, PTL
-----------------------------------------------------------------------------
(* A run that establishes less about the same statement.                   *)
Less(f, g) == /\ f.protected \in {{}, g.protected} /\ f.payload \in {"Detached", g.payload}
              /\ f.document = g.document /\ f.leaf \in {{}, g.leaf}
              /\ f.chain = [kind |-> "NotRun"] \/ f.chain = g.chain
              /\ Verified(f) \in {{}, Verified(g)} /\ f.present = g.present

Weaker(x, y) == x \in {CannotEvaluate, y}

LEMMA WithheldIsLess ==
    ASSUME NEW g \in Statements, NEW f \in Withheld(g)
    PROVE  Less(f, g)
  <1>1. Facts(g) /\ \A k \in DOMAIN g.receipts : "verified" \in DOMAIN g.receipts[k]
    BY StatementsAssumption DEF ToSet
  <1>2. CASE f = Unverified(g)
    <2>1. /\ f.receipts = [k \in DOMAIN g.receipts |-> [g.receipts[k] EXCEPT !.verified = FALSE]]
          /\ SameBut(f, g) /\ f.present = g.present
      BY <1>1, <1>2 DEF Facts, Unverified, SameBut
    <2>2. \A k \in DOMAIN f.receipts : ~f.receipts[k].verified
      BY <1>1, <2>1
    <2>3. Verified(f) = {}
      BY <2>2 DEF Verified
    <2> QED BY <2>1, <2>3 DEF Less, SameBut
  <1>3. CASE f # Unverified(g)
    <2>1. f.receipts = g.receipts /\ f.present = g.present
      BY <1>1, <1>3 DEF Withheld, Facts
    <2>2. Verified(f) = Verified(g)
      BY <2>1 DEF Verified
    <2>3. /\ f.protected \in {{}, g.protected} /\ f.payload \in {"Detached", g.payload}
          /\ f.document = g.document /\ f.leaf \in {{}, g.leaf}
          /\ f.chain = [kind |-> "NotRun"] \/ f.chain = g.chain
      BY <1>1, <1>3 DEF Withheld, Facts
    <2> QED BY <2>1, <2>2, <2>3 DEF Less
  <1> QED BY <1>2, <1>3

LEMMA FewerTimes ==
    ASSUME NEW f, NEW g, Less(f, g)
    PROVE  /\ \A path : ValidAt(path, f) \in {{}, ValidAt(path, g)}
           /\ RegisteredAt(f) \in {{}, RegisteredAt(g)}
           /\ Issuers(f) \in {{}, Issuers(g)}
           /\ Weaker(KidBound(f), KidBound(g))
           /\ \A accepted : Weaker(Registered(f, accepted), Registered(g, accepted))
  <1>1. CASE Verified(f) = Verified(g)
    BY <1>1, TimesFromTheVerified DEF Weaker
  <1>2. CASE Verified(f) = {}
    <2>1. Times(f) = {} /\ Issuers(f) = {}
      BY <1>2 DEF Times, Issuers
    <2>2. RegisteredAt(f) = {} /\ \A path : ValidAt(path, f) = {}
      BY <2>1 DEF RegisteredAt, ValidAt
    <2>3. KidBound(f) = CannotEvaluate /\ \A accepted : Registered(f, accepted) = CannotEvaluate
      BY <1>2, <2>2 DEF KidBound, Registered, Answer
    <2> QED BY <2>1, <2>2, <2>3 DEF Weaker
  <1> QED BY <1>1, <1>2 DEF Less

LEMMA FewerClaims ==
    ASSUME NEW f, NEW g, Less(f, g)
    PROVE  /\ \A path, type : Claim(f, path, type) \in {{}, Claim(g, path, type)}
           /\ \A rule : Weaker(Header(rule, f), Header(rule, g))
           /\ \A rule : Weaker(PayloadClaim(rule, f), PayloadClaim(rule, g))
  <1>1. CASE f.protected = {}
    <2>1. \A path, type : Claim(f, path, type) = {}
      BY <1>1 DEF Claim
    <2>2. ~OffersJson(f)
      BY <1>1 DEF OffersJson
    <2> QED BY <1>1, <2>1, <2>2 DEF Header, PayloadClaim, Weaker
  <1>2. CASE f.protected = g.protected
    <2>1. OffersJson(f) => OffersJson(g)
      BY <1>2 DEF Less, OffersJson
    <2>2. \A path, type : Claim(f, path, type) = Claim(g, path, type)
      BY <1>2 DEF Claim
    <2>3. \A rule : Header(rule, f) = Header(rule, g)
      BY <1>2 DEF Header
    <2>4. \A rule : OffersJson(f) => PayloadClaim(rule, f) = PayloadClaim(rule, g)
      BY <2>1 DEF PayloadClaim, Less
    <2>5. \A rule : ~OffersJson(f) => PayloadClaim(rule, f) = CannotEvaluate
      BY DEF PayloadClaim
    <2> QED BY <2>2, <2>3, <2>4, <2>5 DEF Weaker
  <1> QED BY <1>1, <1>2 DEF Less

LEMMA FewerSources ==
    ASSUME NEW s, NEW u, u \in {s, <<>>}
    PROVE  \A url : Published(url, u) \in {{}, Published(url, s)}
  <1>1. \A url : Published(url, <<>>) = {}
    <2> TAKE url
    <2>1. {k \in DOMAIN <<>> : <<>>[k].url = url} = {} /\ Cardinality({}) # 1
      BY FS_EmptySet
    <2> QED BY <2>1 DEF Published
  <1> QED BY <1>1

LEMMA WeakerPath ==
    ASSUME NEW f, NEW g, Less(f, g), NEW s, NEW u, u \in {s, <<>>}, NEW rule, NEW path
    PROVE  Weaker(CheckPath(rule, path, f, u), CheckPath(rule, path, g, s))
  <1> DEFINE
        Listed(v)  == \A url \in rule.url :
                Published(url, v) = {} \/ path.root \in Published(url, v)
        Held(h)    == rule.valid = {} \/ ValidAt(path, h) = {} \/ ValidAt(path, h) = rule.valid
        Known(h, v) == /\ \A url \in rule.url : Published(url, v) # {}
                       /\ rule.valid = {} \/ ValidAt(path, h) # {}
        Ok(h, v)    == rule.pin \subseteq {path.root} /\ Listed(v) /\ Held(h)
  <1>1. \A h, v : CheckPath(rule, path, h, v) = IF ~Ok(h, v) THEN Fail
                                                ELSE IF Known(h, v) THEN Pass ELSE CannotEvaluate
    BY DEF CheckPath, Answer
  <1>2. \A url : Published(url, u) \in {{}, Published(url, s)}
    BY FewerSources
  <1>3. ValidAt(path, f) \in {{}, ValidAt(path, g)}
    BY FewerTimes
  <1>4. ~Ok(f, u) => ~Ok(g, s)
    BY <1>2, <1>3
  <1>5. Ok(f, u) /\ Known(f, u) => Ok(g, s) /\ Known(g, s)
    BY <1>2, <1>3
  <1> HIDE DEF Ok, Known
  <1> QED BY <1>1, <1>4, <1>5 DEF Weaker

LEMMA WeakerExternal ==
    ASSUME NEW f, NEW g, Less(f, g), NEW s, NEW u, u \in {s, <<>>}, NEW rule
    PROVE  Weaker(External(rule, f, u), External(rule, g, s))
  <1>1. ASSUME NEW node
        PROVE  /\ Weaker(CheckChain(rule, node, f, u), CheckChain(rule, node, g, s))
               /\ CheckChain(rule, node, g, s) \in Outcomes
    <2>1. Weaker(CheckPath(rule, node.chain, f, u), CheckPath(rule, node.chain, g, s))
      BY WeakerPath
    <2>2. CheckPath(rule, node.chain, g, s) \in Outcomes
      BY AnswerIsOutcome DEF CheckPath, Outcomes
    <2> QED BY <2>1, <2>2 DEF CheckChain, Weaker, Outcomes
  <1>2. ASSUME NEW node
        PROVE  Weaker(Signature(rule, node, f, u), Signature(rule, node, g, s))
    <2>1. Detached(rule, node, f) \in {"Unusable", Detached(rule, node, g)}
      BY DEF Less, Detached
    <2>2. CASE Detached(rule, node, f) = Detached(rule, node, g)
      BY <1>1, <2>2 DEF Signature, Weaker
    <2>3. CASE Detached(rule, node, f) = "Unusable"
      BY <1>1, <2>3, Distinct DEF Signature, Weaker, Outcomes
    <2> QED BY <2>1, <2>2, <2>3
  <1>3. CASE f.protected = {}
    BY <1>3 DEF External, Weaker
  <1>4. CASE f.protected = g.protected
    BY <1>2, <1>4 DEF External, Weaker
  <1> QED BY <1>3, <1>4 DEF Less

LEMMA WeakerChain ==
    ASSUME NEW f, NEW g, Less(f, g), NEW s, NEW u, u \in {s, <<>>}, NEW a
    PROVE  /\ f.chain = g.chain \/ f.chain.kind = "NotRun"
           /\ Weaker(Purpose(a, f), Purpose(a, g))
           /\ \A url : Weaker(RootFromHttps(url, f, u), RootFromHttps(url, g, s))
           /\ SigningTime(f) \in {{}, SigningTime(g)}
  <1>1. f.chain = g.chain \/ f.chain.kind = "NotRun"
    BY DEF Less
  <1>2. Weaker(Purpose(a, f), Purpose(a, g))
    BY <1>1 DEF Purpose, Weaker, Answer
  <1>3. ASSUME NEW url
        PROVE  Weaker(RootFromHttps(url, f, u), RootFromHttps(url, g, s))
    BY <1>1, FewerSources DEF RootFromHttps, Weaker, Answer
  <1>4. SigningTime(f) \in {{}, SigningTime(g)}
    BY <1>1, FewerTimes DEF SigningTime
  <1> QED BY <1>1, <1>2, <1>3, <1>4

LEMMA WeakerAnswers ==
    ASSUME NEW f, NEW g, Less(f, g), NEW s, NEW u, u \in {s, <<>>}, NEW a, NEW t,
           NEW name \in ToSet(Order)
    PROVE  \A i \in DOMAIN Answers(name, a, f, u, t) :
              Weaker(Answers(name, a, f, u, t)[i], Answers(name, a, g, s, t)[i])
  <1>1. \A known, k, h, j : (known => k /\ h = j) => Weaker(Answer(known, h), Answer(k, j))
    BY DEF Weaker, Answer
  <1>2. CASE name \in Lists
    <2>1. \A i \in DOMAIN a.protectedHeaders :
             Weaker(Header(a.protectedHeaders[i], f), Header(a.protectedHeaders[i], g))
      BY FewerClaims
    <2>2. \A i \in DOMAIN a.payloadJson :
             Weaker(PayloadClaim(a.payloadJson[i], f), PayloadClaim(a.payloadJson[i], g))
      BY FewerClaims
    <2>3. \A i \in DOMAIN a.externalSignatures :
             Weaker(External(a.externalSignatures[i], f, u),
                    External(a.externalSignatures[i], g, s))
      BY WeakerExternal
    <2>4. CASE name = "protectedHeaders"
      BY <2>1, <2>4 DEF Answers, Each
    <2>5. CASE name = "payloadJson"
      BY <2>2, <2>5 DEF Answers, Each
    <2>6. CASE name = "externalSignatures"
      BY <2>3, <2>6 DEF Answers, Each
    <2> QED BY <1>2, <2>4, <2>5, <2>6 DEF Lists
  <1>3. ASSUME NEW x, NEW y, Weaker(x, y), Answers(name, a, f, u, t) = <<x>>,
               Answers(name, a, g, s, t) = <<y>>
        PROVE  \A i \in DOMAIN Answers(name, a, f, u, t) :
                  Weaker(Answers(name, a, f, u, t)[i], Answers(name, a, g, s, t)[i])
    BY <1>3
  <1>4. CASE name = "issuer"
    <2> DEFINE told(h, v) == Answer(Issuers(h) # {}, Issuers(h) \cap a.issuer # {})
    <2>1. Weaker(told(f, u), told(g, s))
      BY FewerTimes DEF Answer, Weaker
    <2>2. Answers(name, a, f, u, t) = <<told(f, u)>> /\ Answers(name, a, g, s, t) = <<told(g, s)>>
      BY <1>4 DEF Answers
    <2> QED BY <2>1, <2>2, <1>3
  <1>5. CASE name = "statementSubject"
    <2> DEFINE told(h, v) == Answer(Claim(h, Subject, "Text") # {},
                                   Claim(h, Subject, "Text") \subseteq a.statementSubject)
    <2>1. Weaker(told(f, u), told(g, s))
      BY FewerClaims DEF Answer, Weaker
    <2>2. Answers(name, a, f, u, t) = <<told(f, u)>> /\ Answers(name, a, g, s, t) = <<told(g, s)>>
      BY <1>5 DEF Answers
    <2> QED BY <2>1, <2>2, <1>3
  <1>6. CASE name = "statementIssuer"
    <2> DEFINE told(h, v) == Answer(Claim(h, Issuer, "Text") # {},
                                   Claim(h, Issuer, "Text") \subseteq a.statementIssuer)
    <2>1. Weaker(told(f, u), told(g, s))
      BY FewerClaims DEF Answer, Weaker
    <2>2. Answers(name, a, f, u, t) = <<told(f, u)>> /\ Answers(name, a, g, s, t) = <<told(g, s)>>
      BY <1>6 DEF Answers
    <2> QED BY <2>1, <2>2, <1>3
  <1>7. CASE name = "signerSubjectContains"
    <2> DEFINE told(h, v) == Answer(h.leaf # {}, \A l \in h.leaf :
                                   a.signerSubjectContains \in l.subject)
    <2>1. Weaker(told(f, u), told(g, s))
      BY DEF Answer, Weaker, Less
    <2>2. Answers(name, a, f, u, t) = <<told(f, u)>> /\ Answers(name, a, g, s, t) = <<told(g, s)>>
      BY <1>7 DEF Answers
    <2> QED BY <2>1, <2>2, <1>3
  <1>8. CASE name = "signerIssuerContains"
    <2> DEFINE told(h, v) == Answer(h.leaf # {}, \A l \in h.leaf :
                                   a.signerIssuerContains \in l.issuer)
    <2>1. Weaker(told(f, u), told(g, s))
      BY DEF Answer, Weaker, Less
    <2>2. Answers(name, a, f, u, t) = <<told(f, u)>> /\ Answers(name, a, g, s, t) = <<told(g, s)>>
      BY <1>8 DEF Answers
    <2> QED BY <2>1, <2>2, <1>3
  <1>9. CASE name = "certificateChainValidated"
    <2> DEFINE told(h, v) == Answer(Decided(h),
            (h.chain.kind = "Valid") = a.certificateChainValidated)
    <2>1. Weaker(told(f, u), told(g, s))
      BY WeakerChain DEF Answer, Weaker, Decided
    <2>2. Answers(name, a, f, u, t) = <<told(f, u)>> /\ Answers(name, a, g, s, t) = <<told(g, s)>>
      BY <1>9 DEF Answers
    <2> QED BY <2>1, <2>2, <1>3
  <1>10. CASE name = "requireChainToRootSha256"
    <2> DEFINE told(h, v) == Answer(Decided(h), h.chain.kind = "Valid"
                                   /\ h.chain.root = a.requireChainToRootSha256)
    <2>1. Weaker(told(f, u), told(g, s))
      BY WeakerChain DEF Answer, Weaker, Decided
    <2>2. Answers(name, a, f, u, t) = <<told(f, u)>> /\ Answers(name, a, g, s, t) = <<told(g, s)>>
      BY <1>10 DEF Answers
    <2> QED BY <2>1, <2>2, <1>3
  <1>11. CASE name = "requireChainToRootFromHttps"
    <2> DEFINE told(h, v) == RootFromHttps(a.requireChainToRootFromHttps, h, v)
    <2>1. Weaker(told(f, u), told(g, s))
      BY WeakerChain
    <2>2. Answers(name, a, f, u, t) = <<told(f, u)>> /\ Answers(name, a, g, s, t) = <<told(g, s)>>
      BY <1>11 DEF Answers
    <2> QED BY <2>1, <2>2, <1>3
  <1>12. CASE name = "requireEku"
    <2> DEFINE told(h, v) == Purpose(a, h)
    <2>1. Weaker(told(f, u), told(g, s))
      BY WeakerChain
    <2>2. Answers(name, a, f, u, t) = <<told(f, u)>> /\ Answers(name, a, g, s, t) = <<told(g, s)>>
      BY <1>12 DEF Answers
    <2> QED BY <2>1, <2>2, <1>3
  <1>13. CASE name = "certificateValidAtSigningTime"
    <2> DEFINE told(h, v) == Answer(SigningTime(h) # {},
            SigningTime(h) = {a.certificateValidAtSigningTime})
    <2>1. Weaker(told(f, u), told(g, s))
      BY WeakerChain DEF Answer, Weaker
    <2>2. Answers(name, a, f, u, t) = <<told(f, u)>> /\ Answers(name, a, g, s, t) = <<told(g, s)>>
      BY <1>13 DEF Answers
    <2> QED BY <2>1, <2>2, <1>3
  <1>14. CASE name = "receiptCount"
    <2> DEFINE told(h, v) == Answer(TRUE, h.present = a.receiptCount)
    <2>1. Weaker(told(f, u), told(g, s))
      BY DEF Answer, Weaker, Less
    <2>2. Answers(name, a, f, u, t) = <<told(f, u)>> /\ Answers(name, a, g, s, t) = <<told(g, s)>>
      BY <1>14 DEF Answers
    <2> QED BY <2>1, <2>2, <1>3
  <1>15. CASE name = "registeredAfter"
    <2> DEFINE told(h, v) == Registered(h, {x \in Int : x >= a.registeredAfter})
    <2>1. Weaker(told(f, u), told(g, s))
      BY FewerTimes
    <2>2. Answers(name, a, f, u, t) = <<told(f, u)>> /\ Answers(name, a, g, s, t) = <<told(g, s)>>
      BY <1>15 DEF Answers
    <2> QED BY <2>1, <2>2, <1>3
  <1>16. CASE name = "registeredBefore"
    <2> DEFINE told(h, v) == Registered(h, {x \in Int : x <= a.registeredBefore})
    <2>1. Weaker(told(f, u), told(g, s))
      BY FewerTimes
    <2>2. Answers(name, a, f, u, t) = <<told(f, u)>> /\ Answers(name, a, g, s, t) = <<told(g, s)>>
      BY <1>16 DEF Answers
    <2> QED BY <2>1, <2>2, <1>3
  <1>17. CASE name = "maxAgeDays"
    <2> DEFINE told(h, v) == Registered(h, {x \in Int : x >= Cutoff(a.maxAgeDays, t)})
    <2>1. Weaker(told(f, u), told(g, s))
      BY FewerTimes
    <2>2. Answers(name, a, f, u, t) = <<told(f, u)>> /\ Answers(name, a, g, s, t) = <<told(g, s)>>
      BY <1>17 DEF Answers
    <2> QED BY <2>1, <2>2, <1>3
  <1>18. CASE name = "minSvn"
    <2> DEFINE told(h, v) == Answer(Claim(h, Svn, "Int") # {}, \A x \in Claim(h, Svn, "Int") :
                                   x >= a.minSvn)
    <2>1. Weaker(told(f, u), told(g, s))
      BY FewerClaims DEF Answer, Weaker
    <2>2. Answers(name, a, f, u, t) = <<told(f, u)>> /\ Answers(name, a, g, s, t) = <<told(g, s)>>
      BY <1>18 DEF Answers
    <2> QED BY <2>1, <2>2, <1>3
  <1>19. CASE name = "requireKidBoundToKey"
    <2>1. CASE a.requireKidBoundToKey
      <3>1. /\ Answers(name, a, f, u, t) = <<KidBound(f)>>
            /\ Answers(name, a, g, s, t) = <<KidBound(g)>>
        BY <1>19, <2>1 DEF Answers
      <3> QED BY <1>3, <3>1, FewerTimes
    <2>2. CASE ~a.requireKidBoundToKey
      <3>1. Answers(name, a, f, u, t) = <<>>
        BY <1>19, <2>2 DEF Answers
      <3> QED BY <3>1
    <2> QED BY <2>1, <2>2
  <1> QED BY <1>2, <1>4, <1>5, <1>6, <1>7, <1>8, <1>9, <1>10, <1>11, <1>12, <1>13, <1>14,
          <1>15, <1>16, <1>17, <1>18, <1>19, TheOrder

(* "I did not look" is neither a pass nor a failure: with receipts not     *)
(* verified, the chain not examined, a header, a leaf, a payload or the    *)
(* root sources missing, a rule is answered as before or not at all.       *)
THEOREM WithheldDecidesNoMore == Spec => []LessKnownDecidesNoMore
  <1>1. PolicyInv => LessKnownDecidesNoMore
    <2> SUFFICES ASSUME PolicyInv, NEW n \in Asking, NEW f \in Withheld(facts),
                        NEW s \in {sources, <<>>}
                 PROVE  \A i \in DOMAIN Told(n, f, s) :
                           Told(n, f, s)[i] \in {CannotEvaluate, Told(n, facts, sources)[i]}
      BY DEF LessKnownDecidesNoMore
    <2>1. Less(f, facts)
      BY WithheldIsLess DEF PolicyInv, Typed
    <2>2. n \in ToSet(Order)
      <3>1. PICK i \in Upcoming : n = Order[i]
        BY DEF Asking
      <3>2. i \in DOMAIN Order
        BY OrderIsSeq DEF Upcoming, PolicyInv, Typed
      <3> QED BY <3>1, <3>2 DEF ToSet
    <2>3. \A i \in DOMAIN Answers(n, policy.assertions, f, s, now) :
             Weaker(Answers(n, policy.assertions, f, s, now)[i],
                    Answers(n, policy.assertions, facts, sources, now)[i])
      BY <2>1, <2>2, WeakerAnswers
    <2> QED BY <2>3 DEF Told, Weaker
  <1> QED BY <1>1, PolicyInvariant, PTL
-----------------------------------------------------------------------------
(* Arithmetic of i64: a wrapped number has the width, and is the number up *)
(* to a multiple of the number of values.                                  *)
LEMMA WrapIsCongruent ==
    ASSUME NEW x \in Int
    PROVE  Wrap(x) \in I64 /\ \E k \in Int : Wrap(x) = x + (2 * Half) * k
  <1>1. PICK d \in Nat \ {0} : d = 2 * Half
    BY WidthAssumption
  <1> DEFINE y == x + Half
  <1>2. y \in Int /\ Half \in Int
    BY WidthAssumption
  <1>3. y % d \in 0..(d - 1) /\ y = d * (y \div d) + (y % d) /\ y \div d \in Int
    <2> HIDE DEF y
    <2> QED BY <1>2
  <1>4. Wrap(x) = (y % d) - Half
    BY <1>1 DEF Wrap
  <1>5. Wrap(x) \in I64
    <2> HIDE DEF y
    <2> QED BY <1>1, <1>2, <1>3, <1>4 DEF I64
  <1>6. Wrap(x) = x + d * (-(y \div d)) /\ -(y \div d) \in Int
    <2>1. PICK q \in Int : q = y \div d
      BY <1>3
    <2>2. d * (-q) = -(d * q)
      OBVIOUS
    <2>3. x = d * q + (y % d) - Half
      <3> DEFINE m == y % d
      <3>1. x + Half = d * q + m /\ m \in Int /\ d * q \in Int
        <4>1. y = d * (y \div d) + m /\ m \in Int
          BY <1>3
        <4> QED BY <2>1, <4>1
      <3> HIDE DEF m
      <3>2. x = d * q + m - Half
        BY <1>2, <3>1
      <3> QED BY <3>2 DEF m
    <2>4. y % d \in Int
      BY <1>3
    <2> HIDE DEF y
    <2> QED BY <1>2, <1>4, <2>1, <2>2, <2>3, <2>4
  <1> QED BY <1>1, <1>5, <1>6

(* The cutoff of maxAgeDays is the instant that many days before now, or   *)
(* that instant is before any time there is.                               *)
LEMMA CutoffIsTheAge ==
    ASSUME NEW t \in I64, NEW days \in Nat
    PROVE  \/ Cutoff(days, t) = t - days * Day
           \/ \A u \in I64 : t - days * Day <= u
  <1> DEFINE m == 2 * Half
             b == t - days * Day
             w == Wrap(days * Day)
  <1>1. /\ Half \in Nat \ {0} /\ m \in Nat /\ m = 2 * Half /\ t \in Int
        /\ days * Day \in Nat /\ b \in Int /\ b < Half
    <2>1. Half \in Nat \ {0} /\ Day \in Nat /\ t \in Int /\ t < Half
      BY WidthAssumption DEF I64
    <2>2. days * Day \in Nat
      BY <2>1
    <2> QED BY <2>1, <2>2
  <1>2. PICK k \in Int : w \in I64 /\ w = days * Day + m * k
    <2>1. PICK age \in Int : age = days * Day
      BY <1>1
    <2>2. Wrap(age) \in I64 /\ \E k \in Int : Wrap(age) = age + (2 * Half) * k
      BY WrapIsCongruent
    <2>3. w = Wrap(age)
      BY <2>1
    <2> HIDE DEF w, b
    <2> QED BY <2>1, <2>2, <2>3
  <1>3. w \in Int
    BY <1>1, <1>2 DEF I64
  <1>4. PICK j \in Int : Cutoff(days, t) \in I64 /\ Cutoff(days, t) = (t - w) + m * j
    <2>1. PICK x \in Int : x = t - w
      BY <1>1, <1>3
    <2>2. Wrap(x) \in I64 /\ \E j \in Int : Wrap(x) = x + (2 * Half) * j
      BY WrapIsCongruent
    <2>3. Cutoff(days, t) = Wrap(x)
      BY <2>1 DEF Cutoff
    <2> HIDE DEF w, b
    <2> QED BY <2>1, <2>2, <2>3
  <1>5. Cutoff(days, t) = b + m * (j - k)
    <2>1. m * (j - k) = m * j - m * k /\ m * j \in Int /\ m * k \in Int
      BY <1>1
    <2>2. b = t - days * Day
      OBVIOUS
    <2> HIDE DEF m, b, w
    <2> QED BY <1>1, <1>2, <1>3, <1>4, <2>1, <2>2
  <1>6. CASE b < -Half
    BY <1>1, <1>6 DEF I64
  <1>7. CASE -Half <= b
    <2>1. PICK i \in Int : i = j - k
      OBVIOUS
    <2>2. Cutoff(days, t) = b + m * i /\ Cutoff(days, t) \in Int
          /\ -Half <= Cutoff(days, t) /\ Cutoff(days, t) < Half
      BY <1>1, <1>4, <1>5, <2>1 DEF I64
    <2> DEFINE c == Cutoff(days, t)
    <2>3. c = b
      <3> HIDE DEF m, b, c
      <3>1. i <= -1 => m * i <= -m
        BY <1>1
      <3>2. i >= 1 => m * i >= m
        BY <1>1
      <3>3. i = 0 => m * i = 0
        BY <1>1
      <3>4. m * i \in Int
        BY <1>1
      <3>5. c = b + m * i /\ c \in Int /\ -Half <= c /\ c < Half
        BY <2>2 DEF c
      <3>6. PICK z \in Int : z = m * i
        BY <3>4
      <3> QED BY <1>1, <1>7, <3>1, <3>2, <3>3, <3>5, <3>6
    <2> QED BY <2>3
  <1> QED BY <1>1, <1>6, <1>7

(* What Registered accepts holds of every time that a ledger attests.      *)
LEMMA RegisteredByAll ==
    ASSUME NEW f \in Statements, NEW b \in Int, Registered(f, {x \in Int : x >= b}) = Pass
    PROVE  Times(f) # {} /\ Times(f) \subseteq I64 /\ \A u \in Times(f) : b <= u
  <1>1. RegisteredAt(f) # {} /\ RegisteredAt(f) \subseteq {x \in Int : x >= b}
    BY Distinct DEF Registered, Answer
  <1>2. PICK t \in Times(f) : b <= t /\ t \in Int /\ \A u \in Times(f) : t <= u
    BY <1>1 DEF RegisteredAt
  <1>3. Times(f) \subseteq I64
    <2>1. \A r \in Verified(f) : r \in ToSet(f.receipts)
      BY DEF Verified, ToSet
    <2> QED BY <2>1, TimesAssumption DEF Times
  <1>4. I64 \subseteq Int
    BY WidthAssumption DEF I64
  <1> QED BY <1>2, <1>3, <1>4

(* registeredAfter and maxAgeDays hold of every ledger that registered the *)
(* statement, at any width of the integers and for any number of days.     *)
THEOREM RecentEverywhere == Spec => []RecentByEveryLedger
  <1>1. PolicyInv => RecentByEveryLedger
    <2> SUFFICES ASSUME PolicyInv PROVE RecentByEveryLedger
      OBVIOUS
    <2> DEFINE a       == policy.assertions
               From(b) == Times(facts) # {} /\ \A r \in Verified(facts) : \A t \in r.at : b <= t
    <2>1. facts \in Statements /\ policy \in Policies /\ now \in I64
      BY TimesAssumption DEF PolicyInv, Typed
    <2>2. I64 \subseteq Int
      BY WidthAssumption DEF I64
    <2>3. ASSUME NEW b \in Int, Times(facts) # {}, \A u \in Times(facts) : b <= u
          PROVE  From(b)
      BY <2>3 DEF Times
    <2>4. ASSUME Passed("registeredAfter") PROVE From(a.registeredAfter)
      <3> DEFINE o == Registered(facts, {x \in Int : x >= a.registeredAfter})
      <3>1. "registeredAfter" \in ToSet(Order)
        BY TheOrder
      <3>2. Answers("registeredAfter", a, facts, sources, now) = <<o>>
        BY DEF Answers
      <3>3. o = Pass
        <4> HIDE DEF o
        <4> QED BY <2>4, <3>1, <3>2, SingleIsPass
      <3>4. a.registeredAfter \in Int
        BY <2>1, <2>2, <2>4, <3>1, PassedIsGiven, TimesAssumption DEF Requested
      <3>5. Times(facts) # {} /\ \A u \in Times(facts) : a.registeredAfter <= u
        BY <2>1, <3>3, <3>4, RegisteredByAll
      <3> HIDE DEF From
      <3> QED BY <2>3, <3>4, <3>5
    <2>5. ASSUME Passed("maxAgeDays"), a.maxAgeDays >= 0
          PROVE  From(now - a.maxAgeDays * Day)
      <3> DEFINE cut == Cutoff(a.maxAgeDays, now)
                 b   == now - a.maxAgeDays * Day
                 o   == Registered(facts, {x \in Int : x >= cut})
      <3>1. "maxAgeDays" \in ToSet(Order)
        BY TheOrder
      <3>2. Answers("maxAgeDays", a, facts, sources, now) = <<o>>
        BY DEF Answers
      <3>3. o = Pass
        <4> HIDE DEF o
        <4> QED BY <2>5, <3>1, <3>2, SingleIsPass
      <3>4. a.maxAgeDays \in I64
        BY <2>1, <2>5, <3>1, PassedIsGiven, TimesAssumption DEF Requested
      <3>5. a.maxAgeDays \in Nat
        <4>1. a.maxAgeDays \in Int
          BY <2>2, <3>4
        <4> QED BY <2>5, <4>1
      <3>6. b \in Int /\ cut \in Int
        <4>1. Day \in Nat /\ now \in Int
          BY <2>1, <2>2, WidthAssumption
        <4>2. a.maxAgeDays * Day \in Int
          BY <3>5, <4>1
        <4>3. Wrap(a.maxAgeDays * Day) \in Int
          BY <2>2, <4>2, WrapIsCongruent
        <4>4. now - Wrap(a.maxAgeDays * Day) \in Int
          BY <4>1, <4>3
        <4>5. cut \in Int
          BY <2>2, <4>4, WrapIsCongruent DEF Cutoff
        <4> QED BY <4>1, <4>2, <4>5
      <3>7. Times(facts) # {} /\ Times(facts) \subseteq I64 /\ \A u \in Times(facts) : cut <= u
        <4> HIDE DEF cut
        <4> QED BY <2>1, <3>3, <3>6, RegisteredByAll
      <3>8. cut = b \/ \A u \in I64 : b <= u
        BY <2>1, <3>5, CutoffIsTheAge
      <3> HIDE DEF From, cut, b
      <3>9. \A u \in Times(facts) : b <= u
        BY <3>7, <3>8
      <3> QED BY <2>3, <3>6, <3>7, <3>9 DEF b
    <2> QED BY <2>4, <2>5 DEF RecentByEveryLedger
  <1> QED BY <1>1, PolicyInvariant, PTL
-----------------------------------------------------------------------------
(* Following a path, step by step, and what every reader makes of the same *)
(* steps: both are functions on the prefixes of the path.                  *)
Followed(root, path, n, at) ==
    at = [k \in 0..n |->
             IF k = 0 THEN At(root)
             ELSE IF at[k - 1].kind = "Node" THEN Descend(at[k - 1].node, path[k]) ELSE at[k - 1]]

Read(root, path, n, nodes) ==
    nodes = [k \in 0..n |->
                IF k = 0 THEN {root} ELSE UNION {Below(m, path[k]) : m \in nodes[k - 1]}]

LEMMA FollowedExists ==
    ASSUME NEW root, NEW path, NEW n \in Nat
    PROVE  \E at : Followed(root, path, n, at)
  <1> DEFINE T == {i \in Nat : ~ \E at : Followed(root, path, i, at)}
  <1> SUFFICES ASSUME T # {} PROVE FALSE
    OBVIOUS
  <1>1. PICK i \in T : \A j \in T : i <= j
    <2>1. T \in SUBSET Nat
      OBVIOUS
    <2> HIDE DEF T
    <2> QED BY <2>1, LeastOf
  <1>2. i # 0
    <2>1. Followed(root, path, 0, [k \in 0..0 |-> At(root)])
      BY DEF Followed
    <2> QED BY <1>1, <2>1
  <1>3. i \in Nat /\ (i - 1) \in Nat /\ (i - 1) \notin T
    BY <1>1, <1>2
  <1>4. PICK f : Followed(root, path, i - 1, f)
    BY <1>3
  <1> DEFINE g == [k \in 0..i |-> IF k < i THEN f[k]
                     ELSE IF f[k - 1].kind = "Node" THEN Descend(f[k - 1].node, path[k])
                          ELSE f[k - 1]]
  <1>5. \A k \in 0..(i - 1) :
           f[k] = IF k = 0 THEN At(root)
                  ELSE IF f[k - 1].kind = "Node" THEN Descend(f[k - 1].node, path[k])
                       ELSE f[k - 1]
    <2> HIDE DEF T
    <2> QED BY <1>4 DEF Followed
  <1>6. \A k \in 0..i : k # 0 => g[k - 1] = f[k - 1]
    <2> HIDE DEF T
    <2> QED BY <1>3
  <1>7. \A k \in 0..i :
           g[k] = IF k = 0 THEN At(root)
                  ELSE IF g[k - 1].kind = "Node" THEN Descend(g[k - 1].node, path[k])
                       ELSE g[k - 1]
    <2> TAKE k \in 0..i
    <2>1. CASE k < i
      <3>1. g[k] = f[k] /\ k \in 0..(i - 1)
        BY <1>3, <2>1
      <3> HIDE DEF g, T
      <3> QED BY <1>5, <1>6, <3>1
    <2>2. CASE k = i
      <3>1. g[k] = IF f[k - 1].kind = "Node" THEN Descend(f[k - 1].node, path[k]) ELSE f[k - 1]
        BY <1>3, <2>2
      <3> HIDE DEF g, T
      <3> QED BY <1>2, <1>6, <2>2, <3>1
    <2> HIDE DEF g, T
    <2> QED BY <1>3, <2>1, <2>2
  <1>8. Followed(root, path, i, g)
    <2>1. g = [k \in 0..i |-> g[k]]
      OBVIOUS
    <2> HIDE DEF g, T
    <2> QED BY <1>7, <2>1 DEF Followed
  <1> QED BY <1>1, <1>8

LEMMA ReadExists ==
    ASSUME NEW root, NEW path, NEW n \in Nat
    PROVE  \E nodes : Read(root, path, n, nodes)
  <1> DEFINE T == {i \in Nat : ~ \E nodes : Read(root, path, i, nodes)}
  <1> SUFFICES ASSUME T # {} PROVE FALSE
    OBVIOUS
  <1>1. PICK i \in T : \A j \in T : i <= j
    <2>1. T \in SUBSET Nat
      OBVIOUS
    <2> HIDE DEF T
    <2> QED BY <2>1, LeastOf
  <1>2. i # 0
    <2>1. Read(root, path, 0, [k \in 0..0 |-> {root}])
      BY DEF Read
    <2> QED BY <1>1, <2>1
  <1>3. i \in Nat /\ (i - 1) \in Nat /\ (i - 1) \notin T
    BY <1>1, <1>2
  <1>4. PICK f : Read(root, path, i - 1, f)
    BY <1>3
  <1> DEFINE g == [k \in 0..i |-> IF k < i THEN f[k]
                                  ELSE UNION {Below(m, path[k]) : m \in f[k - 1]}]
  <1>5. \A k \in 0..(i - 1) :
           f[k] = IF k = 0 THEN {root} ELSE UNION {Below(m, path[k]) : m \in f[k - 1]}
    <2> HIDE DEF T
    <2> QED BY <1>4 DEF Read
  <1>6. \A k \in 0..i : k # 0 => g[k - 1] = f[k - 1]
    <2> HIDE DEF T
    <2> QED BY <1>3
  <1>7. \A k \in 0..i :
           g[k] = IF k = 0 THEN {root} ELSE UNION {Below(m, path[k]) : m \in g[k - 1]}
    <2> TAKE k \in 0..i
    <2>1. CASE k < i
      <3>1. g[k] = f[k] /\ k \in 0..(i - 1)
        BY <1>3, <2>1
      <3> HIDE DEF g, T
      <3> QED BY <1>5, <1>6, <3>1
    <2>2. CASE k = i
      <3>1. g[k] = UNION {Below(m, path[k]) : m \in f[k - 1]}
        BY <1>3, <2>2
      <3> HIDE DEF g, T
      <3> QED BY <1>2, <1>6, <2>2, <3>1
    <2> HIDE DEF g, T
    <2> QED BY <1>3, <2>1, <2>2
  <1>8. Read(root, path, i, g)
    <2>1. g = [k \in 0..i |-> g[k]]
      OBVIOUS
    <2> HIDE DEF g, T
    <2> QED BY <1>7, <2>1 DEF Read
  <1> QED BY <1>1, <1>8

(* A step of the resolver is the step of every reader, or is refused.      *)
Agrees(at, nodes) == \/ at = Unsound
                     \/ at = Nowhere /\ nodes = {}
                     \/ \E m : at = At(m) /\ nodes = {m}

LEMMA DescendAgrees ==
    ASSUME NEW node, NEW label
    PROVE  Agrees(Descend(node, label), Below(node, label))
  <1>1. CASE node.type = "Map"
    <2> DEFINE found == Members(node, label)
    <2>1. CASE found = {}
      BY <1>1, <2>1 DEF Agrees, Descend, Below
    <2>2. CASE found # {} /\ \A i, j \in found : i = j
      <3> DEFINE i == CHOOSE i \in found : TRUE
      <3>1. found = {i}
        BY <2>2
      <3>2. Descend(node, label) = At(node.entries[i].value)
        BY <1>1, <2>2 DEF Descend
      <3>3. Below(node, label) = {node.entries[i].value}
        <4> HIDE DEF i
        <4> QED BY <1>1, <3>1 DEF Below
      <3> QED BY <3>2, <3>3 DEF Agrees
    <2>3. CASE ~(\A i, j \in found : i = j)
      BY <1>1, <2>3 DEF Agrees, Descend
    <2> QED BY <2>1, <2>2, <2>3
  <1>2. CASE node.type # "Map" /\ node.type = "Array"
    <2>1. Descend(node, label) = Item(node, label)
      BY <1>2 DEF Descend
    <2>2. Below(node, label) = IF Item(node, label).kind = "Node"
                               THEN {Item(node, label).node} ELSE {}
      BY <1>2 DEF Below
    <2>3. \/ Item(node, label) = Unsound \/ Item(node, label) = Nowhere
          \/ \E m : Item(node, label) = At(m)
      BY DEF Item
    <2> QED BY <2>1, <2>2, <2>3 DEF Agrees, At, Nowhere, Unsound
  <1>3. CASE node.type # "Map" /\ node.type # "Array"
    BY <1>3 DEF Agrees, Descend
  <1> QED BY <1>1, <1>2, <1>3

(* The path that resolves is the only way to read the bytes.               *)
LEMMA ResolveAgrees ==
    ASSUME NEW root, NEW path, Len(path) \in Nat
    PROVE  Agrees(Resolve(root, path), Readings(root, path))
  <1> DEFINE n     == Len(path)
             at    == CHOOSE f : Followed(root, path, n, f)
             nodes == CHOOSE f : Read(root, path, n, f)
  <1>1. Followed(root, path, n, at) /\ Read(root, path, n, nodes)
    BY FollowedExists, ReadExists
  <1>2. Resolve(root, path) = at[n] /\ Readings(root, path) = nodes[n]
    BY DEF Resolve, Follow, Readings, Followed, Read
  <1> HIDE DEF at, nodes
  <1>3. \A k \in 0..n :
           /\ at[k] = IF k = 0 THEN At(root)
                      ELSE IF at[k - 1].kind = "Node" THEN Descend(at[k - 1].node, path[k])
                           ELSE at[k - 1]
           /\ nodes[k] = IF k = 0 THEN {root}
                         ELSE UNION {Below(m, path[k]) : m \in nodes[k - 1]}
    <2> HIDE DEF n
    <2> QED BY <1>1 DEF Followed, Read
  <1> DEFINE T == {k \in 0..n : ~Agrees(at[k], nodes[k])}
  <1>4. T = {}
    <2> SUFFICES ASSUME T # {} PROVE FALSE
      OBVIOUS
    <2>1. PICK k \in T : \A j \in T : k <= j
      <3>1. T \in SUBSET Nat
        OBVIOUS
      <3> HIDE DEF T
      <3> QED BY <3>1, LeastOf
    <2>2. k \in 0..n /\ ~Agrees(at[k], nodes[k])
      BY <2>1
    <2>3. k # 0
      <3>1. Agrees(At(root), {root})
        BY DEF Agrees
      <3> QED BY <1>3, <2>2, <3>1
    <2>4. Agrees(at[k - 1], nodes[k - 1])
      <3>1. (k - 1) \in 0..n /\ ~(k <= k - 1)
        BY <2>2, <2>3
      <3> QED BY <2>1, <3>1
    <2>5. /\ at[k] = IF at[k - 1].kind = "Node" THEN Descend(at[k - 1].node, path[k])
                     ELSE at[k - 1]
          /\ nodes[k] = UNION {Below(m, path[k]) : m \in nodes[k - 1]}
      <3> HIDE DEF T, n
      <3> QED BY <1>3, <2>2, <2>3
    <2> HIDE DEF T, n
    <2>6. CASE at[k - 1] = Unsound
      <3>1. at[k - 1].kind = "Error"
        BY <2>6 DEF Unsound
      <3>2. at[k] = Unsound
        BY <2>5, <2>6, <3>1
      <3> QED BY <2>2, <3>2 DEF Agrees
    <2>7. CASE at[k - 1] = Nowhere /\ nodes[k - 1] = {}
      <3>1. at[k] = Nowhere /\ nodes[k] = {}
        <4>1. at[k - 1].kind = "None"
          BY <2>7 DEF Nowhere
        <4> QED BY <2>5, <2>7, <4>1
      <3> QED BY <2>2, <3>1 DEF Agrees
    <2>8. ASSUME NEW m, at[k - 1] = At(m), nodes[k - 1] = {m} PROVE FALSE
      <3>1. at[k] = Descend(m, path[k])
        <4>1. at[k - 1].kind = "Node" /\ at[k - 1].node = m
          BY <2>8 DEF At
        <4> QED BY <2>5, <4>1
      <3>2. nodes[k] = Below(m, path[k])
        BY <2>5, <2>8
      <3> QED BY <2>2, <3>1, <3>2, DescendAgrees
    <2> QED BY <2>4, <2>6, <2>7, <2>8 DEF Agrees
  <1> QED BY <1>2, <1>4

(* A header rule passes only on what every reader of the signed bytes      *)
(* finds at its path, however deep the path and whatever the header.       *)
THEOREM EveryoneReadsTheSame == Spec => []HeadersReadAlike
  <1>1. PolicyInv => HeadersReadAlike
    <2> DEFINE name == "protectedHeaders"
    <2> SUFFICES ASSUME PolicyInv, Passed(name), Satisfied,
                        NEW i \in DOMAIN policy.assertions.protectedHeaders,
                        NEW root \in facts.protected
                 PROVE
        LET rule == policy.assertions.protectedHeaders[i]
            m    == Matcher(rule)
            all  == Readings(root, rule.path)
        IN  IF m.kind = "exists" THEN m.wanted = (all # {})
            ELSE all # {} /\ \A x \in all : Matches(m, x)
      BY DEF HeadersReadAlike
    <2> DEFINE rules == policy.assertions.protectedHeaders
               rule  == rules[i]
               m     == Matcher(rule)
               all   == Readings(root, rule.path)
               at    == Resolve(root, rule.path)
    <2>1. name \in ToSet(Order) \cap Lists
      BY TheOrder DEF Lists
    <2>2. /\ stage = "Done" /\ Requested(policy.assertions, name)
          /\ facts \in Statements /\ policy \in Policies
      BY <2>1, PassedIsGiven DEF PolicyInv, Typed
    <2>3. root = CHOOSE r \in facts.protected : TRUE
      BY <2>2, StatementsAssumption
    <2>4. rule.path \in Seq(ToSet(rule.path))
      <3>1. name \in DOMAIN policy.assertions /\ rule \in ToSet(policy.assertions[name])
        BY <2>2 DEF Requested, ToSet
      <3> QED BY <2>1, <2>2, <3>1, PoliciesAssumption
    <2>5. Answers(name, policy.assertions, facts, sources, now)
             = [j \in DOMAIN rules |-> Header(rules[j], facts)]
      BY DEF Answers, Each
    <2>6. Header(rule, facts) = Pass
      <3> HIDE DEF name
      <3> QED BY <2>1, <2>2, <2>5, SatisfiedIsGiven
    <2>7. Evaluated(m, at) = Pass
      <3> HIDE DEF m, at
      <3> QED BY <2>3, <2>6 DEF Header, m, at
    <2>8. Agrees(at, all)
      BY <2>4, ResolveAgrees
    <2> HIDE DEF m, at, all
    <2>9. at # Unsound
      <3> SUFFICES ASSUME at = Unsound PROVE FALSE
        OBVIOUS
      <3>1. at.kind = "Error"
        BY DEF Unsound
      <3> QED BY <2>7, <3>1, Distinct DEF Evaluated
    <2>10. CASE m.kind = "exists"
      <3>1. (at.kind = "Node") = m.wanted
        BY <2>7, <2>9, <2>10, Distinct DEF Evaluated, Answer
      <3>2. (at.kind = "Node") <=> all # {}
        BY <2>8, <2>9 DEF Agrees, At, Nowhere
      <3> QED BY <2>10, <3>1, <3>2 DEF all, m
    <2>11. CASE m.kind # "exists"
      <3>1. at.kind = "Node" /\ Matches(m, at.node)
        BY <2>7, <2>9, <2>11, Distinct DEF Evaluated, Answer
      <3>2. all = {at.node}
        BY <2>8, <2>9, <3>1 DEF Agrees, At, Nowhere
      <3> QED BY <2>11, <3>1, <3>2 DEF all, m
    <2> QED BY <2>10, <2>11
  <1> QED BY <1>1, PolicyInvariant, PTL
=============================================================================
