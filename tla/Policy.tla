------------------------------- MODULE Policy -------------------------------
(***************************************************************************)
(* The relying party's policy: scitt-policy, from the document             *)
(* (Policy::from_json) to one answer per assertion over the facts of a     *)
(* statement and the root sources that were acquired.  An assertion that   *)
(* is absent is no field of the record of assertions; a fact that is       *)
(* absent is the empty set where a known one is a singleton.               *)
(***************************************************************************)
EXTENDS Integers, SequencesExt

CONSTANTS
    Policies,      \* documents that deserialise
    Statements,    \* what verification and the files report of a statement
    SourceLists,   \* the root sources that a caller hands over
    Clocks,        \* the values of now
    Receipts,      \* receipts that anyone may append to a statement
    JsonTypes,     \* content types that declares_json accepts
    MaxDepth,      \* MAX_HEADER_PATH_DEPTH
    Half, Day      \* half the values of an i64, which is 2^63, and the seconds of a day

(* A statement has these facts, whatever they are; a document that names   *)
(* an unknown assertion does not deserialise (deny_unknown_fields).        *)
Facts(f) == f = [protected |-> f.protected, payload |-> f.payload, document |-> f.document,
                 leaf |-> f.leaf, chain |-> f.chain, receipts |-> f.receipts,
                 present |-> f.present]

Order == <<"issuer", "statementSubject", "statementIssuer", "protectedHeaders", "payloadJson",
           "externalSignatures", "signerSubjectContains", "signerIssuerContains",
           "certificateChainValidated", "requireChainToRootSha256",
           "requireChainToRootFromHttps", "requireEku", "certificateValidAtSigningTime",
           "receiptCount", "registeredAfter", "registeredBefore", "maxAgeDays", "minSvn",
           "requireKidBoundToKey">>

Lists == {"protectedHeaders", "payloadJson", "externalSignatures"}

ASSUME StatementsAssumption ==
    \A f \in Statements : /\ Facts(f) /\ \A r, q \in f.protected : r = q
                          /\ f.receipts \in Seq(ToSet(f.receipts))
                          /\ \A r \in ToSet(f.receipts) : "verified" \in DOMAIN r
ASSUME PoliciesAssumption ==
    \A p \in Policies :
       /\ DOMAIN p.assertions \subseteq ToSet(Order) /\ IsFiniteSet(p.adapters)
       /\ \A name \in Lists \cap DOMAIN p.assertions :
             /\ p.assertions[name] \in Seq(ToSet(p.assertions[name]))
             /\ \A r \in ToSet(p.assertions[name]) : r.path \in Seq(ToSet(r.path))
ASSUME SourcesAssumption == \A s \in SourceLists : s \in Seq(ToSet(s))
ASSUME WidthAssumption == Half \in Nat \ {0} /\ Day \in Nat \ {0} /\ MaxDepth \in Nat \ {0}

(* Times are i64, whoever states them.                                     *)
I64 == (-Half)..(Half - 1)

ASSUME TimesAssumption ==
    /\ Clocks \subseteq I64
    /\ \A f \in Statements : \A r \in ToSet(f.receipts) : r.at \subseteq I64
    /\ \A p \in Policies : \A name \in {"registeredAfter", "maxAgeDays"} \cap DOMAIN p.assertions :
          p.assertions[name] \in I64

VARIABLES
    policy, facts, sources, now,
    whole,     \* evaluate, which answers for the adapters too, or evaluate_statement
    stage,
    turn,      \* the place in Order from which assertions are still to be answered
    results

input == <<policy, facts, sources, now, whole>>
vars  == <<input, stage, turn, results>>

Pass == "Pass"
Fail == "Fail"
CannotEvaluate == "CannotEvaluate"

(* What an assertion over one input comes to.                              *)
Answer(known, holds) == IF ~known THEN CannotEvaluate ELSE IF holds THEN Pass ELSE Fail

-----------------------------------------------------------------------------
(* CBOR and JSON values are trees; a key, a text and a number are numbers. *)
Label(n)     == [text |-> FALSE, key |-> n]
TextLabel(n) == [text |-> TRUE, key |-> n]

(* The places where a map has a key, and opt_int_key and opt_text_key: the *)
(* value at the first of them.                                             *)
Members(node, label) == {i \in DOMAIN node.entries : node.entries[i].key = label}

First(node, label) == IF node.type = "Map"
                      THEN {node.entries[i].value :
                              i \in {j \in Members(node, label) :
                                       \A k \in Members(node, label) : j <= k}}
                      ELSE {}

At(node) == [kind |-> "Node", node |-> node]
Nowhere  == [kind |-> "None"]
Unsound  == [kind |-> "Error"]

Item(node, label) == IF label.text THEN Unsound
                     ELSE IF label.key \in 0..(Len(node.items) - 1)
                          THEN At(node.items[label.key + 1]) ELSE Nowhere

(* A step of resolve_path.  A key that a map holds twice has no value.     *)
(* Mutant: it has the first.                                               *)
MutDescend(node, label) ==
    IF node.type = "Map"
    THEN IF First(node, label) = {} THEN Nowhere ELSE At(CHOOSE n \in First(node, label) : TRUE)
    ELSE IF node.type = "Array" THEN Item(node, label) ELSE Unsound

Descend(node, label) ==
    IF node.type = "Map"
    THEN LET found == Members(node, label) IN
         IF found = {} THEN Nowhere
         ELSE IF \A i, j \in found : i = j
              THEN At(node.entries[CHOOSE i \in found : TRUE].value) ELSE Unsound
    ELSE IF node.type = "Array" THEN Item(node, label) ELSE Unsound

(* A step of resolve_json_path.                                            *)
DescendJson(node, label) ==
    IF node.type = "Map" /\ ~label.text THEN Unsound ELSE Descend(node, label)

(* A path is followed until a step finds nothing or cannot be taken.       *)
Follow(root, path, Step(_, _)) ==
    LET at[k \in 0..Len(path)] ==
            IF k = 0 THEN At(root)
            ELSE IF at[k - 1].kind = "Node" THEN Step(at[k - 1].node, path[k]) ELSE at[k - 1]
    IN  at[Len(path)]

Resolve(root, path)     == Follow(root, path, Descend)
ResolveJson(root, path) == Follow(root, path, DescendJson)

Subject      == <<Label(15), Label(2)>>
Issuer       == <<Label(15), Label(1)>>
Svn          == <<Label(15), TextLabel(1)>>
ContentType  == Label(3)
HashAlg      == Label(258)

(* A CWT claim of the given type, from the protected header.               *)
Claim(f, path, type) ==
    {n.value : n \in {m \in UNION {First(c, path[2]) :
                                      c \in UNION {First(r, path[1]) : r \in f.protected}} :
                         m.type = type}}

-----------------------------------------------------------------------------
(* Policy::from_json.  A criterion is the values that it accepts; one that *)
(* declares nothing, contradicts itself or accepts everything is {} here,  *)
(* and a malformed URL, fingerprint or OID is 0; "*" is no label of a path.*)
GoodPath(path)   == path # <<>> /\ Len(path) <= MaxDepth
Stated(m)        == m.kind = "exists" \/ m.accepts # {}
GoodRule(r)      == GoodPath(r.path) /\ Cardinality(r.matchers) = 1
                    /\ \A m \in r.matchers : Stated(m)
GoodExternal(r)  == GoodPath(r.path) /\ 0 \notin r.pin \cup r.url

Requested(a, name) == name \in DOMAIN a
Empty(p) == DOMAIN p.assertions = {} /\ p.adapters = {}

Refused(p) == LET a == p.assertions IN
    \/ Empty(p)
    \/ Requested(a, "issuer") /\ a.issuer = {}
    \/ Requested(a, "statementSubject") /\ a.statementSubject = {}
    \/ Requested(a, "statementIssuer") /\ a.statementIssuer = {}
    \/ Requested(a, "requireChainToRootFromHttps") /\ a.requireChainToRootFromHttps = 0
    \/ Requested(a, "requireEku") /\ (a.requireEku = {} \/ 0 \in a.requireEku)
    \/ \E name \in Lists : Requested(a, name) /\ a[name] = <<>>
    \/ \E name \in {"protectedHeaders", "payloadJson"} :
          Requested(a, name) /\ \E i \in DOMAIN a[name] : ~GoodRule(a[name][i])
    \/ Requested(a, "externalSignatures")
       /\ \E i \in DOMAIN a.externalSignatures : ~GoodExternal(a.externalSignatures[i])
    \/ Requested(a, "receiptCount") /\ a.receiptCount # 1
    \/ ~p.adaptersValid

-----------------------------------------------------------------------------
(* What the fully verified receipts attest, and nothing else.              *)
(* Mutant: every receipt that evaluates does.                              *)
MutVerified(f) == ToSet(f.receipts)

Verified(f) == {f.receipts[k] : k \in {j \in DOMAIN f.receipts : f.receipts[j].verified}}

(* Mutant: the latest registration is the one that counts.                 *)
MutRegisteredAt(f) == LET times == UNION {r.at : r \in Verified(f)} IN
                      {t \in times : \A u \in times : u <= t}

Times(f)        == UNION {r.at : r \in Verified(f)}
RegisteredAt(f) == {t \in Times(f) : \A u \in Times(f) : t <= u}

(* valid_at_registrations *)
(* Mutant: one registration inside the window is enough.                   *)
MutValidAt(path, f) ==
    IF Times(f) = {} THEN {} ELSE {\E t \in Times(f) : path.from <= t /\ t <= path.to}

ValidAt(path, f) ==
    IF Times(f) = {} THEN {} ELSE {\A t \in Times(f) : path.from <= t /\ t <= path.to}

(* ExternalRootSourceEvidence::from_sources: the roots of the only         *)
(* acquisition of the URL, or none; a failed or empty one supplies none.   *)
(* Mutant: of the first one.                                               *)
MutPublished(url, s) ==
    LET of == {k \in DOMAIN s : s[k].url = url} IN
    UNION {s[k].roots : k \in {j \in of : \A i \in of : j <= i}}

Published(url, s) ==
    LET of == {k \in DOMAIN s : s[k].url = url} IN
    IF Cardinality(of) = 1 THEN UNION {s[k].roots : k \in of} ELSE {}

-----------------------------------------------------------------------------
(* protectedHeaders and payloadJson.                                       *)
TypeOf == [text |-> "Text", int |-> "Int", alg |-> "Int", bool |-> "Bool"]

Matches(m, node) == node.type = TypeOf[m.kind] /\ node.value \in m.accepts

Evaluated(m, at) ==
    IF at.kind = "Error" THEN Fail
    ELSE IF m.kind = "exists" THEN Answer(TRUE, (at.kind = "Node") = m.wanted)
    ELSE Answer(at.kind = "Node", at.kind = "Node" /\ Matches(m, at.node))

Matcher(rule) == CHOOSE m \in rule.matchers : TRUE

Header(rule, f) ==
    IF f.protected = {} THEN CannotEvaluate
    ELSE LET root == CHOOSE r \in f.protected : TRUE IN
         Evaluated(Matcher(rule), Resolve(root, rule.path))

(* payload_document *)
OffersJson(f) ==
    /\ f.protected # {} /\ f.payload # "Detached"
    /\ \A r \in f.protected :
          /\ First(r, HashAlg) = {}
          /\ \E c \in First(r, ContentType) : c.type = "Text" /\ c.value \in JsonTypes

PayloadClaim(rule, f) ==
    IF ~OffersJson(f) THEN CannotEvaluate
    ELSE IF f.document = {} THEN Fail     \* not JSON, or an object repeats a key
    ELSE LET root == CHOOSE d \in f.document : TRUE IN
         Evaluated(Matcher(rule), ResolveJson(root, rule.path))

-----------------------------------------------------------------------------
(* externalSignatures: a signature of another party inside the header.     *)
IsSigned(rule, node) == node.type = "Signed" /\ node.convention = rule.signedOver

Detached(rule, node, f) ==
    IF IsSigned(rule, node) /\ f.payload # "Detached" THEN node.check ELSE "Unusable"

(* check_chain, once the path has been validated.                          *)
(* Mutant: what is missing is reported before what is known.               *)
MutCheckPath(rule, path, f, s) ==
    IF \/ \E url \in rule.url : Published(url, s) = {}
       \/ rule.valid # {} /\ ValidAt(path, f) = {}
    THEN CannotEvaluate
    ELSE Answer(TRUE, /\ rule.pin \subseteq {path.root} /\ rule.valid \subseteq ValidAt(path, f)
                      /\ \A url \in rule.url : path.root \in Published(url, s))

CheckPath(rule, path, f, s) ==
    LET listed == \A url \in rule.url : Published(url, s) = {} \/ path.root \in Published(url, s)
        held   == rule.valid = {} \/ ValidAt(path, f) = {} \/ ValidAt(path, f) = rule.valid
    IN  IF ~(rule.pin \subseteq {path.root} /\ listed /\ held) THEN Fail
        ELSE Answer(/\ \A url \in rule.url : Published(url, s) # {}
                    /\ rule.valid = {} \/ ValidAt(path, f) # {}, TRUE)

CheckChain(rule, node, f, s) ==
    IF rule.pin = {} /\ rule.url = {} /\ rule.valid = {} THEN Pass
    ELSE IF ~IsSigned(rule, node) \/ node.material = "Unavailable" THEN CannotEvaluate
    ELSE IF node.material = "Malformed" THEN Fail
    ELSE IF node.chain.kind \in {"Invalid", "Insufficient", "Error"} THEN Fail
    ELSE IF node.chain.kind # "Valid" THEN CannotEvaluate
    ELSE CheckPath(rule, node.chain, f, s)

SignerMatches(rule, node) == /\ rule.subject \subseteq node.subject
                             /\ rule.issuer \subseteq node.issuer

(* A leaf that cannot be read stops the signature check; the chain that it *)
(* breaks is a failure all the same.                                       *)
Signature(rule, node, f, s) ==
    LET checked == Detached(rule, node, f)
        chained == CheckChain(rule, node, f, s)
    IN  IF checked = "Unusable" THEN IF chained = Pass THEN CannotEvaluate ELSE chained
        ELSE IF checked = "Invalid" \/ ~SignerMatches(rule, node) THEN Fail
        ELSE chained

External(rule, f, s) ==
    IF f.protected = {} THEN CannotEvaluate
    ELSE LET at == Resolve(CHOOSE r \in f.protected : TRUE, rule.path) IN
         IF at.kind = "Error" THEN Fail
         ELSE IF at.kind = "None" THEN CannotEvaluate
         ELSE Signature(rule, at.node, f, s)

-----------------------------------------------------------------------------
(* The statement's own certificates.                                       *)
Decided(f) == f.chain.kind \in {"Valid", "Invalid"}

(* Mutant: an anchor of the statement's own is as good as any.             *)
MutPurpose(a, f) == IF f.chain.kind = "Valid"
                    THEN Answer(f.chain.eku # {}, \A e \in f.chain.eku : a.requireEku \subseteq e)
                    ELSE Answer(f.chain.kind = "Invalid", FALSE)

Purpose(a, f) ==
    IF f.chain.kind = "Valid"
    THEN IF /\ ~f.chain.anchored /\ ~Requested(a, "requireChainToRootSha256")
            /\ ~Requested(a, "requireChainToRootFromHttps")
         THEN CannotEvaluate
         ELSE Answer(f.chain.eku # {}, \A e \in f.chain.eku : a.requireEku \subseteq e)
    ELSE Answer(f.chain.kind = "Invalid", FALSE)

RootFromHttps(url, f, s) ==
    IF f.chain.kind = "Valid"
    THEN Answer(Published(url, s) # {}, f.chain.root \in Published(url, s))
    ELSE Answer(f.chain.kind = "Invalid", FALSE)

SigningTime(f) == IF f.chain.kind = "Valid" THEN ValidAt(f.chain, f) ELSE {}

-----------------------------------------------------------------------------
(* i64 arithmetic as the release build does it: it wraps.                  *)
Wrap(x) == ((x + Half) % (2 * Half)) - Half

Cutoff(days, t) == Wrap(t - Wrap(days * Day))

(* Mutant: nothing to compare with compares well.                          *)
MutRegistered(f, accepted) == Answer(TRUE, RegisteredAt(f) \subseteq accepted)

Registered(f, accepted) == Answer(RegisteredAt(f) # {}, RegisteredAt(f) \subseteq accepted)

KidBound(f) ==
    LET flags == {r.bound : r \in Verified(f)} IN
    Answer(flags # {} /\ {} \notin flags, flags = {{TRUE}})

Issuers(f) == UNION {r.issuer : r \in Verified(f)}

(* evaluate_statement_with_external_roots: the answers of each assertion.  *)
Each(rules, Ask(_)) == [i \in DOMAIN rules |-> Ask(rules[i])]

Answers(name, a, f, s, t) ==
    CASE name = "issuer" -> <<Answer(Issuers(f) # {}, Issuers(f) \cap a.issuer # {})>>
      [] name = "statementSubject" ->
            LET known == Claim(f, Subject, "Text") IN
            <<Answer(known # {}, known \subseteq a.statementSubject)>>
      [] name = "statementIssuer" ->
            LET known == Claim(f, Issuer, "Text") IN
            <<Answer(known # {}, known \subseteq a.statementIssuer)>>
      [] name = "protectedHeaders" -> Each(a.protectedHeaders, LAMBDA r : Header(r, f))
      [] name = "payloadJson" -> Each(a.payloadJson, LAMBDA r : PayloadClaim(r, f))
      [] name = "externalSignatures" -> Each(a.externalSignatures, LAMBDA r : External(r, f, s))
      [] name = "signerSubjectContains" ->
            <<Answer(f.leaf # {}, \A l \in f.leaf : a.signerSubjectContains \in l.subject)>>
      [] name = "signerIssuerContains" ->
            <<Answer(f.leaf # {}, \A l \in f.leaf : a.signerIssuerContains \in l.issuer)>>
      [] name = "certificateChainValidated" ->
            <<Answer(Decided(f), (f.chain.kind = "Valid") = a.certificateChainValidated)>>
      [] name = "requireChainToRootSha256" ->
            <<Answer(Decided(f),
                     f.chain.kind = "Valid" /\ f.chain.root = a.requireChainToRootSha256)>>
      [] name = "requireChainToRootFromHttps" ->
            <<RootFromHttps(a.requireChainToRootFromHttps, f, s)>>
      [] name = "requireEku" -> <<Purpose(a, f)>>
      [] name = "certificateValidAtSigningTime" ->
            <<Answer(SigningTime(f) # {},
                     SigningTime(f) = {a.certificateValidAtSigningTime})>>
      [] name = "receiptCount" -> <<Answer(TRUE, f.present = a.receiptCount)>>
      [] name = "registeredAfter" -> <<Registered(f, {x \in Int : x >= a.registeredAfter})>>
      [] name = "registeredBefore" -> <<Registered(f, {x \in Int : x <= a.registeredBefore})>>
      [] name = "maxAgeDays" -> <<Registered(f, {x \in Int : x >= Cutoff(a.maxAgeDays, t)})>>
      [] name = "minSvn" ->
            LET known == Claim(f, Svn, "Int") IN
            <<Answer(known # {}, \A v \in known : v >= a.minSvn)>>
      [] name = "requireKidBoundToKey" ->
            IF a.requireKidBoundToKey THEN <<KidBound(f)>> ELSE <<>>
      [] OTHER -> <<>>

(* The assertion that is answered next.                                    *)
(* Mutant: one added later is forgotten.                                   *)
MutUpcoming == {i \in turn..Len(Order) :
                  /\ Requested(policy.assertions, Order[i]) /\ Order[i] # "requireEku"
                  /\ \A j \in turn..(i - 1) : ~Requested(policy.assertions, Order[j])}

Upcoming == {i \in turn..Len(Order) :
               /\ Requested(policy.assertions, Order[i])
               /\ \A j \in turn..(i - 1) : ~Requested(policy.assertions, Order[j])}

-----------------------------------------------------------------------------
Init == /\ policy \in Policies /\ facts \in Statements /\ sources \in SourceLists
        /\ now \in Clocks /\ whole \in BOOLEAN
        /\ stage = "Load" /\ turn = 1 /\ results = <<>>

Load == /\ stage = "Load"
        /\ stage' = IF Refused(policy) THEN "Refused" ELSE "Evaluate"
        /\ UNCHANGED <<input, turn, results>>

Named(name, outcomes) == [i \in DOMAIN outcomes |-> [rule |-> name, outcome |-> outcomes[i]]]

Evaluate == /\ stage = "Evaluate"
            /\ \E i \in Upcoming :
                  /\ results' = results \o Named(Order[i],
                         Answers(Order[i], policy.assertions, facts, sources, now))
                  /\ turn' = i + 1
            /\ UNCHANGED <<input, stage>>

(* Policy::evaluate extends the answers with those of the adapters: none   *)
(* has evidence here.  evaluate_statement leaves them to the caller.       *)
Adapters == [i \in 1..Cardinality(policy.adapters) |->
                [rule |-> "adapters", outcome |-> CannotEvaluate]]

Finish == /\ stage = "Evaluate" /\ Upcoming = {}
          /\ results' = IF whole THEN results \o Adapters ELSE results
          /\ stage' = "Done"
          /\ UNCHANGED <<input, turn>>

Finished == stage \in {"Done", "Refused"} /\ UNCHANGED vars

Next == Load \/ Evaluate \/ Finish \/ Finished

Spec == Init /\ [][Next]_vars

(* PolicyDecision::satisfied                                               *)
Satisfied == results # <<>> /\ \A i \in DOMAIN results : results[i].outcome = Pass

-----------------------------------------------------------------------------
(* Every variable holds a value of its kind, and each result is one of the *)
(* three outcomes of an assertion this build knows or of an adapter.       *)
TypeOK ==
    /\ policy \in Policies /\ facts \in Statements /\ sources \in SourceLists /\ now \in Clocks
    /\ whole \in BOOLEAN /\ stage \in {"Load", "Evaluate", "Refused", "Done"}
    /\ turn \in 1..(Len(Order) + 1)
    /\ \A i \in DOMAIN results :
          /\ results[i].rule \in ToSet(Order) \cup {"adapters"}
          /\ results[i].outcome \in {Pass, Fail, CannotEvaluate}

Asking        == IF stage = "Evaluate" THEN {Order[i] : i \in Upcoming} ELSE {}
Told(n, f, s) == Answers(n, policy.assertions, f, s, now)
Passed(name)  == stage = "Done" /\ [rule |-> name, outcome |-> Pass] \in ToSet(results)

(* The same statement to a run that establishes less: no receipt verified, *)
(* no chain examined, no header parsed, no leaf, or a payload elsewhere.   *)
Unverified(f) == [f EXCEPT !.receipts = [k \in DOMAIN f.receipts |->
                                            [f.receipts[k] EXCEPT !.verified = FALSE]]]
Withheld(f) == {f, Unverified(f), [f EXCEPT !.chain = [kind |-> "NotRun"]],
                [f EXCEPT !.protected = {}], [f EXCEPT !.leaf = {}],
                [f EXCEPT !.payload = "Detached"]}

(* "I did not look" is neither a pass nor a failure (docs/policy.md): with *)
(* an input withheld, a rule is answered as before or not at all.          *)
LessKnownDecidesNoMore ==
    \A n \in Asking : \A f \in Withheld(facts) : \A s \in {sources, <<>>} :
        \A i \in DOMAIN Told(n, f, s) :
            Told(n, f, s)[i] \in {CannotEvaluate, Told(n, facts, sources)[i]}

(* Anyone can append a receipt: one that does not verify changes no answer *)
(* but the count of receipts, wherever in the envelope it was put.         *)
With(f, list) == [f EXCEPT !.receipts = list, !.present = f.present + 1]

JunkReceiptsDecideNothing ==
    \A n \in Asking \ {"receiptCount"} : \A r \in Receipts : ~r.verified =>
        /\ Told(n, With(facts, Append(facts.receipts, r)), sources) = Told(n, facts, sources)
        /\ Told(n, With(facts, <<r>> \o facts.receipts), sources) = Told(n, facts, sources)

(* A purpose is worth what its root is: an accepted requireEku is that of  *)
(* a leaf under an anchor the relying party supplied, pinned or published. *)
PurposeNeedsAnAuthority ==
    LET a == policy.assertions IN
    stage = "Done" /\ Satisfied /\ Requested(a, "requireEku") =>
        /\ facts.chain.kind = "Valid" /\ \E e \in facts.chain.eku : a.requireEku \subseteq e
        /\ \/ facts.chain.anchored
           \/ Requested(a, "requireChainToRootSha256")
              /\ facts.chain.root = a.requireChainToRootSha256
           \/ Requested(a, "requireChainToRootFromHttps")
              /\ facts.chain.root \in Published(a.requireChainToRootFromHttps, sources)

(* The external signatures that were asked for, with what is at their path *)
(* and the outcome each came to.                                           *)
Externals == IF ~Requested(policy.assertions, "externalSignatures") \/ stage # "Done" THEN {}
             ELSE LET rules == policy.assertions.externalSignatures IN
                  {[rule |-> rules[i], at |-> Resolve(root, rules[i].path),
                    outcome |-> External(rules[i], facts, sources)] :
                      i \in DOMAIN rules, root \in facts.protected}

Validated(x) == /\ x.at.kind \notin {"Error", "None"} /\ IsSigned(x.rule, x.at.node)
                /\ x.at.node.material \notin {"Unavailable", "Malformed"}
                /\ x.at.node.chain.kind = "Valid"

(* A root is authorised by the one acquisition of exactly the URL that the *)
(* policy names: a second, a failed or another one never stands in.        *)
OneAcquisition(url, root) ==
    \E k \in DOMAIN sources : /\ sources[k].url = url /\ root \in sources[k].roots
                              /\ \A j \in DOMAIN sources : sources[j].url = url => j = k

AuthorisedByOneAcquisition ==
    /\ Passed("requireChainToRootFromHttps") =>
          /\ facts.chain.kind = "Valid"
          /\ OneAcquisition(policy.assertions.requireChainToRootFromHttps, facts.chain.root)
    /\ \A x \in Externals : x.outcome = Pass =>
          \A url \in x.rule.url : Validated(x) /\ OneAcquisition(url, x.at.node.chain.root)

(* "Missing authorization must not hide a known registration-time failure" *)
(* (check_chain): what is left unanswered has nothing known against it.    *)
KnownFailuresAreReported ==
    \A x \in Externals : x.outcome = CannotEvaluate /\ Validated(x) =>
        LET path   == x.at.node.chain
            within == \A r \in Verified(facts) : \A t \in r.at : path.from <= t /\ t <= path.to
        IN  /\ x.rule.pin \subseteq {path.root}
            /\ \A url \in x.rule.url : \A k \in DOMAIN sources :
                  /\ sources[k].url = url /\ sources[k].roots # {}
                  /\ \A j \in DOMAIN sources : sources[j].url = url => j = k
                  => path.root \in sources[k].roots
            /\ (\E r \in Verified(facts) : r.at # {}) => x.rule.valid \subseteq {within}

(* A policy that accepts has had each assertion answered, and at least one *)
(* of them; requireKidBoundToKey false is the only one that asks nothing,  *)
(* and evaluate never accepts where an adapter is required.                *)
AcceptanceAnsweredEverything ==
    stage = "Done" /\ Satisfied =>
        /\ whole => policy.adapters = {}
        /\ \E name \in DOMAIN policy.assertions : Passed(name)
        /\ \A name \in DOMAIN policy.assertions :
              Passed(name) \/ (name = "requireKidBoundToKey" /\ ~policy.assertions[name])

(* What some parser makes of a path where a key is repeated.               *)
Below(n, label) == IF n.type = "Map" THEN {n.entries[i].value : i \in Members(n, label)}
                   ELSE IF n.type = "Array" /\ Item(n, label).kind = "Node"
                        THEN {Item(n, label).node} ELSE {}

Readings(root, path) ==
    LET nodes[k \in 0..Len(path)] ==
            IF k = 0 THEN {root} ELSE UNION {Below(n, path[k]) : n \in nodes[k - 1]}
    IN  nodes[Len(path)]

(* A header rule passes only on what every reader of the signed bytes      *)
(* finds there: a repeated label is not resolved to the first.             *)
HeadersReadAlike ==
    Passed("protectedHeaders") /\ Satisfied =>
        \A i \in DOMAIN policy.assertions.protectedHeaders : \A root \in facts.protected :
            LET rule == policy.assertions.protectedHeaders[i]
                m    == Matcher(rule)
                all  == Readings(root, rule.path)
            IN  IF m.kind = "exists" THEN m.wanted = (all # {})
                ELSE all # {} /\ \A n \in all : Matches(m, n)

(* Recent is recent by every ledger that registered the statement, and no  *)
(* number of days makes it older than it may be.                           *)
RecentByEveryLedger ==
    LET a      == policy.assertions
        From(b) == Times(facts) # {} /\ \A r \in Verified(facts) : \A t \in r.at : b <= t
    IN  /\ Passed("registeredAfter") => From(a.registeredAfter)
        /\ Passed("maxAgeDays") /\ a.maxAgeDays >= 0 => From(now - a.maxAgeDays * Day)

(* Certificates were live at each registration, not at one of them, and of *)
(* a path that validated.                                                  *)
LiveAt(path) == /\ path.kind = "Valid" /\ \E r \in Verified(facts) : r.at # {}
                /\ \A r \in Verified(facts) : \A t \in r.at : path.from <= t /\ t <= path.to

LiveAtEveryRegistration ==
    /\ Passed("certificateValidAtSigningTime") /\ policy.assertions.certificateValidAtSigningTime
          => LiveAt(facts.chain)
    /\ \A x \in Externals : x.outcome = Pass /\ x.rule.valid = {TRUE} =>
          Validated(x) /\ LiveAt(x.at.node.chain)
=============================================================================
