------------------------------ MODULE Scoping ------------------------------
(***************************************************************************)
(* Which ledgers an online run asks, and how their keys stay apart:        *)
(* online.rs select, verify_scoped and pick, over the receipt evaluation   *)
(* of scitt-receipt (verify_receipt, LedgerKeySet::find).  A receipt is    *)
(* what it claims (issuer, kid, time) and what is true of it (which key    *)
(* signed it, whether it commits to this statement); a key set is the      *)
(* sequence its ledger served, in which a kid is only a label.             *)
(***************************************************************************)
EXTENDS Outcome, FiniteSets

CONSTANTS
    Issuers,       \* numbered in the order of their names
    Routable,      \* the issuers this build can find an identity service for
    Allowlists,    \* assertions.issuer of the policies tried; {} is none
    Statements,    \* the receipts of a statement, in the order of the envelope
    KeySets,       \* what a ledger may serve
    MaxLedgers

None  == 0         \* no issuer, no kid, no time
Forms == {"Well", "Unparseable", "Malformed", "UnsupportedStructure", "NoAlgorithm"}

Receipts == [form : Forms, issuer : Issuers \cup {None}, kid : Nat, signer : Nat,
             supported : BOOLEAN,      \* the algorithm is one this build implements
             bound : BOOLEAN, at : Nat]
LedgerKeys == [kid : Nat \ {None}, key : Nat, usable : BOOLEAN]

ASSUME IssuersAssumption    == Issuers \subseteq Nat \ {None} /\ IsFiniteSet(Issuers)
ASSUME RoutableAssumption   == Routable \subseteq Issuers
ASSUME AllowlistsAssumption == Allowlists \subseteq SUBSET Issuers
ASSUME StatementsAssumption == Statements \subseteq Seq(Receipts)
ASSUME KeySetsAssumption    == KeySets \subseteq Seq(LedgerKeys)
ASSUME LimitAssumption      == MaxLedgers \in Nat

VARIABLES
    allow, explicit,   \* the policy's allowlist; --ledger, or None
    statement,
    live,              \* the registration times at which a validated chain was valid
    stage,
    selection, asked,  \* what select returned; the ledgers contacted so far
    acquired,          \* the key set of each ledger that answered
    receipts,          \* the merged facts, each with its place in the envelope
    unevaluable,
    liveThen           \* certificates_valid_at_signing_time

request == <<allow, explicit, statement, live>>
vars    == <<request, stage, selection, asked, acquired, receipts, unevaluable, liveThen>>

Undecided == [kind |-> "Undecided", issuers |-> {}]

Init == /\ allow \in Allowlists
        /\ explicit \in Issuers \cup {None}
        /\ statement \in Statements
        /\ live \in SUBSET {statement[i].at : i \in DOMAIN statement}
        /\ stage = "Select"
        /\ selection = Undecided
        /\ asked = {}
        /\ acquired = <<>>
        /\ receipts = {} /\ unevaluable = {} /\ liveThen = "Unknown"

-----------------------------------------------------------------------------
(* candidate_issuers: what a receipt that parses claims.                   *)
Candidates(s) ==
    {s[i].issuer : i \in {k \in DOMAIN s : s[k].form # "Unparseable"}} \ {None}

(* select.  Without --ledger the receipts narrow an allowlist of several;  *)
(* a single accepted service needs nobody to name it.                      *)
(* Mutant: a receipt may name a ledger the policy does not.                *)
MutChosen(s) == IF explicit # None               THEN {explicit}
                ELSE IF Cardinality(allow) = 1   THEN allow
                ELSE Candidates(s)

Chosen(s) == IF explicit # None               THEN {explicit}
             ELSE IF Cardinality(allow) = 1   THEN allow
             ELSE Candidates(s) \cap allow

Refusable(chosen) == \/ allow = {}
                     \/ explicit # None /\ explicit \notin allow
                     \/ Cardinality(chosen) > MaxLedgers
                     \/ ~(chosen \subseteq Routable)

Select(s) == IF Refusable(Chosen(s))  THEN [kind |-> "Refused", issuers |-> {}]
             ELSE IF Chosen(s) = {}   THEN [kind |-> "Nothing", issuers |-> {}]
             ELSE [kind |-> "Ready", issuers |-> Chosen(s)]

SelectLedgers ==
    /\ stage = "Select"
    /\ selection' = Select(statement)
    /\ \/ selection'.kind = "Refused" /\ stage' = "Refused"
       \/ selection'.kind = "Nothing" /\ stage' = "Verify"
       \/ selection'.kind = "Ready"   /\ stage' = "Acquire"
    /\ UNCHANGED <<request, asked, acquired, receipts, unevaluable, liveThen>>

(* One ledger after the other, in order; Acquisition says how one answers. *)
AskLedger ==
    /\ stage = "Acquire" /\ asked # selection.issuers
    /\ \E i \in selection.issuers \ asked :
          /\ \A j \in selection.issuers \ asked : i <= j
          /\ asked' = asked \cup {i}
          /\ \/ UNCHANGED acquired
             \/ \E keys \in KeySets :
                   acquired' = [l \in DOMAIN acquired \cup {i} |->
                                   IF l = i THEN keys ELSE acquired[l]]
    /\ UNCHANGED <<request, stage, selection, receipts, unevaluable, liveThen>>

EndAcquisition ==
    /\ stage = "Acquire" /\ asked = selection.issuers
    /\ stage' = "Verify"
    /\ UNCHANGED <<request, selection, asked, acquired, receipts, unevaluable, liveThen>>

-----------------------------------------------------------------------------
(* LedgerKeySet::find: the first entry with that kid.                      *)
Labelled(keys, kid) == {k \in DOMAIN keys : keys[k].kid = kid}
Find(keys, kid)     == keys[CHOOSE k \in Labelled(keys, kid) :
                               \A j \in Labelled(keys, kid) : k <= j]

(* verify_receipt.  An error leaves no facts, only its kind; the algorithm *)
(* and the key are looked at once a key was found.                         *)
Stopped(kind) == [facts |-> FALSE, kind |-> kind]
Reported(b, lookup, root) ==
    [facts |-> TRUE,
     receipt |-> [lookup |-> lookup, root |-> root, bound |-> IF b.bound THEN "Yes" ELSE "No",
                  issuer |-> b.issuer, at |-> b.at]]

Evaluate(b, keys) ==
    IF b.form \in {"Unparseable", "Malformed"}   THEN Stopped("Unreadable")
    ELSE IF b.form = "UnsupportedStructure"      THEN Stopped("Unsupported")
    ELSE IF b.kid = None                         THEN Reported(b, "None", "Unknown")
    ELSE IF Labelled(keys, b.kid) = {}           THEN Reported(b, "UnknownKid", "Unknown")
    ELSE IF b.form = "NoAlgorithm"               THEN Stopped("Unreadable")
    ELSE IF ~b.supported                         THEN Stopped("Unsupported")
    ELSE IF ~Find(keys, b.kid).usable            THEN Stopped("TrustMaterial")
    ELSE Reported(b, "Found", IF Find(keys, b.kid).key = b.signer THEN "Yes" ELSE "No")

(* verify_statement_with: the receipts that left facts, each stamped with  *)
(* its place, and the others.                                              *)
Stamped(i, r) == [index |-> i, lookup |-> r.lookup, root |-> r.root, bound |-> r.bound,
                  issuer |-> r.issuer, at |-> r.at]

Pass(s, keys)  == {Stamped(i, Evaluate(s[i], keys).receipt) :
                      i \in {k \in DOMAIN s : Evaluate(s[k], keys).facts}}
Drops(s, keys) == {[index |-> i, kind |-> Evaluate(s[i], keys).kind] :
                      i \in {k \in DOMAIN s : ~Evaluate(s[k], keys).facts}}

NoKeys == <<>>

(* pick and the two marks: a receipt that no acquired ledger is named by   *)
(* was never looked up, one its own ledger's pass dropped stays as the     *)
(* pass without keys left it.                                              *)
(* Mutant: matched by position in the two passes.                          *)
Rank(pass, r) == Cardinality({q \in pass : q.index < r.index})
MutScopedByPosition(s, keys, r) ==
    {f \in Pass(s, keys) : Rank(Pass(s, keys), f) = Rank(Pass(s, NoKeys), r)}

Scoped(s, keys, r) == {f \in Pass(s, keys) : f.index = r.index}

NotSelected(r) == [r EXCEPT !.lookup = "None", !.root = "Unknown"]
Unevaluable(r) == [r EXCEPT !.root = "Unknown"]

MergeReceipt(s, acq, r) ==
    IF r.issuer \notin DOMAIN acq                    THEN NotSelected(r)
    ELSE IF Scoped(s, acq[r.issuer], r) = {}         THEN Unevaluable(r)
    ELSE CHOOSE f \in Scoped(s, acq[r.issuer], r) : TRUE

Merged(s, acq) == {MergeReceipt(s, acq, r) : r \in Pass(s, NoKeys)}

(* valid_at_registrations, recomputed from the merged receipts.            *)
(* Mutant: the times of receipts that did not verify count as well.        *)
MutTimes(rs) == {r.at : r \in rs} \ {None}

Times(rs) == {r.at : r \in {q \in rs : FullyVerified(q)}} \ {None}

ValidAt(rs, times) == IF Times(rs) = {} THEN "Unknown"
                      ELSE IF Times(rs) \subseteq times THEN "Yes" ELSE "No"

VerifyScoped ==
    /\ stage = "Verify"
    /\ stage' = "Done"
    /\ receipts' = Merged(statement, acquired)
    /\ unevaluable' = Drops(statement, NoKeys)
    /\ liveThen' = ValidAt(receipts', live)
    /\ UNCHANGED <<request, selection, asked, acquired>>

Finished == stage \in {"Done", "Refused"} /\ UNCHANGED vars

Next == SelectLedgers \/ AskLedger \/ EndAcquisition \/ VerifyScoped \/ Finished

Spec == Init /\ [][Next]_vars

-----------------------------------------------------------------------------
(* Every variable holds a value of its kind, a ledger is asked and answers *)
(* only once it was selected, and each receipt is filed under its place.   *)
MergedFacts == [index : DOMAIN statement, lookup : KeyLookups, root : Trilean, bound : Trilean,
                issuer : Issuers \cup {None}, at : Nat]

TypeOK ==
    /\ allow \in Allowlists /\ explicit \in Issuers \cup {None} /\ statement \in Statements
    /\ stage \in {"Select", "Acquire", "Verify", "Done", "Refused"}
    /\ selection.kind \in {"Undecided", "Refused", "Nothing", "Ready"}
    /\ asked \subseteq selection.issuers
    /\ DOMAIN acquired \subseteq asked /\ \A l \in DOMAIN acquired : acquired[l] \in KeySets
    /\ receipts \subseteq MergedFacts
    /\ unevaluable \subseteq [index : DOMAIN statement, kind : UnevaluableKinds]
    /\ liveThen \in Trilean

(* The statement never chooses where the run connects: every ledger that   *)
(* is asked is in the policy's allowlist, is the one --ledger names when   *)
(* it names one, can be routed, and they are within the limit.             *)
StatementChoosesNothing ==
    /\ asked \subseteq allow \cap Routable
    /\ Cardinality(asked) <= MaxLedgers
    /\ explicit # None => asked \subseteq {explicit}

(* What it is for a receipt to hold under a key set.                       *)
Holds(b, keys) ==
    /\ b.form = "Well" /\ b.supported /\ b.bound
    /\ \E k \in DOMAIN keys : /\ keys[k] = [kid |-> b.kid, key |-> b.signer, usable |-> TRUE]
                              /\ \A j \in DOMAIN keys : keys[j].kid = b.kid => k <= j

HoldsForOwnLedger(b, acq) == b.issuer \in DOMAIN acq /\ Holds(b, acq[b.issuer])
VerifiedAt(rs, i) == \E r \in rs : r.index = i /\ FullyVerified(r)

(* A receipt is verified exactly when it holds under the keys of the       *)
(* ledger it names: no other ledger's keys stand in, and no result is lost *)
(* or handed to another receipt, whatever each pass could not evaluate.    *)
DecidedByOwnLedger ==
    stage = "Done" =>
        \A i \in DOMAIN statement :
            VerifiedAt(receipts, i) <=> HoldsForOwnLedger(statement[i], acquired)

(* "No key matched" and "no key was sought" stay apart: a receipt whose    *)
(* ledger was not asked or did not answer is never an unknown key.         *)
NotSoughtIsNotUnknown ==
    stage = "Done" =>
        \A r \in receipts : r.issuer \notin DOMAIN acquired => r.lookup = "None"

Offered == UNION {{s[i] : i \in DOMAIN s} : s \in Statements}

(* A receipt appended to the envelope changes the facts of no other one,   *)
(* and the registration times only when it verified itself.                *)
AppendedReceiptsAreInert ==
    stage = "Done" =>
        \A b \in Offered :
            LET more == Merged(Append(statement, b), acquired)
                last == Len(statement) + 1
            IN  /\ {r \in more : r.index # last} = receipts
                /\ ~VerifiedAt(more, last) => ValidAt(more, live) = liveThen

(* Replaying a key set that was acquired and saved verifies offline every  *)
(* receipt that this run verified under it.                                *)
ReplayAgrees ==
    stage = "Done" =>
        \A l \in DOMAIN acquired : \A r \in receipts :
            r.issuer = l /\ FullyVerified(r) => VerifiedAt(Pass(statement, acquired[l]), r.index)
=============================================================================
