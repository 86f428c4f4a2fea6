---------------------------- MODULE ChainProofs ----------------------------
(***************************************************************************)
(* Theorems about the search for an anchor and the root file it starts     *)
(* from, for every set of certificates, chains, files and options.         *)
(***************************************************************************)
EXTENDS Chain, FiniteSetTheorems, SequenceTheorems, WellFoundedInduction, TLAPS

-----------------------------------------------------------------------------
(* What a candidate comes to, and the state of the search: what has been   *)
(* tried so far, and how a finished search was decided.                    *)
Result(i) == Attempted(Path(i))

Searchable == ~Absent /\ ~Unreadable /\ ~Truncated /\ Candidates # {}

Noted ==
    /\ tried \subseteq Candidates
    /\ \A i \in tried : Result(i) # "Valid"
    /\ gap <=> \E i \in tried : Result(i) = "Unsupported"
    /\ failure = "None" <=> \A i \in tried : Result(i) = "Unsupported"
    /\ failure # "None" => \E i \in tried : Result(i) = failure
    /\ gap \in BOOLEAN /\ failure \in {"None", "Invalid", "Insufficient"}

FoundBy(i) ==
    /\ i \in Candidates /\ Result(i) = "Valid"
    /\ outcome = Details(i)
    /\ \A j \in Candidates : Ahead(j, i) => Result(j) # "Valid"

Decided ==
    \/ ~Searchable /\ outcome \in {Verdict(k) : k \in {"Insufficient", "Error", "Invalid"}}
    \/ Searchable /\ \E i \in Candidates : FoundBy(i)
    \/ Noted /\ tried = Candidates /\ Searchable /\ outcome = Verdict(Concluded)

SearchInv ==
    /\ stage \in {"Roots", "Material", "Refused"} =>
          tried = {} /\ gap = FALSE /\ failure = "None" /\ outcome = Pending
    /\ stage = "Attempt" => Searchable /\ Noted /\ outcome = Pending
    /\ stage = "Done" => Decided

Given == <<chain, options, roots>>

LEMMA GivenFixesTheCandidates ==
    ASSUME UNCHANGED Given
    PROVE  /\ Candidates' = Candidates
           /\ Searchable' = Searchable
           /\ \A i : Result(i)' = Result(i)
           /\ \A i : Details(i)' = Details(i)
           /\ \A i, j : Ahead(i, j)' = Ahead(i, j)
  BY DEF Given, Candidates, Searchable, Result, Details, Ahead, Exact, ByName, Absent, Unreadable,
         Truncated, Top, SelfIssued, Attempted, Path, Anchor, Highest, NeverLive, Gap, Declined,
         TimeOf, Verifies, PurposeMet, Allowance, Window, PurposeAsked

LEMMA ResultKinds == \A i : Result(i) \in {"Valid", "Invalid", "Insufficient", "Unsupported"}
  BY DEF Result, Attempted

(* The order in which candidates are tried is strict.                      *)
LEMMA CandidatesAreOrdered ==
    ASSUME roots \in Seq(Certificates)
    PROVE  \A i, j \in Candidates : ~(Ahead(i, j) /\ Ahead(j, i)) /\ ~Ahead(i, i)
  <1>1. Candidates \subseteq Int
    BY DEF Candidates
  <1> QED BY <1>1 DEF Ahead

LEMMA TriedStep ==
    ASSUME roots \in Seq(Certificates), SearchInv, TryAnchor
    PROVE  SearchInv'
  <1> DEFINE C == Candidates
  <1>1. PICK i \in C : Upcoming(i) /\
          \/ /\ Result(i) = "Valid" /\ Decide(Details(i))
             /\ tried' = tried \cup {i} /\ UNCHANGED <<failure, gap>>
          \/ /\ Result(i) = "Unsupported" /\ gap' = TRUE
             /\ tried' = tried \cup {i} /\ UNCHANGED <<stage, outcome, failure>>
          \/ /\ Result(i) \in {"Invalid", "Insufficient"} /\ NoteFailure(i, Result(i))
             /\ UNCHANGED <<stage, outcome, gap>>
    BY DEF TryAnchor, Result
  <1>2. stage = "Attempt" /\ UNCHANGED Given
    BY DEF TryAnchor, request, Given
  <1>3. Searchable /\ Noted /\ outcome = Pending
    BY <1>2 DEF SearchInv
  <1>4. /\ C' = C /\ (\A k : Result(k)' = Result(k)) /\ (\A k : Details(k)' = Details(k))
        /\ \A j, k : Ahead(j, k)' = Ahead(j, k)
        /\ Searchable'
    BY <1>2, <1>3, GivenFixesTheCandidates
  <1>5. CASE Result(i) = "Valid" /\ Decide(Details(i))
    <2>1. \A j \in C : Ahead(j, i) => Result(j) # "Valid"
      <3> SUFFICES ASSUME NEW j \in C, Ahead(j, i), Result(j) = "Valid" PROVE FALSE
        OBVIOUS
      <3>1. j \notin tried
        BY <1>3 DEF Noted
      <3>2. i = j \/ Ahead(i, j)
        BY <1>1, <3>1 DEF Upcoming
      <3> QED BY <1>3, <3>2, CandidatesAreOrdered
    <2>2. FoundBy(i)'
      BY <1>1, <1>4, <1>5, <2>1 DEF FoundBy, Decide
    <2> QED BY <1>1, <1>4, <1>5, <2>2 DEF SearchInv, Decided, Decide
  <1>6. CASE Result(i) = "Unsupported" /\ gap' = TRUE /\ tried' = tried \cup {i}
               /\ UNCHANGED <<stage, outcome, failure>>
    <2>1. Noted'
      BY <1>1, <1>3, <1>4, <1>6 DEF Noted
    <2> QED BY <1>2, <1>3, <1>4, <1>6, <2>1 DEF SearchInv
  <1>7. CASE Result(i) \in {"Invalid", "Insufficient"} /\ NoteFailure(i, Result(i))
               /\ UNCHANGED <<stage, outcome, gap>>
    <2>1. Noted'
      BY <1>1, <1>3, <1>4, <1>7 DEF Noted, NoteFailure
    <2> QED BY <1>2, <1>3, <1>4, <1>7, <2>1 DEF SearchInv
  <1> QED BY <1>1, <1>5, <1>6, <1>7

-----------------------------------------------------------------------------
(* Types.                                                                  *)
Readable == {c \in Certificates : c.readable}

LEMMA CandidatesAreIndexes ==
    ASSUME roots \in Seq(Readable)
    PROVE  Candidates \subseteq 0..Len(roots)
  BY DEF Candidates

LEMMA FileTypes ==
    ASSUME file \in Files \cup {<<>>}
    PROVE  file \in Seq(Lines) /\ Len(file) \in Nat
  BY FilesAssumption, EmptySeq

LEMMA ReadLineTypes ==
    ASSUME TypeOK, ReadLine
    PROVE  TypeOK'
  <1> DEFINE this == file[line]
  <1>0. /\ stage = "Roots" /\ line <= Len(file) /\ line' = line + 1
        /\ UNCHANGED <<chain, file, options, tried, failure, gap, outcome>>
    BY DEF ReadLine, request
  <1>1. this \in Lines /\ Len(file) \in Nat /\ line \in 1..Len(file)
    BY <1>0, FileTypes DEF TypeOK
  <1>2. /\ body'.open \in BOOLEAN /\ body'.text \in Seq(Certificates)
        /\ ~body'.open => body'.text = <<>>
        /\ roots' \in Seq(Readable) /\ Len(roots) <= Len(roots')
        /\ stage' \in {"Roots", "Refused"}
    <2>0. /\ body.open \in BOOLEAN /\ body.text \in Seq(Certificates)
          /\ ~body.open => body.text = <<>>
          /\ roots \in Seq(Readable) /\ Len(roots) \in Nat
      BY DEF TypeOK, Readable
    <2>1. CASE ReadBegin(this.mark)
      <3>1. CASE Refuse
        BY <1>0, <2>0, <3>1 DEF Refuse
      <3>2. CASE body' = Opened /\ UNCHANGED <<stage, roots>>
        <4>1. body'.open /\ body'.open \in BOOLEAN
          BY <3>2 DEF Opened
        <4>3. body'.text \in Seq(Certificates)
          BY <3>2, EmptySeq DEF Opened
        <4>2. stage' = stage /\ roots' = roots
          BY <3>2
        <4> QED BY <1>0, <2>0, <4>1, <4>2, <4>3
      <3> QED BY <2>1, <3>1, <3>2 DEF ReadBegin
    <2>2. CASE ReadEnd
      <3>1. CASE Refuse
        BY <1>0, <2>0, <3>1 DEF Refuse
      <3>2. CASE /\ body.open /\ Decodes(body.text)
                 /\ roots' = Append(roots, body.text[1]) /\ body' = Closed /\ UNCHANGED stage
        <4>1. body.text[1] \in Readable
          BY <2>0, <3>2 DEF Decodes, Readable
        <4> QED BY <1>0, <2>0, <3>2, <4>1 DEF Closed
      <3> QED BY <2>2, <3>1, <3>2 DEF ReadEnd
    <2>3. CASE this.mark = "Text" /\ ReadText(this.cert)
      <3>1. this.cert \in Certificates
        BY <1>1, <2>3 DEF Lines
      <3>2. body' = body \/ (body.open /\ body' = [open |-> TRUE, text |-> Append(body.text, this.cert)])
        BY <2>3 DEF ReadText
      <3>3. UNCHANGED <<stage, roots>>
        BY <2>3 DEF ReadText
      <3>4. CASE body' = body
        BY <1>0, <2>0, <3>3, <3>4
      <3>5. CASE body.open /\ body' = [open |-> TRUE, text |-> Append(body.text, this.cert)]
        <4>1. body'.open /\ body'.open \in BOOLEAN
          BY <3>5
        <4>3. body'.text \in Seq(Certificates)
          <5>1. body'.text = Append(body.text, this.cert)
            BY <3>5
          <5> QED BY <2>0, <3>1, <5>1, AppendProperties
        <4>2. stage' = stage /\ roots' = roots
          BY <3>3
        <4> QED BY <1>0, <2>0, <4>1, <4>2, <4>3
      <3> QED BY <3>2, <3>4, <3>5
    <2> QED BY <2>1, <2>2, <2>3 DEF ReadLine
  <1>3. line' \in 1..(Len(file') + 1)
    BY <1>0, <1>1
  <1>4. tried' \subseteq 0..Len(roots')
    BY <1>0, <1>2 DEF TypeOK
  <1>5. UNCHANGED <<Chains, Requests>>
    OBVIOUS
  <1> QED BY <1>0, <1>2, <1>3, <1>4 DEF TypeOK, Readable

LEMMA OtherTypes ==
    ASSUME TypeOK, EndFile \/ CheckMaterial \/ TryAnchor
    PROVE  TypeOK'
  <1>1. CASE EndFile
    BY <1>1 DEF EndFile, TypeOK, request
  <1>2. CASE CheckMaterial
    <2>1. \A k \in {"Insufficient", "Error", "Invalid"} : Verdict(k).kind = k
      BY DEF Verdict
    <2>2. \/ stage' = "Attempt" /\ outcome' = outcome
          \/ /\ stage' = "Done"
             /\ outcome' \in {Verdict(k) : k \in {"Insufficient", "Error", "Invalid"}}
      BY <1>2 DEF CheckMaterial, Decide
    <2>3. outcome'.kind \in Kinds /\ (outcome'.kind # "Pending" <=> stage' = "Done")
      BY <1>2, <2>1, <2>2 DEF CheckMaterial, TypeOK, Kinds
    <2>4. stage' \in {"Attempt", "Done"}
      BY <2>2
    <2>5. UNCHANGED <<chain, file, options, line, body, roots, tried, failure, gap>>
      BY <1>2 DEF CheckMaterial, request
    <2> QED BY <2>3, <2>4, <2>5 DEF TypeOK
  <1>3. CASE TryAnchor
    <2>0. /\ stage = "Attempt" /\ UNCHANGED <<chain, file, options, line, body, roots>>
      BY <1>3 DEF TryAnchor, request
    <2>1. PICK i \in Candidates :
            \/ /\ Decide(Details(i)) /\ tried' = tried \cup {i} /\ UNCHANGED <<failure, gap>>
            \/ /\ gap' = TRUE /\ tried' = tried \cup {i}
               /\ UNCHANGED <<stage, outcome, failure>>
            \/ /\ Result(i) \in {"Invalid", "Insufficient"} /\ NoteFailure(i, Result(i))
               /\ UNCHANGED <<stage, outcome, gap>>
      BY <1>3 DEF TryAnchor, Result
    <2>2. i \in 0..Len(roots)
      BY CandidatesAreIndexes DEF TypeOK, Readable
    <2>3. tried' = tried \cup {i}
      BY <2>1 DEF NoteFailure
    <2>4. tried' \subseteq 0..Len(roots')
      BY <2>0, <2>2, <2>3 DEF TypeOK
    <2>5. Details(i).kind = "Valid"
      BY DEF Details
    <2>6. CASE Decide(Details(i)) /\ UNCHANGED <<failure, gap>>
      BY <2>0, <2>4, <2>5, <2>6 DEF Decide, TypeOK, Kinds
    <2>7. CASE gap' = TRUE /\ UNCHANGED <<stage, outcome, failure>>
      BY <2>0, <2>4, <2>7 DEF TypeOK
    <2>8. CASE Result(i) \in {"Invalid", "Insufficient"} /\ NoteFailure(i, Result(i))
               /\ UNCHANGED <<stage, outcome, gap>>
      BY <2>0, <2>4, <2>8 DEF TypeOK, NoteFailure
    <2> QED BY <2>1, <2>6, <2>7, <2>8
  <1> QED BY <1>1, <1>2, <1>3

-----------------------------------------------------------------------------
(* The invariant holds initially and every step keeps it.                  *)
LEMMA SearchStep ==
    ASSUME TypeOK, SearchInv, [Next]_vars
    PROVE  SearchInv'
  <1>1. CASE ReadLine
    <2>1. UNCHANGED <<tried, failure, gap, outcome>> /\ stage = "Roots"
      BY <1>1 DEF ReadLine
    <2>2. stage' \in {"Roots", "Refused"}
      BY <1>1, <2>1 DEF ReadLine, ReadBegin, ReadEnd, ReadText, Refuse
    <2> QED BY <2>1, <2>2 DEF SearchInv, Pending
  <1>2. CASE EndFile
    BY <1>2 DEF EndFile, SearchInv, Pending
  <1>3. CASE CheckMaterial
    <2>1. UNCHANGED <<chain, options, roots, tried, failure, gap>> /\ stage = "Material"
      BY <1>3 DEF CheckMaterial, request
    <2>2. tried = {} /\ gap = FALSE /\ failure = "None" /\ outcome = Pending
      BY <2>1 DEF SearchInv
    <2>3. Searchable' = Searchable
      BY <2>1, GivenFixesTheCandidates DEF Given
    <2>4. CASE Searchable /\ stage' = "Attempt" /\ UNCHANGED outcome
      <3>1. Noted'
        BY <2>1, <2>2 DEF Noted
      <3> QED BY <2>2, <2>3, <2>4, <3>1 DEF SearchInv, Pending
    <2>5. CASE ~Searchable /\ \E k \in {"Insufficient", "Error", "Invalid"} : Decide(Verdict(k))
      <3>1. stage' = "Done" /\ outcome' \in {Verdict(k) : k \in {"Insufficient", "Error", "Invalid"}}
        BY <2>5 DEF Decide
      <3>2. {Verdict(k) : k \in {"Insufficient", "Error", "Invalid"}}'
               = {Verdict(k) : k \in {"Insufficient", "Error", "Invalid"}}
        BY DEF Verdict
      <3>3. Decided'
        BY <2>3, <2>5, <3>1, <3>2 DEF Decided
      <3> QED BY <3>1, <3>3 DEF SearchInv
    <2> QED BY <1>3, <2>4, <2>5 DEF CheckMaterial, Searchable
  <1>4. CASE TryAnchor
    BY <1>4, TriedStep DEF TypeOK
  <1>5. CASE Conclude
    <2>1. UNCHANGED <<chain, options, roots, tried, failure, gap>> /\ stage = "Attempt"
      BY <1>5 DEF Conclude, request
    <2>2. Noted /\ Searchable
      BY <2>1 DEF SearchInv
    <2>3. /\ Candidates' = Candidates /\ Searchable' = Searchable
          /\ \A i : Result(i)' = Result(i)
      BY <2>1, GivenFixesTheCandidates DEF Given
    <2>4. Noted'
      BY <2>1, <2>2, <2>3 DEF Noted
    <2>5. stage' = "Done" /\ outcome' = Verdict(Concluded)' /\ tried' = Candidates'
      BY <1>5, <2>1, <2>3 DEF Conclude, Decide, Verdict, Concluded
    <2> QED BY <2>2, <2>3, <2>4, <2>5 DEF SearchInv, Decided
  <1>6. CASE UNCHANGED vars
    <2>1. UNCHANGED <<chain, options, roots, tried, failure, gap, outcome, stage>>
      BY <1>6 DEF vars, request
    <2>2. /\ Candidates' = Candidates /\ Searchable' = Searchable
          /\ (\A i : Result(i)' = Result(i)) /\ (\A i : Details(i)' = Details(i))
          /\ \A i, j : Ahead(i, j)' = Ahead(i, j)
      BY <2>1, GivenFixesTheCandidates DEF Given
    <2>3. Noted' <=> Noted
      BY <2>1, <2>2 DEF Noted
    <2>4. \A i : FoundBy(i)' <=> FoundBy(i)
      BY <2>1, <2>2 DEF FoundBy
    <2>5. Decided' <=> Decided
      BY <2>1, <2>2, <2>3, <2>4 DEF Decided, Verdict, Concluded
    <2> QED BY <2>1, <2>2, <2>3, <2>5 DEF SearchInv, Pending
  <1> QED BY <1>1, <1>2, <1>3, <1>4, <1>5, <1>6 DEF Next, Finished

LEMMA TypeStep ==
    ASSUME TypeOK, SearchInv, [Next]_vars
    PROVE  TypeOK'
  <1>1. CASE Conclude
    <2>1. UNCHANGED <<chain, file, options, line, body, roots, tried, failure, gap>>
      BY <1>1 DEF Conclude, request
    <2>2. Noted /\ Searchable /\ tried = Candidates /\ stage = "Attempt"
      BY <1>1 DEF Conclude, SearchInv
    <2>3. Concluded \in {"Unsupported", "Invalid", "Insufficient"}
      <3>1. CASE gap
        BY <3>1 DEF Concluded
      <3>2. CASE ~gap
        <4>1. failure # "None"
          BY <2>2, <3>2 DEF Noted, Searchable
        <4> QED BY <2>2, <3>2, <4>1 DEF Concluded, Noted
      <3> QED BY <3>1, <3>2
    <2>4. outcome'.kind \in Kinds /\ outcome'.kind # "Pending" /\ stage' = "Done"
      BY <1>1, <2>3 DEF Conclude, Decide, Verdict, Kinds
    <2>5. /\ stage' \in {"Roots", "Material", "Attempt", "Done", "Refused"}
          /\ outcome'.kind # "Pending" <=> stage' = "Done"
      BY <2>4
    <2> QED BY <2>1, <2>4, <2>5 DEF TypeOK
  <1>2. CASE Finished \/ UNCHANGED vars
    BY <1>2 DEF Finished, vars, request, TypeOK
  <1> QED BY <1>1, <1>2, ReadLineTypes, OtherTypes DEF Next

LEMMA InitialTypes ==
    ASSUME Init
    PROVE  TypeOK /\ SearchInv
  <1>1. file \in Files \cup {<<>>} /\ Len(file) \in Nat
    BY FileTypes DEF Init
  <1>2. body.open = FALSE /\ body.text = <<>>
    BY DEF Init, Closed
  <1>3. outcome = Pending /\ outcome.kind = "Pending" /\ stage \in {"Roots", "Material"}
    BY DEF Init, Pending
  <1>4. body.text \in Seq(Certificates) /\ roots \in Seq({c \in Certificates : c.readable})
    BY <1>2, EmptySeq DEF Init
  <1>5. body.open \in BOOLEAN
    BY <1>2
  <1>6. TypeOK
    <2>1. chain \in Chains /\ options \in Requests /\ line \in 1..(Len(file) + 1)
      BY <1>1 DEF Init
    <2>2. /\ stage \in {"Roots", "Material", "Attempt", "Done", "Refused"}
          /\ outcome.kind \in Kinds /\ (outcome.kind # "Pending" <=> stage = "Done")
      BY <1>3 DEF Kinds
    <2>3. ~body.open => body.text = <<>>
      BY <1>2
    <2>4. /\ tried \subseteq 0..Len(roots) /\ gap \in BOOLEAN
          /\ failure \in {"None", "Invalid", "Insufficient"}
      BY DEF Init
    <2> QED BY <1>1, <1>4, <1>5, <2>1, <2>2, <2>3, <2>4 DEF TypeOK
  <1> QED BY <1>3, <1>6 DEF Init, SearchInv

(* The inductive invariant of the module.                                  *)
THEOREM SearchInvariant == Spec => [](TypeOK /\ SearchInv)
  <1>1. Init => TypeOK /\ SearchInv
    BY InitialTypes
  <1>2. TypeOK /\ SearchInv /\ [Next]_vars => (TypeOK /\ SearchInv)'
    BY SearchStep, TypeStep
  <1> QED BY <1>1, <1>2, PTL DEF Spec

(* Every variable keeps its type: in particular the roots a run anchors to *)
(* are readable certificates and an outcome is one of the five.            *)
THEOREM ChainTypeCorrect == Spec => []TypeOK
  BY SearchInvariant, PTL

(* A valid outcome is the details of a candidate that an attempt accepted. *)
LEMMA ValidIsFound ==
    ASSUME TypeOK, SearchInv, outcome.kind = "Valid"
    PROVE  Searchable /\ \E i \in Candidates : FoundBy(i)
  <1>1. stage = "Done" /\ Decided
    BY DEF SearchInv, TypeOK
  <1>2. outcome \notin {Verdict(k) : k \in {"Insufficient", "Error", "Invalid"}}
    BY DEF Verdict
  <1>3. Noted => outcome # Verdict(Concluded)
    <2>1. Noted => Concluded # "Valid"
      BY DEF Noted, Concluded
    <2>2. Verdict(Concluded).kind = Concluded
      BY DEF Verdict
    <2> QED BY <2>1, <2>2
  <1> QED BY <1>1, <1>2, <1>3 DEF Decided

(* The root reported is the statement's own topmost certificate whenever   *)
(* the operator supplied it and the path from it holds.                    *)
LEMMA ExactFromSearch ==
    ASSUME TypeOK, SearchInv
    PROVE  ExactCopyIsTheAnchor
  <1> SUFFICES ASSUME outcome.kind = "Valid", outcome.root # Top,
                      NEW j \in Candidates, Exact(j), Result(j) = "Valid"
               PROVE  FALSE
    BY DEF ExactCopyIsTheAnchor, Result
  <1>1. PICK i \in Candidates : FoundBy(i)
    BY ValidIsFound
  <1>2. outcome.root = Anchor(i)
    BY <1>1 DEF FoundBy, Details
  <1>3. ~Exact(i)
    BY <1>2 DEF Exact, Anchor
  <1>4. Ahead(j, i)
    BY <1>3 DEF Ahead
  <1> QED BY <1>1, <1>4 DEF FoundBy

(* In every behaviour the anchor of a valid chain is the supplied copy of  *)
(* the statement's own top, if the path from that copy holds.              *)
THEOREM ExactCopyAnchors == Spec => []ExactCopyIsTheAnchor
  BY ExactFromSearch, SearchInvariant, PTL

-----------------------------------------------------------------------------
(* The latest start on a path is that of one of its certificates, so it is *)
(* no time before the epoch: "predates the Unix epoch" is said only of a   *)
(* time that was asked for, and then of every candidate alike.             *)
LEMMA LeastIn ==
    ASSUME NEW T \in SUBSET Nat, T # {}
    PROVE  \E x \in T : \A y \in T : x <= y
  <1> DEFINE R == OpToRel(<, Nat)
  <1>1. IsWellFoundedOn(R, Nat)
    BY NatLessThanWellFounded
  <1>2. \A x, y \in Nat : y < x => <<y, x>> \in R
    BY DEF OpToRel
  <1> HIDE DEF R
  <1>3. PICK x \in T : \A y \in T : ~ (<<y, x>> \in R)
    BY <1>1, WFMin
  <1>4. \A y \in T : y \in Nat /\ ~(y < x)
    BY <1>2, <1>3
  <1> QED BY <1>4

(* A sum of naturals is one, and no less than what either term bounds.      *)
LEMMA SumIsMore == \A a, b, c \in Nat : b + c \in Nat /\ c <= b + c /\ (a <= b => a <= b + c)
  OBVIOUS

LEMMA StartsAreBounded ==
    ASSUME NEW p \in Seq(Certificate)
    PROVE  \E b \in Nat : \A k \in 1..Len(p) : p[k].from <= b
  <1> DEFINE Bounds(m) == {b \in Nat : \A k \in 1..m : p[k].from <= b}
             S == {m \in 0..Len(p) : Bounds(m) = {}}
  <1>1. Len(p) \in Nat /\ \A k \in 1..Len(p) : p[k].from \in Nat
    <2>1. Len(p) \in Nat /\ \A k \in 1..Len(p) : p[k] \in Certificate
      OBVIOUS
    <2>2. \A c \in Certificate : c.from \in Nat
      BY DEF Certificate
    <2> QED BY <2>1, <2>2
  <1>2. S = {}
    <2> SUFFICES ASSUME S # {} PROVE FALSE
      OBVIOUS
    <2>1. PICK m \in S : \A y \in S : m <= y
      <3>1. S \in SUBSET Nat
        BY <1>1
      <3> HIDE DEF S
      <3> QED BY <3>1, LeastIn
    <2>2. m # 0
      <3>1. 0 \in Bounds(0)
        OBVIOUS
      <3> QED BY <3>1
    <2>3. m - 1 \in 0..Len(p) /\ m - 1 \notin S
      <3>1. m \in 0..Len(p)
        OBVIOUS
      <3> HIDE DEF S
      <3>2. m - 1 \in 0..Len(p) /\ ~(m <= m - 1)
        BY <1>1, <2>2, <3>1
      <3> QED BY <2>1, <3>2
    <2>4. PICK b \in Nat : \A k \in 1..(m - 1) : p[k].from <= b
      BY <2>3
    <2>5. p[m].from \in Nat /\ m \in 1..Len(p)
      BY <1>1, <2>2
    <2>6. b + p[m].from \in Bounds(m)
      <3>1. ASSUME NEW k \in 1..m PROVE p[k].from <= b + p[m].from
        <4>1. CASE k = m
          <5>1. p[k].from = p[m].from /\ b \in Nat /\ p[m].from \in Nat
            BY <2>4, <2>5, <4>1
          <5> QED BY ONLY <5>1, SumIsMore
        <4>2. CASE k # m
          <5>1. k \in 1..(m - 1) /\ k \in 1..Len(p)
            BY <1>1, <2>5, <4>2
          <5>2. p[k].from \in Nat /\ p[k].from <= b
            BY <1>1, <2>4, <5>1
          <5>3. b \in Nat /\ p[m].from \in Nat
            BY <2>4, <2>5
          <5> QED BY ONLY <5>2, <5>3, SumIsMore
        <4> QED BY <4>1, <4>2
      <3>2. b \in Nat /\ p[m].from \in Nat
        BY <2>4, <2>5
      <3>3. b + p[m].from \in Nat
        BY ONLY <3>2, SumIsMore
      <3> HIDE DEF S
      <3> QED BY ONLY <3>1, <3>3
    <2>7. Bounds(m) = {}
      <3> HIDE DEF Bounds
      <3> QED OBVIOUS
    <2> HIDE DEF Bounds, S
    <2> QED BY <2>6, <2>7, Zenon
  <1>3. Bounds(Len(p)) # {}
    <2>1. Len(p) \in 0..Len(p)
      BY <1>1
    <2>2. Len(p) \notin S
      <3> HIDE DEF S
      <3> QED BY <1>2, Zenon
    <2> HIDE DEF Bounds
    <2> QED BY <2>1, <2>2
  <1> QED BY <1>3

LEMMA LatestStart ==
    ASSUME NEW p \in Seq(Certificate), p # <<>>
    PROVE  /\ Window(p).from \in Nat
           /\ \A k \in DOMAIN p : p[k].from <= Window(p).from
           /\ \E k \in DOMAIN p : p[k].from = Window(p).from
  <1> DEFINE F == {c.from : c \in Members(p)}
             B == {b \in Nat : \A t \in F : t <= b}
  <1>1. F \subseteq Nat /\ p[1].from \in F /\ \A k \in 1..Len(p) : p[k].from \in F
    <2>1. \A k \in 1..Len(p) : p[k] \in Members(p) /\ p[k].from \in Nat
      <3>1. \A k \in 1..Len(p) : p[k] \in Certificate
        OBVIOUS
      <3>2. \A c \in Certificate : c.from \in Nat
        BY DEF Certificate
      <3> QED BY <3>1, <3>2 DEF Members
    <2>2. 1 \in 1..Len(p)
      BY EmptySeq
    <2>3. \A c \in Members(p) : c.from \in Nat
      BY <2>1 DEF Members
    <2> QED BY <2>1, <2>2, <2>3
  <1>2. B # {}
    <2>1. PICK b \in Nat : \A k \in 1..Len(p) : p[k].from <= b
      BY StartsAreBounded
    <2>2. \A t \in F : t <= b
      BY <2>1 DEF Members
    <2> QED BY <2>2
  <1>3. PICK u \in B : \A b \in B : u <= b
    <2>1. B \in SUBSET Nat
      OBVIOUS
    <2> HIDE DEF B
    <2> QED BY <1>2, <2>1, LeastIn
  <1>4. u \in F
    <2> SUFFICES ASSUME u \notin F PROVE FALSE
      OBVIOUS
    <2>1. \A t \in F : t \in Nat /\ t <= u /\ t # u
      BY <1>1, <1>3
    <2>2. u - 1 \in Nat /\ \A t \in F : t <= u - 1
      <3>1. u \in Nat
        OBVIOUS
      <3> HIDE DEF F, B
      <3>2. \A t \in F : t \in Nat /\ t <= u - 1
        BY <2>1, <3>1
      <3>3. p[1].from \in F
        BY <1>1
      <3>4. u - 1 \in Nat
        BY <2>1, <3>1, <3>3
      <3> QED BY <3>2, <3>4
    <2>3. u - 1 \in B
      BY <2>2
    <2> QED BY <1>3, <2>2, <2>3
  <1>5. \A c \in Members(p) : c.from <= u
    BY <1>3
  <1>6. Window(p).from = CHOOSE t \in F : \A c \in Members(p) : c.from <= t
    BY DEF Window
  <1>7. Window(p).from \in F /\ \A c \in Members(p) : c.from <= Window(p).from
    <2> HIDE DEF F
    <2> QED BY <1>4, <1>5, <1>6
  <1> QED BY <1>1, <1>7 DEF Members

LEMMA PathsAreCertificates ==
    ASSUME TypeOK, Searchable, NEW i \in Candidates
    PROVE  Path(i) \in Seq(Certificate) /\ Path(i) # <<>>
  <1>1. chain \in Seq(Certificate) /\ chain # <<>>
    BY ChainsAssumption, CertificatesAssumption DEF TypeOK, Searchable, Absent
  <1>2. Len(chain) \in Nat \ {0} /\ \A k \in 1..Len(chain) : chain[k] \in Certificate
    BY <1>1, EmptySeq
  <1>3. chain[1] \in Certificate /\ Top \in Certificate
    BY <1>2 DEF Top, Last
  <1>4. Anchor(i) \in Certificate
    <2>1. i = 0 \/ i \in DOMAIN roots
      BY DEF Candidates
    <2>2. \A k \in DOMAIN roots : roots[k] \in Certificate
      BY CertificatesAssumption DEF TypeOK
    <2> QED BY <1>3, <2>1, <2>2 DEF Anchor
  <1> DEFINE s == SubSeq(chain, 2, Highest(i))
  <1>5. s \in Seq(Certificate)
    <2>1. Highest(i) \in {Len(chain) - 1, Len(chain)}
      BY DEF Highest
    <2> QED BY <1>1, <1>2, <2>1
  <1> HIDE DEF s
  <1>6. Reverse(s) \in Seq(Certificate)
    BY <1>5 DEF Reverse
  <1>7. <<Anchor(i)>> \in Seq(Certificate) /\ <<chain[1]>> \in Seq(Certificate)
    BY <1>3, <1>4
  <1>8. Path(i) = <<Anchor(i)>> \o Reverse(s) \o <<chain[1]>>
    BY DEF Path, s
  <1> HIDE DEF s
  <1> QED BY <1>6, <1>7, <1>8

LEMMA TimesAreNeverMixed ==
    ASSUME TypeOK, Searchable, NEW i \in Candidates, NEW j \in Candidates,
           Result(i) = "Insufficient"
    PROVE  Result(j) \in {"Insufficient", "Unsupported"}
  <1>1. TimeOf(Path(i)) < 0
    BY DEF Result, Attempted
  <1>2. Window(Path(i)).from \in Nat
    BY PathsAreCertificates, LatestStart
  <1>3. options.timed
    BY <1>1, <1>2 DEF TimeOf
  <1>4. TimeOf(Path(i)) = TimeOf(Path(j)) /\ ~NeverLive(Path(j))
    BY <1>3 DEF TimeOf, NeverLive
  <1> QED BY <1>1, <1>4 DEF Result, Attempted

(* The kind of outcome depends on the candidates and not on their order in *)
(* the bundle, for any chain, bundle and options.                          *)
LEMMA OrderFromSearch ==
    ASSUME TypeOK, SearchInv
    PROVE  BundleOrderIsImmaterial
  <1> DEFINE kinds == {Result(i) : i \in Candidates}
  <1> SUFFICES ASSUME Examined, ~Truncated, Candidates # {}
               PROVE  \/ outcome.kind = "Valid" /\ "Valid" \in kinds
                      \/ /\ outcome.kind = "Unsupported" /\ "Unsupported" \in kinds
                         /\ "Valid" \notin kinds
                      \/ kinds = {outcome.kind}
    BY DEF BundleOrderIsImmaterial, Result
  <1>1. Searchable /\ Decided
    BY DEF Examined, Searchable, SearchInv
  <1>2. CASE \E i \in Candidates : FoundBy(i)
    BY <1>2 DEF FoundBy, Details
  <1>3. CASE Noted /\ tried = Candidates /\ outcome = Verdict(Concluded)
    <2>1. outcome.kind = Concluded /\ \A i \in Candidates : Result(i) # "Valid"
      BY <1>3 DEF Verdict, Noted
    <2>2. CASE gap
      BY <1>3, <2>1, <2>2 DEF Noted, Concluded
    <2>3. CASE ~gap
      <3>1. \A i \in Candidates : Result(i) \in {"Invalid", "Insufficient"}
        BY <1>3, <2>3, ResultKinds DEF Noted
      <3>2. PICK i \in Candidates : Result(i) = failure
        BY <1>3, <3>1 DEF Noted
      <3>3. \A j \in Candidates : Result(j) = failure
        <4>1. CASE failure = "Insufficient"
          BY <1>1, <3>1, <3>2, <4>1, TimesAreNeverMixed
        <4>2. CASE failure = "Invalid"
          BY <1>1, <3>1, <3>2, <4>2, TimesAreNeverMixed
        <4> QED BY <3>1, <3>2, <4>1, <4>2
      <3>4. outcome.kind = failure
        BY <2>1, <2>3 DEF Concluded
      <3> QED BY <3>2, <3>3, <3>4
    <2> QED BY <2>2, <2>3
  <1> QED BY <1>1, <1>2, <1>3 DEF Decided

(* In every behaviour two bundles of the same roots get the same outcome.  *)
THEOREM OrderIsImmaterial == Spec => []BundleOrderIsImmaterial
  BY OrderFromSearch, SearchInvariant, PTL

-----------------------------------------------------------------------------
(* Reading the root file: every block begun so far is a root already, in   *)
(* its place, or the one that is open, whose text follows it line by line. *)
TextLine(c) == [mark |-> "Text", cert |-> c]

Kept(k) == /\ Cardinality(Begun(k)) \in 1..Len(roots)
           /\ file[k + 1] = TextLine(roots[Cardinality(Begun(k))])
Current(k) == /\ body.open /\ Cardinality(Begun(k)) = Len(roots) + 1
              /\ line = k + 1 + Len(body.text)
              /\ \A i \in 1..Len(body.text) : file[k + i] = TextLine(body.text[i])

ReadInv ==
    stage = "Roots" =>
        /\ body.open  => Cardinality(Begun(line - 1)) = Len(roots) + 1
        /\ ~body.open => Cardinality(Begun(line - 1)) = Len(roots)
        /\ \A k \in Begun(line - 1) : Kept(k) \/ Current(k)

LEMMA BegunGrows ==
    ASSUME NEW n \in Nat \ {0}
    PROVE  /\ IsFiniteSet(Begun(n - 1)) /\ Cardinality(Begun(n - 1)) \in Nat
           /\ file[n].mark \in {"Begin", "BeginOther"} =>
                 /\ Begun(n) = Begun(n - 1) \cup {n}
                 /\ Cardinality(Begun(n)) = Cardinality(Begun(n - 1)) + 1
           /\ file[n].mark \notin {"Begin", "BeginOther"} => Begun(n) = Begun(n - 1)
  <1>1. IsFiniteSet(1..(n - 1))
    BY FS_Interval
  <1>2. Begun(n - 1) \subseteq 1..(n - 1)
    BY DEF Begun
  <1>3. IsFiniteSet(Begun(n - 1)) /\ Cardinality(Begun(n - 1)) \in Nat
    BY <1>1, <1>2, FS_Subset, FS_CardinalityType
  <1>4. n \notin Begun(n - 1)
    BY <1>2
  <1>5. file[n].mark \in {"Begin", "BeginOther"} => Begun(n) = Begun(n - 1) \cup {n}
    BY DEF Begun
  <1>6. file[n].mark \notin {"Begin", "BeginOther"} => Begun(n) = Begun(n - 1)
    BY DEF Begun
  <1> QED BY <1>3, <1>4, <1>5, <1>6, FS_AddElement

LEMMA ReadStep ==
    ASSUME TypeOK, ReadInv, ReadLine, stage' = "Roots"
    PROVE  ReadInv'
  <1>0. /\ stage = "Roots" /\ line' = line + 1 /\ UNCHANGED file
        /\ line \in Nat \ {0} /\ line' - 1 = line /\ line \in 1..Len(file)
    BY FileTypes DEF ReadLine, request, TypeOK
  <1>1. file[line] \in Lines
    BY <1>0, FileTypes DEF TypeOK
  <1>2. \A k : Begun(k)' = Begun(k)
    BY <1>0 DEF Begun
  <1>3. /\ body.open  => Cardinality(Begun(line - 1)) = Len(roots) + 1
        /\ ~body.open => Cardinality(Begun(line - 1)) = Len(roots)
        /\ \A k \in Begun(line - 1) : Kept(k) \/ Current(k)
    BY <1>0 DEF ReadInv
  <1>4. /\ Len(roots) \in Nat /\ roots \in Seq(Readable)
        /\ Len(body.text) \in Nat /\ body.text \in Seq(Certificates)
    BY DEF TypeOK, Readable
  <1>5. CASE file[line].mark = "Begin" /\ ~body.open /\ body' = Opened /\ roots' = roots
    <2>1. /\ Begun(line) = Begun(line - 1) \cup {line}
          /\ Cardinality(Begun(line)) = Len(roots) + 1
      BY <1>0, <1>3, <1>5, BegunGrows
    <2>2. body'.open /\ Len(body'.text) = 0
      BY <1>5, EmptySeq DEF Opened
    <2>3. \A k \in Begun(line - 1) : Kept(k)'
      BY <1>0, <1>2, <1>3, <1>5 DEF Kept, Current, TextLine
    <2>4. \A k \in {line} : Current(k)'
      <3> SUFFICES ASSUME NEW k, k = line PROVE Current(k)'
        OBVIOUS
      <3>1. Cardinality(Begun(k)') = Len(roots') + 1
        BY <1>2, <1>5, <2>1
      <3>2. line' = k + 1 + Len(body'.text)
        BY <1>0, <2>2
      <3>3. \A i \in 1..Len(body'.text) : FALSE
        BY <2>2
      <3> QED BY <2>2, <3>1, <3>2, <3>3 DEF Current
    <2> QED BY <1>0, <1>2, <1>5, <2>1, <2>2, <2>3, <2>4 DEF ReadInv
  <1>6. CASE /\ file[line].mark = "End" /\ body.open /\ Decodes(body.text)
             /\ roots' = Append(roots, body.text[1]) /\ body' = Closed
    <2>1. Begun(line) = Begun(line - 1) /\ Cardinality(Begun(line)) = Len(roots) + 1
      BY <1>0, <1>3, <1>6, BegunGrows
    <2>2. body.text[1] \in Readable /\ Len(body.text) = 1
      BY <1>4, <1>6 DEF Decodes, Readable
    <2>3. /\ Len(roots') = Len(roots) + 1 /\ roots'[Len(roots) + 1] = body.text[1]
          /\ \A i \in 1..Len(roots) : roots'[i] = roots[i]
      BY <1>4, <1>6, <2>2, AppendProperties
    <2>4. ~body'.open
      BY <1>6 DEF Closed
    <2>5. ASSUME NEW k \in Begun(line - 1) PROVE Kept(k)'
      <3>1. CASE Kept(k)
        BY <1>0, <1>2, <1>4, <2>3, <3>1 DEF Kept, TextLine
      <3>2. CASE Current(k)
        <4>1. file[k + 1] = TextLine(body.text[1])
          BY <2>2, <3>2 DEF Current
        <4>2. Cardinality(Begun(k)) = Len(roots')
          BY <2>3, <3>2 DEF Current
        <4>3. Len(roots') \in 1..Len(roots') /\ roots'[Len(roots')] = body.text[1]
          BY <1>4, <2>3
        <4> QED BY <1>0, <1>2, <4>1, <4>2, <4>3 DEF Kept, TextLine
      <3> QED BY <1>3, <3>1, <3>2
    <2> QED BY <1>0, <1>2, <2>1, <2>3, <2>4, <2>5 DEF ReadInv
  <1>7. CASE file[line].mark = "Text" /\ ReadText(file[line].cert)
    <2>0. roots' = roots /\ Begun(line) = Begun(line - 1)
      BY <1>0, <1>7, BegunGrows DEF ReadText
    <2>1. CASE ~body.open
      <3>1. body' = body
        BY <1>7, <2>1 DEF ReadText
      <3>2. \A k \in Begun(line - 1) : Kept(k)'
        BY <1>0, <1>2, <1>3, <2>0, <2>1 DEF Kept, Current, TextLine
      <3> QED BY <1>0, <1>2, <1>3, <2>0, <2>1, <3>1, <3>2 DEF ReadInv
    <2>2. CASE body.open
      <3>0. file[line] = TextLine(file[line].cert) /\ file[line].cert \in Certificates
        BY <1>1, <1>7 DEF Lines, TextLine
      <3>1. body'.open /\ body'.text = Append(body.text, file[line].cert)
        BY <1>7, <2>2 DEF ReadText
      <3>2. /\ Len(body'.text) = Len(body.text) + 1
            /\ body'.text[Len(body.text) + 1] = file[line].cert
            /\ \A i \in 1..Len(body.text) : body'.text[i] = body.text[i]
        BY <1>4, <3>0, <3>1, AppendProperties
      <3>3. ASSUME NEW k \in Begun(line - 1) PROVE Kept(k)' \/ Current(k)'
        <4>1. CASE Kept(k)
          BY <1>0, <1>2, <2>0, <4>1 DEF Kept, TextLine
        <4>2. CASE Current(k)
          <5>1. k \in Nat
            BY <1>0 DEF Begun
          <5>2. line' = k + 1 + Len(body'.text) /\ k + Len(body.text) + 1 = line
            <6>1. line = k + 1 + Len(body.text)
              BY <4>2 DEF Current
            <6>2. line' = line + 1 /\ Len(body'.text) = Len(body.text) + 1
              BY <1>0, <3>2
            <6>3. Len(body.text) \in Nat
              BY <1>4
            <6> DEFINE l == Len(body.text)
                       m == Len(body'.text)
            <6> SUFFICES line' = k + 1 + m /\ k + l + 1 = line
              OBVIOUS
            <6> HIDE DEF l, m
            <6>4. l \in Nat /\ m = l + 1 /\ line = k + 1 + l /\ line' = line + 1
              BY <6>1, <6>2, <6>3 DEF l, m
            <6> QED BY <5>1, <6>4
          <5>3. ASSUME NEW i \in 1..Len(body'.text)
                PROVE  file[k + i] = TextLine(body'.text[i])
            <6>1. CASE i = Len(body.text) + 1
              <7>1. k + i = line
                BY <1>4, <5>1, <5>2, <6>1
              <7> QED BY <3>0, <3>2, <6>1, <7>1
            <6>2. CASE i \in 1..Len(body.text)
              BY <3>2, <4>2, <6>2 DEF Current, TextLine
            <6> QED BY <1>4, <3>2, <6>1, <6>2
          <5>4. Cardinality(Begun(k)') = Len(roots') + 1
            BY <1>2, <2>0, <4>2 DEF Current
          <5> QED BY <1>0, <3>1, <5>2, <5>3, <5>4 DEF Current, TextLine
        <4> QED BY <1>3, <4>1, <4>2
      <3> QED BY <1>0, <1>2, <1>3, <2>0, <2>2, <3>1, <3>3 DEF ReadInv
    <2> QED BY <2>1, <2>2
  <1> QED BY <1>0, <1>5, <1>6, <1>7 DEF ReadLine, ReadBegin, ReadEnd, Refuse

LEMMA OmissionStep ==
    ASSUME TypeOK, ReadInv, NothingIsOmitted, [Next]_vars
    PROVE  ReadInv' /\ NothingIsOmitted'
  <1>1. CASE ReadLine
    <2>1. stage' \in {"Roots", "Refused"}
      BY <1>1 DEF ReadLine, ReadBegin, ReadEnd, ReadText, Refuse
    <2>2. ReadInv'
      BY <1>1, ReadStep DEF ReadInv
    <2> QED BY <2>1, <2>2 DEF NothingIsOmitted
  <1>2. CASE EndFile
    <2>1. UNCHANGED <<file, roots, options>> /\ stage = "Roots" /\ stage' \in {"Refused", "Material"}
      BY <1>2 DEF EndFile, request
    <2>2. line - 1 = Len(file)
      BY <1>2, FileTypes DEF EndFile, TypeOK
    <2>3. stage' = "Material" => ~body.open
      BY <1>2 DEF EndFile
    <2>4. stage' = "Material" =>
             /\ Cardinality(Begun(Len(file))) = Len(roots)
             /\ \A k \in Begun(Len(file)) : Kept(k)
      BY <2>1, <2>2, <2>3 DEF ReadInv, Current
    <2> QED BY <2>1, <2>4 DEF ReadInv, NothingIsOmitted, Kept, Begun, TextLine
  <1>3. CASE CheckMaterial \/ TryAnchor \/ Conclude \/ Finished \/ UNCHANGED vars
    <2>1. UNCHANGED <<file, roots, options, line, body>>
      BY <1>3 DEF CheckMaterial, TryAnchor, Conclude, Finished, vars, request
    <2>2. \/ stage' = stage
          \/ stage \notin {"Roots", "Refused"} /\ stage' \notin {"Roots", "Refused"}
      BY <1>3 DEF CheckMaterial, TryAnchor, Conclude, Finished, vars, Decide, NoteFailure
    <2>3. /\ \A k : Begun(k)' = Begun(k) /\ Kept(k)' = Kept(k) /\ Current(k)' = Current(k)
          /\ Begun(Len(file))' = Begun(Len(file)) /\ Begun(line - 1)' = Begun(line - 1)
      BY <2>1 DEF Kept, Current, Begun
    <2>4. CASE stage' = stage
      BY <2>1, <2>3, <2>4 DEF ReadInv, NothingIsOmitted
    <2>5. CASE stage \notin {"Roots", "Refused"} /\ stage' \notin {"Roots", "Refused"}
      BY <2>1, <2>3, <2>5 DEF ReadInv, NothingIsOmitted
    <2> QED BY <2>2, <2>4, <2>5
  <1> QED BY <1>1, <1>2, <1>3 DEF Next

(* Each block begun in an accepted file is one certificate of the bundle,  *)
(* in its place, for any file: the operator anchors to all of it or none.  *)
THEOREM RootsAreWhole == Spec => []NothingIsOmitted
  <1>1. Init => ReadInv /\ NothingIsOmitted
    <2> SUFFICES ASSUME Init PROVE ReadInv /\ NothingIsOmitted
      OBVIOUS
    <2>1. Begun(line - 1) = {} /\ ~body.open /\ Len(roots) = 0
      BY EmptySeq DEF Init, Begun, Closed
    <2>2. options.rooted => stage = "Roots"
      BY DEF Init
    <2> QED BY <2>1, <2>2, FS_EmptySet DEF ReadInv, NothingIsOmitted
  <1>2. TypeOK /\ ReadInv /\ NothingIsOmitted /\ [Next]_vars => (ReadInv /\ NothingIsOmitted)'
    BY OmissionStep
  <1> QED BY <1>1, <1>2, ChainTypeCorrect, PTL DEF Spec

-----------------------------------------------------------------------------
(* The paths that are tried are the ways there are: what an anchor was put *)
(* in the place of, or on top of, in terms of positions of the chain.      *)
Above(r)   == <<r>> \o Reverse(chain)
InPlace(r) == <<r>> \o Reverse(Front(chain))

LEMMA PathPositions ==
    ASSUME NEW S, chain \in Seq(S), chain # <<>>, NEW r \in S
    PROVE  LET n == Len(chain) IN
           /\ Above(r) \in Seq(S) /\ Len(Above(r)) = n + 1 /\ Above(r)[1] = r
           /\ \A k \in 1..n : Above(r)[k + 1] = chain[n - k + 1]
           /\ InPlace(r) \in Seq(S) /\ Len(InPlace(r)) = n /\ InPlace(r)[1] = r
           /\ \A k \in 1..(n - 1) : InPlace(r)[k + 1] = chain[n - k]
  <1> DEFINE n == Len(chain)
             f == Front(chain)
  <1>1. n \in Nat \ {0} /\ \A k \in 1..n : chain[k] \in S
    BY EmptySeq
  <1>2. f \in Seq(S) /\ Len(f) = n - 1 /\ \A k \in 1..(n - 1) : f[k] = chain[k]
    <2>1. \A k \in 1..(n - 1) : chain[k] \in S
      BY <1>1
    <2>2. f = SubSeq(chain, 1, n - 1)
      BY DEF Front
    <2> HIDE DEF n, f
    <2> QED BY <1>1, <2>1, <2>2, SubSeqProperties
  <1>3. ASSUME NEW s \in Seq(S)
        PROVE  /\ <<r>> \o Reverse(s) \in Seq(S) /\ Len(<<r>> \o Reverse(s)) = Len(s) + 1
               /\ (<<r>> \o Reverse(s))[1] = r
               /\ \A k \in 1..Len(s) : (<<r>> \o Reverse(s))[k + 1] = s[Len(s) - k + 1]
    <2>1. /\ Reverse(s) \in Seq(S) /\ Len(Reverse(s)) = Len(s) /\ Len(s) \in Nat
          /\ \A k \in 1..Len(s) : Reverse(s)[k] = s[Len(s) - k + 1]
      BY DEF Reverse
    <2>2. <<r>> \in Seq(S) /\ Len(<<r>>) = 1 /\ <<r>>[1] = r
      OBVIOUS
    <2> DEFINE t == Reverse(s)
               u == <<r>>
    <2> HIDE DEF t, u
    <2>3. /\ u \o t \in Seq(S) /\ Len(u \o t) = Len(u) + Len(t)
          /\ \A i \in 1..(Len(u) + Len(t)) :
                (u \o t)[i] = IF i <= Len(u) THEN u[i] ELSE t[i - Len(u)]
      BY <2>1, <2>2, ConcatProperties DEF t, u
    <2>4. Len(u) = 1 /\ u[1] = r /\ Len(t) = Len(s) /\ Len(s) \in Nat
      BY <2>1, <2>2 DEF t, u
    <2>5. (u \o t)[1] = r /\ \A k \in 1..Len(s) : (u \o t)[k + 1] = t[k]
      BY <2>3, <2>4
    <2> QED BY <2>1, <2>3, <2>4, <2>5 DEF t, u
  <1>4. /\ Above(r) \in Seq(S) /\ Len(Above(r)) = n + 1 /\ Above(r)[1] = r
        /\ \A k \in 1..n : Above(r)[k + 1] = chain[n - k + 1]
    BY <1>3 DEF Above
  <1>5. /\ InPlace(r) \in Seq(S) /\ Len(InPlace(r)) = n /\ InPlace(r)[1] = r
        /\ \A k \in 1..(n - 1) : InPlace(r)[k + 1] = chain[n - k]
    <2>1. InPlace(r) = <<r>> \o Reverse(f)
      BY DEF InPlace
    <2> HIDE DEF n, f
    <2>2. /\ InPlace(r) \in Seq(S) /\ Len(InPlace(r)) = n /\ InPlace(r)[1] = r
          /\ \A k \in 1..(n - 1) : InPlace(r)[k + 1] = f[(n - 1) - k + 1]
      BY <1>1, <1>2, <1>3, <2>1
    <2>3. \A k \in 1..(n - 1) : f[(n - 1) - k + 1] = chain[n - k]
      BY <1>1, <1>2
    <2> QED BY <2>2, <2>3
  <1> QED BY <1>4, <1>5

LEMMA CandidatePath ==
    ASSUME TypeOK, Searchable, NEW i \in Candidates
    PROVE  /\ (i = 0 \/ Exact(i)) /\ Len(chain) > 1 => Path(i) = InPlace(Anchor(i))
           /\ ~((i = 0 \/ Exact(i)) /\ Len(chain) > 1) => Path(i) = Above(Anchor(i))
  <1> DEFINE n == Len(chain)
             r == Anchor(i)
             h == Highest(i)
             s == SubSeq(chain, 2, h)
             t == Reverse(s)
             a == <<r>>
             z == <<chain[1]>>
             S == Certificate
  <1>1. chain \in Seq(S) /\ chain # <<>>
    BY ChainsAssumption, CertificatesAssumption DEF TypeOK, Searchable, Absent
  <1>2. n \in Nat \ {0} /\ \A k \in 1..n : chain[k] \in S
    BY <1>1, EmptySeq
  <1>3. r \in S
    <2>1. i = 0 \/ i \in DOMAIN roots
      BY DEF Candidates
    <2>2. \A k \in DOMAIN roots : roots[k] \in S
      BY CertificatesAssumption DEF TypeOK
    <2> QED BY <1>2, <2>1, <2>2 DEF Anchor, Top, Last
  <1>4. (i = 0 => n > 1) /\ (i = 0 \/ Exact(i) => h = n - 1) /\ (~(i = 0 \/ Exact(i)) => h = n)
    <2>1. roots # <<>> => i # 0
      BY DEF Candidates, Exact, ByName
    <2>2. i = 0 => n # 1
      BY <2>1 DEF Searchable, Absent
    <2>3. h = IF i = 0 \/ Exact(i) THEN n - 1 ELSE n
      BY DEF Highest
    <2> HIDE DEF n, h
    <2> QED BY <1>2, <2>2, <2>3
  <1>5. /\ s \in Seq(S) /\ Len(s) = IF 2 <= h THEN h - 1 ELSE 0
        /\ \A k \in 1..(h - 1) : s[k] = chain[k + 1]
    <2>1. h \in Int /\ \A k \in 2..h : chain[k] \in S
      BY <1>2, <1>4
    <2> HIDE DEF h, n
    <2>2. /\ s \in Seq(S) /\ Len(s) = IF 2 <= h THEN h - 2 + 1 ELSE 0
          /\ \A k \in 1..(h - 2 + 1) : s[k] = chain[2 + k - 1]
      BY <2>1, SubSeqProperties
    <2> HIDE DEF s
    <2> QED BY <2>1, <2>2
  <1> HIDE DEF s, h, r
  <1>6. /\ t \in Seq(S) /\ Len(t) = Len(s) /\ Len(s) \in Nat
        /\ \A k \in 1..Len(s) : t[k] = s[Len(s) - k + 1]
    BY <1>5 DEF Reverse
  <1>7. /\ a \in Seq(S) /\ Len(a) = 1 /\ a[1] = r /\ z \in Seq(S) /\ Len(z) = 1
        /\ z[1] = chain[1]
    BY <1>2, <1>3
  <1> HIDE DEF t, a, z
  <1>8. /\ a \o t \in Seq(S) /\ Len(a \o t) = 1 + Len(s)
        /\ \A k \in 1..(1 + Len(s)) : (a \o t)[k] = IF k <= 1 THEN a[k] ELSE t[k - 1]
    <2>1. a \in Seq(S) /\ t \in Seq(S) /\ Len(a) = 1 /\ Len(t) = Len(s) /\ Len(s) \in Nat
      BY <1>6, <1>7
    <2> HIDE DEF S
    <2>2. /\ a \o t \in Seq(S) /\ Len(a \o t) = Len(a) + Len(t)
          /\ \A k \in 1..(Len(a) + Len(t)) :
                (a \o t)[k] = IF k <= Len(a) THEN a[k] ELSE t[k - Len(a)]
      BY <2>1, ConcatProperties, ZenonT(40)
    <2> DEFINE b == a \o t
    <2> HIDE DEF b
    <2>3. b \in Seq(S) /\ Len(b) = 1 + Len(s)
      BY <2>1, <2>2 DEF b
    <2>4. \A k \in 1..(1 + Len(s)) : b[k] = IF k <= 1 THEN a[k] ELSE t[k - 1]
      BY <2>1, <2>2 DEF b
    <2> QED BY <2>3, <2>4 DEF b
  <1>9. /\ (a \o t) \o z \in Seq(S) /\ Len((a \o t) \o z) = 2 + Len(s)
        /\ \A k \in 1..(2 + Len(s)) :
              ((a \o t) \o z)[k] = IF k <= 1 + Len(s) THEN (a \o t)[k] ELSE z[k - (1 + Len(s))]
    <2> DEFINE b == a \o t
    <2>1. b \in Seq(S) /\ Len(b) = 1 + Len(s)
      BY <1>8
    <2> HIDE DEF b
    <2>2. /\ b \o z \in Seq(S) /\ Len(b \o z) = Len(b) + Len(z)
          /\ \A k \in 1..(Len(b) + Len(z)) :
                (b \o z)[k] = IF k <= Len(b) THEN b[k] ELSE z[k - Len(b)]
      BY <1>7, <2>1, ConcatProperties
    <2>3. Len(b) + Len(z) = 2 + Len(s)
      BY <1>6, <1>7, <2>1
    <2> QED BY <2>1, <2>2, <2>3 DEF b
  <1>10. Path(i) = (a \o t) \o z
    BY DEF Path, a, t, z, s, r, h
  <1> DEFINE p == Path(i)
  <1>11. /\ p \in Seq(S) /\ Len(p) = 2 + Len(s) /\ p[1] = r /\ p[2 + Len(s)] = chain[1]
         /\ \A k \in 1..Len(s) : p[k + 1] = chain[Len(s) - k + 2]
    <2>0. p = (a \o t) \o z /\ Len(s) \in Nat
      BY <1>6, <1>10
    <2> HIDE DEF p
    <2>1. p \in Seq(S) /\ Len(p) = 2 + Len(s)
      BY <1>9, <2>0
    <2>2. p[1] = r
      BY <1>7, <1>8, <1>9, <2>0
    <2>3. p[2 + Len(s)] = chain[1]
      <3>1. p[2 + Len(s)] = z[2 + Len(s) - (1 + Len(s))]
        BY <1>9, <2>0
      <3>2. 2 + Len(s) - (1 + Len(s)) = 1
        BY <2>0
      <3> QED BY <1>7, <3>1, <3>2
    <2>4. ASSUME NEW k \in 1..Len(s) PROVE p[k + 1] = chain[Len(s) - k + 2]
      <3>0. k + 1 \in 1..(1 + Len(s)) /\ k + 1 \in 1..(2 + Len(s)) /\ k + 1 # 1
            /\ k + 1 <= 1 + Len(s) /\ ~(k + 1 <= 1) /\ (k + 1) - 1 = k
        BY <2>0
      <3>1. p[k + 1] = (a \o t)[k + 1]
        BY <1>9, <2>0, <3>0
      <3>2. (a \o t)[k + 1] = t[k]
        BY <1>8, <3>0
      <3>3. t[k] = s[Len(s) - k + 1]
        BY <1>6
      <3>4. Len(s) - k + 1 \in 1..(h - 1)
        <4>1. Len(s) = h - 1 /\ h \in Int
          BY <1>2, <1>4, <1>5, <2>0
        <4> HIDE DEF n
        <4> QED BY <2>0, <4>1
      <3>5. s[Len(s) - k + 1] = chain[Len(s) - k + 1 + 1]
        BY <1>5, <3>4
      <3>6. Len(s) - k + 1 + 1 = Len(s) - k + 2
        BY <2>0
      <3> QED BY <3>1, <3>2, <3>3, <3>5, <3>6
    <2> QED BY <2>1, <2>2, <2>3, <2>4
  <1>12. ASSUME (i = 0 \/ Exact(i)) /\ n > 1 PROVE p = InPlace(r)
    <2>1. Len(s) = n - 2
      BY <1>2, <1>4, <1>5, <1>12
    <2>2. /\ InPlace(r) \in Seq(S) /\ Len(InPlace(r)) = n /\ InPlace(r)[1] = r
          /\ \A k \in 1..(n - 1) : InPlace(r)[k + 1] = chain[n - k]
      BY <1>1, <1>3, PathPositions
    <2> HIDE DEF p, n
    <2>3. ASSUME NEW k \in 1..n PROVE p[k] = InPlace(r)[k]
      <3>1. CASE k = 1
        BY <1>11, <2>2, <3>1
      <3>2. CASE k = n
        <4>1. p[k] = chain[1] /\ n - 1 \in 1..(n - 1) /\ (n - 1) + 1 = k /\ n - (n - 1) = 1
          BY <1>2, <1>11, <1>12, <2>1, <3>2
        <4>2. InPlace(r)[(n - 1) + 1] = chain[n - (n - 1)]
          BY <2>2, <4>1
        <4> QED BY <4>1, <4>2
      <3>3. CASE k # 1 /\ k # n
        <4>1. /\ k - 1 \in 1..Len(s) /\ k - 1 \in 1..(n - 1) /\ (k - 1) + 1 = k
              /\ Len(s) - (k - 1) + 2 = n - (k - 1)
          BY <1>2, <2>1, <3>3
        <4>2. p[(k - 1) + 1] = chain[Len(s) - (k - 1) + 2]
          BY <1>11, <4>1
        <4>3. InPlace(r)[(k - 1) + 1] = chain[n - (k - 1)]
          BY <2>2, <4>1
        <4> QED BY <4>1, <4>2, <4>3
      <3> QED BY <3>1, <3>2, <3>3
    <2>4. Len(p) = n
      BY <1>2, <1>11, <2>1
    <2> QED BY <1>11, <2>2, <2>3, <2>4, SeqEqual
  <1>13. ASSUME ~((i = 0 \/ Exact(i)) /\ n > 1) PROVE p = Above(r)
    <2>1. Len(s) = n - 1
      BY <1>2, <1>4, <1>5, <1>13
    <2>2. /\ Above(r) \in Seq(S) /\ Len(Above(r)) = n + 1 /\ Above(r)[1] = r
          /\ \A k \in 1..n : Above(r)[k + 1] = chain[n - k + 1]
      BY <1>1, <1>3, PathPositions
    <2> HIDE DEF p, n
    <2>3. ASSUME NEW k \in 1..(n + 1) PROVE p[k] = Above(r)[k]
      <3>1. CASE k = 1
        BY <1>11, <2>2, <3>1
      <3>2. CASE k = n + 1
        <4>1. p[k] = chain[1] /\ n \in 1..n /\ n - n + 1 = 1
          BY <1>2, <1>11, <2>1, <3>2
        <4>2. Above(r)[n + 1] = chain[n - n + 1]
          BY <2>2, <4>1
        <4> QED BY <3>2, <4>1, <4>2
      <3>3. CASE k # 1 /\ k # n + 1
        <4>1. /\ k - 1 \in 1..Len(s) /\ k - 1 \in 1..n /\ (k - 1) + 1 = k
              /\ Len(s) - (k - 1) + 2 = n - (k - 1) + 1
          BY <1>2, <2>1, <3>3
        <4>2. p[(k - 1) + 1] = chain[Len(s) - (k - 1) + 2]
          BY <1>11, <4>1
        <4>3. Above(r)[(k - 1) + 1] = chain[n - (k - 1) + 1]
          BY <2>2, <4>1
        <4> QED BY <4>1, <4>2, <4>3
      <3> QED BY <1>2, <3>1, <3>2, <3>3
    <2>4. Len(p) = n + 1
      BY <1>2, <1>11, <2>1
    <2> QED BY <1>11, <2>2, <2>3, <2>4, SeqEqual
  <1> QED BY <1>12, <1>13 DEF r

-----------------------------------------------------------------------------
(* The allowance is what the tightest limit of the path leaves: going down *)
(* it keeps, at each issuer, the least of what each limit above leaves.    *)
Spent(p, j, k) == {i \in (j + 1)..k : ~SelfIssued(p[i])}
Count(p, j, k) == Cardinality(Spent(p, j, k))

Lowering(p, n, left) ==
    left = [k \in 0..n |->
               IF k = 0 THEN Len(p)
               ELSE Lowest(left[k - 1] - (IF SelfIssued(p[k]) THEN 0 ELSE 1), p[k].pathLen)]

LEMMA LoweringExists ==
    ASSUME NEW p, NEW n \in Nat
    PROVE  \E left : Lowering(p, n, left)
  <1> DEFINE T == {i \in Nat : ~ \E left : Lowering(p, i, left)}
  <1> SUFFICES ASSUME T # {} PROVE FALSE
    OBVIOUS
  <1>1. PICK i \in T : \A j \in T : i <= j
    <2>1. T \in SUBSET Nat
      OBVIOUS
    <2> HIDE DEF T
    <2> QED BY <2>1, LeastIn
  <1>2. i # 0
    <2>1. Lowering(p, 0, [k \in 0..0 |-> Len(p)])
      BY DEF Lowering
    <2> QED BY <1>1, <2>1
  <1>3. i \in Nat /\ (i - 1) \in Nat /\ (i - 1) \notin T
    BY <1>1, <1>2
  <1>4. PICK f : Lowering(p, i - 1, f)
    BY <1>3
  <1> DEFINE Lower(k, v) == Lowest(v - (IF SelfIssued(p[k]) THEN 0 ELSE 1), p[k].pathLen)
             g == [k \in 0..i |-> IF k < i THEN f[k] ELSE Lower(k, f[k - 1])]
  <1>5. \A k \in 0..(i - 1) : f[k] = IF k = 0 THEN Len(p) ELSE Lower(k, f[k - 1])
    <2> HIDE DEF T
    <2> QED BY <1>4 DEF Lowering
  <1> HIDE DEF Lower
  <1>6. \A k \in 0..i : k # 0 => g[k - 1] = f[k - 1]
    <2> HIDE DEF T
    <2> QED BY <1>3
  <1>7. \A k \in 0..i : g[k] = IF k = 0 THEN Len(p) ELSE Lower(k, g[k - 1])
    <2> TAKE k \in 0..i
    <2>1. CASE k < i
      <3>1. g[k] = f[k] /\ k \in 0..(i - 1)
        BY <1>3, <2>1
      <3> HIDE DEF g, T
      <3> QED BY <1>5, <1>6, <3>1
    <2>2. CASE k = i
      <3>1. g[k] = Lower(k, f[k - 1])
        BY <1>3, <2>2
      <3> HIDE DEF g, T
      <3> QED BY <1>2, <1>6, <2>2, <3>1
    <2> HIDE DEF g, T
    <2> QED BY <1>3, <2>1, <2>2
  <1>8. Lowering(p, i, g)
    <2>1. g = [k \in 0..i |-> g[k]]
      OBVIOUS
    <2> HIDE DEF g, T
    <2> QED BY <1>7, <2>1 DEF Lowering, Lower
  <1> QED BY <1>1, <1>8

LEMMA SpentGrows ==
    ASSUME NEW p, NEW j \in Nat, NEW k \in Nat, j <= k
    PROVE  /\ Count(p, j, k) \in Nat /\ Count(p, j, k) <= k - j
           /\ Count(p, j, k + 1) = Count(p, j, k) + (IF SelfIssued(p[k + 1]) THEN 0 ELSE 1)
           /\ Count(p, k, k) = 0
  <1>1. IsFiniteSet((j + 1)..k) /\ Cardinality((j + 1)..k) = k - j
    <2>1. PICK b \in Int : b = j + 1
      OBVIOUS
    <2>2. IsFiniteSet(b..k) /\ Cardinality(b..k) = IF b > k THEN 0 ELSE k - b + 1
      BY FS_Interval
    <2> QED BY <2>1, <2>2
  <1>2. Spent(p, j, k) \subseteq (j + 1)..k
    BY DEF Spent
  <1>3. /\ IsFiniteSet(Spent(p, j, k)) /\ Cardinality(Spent(p, j, k)) \in Nat
        /\ Cardinality(Spent(p, j, k)) <= k - j
    BY <1>1, <1>2, FS_Subset, FS_CardinalityType
  <1>4. k + 1 \notin Spent(p, j, k)
    BY <1>2
  <1>5. SelfIssued(p[k + 1]) => Spent(p, j, k + 1) = Spent(p, j, k)
    BY DEF Spent
  <1>6. ~SelfIssued(p[k + 1]) => Spent(p, j, k + 1) = Spent(p, j, k) \cup {k + 1}
    BY DEF Spent
  <1>7. Spent(p, k, k) = {}
    BY DEF Spent
  <1> QED BY <1>3, <1>4, <1>5, <1>6, <1>7, FS_AddElement, FS_EmptySet DEF Count

(* The state of that count after k issuers.                                *)
Tight(p, k, v) ==
    /\ v \in Int /\ v <= Len(p) - Count(p, 0, k)
    /\ \A j \in 1..k : \A l \in p[j].pathLen : v <= l - Count(p, j, k)
    /\ \/ v = Len(p) - Count(p, 0, k)
       \/ \E j \in 1..k : \E l \in p[j].pathLen : v = l - Count(p, j, k)

LEMMA TightStep ==
    ASSUME NEW p, Len(p) \in Nat, NEW k \in Nat, NEW v, Tight(p, k, v),
           \A j \in 1..(k + 1) : p[j].pathLen \in SUBSET Nat,
           \A l, m \in p[k + 1].pathLen : l = m
    PROVE  Tight(p, k + 1, Lowest(v - (IF SelfIssued(p[k + 1]) THEN 0 ELSE 1), p[k + 1].pathLen))
  <1> DEFINE s == IF SelfIssued(p[k + 1]) THEN 0 ELSE 1
             x == v - s
             w == Lowest(x, p[k + 1].pathLen)
  <1>1. s \in Nat /\ x \in Int
    BY DEF Tight
  <1>2. /\ \A j \in 0..k : Count(p, j, k) \in Nat /\ Count(p, j, k + 1) = Count(p, j, k) + s
        /\ Count(p, k + 1, k + 1) = 0
    <2>1. \A j \in 0..k : j \in Nat /\ j <= k
      OBVIOUS
    <2>2. k + 1 \in Nat /\ k + 1 <= k + 1
      OBVIOUS
    <2> QED BY <2>1, <2>2, SpentGrows
  <1>3. x <= Len(p) - Count(p, 0, k + 1)
    <2>1. v <= Len(p) - Count(p, 0, k) /\ v \in Int /\ 0 \in 0..k
      BY DEF Tight
    <2> HIDE DEF s
    <2> QED BY <1>1, <1>2, <2>1
  <1>4. ASSUME NEW j \in 1..k, NEW l \in p[j].pathLen PROVE x <= l - Count(p, j, k + 1)
    <2>1. v <= l - Count(p, j, k) /\ v \in Int /\ j \in 0..k /\ l \in Nat
      BY DEF Tight
    <2> HIDE DEF s
    <2> QED BY <1>1, <1>2, <2>1
  <1>5. \/ x = Len(p) - Count(p, 0, k + 1)
        \/ \E j \in 1..k : \E l \in p[j].pathLen : x = l - Count(p, j, k + 1)
    <2>1. CASE v = Len(p) - Count(p, 0, k)
      <3>1. 0 \in 0..k
        OBVIOUS
      <3> HIDE DEF s
      <3> QED BY <1>1, <1>2, <2>1, <3>1
    <2>2. CASE \E j \in 1..k : \E l \in p[j].pathLen : v = l - Count(p, j, k)
      <3>1. PICK j \in 1..k : \E l \in p[j].pathLen : v = l - Count(p, j, k)
        BY <2>2
      <3>2. PICK l \in p[j].pathLen : v = l - Count(p, j, k)
        BY <3>1
      <3>3. j \in 0..k /\ l \in Nat
        OBVIOUS
      <3> HIDE DEF s
      <3>4. x = l - Count(p, j, k + 1)
        BY <1>1, <1>2, <3>2, <3>3
      <3> QED BY <3>4
    <2> QED BY <2>1, <2>2 DEF Tight
  <1> HIDE DEF s, x
  <1>6. CASE \A l \in p[k + 1].pathLen : x <= l
    <2>1. w = x
      BY <1>6 DEF Lowest
    <2>2. ASSUME NEW j \in 1..(k + 1), NEW l \in p[j].pathLen
          PROVE  x <= l - Count(p, j, k + 1)
      <3>1. CASE j = k + 1
        BY <1>1, <1>2, <1>6, <3>1
      <3>2. CASE j # k + 1
        <4>1. j \in 1..k
          BY <3>2
        <4> QED BY <1>4, <4>1
      <3> QED BY <3>1, <3>2
    <2>3. \/ x = Len(p) - Count(p, 0, k + 1)
          \/ \E j \in 1..(k + 1) : \E l \in p[j].pathLen : x = l - Count(p, j, k + 1)
      <3>1. \A j \in 1..k : j \in 1..(k + 1)
        OBVIOUS
      <3> QED BY <1>5, <3>1
    <2>4. Tight(p, k + 1, x)
      BY <1>1, <1>3, <2>2, <2>3 DEF Tight
    <2> QED BY <2>1, <2>4 DEF s, x
  <1>7. CASE \E l \in p[k + 1].pathLen : ~(x <= l)
    <2>1. PICK m \in p[k + 1].pathLen : ~(x <= m)
      BY <1>7
    <2>2. m \in Nat /\ m < x
      BY <1>1, <2>1
    <2>3. w = CHOOSE l \in p[k + 1].pathLen : l < x
      BY <2>1 DEF Lowest
    <2>4. w \in p[k + 1].pathLen
      BY <2>2, <2>3
    <2>5. w = m /\ \A l \in p[k + 1].pathLen : l = m
      BY <2>4
    <2> HIDE DEF w
    <2>6. ASSUME NEW j \in 1..(k + 1), NEW l \in p[j].pathLen
          PROVE  m <= l - Count(p, j, k + 1)
      <3>1. CASE j = k + 1
        BY <1>2, <2>2, <2>5, <3>1
      <3>2. CASE j # k + 1
        <4>1. j \in 1..k /\ j \in 0..k /\ l \in Nat
          BY <3>2
        <4>2. x <= l - Count(p, j, k + 1) /\ Count(p, j, k + 1) \in Nat
          BY <1>1, <1>2, <1>4, <4>1
        <4> QED BY <1>1, <2>2, <4>1, <4>2
      <3> QED BY <3>1, <3>2
    <2>7. \E j \in 1..(k + 1) : \E l \in p[j].pathLen : m = l - Count(p, j, k + 1)
      <3>1. k + 1 \in 1..(k + 1) /\ m = m - Count(p, k + 1, k + 1)
        BY <1>2, <2>2
      <3> QED BY <3>1
    <2>8. m <= Len(p) - Count(p, 0, k + 1)
      <3>1. Count(p, 0, k + 1) \in Nat
        <4>1. 0 \in 0..k
          OBVIOUS
        <4> QED BY <1>1, <1>2, <4>1
      <3> QED BY <1>1, <1>3, <2>2, <3>1
    <2>9. Tight(p, k + 1, m)
      BY <2>2, <2>6, <2>7, <2>8 DEF Tight
    <2> QED BY <2>5, <2>9 DEF w, x, s
  <1> QED BY <1>6, <1>7

(* Nothing is left to complain of when every limit is kept.                *)
LEMMA AllowanceMeetsLimits ==
    ASSUME NEW p \in Seq(Certificate), p # <<>>
    PROVE  Allowance(p) >= 0 <=>
              \A j \in 1..(Len(p) - 1) : \A l \in p[j].pathLen : Cardinality(Below(p, j)) <= l
  <1> DEFINE n    == Len(p) - 1
             left == CHOOSE f : Lowering(p, n, f)
  <1>1. Len(p) \in Nat \ {0} /\ n \in Nat /\ \A j \in 1..Len(p) : p[j] \in Certificate
    BY EmptySeq
  <1>2. \A c \in Certificate : c.pathLen \in SUBSET Nat /\ \A l, m \in c.pathLen : l = m
    BY DEF Certificate
  <1>3. \A j \in 1..n : p[j].pathLen \in SUBSET Nat /\ \A l, m \in p[j].pathLen : l = m
    <2>1. \A j \in 1..n : j \in 1..Len(p)
      BY <1>1
    <2> QED BY <1>1, <1>2, <2>1
  <1>4. Lowering(p, n, left)
    <2> HIDE DEF n
    <2> QED BY <1>1, LoweringExists
  <1>5. Allowance(p) = left[n]
    BY DEF Allowance, Lowering
  <1> HIDE DEF left, n
  <1>6. \A k \in 0..n :
           left[k] = IF k = 0 THEN Len(p)
                     ELSE Lowest(left[k - 1] - (IF SelfIssued(p[k]) THEN 0 ELSE 1), p[k].pathLen)
    BY <1>4 DEF Lowering
  <1> DEFINE T == {k \in 0..n : ~Tight(p, k, left[k])}
  <1>7. T = {}
    <2> SUFFICES ASSUME T # {} PROVE FALSE
      OBVIOUS
    <2>1. PICK k \in T : \A j \in T : k <= j
      <3>1. T \in SUBSET Nat
        BY <1>1
      <3> HIDE DEF T
      <3> QED BY <3>1, LeastIn
    <2>2. k \in 0..n /\ ~Tight(p, k, left[k])
      BY <2>1
    <2>3. k # 0
      <3>0. 0 \in Nat /\ 0 <= 0 /\ 0 \in 0..n
        BY <1>1
      <3>1. left[0] = Len(p) /\ Count(p, 0, 0) = 0
        BY <1>6, <3>0, SpentGrows
      <3>2. Tight(p, 0, left[0])
        BY <1>1, <3>1 DEF Tight
      <3> QED BY <2>2, <3>2
    <2>4. k - 1 \in 0..n /\ k - 1 \in Nat /\ (k - 1) + 1 = k /\ ~(k <= k - 1)
      <3> HIDE DEF T
      <3> QED BY <1>1, <2>2, <2>3
    <2>5. Tight(p, k - 1, left[k - 1])
      BY <2>1, <2>4
    <2> HIDE DEF T
    <2>6. /\ \A j \in 1..((k - 1) + 1) : p[j].pathLen \in SUBSET Nat
          /\ \A l, m \in p[(k - 1) + 1].pathLen : l = m
      <3>1. k \in 1..n /\ \A j \in 1..k : j \in 1..n
        BY <1>1, <2>2, <2>3
      <3> QED BY <1>3, <2>4, <3>1
    <2>7. Tight(p, (k - 1) + 1,
                Lowest(left[k - 1] - (IF SelfIssued(p[(k - 1) + 1]) THEN 0 ELSE 1),
                       p[(k - 1) + 1].pathLen))
      BY <1>1, <2>4, <2>5, <2>6, TightStep
    <2> QED BY <1>6, <2>2, <2>3, <2>4, <2>7
  <1>8. Tight(p, n, left[n])
    BY <1>1, <1>7
  <1>9. \A j \in 1..n : Cardinality(Below(p, j)) = Count(p, j, n) /\ Count(p, j, n) \in Nat
    <2>1. \A j \in 1..n : j \in Nat /\ j <= n
      BY <1>1
    <2>2. \A j : Cardinality(Below(p, j)) = Count(p, j, n)
      BY DEF Below, Count, Spent, n
    <2> QED BY <1>1, <2>1, <2>2, SpentGrows
  <1>10. Len(p) - Count(p, 0, n) > 0
    <2>1. 0 \in Nat /\ 0 <= n
      BY <1>1
    <2>2. Count(p, 0, n) \in Nat /\ Count(p, 0, n) <= n - 0
      BY <1>1, <2>1, SpentGrows
    <2> QED BY <1>1, <2>2 DEF n
  <1>11. left[n] >= 0 <=> \A j \in 1..n : \A l \in p[j].pathLen : Count(p, j, n) <= l
    <2>1. \A j \in 1..n : \A l \in p[j].pathLen : l \in Nat /\ Count(p, j, n) \in Nat
      BY <1>3, <1>9
    <2>2. ASSUME left[n] >= 0, NEW j \in 1..n, NEW l \in p[j].pathLen
          PROVE  Count(p, j, n) <= l
      <3>1. left[n] <= l - Count(p, j, n) /\ left[n] \in Int
        BY <1>8 DEF Tight
      <3> QED BY <2>1, <2>2, <3>1
    <2>3. ASSUME \A j \in 1..n : \A l \in p[j].pathLen : Count(p, j, n) <= l
          PROVE  left[n] >= 0
      <3>1. CASE left[n] = Len(p) - Count(p, 0, n)
        <4>1. left[n] \in Int
          BY <1>8 DEF Tight
        <4> QED BY <1>10, <3>1, <4>1
      <3>2. CASE \E j \in 1..n : \E l \in p[j].pathLen : left[n] = l - Count(p, j, n)
        BY <2>1, <2>3, <3>2
      <3> QED BY <1>8, <3>1, <3>2 DEF Tight
    <2> QED BY <2>2, <2>3
  <1> QED BY <1>5, <1>9, <1>11 DEF n

-----------------------------------------------------------------------------
(* The window of a path is when all of it is live.                         *)
LEMMA EarliestEnd ==
    ASSUME NEW p \in Seq(Certificate), p # <<>>
    PROVE  /\ Window(p).to \in Nat
           /\ \A k \in DOMAIN p : Window(p).to <= p[k].to
           /\ \E k \in DOMAIN p : p[k].to = Window(p).to
  <1> DEFINE E == {c.to : c \in Members(p)}
  <1>1. 1 \in DOMAIN p /\ \A k \in DOMAIN p : p[k].to \in Nat
    <2>1. \A k \in DOMAIN p : p[k] \in Certificate
      OBVIOUS
    <2>2. \A c \in Certificate : c.to \in Nat
      BY DEF Certificate
    <2> QED BY <2>1, <2>2, EmptySeq
  <1>2. E \subseteq Nat /\ E # {}
    BY <1>1 DEF Members
  <1>3. PICK u \in E : \A t \in E : u <= t
    <2> HIDE DEF E
    <2> QED BY <1>2, LeastIn
  <1>4. \A c \in Members(p) : u <= c.to
    BY <1>3
  <1>5. Window(p).to = CHOOSE t \in E : \A c \in Members(p) : t <= c.to
    BY DEF Window
  <1>6. Window(p).to \in E /\ \A c \in Members(p) : Window(p).to <= c.to
    <2> HIDE DEF E
    <2> QED BY <1>3, <1>4, <1>5
  <1> QED BY <1>2, <1>6 DEF Members

LEMMA WindowIsLife ==
    ASSUME NEW p \in Seq(Certificate), p # <<>>, NEW t \in Int
    PROVE  Window(p).from <= t /\ t <= Window(p).to <=> \A k \in DOMAIN p : Live(p[k], t)
  <1> DEFINE f == Window(p).from
             e == Window(p).to
  <1>1. f \in Nat /\ (\A k \in DOMAIN p : p[k].from <= f) /\ \E k \in DOMAIN p : p[k].from = f
    BY LatestStart
  <1>2. e \in Nat /\ (\A k \in DOMAIN p : e <= p[k].to) /\ \E k \in DOMAIN p : p[k].to = e
    BY EarliestEnd
  <1>3. \A k \in DOMAIN p : p[k].from \in Nat /\ p[k].to \in Nat
    <2>1. \A k \in DOMAIN p : p[k] \in Certificate
      OBVIOUS
    <2> QED BY <2>1 DEF Certificate
  <1> HIDE DEF f, e
  <1>4. ASSUME f <= t, t <= e, NEW k \in DOMAIN p PROVE Live(p[k], t)
    BY <1>1, <1>2, <1>3, <1>4 DEF Live
  <1>5. ASSUME \A k \in DOMAIN p : Live(p[k], t) PROVE f <= t /\ t <= e
    BY <1>1, <1>2, <1>5 DEF Live
  <1> QED BY <1>4, <1>5 DEF f, e

-----------------------------------------------------------------------------
(* A path that an attempt accepts is one that holds, and one that holds is *)
(* accepted but for what this build cannot check, or a time before 1970.   *)
LEMMA AcceptedHolds ==
    ASSUME NEW p \in Seq(Certificate), p # <<>>, Attempted(p) = "Valid"
    PROVE  Holds(p, TimeOf(p)) /\ ~Gap(p)
  <1>1. Verifies(p, TimeOf(p)) /\ PurposeMet(p) /\ ~Gap(p)
    BY DEF Attempted
  <1>2. \A j \in 1..(Len(p) - 1) : \A l \in p[j].pathLen : Cardinality(Below(p, j)) <= l
    BY <1>1, AllowanceMeetsLimits DEF Verifies
  <1> QED BY <1>1, <1>2 DEF Holds, Verifies, Issued, PurposeMet

(* The times that a run may ask about.                                     *)
Asked(t) == t \in Int /\ (options.timed => t = options.at)

LEMMA HeldIsAccepted ==
    ASSUME NEW p \in Seq(Certificate), p # <<>>, NEW t, Asked(t), Holds(p, t)
    PROVE  /\ Attempted(p) # "Invalid"
           /\ t >= 0 /\ ~Gap(p) => Attempted(p) = "Valid"
  <1> DEFINE f == Window(p).from
             e == Window(p).to
  <1>1. t \in Int /\ f \in Nat /\ e \in Nat
    BY LatestStart, EarliestEnd DEF Asked
  <1>2. f <= t /\ t <= e
    BY <1>1, WindowIsLife DEF Holds
  <1>3. ~NeverLive(p)
    <2>1. ~(f > e)
      <3> HIDE DEF f, e
      <3> QED BY <1>1, <1>2
    <2> QED BY <2>1 DEF NeverLive
  <1>4. \A k \in DOMAIN p : Live(p[k], TimeOf(p))
    <2>1. CASE options.timed
      BY <2>1 DEF TimeOf, Asked, Holds
    <2>2. CASE ~options.timed
      <3>1. TimeOf(p) = f
        BY <2>2 DEF TimeOf
      <3>2. f \in Int /\ f <= f /\ f <= e
        <4> HIDE DEF f, e
        <4> QED BY <1>1, <1>2
      <3>3. \A k \in DOMAIN p : Live(p[k], f)
        BY <3>2, WindowIsLife
      <3> QED BY <3>1, <3>3
    <2> QED BY <2>1, <2>2
  <1>5. Allowance(p) >= 0
    BY AllowanceMeetsLimits DEF Holds
  <1>6. Len(p) \in Nat
    OBVIOUS
  <1>7. ASSUME ~Gap(p) PROVE Verifies(p, TimeOf(p)) /\ PurposeMet(p)
    <2>1. \A k \in 1..(Len(p) - 1) : p[k + 1].supported
      <3>1. \A k \in 1..(Len(p) - 1) : k + 1 \in 2..Len(p)
        BY <1>6
      <3> QED BY <1>7, <3>1 DEF Gap
    <2>2. \A k \in 1..(Len(p) - 1) : Issued(p[k], p[k + 1])
      BY <2>1 DEF Holds, Issued
    <2>3. SelfIssued(p[1]) /\ PurposeMet(p)
      BY DEF Holds, PurposeMet
    <2> QED BY <1>4, <1>5, <2>2, <2>3 DEF Verifies
  <1>8. t >= 0 => ~(TimeOf(p) < 0)
    <2>1. TimeOf(p) = t \/ TimeOf(p) = f
      BY DEF TimeOf, Asked
    <2> HIDE DEF f
    <2> QED BY <1>1, <2>1
  <1> QED BY <1>3, <1>7, <1>8 DEF Attempted

(* The operator's copy in the place of the statement's top is as good as   *)
(* the same copy above it.                                                 *)
LEMMA InPlaceIsEnough ==
    ASSUME chain \in Seq(Certificate), Len(chain) > 1, NEW t, Holds(Above(Top), t)
    PROVE  Holds(InPlace(Top), t) /\ (Gap(InPlace(Top)) => Gap(Above(Top)))
  <1> DEFINE n == Len(chain)
             p == InPlace(Top)
             q == Above(Top)
  <1>1. n \in Nat /\ n > 1 /\ Top = chain[n] /\ Top \in Certificate /\ chain # <<>>
    <2>1. n \in Nat /\ n \in 1..n /\ chain # <<>>
      BY EmptySeq
    <2> QED BY <2>1 DEF Top, Last
  <1>2. /\ q \in Seq(Certificate) /\ Len(q) = n + 1 /\ q[1] = Top
        /\ \A k \in 1..n : q[k + 1] = chain[n - k + 1]
        /\ p \in Seq(Certificate) /\ Len(p) = n /\ p[1] = Top
        /\ \A k \in 1..(n - 1) : p[k + 1] = chain[n - k]
    BY <1>1, PathPositions
  <1> HIDE DEF n, p, q
  <1>3. DOMAIN p = 1..n /\ DOMAIN q = 1..(n + 1)
    BY <1>2
  <1>4. \A k \in 1..n : p[k] = q[k + 1]
    <2> TAKE k \in 1..n
    <2>1. CASE k = 1
      <3>1. n - 1 + 1 = n /\ 1 \in 1..n
        BY <1>1
      <3> QED BY <1>1, <1>2, <2>1, <3>1
    <2>2. CASE k # 1
      <3>1. k - 1 \in 1..(n - 1) /\ (k - 1) + 1 = k /\ n - (k - 1) = n - k + 1
        BY <1>1, <2>2
      <3>2. p[(k - 1) + 1] = chain[n - (k - 1)]
        BY <1>2, <3>1
      <3> QED BY <1>2, <3>1, <3>2
    <2> QED BY <2>1, <2>2
  <1>5. Holds(q, t)
    BY DEF q
  <1>6. \A k \in DOMAIN p : Live(p[k], t)
    <2>1. \A k \in 1..n : k + 1 \in 1..(n + 1)
      BY <1>1
    <2> QED BY <1>3, <1>4, <1>5, <2>1 DEF Holds
  <1>7. ASSUME NEW j \in 1..(n - 1)
        PROVE  /\ p[j].ca /\ p[j + 1].issuer = p[j].name /\ p[j + 1].signer = p[j].key
               /\ \A limit \in p[j].pathLen : Cardinality(Below(p, j)) <= limit
    <2>1. j \in 1..n /\ j + 1 \in 1..n /\ j + 1 \in 1..(Len(q) - 1) /\ j \in Nat
      BY <1>1, <1>2
    <2>2. /\ q[j + 1].ca /\ q[(j + 1) + 1].issuer = q[j + 1].name
          /\ q[(j + 1) + 1].signer = q[j + 1].key
          /\ \A limit \in q[j + 1].pathLen : Cardinality(Below(q, j + 1)) <= limit
      BY <1>5, <2>1 DEF Holds
    <2>3. Cardinality(Below(p, j)) <= Cardinality(Below(q, j + 1))
          /\ Cardinality(Below(p, j)) \in Nat /\ Cardinality(Below(q, j + 1)) \in Nat
      <3> DEFINE f == [k \in Below(p, j) |-> k + 1]
                 A == Below(p, j)
                 B == Below(q, j + 1)
      <3>1. A \subseteq (j + 1)..(n - 1) /\ B \subseteq (j + 2)..n
        BY <1>1, <1>2, <2>1 DEF Below
      <3>2. IsFiniteSet(A) /\ IsFiniteSet(B)
        <4>1. j + 1 \in Int /\ n - 1 \in Int /\ j + 2 \in Int /\ n \in Int
          BY <1>1, <2>1
        <4>2. IsFiniteSet((j + 1)..(n - 1)) /\ IsFiniteSet((j + 2)..n)
          BY <4>1, FS_Interval
        <4> QED BY <3>1, <4>2, FS_Subset
      <3>3. \A k \in A : k + 1 \in B
        <4> TAKE k \in A
        <4>1. k \in (j + 1)..(n - 1) /\ ~SelfIssued(p[k])
          BY <1>2 DEF Below
        <4>2. k \in 1..n /\ k + 1 \in ((j + 1) + 1)..(Len(q) - 1)
          BY <1>1, <1>2, <2>1, <4>1
        <4> QED BY <1>4, <4>1, <4>2 DEF Below
      <3>4. f \in Injection(A, B)
        <4>1. f \in [A -> B]
          BY <3>3
        <4>2. \A k, l \in A : f[k] = f[l] => k = l
          <5>1. \A k, l \in A : k \in Int /\ l \in Int
            BY <1>1, <2>1, <3>1
          <5> QED BY <5>1
        <4> QED BY <4>1, <4>2 DEF Injection, IsInjective
      <3> HIDE DEF f, A, B
      <3>5. Cardinality(A) <= Cardinality(B) /\ Cardinality(A) \in Nat /\ Cardinality(B) \in Nat
        BY <3>2, <3>4, FS_Injection, FS_CardinalityType
      <3> QED BY <3>5 DEF A, B
    <2>4. \A limit \in p[j].pathLen : limit \in Nat
      <3>1. p[j] \in Certificate
        BY <1>2, <2>1
      <3> QED BY <3>1 DEF Certificate
    <2>5. p[j] = q[j + 1] /\ p[j + 1] = q[(j + 1) + 1]
      BY <1>4, <2>1
    <2> QED BY <2>2, <2>3, <2>4, <2>5
  <1>8. SelfIssued(p[1]) /\ p[Len(p)] = q[Len(q)]
    <2>1. n \in 1..n
      BY <1>1
    <2> QED BY <1>2, <1>4, <1>5, <2>1 DEF Holds
  <1>9. Holds(p, t)
    BY <1>2, <1>5, <1>6, <1>7, <1>8 DEF Holds
  <1>10. ASSUME Gap(p) PROVE Gap(q)
    <2>1. CASE \E k \in 2..Len(p) : ~p[k].supported
      <3>1. PICK k \in 2..n : ~p[k].supported
        BY <1>2, <2>1
      <3>2. k \in 1..n /\ k + 1 \in 2..Len(q)
        BY <1>1, <1>2
      <3> QED BY <1>4, <3>1, <3>2 DEF Gap
    <2>2. CASE \E k \in DOMAIN p : Declined(p, k)
      <3>1. PICK k \in 1..n : Declined(p, k)
        BY <1>3, <2>2
      <3>2. k + 1 \in DOMAIN q /\ p[k] = q[k + 1] /\ (k = Len(p) <=> k + 1 = Len(q))
        BY <1>1, <1>2, <1>3, <1>4
      <3>3. Declined(q, k + 1)
        BY <3>1, <3>2 DEF Declined
      <3> QED BY <3>2, <3>3 DEF Gap
    <2> QED BY <1>10, <2>1, <2>2 DEF Gap
  <1> QED BY <1>9, <1>10 DEF p, q

-----------------------------------------------------------------------------
(* Every way from an anchor to the leaf that holds has a candidate whose   *)
(* path holds too, with nothing more on it that this build cannot check.   *)
LEMMA RoutesAre ==
    ASSUME NEW r
    PROVE  \A p : p \in Routes(r) <=>
              p = Above(r) \/ (r = Top /\ Len(chain) > 1 /\ p = InPlace(r))
  BY DEF Routes, Above, InPlace

LEMMA RouteHasCandidate ==
    ASSUME TypeOK, ~Absent, ~Unreadable, NEW r \in Anchors, NEW p \in Routes(r), NEW t,
           Holds(p, t)
    PROVE  /\ Searchable
           /\ \E i \in Candidates : Holds(Path(i), t) /\ (Gap(Path(i)) => Gap(p))
  <1>1. chain \in Seq(Certificate) /\ chain # <<>>
    BY ChainsAssumption, CertificatesAssumption DEF TypeOK, Absent
  <1>2. Len(chain) \in Nat \ {0} /\ \A k \in 1..Len(chain) : chain[k] \in Certificate
    BY <1>1, EmptySeq
  <1>3. Top \in Certificate /\ Top = chain[Len(chain)]
    BY <1>2 DEF Top, Last
  <1>4. p = Above(r) \/ (r = Top /\ Len(chain) > 1 /\ p = InPlace(r))
    BY RoutesAre
  <1>5. r \in Certificate
    BY <1>3, CertificatesAssumption DEF Anchors, TypeOK, ToSet
  <1>6. /\ Above(r)[1] = r /\ Len(Above(r)) = Len(chain) + 1
        /\ Above(r)[1 + 1] = chain[Len(chain) - 1 + 1]
        /\ InPlace(r)[1] = r
    <2>1. 1 \in 1..Len(chain)
      BY <1>2
    <2> QED BY <1>1, <1>5, <2>1, PathPositions
  <1>7. p[1] = r /\ SelfIssued(r)
    BY <1>4, <1>6 DEF Holds
  <1>8. ASSUME r = Top, Len(chain) > 1
        PROVE  Holds(InPlace(r), t) /\ (Gap(InPlace(r)) => Gap(p))
    <2>1. CASE p = InPlace(r)
      BY <2>1
    <2>2. CASE p = Above(r)
      BY <1>1, <1>8, <2>2, InPlaceIsEnough
    <2> QED BY <1>4, <2>1, <2>2
  <1>9. CASE roots = <<>>
    <2>1. r = Top /\ Candidates = {0}
      BY <1>9 DEF Anchors, Candidates
    <2>2. Searchable
      BY <1>7, <2>1 DEF Searchable, Truncated
    <2>3. Len(chain) > 1
      <3>1. Len(chain) # 1
        BY <1>9 DEF Absent
      <3>2. PICK n \in Nat \ {0} : n = Len(chain)
        BY <1>2
      <3> QED BY <3>1, <3>2
    <2>4. Anchor(0) = r
      BY <2>1 DEF Anchor
    <2>5. Path(0) = InPlace(r)
      BY <2>1, <2>2, <2>3, <2>4, CandidatePath
    <2> QED BY <1>8, <2>1, <2>2, <2>3, <2>5
  <1>10. CASE roots # <<>>
    <2>1. PICK i \in DOMAIN roots : r = roots[i]
      BY <1>10 DEF Anchors, ToSet
    <2>2. i # 0 /\ Anchor(i) = r
      <3>1. DOMAIN roots = 1..Len(roots) /\ Len(roots) \in Nat
        BY DEF TypeOK
      <3>2. i # 0
        BY <3>1
      <3> QED BY <2>1, <3>2 DEF Anchor
    <2>3. Candidates = {k \in DOMAIN roots : Exact(k) \/ ByName(k)}
      BY <1>10 DEF Candidates
    <2>4. CASE r = Top
      <3>1. Exact(i) /\ i \in Candidates
        BY <2>1, <2>2, <2>3, <2>4 DEF Exact
      <3>2. Searchable
        BY <1>10, <3>1 DEF Searchable, Truncated
      <3>3. CASE Len(chain) > 1
        <4>1. Path(i) = InPlace(r)
          BY <2>2, <3>1, <3>2, <3>3, CandidatePath
        <4> QED BY <1>8, <2>4, <3>1, <3>2, <3>3, <4>1
      <3>4. CASE ~(Len(chain) > 1)
        <4>1. Path(i) = Above(r) /\ p = Above(r)
          BY <1>4, <2>2, <3>1, <3>2, <3>4, CandidatePath
        <4> QED BY <3>1, <3>2, <4>1
      <3> QED BY <3>3, <3>4
    <2>5. CASE r # Top
      <3>1. p = Above(r)
        BY <1>4, <2>5
      <3>2. p[2] = Top
        <4>1. Len(chain) - 1 + 1 = Len(chain) /\ 1 + 1 = 2
          BY <1>2
        <4> QED BY <1>3, <1>6, <3>1, <4>1
      <3>3. p[2].issuer = p[1].name
        <4>1. 1 \in 1..(Len(p) - 1) /\ 1 + 1 = 2
          BY <1>2, <1>6, <3>1
        <4>2. p[1 + 1].issuer = p[1].name
          BY <4>1 DEF Holds
        <4> QED BY <4>1, <4>2
      <3>4. ByName(i) /\ ~Exact(i) /\ i \in Candidates
        BY <1>7, <2>1, <2>2, <2>3, <2>5, <3>2, <3>3 DEF ByName, Exact
      <3>5. Searchable
        BY <1>10, <3>4 DEF Searchable, Truncated
      <3>6. Path(i) = Above(r)
        BY <2>2, <3>4, <3>5, CandidatePath
      <3> QED BY <3>1, <3>4, <3>5, <3>6
    <2> QED BY <2>4, <2>5
  <1> QED BY <1>9, <1>10

LEMMA InstantsAreAsked ==
    ASSUME TypeOK, NEW t \in Instants
    PROVE  Asked(t)
  <1>1. CASE options.timed
    <2>1. options.at \in Int
      BY RequestsAssumption DEF TypeOK, Options
    <2> QED BY <1>1, <2>1 DEF Instants, Asked
  <1>2. CASE ~options.timed
    <2>1. PICK c \in Certificates : t \in {c.from - 1, c.from, c.to, c.to + 1}
      BY <1>2 DEF Instants
    <2>2. c.from \in Nat /\ c.to \in Nat
      BY CertificatesAssumption DEF Certificate
    <2> QED BY <1>2, <2>1, <2>2 DEF Asked
  <1> QED BY <1>1, <1>2

-----------------------------------------------------------------------------
(* A valid outcome is genuine: from the anchor it names a path of the      *)
(* statement's certificates leads to the leaf and held at the time that is *)
(* reported, with nothing on it that this build cannot check.              *)
LEMMA FoundIsGenuine ==
    ASSUME TypeOK, Searchable, NEW i \in Candidates, FoundBy(i)
    PROVE  LET p == Path(i) IN
           /\ p \in Seq(Certificate) /\ p # <<>>
           /\ outcome.root = Anchor(i) /\ outcome.root \in Anchors /\ p \in Routes(outcome.root)
           /\ (outcome.anchored <=> roots # <<>>) /\ outcome.at = TimeOf(p)
           /\ outcome.length = Len(p) /\ outcome.window = Window(p)
           /\ Holds(p, outcome.at) /\ ~Gap(p)
  <1> DEFINE p == Path(i)
  <1>1. p \in Seq(Certificate) /\ p # <<>>
    BY PathsAreCertificates
  <1>2. /\ outcome.root = Anchor(i) /\ (outcome.anchored <=> i # 0) /\ outcome.at = TimeOf(p)
        /\ outcome.length = Len(p) /\ outcome.window = Window(p) /\ Attempted(p) = "Valid"
    BY DEF FoundBy, Details, Result
  <1>3. (i # 0 <=> roots # <<>>) /\ (i # 0 => i \in DOMAIN roots)
    BY DEF Candidates, Exact, ByName
  <1>4. Anchor(i) \in Anchors
    BY <1>3 DEF Anchor, Anchors, ToSet
  <1>5. i = 0 \/ Exact(i) => Anchor(i) = Top
    BY DEF Anchor, Exact
  <1>6. p \in Routes(Anchor(i))
    BY <1>5, CandidatePath, RoutesAre
  <1> HIDE DEF p
  <1>7. Holds(p, TimeOf(p)) /\ ~Gap(p)
    BY <1>1, <1>2, AcceptedHolds
  <1> QED BY <1>1, <1>2, <1>3, <1>4, <1>6, <1>7 DEF p

(* That path is genuine in every behaviour: a valid chain is never one of  *)
(* a namesake, of an anchor nobody supplied or of another time.            *)
THEOREM ValidAreGenuine == Spec => []ValidIsGenuine
  <1>1. TypeOK /\ SearchInv => ValidIsGenuine
    <2> SUFFICES ASSUME TypeOK, SearchInv, outcome.kind = "Valid"
                 PROVE  /\ outcome.root \in Anchors /\ (outcome.anchored <=> roots # <<>>)
                        /\ \E p \in Routes(outcome.root) : Holds(p, outcome.at) /\ ~Gap(p)
      BY DEF ValidIsGenuine
    <2>1. PICK i \in Candidates : Searchable /\ FoundBy(i)
      BY ValidIsFound
    <2> QED BY <2>1, FoundIsGenuine
  <1> QED BY <1>1, SearchInvariant, PTL

(* Its window is that of the same path: within it, and only there, every   *)
(* certificate from the anchor to the leaf is live.                        *)
THEOREM WindowsAnswer == Spec => []WindowAnswersForThePath
  <1>1. TypeOK /\ SearchInv => WindowAnswersForThePath
    <2> DEFINE I == UNION {{c.from - 1, c.from, c.to, c.to + 1} : c \in Certificates}
    <2> SUFFICES ASSUME TypeOK, SearchInv, outcome.kind = "Valid"
                 PROVE  \E p \in Routes(outcome.root) :
                           /\ Holds(p, outcome.at) /\ Len(p) = outcome.length
                           /\ \A t \in I : outcome.window.from <= t /\ t <= outcome.window.to
                                             <=> \A k \in DOMAIN p : Live(p[k], t)
      BY DEF WindowAnswersForThePath
    <2>1. PICK i \in Candidates : Searchable /\ FoundBy(i)
      BY ValidIsFound
    <2>2. I \subseteq Int
      <3>1. \A c \in Certificates : c.from \in Nat /\ c.to \in Nat
        BY CertificatesAssumption DEF Certificate
      <3>2. \A c \in Certificates : {c.from - 1, c.from, c.to, c.to + 1} \subseteq Int
        BY <3>1
      <3> QED BY <3>2
    <2> DEFINE p == Path(i)
    <2>3. /\ p \in Seq(Certificate) /\ p # <<>> /\ p \in Routes(outcome.root)
          /\ Holds(p, outcome.at) /\ Len(p) = outcome.length /\ outcome.window = Window(p)
      BY <2>1, FoundIsGenuine
    <2> HIDE DEF p, I
    <2>4. \A t \in I : Window(p).from <= t /\ t <= Window(p).to
                         <=> \A k \in DOMAIN p : Live(p[k], t)
      BY <2>2, <2>3, WindowIsLife
    <2> QED BY <2>3, <2>4
  <1> QED BY <1>1, SearchInvariant, PTL

(* "Did not verify" is said only where no way to any anchor held at any of *)
(* the times asked about: no limit of the build, no other root and no cut  *)
(* of the search turns a genuine chain into an accusation.                 *)
THEOREM NoWrongAccusation == Spec => []NeverAccusedWrongly
  <1>1. TypeOK /\ SearchInv => NeverAccusedWrongly
    <2> SUFFICES ASSUME TypeOK, SearchInv, Examined, outcome.kind = "Invalid",
                        NEW r \in Anchors, NEW p \in Routes(r), NEW t \in Instants, Holds(p, t)
                 PROVE  FALSE
      BY DEF NeverAccusedWrongly
    <2>1. Searchable /\ \E i \in Candidates : Holds(Path(i), t)
      BY RouteHasCandidate DEF Examined
    <2>2. PICK i \in Candidates : Holds(Path(i), t)
      BY <2>1
    <2>3. Attempted(Path(i)) # "Invalid"
      BY <2>1, <2>2, InstantsAreAsked, HeldIsAccepted, PathsAreCertificates
    <2>4. {Attempted(Path(k)) : k \in Candidates} = {"Invalid"}
      BY <2>1, OrderFromSearch DEF BundleOrderIsImmaterial, Searchable
    <2> QED BY <2>3, <2>4
  <1> QED BY <1>1, SearchInvariant, PTL

(* A way that held, and that this build can check, is found whatever else  *)
(* the operator supplied.                                                  *)
THEOREM GenuineAreFound == Spec => []GenuineIsFound
  <1>1. TypeOK /\ SearchInv => GenuineIsFound
    <2> SUFFICES ASSUME TypeOK, SearchInv, Examined, NEW r \in Anchors, NEW p \in Routes(r),
                        NEW t \in Instants, t >= 0, Holds(p, t), ~Gap(p)
                 PROVE  outcome.kind = "Valid"
      BY DEF GenuineIsFound
    <2>1. Searchable /\ \E i \in Candidates : Holds(Path(i), t) /\ (Gap(Path(i)) => Gap(p))
      BY RouteHasCandidate DEF Examined
    <2>2. PICK i \in Candidates : Holds(Path(i), t) /\ ~Gap(Path(i))
      BY <2>1
    <2>3. Attempted(Path(i)) = "Valid"
      BY <2>1, <2>2, InstantsAreAsked, HeldIsAccepted, PathsAreCertificates
    <2> DEFINE kinds == {Attempted(Path(k)) : k \in Candidates}
    <2>4. \/ outcome.kind = "Valid" /\ "Valid" \in kinds
          \/ outcome.kind = "Unsupported" /\ "Unsupported" \in kinds /\ "Valid" \notin kinds
          \/ kinds = {outcome.kind}
      BY <2>1, OrderFromSearch DEF BundleOrderIsImmaterial, Searchable
    <2>5. "Valid" \in kinds
      BY <2>3
    <2> HIDE DEF kinds
    <2> QED BY <2>4, <2>5
  <1> QED BY <1>1, SearchInvariant, PTL
=============================================================================
