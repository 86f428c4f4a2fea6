------------------------------- MODULE Chain -------------------------------
(***************************************************************************)
(* Whether a statement's certificates lead to an anchor: chain.rs of       *)
(* scitt-receipt, from the operator's root file (parse_pem_certificates)   *)
(* over the shortlist of anchors to the outcome of validate.  A            *)
(* certificate is the facts that a path is decided by: names, which key it *)
(* holds and which signed it, its window, what it may issue, and whether   *)
(* this build can check it at all.                                         *)
(***************************************************************************)
EXTENDS Integers, SequencesExt

CONSTANTS
    Certificates,  \* every certificate that a statement or a file may hold
    Chains,        \* x5chain values, leaf first
    Files,         \* what --trusted-roots may name, line by line
    Requests       \* how the run asks: options other than the roots

Certificate == [name : Nat, issuer : Nat, key : Nat, signer : Nat, from : Nat, to : Nat,
                ca : BOOLEAN,               \* v3, critical basicConstraints, keyCertSign
                pathLen : {s \in SUBSET Nat : \A l, m \in s : l = m},   \* at most one limit
                readable : BOOLEAN,         \* decodes at all
                supported : BOOLEAN,        \* signed with an algorithm of this build
                beyond : BOOLEAN,           \* an extension the path policy declines
                eku : SUBSET Nat, ekuCritical : BOOLEAN]

Lines == [mark : {"Begin", "BeginOther", "End"}] \cup
         [mark : {"Text"}, cert : Certificates]
Options == [rooted : BOOLEAN, timed : BOOLEAN, at : Int, purposes : SUBSET Nat]

ASSUME CertificatesAssumption == Certificates \subseteq Certificate
ASSUME ChainsAssumption       == Chains \subseteq Seq(Certificates)
ASSUME FilesAssumption        == Files \subseteq Seq(Lines)
ASSUME RequestsAssumption     == Requests \subseteq Options

VARIABLES
    chain, file, options,
    stage,
    line, body, roots,  \* the line to read, the open PEM block, the roots read so far
    tried,              \* the anchors attempted; 0 is the chain's own top
    failure, gap,       \* the first of each kind that an attempt came to
    outcome

request == <<chain, file, options>>
vars    == <<request, stage, line, body, roots, tried, failure, gap, outcome>>

Closed     == [open |-> FALSE, text |-> <<>>]
Opened     == [open |-> TRUE, text |-> <<>>]
Pending    == [kind |-> "Pending"]
Verdict(k) == [kind |-> k]

Init == /\ chain \in Chains /\ options \in Requests
        /\ file \in IF options.rooted THEN Files ELSE {<<>>}
        /\ stage = IF options.rooted THEN "Roots" ELSE "Material"
        /\ line = 1 /\ body = Closed /\ roots = <<>>
        /\ tried = {} /\ failure = "None" /\ gap = FALSE
        /\ outcome = Pending

-----------------------------------------------------------------------------
(* parse_pem_certificates, line by line; a refusal is a usage error.       *)
Refuse == stage' = "Refused" /\ UNCHANGED <<body, roots>>

ReadBegin(mark) ==
    \/ mark = "BeginOther" /\ Refuse
    \/ mark = "Begin" /\ body.open /\ Refuse
    \/ mark = "Begin" /\ ~body.open /\ body' = Opened /\ UNCHANGED <<stage, roots>>

(* A block is decoded whole: lines of two certificates are neither.        *)
Decodes(text) == Len(text) = 1 /\ text[1].readable

ReadEnd ==
    \/ ~(body.open /\ Decodes(body.text)) /\ Refuse
    \/ /\ body.open /\ Decodes(body.text)
       /\ roots' = Append(roots, body.text[1]) /\ body' = Closed /\ UNCHANGED stage

ReadText(c) ==
    /\ body' = IF body.open THEN [open |-> TRUE, text |-> Append(body.text, c)] ELSE body
    /\ UNCHANGED <<stage, roots>>

ReadLine ==
    /\ stage = "Roots" /\ line <= Len(file)
    /\ LET this == file[line] IN
          \/ this.mark \in {"Begin", "BeginOther"} /\ ReadBegin(this.mark)
          \/ this.mark = "End" /\ ReadEnd
          \/ this.mark = "Text" /\ ReadText(this.cert)   \* also what is no PEM at all
    /\ line' = line + 1
    /\ UNCHANGED <<request, tried, failure, gap, outcome>>

EndFile ==
    /\ stage = "Roots" /\ line > Len(file)
    /\ stage' = IF body.open \/ roots = <<>> THEN "Refused" ELSE "Material"
    /\ UNCHANGED <<request, line, body, roots, tried, failure, gap, outcome>>

-----------------------------------------------------------------------------
(* The material that must be there before any path is looked for.          *)
Top == Last(chain)
SelfIssued(c) == c.name = c.issuer

Absent     == chain = <<>> \/ (Len(chain) = 1 /\ roots = <<>>)
Unreadable == \E k \in DOMAIN chain : ~chain[k].readable

Truncated == roots = <<>> /\ ~SelfIssued(Top)

(* anchor_candidates: the roots that are the top itself, those whose       *)
(* subject issued it, or with no roots a top that is its own issuer.       *)
Exact(i)  == i # 0 /\ roots[i] = Top
ByName(i) == i # 0 /\ roots[i] # Top /\ Top.issuer = roots[i].name

Candidates == IF roots # <<>> THEN {i \in DOMAIN roots : Exact(i) \/ ByName(i)} ELSE {0}

Decide(o) == outcome' = o /\ stage' = "Done"

CheckMaterial ==
    /\ stage = "Material"
    /\ \/ Absent /\ Decide(Verdict("Insufficient"))
       \/ ~Absent /\ Unreadable /\ Decide(Verdict("Error"))
       \/ /\ ~Absent /\ ~Unreadable
          /\ \/ roots # <<>> /\ Candidates = {} /\ Decide(Verdict("Invalid"))
             \/ Truncated /\ Decide(Verdict("Insufficient"))
             \/ /\ Candidates # {} /\ ~Truncated
                /\ stage' = "Attempt" /\ UNCHANGED outcome
    /\ UNCHANGED <<request, line, body, roots, tried, failure, gap>>

-----------------------------------------------------------------------------
(* The path of a candidate, anchor first: the operator's root stands in    *)
(* for the statement's copy of it, and stands above a chain without it.    *)
Highest(i) == IF i = 0 \/ Exact(i) THEN Len(chain) - 1 ELSE Len(chain)
Anchor(i)  == IF i = 0 THEN Top ELSE roots[i]
Path(i)    == <<Anchor(i)>> \o Reverse(SubSeq(chain, 2, Highest(i))) \o <<chain[1]>>

Members(p) == {p[k] : k \in DOMAIN p}

(* path_window: the latest start and the earliest end.                     *)
(* Mutant: the window of the certificates the statement carries.           *)
MutWindow(p) == [from |-> CHOOSE t \in {c.from : c \in Members(chain)} :
                              \A c \in Members(chain) : c.from <= t,
                 to   |-> CHOOSE t \in {c.to : c \in Members(chain)} :
                              \A c \in Members(chain) : t <= c.to]

Window(p) == [from |-> CHOOSE t \in {c.from : c \in Members(p)} :
                           \A c \in Members(p) : c.from <= t,
              to   |-> CHOOSE t \in {c.to : c \in Members(p)} :
                           \A c \in Members(p) : t <= c.to]

(* choose_time: the earliest instant at which the whole path is live.      *)
NeverLive(p) == ~options.timed /\ Window(p).from > Window(p).to
TimeOf(p)    == IF options.timed THEN options.at ELSE Window(p).from

(* capability_gap.  The algorithm that signed the anchor is never used; a  *)
(* critical EKU is processed on a leaf whose purpose is asked about.       *)
PurposeAsked == options.purposes # {}
Declined(p, k) == \/ p[k].beyond
                  \/ p[k].ekuCritical /\ ~(PurposeAsked /\ k = Len(p))

(* Mutant: what cannot be checked is left to the verification.             *)
MutGap(p) == \E k \in DOMAIN p : Declined(p, k)

Gap(p) == \/ \E k \in 2..Len(p) : ~p[k].supported
          \/ \E k \in DOMAIN p : Declined(p, k)

(* verify_path_with_leaf_eku and the backend's own policy that it mirrors. *)
(* The allowance left below the k-th issuer, which a certificate that is   *)
(* not self-issued uses up and a pathLenConstraint lowers.                 *)
Lowest(n, limits) == IF \A l \in limits : n <= l THEN n ELSE CHOOSE l \in limits : l < n

(* Mutant: an issuer counts against its own limit.                         *)
MutAllowance(p) ==
    LET left[k \in 0..(Len(p) - 1)] ==
            IF k = 0 THEN Len(p)
            ELSE Lowest(left[k - 1], p[k].pathLen) - (IF SelfIssued(p[k]) THEN 0 ELSE 1)
    IN  left[Len(p) - 1]

Allowance(p) ==
    LET left[k \in 0..(Len(p) - 1)] ==
            IF k = 0 THEN Len(p)
            ELSE Lowest(left[k - 1] - (IF SelfIssued(p[k]) THEN 0 ELSE 1), p[k].pathLen)
    IN  left[Len(p) - 1]

Live(c, t) == c.from <= t /\ t <= c.to

(* Mutant: an issuer need not be a certificate authority.                  *)
MutIssued(c, d) == d.issuer = c.name /\ d.signer = c.key /\ d.supported

Issued(c, d) == /\ d.issuer = c.name /\ c.ca
                /\ d.signer = c.key /\ d.supported

Verifies(p, t) == /\ SelfIssued(p[1])
                  /\ \A k \in DOMAIN p : Live(p[k], t)
                  /\ \A k \in 1..(Len(p) - 1) : Issued(p[k], p[k + 1])
                  /\ Allowance(p) >= 0

(* check_leaf_eku *)
PurposeMet(p) == options.purposes \subseteq p[Len(p)].eku

Attempted(p) == IF NeverLive(p)                                    THEN "Invalid"
                ELSE IF Gap(p)                                     THEN "Unsupported"
                ELSE IF TimeOf(p) < 0                              THEN "Insufficient"
                ELSE IF Verifies(p, TimeOf(p)) /\ PurposeMet(p)    THEN "Valid"
                ELSE "Invalid"

Details(i) == [kind |-> "Valid", root |-> Anchor(i), anchored |-> i # 0,
               at |-> TimeOf(Path(i)), length |-> Len(Path(i)), window |-> Window(Path(i))]

(* Exact copies are tried ahead of names, and each in the bundle's order.  *)
Ahead(i, j) == \/ Exact(i) /\ ~Exact(j)
               \/ (Exact(i) <=> Exact(j)) /\ i < j
Upcoming(i) == /\ i \in Candidates \ tried
               /\ \A j \in Candidates \ tried : i = j \/ Ahead(i, j)

NoteFailure(i, kind) == /\ failure' = IF failure = "None" THEN kind ELSE failure
                        /\ tried' = tried \cup {i}

TryAnchor ==
    /\ stage = "Attempt"
    /\ \E i \in {j \in Candidates : Upcoming(j)} : LET kind == Attempted(Path(i)) IN
          \/ /\ kind = "Valid" /\ Decide(Details(i))
             /\ tried' = tried \cup {i} /\ UNCHANGED <<failure, gap>>
          \/ /\ kind = "Unsupported" /\ gap' = TRUE
             /\ tried' = tried \cup {i} /\ UNCHANGED <<stage, outcome, failure>>
          \/ /\ kind \in {"Invalid", "Insufficient"} /\ NoteFailure(i, kind)
             /\ UNCHANGED <<stage, outcome, gap>>
    /\ UNCHANGED <<request, line, body, roots>>

(* "Could not be examined" outranks "did not verify".                      *)
Concluded == IF gap THEN "Unsupported" ELSE failure

Conclude ==
    /\ stage = "Attempt" /\ tried = Candidates
    /\ Decide(Verdict(Concluded))
    /\ UNCHANGED <<request, line, body, roots, tried, failure, gap>>

Finished == stage \in {"Done", "Refused"} /\ UNCHANGED vars

Next == ReadLine \/ EndFile \/ CheckMaterial \/ TryAnchor \/ Conclude \/ Finished

Spec == Init /\ [][Next]_vars

-----------------------------------------------------------------------------
(* Every variable holds a value of its kind: only a block that is open has *)
(* text, the roots are certificates, and only candidates were tried.       *)
Kinds == {"Pending", "Valid", "Invalid", "Insufficient", "Unsupported", "Error"}

TypeOK ==
    /\ chain \in Chains /\ options \in Requests /\ file \in Files \cup {<<>>}
    /\ stage \in {"Roots", "Material", "Attempt", "Done", "Refused"}
    /\ line \in 1..(Len(file) + 1)
    /\ body.open \in BOOLEAN /\ body.text \in Seq(Certificates)
    /\ ~body.open => body.text = <<>>
    /\ roots \in Seq({c \in Certificates : c.readable})
    /\ tried \subseteq 0..Len(roots) /\ gap \in BOOLEAN
    /\ failure \in {"None", "Invalid", "Insufficient"}
    /\ outcome.kind \in Kinds /\ (outcome.kind # "Pending" <=> stage = "Done")

(* What a path is, whatever a build can check: the anchor answers for      *)
(* itself, each certificate was issued by the one above it, which may      *)
(* issue and has no more than its limit of others below it, all of them    *)
(* were live at once, and the leaf has the purposes asked for.             *)
Below(p, j) == {k \in (j + 1)..(Len(p) - 1) : ~SelfIssued(p[k])}

Holds(p, t) ==
    /\ SelfIssued(p[1])
    /\ \A k \in DOMAIN p : Live(p[k], t)
    /\ \A j \in 1..(Len(p) - 1) :
          /\ p[j].ca /\ p[j + 1].issuer = p[j].name /\ p[j + 1].signer = p[j].key
          /\ \A limit \in p[j].pathLen : Cardinality(Below(p, j)) <= limit
    /\ options.purposes \subseteq p[Len(p)].eku

(* The ways from an anchor to the leaf over what the statement carries.    *)
Anchors   == IF roots = <<>> THEN {Top} ELSE ToSet(roots)
Routes(r) == {<<r>> \o Reverse(s) : s \in {chain} \cup
                 IF r = Top /\ Len(chain) > 1 THEN {Front(chain)} ELSE {}}

Instants == IF options.timed THEN {options.at} ELSE
            UNION {{c.from - 1, c.from, c.to, c.to + 1} : c \in Certificates}

Examined == stage = "Done" /\ ~Absent /\ ~Unreadable

(* A valid outcome names an anchor that was supplied, or the chain's own   *)
(* when none was, and from it a path leads to the leaf that held at the    *)
(* time reported and had nothing on it that this build cannot check.       *)
ValidIsGenuine ==
    outcome.kind = "Valid" =>
        /\ outcome.root \in Anchors /\ (outcome.anchored <=> roots # <<>>)
        /\ \E p \in Routes(outcome.root) : Holds(p, outcome.at) /\ ~Gap(p)

(* The signer is never accused wrongly: where the chain does lead to an    *)
(* anchor, no limit of this build, no other root of the bundle and no cut  *)
(* in the search makes it "did not verify".                                *)
NeverAccusedWrongly ==
    Examined /\ outcome.kind = "Invalid" =>
        \A r \in Anchors : \A p \in Routes(r) : \A t \in Instants : ~Holds(p, t)

(* A path that this build can check is found, whatever else is supplied:   *)
(* another root never costs a chain its anchor.                            *)
GenuineIsFound ==
    Examined /\ (\E r \in Anchors : \E p \in Routes(r) : \E t \in Instants :
                    t >= 0 /\ Holds(p, t) /\ ~Gap(p))
        => outcome.kind = "Valid"

(* The kind of outcome is a matter of the set of candidates, not of their  *)
(* order in the operator's bundle: chain.rs, "Stopping at the first one".  *)
BundleOrderIsImmaterial ==
    Examined /\ ~Truncated /\ Candidates # {} =>
        LET kinds == {Attempted(Path(i)) : i \in Candidates} IN
          \/ outcome.kind = "Valid" /\ "Valid" \in kinds
          \/ outcome.kind = "Unsupported" /\ "Unsupported" \in kinds /\ "Valid" \notin kinds
          \/ kinds = {outcome.kind}

(* A root that is the statement's own topmost certificate is the anchor    *)
(* reported, when the path from it holds, and never a namesake of it.      *)
ExactCopyIsTheAnchor ==
    outcome.kind = "Valid" /\ outcome.root # Top =>
        \A i \in Candidates : Exact(i) => Attempted(Path(i)) # "Valid"

(* The window in the details, which the registration times are held to, is *)
(* that of the path that held and not of what the statement transports.    *)
WindowAnswersForThePath ==
    outcome.kind = "Valid" =>
        \E p \in Routes(outcome.root) :
            /\ Holds(p, outcome.at) /\ Len(p) = outcome.length
            /\ \A t \in UNION {{c.from - 1, c.from, c.to, c.to + 1} : c \in Certificates} :
                  outcome.window.from <= t /\ t <= outcome.window.to
                      <=> \A k \in DOMAIN p : Live(p[k], t)

(* The operator anchors to every root the file appears to hold: each block *)
(* begun in an accepted file is one certificate of the bundle, in order.   *)
Begun(k) == {j \in 1..k : file[j].mark \in {"Begin", "BeginOther"}}

NothingIsOmitted ==
    options.rooted /\ stage \notin {"Roots", "Refused"} =>
        /\ Cardinality(Begun(Len(file))) = Len(roots)
        /\ \A k \in Begun(Len(file)) :
              file[k + 1] = [mark |-> "Text", cert |-> roots[Cardinality(Begun(k))]]
=============================================================================
