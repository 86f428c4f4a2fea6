----------------------------- MODULE Acquisition -----------------------------
(***************************************************************************)
(* The network phase of an online run: main.rs resolve_online after        *)
(* selection, scitt-network acquire_all_before / acquire_before / observe  *)
(* and roots::acquire.  One request at a time, each given the smaller of   *)
(* its own limit and what is left of one deadline; meanwhile time passes   *)
(* and a ledger may rotate its service identity.  A certificate is named   *)
(* by its generation, so the kid its key hashes to is the same number.     *)
(***************************************************************************)
EXTENDS Outcome, Functions

CONSTANTS
    Selections,      \* what select may return: issuers, sorted, without repetition
    SourceCounts,    \* how many root endpoints the policy may name
    KeySets,         \* what a ledger may serve: sequences of [kid, bound]
    TotalDeadline, RequestTimeout,
    MaxRotations     \* bound: the service identities a ledger moves through

IsSelection(s) == s # <<>> /\ \A i, j \in DOMAIN s : i < j => s[i] < s[j]
Keys           == [kid : Nat \ {0}, bound : BOOLEAN]

ASSUME SelectionsAssumption == Selections \subseteq {s \in Seq(Nat) : IsSelection(s)}
ASSUME SourceAssumption     == SourceCounts \subseteq Nat
ASSUME KeySetsAssumption    == KeySets \subseteq {k \in Seq(Keys) : k # <<>>}
ASSUME LimitsAssumption     == /\ TotalDeadline \in Nat /\ RequestTimeout \in Nat \ {0}
                               /\ MaxRotations \in Nat

VARIABLES
    selected, sources, platform,
    clock, stage,
    flight,          \* the request on the wire
    cert,            \* the identity established for the current ledger; 0 is none
    serving,         \* the identity each ledger currently presents
    outcomes, roots, observations

run  == <<selected, sources, platform>>
vars == <<run, clock, stage, flight, cert, serving, outcomes, roots, observations>>

NoRequest == [kind |-> "none", peer |-> 0, until |-> 0]
Horizon   == TotalDeadline + 1     \* bound: later instants are all past the deadline

Init == /\ selected \in Selections /\ sources \in SourceCounts /\ platform \in BOOLEAN
        /\ clock = 0
        /\ stage = "KeySets"
        /\ flight = NoRequest /\ cert = 0
        /\ serving = [i \in DOMAIN selected |-> 1]
        /\ outcomes = <<>> /\ roots = <<>> /\ observations = <<>>

-----------------------------------------------------------------------------
(* budget: what is left of the deadline, capped at the request's own limit.*)
Remaining == IF clock < TotalDeadline THEN TotalDeadline - clock ELSE 0

(* Mutant: the deadline is looked at between ledgers only.                 *)
MutBudget == RequestTimeout

Budget == IF Remaining < RequestTimeout THEN Remaining ELSE RequestTimeout

Request(kind, peer) ==
    /\ flight' = [kind |-> kind, peer |-> peer, until |-> clock + Budget]
    /\ UNCHANGED <<cert, outcomes, roots, observations>>

(* A connection pinned to one certificate answers for that service only.   *)
(* Mutant: the public roots are accepted as well.                          *)
MutPinned(identity) == TRUE

Pinned(identity) == flight.peer = identity

Failed(fault)   == [result |-> fault, cert |-> 0, peer |-> 0, keys |-> <<>>]
Acquired(i)     == outcomes[i].result = "Acquired"

(* online::partition, which keeps the order of the selection.              *)
InOrder(S, length) ==
    LET seq[n \in 0..length] == IF n = 0 THEN <<>>
                                ELSE IF n \in S THEN Append(seq[n - 1], n) ELSE seq[n - 1]
    IN  seq[length]

AcquiredLedgers == InOrder({i \in DOMAIN outcomes : Acquired(i)}, Len(outcomes))
FailedLedgers   == InOrder({i \in DOMAIN outcomes : ~Acquired(i)}, Len(outcomes))

-----------------------------------------------------------------------------
(* The current ledger, root endpoint and configuration, while one is due.  *)
Ledger == Len(outcomes) + 1
Unread == {i \in DOMAIN outcomes :
              Acquired(i) /\ \A k \in DOMAIN observations : observations[k].issuer # selected[i]}
Read   == CHOOSE i \in Unread : \A j \in Unread : i <= j

LedgersDue        == stage = "KeySets" /\ Len(outcomes) < Len(selected)
RootsDue          == stage = "Roots" /\ Len(roots) < sources
ConfigurationsDue == stage = "Configurations" /\ Unread # {}

Observed(i, result, peer) == [issuer |-> selected[i], result |-> result, peer |-> peer]

LedgerFails(fault) == /\ outcomes' = Append(outcomes, Failed(fault))
                      /\ cert' = 0
                      /\ UNCHANGED <<roots, observations>>

RootEnds(result) == /\ roots' = Append(roots, result)
                    /\ UNCHANGED <<cert, outcomes, observations>>

ObservationEnds(result) ==
    /\ observations' = Append(observations,
           Observed(Read, result, IF result = "Retrieved" THEN flight.peer ELSE 0))
    /\ UNCHANGED <<cert, outcomes, roots>>

-----------------------------------------------------------------------------
(* acquire_all_before and the first half of acquire_before: a ledger past  *)
(* the deadline is reported, never dropped, and no handshake is made on a  *)
(* host whose TLS would abort the process.                                 *)
AskIdentity ==
    /\ LedgersDue /\ flight = NoRequest /\ cert = 0
    /\ IF Remaining = 0 THEN LedgerFails("DeadlineExceeded") /\ UNCHANGED flight
       ELSE IF ~platform THEN LedgerFails("UnsupportedPlatform") /\ UNCHANGED flight
       ELSE Request("identity", 0)
    /\ UNCHANGED <<run, clock, stage, serving>>

(* The identity service may lag behind a rotation, never run ahead of it.  *)
IdentityAnswered ==
    /\ flight.kind = "identity"
    /\ flight' = NoRequest
    /\ \/ \E fault \in {"Transport", "TlsAuthentication", "ResponseTooLarge",
                        "MalformedIdentity"} : LedgerFails(fault)
       \/ /\ cert' \in 1..serving[Ledger]
          /\ UNCHANGED <<outcomes, roots, observations>>
    /\ UNCHANGED <<run, clock, stage, serving>>

AskKeySet ==
    /\ LedgersDue /\ flight = NoRequest /\ cert # 0
    /\ IF Remaining = 0 THEN LedgerFails("DeadlineExceeded") /\ UNCHANGED flight
       ELSE Request("keyset", serving[Ledger])
    /\ UNCHANGED <<run, clock, stage, serving>>

(* service_key: exactly one entry claims the kid of the certificate, and   *)
(* its material hashes to it.  Mutant: one good entry among several does.  *)
MutServiceKey(keys, kid) == \E i \in DOMAIN keys : keys[i] = [kid |-> kid, bound |-> TRUE]

ServiceKey(keys, kid) ==
    \E i \in DOMAIN keys : /\ {j \in DOMAIN keys : keys[j].kid = kid} = {i}
                           /\ keys[i].bound

KeySetAnswered ==
    /\ flight.kind = "keyset"
    /\ flight' = NoRequest
    /\ \/ \E fault \in {"Transport", "TlsAuthentication", "ResponseTooLarge"} : LedgerFails(fault)
       \/ Pinned(cert) /\ LedgerFails("MalformedKeySet")
       \/ \E keys \in KeySets :
             /\ Pinned(cert)
             /\ IF ~ServiceKey(keys, cert) THEN LedgerFails("ServiceKeyMismatch")
                ELSE /\ outcomes' = Append(outcomes, [result |-> "Acquired", cert |-> cert,
                                                      peer |-> flight.peer, keys |-> keys])
                     /\ cert' = 0
                     /\ UNCHANGED <<roots, observations>>
    /\ UNCHANGED <<run, clock, stage, serving>>

-----------------------------------------------------------------------------
(* roots::acquire; the URLs were validated before any request was made.    *)
AskRoot ==
    /\ RootsDue /\ flight = NoRequest
    /\ IF ~platform THEN RootEnds("UnsupportedPlatform") /\ UNCHANGED flight
       ELSE IF Remaining = 0 THEN RootEnds("DeadlineExceeded") /\ UNCHANGED flight
       ELSE Request("root", 0)
    /\ UNCHANGED <<run, clock, stage, serving>>

RootAnswered ==
    /\ flight.kind = "root"
    /\ flight' = NoRequest
    /\ \E result \in {"Acquired", "Transport", "TlsAuthentication", "ResponseTooLarge",
                      "MalformedRoots"} : RootEnds(result)
    /\ UNCHANGED <<run, clock, stage, serving>>

(* configuration::observe, for a ledger whose keys were acquired and over  *)
(* the identity they came with.                                            *)
AskConfiguration ==
    /\ ConfigurationsDue /\ flight = NoRequest
    /\ IF Remaining = 0 THEN ObservationEnds("DeadlineExceeded") /\ UNCHANGED flight
       ELSE Request("configuration", serving[Read])
    /\ UNCHANGED <<run, clock, stage, serving>>

ConfigurationAnswered ==
    /\ flight.kind = "configuration"
    /\ flight' = NoRequest
    /\ \/ \E fault \in {"Transport", "TlsAuthentication", "ResponseTooLarge"} :
              ObservationEnds(fault)
       \/ \E result \in {"Retrieved", "AccessDenied", "EndpointNotServed",
                         "MalformedConfiguration"} :
             Pinned(outcomes[Read].cert) /\ ObservationEnds(result)
    /\ UNCHANGED <<run, clock, stage, serving>>

(* Every request carries its budget as a timeout (http::agent_with), which *)
(* is reported as a transport fault.  Mutant: the pinned agent has none.   *)
MutExpire ==
    /\ flight.kind \in {"identity", "root"} /\ clock >= flight.until
    /\ flight' = NoRequest
    /\ IF flight.kind = "root" THEN RootEnds("Transport") ELSE LedgerFails("Transport")
    /\ UNCHANGED <<run, clock, stage, serving>>

Expire ==
    /\ flight # NoRequest /\ clock >= flight.until
    /\ flight' = NoRequest
    /\ \/ stage = "KeySets"        /\ LedgerFails("Transport")
       \/ stage = "Roots"          /\ RootEnds("Transport")
       \/ stage = "Configurations" /\ ObservationEnds("Transport")
    /\ UNCHANGED <<run, clock, stage, serving>>

-----------------------------------------------------------------------------
Following(s) == IF s = "KeySets"    THEN "Roots"
                ELSE IF s = "Roots" THEN "Configurations" ELSE "Done"

(* A ledger whose keys were not acquired is recorded as not asked, before  *)
(* the others are.  Mutant: it is left out.                                *)
MutNotAsked == <<>>

NotAsked == [k \in DOMAIN FailedLedgers |-> Observed(FailedLedgers[k], "NotAttempted", 0)]

(* sort_by on the issuer.                                                  *)
ByIssuer(s) ==
    {[k \in DOMAIN s |-> s[order[k]]] : order \in
        {p \in Bijection(DOMAIN s, DOMAIN s) :
            \A i, j \in DOMAIN s : i < j => s[p[i]].issuer <= s[p[j]].issuer}}

EndStage ==
    /\ stage # "Done" /\ flight = NoRequest
    /\ ~LedgersDue /\ ~RootsDue /\ ~ConfigurationsDue
    /\ stage' = Following(stage)
    /\ observations' \in
          (IF stage = "Configurations" THEN ByIssuer(observations)
           ELSE IF Following(stage) = "Configurations" THEN {NotAsked} ELSE {observations})
    /\ UNCHANGED <<run, clock, flight, cert, serving, outcomes, roots>>

Tick == /\ stage # "Done" /\ clock < Horizon
        /\ flight # NoRequest => clock < flight.until
        /\ clock' = clock + 1
        /\ UNCHANGED <<run, stage, flight, cert, serving, outcomes, roots, observations>>

Rotate(i) == /\ stage # "Done" /\ serving[i] <= MaxRotations
             /\ serving' = [serving EXCEPT ![i] = @ + 1]
             /\ UNCHANGED <<run, clock, stage, flight, cert, outcomes, roots, observations>>

Finished == stage = "Done" /\ UNCHANGED vars

Answer  == IdentityAnswered \/ KeySetAnswered \/ RootAnswered \/ ConfigurationAnswered
Program == AskIdentity \/ AskKeySet \/ AskRoot \/ AskConfiguration \/ Expire \/ EndStage
Next    == Program \/ Answer \/ Tick \/ (\E i \in DOMAIN selected : Rotate(i)) \/ Finished

(* The program never waits except for a request, and a request's timeout   *)
(* fires; nobody owes it an answer.                                        *)
Spec == Init /\ [][Next]_vars /\ WF_vars(Program) /\ WF_vars(Tick)

-----------------------------------------------------------------------------
(* Every variable holds a value of its kind, a request never outlives the  *)
(* deadline, and a certificate is held only for a ledger that is due (what *)
(* the observations hold is the subject of EveryoneIsAccountedFor).        *)
TypeOK == /\ selected \in Selections /\ sources \in SourceCounts /\ platform \in BOOLEAN
          /\ clock \in 0..Horizon
          /\ stage \in {"KeySets", "Roots", "Configurations", "Done"}
          /\ flight.kind \in {"none", "identity", "keyset", "root", "configuration"}
          /\ flight.until \in 0..TotalDeadline
          /\ cert \in Nat /\ (cert # 0 => LedgersDue)
          /\ serving \in [DOMAIN selected -> Nat]
          /\ outcomes \in Seq([result : AcquisitionFaults \cup {"Acquired"}, cert : Nat,
                               peer : Nat, keys : KeySets \cup {<<>>}])
          /\ roots \in Seq(AcquisitionFaults \cup {"Acquired"})

(* The phase stays inside the bound an operator was told: no request is on *)
(* the wire past the deadline, however many preceded it.                   *)
DeadlineHolds == flight # NoRequest => clock <= flight.until /\ flight.until <= TotalDeadline

(* A key set that will verify receipts came over a connection to the       *)
(* service its identity names, and holds that service's own key, once.     *)
KeysAreTheServices ==
    \A i \in DOMAIN outcomes : Acquired(i) =>
        LET o     == outcomes[i]
            named == {k \in DOMAIN o.keys : o.keys[k].kid = o.cert}
        IN  o.peer = o.cert /\ \E k \in DOMAIN o.keys : named = {k} /\ o.keys[k].bound

(* A configuration that is shown beside a key set was served by the same   *)
(* service identity, even when the ledger rotated in between.              *)
ConfigurationIsTheSameService ==
    \A k \in DOMAIN observations : observations[k].result = "Retrieved" =>
        \E i \in DOMAIN outcomes : /\ selected[i] = observations[k].issuer
                                   /\ Acquired(i)
                                   /\ outcomes[i].cert = observations[k].peer

(* The acquisition block the verdict and the record are made from (Verify  *)
(* takes it as given).                                                     *)
Ambiguous(keys) == \E i, j \in DOMAIN keys : i # j /\ keys[i].kid = keys[j].kid

Configured(i) == \E k \in DOMAIN observations : /\ observations[k].issuer = selected[i]
                                                /\ observations[k].result = "Retrieved"

Block == [attempted |-> TRUE, present |-> TRUE,
          acquired  |-> [k \in DOMAIN AcquiredLedgers |->
                            LET i == AcquiredLedgers[k]
                            IN  [ambiguous |-> Ambiguous(outcomes[i].keys),
                                 config    |-> Configured(i)]],
          failed    |-> [k \in DOMAIN FailedLedgers |-> outcomes[FailedLedgers[k]].result],
          roots     |-> roots]

(* Every ledger and every endpoint that was selected is in the record,     *)
(* once and in order, as an answer, a fault or not asked; a configuration  *)
(* is not asked for exactly when the keys were not acquired.               *)
EveryoneIsAccountedFor ==
    stage = "Done" =>
        /\ Block \in AcquisitionBlocks
        /\ Len(Block.acquired) + Len(Block.failed) = Len(selected)
        /\ Len(Block.roots) = sources
        /\ Len(observations) = Len(selected)
        /\ \A i \in DOMAIN selected :
              /\ observations[i].issuer = selected[i]
              /\ Acquired(i) <=> observations[i].result # "NotAttempted"

(* The run goes on to a verdict whether or not anybody answers.            *)
Terminates == <>(stage = "Done")
=============================================================================
