-------------------------- MODULE AcquisitionProofs --------------------------
(***************************************************************************)
(* Theorems about the network phase, for every selection, every deadline   *)
(* and request limit, every key set a ledger may serve and any number of   *)
(* rotations.                                                              *)
(***************************************************************************)
EXTENDS Acquisition, WellFoundedInduction, TLAPS

USE DEF run

-----------------------------------------------------------------------------
(* The deadline: a request is made while time is left, with no more of it  *)
(* than is left, and time does not pass the instant its timeout fires.     *)
TimeKept ==
    /\ clock \in Nat
    /\ flight # NoRequest => /\ flight.until \in Nat
                             /\ clock <= flight.until /\ flight.until <= TotalDeadline

LEMMA RequestInTime ==
    ASSUME clock \in Nat, Remaining # 0, NEW kind, NEW peer, Request(kind, peer)
    PROVE  /\ flight'.until \in Nat
           /\ clock <= flight'.until /\ flight'.until <= TotalDeadline
  <1>1. TotalDeadline \in Nat /\ RequestTimeout \in Nat
    BY LimitsAssumption
  <1>2. clock < TotalDeadline /\ Remaining = TotalDeadline - clock
    BY DEF Remaining
  <1>3. Budget \in Nat /\ Budget <= TotalDeadline - clock
    BY <1>1, <1>2 DEF Budget
  <1>4. flight'.until = clock + Budget
    BY DEF Request
  <1> QED BY <1>1, <1>3, <1>4

(* A step that only asks, answers or gives up leaves the clock alone and   *)
(* has a request on the wire only if it made one in time or there was one. *)
AsksInTime == /\ UNCHANGED clock
              /\ \/ flight' = NoRequest
                 \/ UNCHANGED flight
                 \/ Remaining # 0 /\ \E kind, peer : Request(kind, peer)

LEMMA StepsAskInTime ==
    ASSUME Program \/ Answer \/ (\E i \in DOMAIN selected : Rotate(i))
    PROVE  AsksInTime
  <1>1. CASE AskIdentity
    BY <1>1 DEF AskIdentity, AsksInTime
  <1>2. CASE AskKeySet
    BY <1>2 DEF AskKeySet, AsksInTime
  <1>3. CASE AskRoot
    BY <1>3 DEF AskRoot, AsksInTime
  <1>4. CASE AskConfiguration
    BY <1>4 DEF AskConfiguration, AsksInTime
  <1>5. CASE Expire
    BY <1>5 DEF Expire, AsksInTime
  <1>6. CASE EndStage
    BY <1>6 DEF EndStage, AsksInTime
  <1>7. CASE Answer
    BY <1>7 DEF Answer, IdentityAnswered, KeySetAnswered, RootAnswered,
                ConfigurationAnswered, AsksInTime
  <1>8. CASE \E i \in DOMAIN selected : Rotate(i)
    BY <1>8 DEF Rotate, AsksInTime
  <1> QED BY <1>1, <1>2, <1>3, <1>4, <1>5, <1>6, <1>7, <1>8 DEF Program

LEMMA TimeIsKept == TimeKept /\ [Next]_vars => TimeKept'
  <1> SUFFICES ASSUME TimeKept, [Next]_vars PROVE TimeKept'
    OBVIOUS
  <1>1. CASE AsksInTime
    <2>1. CASE flight' = NoRequest \/ UNCHANGED flight
      BY <1>1, <2>1 DEF TimeKept, AsksInTime, NoRequest
    <2>2. CASE Remaining # 0 /\ \E kind, peer : Request(kind, peer)
      BY <1>1, <2>2, RequestInTime DEF TimeKept, AsksInTime
    <2> QED BY <1>1, <2>1, <2>2 DEF AsksInTime
  <1>2. CASE Tick
    <2>1. clock' = clock + 1 /\ UNCHANGED flight /\ (flight # NoRequest => clock < flight.until)
      BY <1>2 DEF Tick
    <2> QED BY <2>1 DEF TimeKept, NoRequest
  <1>3. CASE Finished \/ UNCHANGED vars
    BY <1>3 DEF TimeKept, Finished, vars, NoRequest
  <1> QED BY <1>1, <1>2, <1>3, StepsAskInTime DEF Next

(* No request is on the wire past the deadline, whatever preceded it.      *)
THEOREM DeadlineIsKept == Spec => []DeadlineHolds
  <1>1. Init => TimeKept
    BY DEF Init, TimeKept
  <1>2. TimeKept => DeadlineHolds
    BY DEF TimeKept, DeadlineHolds
  <1> QED BY <1>1, <1>2, TimeIsKept, PTL DEF Spec

-----------------------------------------------------------------------------
(* The keys: what is recorded of a ledger is recorded while it is due, and *)
(* an acquired key set came from the service it is filed under.            *)
Ledgered == [result : AcquisitionFaults \cup {"Acquired"}, cert : Nat, peer : Nat,
             keys : KeySets \cup {<<>>}]

LedgersTyped ==
    /\ selected \in Seq(Nat)
    /\ cert \in Nat
    /\ serving \in [DOMAIN selected -> Nat]
    /\ outcomes \in Seq(Ledgered)
    /\ flight.kind \in {"identity", "keyset"} => LedgersDue

Genuine(o) == o.result = "Acquired" =>
    /\ o.peer = o.cert
    /\ \E k \in DOMAIN o.keys : /\ {j \in DOMAIN o.keys : o.keys[j].kid = o.cert} = {k}
                                /\ o.keys[k].bound

AllGenuine == \A i \in DOMAIN outcomes : Genuine(outcomes[i])

LEMMA FailureIsLedgered ==
    ASSUME NEW fault \in AcquisitionFaults
    PROVE  Failed(fault) \in Ledgered /\ Genuine(Failed(fault))
  BY DEF Failed, Ledgered, Genuine, AcquisitionFaults, ConfigurationFaults

LEMMA AppendKeepsGenuine ==
    ASSUME outcomes \in Seq(Ledgered), AllGenuine, NEW o \in Ledgered, Genuine(o),
           outcomes' = Append(outcomes, o)
    PROVE  outcomes' \in Seq(Ledgered) /\ AllGenuine'
  <1>1. outcomes' \in Seq(Ledgered)
    OBVIOUS
  <1>2. ASSUME NEW i \in DOMAIN outcomes' PROVE Genuine(outcomes'[i])
    <2>1. (i \in DOMAIN outcomes /\ outcomes'[i] = outcomes[i]) \/ outcomes'[i] = o
      OBVIOUS
    <2> QED BY <2>1 DEF AllGenuine
  <1> QED BY <1>1, <1>2 DEF AllGenuine

LEMMA LedgerFailureIsKept ==
    ASSUME LedgersTyped, AllGenuine, NEW fault \in AcquisitionFaults, LedgerFails(fault)
    PROVE  outcomes' \in Seq(Ledgered) /\ cert' \in Nat /\ AllGenuine'
  <1>1. outcomes' = Append(outcomes, Failed(fault)) /\ cert' = 0
    BY DEF LedgerFails
  <1>2. outcomes \in Seq(Ledgered)
    BY DEF LedgersTyped
  <1> QED BY <1>1, <1>2, FailureIsLedgered, AppendKeepsGenuine

LEMMA DueIsSelected ==
    ASSUME LedgersTyped, LedgersDue
    PROVE  serving[Ledger] \in Nat
  <1>1. Len(outcomes) \in Nat /\ Len(selected) \in Nat /\ Len(outcomes) < Len(selected)
    BY DEF LedgersTyped, LedgersDue
  <1>2. Ledger \in DOMAIN selected
    BY <1>1 DEF LedgersTyped, Ledger
  <1> QED BY <1>2 DEF LedgersTyped

(* A step that neither ends a ledger nor makes a request for one.          *)
LeavesLedgers == /\ UNCHANGED <<selected, serving, cert, outcomes>>
                 /\ \/ flight' = NoRequest
                    \/ flight'.kind \notin {"identity", "keyset"}
                    \/ LedgersDue /\ UNCHANGED stage
                    \/ UNCHANGED <<flight, stage>>

LEMMA LedgersAreLeft ==
    ASSUME LedgersTyped, AllGenuine, LeavesLedgers
    PROVE  LedgersTyped' /\ AllGenuine'
  <1>1. flight'.kind \in {"identity", "keyset"} => LedgersDue'
    BY DEF LeavesLedgers, LedgersTyped, LedgersDue, NoRequest
  <1>2. AllGenuine'
    BY DEF LeavesLedgers, AllGenuine
  <1> QED BY <1>1, <1>2 DEF LeavesLedgers, LedgersTyped

LEMMA KeysStayGenuine == LedgersTyped /\ AllGenuine /\ [Next]_vars => LedgersTyped' /\ AllGenuine'
  <1> SUFFICES ASSUME LedgersTyped, AllGenuine, [Next]_vars
               PROVE  LedgersTyped' /\ AllGenuine'
    OBVIOUS
  <1> DEFINE faults == {"Transport", "TlsAuthentication", "ResponseTooLarge", "MalformedIdentity",
                        "MalformedKeySet", "ServiceKeyMismatch", "DeadlineExceeded",
                        "UnsupportedPlatform"}
             Kept   == UNCHANGED <<selected, serving>> /\ flight' = NoRequest
             Fails  == Kept /\ \E fault \in faults : LedgerFails(fault)
  <1>f. faults \subseteq AcquisitionFaults
    BY DEF AcquisitionFaults, ConfigurationFaults
  <1> HIDE DEF faults
  <1>0. CASE Fails
    <2>1. outcomes' \in Seq(Ledgered) /\ cert' \in Nat /\ AllGenuine'
      BY <1>0, <1>f, LedgerFailureIsKept
    <2>2. flight'.kind \notin {"identity", "keyset"}
      BY <1>0 DEF NoRequest
    <2> QED BY <1>0, <2>1, <2>2 DEF LedgersTyped
  <1>1. CASE AskIdentity
    <2>1. Fails \/ LeavesLedgers
      BY <1>1 DEF AskIdentity, Request, LeavesLedgers, faults
    <2> QED BY <2>1, <1>0, LedgersAreLeft
  <1>2. CASE AskKeySet
    <2>1. Fails \/ LeavesLedgers
      BY <1>2 DEF AskKeySet, Request, LeavesLedgers, faults
    <2> QED BY <2>1, <1>0, LedgersAreLeft
  <1>3. CASE IdentityAnswered
    <2>1. Fails \/ (Kept /\ cert' \in 1..serving[Ledger] /\ UNCHANGED outcomes)
      BY <1>3 DEF IdentityAnswered, faults
    <2>2. ASSUME Kept, cert' \in 1..serving[Ledger], UNCHANGED outcomes
          PROVE  LedgersTyped' /\ AllGenuine'
      <3>1. LedgersDue
        BY <1>3 DEF IdentityAnswered, LedgersTyped
      <3>2. cert' \in Nat
        BY <2>2, <3>1, DueIsSelected
      <3>3. flight'.kind \notin {"identity", "keyset"}
        BY <2>2 DEF NoRequest
      <3> QED BY <2>2, <3>2, <3>3 DEF LedgersTyped, AllGenuine
    <2> QED BY <2>1, <2>2, <1>0
  <1>4. CASE KeySetAnswered
    <2> DEFINE good(keys) == [result |-> "Acquired", cert |-> cert,
                              peer |-> flight.peer, keys |-> keys]
    <2>1. Fails \/ \E keys \in KeySets : /\ Kept /\ Pinned(cert) /\ ServiceKey(keys, cert)
                                         /\ outcomes' = Append(outcomes, good(keys)) /\ cert' = 0
      BY <1>4 DEF KeySetAnswered, faults
    <2>2. ASSUME NEW keys \in KeySets, Kept, Pinned(cert), ServiceKey(keys, cert),
                 outcomes' = Append(outcomes, good(keys)), cert' = 0
          PROVE  LedgersTyped' /\ AllGenuine'
      <3>1. cert \in Nat /\ flight.peer = cert /\ outcomes \in Seq(Ledgered)
        BY <2>2 DEF LedgersTyped, Pinned
      <3>2. good(keys) \in Ledgered
        BY <2>2, <3>1 DEF Ledgered
      <3>3. Genuine(good(keys))
        BY <2>2, <3>1 DEF Genuine, ServiceKey
      <3> HIDE DEF good
      <3>4. outcomes' \in Seq(Ledgered) /\ AllGenuine'
        BY <2>2, <3>1, <3>2, <3>3, AppendKeepsGenuine
      <3>5. flight'.kind \notin {"identity", "keyset"}
        BY <2>2 DEF NoRequest
      <3> QED BY <2>2, <3>4, <3>5 DEF LedgersTyped
    <2> QED BY <2>1, <2>2, <1>0
  <1>5. CASE Expire
    <2>1. Fails \/ LeavesLedgers
      BY <1>5 DEF Expire, RootEnds, ObservationEnds, LeavesLedgers, faults
    <2> QED BY <2>1, <1>0, LedgersAreLeft
  <1>6. CASE AskRoot \/ RootAnswered
    <2>1. LeavesLedgers
      BY <1>6 DEF AskRoot, RootAnswered, RootEnds, Request, LeavesLedgers
    <2> QED BY <2>1, LedgersAreLeft
  <1>7. CASE AskConfiguration \/ ConfigurationAnswered
    <2>1. LeavesLedgers
      BY <1>7 DEF AskConfiguration, ConfigurationAnswered, ObservationEnds, Request,
                  LeavesLedgers
    <2> QED BY <2>1, LedgersAreLeft
  <1>8. CASE EndStage
    <2>1. LeavesLedgers
      BY <1>8 DEF EndStage, LeavesLedgers
    <2> QED BY <2>1, LedgersAreLeft
  <1>9. CASE Tick \/ Finished \/ UNCHANGED vars
    <2>1. LeavesLedgers
      BY <1>9 DEF Tick, Finished, vars, LeavesLedgers
    <2> QED BY <2>1, LedgersAreLeft
  <1>10. ASSUME NEW i \in DOMAIN selected, Rotate(i)
         PROVE  LedgersTyped' /\ AllGenuine'
    <2>1. serving' \in [DOMAIN selected -> Nat]
      BY <1>10 DEF Rotate, LedgersTyped
    <2> QED BY <1>10, <2>1 DEF Rotate, LedgersTyped, AllGenuine, LedgersDue
  <1> QED BY <1>1, <1>2, <1>3, <1>4, <1>5, <1>6, <1>7, <1>8, <1>9, <1>10
          DEF Next, Program, Answer

(* A key set that verifies receipts came over a connection to the service  *)
(* its identity names and holds that service's own key, once, whenever the *)
(* ledgers rotate and whatever they serve.                                 *)
THEOREM KeysAreGenuine == Spec => []KeysAreTheServices
  <1>1. Init => LedgersTyped /\ AllGenuine
    <2> SUFFICES ASSUME Init PROVE LedgersTyped /\ AllGenuine
      OBVIOUS
    <2>1. selected \in Seq(Nat)
      BY SelectionsAssumption DEF Init
    <2>2. outcomes \in Seq(Ledgered) /\ DOMAIN outcomes = {}
      BY DEF Init
    <2> QED BY <2>1, <2>2 DEF Init, LedgersTyped, AllGenuine, NoRequest
  <1>2. AllGenuine => KeysAreTheServices
    BY DEF AllGenuine, Genuine, KeysAreTheServices, Acquired
  <1> QED BY <1>1, <1>2, KeysStayGenuine, PTL DEF Spec

-----------------------------------------------------------------------------
(* The types of the rest: a stage follows a stage, a root endpoint ends in *)
(* a fault or an answer, and a certificate is dropped with its ledger.     *)
PhaseTyped ==
    /\ selected \in Selections /\ sources \in SourceCounts /\ platform \in BOOLEAN
    /\ clock \in 0..Horizon
    /\ stage \in {"KeySets", "Roots", "Configurations", "Done"}
    /\ flight.kind \in {"none", "identity", "keyset", "root", "configuration"}
    /\ flight = NoRequest \/ flight.kind # "none"
    /\ cert # 0 => LedgersDue
    /\ roots \in Seq(AcquisitionFaults \cup {"Acquired"})

LEMMA RootEndIsTyped ==
    ASSUME roots \in Seq(AcquisitionFaults \cup {"Acquired"}),
           NEW result \in AcquisitionFaults \cup {"Acquired"}, RootEnds(result)
    PROVE  roots' \in Seq(AcquisitionFaults \cup {"Acquired"})
  BY DEF RootEnds

(* What a step that is not Tick and does not end a root does to the phase. *)
LeavesPhase ==
    /\ UNCHANGED <<selected, sources, platform, clock>>
    /\ stage' \in {stage, "Roots", "Configurations", "Done"}
    /\ \/ flight' = NoRequest
       \/ UNCHANGED flight
       \/ flight'.kind \in {"identity", "keyset", "root", "configuration"}
    /\ \/ cert' = 0
       \/ UNCHANGED <<cert, outcomes, stage>>
       \/ LedgersDue /\ UNCHANGED <<outcomes, stage>>

LEMMA PhaseIsLeft ==
    ASSUME PhaseTyped, LeavesPhase, roots' \in Seq(AcquisitionFaults \cup {"Acquired"})
    PROVE  PhaseTyped'
  <1>1. flight'.kind \in {"none", "identity", "keyset", "root", "configuration"}
    BY DEF PhaseTyped, LeavesPhase, NoRequest
  <1>2. flight' = NoRequest \/ flight'.kind # "none"
    BY DEF PhaseTyped, LeavesPhase
  <1>3. cert' # 0 => LedgersDue'
    BY DEF PhaseTyped, LeavesPhase, LedgersDue
  <1> QED BY <1>1, <1>2, <1>3 DEF PhaseTyped, LeavesPhase, Horizon

LEMMA PhaseIsTyped == LedgersTyped /\ PhaseTyped /\ [Next]_vars => PhaseTyped'
  <1> SUFFICES ASSUME LedgersTyped, PhaseTyped, [Next]_vars PROVE PhaseTyped'
    OBVIOUS
  <1> DEFINE rooted == roots' \in Seq(AcquisitionFaults \cup {"Acquired"})
  <1>r. roots \in Seq(AcquisitionFaults \cup {"Acquired"})
    BY DEF PhaseTyped
  <1>f. {"Transport", "TlsAuthentication", "ResponseTooLarge", "MalformedRoots",
         "UnsupportedPlatform", "DeadlineExceeded", "Acquired"}
        \subseteq AcquisitionFaults \cup {"Acquired"}
    BY DEF AcquisitionFaults, ConfigurationFaults
  <1>1. CASE AskIdentity \/ AskKeySet
    <2>1. LeavesPhase /\ UNCHANGED roots
      BY <1>1 DEF AskIdentity, AskKeySet, Request, LedgerFails, LeavesPhase
    <2> QED BY <2>1, <1>r, PhaseIsLeft
  <1>2. CASE IdentityAnswered
    <2>1. LeavesPhase /\ UNCHANGED roots
      BY <1>2 DEF IdentityAnswered, LedgerFails, LeavesPhase, LedgersTyped
    <2> QED BY <2>1, <1>r, PhaseIsLeft
  <1>3. CASE KeySetAnswered
    <2>1. LeavesPhase /\ UNCHANGED roots
      BY <1>3 DEF KeySetAnswered, LedgerFails, LeavesPhase
    <2> QED BY <2>1, <1>r, PhaseIsLeft
  <1>4. CASE AskRoot
    <2>1. LeavesPhase
      BY <1>4 DEF AskRoot, Request, RootEnds, LeavesPhase
    <2>2. UNCHANGED roots \/ RootEnds("UnsupportedPlatform") \/ RootEnds("DeadlineExceeded")
      BY <1>4 DEF AskRoot, Request
    <2>3. rooted
      BY <2>2, <1>r, <1>f, RootEndIsTyped
    <2> QED BY <2>1, <2>3, PhaseIsLeft
  <1>5. CASE RootAnswered
    <2>1. LeavesPhase
      BY <1>5 DEF RootAnswered, RootEnds, LeavesPhase
    <2>2. \E result \in AcquisitionFaults \cup {"Acquired"} : RootEnds(result)
      BY <1>5, <1>f DEF RootAnswered
    <2>3. rooted
      BY <2>2, <1>r, RootEndIsTyped
    <2> QED BY <2>1, <2>3, PhaseIsLeft
  <1>6. CASE AskConfiguration \/ ConfigurationAnswered
    <2>1. LeavesPhase /\ UNCHANGED roots
      BY <1>6 DEF AskConfiguration, ConfigurationAnswered, Request, ObservationEnds,
                  LeavesPhase
    <2> QED BY <2>1, <1>r, PhaseIsLeft
  <1>7. CASE Expire
    <2>1. LeavesPhase
      BY <1>7 DEF Expire, LedgerFails, RootEnds, ObservationEnds, LeavesPhase
    <2>2. UNCHANGED roots \/ RootEnds("Transport")
      BY <1>7 DEF Expire, LedgerFails, ObservationEnds
    <2>3. rooted
      BY <2>2, <1>r, <1>f, RootEndIsTyped
    <2> QED BY <2>1, <2>3, PhaseIsLeft
  <1>8. CASE EndStage
    <2>1. cert = 0
      BY <1>8 DEF EndStage, PhaseTyped
    <2>2. LeavesPhase /\ UNCHANGED roots
      BY <1>8, <2>1 DEF EndStage, Following, LeavesPhase
    <2> QED BY <2>2, <1>r, PhaseIsLeft
  <1>9. CASE Tick
    <2>1. clock' \in 0..Horizon
      BY <1>9, LimitsAssumption DEF Tick, PhaseTyped, Horizon
    <2> QED BY <1>9, <2>1 DEF Tick, run, PhaseTyped, LedgersDue
  <1>10. CASE (\E i \in DOMAIN selected : Rotate(i)) \/ Finished \/ UNCHANGED vars
    <2>1. LeavesPhase /\ UNCHANGED roots
      BY <1>10 DEF Rotate, Finished, vars, LeavesPhase
    <2> QED BY <2>1, <1>r, PhaseIsLeft
  <1> QED BY <1>1, <1>2, <1>3, <1>4, <1>5, <1>6, <1>7, <1>8, <1>9, <1>10
          DEF Next, Program, Answer

(* Every variable of the phase but the observations holds a value of its   *)
(* kind, whatever is selected, served and answered.                        *)
THEOREM TypesAreKept == Spec => []TypeOK
  <1>1. Init => TimeKept /\ LedgersTyped /\ AllGenuine /\ PhaseTyped
    <2> SUFFICES ASSUME Init PROVE TimeKept /\ LedgersTyped /\ AllGenuine /\ PhaseTyped
      OBVIOUS
    <2>1. selected \in Seq(Nat)
      BY SelectionsAssumption DEF Init
    <2>2. outcomes \in Seq(Ledgered) /\ DOMAIN outcomes = {}
      BY DEF Init
    <2>3. clock \in 0..Horizon
      BY LimitsAssumption DEF Init, Horizon
    <2>4. roots \in Seq(AcquisitionFaults \cup {"Acquired"})
      BY DEF Init
    <2>5. TimeKept /\ LedgersTyped /\ AllGenuine
      BY <2>1, <2>2 DEF Init, TimeKept, LedgersTyped, AllGenuine, NoRequest
    <2> QED BY <2>3, <2>4, <2>5 DEF Init, PhaseTyped, NoRequest
  <1>2. TimeKept /\ LedgersTyped /\ PhaseTyped => TypeOK
    <2> SUFFICES ASSUME TimeKept, LedgersTyped, PhaseTyped PROVE TypeOK
      OBVIOUS
    <2>1. flight.until \in 0..TotalDeadline
      BY LimitsAssumption DEF TimeKept, NoRequest
    <2> QED BY <2>1 DEF LedgersTyped, PhaseTyped, TypeOK, Ledgered
  <1> QED BY <1>1, <1>2, TimeIsKept, KeysStayGenuine, PhaseIsTyped, PTL DEF Spec

-----------------------------------------------------------------------------
(* A non-empty set of numbers has a least one: what the inductions over a  *)
(* length below start from.                                                *)
LEMMA LeastNumber ==
    ASSUME NEW T \in SUBSET Nat, T # {}
    PROVE  \E x \in T : \A y \in T : x <= y
  <1> DEFINE R == OpToRel(<, Nat)
  <1>1. IsWellFoundedOn(R, Nat)
    BY NatLessThanWellFounded
  <1>2. \A x, y \in Nat : y < x => <<y, x>> \in R
    BY DEF OpToRel
  <1> HIDE DEF R
  <1>3. PICK x \in T : \A y \in T : ~ (<<y, x>> \in R)
    BY <1>1, WFMin
  <1>4. \A y \in T : y \in Nat /\ ~(y < x)
    BY <1>2, <1>3
  <1> QED BY <1>4

(* The elements of S that are at most length, in order: f is the recursion *)
(* InOrder makes.                                                          *)
Lists(S, length, f) ==
    f = [n \in 0..length |-> IF n = 0 THEN <<>>
                             ELSE IF n \in S THEN Append(f[n - 1], n) ELSE f[n - 1]]

LEMMA ListsExist ==
    ASSUME NEW S, NEW length \in Nat
    PROVE  \E f : Lists(S, length, f)
  <1> DEFINE Bad == {n \in Nat : ~ \E f : Lists(S, n, f)}
  <1> SUFFICES ASSUME Bad # {} PROVE FALSE
    OBVIOUS
  <1>1. PICK n \in Bad : \A y \in Bad : n <= y
    BY LeastNumber
  <1>2. n # 0
    <2> DEFINE f == [k \in 0..0 |-> <<>>]
    <2>1. Lists(S, 0, f)
      BY DEF Lists
    <2> QED BY <2>1, <1>1
  <1>3. n \in Nat /\ n - 1 \in Nat /\ n - 1 \notin Bad
    BY <1>1, <1>2
  <1>4. PICK f : Lists(S, n - 1, f)
    BY <1>3
  <1> DEFINE g == [k \in 0..n |-> IF k = n THEN IF n \in S THEN Append(f[n - 1], n)
                                                ELSE f[n - 1]
                                  ELSE f[k]]
  <1>5. \A k \in 0..(n - 1) : g[k] = f[k]
    BY <1>3
  <1>6. \A k \in 0..n : g[k] = IF k = 0 THEN <<>>
                               ELSE IF k \in S THEN Append(g[k - 1], k) ELSE g[k - 1]
    <2> TAKE k \in 0..n
    <2>1. CASE k = n
      <3>1. n - 1 \in 0..(n - 1) /\ n \in 0..n
        BY <1>3
      <3>2. g[n - 1] = f[n - 1]
        BY <3>1, <1>5
      <3> QED BY <2>1, <3>1, <3>2, <1>2
    <2>2. CASE k = 0
      <3>1. f[0] = <<>>
        BY <1>3, <1>4 DEF Lists
      <3> QED BY <2>2, <3>1, <1>2, <1>3
    <2>3. CASE k # n /\ k # 0
      <3>1. k \in 0..(n - 1) /\ k - 1 \in 0..(n - 1)
        BY <2>3, <1>3
      <3>2. f[k] = IF k \in S THEN Append(f[k - 1], k) ELSE f[k - 1]
        BY <3>1, <2>3, <1>4 DEF Lists
      <3> QED BY <3>1, <3>2, <1>5, <2>3
    <2> QED BY <2>1, <2>2, <2>3
  <1>7. Lists(S, n, g)
    <2>1. g = [k \in 0..n |-> g[k]]
      OBVIOUS
    <2> HIDE DEF g
    <2> QED BY <2>1, <1>6 DEF Lists
  <1> QED BY <1>7, <1>1

LEMMA InOrderIsListed ==
    ASSUME NEW S, NEW length \in Nat
    PROVE  \E f : Lists(S, length, f) /\ InOrder(S, length) = f[length]
  <1>1. \E f : Lists(S, length, f)
    BY ListsExist
  <1> DEFINE f == CHOOSE f : Lists(S, length, f)
  <1>2. Lists(S, length, f)
    BY <1>1
  <1>3. InOrder(S, length) = f[length]
    BY DEF InOrder, Lists
  <1> QED BY <1>2, <1>3

(* A list of S: increasing, made of numbers of S and holding each of them. *)
ListOf(S, s) == /\ s \in Seq(S)
                /\ \A i, j \in 1..Len(s) : i < j => s[i] < s[j]
                /\ \A x \in S : \E i \in 1..Len(s) : s[i] = x

LEMMA ListGrows ==
    ASSUME NEW n \in Nat, NEW S \in SUBSET (1..n), NEW s, ListOf(S, s)
    PROVE  ListOf(S \cup {n + 1}, Append(s, n + 1)) /\ Len(Append(s, n + 1)) = Len(s) + 1
  <1> DEFINE t == Append(s, n + 1)
             T == S \cup {n + 1}
  <1>1. s \in Seq(S) /\ s \in Seq(T) /\ n + 1 \in T /\ Len(s) \in Nat
    BY DEF ListOf
  <1>2. t \in Seq(T) /\ Len(t) = Len(s) + 1
    BY <1>1
  <1>3. (\A i \in 1..Len(s) : t[i] = s[i] /\ s[i] \in S) /\ t[Len(s) + 1] = n + 1
    BY <1>1
  <1>4. \A x \in S : x \in Nat /\ x < n + 1
    OBVIOUS
  <1> HIDE DEF t
  <1>5. \A i, j \in 1..Len(t) : i < j => t[i] < t[j]
    <2> SUFFICES ASSUME NEW i \in 1..Len(t), NEW j \in 1..Len(t), i < j PROVE t[i] < t[j]
      OBVIOUS
    <2>1. i \in 1..Len(s) /\ (j \in 1..Len(s) \/ j = Len(s) + 1)
      BY <1>1, <1>2
    <2> QED BY <2>1, <1>3, <1>4 DEF ListOf
  <1>6. \A x \in T : \E i \in 1..Len(t) : t[i] = x
    <2> TAKE x \in T
    <2>1. CASE x = n + 1
      BY <2>1, <1>1, <1>2, <1>3
    <2>2. CASE x \in S
      <3>1. PICK i \in 1..Len(s) : s[i] = x
        BY <2>2 DEF ListOf
      <3> QED BY <3>1, <1>1, <1>2, <1>3
    <2> QED BY <2>1, <2>2
  <1> QED BY <1>2, <1>5, <1>6 DEF ListOf, t

(* Splitting 1..length into two lists loses nothing and repeats nothing.   *)
LEMMA PartitionIsWhole ==
    ASSUME NEW length \in Nat, NEW S \in SUBSET (1..length)
    PROVE  LET U == (1..length) \ S
           IN  /\ ListOf(S, InOrder(S, length)) /\ ListOf(U, InOrder(U, length))
               /\ Len(InOrder(S, length)) + Len(InOrder(U, length)) = length
  <1> DEFINE U == (1..length) \ S
  <1>1. PICK f : Lists(S, length, f) /\ InOrder(S, length) = f[length]
    BY InOrderIsListed
  <1>2. PICK g : Lists(U, length, g) /\ InOrder(U, length) = g[length]
    BY InOrderIsListed
  <1> DEFINE Up(n) == /\ ListOf(S \cap 1..n, f[n]) /\ ListOf(U \cap 1..n, g[n])
                      /\ Len(f[n]) + Len(g[n]) = n
             Bad == {n \in 0..length : ~Up(n)}
  <1> HIDE DEF Up
  <1>3. Bad = {}
    <2> SUFFICES ASSUME Bad # {} PROVE FALSE
      OBVIOUS
    <2>0. Bad \in SUBSET Nat
      OBVIOUS
    <2> HIDE DEF Bad
    <2>1. PICK n \in Bad : \A y \in Bad : n <= y
      BY <2>0, LeastNumber
    <2>b. n \in 0..length /\ ~Up(n) /\ n \in Nat
      BY <2>1 DEF Bad
    <2>2. n # 0
      <3>1. 0 \in 0..length
        OBVIOUS
      <3>2. f[0] = <<>> /\ g[0] = <<>>
        BY <1>1, <1>2, <3>1 DEF Lists
      <3>3. S \cap 1..0 = {} /\ U \cap 1..0 = {}
        OBVIOUS
      <3>4. ListOf({}, <<>>) /\ Len(<<>>) = 0
        BY DEF ListOf
      <3>5. Up(0)
        BY <3>2, <3>3, <3>4 DEF Up
      <3> QED BY <3>5, <2>b
    <2>3. PICK m \in Nat : n = m + 1
      <3>1. n - 1 \in Nat /\ n = (n - 1) + 1
        BY <2>b, <2>2
      <3> QED BY <3>1
    <2>4. m \in 0..length /\ m \notin Bad /\ n - 1 = m
      BY <2>1, <2>3, <2>b
    <2>5. Up(m)
      BY <2>4 DEF Bad
    <2>s. Len(f[m]) + Len(g[m]) = m
      BY <2>5 DEF Up
    <2>6. n \in 1..length /\ (n \in S) # (n \in U)
      BY <2>b, <2>2
    <2>7. /\ f[n] = IF n \in S THEN Append(f[m], n) ELSE f[m]
          /\ g[n] = IF n \in U THEN Append(g[m], n) ELSE g[m]
      BY <2>b, <2>2, <2>4, <1>1, <1>2 DEF Lists
    <2>8. /\ S \cap 1..m \in SUBSET (1..m) /\ U \cap 1..m \in SUBSET (1..m)
          /\ S \cap 1..n = IF n \in S THEN (S \cap 1..m) \cup {m + 1} ELSE S \cap 1..m
          /\ U \cap 1..n = IF n \in U THEN (U \cap 1..m) \cup {m + 1} ELSE U \cap 1..m
      BY <2>3
    <2>n. Len(f[m]) \in Nat /\ Len(g[m]) \in Nat
      BY <2>5 DEF Up, ListOf
    <2>a. PICK a \in Nat, b \in Nat : a = Len(f[m]) /\ b = Len(g[m])
      BY <2>n
    <2> HIDE DEF U
    <2>9. CASE n \in S
      <3>1. /\ ListOf((S \cap 1..m) \cup {m + 1}, Append(f[m], m + 1))
            /\ Len(Append(f[m], m + 1)) = Len(f[m]) + 1
        BY <2>5, <2>8, ListGrows DEF Up
      <3>2. f[n] = Append(f[m], m + 1) /\ g[n] = g[m]
        BY <2>3, <2>6, <2>7, <2>9
      <3>3. Len(f[n]) + Len(g[n]) = n
        <4>1. Len(f[n]) = a + 1 /\ Len(g[n]) = b
          BY <3>1, <3>2, <2>a
        <4>2. a + b = m
          BY <2>a, <2>s
        <4> QED BY <4>1, <4>2, <2>3
      <3> QED BY <3>1, <3>2, <3>3, <2>5, <2>6, <2>8, <2>9, <2>b DEF Up
    <2>10. CASE n \in U
      <3>1. /\ ListOf((U \cap 1..m) \cup {m + 1}, Append(g[m], m + 1))
            /\ Len(Append(g[m], m + 1)) = Len(g[m]) + 1
        BY <2>5, <2>8, ListGrows DEF Up
      <3>2. g[n] = Append(g[m], m + 1) /\ f[n] = f[m]
        BY <2>3, <2>6, <2>7, <2>10
      <3>3. Len(f[n]) + Len(g[n]) = n
        <4>1. Len(g[n]) = b + 1 /\ Len(f[n]) = a
          BY <3>1, <3>2, <2>a
        <4>2. a + b = m
          BY <2>a, <2>s
        <4> QED BY <4>1, <4>2, <2>3
      <3> QED BY <3>1, <3>2, <3>3, <2>5, <2>6, <2>8, <2>10, <2>b DEF Up
    <2> QED BY <2>6, <2>9, <2>10
  <1>4. Up(length)
    <2>1. length \in 0..length
      OBVIOUS
    <2> QED BY <2>1, <1>3
  <1>5. S \cap 1..length = S /\ U \cap 1..length = U
    OBVIOUS
  <1> QED BY <1>1, <1>2, <1>4, <1>5 DEF Up

-----------------------------------------------------------------------------
(* The phase as it goes: the stages come one after another, each when the  *)
(* one before it has dealt with everything, and a request belongs to the   *)
(* stage it was made in.                                                   *)
Progress ==
    /\ stage = "KeySets" => Len(outcomes) <= Len(selected)
    /\ stage # "KeySets" => Len(outcomes) = Len(selected)
    /\ stage \in {"KeySets", "Roots"} => Len(roots) <= sources /\ observations = <<>>
    /\ stage = "KeySets" => roots = <<>>
    /\ stage \in {"Configurations", "Done"} => Len(roots) = sources
    /\ flight.kind = "root" => RootsDue
    /\ flight.kind = "configuration" => ConfigurationsDue
    /\ stage = "Done" => flight = NoRequest

(* The five things a step can do: end a ledger, a root endpoint, a         *)
(* configuration or a stage, or none of these.                             *)
Readings == {"Retrieved", "AccessDenied", "EndpointNotServed", "MalformedConfiguration",
             "Transport", "TlsAuthentication", "ResponseTooLarge", "DeadlineExceeded"}

LedgerEnds == /\ LedgersDue /\ flight' = NoRequest
              /\ UNCHANGED <<selected, sources, stage, roots, observations>>
              /\ \E o : outcomes' = Append(outcomes, o)

EndpointEnds == /\ RootsDue /\ flight' = NoRequest
                /\ UNCHANGED <<selected, sources, stage, outcomes, observations>>
                /\ \E o : roots' = Append(roots, o)

ReadingEnds == /\ ConfigurationsDue /\ flight' = NoRequest
               /\ UNCHANGED <<selected, sources, stage, outcomes, roots>>
               /\ \E result \in Readings, peer \in Nat :
                     /\ observations' = Append(observations, Observed(Read, result, peer))
                     /\ result = "Retrieved" => peer = outcomes[Read].cert

NothingEnds == /\ UNCHANGED <<selected, sources, stage, outcomes, roots, observations>>
               /\ \/ flight' = NoRequest
                  \/ UNCHANGED flight
                  \/ flight'.kind \in {"identity", "keyset"} /\ LedgersDue
                  \/ flight'.kind = "root" /\ RootsDue
                  \/ flight'.kind = "configuration" /\ ConfigurationsDue

LEMMA UnreadIsOutstanding ==
    ASSUME LedgersTyped, ConfigurationsDue
    PROVE  /\ Read \in DOMAIN outcomes /\ Acquired(Read) /\ outcomes[Read].cert \in Nat
           /\ \A k \in DOMAIN observations : observations[k].issuer # selected[Read]
  <1>1. outcomes \in Seq(Ledgered)
    BY DEF LedgersTyped
  <1>2. Unread # {} /\ Unread \in SUBSET Nat
    BY <1>1 DEF ConfigurationsDue, Unread
  <1>3. \E i \in Unread : \A j \in Unread : i <= j
    BY <1>2, LeastNumber
  <1>4. Read \in Unread
    BY <1>3 DEF Read
  <1>5. Read \in DOMAIN outcomes
    BY <1>4 DEF Unread
  <1>6. outcomes[Read].cert \in Nat
    <2>1. outcomes[Read] \in Ledgered
      BY <1>1, <1>5
    <2> QED BY <2>1 DEF Ledgered
  <1> QED BY <1>4, <1>5, <1>6 DEF Unread

LEMMA StepsEndOneThing ==
    ASSUME LedgersTyped, PhaseTyped, Progress, [Next]_vars
    PROVE  LedgerEnds \/ EndpointEnds \/ ReadingEnds \/ EndStage \/ NothingEnds
  <1>1. CASE AskIdentity
    BY <1>1 DEF AskIdentity, Request, LedgerFails, LedgerEnds, NothingEnds
  <1>2. CASE AskKeySet
    BY <1>2 DEF AskKeySet, Request, LedgerFails, LedgerEnds, NothingEnds
  <1>3. CASE IdentityAnswered
    BY <1>3 DEF IdentityAnswered, LedgerFails, LedgerEnds, NothingEnds, LedgersTyped
  <1>4. CASE KeySetAnswered
    BY <1>4 DEF KeySetAnswered, LedgerFails, LedgerEnds, LedgersTyped
  <1>5. CASE AskRoot
    BY <1>5 DEF AskRoot, Request, RootEnds, EndpointEnds, NothingEnds
  <1>6. CASE RootAnswered
    BY <1>6 DEF RootAnswered, RootEnds, EndpointEnds, Progress
  <1>7. ASSUME NEW result \in Readings, ConfigurationsDue,
               ObservationEnds(result), flight' = NoRequest,
               result = "Retrieved" => Pinned(outcomes[Read].cert),
               UNCHANGED <<selected, sources, stage>>
        PROVE  ReadingEnds
    <2> DEFINE peer == IF result = "Retrieved" THEN flight.peer ELSE 0
    <2>1. peer \in Nat /\ (result = "Retrieved" => peer = outcomes[Read].cert)
      BY <1>7, UnreadIsOutstanding DEF Pinned
    <2>2. observations' = Append(observations, Observed(Read, result, peer))
      BY <1>7 DEF ObservationEnds
    <2> HIDE DEF peer
    <2> QED BY <1>7, <2>1, <2>2 DEF ReadingEnds, ObservationEnds
  <1>8. CASE AskConfiguration
    <2>1. CASE ObservationEnds("DeadlineExceeded") /\ UNCHANGED flight
      <3>1. "DeadlineExceeded" \in Readings /\ "DeadlineExceeded" # "Retrieved"
        BY DEF Readings
      <3>2. ConfigurationsDue /\ flight' = NoRequest /\ UNCHANGED <<selected, sources, stage>>
        BY <1>8, <2>1 DEF AskConfiguration
      <3> QED BY <2>1, <3>1, <3>2, <1>7
    <2>2. CASE Request("configuration", serving[Read])
      BY <1>8, <2>2 DEF AskConfiguration, Request, NothingEnds
    <2> QED BY <1>8, <2>1, <2>2 DEF AskConfiguration
  <1>9. CASE ConfigurationAnswered
    <2>1. ConfigurationsDue
      BY <1>9 DEF ConfigurationAnswered, Progress
    <2>2. \E result \in Readings :
             ObservationEnds(result) /\ (result = "Retrieved" => Pinned(outcomes[Read].cert))
      BY <1>9 DEF ConfigurationAnswered, Readings
    <2> QED BY <1>9, <2>1, <2>2, <1>7 DEF ConfigurationAnswered
  <1>10. CASE Expire
    <2>1. \/ LedgersDue /\ flight.kind \in {"identity", "keyset"}
          \/ RootsDue /\ flight.kind = "root"
          \/ ConfigurationsDue /\ flight.kind = "configuration"
      BY <1>10 DEF Expire, PhaseTyped, LedgersTyped, Progress
    <2>2. CASE stage = "KeySets" /\ LedgerFails("Transport")
      BY <1>10, <2>1, <2>2 DEF Expire, LedgerFails, LedgerEnds, RootsDue, ConfigurationsDue
    <2>3. CASE stage = "Roots" /\ RootEnds("Transport")
      BY <1>10, <2>1, <2>3 DEF Expire, RootEnds, EndpointEnds, LedgersDue, ConfigurationsDue
    <2>4. CASE stage = "Configurations" /\ ObservationEnds("Transport")
      <3>1. "Transport" \in Readings /\ "Transport" # "Retrieved"
        BY DEF Readings
      <3>2. ConfigurationsDue /\ flight' = NoRequest /\ UNCHANGED <<selected, sources, stage>>
        BY <1>10, <2>1, <2>4 DEF Expire, LedgersDue, RootsDue
      <3> QED BY <2>4, <3>1, <3>2, <1>7
    <2> QED BY <1>10, <2>2, <2>3, <2>4 DEF Expire
  <1>11. CASE Tick \/ (\E i \in DOMAIN selected : Rotate(i)) \/ Finished \/ UNCHANGED vars
    BY <1>11 DEF Tick, Rotate, Finished, vars, NothingEnds
  <1> QED BY <1>1, <1>2, <1>3, <1>4, <1>5, <1>6, <1>8, <1>9, <1>10, <1>11
          DEF Next, Program, Answer

LEMMA LengthsAreNumbers ==
    ASSUME LedgersTyped, PhaseTyped
    PROVE  Len(outcomes) \in Nat /\ Len(selected) \in Nat /\ Len(roots) \in Nat /\ sources \in Nat
  BY SourceAssumption DEF LedgersTyped, PhaseTyped

LEMMA ProgressIsKept == LedgersTyped /\ PhaseTyped /\ Progress /\ [Next]_vars => Progress'
  <1> SUFFICES ASSUME LedgersTyped, PhaseTyped, Progress, [Next]_vars PROVE Progress'
    OBVIOUS
  <1>n. /\ Len(outcomes) \in Nat /\ Len(selected) \in Nat /\ Len(roots) \in Nat /\ sources \in Nat
        /\ stage \in {"KeySets", "Roots", "Configurations", "Done"}
    BY LengthsAreNumbers DEF PhaseTyped
  <1>1. CASE LedgerEnds
    <2>1. outcomes \in Seq(Ledgered) /\ stage = "KeySets" /\ Len(outcomes) < Len(selected)
      BY <1>1 DEF LedgersTyped, LedgerEnds, LedgersDue
    <2>2. Len(outcomes') = Len(outcomes) + 1
      BY <1>1, <2>1 DEF LedgerEnds
    <2>3. Len(outcomes') <= Len(selected)
      BY <2>1, <2>2, <1>n
    <2> QED BY <1>1, <2>1, <2>3 DEF LedgerEnds, Progress, NoRequest
  <1>2. CASE EndpointEnds
    <2>1. stage = "Roots" /\ Len(roots) < sources
      BY <1>2 DEF EndpointEnds, RootsDue
    <2>2. Len(roots') = Len(roots) + 1
      BY <1>2 DEF EndpointEnds, PhaseTyped
    <2>3. Len(roots') <= sources
      BY <2>1, <2>2, <1>n
    <2> QED BY <1>2, <2>1, <2>3 DEF EndpointEnds, Progress, NoRequest
  <1>3. CASE ReadingEnds
    BY <1>3 DEF ReadingEnds, ConfigurationsDue, Progress, NoRequest
  <1>4. CASE NothingEnds
    <2>1. (RootsDue <=> RootsDue') /\ (ConfigurationsDue <=> ConfigurationsDue')
      BY <1>4 DEF NothingEnds, RootsDue, ConfigurationsDue, Unread, Acquired
    <2>2. stage = "Done" => flight' = NoRequest
      BY <1>4 DEF NothingEnds, Progress, LedgersDue, RootsDue, ConfigurationsDue
    <2>3. /\ flight'.kind = "root" => RootsDue
          /\ flight'.kind = "configuration" => ConfigurationsDue
      BY <1>4 DEF NothingEnds, Progress, NoRequest
    <2> QED BY <1>4, <2>1, <2>2, <2>3 DEF NothingEnds, Progress
  <1>5. CASE EndStage
    <2>1. flight' = NoRequest /\ UNCHANGED <<selected, sources, outcomes, roots>>
      BY <1>5 DEF EndStage
    <2>2. CASE stage = "KeySets"
      <3>1. Len(outcomes) = Len(selected)
        BY <1>5, <2>2, <1>n DEF EndStage, LedgersDue, Progress
      <3>2. stage' = "Roots" /\ observations' = observations
        BY <1>5, <2>2 DEF EndStage, Following
      <3> QED BY <2>1, <2>2, <3>1, <3>2 DEF Progress, NoRequest
    <2>3. CASE stage = "Roots"
      <3>1. Len(roots) = sources
        BY <1>5, <2>3, <1>n DEF EndStage, RootsDue, Progress
      <3>2. stage' = "Configurations"
        BY <1>5, <2>3 DEF EndStage, Following
      <3> QED BY <2>1, <2>3, <3>1, <3>2 DEF Progress, NoRequest
    <2>4. CASE stage = "Configurations"
      <3>1. stage' = "Done"
        BY <1>5, <2>4 DEF EndStage, Following
      <3> QED BY <2>1, <2>4, <3>1 DEF Progress, NoRequest
    <2> QED BY <2>2, <2>3, <2>4, <1>n, <1>5 DEF EndStage
  <1> QED BY <1>1, <1>2, <1>3, <1>4, <1>5, StepsEndOneThing

-----------------------------------------------------------------------------
(* The account: an observation is of one ledger and says what became of    *)
(* its keys, no ledger has two, the ledgers without keys have theirs from  *)
(* the start, and in the end everyone has one, in order.                   *)
Recorded(o) ==
    \E i \in DOMAIN outcomes : /\ o.issuer = selected[i]
                               /\ Acquired(i) <=> o.result # "NotAttempted"
                               /\ o.result = "Retrieved" => outcomes[i].cert = o.peer

IsObserved(i) == \E k \in DOMAIN observations : observations[k].issuer = selected[i]

Distinct(s) == \A k, l \in DOMAIN s : s[k].issuer = s[l].issuer => k = l

Entries == [issuer : Nat, result : Readings \cup {"NotAttempted"}, peer : Nat]

Account ==
    /\ observations \in Seq(Entries)
    /\ \A k \in DOMAIN observations : Recorded(observations[k])
    /\ Distinct(observations)
    /\ stage \in {"Configurations", "Done"} =>
          \A i \in DOMAIN outcomes : ~Acquired(i) => IsObserved(i)
    /\ stage = "Done" => /\ \A i \in DOMAIN outcomes : IsObserved(i)
                         /\ \A k, l \in DOMAIN observations :
                               k < l => observations[k].issuer <= observations[l].issuer

LEMMA SelectionIsSorted ==
    ASSUME PhaseTyped
    PROVE  /\ selected \in Seq(Nat)
           /\ \A i, j \in DOMAIN selected : i < j => selected[i] < selected[j]
           /\ \A i, j \in DOMAIN selected : selected[i] = selected[j] => i = j
  <1>1. selected \in Seq(Nat) /\ IsSelection(selected)
    BY SelectionsAssumption DEF PhaseTyped
  <1>2. \A i, j \in DOMAIN selected : i < j => selected[i] < selected[j]
    BY <1>1 DEF IsSelection
  <1>3. ASSUME NEW i \in DOMAIN selected, NEW j \in DOMAIN selected, selected[i] = selected[j]
        PROVE  i = j
    <2>1. i \in Nat /\ j \in Nat /\ selected[i] \in Nat
      BY <1>1
    <2>2. ~(i < j) /\ ~(j < i)
      BY <2>1, <1>2, <1>3
    <2> QED BY <2>1, <2>2
  <1> QED BY <1>1, <1>2, <1>3

LEMMA LedgersArePartitioned ==
    ASSUME LedgersTyped
    PROVE  /\ ListOf({i \in DOMAIN outcomes : Acquired(i)}, AcquiredLedgers)
           /\ ListOf({i \in DOMAIN outcomes : ~Acquired(i)}, FailedLedgers)
           /\ Len(AcquiredLedgers) + Len(FailedLedgers) = Len(outcomes)
  <1> DEFINE S == {i \in DOMAIN outcomes : Acquired(i)}
  <1>1. Len(outcomes) \in Nat /\ DOMAIN outcomes = 1..Len(outcomes)
    BY DEF LedgersTyped
  <1>2. S \in SUBSET (1..Len(outcomes))
    BY <1>1
  <1>3. (1..Len(outcomes)) \ S = {i \in DOMAIN outcomes : ~Acquired(i)}
    BY <1>1
  <1>4. PICK n \in Nat : n = Len(outcomes)
    BY <1>1
  <1> QED BY <1>2, <1>3, <1>4, PartitionIsWhole DEF AcquiredLedgers, FailedLedgers

(* The ledgers without keys, recorded as not asked.                        *)
LEMMA NotAskedIsAnAccount ==
    ASSUME LedgersTyped, PhaseTyped, Len(outcomes) = Len(selected)
    PROVE  /\ NotAsked \in Seq(Entries)
           /\ \A k \in DOMAIN NotAsked : Recorded(NotAsked[k])
           /\ Distinct(NotAsked)
           /\ \A i \in DOMAIN outcomes :
                 ~Acquired(i) => \E k \in DOMAIN NotAsked : NotAsked[k].issuer = selected[i]
  <1> DEFINE F == {i \in DOMAIN outcomes : ~Acquired(i)}
  <1>1. ListOf(F, FailedLedgers)
    BY LedgersArePartitioned
  <1>2. PICK s : s = FailedLedgers
    OBVIOUS
  <1>3. s \in Seq(F) /\ Len(s) \in Nat /\ DOMAIN s = 1..Len(s)
    BY <1>1, <1>2 DEF ListOf
  <1>4. NotAsked = [k \in 1..Len(s) |-> [issuer |-> selected[s[k]], result |-> "NotAttempted",
                                         peer |-> 0]]
    BY <1>2, <1>3 DEF NotAsked, Observed
  <1>5. DOMAIN outcomes = DOMAIN selected /\ DOMAIN outcomes \subseteq Nat
    BY SelectionIsSorted DEF LedgersTyped
  <1>6. \A k \in 1..Len(s) : s[k] \in F /\ s[k] \in DOMAIN selected /\ selected[s[k]] \in Nat
    BY <1>3, <1>5, SelectionIsSorted
  <1>7. NotAsked \in Seq(Entries)
    BY <1>3, <1>4, <1>6 DEF Entries
  <1>8. ASSUME NEW k \in DOMAIN NotAsked PROVE Recorded(NotAsked[k])
    <2>1. /\ NotAsked[k].issuer = selected[s[k]] /\ NotAsked[k].result = "NotAttempted"
          /\ s[k] \in DOMAIN outcomes /\ ~Acquired(s[k])
      BY <1>4, <1>6
    <2> QED BY <2>1 DEF Recorded
  <1>9. Distinct(NotAsked)
    <2> SUFFICES ASSUME NEW k \in 1..Len(s), NEW l \in 1..Len(s), selected[s[k]] = selected[s[l]]
                 PROVE  k = l
      BY <1>4 DEF Distinct
    <2>1. s[k] = s[l] /\ s[k] \in Nat
      BY <1>5, <1>6, SelectionIsSorted
    <2>s. ListOf(F, s)
      BY <1>1, <1>2
    <2>2. \A i, j \in 1..Len(s) : i < j => s[i] < s[j]
      BY <2>s DEF ListOf
    <2>3. k \in 1..Len(s) /\ l \in 1..Len(s) /\ k \in Nat /\ l \in Nat
      BY <1>3
    <2> HIDE DEF F
    <2>4. ~(k < l)
      <3>1. k < l => s[k] < s[l]
        BY <2>2, <2>3
      <3> QED BY <3>1, <2>1
    <2>5. ~(l < k)
      <3>1. l < k => s[l] < s[k]
        BY <2>2, <2>3
      <3> QED BY <3>1, <2>1
    <2> QED BY <2>3, <2>4, <2>5
  <1>10. ASSUME NEW i \in DOMAIN outcomes, ~Acquired(i)
         PROVE  \E k \in DOMAIN NotAsked : NotAsked[k].issuer = selected[i]
    <2>1. PICK k \in 1..Len(s) : s[k] = i
      BY <1>10, <1>1, <1>2 DEF ListOf
    <2> QED BY <2>1, <1>4
  <1> QED BY <1>7, <1>8, <1>9, <1>10

(* Sorting keeps what was recorded, and each of it once.                   *)
LEMMA SortedIsAnAccount ==
    ASSUME observations \in Seq(Entries), Distinct(observations), NEW t \in ByIssuer(observations)
    PROVE  /\ t \in Seq(Entries) /\ Distinct(t)
           /\ \A k \in DOMAIN t : \E j \in DOMAIN observations : t[k] = observations[j]
           /\ \A j \in DOMAIN observations : \E k \in DOMAIN t : t[k] = observations[j]
           /\ \A k, l \in DOMAIN t : k < l => t[k].issuer <= t[l].issuer
  <1> DEFINE D == DOMAIN observations
  <1>1. PICK p \in Bijection(D, D) :
           /\ t = [k \in D |-> observations[p[k]]]
           /\ \A i, j \in D : i < j => observations[p[i]].issuer <= observations[p[j]].issuer
    BY DEF ByIssuer
  <1>2. p \in [D -> D] /\ \A w \in D : \E v \in D : p[v] = w
    BY <1>1 DEF Bijection, Surjection
  <1>3. Len(observations) \in Nat /\ D = 1..Len(observations)
    OBVIOUS
  <1> HIDE DEF D
  <1>4. \A k, l \in D : p[k] = p[l] => k = l
    BY <1>1 DEF Bijection, Injection, IsInjective
  <1>5. DOMAIN t = D /\ \A k \in D : p[k] \in D /\ t[k] = observations[p[k]]
    BY <1>1, <1>2
  <1>6. t \in Seq(Entries)
    <2>1. \A j \in D : observations[j] \in Entries
      BY DEF D
    <2> QED BY <2>1, <1>1, <1>2, <1>3
  <1>7. Distinct(t)
    <2> SUFFICES ASSUME NEW k \in D, NEW l \in D, t[k].issuer = t[l].issuer PROVE k = l
      BY <1>5 DEF Distinct
    <2>1. observations[p[k]].issuer = observations[p[l]].issuer
      BY <1>5
    <2>2. p[k] = p[l]
      BY <1>5, <2>1 DEF Distinct, D
    <2> QED BY <1>4, <2>2
  <1>8. \A j \in D : \E k \in D : t[k] = observations[j]
    BY <1>2, <1>5
  <1> QED BY <1>1, <1>5, <1>6, <1>7, <1>8 DEF D

LEMMA AccountIsKept ==
    LedgersTyped /\ PhaseTyped /\ Progress /\ Account /\ [Next]_vars => Account'
  <1> SUFFICES ASSUME LedgersTyped, PhaseTyped, Progress, Account, [Next]_vars PROVE Account'
    OBVIOUS
  <1>n. /\ Len(outcomes) \in Nat /\ Len(selected) \in Nat /\ Len(roots) \in Nat /\ sources \in Nat
        /\ stage \in {"KeySets", "Roots", "Configurations", "Done"}
    BY LengthsAreNumbers DEF PhaseTyped
  <1>0. ASSUME observations' = <<>>, stage' \in {"KeySets", "Roots"}
        PROVE  Account'
    <2>1. DOMAIN observations' = {} /\ observations' \in Seq(Entries)
      BY <1>0
    <2> QED BY <1>0, <2>1 DEF Account, Distinct
  <1>1. CASE LedgerEnds
    <2>1. observations' = <<>> /\ stage' = "KeySets"
      BY <1>1 DEF LedgerEnds, LedgersDue, Progress
    <2> QED BY <1>0, <2>1
  <1>2. CASE EndpointEnds \/ NothingEnds
    BY <1>2 DEF EndpointEnds, NothingEnds, Account, Recorded, Distinct, IsObserved, Acquired
  <1>3. CASE ReadingEnds
    <2>1. PICK result \in Readings, peer \in Nat :
             /\ observations' = Append(observations, Observed(Read, result, peer))
             /\ result = "Retrieved" => peer = outcomes[Read].cert
      BY <1>3 DEF ReadingEnds
    <2>2. /\ stage = "Configurations" /\ ConfigurationsDue
          /\ UNCHANGED <<selected, stage, outcomes>>
      BY <1>3 DEF ReadingEnds, ConfigurationsDue
    <2>3. /\ Read \in DOMAIN outcomes /\ Acquired(Read)
          /\ \A k \in DOMAIN observations : observations[k].issuer # selected[Read]
      BY <2>2, UnreadIsOutstanding
    <2>4. Read \in DOMAIN selected /\ selected[Read] \in Nat
      BY <2>2, <2>3, SelectionIsSorted DEF Progress, LedgersTyped
    <2> DEFINE o == Observed(Read, result, peer)
               n == Len(observations) + 1
    <2>5. o.issuer = selected[Read] /\ o.result = result /\ o.peer = peer /\ o \in Entries
      BY <2>4 DEF Observed, Entries
    <2> HIDE DEF o
    <2>6. observations \in Seq(Entries) /\ observations' = Append(observations, o)
      BY <2>1 DEF Account, o
    <2>7. /\ observations' \in Seq(Entries) /\ DOMAIN observations' = DOMAIN observations \cup {n}
          /\ n \notin DOMAIN observations /\ observations'[n] = o
          /\ \A k \in DOMAIN observations : observations'[k] = observations[k]
      BY <2>5, <2>6
    <2> HIDE DEF n
    <2>8. ASSUME NEW k \in DOMAIN observations' PROVE Recorded(observations'[k])
      <3>1. CASE k = n
        <4>1. Recorded(o)
          BY <2>1, <2>3, <2>5 DEF Recorded, Readings
        <4> QED BY <3>1, <4>1, <2>2, <2>7 DEF Recorded, Acquired
      <3>2. CASE k \in DOMAIN observations
        <4>1. Recorded(observations[k])
          BY <3>2 DEF Account
        <4> QED BY <3>2, <4>1, <2>2, <2>7 DEF Recorded, Acquired
      <3> QED BY <2>7, <3>1, <3>2
    <2>9. Distinct(observations')
      BY <2>3, <2>5, <2>7 DEF Distinct, Account
    <2>10. \A i \in DOMAIN outcomes : ~Acquired(i) => IsObserved(i)'
      BY <2>2, <2>7 DEF Account, IsObserved
    <2> QED BY <2>2, <2>7, <2>8, <2>9, <2>10 DEF Account, Acquired, Recorded, Distinct
  <1>4. CASE EndStage
    <2>1. UNCHANGED <<selected, outcomes>>
      BY <1>4 DEF EndStage
    <2>2. CASE stage = "KeySets"
      <3>1. observations' = <<>> /\ stage' = "Roots"
        BY <1>4, <2>2 DEF EndStage, Following, Progress
      <3> QED BY <1>0, <3>1
    <2>3. CASE stage = "Roots"
      <3>1. observations' = NotAsked /\ stage' = "Configurations"
        BY <1>4, <2>3 DEF EndStage, Following
      <3>2. Len(outcomes) = Len(selected)
        BY <2>3 DEF Progress
      <3> QED BY <2>1, <3>1, <3>2, NotAskedIsAnAccount
              DEF Account, Recorded, Acquired, Distinct, IsObserved
    <2>4. CASE stage = "Configurations"
      <3>1. observations' \in ByIssuer(observations) /\ stage' = "Done"
        BY <1>4, <2>4 DEF EndStage, Following
      <3>2. Unread = {}
        BY <1>4, <2>4 DEF EndStage, ConfigurationsDue
      <3>3. \A i \in DOMAIN outcomes : IsObserved(i)
        BY <3>2, <2>4 DEF Account, Unread, IsObserved
      <3>4. /\ observations' \in Seq(Entries) /\ Distinct(observations')
            /\ \A k \in DOMAIN observations' :
                  \E j \in DOMAIN observations : observations'[k] = observations[j]
            /\ \A j \in DOMAIN observations :
                  \E k \in DOMAIN observations' : observations'[k] = observations[j]
            /\ \A k, l \in DOMAIN observations' :
                  k < l => observations'[k].issuer <= observations'[l].issuer
        BY <3>1, SortedIsAnAccount DEF Account
      <3>5. \A k \in DOMAIN observations' : Recorded(observations'[k])
        BY <3>4, <2>1 DEF Account, Recorded, Acquired
      <3>6. \A i \in DOMAIN outcomes : IsObserved(i)'
        BY <3>3, <3>4, <2>1 DEF IsObserved
      <3> QED BY <3>1, <3>4, <3>5, <3>6, <2>1 DEF Account, Acquired, Recorded, Distinct
    <2> QED BY <2>2, <2>3, <2>4, <1>n, <1>4 DEF EndStage
  <1> QED BY <1>1, <1>2, <1>3, <1>4, StepsEndOneThing

(* What every run of the phase keeps.                                      *)
PhaseInv == LedgersTyped /\ AllGenuine /\ PhaseTyped /\ Progress /\ Account

LEMMA PhaseStarts == Init => PhaseInv
  <1> SUFFICES ASSUME Init PROVE PhaseInv
    OBVIOUS
  <1>1. selected \in Seq(Nat) /\ Len(selected) \in Nat /\ sources \in Nat
    BY SelectionsAssumption, SourceAssumption DEF Init
  <1>2. outcomes \in Seq(Ledgered) /\ DOMAIN outcomes = {} /\ Len(outcomes) = 0
    BY DEF Init
  <1>3. clock \in 0..Horizon
    BY LimitsAssumption DEF Init, Horizon
  <1>4. roots \in Seq(AcquisitionFaults \cup {"Acquired"}) /\ Len(roots) = 0
    BY DEF Init
  <1>5. observations \in Seq(Entries) /\ DOMAIN observations = {}
    BY DEF Init
  <1>6. LedgersTyped /\ AllGenuine
    BY <1>1, <1>2 DEF Init, LedgersTyped, AllGenuine, NoRequest
  <1>7. PhaseTyped
    BY <1>3, <1>4 DEF Init, PhaseTyped, NoRequest
  <1>8. Progress
    BY <1>1, <1>2, <1>4 DEF Init, Progress, NoRequest
  <1>9. Account
    BY <1>5 DEF Init, Account, Distinct
  <1> QED BY <1>6, <1>7, <1>8, <1>9 DEF PhaseInv

LEMMA PhaseIsKept == PhaseInv /\ [Next]_vars => PhaseInv'
  BY KeysStayGenuine, PhaseIsTyped, ProgressIsKept, AccountIsKept DEF PhaseInv

(* A configuration that is shown beside a key set was served by the same   *)
(* service identity, however often and whenever the ledgers rotate.        *)
THEOREM ConfigurationsAreTheSame == Spec => []ConfigurationIsTheSameService
  <1>1. PhaseInv => ConfigurationIsTheSameService
    <2> SUFFICES ASSUME PhaseInv, NEW k \in DOMAIN observations,
                        observations[k].result = "Retrieved"
                 PROVE  \E i \in DOMAIN outcomes : /\ selected[i] = observations[k].issuer
                                                   /\ Acquired(i)
                                                   /\ outcomes[i].cert = observations[k].peer
      BY DEF ConfigurationIsTheSameService
    <2>1. Recorded(observations[k])
      BY DEF PhaseInv, Account
    <2> QED BY <2>1 DEF Recorded
  <1> QED BY <1>1, PhaseStarts, PhaseIsKept, PTL DEF Spec

-----------------------------------------------------------------------------
(* An increasing function from 1..m onto 1..n is the identity.             *)
IncreasingOnto(m, n, g) == /\ m \in Nat /\ n \in Nat /\ g \in [1..m -> 1..n]
                           /\ \A k, l \in 1..m : k < l => g[k] < g[l]
                           /\ \A i \in 1..n : \E k \in 1..m : g[k] = i

LEMMA IncreasingOntoIsIdentity ==
    ASSUME NEW m, NEW n, NEW g, IncreasingOnto(m, n, g)
    PROVE  m = n /\ \A k \in 1..m : g[k] = k
  <1> USE DEF IncreasingOnto
  <1> DEFINE Bad == {k \in 1..m : g[k] # k}
  <1>1. Bad = {}
    <2> SUFFICES ASSUME Bad # {} PROVE FALSE
      OBVIOUS
    <2>0. Bad \in SUBSET Nat
      OBVIOUS
    <2>1. PICK k \in Bad : \A y \in Bad : k <= y
      BY <2>0, LeastNumber
    <2>2. k \in 1..m /\ g[k] # k /\ g[k] \in 1..n
      BY <2>1
    <2>3. \A j \in 1..m : j < k => g[j] = j
      <3> TAKE j \in 1..m
      <3>1. j < k => j \notin Bad
        BY <2>1, <2>2
      <3> QED BY <3>1
    <2>4. k < g[k]
      <3>1. CASE k = 1
        BY <3>1, <2>2
      <3>2. CASE k # 1
        <4>1. k - 1 \in 1..m /\ k - 1 < k
          BY <3>2, <2>2
        <4>2. g[k - 1] = k - 1 /\ g[k - 1] < g[k]
          BY <4>1, <2>2, <2>3
        <4> QED BY <4>2, <2>2
      <3> QED BY <3>1, <3>2
    <2>5. k \in 1..n
      BY <2>2, <2>4
    <2>6. PICK j \in 1..m : g[j] = k
      BY <2>5
    <2>7. ~(j < k) /\ j # k
      BY <2>2, <2>3, <2>6
    <2>8. k < j
      BY <2>2, <2>7
    <2>9. g[k] < g[j]
      BY <2>2, <2>8
    <2> QED BY <2>2, <2>4, <2>6, <2>9
  <1>2. \A k \in 1..m : g[k] = k
    BY <1>1
  <1>3. m <= n
    <2>1. m = 0 \/ m \in 1..m
      OBVIOUS
    <2> QED BY <2>1, <1>2
  <1>4. n <= m
    <2>1. n = 0 \/ n \in 1..n
      OBVIOUS
    <2>2. ASSUME n \in 1..n PROVE n <= m
      <3>1. PICK k \in 1..m : g[k] = n
        BY <2>2
      <3> QED BY <3>1, <1>2
    <2> QED BY <2>1, <2>2
  <1> QED BY <1>2, <1>3, <1>4

(* The observations of a finished phase are those of the selection, in its *)
(* order.                                                                  *)
LEMMA ObservationsAreTheSelection ==
    ASSUME PhaseInv, stage = "Done"
    PROVE  /\ Len(observations) = Len(selected)
           /\ \A i \in DOMAIN selected :
                 /\ observations[i].issuer = selected[i]
                 /\ Acquired(i) <=> observations[i].result # "NotAttempted"
  <1>1. /\ observations \in Seq(Entries) /\ Distinct(observations)
        /\ \A k \in DOMAIN observations : Recorded(observations[k])
        /\ \A i \in DOMAIN outcomes : IsObserved(i)
        /\ \A k, l \in DOMAIN observations : k < l => observations[k].issuer <= observations[l].issuer
    BY DEF PhaseInv, Account
  <1>2. /\ selected \in Seq(Nat)
        /\ \A i, j \in DOMAIN selected : i < j => selected[i] < selected[j]
        /\ \A i, j \in DOMAIN selected : selected[i] = selected[j] => i = j
    BY SelectionIsSorted DEF PhaseInv
  <1>3. PICK n \in Nat : n = Len(selected) /\ DOMAIN selected = 1..n
    BY <1>2
  <1>4. PICK m \in Nat : m = Len(observations) /\ DOMAIN observations = 1..m
    BY <1>1
  <1>5. DOMAIN outcomes = 1..n
    BY <1>3 DEF PhaseInv, LedgersTyped, Progress
  <1> DEFINE Of(k) == {i \in 1..n : /\ observations[k].issuer = selected[i]
                                    /\ Acquired(i) <=> observations[k].result # "NotAttempted"}
             g == [k \in 1..m |-> CHOOSE i \in 1..n : i \in Of(k)]
  <1>6. \A k \in 1..m : \E i \in 1..n : i \in Of(k)
    BY <1>1, <1>4, <1>5 DEF Recorded
  <1> HIDE DEF Of
  <1>7. \A k \in 1..m : g[k] \in 1..n /\ g[k] \in Of(k)
    BY <1>6
  <1>8. g \in [1..m -> 1..n]
    BY <1>7
  <1> HIDE DEF g
  <1>9. \A k \in 1..m : /\ observations[k].issuer = selected[g[k]]
                        /\ Acquired(g[k]) <=> observations[k].result # "NotAttempted"
    BY <1>7 DEF Of
  <1>10. ASSUME NEW k \in 1..m, NEW l \in 1..m, k < l PROVE g[k] < g[l]
    <2>1. g[k] \in Nat /\ g[l] \in Nat /\ selected[g[k]] \in Nat /\ selected[g[l]] \in Nat
      BY <1>2, <1>3, <1>7
    <2>2. selected[g[k]] <= selected[g[l]]
      BY <1>1, <1>4, <1>9, <1>10
    <2>3. g[k] # g[l]
      <3>1. g[k] = g[l] => observations[k].issuer = observations[l].issuer
        BY <1>9
      <3>2. observations[k].issuer = observations[l].issuer => k = l
        BY <1>1, <1>4 DEF Distinct
      <3> QED BY <3>1, <3>2, <1>10
    <2>4. g[l] < g[k] => selected[g[l]] < selected[g[k]]
      BY <1>2, <1>3, <1>7
    <2> QED BY <2>1, <2>2, <2>3, <2>4
  <1>11. ASSUME NEW i \in 1..n PROVE \E k \in 1..m : g[k] = i
    <2>1. PICK k \in 1..m : observations[k].issuer = selected[i]
      BY <1>1, <1>4, <1>5 DEF IsObserved
    <2> QED BY <2>1, <1>2, <1>3, <1>7, <1>9
  <1>12. m = n /\ \A k \in 1..m : g[k] = k
    <2>1. \A k, l \in 1..m : k < l => g[k] < g[l]
      BY <1>10
    <2>2. \A i \in 1..n : \E k \in 1..m : g[k] = i
      BY <1>11
    <2>3. IncreasingOnto(m, n, g)
      BY <1>3, <1>4, <1>8, <2>1, <2>2 DEF IncreasingOnto
    <2> QED BY <2>3, IncreasingOntoIsIdentity
  <1> QED BY <1>3, <1>4, <1>9, <1>12

LEMMA BlockIsMadeOfOutcomes ==
    ASSUME PhaseInv
    PROVE  /\ Block \in AcquisitionBlocks
           /\ Len(Block.acquired) + Len(Block.failed) = Len(outcomes)
           /\ Block.roots = roots
  <1>1. /\ ListOf({i \in DOMAIN outcomes : Acquired(i)}, AcquiredLedgers)
        /\ ListOf({i \in DOMAIN outcomes : ~Acquired(i)}, FailedLedgers)
        /\ Len(AcquiredLedgers) + Len(FailedLedgers) = Len(outcomes)
    BY LedgersArePartitioned DEF PhaseInv
  <1>2. PICK a, f : a = AcquiredLedgers /\ f = FailedLedgers
    OBVIOUS
  <1> DEFINE had(k) == [ambiguous |-> Ambiguous(outcomes[a[k]].keys), config |-> Configured(a[k])]
             acquired == [k \in DOMAIN a |-> had(k)]
             failed == [k \in DOMAIN f |-> outcomes[f[k]].result]
  <1>3. /\ Len(a) \in Nat /\ DOMAIN a = 1..Len(a)
        /\ Len(f) \in Nat /\ DOMAIN f = 1..Len(f)
        /\ \A k \in DOMAIN f : f[k] \in DOMAIN outcomes /\ ~Acquired(f[k])
    BY <1>1, <1>2 DEF ListOf
  <1>4. \A k \in DOMAIN a : had(k) \in [ambiguous : BOOLEAN, config : BOOLEAN]
    BY DEF Ambiguous, Configured
  <1>5. acquired \in Seq([ambiguous : BOOLEAN, config : BOOLEAN]) /\ Len(acquired) = Len(a)
    <2> HIDE DEF had
    <2> QED BY <1>3, <1>4
  <1>6. \A i \in DOMAIN outcomes : ~Acquired(i) => outcomes[i].result \in AcquisitionFaults
    <2>1. outcomes \in Seq(Ledgered)
      BY DEF PhaseInv, LedgersTyped
    <2>2. ASSUME NEW i \in DOMAIN outcomes, ~Acquired(i)
          PROVE  outcomes[i].result \in AcquisitionFaults
      <3>1. outcomes[i] \in Ledgered
        BY <2>1
      <3>2. outcomes[i].result \in AcquisitionFaults \cup {"Acquired"}
        BY <3>1 DEF Ledgered
      <3> QED BY <2>2, <3>2 DEF Acquired
    <2> QED BY <2>2
  <1>7. failed \in Seq(AcquisitionFaults) /\ Len(failed) = Len(f)
    BY <1>3, <1>6
  <1>8. Block = [attempted |-> TRUE, present |-> TRUE, acquired |-> acquired,
                 failed |-> failed, roots |-> roots]
    BY <1>2 DEF Block
  <1>9. roots \in Seq(AcquisitionFaults \cup {"Acquired"})
    BY DEF PhaseInv, PhaseTyped
  <1> HIDE DEF acquired, failed
  <1>10. Block \in AcquisitionBlocks
    BY <1>5, <1>7, <1>8, <1>9 DEF AcquisitionBlocks
  <1> QED BY <1>1, <1>2, <1>5, <1>7, <1>8, <1>10

(* Every ledger and every endpoint that was selected is in the record once *)
(* and in order, as an answer, a fault or not asked, however many were     *)
(* selected and whatever became of each.                                   *)
THEOREM EveryoneIsInTheRecord == Spec => []EveryoneIsAccountedFor
  <1>1. PhaseInv => EveryoneIsAccountedFor
    <2> SUFFICES ASSUME PhaseInv, stage = "Done" PROVE EveryoneIsAccountedFor
      BY DEF EveryoneIsAccountedFor
    <2>1. Len(outcomes) = Len(selected) /\ Len(roots) = sources
      BY DEF PhaseInv, Progress
    <2> QED BY <2>1, ObservationsAreTheSelection, BlockIsMadeOfOutcomes DEF EveryoneIsAccountedFor
  <1> QED BY <1>1, PhaseStarts, PhaseIsKept, PTL DEF Spec
=============================================================================
