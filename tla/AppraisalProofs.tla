--------------------------- MODULE AppraisalProofs ---------------------------
(***************************************************************************)
(* Theorems about the appraisal of evidence, for every workload, every     *)
(* history of the service, every directory and every limit.                *)
(***************************************************************************)
EXTENDS Appraisal, FiniteSetTheorems, SequenceTheorems, WellFoundedInduction, TLAPS

-----------------------------------------------------------------------------
(* The names of the checks, and what a report says of each.                *)
LEMMA AdaptersAre == Adapters = {ACL, MAA, REPRO, SNP}
  BY DEF ACL, MAA, REPRO, SNP, Adapters, CheckNames

LEMMA NamesAre ==
    /\ CheckNames[ACL] = <<"ledger-identity-binding", "snp-uvm-validation",
                           "cce-policy-host-data", "node-coverage", "freshness",
                           "connection-binding">>
    /\ CheckNames[MAA] = <<"snp-validation", "cce-policy-host-data",
                           "maa-certificate-coverage">>
    /\ CheckNames[REPRO] = <<"reproduction-claim", "source-repository", "record-binding",
                             "rebuild-inputs", "rebuild-layers">>
    /\ CheckNames[SNP] = <<"device-claim", "snp-report", "tcb-floor", "freshness",
                           "device-binding">>
  BY DEF ACL, MAA, REPRO, SNP, CheckNames

LEMMA RequiredAre ==
    /\ RequiredNames[ACL] = <<"ledger-identity-binding", "snp-uvm-validation",
                              "cce-policy-host-data", "node-coverage">>
    /\ RequiredNames[MAA] = CheckNames[MAA]
    /\ RequiredNames[REPRO] = CheckNames[REPRO]
    /\ RequiredNames[SNP] = CheckNames[SNP]
  BY DEF RequiredNames, CheckNames, ACL, MAA, REPRO, SNP

LEMMA SixNames ==
    ASSUME NEW S, NEW a \in S, NEW b \in S, NEW c \in S, NEW d \in S, NEW e \in S, NEW f \in S
    PROVE  /\ <<a, b, c>> \in Seq(S) /\ <<a, b, c, d>> \in Seq(S)
           /\ <<a, b, c, d, e>> \in Seq(S) /\ <<a, b, c, d, e, f>> \in Seq(S)
  OBVIOUS

LEMMA NamesTyped ==
    ASSUME NEW a \in Adapters
    PROVE  /\ CheckNames[a] \in Seq(UNION {NamesOf(b) : b \in Adapters})
           /\ RequiredNames[a] \in Seq(UNION {NamesOf(b) : b \in Adapters})
           /\ \A i \in DOMAIN CheckNames[a] : CheckNames[a][i] \in NamesOf(a)
  <1> DEFINE All == UNION {NamesOf(b) : b \in Adapters}
  <1>1. \A b \in Adapters : \A i \in DOMAIN CheckNames[b] : CheckNames[b][i] \in NamesOf(b)
    BY DEF NamesOf
  <1>2. \A b \in Adapters : \A i \in DOMAIN CheckNames[b] : CheckNames[b][i] \in All
    BY <1>1
  <1> HIDE DEF All
  <1>3. CheckNames[ACL] \in Seq(All) /\ RequiredNames[ACL] \in Seq(All)
    <2>1. \A i \in 1..6 : CheckNames[ACL][i] \in All
      BY <1>2, AdaptersAre, NamesAre
    <2> QED BY <2>1, SixNames, NamesAre, RequiredAre
  <1>4. CheckNames[MAA] \in Seq(All)
    <2>1. \A i \in 1..3 : CheckNames[MAA][i] \in All
      BY <1>2, AdaptersAre, NamesAre
    <2> QED BY <2>1, SixNames, NamesAre
  <1>5. CheckNames[REPRO] \in Seq(All)
    <2>1. \A i \in 1..5 : CheckNames[REPRO][i] \in All
      BY <1>2, AdaptersAre, NamesAre
    <2> QED BY <2>1, SixNames, NamesAre
  <1>6. CheckNames[SNP] \in Seq(All)
    <2>1. \A i \in 1..5 : CheckNames[SNP][i] \in All
      BY <1>2, AdaptersAre, NamesAre
    <2> QED BY <2>1, SixNames, NamesAre
  <1>7. CheckNames[a] \in Seq(All) /\ RequiredNames[a] \in Seq(All)
    BY <1>3, <1>4, <1>5, <1>6, AdaptersAre, RequiredAre
  <1> QED BY <1>1, <1>7 DEF All

LEMMA ReportTyped ==
    ASSUME NEW a \in Adapters, NEW state \in [NamesOf(a) -> CheckStates], NEW notes \in Nat
    PROVE  Report(a, state, notes) \in Assessments
  <1> DEFINE All    == UNION {NamesOf(b) : b \in Adapters}
             names  == CheckNames[a]
             checks == [i \in DOMAIN names |-> [name |-> names[i], state |-> state[names[i]]]]
  <1>1. /\ names \in Seq(All) /\ RequiredNames[a] \in Seq(All)
        /\ \A i \in DOMAIN names : names[i] \in NamesOf(a)
    BY NamesTyped
  <1>2. \A i \in DOMAIN names : names[i] \in All
    BY <1>1
  <1>3. \A i \in DOMAIN names : checks[i] \in Checks
    BY <1>1, <1>2 DEF Checks
  <1>4. checks \in Seq(Checks)
    <2>1. DOMAIN names = 1..Len(names) /\ Len(names) \in Nat
      BY <1>1
    <2> HIDE DEF names
    <2>2. checks \in [1..Len(names) -> Checks]
      BY <2>1, <1>3
    <2> HIDE DEF checks
    <2> QED BY <2>1, <2>2, IsASeq
  <1> QED BY <1>1, <1>4 DEF Report, Assessments

LEMMA UnevaluatedTyped ==
    ASSUME NEW a \in Adapters
    PROVE  Unevaluated(a) \in [NamesOf(a) -> CheckStates]
  BY DEF Unevaluated, CheckStates

LEMMA NotAttemptedTyped ==
    ASSUME NEW a \in Adapters
    PROVE  NotAttempted(a) \in Assessments
  BY UnevaluatedTyped, ReportTyped DEF NotAttempted

LEMMA DisagreedTyped ==
    ASSUME NEW a \in Adapters, NEW check
    PROVE  Disagreed(a, check) \in Assessments
  <1>1. [Unevaluated(a) EXCEPT ![check] = "Fail"] \in [NamesOf(a) -> CheckStates]
    BY UnevaluatedTyped DEF CheckStates
  <1> QED BY <1>1, ReportTyped DEF Disagreed

(* A report's answer on a check is what was found, and a pass is an answer *)
(* of Pass on everything that is required.                                 *)
LEMMA StateIs ==
    ASSUME NEW a \in Adapters, NEW state, NEW notes, NEW n \in NamesOf(a)
    PROVE  StateOf(Report(a, state, notes), n) = state[n]
  <1> DEFINE r == Report(a, state, notes)
             i == CHOOSE k \in DOMAIN r.checks : r.checks[k].name = n
  <1>1. /\ DOMAIN r.checks = DOMAIN CheckNames[a]
        /\ \A k \in DOMAIN CheckNames[a] : /\ r.checks[k].name = CheckNames[a][k]
                                           /\ r.checks[k].state = state[CheckNames[a][k]]
    BY DEF Report
  <1>2. \E k \in DOMAIN CheckNames[a] : CheckNames[a][k] = n
    BY DEF NamesOf
  <1> HIDE DEF r
  <1>3. i \in DOMAIN CheckNames[a] /\ r.checks[i].name = n
    BY <1>1, <1>2
  <1>4. StateOf(r, n) = r.checks[i].state
    BY DEF StateOf
  <1> QED BY <1>1, <1>3, <1>4 DEF r

LEMMA PassIsAll ==
    ASSUME NEW a \in Adapters, NEW state, NEW notes, ScopedPass(Report(a, state, notes)),
           NEW n \in DOMAIN RequiredNames[a]
    PROVE  state[RequiredNames[a][n]] = "Pass"
  <1> DEFINE r == Report(a, state, notes)
  <1>1. /\ DOMAIN r.checks = DOMAIN CheckNames[a] /\ r.required = RequiredNames[a]
        /\ \A k \in DOMAIN CheckNames[a] : /\ r.checks[k].name = CheckNames[a][k]
                                           /\ r.checks[k].state = state[CheckNames[a][k]]
    BY DEF Report
  <1> HIDE DEF r
  <1>2. RequiredMet(r.checks, RequiredNames[a][n])
    BY <1>1 DEF ScopedPass, RequiredChecksPass, r
  <1>3. PICK i \in DOMAIN r.checks : /\ Named(r.checks, RequiredNames[a][n]) = {i}
                                     /\ r.checks[i].state = "Pass"
    BY <1>2 DEF RequiredMet
  <1>4. r.checks[i].name = RequiredNames[a][n]
    BY <1>3 DEF Named
  <1> QED BY <1>1, <1>3, <1>4

LEMMA LedgerPass ==
    ASSUME NEW state, NEW notes, ScopedPass(Report(ACL, state, notes))
    PROVE  /\ state["ledger-identity-binding"] = "Pass" /\ state["snp-uvm-validation"] = "Pass"
           /\ state["cce-policy-host-data"] = "Pass" /\ state["node-coverage"] = "Pass"
  <1>1. \A n \in 1..4 : state[RequiredNames[ACL][n]] = "Pass"
    BY PassIsAll, AdaptersAre, RequiredAre
  <1> QED BY <1>1, RequiredAre

LEMMA AttestationPass ==
    ASSUME NEW state, NEW notes, ScopedPass(Report(MAA, state, notes))
    PROVE  /\ state["snp-validation"] = "Pass" /\ state["cce-policy-host-data"] = "Pass"
           /\ state["maa-certificate-coverage"] = "Pass"
  <1>1. \A n \in 1..3 : state[RequiredNames[MAA][n]] = "Pass"
    BY PassIsAll, AdaptersAre, RequiredAre, NamesAre
  <1> QED BY <1>1, RequiredAre, NamesAre

LEMMA RebuildPass ==
    ASSUME NEW state, NEW notes, ScopedPass(Report(REPRO, state, notes))
    PROVE  /\ state["reproduction-claim"] = "Pass" /\ state["source-repository"] = "Pass"
           /\ state["record-binding"] = "Pass" /\ state["rebuild-inputs"] = "Pass"
           /\ state["rebuild-layers"] = "Pass"
  <1>1. \A n \in 1..5 : state[RequiredNames[REPRO][n]] = "Pass"
    BY PassIsAll, AdaptersAre, RequiredAre, NamesAre
  <1> QED BY <1>1, RequiredAre, NamesAre

LEMMA DevicePass ==
    ASSUME NEW state, NEW notes, ScopedPass(Report(SNP, state, notes))
    PROVE  /\ state["device-claim"] = "Pass" /\ state["snp-report"] = "Pass"
           /\ state["tcb-floor"] = "Pass" /\ state["freshness"] = "Pass"
           /\ state["device-binding"] = "Pass"
  <1>1. \A n \in 1..5 : state[RequiredNames[SNP][n]] = "Pass"
    BY PassIsAll, AdaptersAre, RequiredAre, NamesAre
  <1> QED BY <1>1, RequiredAre, NamesAre

(* Membership of the names, check by check.                                *)
LEMMA NamesIn ==
    /\ NamesOf(ACL) = {"ledger-identity-binding", "snp-uvm-validation",
                       "cce-policy-host-data", "node-coverage", "freshness",
                       "connection-binding"}
    /\ NamesOf(MAA) = {"snp-validation", "cce-policy-host-data", "maa-certificate-coverage"}
    /\ NamesOf(REPRO) = {"reproduction-claim", "source-repository", "record-binding",
                         "rebuild-inputs", "rebuild-layers"}
    /\ NamesOf(SNP) = {"device-claim", "snp-report", "tcb-floor", "freshness",
                       "device-binding"}
  <1>1. NamesOf(ACL) = {CheckNames[ACL][i] : i \in 1..6}
    BY NamesAre DEF NamesOf
  <1>2. NamesOf(MAA) = {CheckNames[MAA][i] : i \in 1..3}
    BY NamesAre DEF NamesOf
  <1>3. NamesOf(REPRO) = {CheckNames[REPRO][i] : i \in 1..5}
    BY NamesAre DEF NamesOf
  <1>4. NamesOf(SNP) = {CheckNames[SNP][i] : i \in 1..5}
    BY NamesAre DEF NamesOf
  <1>5. NamesOf(ACL) = {"ledger-identity-binding", "snp-uvm-validation",
                        "cce-policy-host-data", "node-coverage", "freshness",
                        "connection-binding"}
    BY <1>1, NamesAre
  <1>6. NamesOf(MAA) = {"snp-validation", "cce-policy-host-data", "maa-certificate-coverage"}
    BY <1>2, NamesAre
  <1>7. NamesOf(REPRO) = {"reproduction-claim", "source-repository", "record-binding",
                          "rebuild-inputs", "rebuild-layers"}
    BY <1>3, NamesAre
  <1>8. NamesOf(SNP) = {"device-claim", "snp-report", "tcb-floor", "freshness",
                        "device-binding"}
    BY <1>4, NamesAre
  <1> QED BY <1>5, <1>6, <1>7, <1>8

LEMMA RequiredFirst ==
    ASSUME NEW a \in Adapters
    PROVE  1 \in DOMAIN RequiredNames[a] /\ RequiredNames[a][1] \in NamesOf(a)
  <1>1. CASE a = ACL
    BY <1>1, RequiredAre, NamesIn
  <1>2. CASE a \in {MAA, REPRO, SNP}
    BY <1>2, RequiredAre, NamesAre, NamesIn
  <1> QED BY <1>1, <1>2, AdaptersAre

LEMMA FailIsSomeones ==
    ASSUME NEW a \in Adapters, NEW state, NEW notes, AnyFail(Report(a, state, notes))
    PROVE  \E n \in NamesOf(a) : state[n] = "Fail"
  <1> DEFINE r == Report(a, state, notes)
  <1>1. /\ DOMAIN r.checks = DOMAIN CheckNames[a]
        /\ \A k \in DOMAIN CheckNames[a] : r.checks[k].state = state[CheckNames[a][k]]
    BY DEF Report
  <1>2. \A k \in DOMAIN CheckNames[a] : CheckNames[a][k] \in NamesOf(a)
    BY DEF NamesOf
  <1> HIDE DEF r
  <1>3. PICK k \in DOMAIN r.checks : r.checks[k].state = "Fail"
    BY DEF AnyFail, r
  <1> QED BY <1>1, <1>2, <1>3

(* Nothing was established by an appraisal that was not attempted, and     *)
(* only one thing refuted by one that ended before the evidence.           *)
LEMMA NotAttemptedStates ==
    ASSUME NEW a \in Adapters
    PROVE  /\ \A n \in NamesOf(a) : StateOf(NotAttempted(a), n) = "CannotEvaluate"
           /\ ~ScopedPass(NotAttempted(a)) /\ ~AnyFail(NotAttempted(a))
  <1>1. \A n \in NamesOf(a) : Unevaluated(a)[n] = "CannotEvaluate"
    BY DEF Unevaluated
  <1>2. \A n \in NamesOf(a) : StateOf(NotAttempted(a), n) = "CannotEvaluate"
    BY <1>1, StateIs DEF NotAttempted
  <1>3. ~ScopedPass(NotAttempted(a))
    BY <1>1, PassIsAll, RequiredFirst DEF NotAttempted
  <1>4. ~AnyFail(NotAttempted(a))
    BY <1>1, FailIsSomeones DEF NotAttempted
  <1> QED BY <1>2, <1>3, <1>4

LEMMA DisagreedStates ==
    ASSUME NEW a \in Adapters, NEW check \in NamesOf(a)
    PROVE  /\ \A n \in NamesOf(a) : n # check =>
                  StateOf(Disagreed(a, check), n) = "CannotEvaluate"
           /\ ~ScopedPass(Disagreed(a, check))
  <1> DEFINE state == [Unevaluated(a) EXCEPT ![check] = "Fail"]
  <1>1. /\ \A n \in NamesOf(a) : n # check => state[n] = "CannotEvaluate"
        /\ \A n \in NamesOf(a) : state[n] # "Pass"
    BY DEF Unevaluated
  <1> HIDE DEF state
  <1>2. Disagreed(a, check) = Report(a, state, 1)
    BY DEF Disagreed, state
  <1>3. \A n \in NamesOf(a) : n # check => StateOf(Disagreed(a, check), n) = "CannotEvaluate"
    BY <1>1, <1>2, StateIs
  <1>4. ~ScopedPass(Disagreed(a, check))
    BY <1>1, <1>2, PassIsAll, RequiredFirst
  <1> QED BY <1>3, <1>4

-----------------------------------------------------------------------------
(* What each appraisal found is one of its adapter's answers.              *)
LEMMA RecordStates ==
    ASSUME NEW policy, NEW claim, NEW published, NEW rebuilt
    PROVE  LET state == AppraiseRecords(policy, claim, published, rebuilt)
               ready == /\ Binding(claim, published) = "Pass"
                        /\ Comparable(published, rebuilt)
           IN  /\ state \in [NamesOf(REPRO) -> CheckStates]
               /\ state["reproduction-claim"] = "Pass"
               /\ state["source-repository"] = Compared(claim.repository = policy.repository)
               /\ state["record-binding"] = Binding(claim, published)
               /\ state["rebuild-inputs"] = IF ready THEN Compared(SameInputs(published, rebuilt))
                                            ELSE "CannotEvaluate"
               /\ state["rebuild-layers"] = IF ready THEN Compared(SameLayers(published, rebuilt))
                                            ELSE "CannotEvaluate"
  <1> DEFINE ready  == Binding(claim, published) = "Pass" /\ Comparable(published, rebuilt)
             source == Compared(claim.repository = policy.repository)
             inputs == IF ready THEN Compared(SameInputs(published, rebuilt)) ELSE "CannotEvaluate"
             layers == IF ready THEN Compared(SameLayers(published, rebuilt)) ELSE "CannotEvaluate"
             state  == AppraiseRecords(policy, claim, published, rebuilt)
  <1>1. /\ source \in CheckStates /\ inputs \in CheckStates /\ layers \in CheckStates
    BY DEF Compared, CheckStates
  <1>2. Binding(claim, published) \in CheckStates
    BY DEF Binding, CheckStates
  <1>3. state = [Unevaluated(REPRO) EXCEPT
                    !["reproduction-claim"] = "Pass", !["source-repository"] = source,
                    !["record-binding"] = Binding(claim, published),
                    !["rebuild-inputs"] = inputs, !["rebuild-layers"] = layers]
    BY DEF AppraiseRecords
  <1> HIDE DEF source, inputs, layers, state
  <1>4. /\ state \in [NamesOf(REPRO) -> CheckStates]
        /\ state["reproduction-claim"] = "Pass" /\ state["source-repository"] = source
        /\ state["record-binding"] = Binding(claim, published)
        /\ state["rebuild-inputs"] = inputs /\ state["rebuild-layers"] = layers
    BY <1>1, <1>2, <1>3, NamesIn, UnevaluatedTyped, AdaptersAre DEF CheckStates
  <1> QED BY <1>4 DEF source, inputs, layers, state

LEMMA RebuildTyped ==
    ASSUME NEW policy, NEW claim, NEW published, NEW rebuilt
    PROVE  AppraiseRebuild(policy, claim, published, rebuilt) \in Assessments
  <1>1. Unevaluated(REPRO) \in [NamesOf(REPRO) -> CheckStates]
    BY UnevaluatedTyped, AdaptersAre
  <1>2. [Unevaluated(REPRO) EXCEPT !["reproduction-claim"] = ClaimState(claim, policy)]
            \in [NamesOf(REPRO) -> CheckStates]
    BY <1>1 DEF ClaimState, CheckStates
  <1>3. AppraiseRecords(policy, claim, published, rebuilt) \in [NamesOf(REPRO) -> CheckStates]
    BY RecordStates
  <1>4. RebuildNotes(claim, published, rebuilt) \in Nat
    <2> DEFINE S == {f \in Informational : published.builder[f] # rebuilt.builder[f]}
    <2>1. IsFiniteSet(Informational)
      <3>1. ASSUME NEW n \in Nat PROVE IsFiniteSet(1..n)
        BY FS_Interval
      <3> QED BY <3>1 DEF Informational
    <2>2. Cardinality(S) \in Nat
      BY <2>1, FS_Subset, FS_CardinalityType
    <2> QED BY <2>2 DEF RebuildNotes
  <1> QED
    BY <1>1, <1>2, <1>3, <1>4, ReportTyped, NotAttemptedTyped, AdaptersAre DEF AppraiseRebuild

LEMMA DeviceStates ==
    ASSUME NEW policy, NEW bom, NEW report, NEW vcek, NEW chain, NEW nonce
    PROVE  LET state == AppraiseSupplied(policy, bom, report, vcek, chain, nonce)
               authenticated == ReportState(report, vcek, chain) = "Pass"
           IN  /\ state \in [NamesOf(SNP) -> CheckStates]
               /\ state["device-claim"] = BomState(bom)
               /\ state["snp-report"] = ReportState(report, vcek, chain)
               /\ state["tcb-floor"] = IF authenticated THEN TcbState(report, policy.floors)
                                       ELSE "CannotEvaluate"
               /\ state["freshness"] = IF authenticated THEN Freshness(report, nonce)
                                       ELSE "CannotEvaluate"
               /\ state["device-binding"] =
                      IF authenticated /\ BomState(bom) = "Pass"
                      THEN DeviceBinding(bom.serials[1], report, vcek) ELSE "CannotEvaluate"
  <1> DEFINE authenticated == ReportState(report, vcek, chain) = "Pass"
             tcb     == IF authenticated THEN TcbState(report, policy.floors) ELSE "CannotEvaluate"
             fresh   == IF authenticated THEN Freshness(report, nonce) ELSE "CannotEvaluate"
             binding == IF authenticated /\ BomState(bom) = "Pass"
                        THEN DeviceBinding(bom.serials[1], report, vcek) ELSE "CannotEvaluate"
             state   == AppraiseSupplied(policy, bom, report, vcek, chain, nonce)
  <1>1. tcb \in CheckStates
    BY DEF TcbState, CheckStates
  <1>2. fresh \in CheckStates /\ binding \in CheckStates
    BY DEF Freshness, DeviceBinding, CheckStates
  <1>3. BomState(bom) \in CheckStates /\ ReportState(report, vcek, chain) \in CheckStates
    BY DEF BomState, ReportState, CheckStates
  <1>4. Unevaluated(SNP) = [n \in NamesOf(SNP) |-> "CannotEvaluate"]
    BY DEF Unevaluated
  <1>5. state = [Unevaluated(SNP) EXCEPT
                    !["device-claim"] = BomState(bom),
                    !["snp-report"] = ReportState(report, vcek, chain),
                    !["tcb-floor"] = tcb, !["freshness"] = fresh, !["device-binding"] = binding]
    BY <1>4, NamesIn DEF AppraiseSupplied
  <1> HIDE DEF tcb, fresh, binding, state
  <1>6. /\ state \in [NamesOf(SNP) -> CheckStates]
        /\ state["device-claim"] = BomState(bom)
        /\ state["snp-report"] = ReportState(report, vcek, chain)
        /\ state["tcb-floor"] = tcb /\ state["freshness"] = fresh
        /\ state["device-binding"] = binding
    BY <1>1, <1>2, <1>3, <1>5, NamesIn, UnevaluatedTyped, AdaptersAre DEF CheckStates
  <1> QED BY <1>6 DEF tcb, fresh, binding, state

LEMMA DeviceTyped ==
    ASSUME NEW policy, NEW bom, NEW report, NEW vcek, NEW chain, NEW nonce
    PROVE  AppraiseDevice(policy, bom, report, vcek, chain, nonce) \in Assessments
  <1>1. Unevaluated(SNP) \in [NamesOf(SNP) -> CheckStates]
    BY UnevaluatedTyped, AdaptersAre
  <1>2. AppraiseSupplied(policy, bom, report, vcek, chain, nonce)
            \in [NamesOf(SNP) -> CheckStates]
    BY DeviceStates
  <1> QED
    BY <1>1, <1>2, ReportTyped, NotAttemptedTyped, AdaptersAre DEF AppraiseDevice

LEMMA RollIs ==
    ASSUME NEW states
    PROVE  /\ Roll(states) \in CheckStates
           /\ Roll(states) = "Pass" => states = {"Pass"}
           /\ Roll(states) = "Fail" => "Fail" \in states
  BY DEF Roll, CheckStates

LEMMA AggregateStates ==
    ASSUME NEW outcomes
    PROVE  LET state == Aggregate(outcomes)
           IN  /\ state \in [NamesOf(ACL) -> CheckStates]
               /\ state["ledger-identity-binding"] =
                      Roll({outcomes[i].binding : i \in DOMAIN outcomes})
               /\ state["snp-uvm-validation"] =
                      Roll({outcomes[i].attestation : i \in DOMAIN outcomes})
               /\ state["cce-policy-host-data"] =
                      Roll({outcomes[i].hostData : i \in DOMAIN outcomes})
               /\ state["node-coverage"] =
                      IF outcomes = <<>> THEN "CannotEvaluate" ELSE Coverage(outcomes)
  <1> DEFINE binding == Roll({outcomes[i].binding : i \in DOMAIN outcomes})
             attestation == Roll({outcomes[i].attestation : i \in DOMAIN outcomes})
             hostData == Roll({outcomes[i].hostData : i \in DOMAIN outcomes})
             covered == IF outcomes = <<>> THEN "CannotEvaluate" ELSE Coverage(outcomes)
             state == Aggregate(outcomes)
  <1>1. /\ binding \in CheckStates /\ attestation \in CheckStates /\ hostData \in CheckStates
    BY RollIs
  <1>2. covered \in CheckStates
    BY DEF Coverage, CheckStates
  <1>3. state = [Unevaluated(ACL) EXCEPT
                    !["ledger-identity-binding"] = binding, !["snp-uvm-validation"] = attestation,
                    !["cce-policy-host-data"] = hostData, !["node-coverage"] = covered]
    BY DEF Aggregate
  <1> HIDE DEF binding, attestation, hostData, covered, state
  <1>4. /\ state \in [NamesOf(ACL) -> CheckStates]
        /\ state["ledger-identity-binding"] = binding
        /\ state["snp-uvm-validation"] = attestation
        /\ state["cce-policy-host-data"] = hostData /\ state["node-coverage"] = covered
    BY <1>1, <1>2, <1>3, NamesIn, UnevaluatedTyped, AdaptersAre
  <1> QED BY <1>4 DEF binding, attestation, hostData, covered, state

LEMMA CountOfSome ==
    ASSUME NEW n \in Nat, NEW S, S \subseteq 1..n
    PROVE  Cardinality(S) \in Nat
  <1>1. IsFiniteSet(1..n)
    BY FS_Interval
  <1>2. IsFiniteSet(S)
    BY <1>1, FS_Subset
  <1> QED BY <1>2, FS_CardinalityType

LEMMA LedgerTyped ==
    ASSUME NEW policy \in LedgerPolicies, NEW claim \in PolicyClaims, NEW bundle,
           bundle.nodes \in Seq(Nodes)
    PROVE  /\ AppraiseLedger(policy, claim, bundle) \in Assessments
           /\ BeforeEvidence(policy, claim) \in Assessments
  <1> DEFINE outcomes == [i \in DOMAIN bundle.nodes |->
                 NodeOutcome(bundle.nodes[i], bundle.service, claim.digest, policy.floors)]
             questionable == {i \in DOMAIN outcomes :
                                 \/ outcomes[i].attestation # "Pass"
                                 \/ outcomes[i].hostData # "Pass"}
             base  == IF policy.pin = 0 THEN 0 ELSE 1
             notes == base + Cardinality(questionable)
  <1>1. questionable \subseteq 1..Len(bundle.nodes) /\ Len(bundle.nodes) \in Nat
    BY LenProperties
  <1>2. Cardinality(questionable) \in Nat
    BY <1>1, CountOfSome
  <1>3. notes \in Nat
    BY <1>2
  <1>4. Aggregate(outcomes) \in [NamesOf(ACL) -> CheckStates]
    BY AggregateStates
  <1>5. Report(ACL, Aggregate(outcomes), notes) \in Assessments
    BY <1>3, <1>4, ReportTyped, AdaptersAre
  <1>6. AppraiseNodes(bundle, claim.digest, policy.floors, base) \in Assessments
    BY <1>5, NotAttemptedTyped, AdaptersAre DEF AppraiseNodes
  <1> QED
    BY <1>6, NotAttemptedTyped, DisagreedTyped, AdaptersAre DEF AppraiseLedger, BeforeEvidence

LEMMA KeyStates ==
    ASSUME NEW keys, NEW digest
    PROVE  LET state == AppraiseKeys(keys, digest)
           IN  /\ state \in [NamesOf(MAA) -> CheckStates]
               /\ state["snp-validation"] = IF UsableKeySet(keys) THEN Roll(Validation(keys))
                                            ELSE "CannotEvaluate"
               /\ state["cce-policy-host-data"] =
                      IF UsableKeySet(keys) THEN Roll(HostData(keys, digest))
                      ELSE "CannotEvaluate"
               /\ state["maa-certificate-coverage"] =
                      IF UsableKeySet(keys) THEN Roll(CertificateCoverage(keys)) ELSE "Fail"
  <1> DEFINE state == AppraiseKeys(keys, digest)
             one   == Roll(Validation(keys))
             two   == Roll(HostData(keys, digest))
             three == Roll(CertificateCoverage(keys))
  <1>1. one \in CheckStates /\ two \in CheckStates /\ three \in CheckStates
    BY RollIs
  <1>2. /\ UsableKeySet(keys) =>
              state = [Unevaluated(MAA) EXCEPT !["snp-validation"] = one,
                          !["cce-policy-host-data"] = two, !["maa-certificate-coverage"] = three]
        /\ ~UsableKeySet(keys) =>
              state = [Unevaluated(MAA) EXCEPT !["maa-certificate-coverage"] = "Fail"]
    BY DEF AppraiseKeys
  <1>3. Unevaluated(MAA) = [n \in NamesOf(MAA) |-> "CannotEvaluate"]
    BY DEF Unevaluated
  <1> HIDE DEF state, one, two, three
  <1>4. CASE UsableKeySet(keys)
    <2>1. /\ state \in [NamesOf(MAA) -> CheckStates]
          /\ state["snp-validation"] = one /\ state["cce-policy-host-data"] = two
          /\ state["maa-certificate-coverage"] = three
      BY <1>1, <1>2, <1>3, <1>4, NamesIn DEF CheckStates
    <2> QED BY <2>1, <1>4 DEF state, one, two, three
  <1>5. CASE ~UsableKeySet(keys)
    <2>1. /\ state \in [NamesOf(MAA) -> CheckStates]
          /\ state["snp-validation"] = "CannotEvaluate"
          /\ state["cce-policy-host-data"] = "CannotEvaluate"
          /\ state["maa-certificate-coverage"] = "Fail"
      BY <1>2, <1>3, <1>5, NamesIn DEF CheckStates
    <2> QED BY <2>1, <1>5 DEF state
  <1> QED BY <1>4, <1>5

LEMMA AttestationTyped ==
    ASSUME NEW target, NEW claim, NEW evidence, evidence.keys \in Seq(Keys),
           NEW saved \in BOOLEAN
    PROVE  AppraiseAttestation(target, claim, evidence, saved) \in Assessments
  <1> DEFINE ordinary == {i \in DOMAIN evidence.keys :
                             UsableKeySet(evidence.keys) /\ ~Bears(evidence.keys[i])}
  <1>1. ordinary \subseteq 1..Len(evidence.keys) /\ Len(evidence.keys) \in Nat
    BY LenProperties
  <1>2. Cardinality(ordinary) \in Nat
    BY <1>1, CountOfSome
  <1>3. AttestationNotes(evidence.keys, saved) \in Nat
    BY <1>2 DEF AttestationNotes
  <1>4. AppraiseKeys(evidence.keys, claim.digest) \in [NamesOf(MAA) -> CheckStates]
    BY KeyStates
  <1> QED
    BY <1>3, <1>4, ReportTyped, NotAttemptedTyped, AdaptersAre DEF AppraiseAttestation

-----------------------------------------------------------------------------
(* What a pass of each appraisal took, in terms of what it was given.      *)
LEMMA LastOf ==
    ASSUME NEW n \in Nat, NEW T \in SUBSET (1..n), T # {}
    PROVE  \E x \in T : \A y \in T : y <= x
  <1> DEFINE R == OpToRel(<, Nat)
             U == {n - y : y \in T}
  <1>1. IsWellFoundedOn(R, Nat)
    BY NatLessThanWellFounded
  <1>2. \A x, y \in Nat : y < x => <<y, x>> \in R
    BY DEF OpToRel
  <1>0. \A y \in T : y \in Nat /\ n - y \in Nat
    OBVIOUS
  <1>3. U \subseteq Nat /\ U # {}
    BY ONLY <1>0, T # {}
  <1> HIDE DEF R, U
  <1>4. PICK u \in U : \A v \in U : ~ (<<v, u>> \in R)
    BY <1>1, <1>3, WFMin
  <1>5. \A v \in U : ~(v < u)
    BY <1>2, <1>3, <1>4
  <1>6. PICK x \in T : u = n - x
    BY DEF U
  <1>7. \A y \in T : ~(n - y < n - x)
    BY <1>5, <1>6 DEF U
  <1> QED BY <1>0, <1>7

LEMMA SuppliedDevicePass ==
    ASSUME NEW policy \in DevicePolicies, NEW bom \in Boms, NEW report, NEW vcek, NEW chain,
           NEW nonce, ScopedPass(AppraiseDevice(policy, bom, report, vcek, chain, nonce))
    PROVE  /\ policy.profile
           /\ bom.payload = "Json" /\ bom.graph
           /\ bom.serials = <<vcek.id>> /\ vcek.hwid = "Id" /\ vcek.id # 0
           /\ report.genuine /\ report.matches /\ report.data = nonce.value
           /\ nonce.form = "Fits" /\ nonce.value # 0
           /\ \E i \in DOMAIN policy.floors :
                 /\ policy.floors[i].generation = report.generation
                 /\ AtLeast(report.tcb, policy.floors[i].tcb)
  <1> DEFINE state == AppraiseSupplied(policy, bom, report, vcek, chain, nonce)
  <1>0. bom.serials \in Seq(Nat) /\ policy.floors \in Seq(DeviceFloors)
    BY DEF Boms, DevicePolicies
  <1>1. ~ScopedPass(NotAttempted(SNP))
    BY NotAttemptedStates, AdaptersAre
  <1>2. ~ScopedPass(Report(SNP, Unevaluated(SNP), 0))
    BY DevicePass, NamesIn DEF Unevaluated
  <1>3. PICK notes : policy.profile /\ ScopedPass(Report(SNP, state, notes))
    BY <1>1, <1>2 DEF AppraiseDevice
  <1>4. /\ state["device-claim"] = "Pass" /\ state["snp-report"] = "Pass"
        /\ state["tcb-floor"] = "Pass" /\ state["freshness"] = "Pass"
        /\ state["device-binding"] = "Pass"
    BY <1>3, DevicePass
  <1>5. /\ BomState(bom) = "Pass" /\ ReportState(report, vcek, chain) = "Pass"
        /\ TcbState(report, policy.floors) = "Pass" /\ Freshness(report, nonce) = "Pass"
        /\ DeviceBinding(bom.serials[1], report, vcek) = "Pass"
    BY <1>4, DeviceStates
  <1>6. bom.payload = "Json" /\ bom.graph /\ Len(bom.serials) = 1
    BY <1>5 DEF BomState
  <1>7. report.genuine
    BY <1>5 DEF ReportState
  <1>8. nonce.form = "Fits" /\ nonce.value # 0 /\ report.data = nonce.value
    BY <1>5 DEF Freshness
  <1>9. vcek.hwid = "Id" /\ vcek.id # 0 /\ report.matches /\ bom.serials[1] = vcek.id
    BY <1>5 DEF DeviceBinding, NamesChip
  <1>10. bom.serials = <<vcek.id>>
    BY <1>0, <1>6, <1>9
  <1>11. \E i \in DOMAIN policy.floors :
            /\ policy.floors[i].generation = report.generation
            /\ AtLeast(report.tcb, policy.floors[i].tcb)
    <2> DEFINE applicable == Applicable(report, policy.floors)
               last == CHOOSE i \in applicable : \A j \in applicable : j <= i
    <2>1. applicable \in SUBSET (1..Len(policy.floors)) /\ Len(policy.floors) \in Nat
      BY <1>0 DEF Applicable
    <2>2. applicable # {} /\ AtLeast(report.tcb, policy.floors[last].tcb)
      BY <1>5 DEF TcbState
    <2> HIDE DEF applicable
    <2>3. last \in applicable
      BY <2>1, <2>2, LastOf
    <2> QED BY <2>2, <2>3 DEF Applicable, applicable
  <1> QED BY <1>3, <1>6, <1>7, <1>8, <1>9, <1>10, <1>11

LEMMA SuppliedRebuildPass ==
    ASSUME NEW policy, NEW claim, NEW published, NEW rebuilt,
           ScopedPass(AppraiseRebuild(policy, claim, published, rebuilt))
    PROVE  /\ policy.profile
           /\ claim.payload \notin {"Unavailable", "NotJson"}
           /\ claim.shape \notin {"OtherVersion", "Malformed"}
           /\ claim.component = policy.component /\ claim.repository = policy.repository
           /\ published.bytes = claim.record
           /\ published.layers # <<>> /\ published.layers = rebuilt.layers
           /\ published.claimed = claim.inputs /\ published.claimed = rebuilt.claimed
           /\ published.other = rebuilt.other
           /\ published.claimed # 0 /\ published.other # 0
  <1> DEFINE state == AppraiseRecords(policy, claim, published, rebuilt)
             notes == RebuildNotes(claim, published, rebuilt)
  <1>1. ~ScopedPass(NotAttempted(REPRO))
    BY NotAttemptedStates, AdaptersAre
  <1>2. ~ScopedPass(Report(REPRO, Unevaluated(REPRO), 0))
    BY RebuildPass, NamesIn DEF Unevaluated
  <1>3. \A c : ~ScopedPass(Report(REPRO, [Unevaluated(REPRO) EXCEPT !["reproduction-claim"] = c], 0))
    BY RebuildPass, NamesIn DEF Unevaluated
  <1>4. /\ policy.profile /\ ClaimState(claim, policy) = "Pass"
        /\ ScopedPass(Report(REPRO, state, notes))
    BY <1>1, <1>2, <1>3 DEF AppraiseRebuild
  <1> HIDE DEF notes, state
  <1>5. /\ state["source-repository"] = "Pass" /\ state["record-binding"] = "Pass"
        /\ state["rebuild-inputs"] = "Pass" /\ state["rebuild-layers"] = "Pass"
    BY <1>4, RebuildPass
  <1>6. /\ Compared(claim.repository = policy.repository) = "Pass"
        /\ Binding(claim, published) = "Pass"
        /\ Compared(SameInputs(published, rebuilt)) = "Pass"
        /\ Compared(SameLayers(published, rebuilt)) = "Pass"
    BY <1>5, RecordStates DEF state
  <1>7. /\ claim.payload \notin {"Unavailable", "NotJson"}
        /\ claim.shape \notin {"OtherVersion", "Malformed"}
        /\ claim.component = policy.component
    BY <1>4 DEF ClaimState
  <1>8. /\ published.bytes = claim.record /\ published.claimed = claim.inputs
        /\ published.layers # <<>> /\ published.claimed # 0 /\ published.other # 0
    BY <1>6 DEF Binding, Expectation, HasInputs
  <1>9. /\ claim.repository = policy.repository /\ published.claimed = rebuilt.claimed
        /\ published.other = rebuilt.other /\ published.layers = rebuilt.layers
    BY <1>6 DEF Compared, SameInputs, SameLayers
  <1> QED BY <1>4, <1>7, <1>8, <1>9

AllReport(keys, digest) ==
    /\ \E i \in DOMAIN keys : keys[i].kind = "Report"
    /\ \A i \in DOMAIN keys :
          \/ keys[i].kind = "Ordinary"
          \/ keys[i].kind = "Report" /\ keys[i].genuine /\ keys[i].hostData = digest

LEMMA KeySetPass ==
    ASSUME NEW target, NEW claim, NEW evidence, evidence.keys \in Seq(Keys), NEW saved,
           ScopedPass(AppraiseAttestation(target, claim, evidence, saved))
    PROVE  /\ evidence.target = target /\ Len(evidence.keys) <= MaxKeys
           /\ AllReport(evidence.keys, claim.digest)
  <1> DEFINE keys  == evidence.keys
             state == AppraiseKeys(keys, claim.digest)
             notes == AttestationNotes(keys, saved)
             with  == {i \in DOMAIN keys : Bears(keys[i])}
  <1>1. ~ScopedPass(NotAttempted(MAA))
    BY NotAttemptedStates, AdaptersAre
  <1>2. Valid(evidence, target) /\ ScopedPass(Report(MAA, state, notes))
    BY <1>1 DEF AppraiseAttestation
  <1> HIDE DEF notes, state
  <1>3. /\ state["snp-validation"] = "Pass" /\ state["cce-policy-host-data"] = "Pass"
        /\ state["maa-certificate-coverage"] = "Pass"
    BY <1>2, AttestationPass
  <1>4. /\ UsableKeySet(keys) /\ Roll(Validation(keys)) = "Pass"
        /\ Roll(HostData(keys, claim.digest)) = "Pass"
        /\ Roll(CertificateCoverage(keys)) = "Pass"
    BY <1>3, KeyStates DEF state
  <1>5. /\ Validation(keys) = {"Pass"} /\ HostData(keys, claim.digest) = {"Pass"}
        /\ CertificateCoverage(keys) = {"Pass"}
    BY <1>4, RollIs
  <1>6. \A i \in with : (IF ~Authentic(keys[i]) THEN "CannotEvaluate"
                         ELSE IF keys[i].hostData = claim.digest THEN "Pass" ELSE "Fail")
                            \in HostData(keys, claim.digest)
    BY DEF HostData
  <1>7. \A i \in with : Authentic(keys[i]) /\ keys[i].hostData = claim.digest
    BY <1>5, <1>6
  <1>8. \E i \in DOMAIN keys : keys[i].kind = "Report"
    BY <1>5 DEF CertificateCoverage
  <1>9. evidence.target = target
    BY <1>2 DEF Valid
  <1>10. Len(keys) <= MaxKeys
    BY <1>4, MaxKeysAssumption DEF UsableKeySet
  <1>11. \A i \in DOMAIN keys :
            \/ keys[i].kind = "Ordinary"
            \/ keys[i].kind = "Report" /\ keys[i].genuine /\ keys[i].hostData = claim.digest
    BY <1>7 DEF Authentic, Bears
  <1>12. AllReport(keys, claim.digest)
    BY <1>8, <1>11 DEF AllReport
  <1> QED BY <1>9, <1>10, <1>12

LEMMA AsManyAsThereAre ==
    ASSUME NEW n \in Nat, NEW T, NEW key \in [1..n -> T],
           \A t \in T : \E i \in 1..n : key[i] = t, Cardinality(T) = n
    PROVE  \A i, j \in 1..n : key[i] = key[j] => i = j
  <1>1. key \in Surjection(1..n, T)
    BY DEF Surjection
  <1>2. IsFiniteSet(1..n) /\ Cardinality(1..n) = n
    <2>1. IsFiniteSet(1..n) /\ Cardinality(1..n) = IF 1 > n THEN 0 ELSE n - 1 + 1
      BY FS_Interval
    <2> QED BY <2>1
  <1>3. Cardinality(T) = Cardinality(1..n)
    BY <1>2
  <1>4. key \in Injection(1..n, T)
    BY <1>1, <1>2, <1>3, FS_Surjection
  <1> QED BY <1>4 DEF Injection, IsInjective

LEMMA CollectedLedgerPass ==
    ASSUME NEW policy \in LedgerPolicies, NEW claim \in PolicyClaims, NEW bundle,
           bundle.nodes \in Seq(Nodes), ScopedPass(AppraiseLedger(policy, claim, bundle))
    PROVE  /\ bundle.ledger.name = policy.host.name
           /\ bundle.nodes # <<>> /\ policy.count \in {0, Len(bundle.nodes)}
           /\ \A i \in DOMAIN bundle.nodes :
                 Endorses(bundle.nodes[i], bundle.service, claim.digest, policy.floors)
           /\ \A i, j \in DOMAIN bundle.nodes :
                 bundle.nodes[i].report.key = bundle.nodes[j].report.key => i = j
  <1> DEFINE nodes == bundle.nodes
             outcomes == [i \in DOMAIN nodes |->
                 NodeOutcome(nodes[i], bundle.service, claim.digest, policy.floors)]
             base == IF policy.pin = 0 THEN 0 ELSE 1
             state == Aggregate(outcomes)
  <1>1. ~ScopedPass(NotAttempted(ACL))
    BY NotAttemptedStates, AdaptersAre
  <1>2. ~ScopedPass(Disagreed(ACL, "ledger-identity-binding"))
    BY DisagreedStates, AdaptersAre, NamesIn
  <1>3. /\ SameHost(policy.host, bundle.ledger) /\ policy.count \in {0, Len(nodes)}
        /\ ScopedPass(AppraiseNodes(bundle, claim.digest, policy.floors, base))
    BY <1>1, <1>2 DEF AppraiseLedger
  <1>4. PICK notes : nodes # <<>> /\ ScopedPass(Report(ACL, state, notes))
    BY <1>1, <1>3 DEF AppraiseNodes
  <1>5. DOMAIN outcomes = 1..Len(nodes) /\ Len(nodes) \in Nat
    BY LenProperties
  <1> HIDE DEF state, outcomes
  <1>6. /\ state["ledger-identity-binding"] = "Pass" /\ state["snp-uvm-validation"] = "Pass"
        /\ state["node-coverage"] = "Pass"
    BY <1>4, LedgerPass
  <1>7. /\ Roll({outcomes[i].binding : i \in DOMAIN outcomes}) = "Pass"
        /\ Roll({outcomes[i].attestation : i \in DOMAIN outcomes}) = "Pass"
        /\ Coverage(outcomes) = "Pass"
    BY <1>6, AggregateStates DEF state
  <1>8. \A i \in DOMAIN outcomes : outcomes[i].binding = "Pass" /\ outcomes[i].attestation = "Pass"
    <2>1. /\ {outcomes[i].binding : i \in DOMAIN outcomes} = {"Pass"}
          /\ {outcomes[i].attestation : i \in DOMAIN outcomes} = {"Pass"}
      BY <1>7, RollIs
    <2> QED BY <2>1
  <1>9. ASSUME NEW i \in 1..Len(nodes)
        PROVE  /\ VerifyNode(nodes[i], claim.digest, policy.floors) = "Met"
               /\ AssessBinding(nodes[i], bundle.service) = "Pass"
               /\ outcomes[i].key = nodes[i].report.key
    <2>1. outcomes[i] = NodeOutcome(nodes[i], bundle.service, claim.digest, policy.floors)
      BY <1>5 DEF outcomes
    <2>2. outcomes[i].binding = "Pass" /\ outcomes[i].attestation = "Pass"
      BY <1>5, <1>8
    <2> QED BY <2>1, <2>2 DEF NodeOutcome
  <1>10. ASSUME NEW i \in 1..Len(nodes)
         PROVE  Endorses(nodes[i], bundle.service, claim.digest, policy.floors)
    <2>1. /\ Authenticates(nodes[i]) /\ EndorsedRole(nodes[i].uvm)
          /\ FloorCovers(nodes[i].report.generation, policy.floors)
          /\ nodes[i].report.hostData = claim.digest
          /\ MeetsFloor(nodes[i].report, policy.floors) /\ nodes[i].uvm # "Outdated"
      BY <1>9 DEF VerifyNode
    <2>2. bundle.service # 0 /\ VerifyBinding(nodes[i], bundle.service)
      BY <1>9 DEF AssessBinding
    <2> QED
      BY <2>1, <2>2 DEF Endorses, Authenticates, EndorsedRole, FloorCovers, MeetsFloor,
                        AtLeast, VerifyBinding
  <1>11. \A i, j \in 1..Len(nodes) : nodes[i].report.key = nodes[j].report.key => i = j
    <2> DEFINE key == [i \in 1..Len(nodes) |-> outcomes[i].key]
               S   == {outcomes[i].key : i \in 1..Len(nodes)}
    <2>1. Len(outcomes) = Len(nodes)
      BY <1>5 DEF outcomes
    <2>2. Cardinality(S) = Len(nodes)
      BY <1>5, <1>7, <2>1 DEF Coverage
    <2>3. key \in [1..Len(nodes) -> S] /\ \A t \in S : \E i \in 1..Len(nodes) : key[i] = t
      OBVIOUS
    <2> HIDE DEF S, key
    <2>4. ASSUME NEW n \in Nat, n = Len(nodes)
          PROVE  \A i, j \in 1..n : key[i] = key[j] => i = j
      <3>1. key \in [1..n -> S]
        BY <2>3, <2>4
      <3>2. \A t \in S : \E i \in 1..n : key[i] = t
        BY <2>3, <2>4
      <3>3. Cardinality(S) = n
        BY <2>2, <2>4
      <3> QED BY <3>1, <3>2, <3>3, AsManyAsThereAre
    <2> QED BY <1>5, <1>9, <2>4 DEF key
  <1>12. bundle.ledger.name = policy.host.name
    BY <1>3 DEF SameHost
  <1> QED BY <1>3, <1>4, <1>5, <1>10, <1>11, <1>12

-----------------------------------------------------------------------------
(* What a failed check of each appraisal took.                             *)
Deficient(nodes, digest, floors) ==
    \E i \in DOMAIN nodes :
       \/ ~Verifiable(nodes[i], floors)
       \/ /\ nodes[i].report.hostData = digest
          /\ nodes[i].uvm = "Outdated" \/ ~MeetsFloor(nodes[i].report, floors)

Uncovered(nodes, floors) ==
    \/ \E i \in DOMAIN nodes : ~Verifiable(nodes[i], floors)
    \/ \E i, j \in DOMAIN nodes : i # j /\ nodes[i].report.key = nodes[j].report.key

(* A node that is refused cannot be verified, and one that fails its       *)
(* attestation is refused, or agrees and is below what is required.        *)
LEMMA OutcomeGrounds ==
    ASSUME NEW node, NEW service, NEW digest, NEW floors
    PROVE  LET outcome == NodeOutcome(node, service, digest, floors)
           IN  /\ outcome.attestation = "Fail" =>
                     \/ ~Verifiable(node, floors)
                     \/ /\ node.report.hostData = digest
                        /\ node.uvm = "Outdated" \/ ~MeetsFloor(node.report, floors)
               /\ outcome.hostData = "CannotEvaluate" => ~Verifiable(node, floors)
               /\ Verifiable(node, floors) => outcome.key = node.report.key
  <1>1. VerifyNode(node, digest, floors) = "Refused" <=> ~Verifiable(node, floors)
    BY DEF VerifyNode, Verifiable
  <1>2. VerifyNode(node, digest, floors) = "Met" \/ Verifiable(node, floors) =>
            VerifyNode(node, digest, floors) # "Refused"
    BY <1>1
  <1>3. VerifyNode(node, digest, floors) \notin {"Refused", "Met"} =>
            \/ node.report.hostData # digest
            \/ node.uvm = "Outdated" \/ ~MeetsFloor(node.report, floors)
    BY DEF VerifyNode
  <1> QED BY <1>1, <1>2, <1>3 DEF NodeOutcome

LEMMA CoverageGrounds ==
    ASSUME NEW nodes \in Seq(Nodes), NEW floors, NEW outcomes,
           DOMAIN outcomes = DOMAIN nodes, Len(outcomes) = Len(nodes),
           \A i \in DOMAIN nodes : Verifiable(nodes[i], floors) =>
               /\ outcomes[i].hostData # "CannotEvaluate"
               /\ outcomes[i].key = nodes[i].report.key,
           Coverage(outcomes) = "Fail"
    PROVE  Uncovered(nodes, floors)
  <1> DEFINE key == [i \in DOMAIN nodes |-> outcomes[i].key]
             S   == {outcomes[i].key : i \in DOMAIN outcomes}
  <1>1. SUFFICES ASSUME \A i \in DOMAIN nodes : Verifiable(nodes[i], floors),
                        \A i, j \in DOMAIN nodes :
                            nodes[i].report.key = nodes[j].report.key => i = j
                 PROVE  FALSE
    BY DEF Uncovered
  <1>2. PICK n \in Nat : DOMAIN nodes = 1..n /\ Len(nodes) = n
    BY LenProperties
  <1>3. \A i \in DOMAIN nodes : /\ outcomes[i].hostData # "CannotEvaluate"
                                /\ outcomes[i].key = nodes[i].report.key
    BY <1>1
  <1>4. DOMAIN outcomes = 1..n /\ Len(outcomes) = n
    BY <1>2
  <1>5. Cardinality(S) # n
    BY <1>3, <1>4 DEF Coverage
  <1>6. key \in Surjection(1..n, S)
    BY <1>2 DEF Surjection
  <1>7. key \in Injection(1..n, S)
    <2>1. \A i, j \in 1..n : key[i] = key[j] => i = j
      BY <1>1, <1>2, <1>3
    <2> HIDE DEF key, S
    <2> QED BY <1>6, <2>1 DEF Surjection, Injection, IsInjective
  <1> HIDE DEF key, S
  <1>8. IsFiniteSet(1..n) /\ Cardinality(1..n) = n
    <2>1. IsFiniteSet(1..n) /\ Cardinality(1..n) = IF 1 > n THEN 0 ELSE n - 1 + 1
      BY FS_Interval
    <2> QED BY <2>1
  <1>9. Cardinality(S) = Cardinality(1..n)
    BY <1>6, <1>7, <1>8, FS_Surjection
  <1> QED BY <1>5, <1>8, <1>9

LEMMA CollectedLedgerFail ==
    ASSUME NEW policy \in LedgerPolicies, NEW claim \in PolicyClaims, NEW bundle,
           bundle.nodes \in Seq(Nodes)
    PROVE  LET result == AppraiseLedger(policy, claim, bundle)
               signed == {i \in DOMAIN bundle.nodes : Authenticates(bundle.nodes[i])}
           IN  /\ StateOf(result, "ledger-identity-binding") = "Fail" =>
                     \/ bundle.ledger.name # policy.host.name
                     \/ \E i \in signed :
                           /\ bundle.service # 0 /\ bundle.nodes[i].cert.kind # "None"
                           /\ \/ bundle.nodes[i].cert.kind = "Other"
                              \/ bundle.nodes[i].cert.key # bundle.nodes[i].report.key
                              \/ bundle.nodes[i].cert.issuer # bundle.service
               /\ StateOf(result, "cce-policy-host-data") = "Fail" =>
                     \E i \in signed : bundle.nodes[i].report.hostData # claim.digest
               /\ StateOf(result, "snp-uvm-validation") = "Fail" =>
                     Deficient(bundle.nodes, claim.digest, policy.floors)
               /\ StateOf(result, "node-coverage") = "Fail" =>
                     Uncovered(bundle.nodes, policy.floors)
  <1> DEFINE nodes == bundle.nodes
             outcomes == [i \in DOMAIN nodes |->
                 NodeOutcome(nodes[i], bundle.service, claim.digest, policy.floors)]
             base == IF policy.pin = 0 THEN 0 ELSE 1
             result == AppraiseLedger(policy, claim, bundle)
             signed == {i \in DOMAIN nodes : Authenticates(nodes[i])}
  <1>1. \A n \in NamesOf(ACL) : StateOf(NotAttempted(ACL), n) = "CannotEvaluate"
    BY NotAttemptedStates, AdaptersAre
  <1>2. CASE ~SameHost(policy.host, bundle.ledger)
    <2>1. result = Disagreed(ACL, "ledger-identity-binding")
      BY <1>2 DEF AppraiseLedger
    <2>2. /\ StateOf(result, "cce-policy-host-data") = "CannotEvaluate"
          /\ StateOf(result, "snp-uvm-validation") = "CannotEvaluate"
          /\ StateOf(result, "node-coverage") = "CannotEvaluate"
      BY <2>1, DisagreedStates, AdaptersAre, NamesIn
    <2> QED BY <1>2, <2>2 DEF SameHost
  <1>3. CASE result = NotAttempted(ACL)
    <2>1. /\ StateOf(result, "cce-policy-host-data") = "CannotEvaluate"
          /\ StateOf(result, "snp-uvm-validation") = "CannotEvaluate"
          /\ StateOf(result, "node-coverage") = "CannotEvaluate"
          /\ StateOf(result, "ledger-identity-binding") = "CannotEvaluate"
      BY <1>1, <1>3, NamesIn
    <2> QED BY <2>1
  <1>4. CASE SameHost(policy.host, bundle.ledger) /\ result # NotAttempted(ACL)
    <2>1. result = AppraiseNodes(bundle, claim.digest, policy.floors, base)
      BY <1>4 DEF AppraiseLedger
    <2>2. PICK notes : nodes # <<>> /\ result = Report(ACL, Aggregate(outcomes), notes)
      BY <2>1, <1>4 DEF AppraiseNodes
    <2> HIDE DEF result
    <2>3. /\ StateOf(result, "ledger-identity-binding") =
                 Roll({outcomes[i].binding : i \in DOMAIN outcomes})
          /\ StateOf(result, "cce-policy-host-data") =
                 Roll({outcomes[i].hostData : i \in DOMAIN outcomes})
          /\ StateOf(result, "snp-uvm-validation") =
                 Roll({outcomes[i].attestation : i \in DOMAIN outcomes})
          /\ StateOf(result, "node-coverage") \in {"CannotEvaluate", Coverage(outcomes)}
      <3> DEFINE state == Aggregate(outcomes)
      <3> HIDE DEF outcomes, state
      <3>1. /\ StateOf(result, "ledger-identity-binding") = state["ledger-identity-binding"]
            /\ StateOf(result, "cce-policy-host-data") = state["cce-policy-host-data"]
            /\ StateOf(result, "snp-uvm-validation") = state["snp-uvm-validation"]
            /\ StateOf(result, "node-coverage") = state["node-coverage"]
        BY <2>2, StateIs, AdaptersAre, NamesIn DEF state
      <3> QED BY <3>1, AggregateStates DEF state
    <2>4. StateOf(result, "ledger-identity-binding") = "Fail" =>
              \E i \in DOMAIN nodes : outcomes[i].binding = "Fail"
      BY <2>3, RollIs
    <2>5. StateOf(result, "cce-policy-host-data") = "Fail" =>
              \E i \in DOMAIN nodes : outcomes[i].hostData = "Fail"
      BY <2>3, RollIs
    <2>6. StateOf(result, "snp-uvm-validation") = "Fail" =>
              Deficient(nodes, claim.digest, policy.floors)
      <3>1. StateOf(result, "snp-uvm-validation") = "Fail" =>
                \E i \in DOMAIN nodes : outcomes[i].attestation = "Fail"
        BY <2>3, RollIs
      <3>2. ASSUME NEW i \in DOMAIN nodes, outcomes[i].attestation = "Fail"
            PROVE  Deficient(nodes, claim.digest, policy.floors)
        <4>1. NodeOutcome(nodes[i], bundle.service, claim.digest, policy.floors).attestation = "Fail"
          BY <3>2
        <4>2. \/ ~Verifiable(nodes[i], policy.floors)
              \/ /\ nodes[i].report.hostData = claim.digest
                 /\ \/ nodes[i].uvm = "Outdated"
                    \/ ~MeetsFloor(nodes[i].report, policy.floors)
          BY <4>1, OutcomeGrounds
        <4> QED BY <4>2 DEF Deficient
      <3> HIDE DEF outcomes
      <3> QED BY <3>1, <3>2
    <2>7. StateOf(result, "node-coverage") = "Fail" => Uncovered(nodes, policy.floors)
      <3>1. nodes \in Seq(Nodes) /\ DOMAIN outcomes = DOMAIN nodes /\ Len(outcomes) = Len(nodes)
        OBVIOUS
      <3>2. ASSUME NEW i \in DOMAIN nodes, Verifiable(nodes[i], policy.floors)
            PROVE  /\ outcomes[i].hostData # "CannotEvaluate"
                   /\ outcomes[i].key = nodes[i].report.key
        <4>1. outcomes[i] = NodeOutcome(nodes[i], bundle.service, claim.digest, policy.floors)
          OBVIOUS
        <4> QED BY <3>2, <4>1, OutcomeGrounds
      <3> HIDE DEF outcomes, nodes
      <3>3. Coverage(outcomes) = "Fail" => Uncovered(nodes, policy.floors)
        BY <3>1, <3>2, CoverageGrounds
      <3> QED BY <2>3, <3>3
    <2>8. ASSUME NEW i \in DOMAIN nodes
          PROVE  /\ outcomes[i].binding = "Fail" =>
                       Authenticates(nodes[i]) /\ AssessBinding(nodes[i], bundle.service) = "Fail"
                 /\ outcomes[i].hostData = "Fail" =>
                       Authenticates(nodes[i]) /\ nodes[i].report.hostData # claim.digest
      BY DEF NodeOutcome, VerifyNode
    <2>9. ASSUME NEW i \in DOMAIN nodes, AssessBinding(nodes[i], bundle.service) = "Fail"
          PROVE  /\ bundle.service # 0 /\ nodes[i].cert.kind # "None"
                 /\ \/ nodes[i].cert.kind = "Other"
                    \/ nodes[i].cert.key # nodes[i].report.key
                    \/ nodes[i].cert.issuer # bundle.service
      <3>0. nodes[i] \in Nodes
        BY ElementOfSeq, LenProperties
      <3>1. nodes[i].cert.kind \in {"None", "One", "Other"}
        BY <3>0 DEF Nodes, NodeCertificates
      <3> QED BY <2>9, <3>1 DEF AssessBinding, VerifyBinding
    <2> HIDE DEF outcomes
    <2> QED BY <2>4, <2>5, <2>6, <2>7, <2>8, <2>9 DEF result
  <1> QED BY <1>2, <1>3, <1>4

Refuted(keys) == \E i \in DOMAIN keys : keys[i].kind # "Ordinary" /\ ~Authentic(keys[i])

LEMMA KeySetFail ==
    ASSUME NEW target, NEW claim, NEW evidence, evidence.keys \in Seq(Keys), NEW saved
    PROVE  LET result == AppraiseAttestation(target, claim, evidence, saved)
               keys   == evidence.keys
           IN  /\ StateOf(result, "cce-policy-host-data") = "Fail" =>
                     \E i \in DOMAIN keys : Authentic(keys[i]) /\ keys[i].hostData # claim.digest
               /\ StateOf(result, "snp-validation") = "Fail" => Refuted(keys)
               /\ StateOf(result, "maa-certificate-coverage") = "Fail" =>
                     evidence.current /\ (Refuted(keys) \/ Len(keys) \notin 1..MaxKeys)
  <1> DEFINE keys   == evidence.keys
             result == AppraiseAttestation(target, claim, evidence, saved)
             state  == AppraiseKeys(keys, claim.digest)
             notes  == AttestationNotes(keys, saved)
  <1>1. CASE ~Valid(evidence, target)
    <2>1. result = NotAttempted(MAA)
      BY <1>1 DEF AppraiseAttestation
    <2>2. \A n \in NamesOf(MAA) : StateOf(result, n) = "CannotEvaluate"
      BY <2>1, NotAttemptedStates, AdaptersAre
    <2> HIDE DEF result
    <2>3. /\ StateOf(result, "cce-policy-host-data") = "CannotEvaluate"
          /\ StateOf(result, "snp-validation") = "CannotEvaluate"
          /\ StateOf(result, "maa-certificate-coverage") = "CannotEvaluate"
      BY <2>2, NamesIn
    <2> QED BY <2>3 DEF result
  <1>2. CASE Valid(evidence, target)
    <2>1. result = Report(MAA, state, notes)
      BY <1>2 DEF AppraiseAttestation
    <2> HIDE DEF state, notes
    <2>2. /\ StateOf(result, "cce-policy-host-data") = state["cce-policy-host-data"]
          /\ StateOf(result, "snp-validation") = state["snp-validation"]
          /\ StateOf(result, "maa-certificate-coverage") = state["maa-certificate-coverage"]
      BY <2>1, StateIs, AdaptersAre, NamesIn
    <2>3. /\ state["cce-policy-host-data"] = "Fail" => "Fail" \in HostData(keys, claim.digest)
          /\ state["snp-validation"] = "Fail" => "Fail" \in Validation(keys)
          /\ state["maa-certificate-coverage"] = "Fail" =>
                ~UsableKeySet(keys) \/ "Fail" \in CertificateCoverage(keys)
      BY KeyStates, RollIs DEF state
    <2>4. "Fail" \in HostData(keys, claim.digest) =>
              \E i \in DOMAIN keys : Authentic(keys[i]) /\ keys[i].hostData # claim.digest
      BY DEF HostData
    <2>5. "Fail" \in Validation(keys) => Refuted(keys)
      BY DEF Validation, Bears, Refuted
    <2>6. "Fail" \in CertificateCoverage(keys) => "Fail" \in Validation(keys)
      BY DEF CertificateCoverage
    <2>7. evidence.current
      BY <1>2 DEF Valid
    <2> QED BY <2>2, <2>3, <2>4, <2>5, <2>6, <2>7 DEF UsableKeySet
  <1> QED BY <1>1, <1>2

LEMMA SuppliedRebuildFail ==
    ASSUME NEW policy, NEW claim, NEW published, NEW rebuilt
    PROVE  LET result == AppraiseRebuild(policy, claim, published, rebuilt)
           IN  /\ StateOf(result, "rebuild-layers") = "Fail" => published.layers # rebuilt.layers
               /\ StateOf(result, "rebuild-inputs") = "Fail" =>
                     \/ published.claimed # rebuilt.claimed
                     \/ published.other # rebuilt.other
               /\ ( \/ StateOf(result, "rebuild-layers") = "Fail"
                    \/ StateOf(result, "rebuild-inputs") = "Fail" ) =>
                     /\ published.bytes = claim.record /\ rebuilt.form = "Record"
                     /\ rebuilt.claimed # 0 /\ rebuilt.other # 0
               /\ StateOf(result, "record-binding") = "Fail" => published.form # "Absent"
  <1> DEFINE result == AppraiseRebuild(policy, claim, published, rebuilt)
             state  == AppraiseRecords(policy, claim, published, rebuilt)
             notes  == RebuildNotes(claim, published, rebuilt)
             ready  == Binding(claim, published) = "Pass" /\ Comparable(published, rebuilt)
  <1>1. CASE result = Report(REPRO, state, notes)
    <2> HIDE DEF state, notes, result
    <2>1. /\ StateOf(result, "rebuild-layers") = state["rebuild-layers"]
          /\ StateOf(result, "rebuild-inputs") = state["rebuild-inputs"]
          /\ StateOf(result, "record-binding") = state["record-binding"]
      BY <1>1, StateIs, AdaptersAre, NamesIn
    <2>2. /\ state["rebuild-layers"] = "Fail" => ready /\ ~SameLayers(published, rebuilt)
          /\ state["rebuild-inputs"] = "Fail" => ready /\ ~SameInputs(published, rebuilt)
          /\ state["record-binding"] = "Fail" => Binding(claim, published) = "Fail"
      BY RecordStates DEF state, Compared
    <2>3. /\ ready => /\ published.bytes = claim.record /\ rebuilt.form = "Record"
                      /\ rebuilt.claimed # 0 /\ rebuilt.other # 0
          /\ Binding(claim, published) = "Fail" => published.form # "Absent"
      BY DEF Binding, Comparable, HasInputs
    <2>4. /\ SameLayers(published, rebuilt) <=> published.layers = rebuilt.layers
          /\ SameInputs(published, rebuilt) <=> /\ published.claimed = rebuilt.claimed
                                               /\ published.other = rebuilt.other
      BY DEF SameLayers, SameInputs
    <2> HIDE DEF ready
    <2> QED BY <2>1, <2>2, <2>3, <2>4 DEF result
  <1>2. CASE result # Report(REPRO, state, notes)
    <2>1. \/ result = NotAttempted(REPRO)
          \/ result = Report(REPRO, Unevaluated(REPRO), 0)
          \/ result = Report(REPRO, [Unevaluated(REPRO) EXCEPT
                                        !["reproduction-claim"] = ClaimState(claim, policy)], 0)
      BY <1>2 DEF AppraiseRebuild
    <2> HIDE DEF result
    <2>2. PICK early, n : /\ result = Report(REPRO, early, n)
                          /\ early["rebuild-layers"] = "CannotEvaluate"
                          /\ early["rebuild-inputs"] = "CannotEvaluate"
                          /\ early["record-binding"] = "CannotEvaluate"
      BY <2>1, NamesIn DEF NotAttempted, Unevaluated
    <2>3. /\ StateOf(result, "rebuild-layers") = "CannotEvaluate"
          /\ StateOf(result, "rebuild-inputs") = "CannotEvaluate"
          /\ StateOf(result, "record-binding") = "CannotEvaluate"
      BY <2>2, StateIs, AdaptersAre, NamesIn
    <2> QED BY <2>3 DEF result
  <1> QED BY <1>1, <1>2

LEMMA SuppliedDeviceFail ==
    ASSUME NEW policy, NEW bom, NEW report, NEW vcek, NEW chain, NEW nonce,
           report.file \in Files, vcek.file \in Files
    PROVE  LET result == AppraiseDevice(policy, bom, report, vcek, chain, nonce)
               failed(check) == StateOf(result, check) = "Fail"
           IN  /\ failed("tcb-floor") \/ failed("freshness") \/ failed("device-binding") =>
                     report.file = "Given" /\ report.genuine /\ vcek.file = "Given"
               /\ failed("freshness") => nonce.form = "Fits" /\ nonce.value # 0
               /\ failed("snp-report") => "Missing" \notin {report.file, vcek.file}
  <1> DEFINE result == AppraiseDevice(policy, bom, report, vcek, chain, nonce)
             state  == AppraiseSupplied(policy, bom, report, vcek, chain, nonce)
             authenticated == ReportState(report, vcek, chain) = "Pass"
             notes  == IF authenticated THEN 1 ELSE 0
  <1>1. CASE /\ result = Report(SNP, state, notes)
             /\ "Unusable" \notin {report.file, vcek.file, chain, nonce.form}
    <2> HIDE DEF state, notes, result
    <2>1. /\ StateOf(result, "tcb-floor") = state["tcb-floor"]
          /\ StateOf(result, "freshness") = state["freshness"]
          /\ StateOf(result, "device-binding") = state["device-binding"]
          /\ StateOf(result, "snp-report") = state["snp-report"]
      BY <1>1, StateIs, AdaptersAre, NamesIn
    <2>2. /\ state["tcb-floor"] = "Fail" => authenticated
          /\ state["freshness"] = "Fail" => authenticated /\ Freshness(report, nonce) = "Fail"
          /\ state["device-binding"] = "Fail" => authenticated
          /\ state["snp-report"] = ReportState(report, vcek, chain)
      BY DeviceStates DEF state
    <2>3. /\ authenticated => /\ report.file = "Given" /\ report.genuine
                              /\ vcek.file = "Given"
          /\ ReportState(report, vcek, chain) = "Fail" => "Missing" \notin {report.file, vcek.file}
      BY <1>1 DEF ReportState, Files
    <2>4. Freshness(report, nonce) = "Fail" => nonce.form = "Fits" /\ nonce.value # 0
      BY DEF Freshness
    <2> HIDE DEF authenticated
    <2> QED BY <2>1, <2>2, <2>3, <2>4 DEF result, authenticated
  <1>2. CASE result = NotAttempted(SNP) \/ result = Report(SNP, Unevaluated(SNP), 0)
    <2> HIDE DEF result
    <2>1. PICK n : result = Report(SNP, Unevaluated(SNP), n)
      BY <1>2 DEF NotAttempted
    <2>2. /\ StateOf(result, "tcb-floor") = "CannotEvaluate"
          /\ StateOf(result, "freshness") = "CannotEvaluate"
          /\ StateOf(result, "device-binding") = "CannotEvaluate"
          /\ StateOf(result, "snp-report") = "CannotEvaluate"
      BY <2>1, StateIs, AdaptersAre, NamesIn DEF Unevaluated
    <2> QED BY <2>2 DEF result
  <1> QED BY <1>1, <1>2 DEF AppraiseDevice

-----------------------------------------------------------------------------
(* The inductive invariant.  Each part is about one run, its request and   *)
(* the workload, so that a step of one run leaves the others' alone.       *)

(* Where a run of a request can be, and what had to hold for it to begin.  *)
Underway(q, s) ==
    s.pc \notin {"Start", "Done", "Killed"} =>
        /\ q.adapter \in {ACL, MAA} /\ q.accepted /\ ClaimUsable(q.claim)
        /\ q.adapter = ACL => PinMet(q.policy, q.claim)
        /\ s.pc \in {"Identity", "Quotes", "Nodes"}   => q.adapter = ACL /\ q.live
        /\ s.pc = "Certs"                             => q.adapter = MAA /\ q.live
        /\ s.pc \in {"Manifest", "Service", "Load"}   => q.adapter = ACL /\ ~q.live
        /\ s.pc = "KeySet"                            => q.adapter = MAA /\ ~q.live
        /\ s.pc = "Save"                              => q.live

(* What the assessment of a run that is over is an assessment of.          *)
Settled(q, s) ==
    s.pc = "Done" =>
        \/ /\ s.result = NotAttempted(q.adapter)
           /\ s.bundle = NoBundle /\ s.keyset = NoKeySet
        \/ /\ q.adapter = ACL /\ q.accepted
           /\ ~ClaimUsable(q.claim) \/ ~PinMet(q.policy, q.claim)
           /\ s.result = BeforeEvidence(q.policy, q.claim) /\ s.bundle = NoBundle
        \/ /\ q.adapter = ACL /\ q.accepted
           /\ ClaimUsable(q.claim) /\ PinMet(q.policy, q.claim)
           /\ s.bundle.nodes # <<>>
           /\ s.result = AppraiseLedger(q.policy, q.claim, s.bundle)
        \/ /\ q.adapter = MAA /\ q.accepted /\ ClaimUsable(q.claim)
           /\ s.result = AppraiseAttestation(Target(q.policy, q.endpoint), q.claim, s.keyset,
                                             ~q.live)
        \/ /\ q.adapter \in {REPRO, SNP} /\ q.accepted
           /\ s.result = AppraiseGiven(q)

(* The clock of a collection, and the end of the request in flight.        *)
Asking == {"Identity", "Quotes", "Nodes", "Certs"}
Limit(s) == IF s.pc = "Certs" THEN RequestTimeout ELSE TotalDeadline
Timely(s) ==
    /\ s.pc \in Asking => s.clock <= Limit(s) /\ s.until <= Limit(s)
    /\ s.pc = "Certs" /\ s.until = 0 => s.clock = 0
    /\ s.until # 0 => s.pc \in Asking

(* The place of a run in the files it writes or reads.                     *)
Placed(s) ==
    /\ s.pc \notin {"Save", "Load"} => s.node = 1 /\ s.part = 1
    /\ s.pc = "Save" => s.node >= 1 /\ (s.node <= Len(s.bundle.nodes) => s.part \in 1..4)
    /\ s.pc = "Load" => /\ s.node \in DOMAIN s.manifest.nodes /\ s.part \in 1..4
                        /\ Len(s.bundle.nodes) = Len(s.manifest.nodes)

(* Where the nodes of a bundle come from.                                  *)
FromOne(w, now, b) ==
    \E i \in 1..now : w.worlds[i].service = b.service /\ b.nodes = w.worlds[i].quotes
FromTwo(w, b) ==
    \E i \in DOMAIN w.worlds : \E j \in i..Len(w.worlds) :
        /\ w.worlds[i].service = b.service /\ w.worlds[j].service = b.service
        /\ b.nodes = Joined(w.worlds[i].quotes, w.worlds[j].listing)
RecordedIn(w) == IF ManifestFile \in DOMAIN w.files THEN {w.files[ManifestFile].value} ELSE {}
AllDigested(w) == \A m \in RecordedIn(w) : m.digested
Known(w) == {Joined(w.worlds[i].quotes, w.worlds[j].listing) :
                i \in DOMAIN w.worlds, j \in DOMAIN w.worlds}
            \cup {m.nodes : m \in RecordedIn(w)}

Gathered(w, now, q, s) ==
    /\ s.pc = "Nodes" => FromOne(w, now, s.bundle)
    /\ s.pc \in {"Save", "Judge"} /\ q.adapter = ACL => s.bundle.nodes # <<>>
    /\ s.pc \in {"Save", "Judge", "Done"} /\ q.adapter = ACL /\ s.bundle # NoBundle =>
           IF q.live THEN FromTwo(w, s.bundle)
           ELSE AllDigested(w) => s.bundle.nodes \in Known(w)
    /\ s.pc \in {"Service", "Load"} =>
           /\ s.manifest.nodes # <<>> /\ Len(s.bundle.nodes) = Len(s.manifest.nodes)
           /\ AllDigested(w) => /\ s.manifest.digested /\ s.manifest.nodes \in Known(w)
                                /\ s.bundle.nodes = s.manifest.nodes

Good(w, now, q, s) == /\ Underway(q, s) /\ Settled(q, s) /\ Timely(s) /\ Placed(s)
                      /\ Gathered(w, now, q, s)

(* A manifest in the directory lists the nodes of one collection.          *)
Kept(w, fs) == AllDigested(w) /\ ManifestFile \in DOMAIN fs =>
                   fs[ManifestFile].value.digested /\ fs[ManifestFile].value.nodes \in Known(w)

IInv == /\ TypeOK
        /\ Kept(work, files)
        /\ \A r \in DOMAIN run : Good(work, serving, Asked(r), run[r])

-----------------------------------------------------------------------------
LEMMA EmptyTyped ==
    /\ NoHost \in Hosts /\ NoBundle \in Bundles /\ NoKeySet \in KeySets
    /\ NoManifest \in Manifests /\ NoResource \in Assessments
  <1>1. NoHost \in Hosts
    BY DEF NoHost, Hosts, HostForms
  <1>2. NoResource \in Assessments
    BY DEF NoResource, Assessments
  <1> QED
    BY <1>1, <1>2 DEF NoBundle, Bundles, NoKeySet, KeySets, NoManifest, Manifests

LEMMA FreshTyped == Fresh \in RunStates
  BY EmptyTyped DEF Fresh, RunStates, PCs

LEMMA AskedTyped ==
    ASSUME IInv, NEW r \in DOMAIN run
    PROVE  /\ Asked(r) \in Requests /\ Asked(r).adapter \in Adapters
           /\ run[r] \in RunStates /\ Good(work, serving, Asked(r), run[r])
  <1>1. Asked(r) \in Requests
    BY WorkloadsAssumption DEF IInv, TypeOK, Asked
  <1>2. Asked(r).adapter \in Adapters
    BY <1>1, AdaptersAre DEF Requests, LedgerRequests, KeysRequests, RebuildRequests,
                             DeviceRequests
  <1> QED BY <1>1, <1>2 DEF IInv, TypeOK

(* What kind of request an adapter answers.                                *)
LEMMA LedgerAsked ==
    ASSUME NEW q \in Requests, q.adapter = ACL
    PROVE  q \in LedgerRequests /\ (q.save => q.live)
  BY DEF Requests, KeysRequests, RebuildRequests, DeviceRequests, ACL, MAA, REPRO, SNP

LEMMA KeysAsked ==
    ASSUME NEW q \in Requests, q.adapter = MAA
    PROVE  q \in KeysRequests /\ (q.save => q.live) /\ (q.live <=> q.endpoint # NoHost)
  BY DEF Requests, LedgerRequests, RebuildRequests, DeviceRequests, ACL, MAA, REPRO, SNP

LEMMA RebuildAsked ==
    ASSUME NEW q \in Requests, q.adapter = REPRO
    PROVE  q \in RebuildRequests
  BY DEF Requests, LedgerRequests, KeysRequests, DeviceRequests, ACL, MAA, REPRO, SNP

LEMMA DeviceAsked ==
    ASSUME NEW q \in Requests, q.adapter = SNP
    PROVE  q \in DeviceRequests
  BY DEF Requests, LedgerRequests, KeysRequests, RebuildRequests, ACL, MAA, REPRO, SNP

(* A step of one run keeps the invariant when it keeps that run's part and *)
(* the directory's.                                                        *)
LEMMA OneMoves ==
    ASSUME IInv, NEW r \in DOMAIN run, NEW s \in RunStates, Becomes(r, s),
           Good(work, serving, Asked(r), s), UNCHANGED <<work, serving>>,
           Directory(files'), Kept(work, files')
    PROVE  IInv'
  <1>1. run' = [run EXCEPT ![r] = s] /\ DOMAIN run = DOMAIN work.requests
    BY DEF Becomes, IInv, TypeOK
  <1>2. run' \in [DOMAIN work.requests -> RunStates]
    BY <1>1 DEF IInv, TypeOK
  <1>3. RunStates' = RunStates
    BY DEF RunStates
  <1>4. TypeOK'
    BY <1>2, <1>3 DEF IInv, TypeOK
  <1>5. ASSUME NEW t \in DOMAIN run' PROVE Good(work, serving, Asked(t), run'[t])
    BY <1>1 DEF IInv
  <1>6. \A t : Asked(t)' = Asked(t)
    BY DEF Asked
  <1>7. \A t \in DOMAIN run' : Good(work', serving', Asked(t)', run'[t])
    BY <1>5, <1>6
  <1>8. Kept(work', files')
    OBVIOUS
  <1> QED BY <1>4, <1>7, <1>8 DEF IInv

LEMMA Ends ==
    ASSUME IInv, NEW r \in DOMAIN run,
           NEW result \in Assessments, NEW bundle \in Bundles, NEW keyset \in KeySets,
           Conclude(r, result, bundle, keyset),
           Good(work, serving, Asked(r), [Fresh EXCEPT !.pc = "Done", !.result = result,
                    !.bundle = bundle, !.keyset = keyset, !.after = run[r].after]),
           UNCHANGED <<work, serving>>, Directory(files'), Kept(work, files')
    PROVE  IInv'
  <1> DEFINE s == [Fresh EXCEPT !.pc = "Done", !.result = result, !.bundle = bundle,
                                !.keyset = keyset, !.after = run[r].after]
  <1>1. s \in RunStates
    BY FreshTyped, AskedTyped DEF RunStates, PCs
  <1>2. Becomes(r, s)
    BY DEF Conclude
  <1> HIDE DEF s
  <1> QED BY <1>1, <1>2, OneMoves DEF s

LEMMA OverIsGood ==
    ASSUME NEW w, NEW now, NEW q, NEW result, NEW bundle, NEW keyset, NEW after, NEW s,
           s = [Fresh EXCEPT !.pc = "Done", !.result = result, !.bundle = bundle,
                             !.keyset = keyset, !.after = after],
           Settled(q, s),
           q.adapter = ACL /\ bundle # NoBundle =>
               IF q.live THEN FromTwo(w, bundle) ELSE AllDigested(w) => bundle.nodes \in Known(w)
    PROVE  Good(w, now, q, s)
  <1>1. /\ s.pc = "Done" /\ s.bundle = bundle /\ s.node = 1 /\ s.part = 1
        /\ s.clock = 0 /\ s.until = 0
    BY DEF Fresh
  <1>2. Underway(q, s) /\ Timely(s) /\ Placed(s)
    BY <1>1 DEF Underway, Timely, Asking, Placed
  <1>3. Gathered(w, now, q, s)
    BY <1>1 DEF Gathered
  <1> QED BY <1>2, <1>3 DEF Good

LEMMA SameFiles ==
    ASSUME IInv, UNCHANGED <<work, files>>
    PROVE  Directory(files') /\ Kept(work, files')
  BY DEF IInv, TypeOK

LEMMA RefuseEnds ==
    ASSUME IInv, NEW r \in DOMAIN run, Refuse(r), UNCHANGED <<work, serving>>,
           Directory(files'), Kept(work, files')
    PROVE  IInv'
  <1> DEFINE q == Asked(r)
             result == NotAttempted(q.adapter)
             s == [Fresh EXCEPT !.pc = "Done", !.result = result, !.bundle = NoBundle,
                                !.keyset = NoKeySet, !.after = run[r].after]
  <1>1. result \in Assessments
    BY AskedTyped, NotAttemptedTyped
  <1>2. Conclude(r, result, NoBundle, NoKeySet)
    BY DEF Refuse
  <1> HIDE DEF result
  <1>3. s.result = result /\ s.bundle = NoBundle /\ s.keyset = NoKeySet
    BY DEF Fresh
  <1>4. Settled(q, s)
    BY <1>3 DEF Settled, result
  <1>5. Good(work, serving, q, s)
    BY <1>4, OverIsGood
  <1> QED BY <1>1, <1>2, <1>5, EmptyTyped, Ends

-----------------------------------------------------------------------------
(* The actions, one by one.                                                *)
LEMMA EnterKeeps ==
    ASSUME IInv, NEW r \in DOMAIN run, NEW pc \in PCs, Enter(r, pc),
           UNCHANGED <<work, serving, files>>,
           pc \in {"Identity", "Certs", "Manifest", "KeySet"},
           Underway(Asked(r), [pc |-> pc])
    PROVE  IInv'
  <1> DEFINE s == [Fresh EXCEPT !.pc = pc, !.after = IF Asked(r).live THEN {} ELSE Over]
  <1>1. /\ s.pc = pc /\ s.clock = 0 /\ s.until = 0 /\ s.node = 1 /\ s.part = 1
    BY DEF Fresh
  <1>2. s \in RunStates
    <2>1. Over \in SUBSET DOMAIN work.requests
      BY DEF Over, IInv, TypeOK
    <2> QED BY <2>1, FreshTyped DEF RunStates
  <1>3. Becomes(r, s)
    BY DEF Enter
  <1> HIDE DEF s
  <1>4. Underway(Asked(r), s)
    BY <1>1 DEF Underway
  <1>5. Settled(Asked(r), s) /\ Placed(s) /\ Gathered(work, serving, Asked(r), s)
    BY <1>1 DEF Settled, Placed, Gathered
  <1>6. Timely(s)
    BY <1>1, BoundsAssumption DEF Timely, Asking, Limit
  <1>7. Good(work, serving, Asked(r), s)
    BY <1>4, <1>5, <1>6 DEF Good
  <1> QED BY <1>2, <1>3, <1>7, OneMoves, SameFiles

LEMMA BeginLedgerKeeps ==
    ASSUME IInv, NEW r \in DOMAIN run, BeginLedger(r)
    PROVE  IInv'
  <1> DEFINE q == Asked(r)
  <1>1. q.adapter = ACL /\ UNCHANGED <<work, serving, files>>
    BY DEF BeginLedger
  <1>2. CASE Refuse(r)
    BY <1>1, <1>2, RefuseEnds, SameFiles
  <1>3. CASE /\ Accepted(r) /\ (~ClaimUsable(q.claim) \/ ~PinMet(q.policy, q.claim))
             /\ Conclude(r, BeforeEvidence(q.policy, q.claim), NoBundle, NoKeySet)
    <2> DEFINE result == BeforeEvidence(q.policy, q.claim)
               s == [Fresh EXCEPT !.pc = "Done", !.result = result, !.bundle = NoBundle,
                                  !.keyset = NoKeySet, !.after = run[r].after]
    <2>1. q \in LedgerRequests
      BY <1>1, AskedTyped, LedgerAsked
    <2>2. NoBundle.nodes \in Seq(Nodes)
      BY DEF NoBundle
    <2>3. result \in Assessments
      BY <2>1, <2>2, LedgerTyped DEF LedgerRequests
    <2> HIDE DEF result
    <2>4. s.result = result /\ s.bundle = NoBundle
      BY DEF Fresh
    <2>5. Settled(q, s)
      BY <1>1, <1>3, <2>4 DEF Settled, Accepted, result
    <2>6. Good(work, serving, q, s)
      BY <2>5, OverIsGood
    <2>7. Conclude(r, result, NoBundle, NoKeySet)
      BY <1>3 DEF result
    <2> QED BY <1>1, <2>3, <2>6, <2>7, EmptyTyped, Ends, SameFiles
  <1>4. CASE /\ Accepted(r) /\ ClaimUsable(q.claim) /\ PinMet(q.policy, q.claim)
             /\ IF q.live THEN Enter(r, "Identity") ELSE Enter(r, "Manifest")
    <2>1. q.live \in BOOLEAN
      BY <1>1, AskedTyped, LedgerAsked DEF LedgerRequests
    <2>2. CASE q.live
      BY <1>1, <1>4, <2>2, EnterKeeps DEF Underway, Accepted, PCs
    <2>3. CASE ~q.live
      BY <1>1, <1>4, <2>3, EnterKeeps DEF Underway, Accepted, PCs
    <2> QED BY <2>1, <2>2, <2>3
  <1> QED BY <1>2, <1>3, <1>4 DEF BeginLedger

LEMMA BeginAttestationKeeps ==
    ASSUME IInv, NEW r \in DOMAIN run, BeginAttestation(r)
    PROVE  IInv'
  <1> DEFINE q == Asked(r)
  <1>1. q.adapter = MAA /\ UNCHANGED <<work, serving, files>>
    BY DEF BeginAttestation
  <1>2. CASE Refuse(r)
    BY <1>1, <1>2, RefuseEnds, SameFiles
  <1>3. CASE /\ Accepted(r) /\ ClaimUsable(q.claim)
             /\ Enter(r, IF q.live THEN "Certs" ELSE "KeySet")
    <2>1. q.live \in BOOLEAN
      BY <1>1, AskedTyped, KeysAsked DEF KeysRequests
    <2>2. ACL # MAA
      BY DEF ACL, MAA
    <2>3. CASE q.live
      BY <1>1, <1>3, <2>2, <2>3, EnterKeeps DEF Underway, Accepted, PCs
    <2>4. CASE ~q.live
      BY <1>1, <1>3, <2>2, <2>4, EnterKeeps DEF Underway, Accepted, PCs
    <2> QED BY <2>1, <2>3, <2>4
  <1> QED BY <1>2, <1>3 DEF BeginAttestation

LEMMA BeginSuppliedKeeps ==
    ASSUME IInv, NEW r \in DOMAIN run, BeginSupplied(r)
    PROVE  IInv'
  <1> DEFINE q == Asked(r)
  <1>1. q.adapter \in {REPRO, SNP} /\ UNCHANGED <<work, serving, files>>
    BY DEF BeginSupplied
  <1>2. CASE Refuse(r)
    BY <1>1, <1>2, RefuseEnds, SameFiles
  <1>3. CASE Accepted(r) /\ Conclude(r, AppraiseGiven(q), NoBundle, NoKeySet)
    <2> DEFINE result == AppraiseGiven(q)
               s == [Fresh EXCEPT !.pc = "Done", !.result = result, !.bundle = NoBundle,
                                  !.keyset = NoKeySet, !.after = run[r].after]
    <2>1. result \in Assessments
      BY RebuildTyped, DeviceTyped DEF AppraiseGiven
    <2> HIDE DEF result
    <2>2. s.result = result /\ s.bundle = NoBundle
      BY DEF Fresh
    <2>3. Settled(q, s)
      BY <1>1, <1>3, <2>2 DEF Settled, Accepted, result
    <2>4. Good(work, serving, q, s)
      BY <2>3, OverIsGood
    <2>5. Conclude(r, result, NoBundle, NoKeySet)
      BY <1>3 DEF result
    <2> QED BY <1>1, <2>1, <2>4, <2>5, EmptyTyped, Ends, SameFiles
  <1> QED BY <1>2, <1>3 DEF BeginSupplied

LEMMA CollectingFacts ==
    ASSUME IInv, NEW r \in DOMAIN run, InFlight(r) \/ Collecting(r)
    PROVE  /\ run[r] \in RunStates /\ run[r].pc \in Asking
           /\ run[r].node = 1 /\ run[r].part = 1
           /\ Asked(r).live /\ Asked(r).accepted /\ ClaimUsable(Asked(r).claim)
           /\ Asked(r).adapter = ACL => PinMet(Asked(r).policy, Asked(r).claim)
           /\ Asked(r).adapter = IF run[r].pc = "Certs" THEN MAA ELSE ACL
           /\ Timely(run[r])
  <1>1. run[r] \in RunStates /\ Good(work, serving, Asked(r), run[r])
    BY AskedTyped
  <1>2. run[r].pc \in Asking
    BY <1>1 DEF InFlight, Collecting, Good, Timely, Asking
  <1> QED BY <1>1, <1>2 DEF Good, Underway, Placed, Timely, Asking

LEMMA AskKeeps ==
    ASSUME IInv, NEW r \in DOMAIN run, Ask(r)
    PROVE  IInv'
  <1>1. Collecting(r) /\ UNCHANGED <<work, serving, files>> /\ run[r].until = 0
    BY DEF Ask, InFlight
  <1>2. CASE Refuse(r)
    BY <1>1, <1>2, RefuseEnds, SameFiles
  <1>3. CASE /\ ~(Budget(r) <= 0)
             /\ Becomes(r, [run[r] EXCEPT !.until = run[r].clock + Budget(r)])
    <2> DEFINE s == [run[r] EXCEPT !.until = run[r].clock + Budget(r)]
    <2>1. run[r] \in RunStates /\ run[r].pc \in Asking /\ Timely(run[r])
      BY <1>1, CollectingFacts
    <2>2. run[r].clock \in Nat
      BY <2>1 DEF RunStates
    <2>3. /\ Budget(r) \in Int /\ run[r].clock + Budget(r) \in Nat
          /\ run[r].clock + Budget(r) <= Limit(run[r])
      BY <1>1, <1>3, <2>1, <2>2, BoundsAssumption DEF Budget, Is, Timely, Limit
    <2>4. s \in RunStates
      BY <2>1, <2>3 DEF RunStates
    <2>5. /\ s.pc = run[r].pc /\ s.clock = run[r].clock /\ s.node = run[r].node
          /\ s.part = run[r].part /\ s.bundle = run[r].bundle
          /\ s.until = run[r].clock + Budget(r)
      BY <2>1 DEF RunStates
    <2>6. s.pc \notin {"Save", "Judge", "Done", "Service", "Load"}
      BY <2>1, <2>5 DEF Asking
    <2>7. Good(work, serving, Asked(r), run[r])
      BY AskedTyped
    <2> HIDE DEF s
    <2>8. Limit(s) = Limit(run[r])
      BY <2>5 DEF Limit
    <2>9. Timely(s)
      BY <1>3, <2>1, <2>2, <2>3, <2>5, <2>8 DEF Timely
    <2>10. Good(work, serving, Asked(r), s)
      BY <2>5, <2>6, <2>7, <2>9 DEF Good, Underway, Settled, Placed, Gathered
    <2> QED BY <1>1, <1>3, <2>4, <2>10, OneMoves, SameFiles DEF s
  <1> QED BY <1>2, <1>3 DEF Ask

LEMMA TickKeeps ==
    ASSUME IInv, NEW r \in DOMAIN run, Tick(r)
    PROVE  IInv'
  <1> DEFINE s == [run[r] EXCEPT !.clock = @ + 1]
  <1>1. /\ InFlight(r) /\ run[r].clock < run[r].until /\ Becomes(r, s)
        /\ UNCHANGED <<work, serving, files>>
    BY DEF Tick
  <1>2. run[r] \in RunStates /\ run[r].pc \in Asking /\ Timely(run[r])
    BY <1>1, CollectingFacts
  <1>3. run[r].clock \in Nat /\ run[r].until \in Nat
    BY <1>2 DEF RunStates
  <1>4. s \in RunStates
    BY <1>2, <1>3 DEF RunStates
  <1>5. /\ s.pc = run[r].pc /\ s.clock = run[r].clock + 1 /\ s.node = run[r].node
        /\ s.part = run[r].part /\ s.bundle = run[r].bundle /\ s.until = run[r].until
    BY <1>2 DEF RunStates
  <1>6. s.pc \notin {"Save", "Judge", "Done", "Service", "Load"}
    BY <1>2, <1>5 DEF Asking
  <1>7. Good(work, serving, Asked(r), run[r])
    BY AskedTyped
  <1> HIDE DEF s
  <1>8. Limit(s) = Limit(run[r]) /\ Limit(s) \in Nat
    BY <1>5, BoundsAssumption DEF Limit
  <1>9. Timely(s)
    BY <1>1, <1>2, <1>3, <1>5, <1>8 DEF Timely, InFlight
  <1>10. Good(work, serving, Asked(r), s)
    BY <1>5, <1>6, <1>7, <1>9 DEF Good, Underway, Settled, Placed, Gathered
  <1> QED BY <1>1, <1>4, <1>10, OneMoves, SameFiles

LEMMA RefusalsKeep ==
    ASSUME IInv, NEW r \in DOMAIN run, Expire(r) \/ RequestFails(r)
    PROVE  IInv'
  BY RefuseEnds, SameFiles DEF Expire, RequestFails

LEMMA WorldsTyped ==
    ASSUME IInv
    PROVE  /\ work.worlds \in Seq(Worlds) /\ serving \in 1..Len(work.worlds)
           /\ Len(work.worlds) \in Nat
           /\ \A i \in 1..Len(work.worlds) : work.worlds[i] \in Worlds
  <1>1. work.worlds \in Seq(Worlds) /\ serving \in DOMAIN work.worlds
    BY WorkloadsAssumption DEF IInv, TypeOK
  <1> QED BY <1>1, LenProperties, ElementOfSeq

LEMMA IdentityAnsweredKeeps ==
    ASSUME IInv, NEW r \in DOMAIN run, IdentityAnswered(r)
    PROVE  IInv'
  <1>1. /\ run[r].pc = "Identity" /\ InFlight(r) /\ UNCHANGED <<work, serving, files>>
    BY DEF IdentityAnswered, Is
  <1>2. PICK published \in 1..serving :
            Becomes(r, [run[r] EXCEPT !.pc = "Quotes", !.until = 0,
                !.bundle = [NoBundle EXCEPT !.ledger = Asked(r).policy.host,
                                            !.service = work.worlds[published].service]])
    BY DEF IdentityAnswered
  <1> DEFINE b == [NoBundle EXCEPT !.ledger = Asked(r).policy.host,
                                   !.service = work.worlds[published].service]
             s == [run[r] EXCEPT !.pc = "Quotes", !.until = 0, !.bundle = b]
  <1>3. /\ run[r] \in RunStates /\ Timely(run[r]) /\ Asked(r).adapter = ACL
        /\ run[r].node = 1 /\ run[r].part = 1 /\ Asked(r).live /\ Asked(r).accepted
        /\ ClaimUsable(Asked(r).claim) /\ PinMet(Asked(r).policy, Asked(r).claim)
    BY <1>1, CollectingFacts
  <1>4. b \in Bundles
    <2>1. Asked(r) \in LedgerRequests
      BY <1>3, AskedTyped, LedgerAsked
    <2>2. Asked(r).policy.host \in Hosts
      BY <2>1 DEF LedgerRequests, LedgerPolicies
    <2>3. published \in 1..Len(work.worlds)
      BY WorldsTyped
    <2>4. work.worlds[published] \in Worlds
      BY <2>3, WorldsTyped
    <2>5. work.worlds[published].service \in Nat
      BY <2>4 DEF Worlds
    <2> QED BY <2>2, <2>5, EmptyTyped DEF Bundles
  <1> HIDE DEF b
  <1>5. s \in RunStates
    BY <1>3, <1>4 DEF RunStates, PCs
  <1>6. /\ s.pc = "Quotes" /\ s.clock = run[r].clock /\ s.until = 0 /\ s.node = 1 /\ s.part = 1
    BY <1>3 DEF RunStates
  <1> HIDE DEF s
  <1>7. Timely(s)
    BY <1>1, <1>3, <1>6, BoundsAssumption DEF Timely, Limit, Asking
  <1>8. Good(work, serving, Asked(r), s)
    BY <1>3, <1>6, <1>7 DEF Good, Underway, Settled, Placed, Gathered
  <1>9. Becomes(r, s)
    BY <1>2 DEF s, b
  <1> QED BY <1>1, <1>5, <1>8, <1>9, OneMoves, SameFiles

LEMMA QuotesAnsweredKeeps ==
    ASSUME IInv, NEW r \in DOMAIN run, QuotesAnswered(r)
    PROVE  IInv'
  <1> DEFINE s == [run[r] EXCEPT !.pc = "Nodes", !.until = 0, !.bundle.nodes = Service.quotes]
  <1>1. /\ run[r].pc = "Quotes" /\ InFlight(r) /\ UNCHANGED <<work, serving, files>>
        /\ Becomes(r, s) /\ Service.service = run[r].bundle.service
    BY DEF QuotesAnswered, Is, Pinned
  <1>2. /\ run[r] \in RunStates /\ Timely(run[r]) /\ Asked(r).adapter = ACL
        /\ run[r].node = 1 /\ run[r].part = 1 /\ Asked(r).live /\ Asked(r).accepted
        /\ ClaimUsable(Asked(r).claim) /\ PinMet(Asked(r).policy, Asked(r).claim)
    BY <1>1, CollectingFacts
  <1>3. Service \in Worlds /\ Service = work.worlds[serving] /\ serving \in 1..serving
    BY WorldsTyped DEF Service
  <1>4. s \in RunStates
    BY <1>2, <1>3 DEF RunStates, PCs, Bundles, Worlds
  <1>5. /\ s.pc = "Nodes" /\ s.clock = run[r].clock /\ s.until = 0 /\ s.node = 1 /\ s.part = 1
        /\ s.bundle.nodes = Service.quotes /\ s.bundle.service = run[r].bundle.service
    BY <1>2 DEF RunStates, Bundles
  <1> HIDE DEF s
  <1>6. Timely(s)
    BY <1>1, <1>2, <1>5, BoundsAssumption DEF Timely, Limit, Asking
  <1>7. FromOne(work, serving, s.bundle)
    BY <1>1, <1>3, <1>5 DEF FromOne
  <1>8. Good(work, serving, Asked(r), s)
    BY <1>2, <1>5, <1>6, <1>7 DEF Good, Underway, Settled, Placed, Gathered
  <1> QED BY <1>1, <1>4, <1>8, OneMoves, SameFiles

LEMMA JoinedTyped ==
    ASSUME NEW quotes \in Seq(Nodes), NEW listing \in Seq(Listings)
    PROVE  Joined(quotes, listing) \in Seq(Nodes) /\ Len(Joined(quotes, listing)) = Len(quotes)
  <1>1. DOMAIN quotes = 1..Len(quotes) /\ Len(quotes) \in Nat
    BY LenProperties
  <1>2. ASSUME NEW i \in 1..Len(quotes)
        PROVE  [quotes[i] EXCEPT !.cert = IF Certified(listing, quotes[i].id) = {} THEN @
                                          ELSE CertificateOf(listing, quotes[i].id)] \in Nodes
    <2> DEFINE certified == Certified(listing, quotes[i].id)
               last == CHOOSE k \in certified : \A j \in certified : j <= k
    <2>1. quotes[i] \in Nodes
      BY ElementOfSeq
    <2>2. certified # {} => CertificateOf(listing, quotes[i].id) \in NodeCertificates
      <3> SUFFICES ASSUME certified # {}
                   PROVE  CertificateOf(listing, quotes[i].id) \in NodeCertificates
        OBVIOUS
      <3>1. certified \in SUBSET (1..Len(listing)) /\ Len(listing) \in Nat
        BY LenProperties DEF Certified
      <3>2. CertificateOf(listing, quotes[i].id) = listing[last].cert
        BY DEF CertificateOf
      <3> HIDE DEF certified
      <3>3. last \in certified
        BY <3>1, LastOf
      <3>4. listing[last] \in Listings /\ listing[last].cert # Unlisted
        BY <3>1, <3>3, ElementOfSeq DEF certified, Certified
      <3> QED BY <3>2, <3>4 DEF Listings
    <2> QED BY <2>1, <2>2 DEF Nodes
  <1>3. Joined(quotes, listing) \in [1..Len(quotes) -> Nodes]
    BY <1>1, <1>2 DEF Joined
  <1> QED BY <1>1, <1>3, IsASeq

LEMMA NodesAnsweredKeeps ==
    ASSUME IInv, NEW r \in DOMAIN run, NodesAnswered(r)
    PROVE  IInv'
  <1> DEFINE quotes == run[r].bundle.nodes
             joined == Joined(quotes, Service.listing)
             s == [run[r] EXCEPT !.pc = AfterCollection(r), !.until = 0, !.clock = 0,
                                 !.bundle.nodes = joined]
  <1>1. /\ run[r].pc = "Nodes" /\ InFlight(r) /\ UNCHANGED <<work, serving, files>>
        /\ Service.service = run[r].bundle.service
    BY DEF NodesAnswered, Is, Pinned
  <1>2. CASE Refuse(r)
    BY <1>1, <1>2, RefuseEnds, SameFiles
  <1>3. CASE Assembles(quotes, Service.listing) /\ Becomes(r, s)
    <2>1. /\ run[r] \in RunStates /\ Asked(r).adapter = ACL
          /\ run[r].node = 1 /\ run[r].part = 1 /\ Asked(r).live /\ Asked(r).accepted
          /\ ClaimUsable(Asked(r).claim) /\ PinMet(Asked(r).policy, Asked(r).claim)
      BY <1>1, CollectingFacts
    <2>2. /\ Service \in Worlds /\ Service = work.worlds[serving]
          /\ serving \in DOMAIN work.worlds
      BY WorldsTyped DEF Service
    <2>3. quotes \in Seq(Nodes) /\ Service.listing \in Seq(Listings)
      BY <2>1, <2>2 DEF RunStates, Bundles, Worlds
    <2>4. joined \in Seq(Nodes) /\ Len(joined) = Len(quotes) /\ Len(quotes) >= 1
      BY <1>3, <2>3, JoinedTyped DEF Assembles
    <2>5. FromOne(work, serving, run[r].bundle)
      BY <1>1, AskedTyped DEF Good, Gathered
    <2> HIDE DEF joined
    <2>6. AfterCollection(r) \in {"Save", "Judge"}
      BY DEF AfterCollection
    <2>7. s \in RunStates
      BY <2>1, <2>4, <2>6 DEF RunStates, PCs, Bundles
    <2>8. /\ s.pc \in {"Save", "Judge"} /\ s.clock = 0 /\ s.until = 0
          /\ s.node = 1 /\ s.part = 1 /\ s.bundle.nodes = joined
          /\ s.bundle.service = run[r].bundle.service
      BY <2>1, <2>6 DEF RunStates, Bundles
    <2> HIDE DEF s
    <2>9. FromTwo(work, s.bundle)
      <3>1. PICK i \in 1..serving : /\ work.worlds[i].service = run[r].bundle.service
                                    /\ quotes = work.worlds[i].quotes
        BY <2>5 DEF FromOne
      <3>2. i \in DOMAIN work.worlds /\ serving \in i..Len(work.worlds)
        BY <3>1, WorldsTyped
      <3>3. s.bundle.nodes = Joined(work.worlds[i].quotes, work.worlds[serving].listing)
        BY <2>2, <2>8, <3>1 DEF joined
      <3>4. work.worlds[serving].service = s.bundle.service
        BY <1>1, <2>2, <2>8
      <3> QED BY <2>8, <3>1, <3>2, <3>3, <3>4 DEF FromTwo
    <2>10. s.bundle.nodes # <<>>
      BY <2>4, <2>8
    <2>11. Gathered(work, serving, Asked(r), s)
      BY <2>1, <2>8, <2>9, <2>10 DEF Gathered
    <2>12. Underway(Asked(r), s) /\ Settled(Asked(r), s) /\ Timely(s) /\ Placed(s)
      BY <2>1, <2>8 DEF Underway, Settled, Timely, Asking, Placed
    <2>13. Good(work, serving, Asked(r), s)
      BY <2>11, <2>12 DEF Good
    <2> QED BY <1>1, <1>3, <2>7, <2>13, OneMoves, SameFiles
  <1> QED BY <1>2, <1>3 DEF NodesAnswered

LEMMA CertsAnsweredKeeps ==
    ASSUME IInv, NEW r \in DOMAIN run, CertsAnswered(r)
    PROVE  IInv'
  <1> DEFINE k == [current |-> TRUE, target |-> Asked(r).endpoint, object |-> TRUE,
                   keys |-> Service.keys]
             s == [run[r] EXCEPT !.pc = AfterCollection(r), !.until = 0, !.clock = 0,
                                 !.keyset = k]
  <1>1. /\ run[r].pc = "Certs" /\ InFlight(r) /\ UNCHANGED <<work, serving, files>>
        /\ Becomes(r, s)
    BY DEF CertsAnswered, Is
  <1>2. /\ run[r] \in RunStates /\ Asked(r).adapter = MAA
        /\ run[r].node = 1 /\ run[r].part = 1 /\ Asked(r).live /\ Asked(r).accepted
        /\ ClaimUsable(Asked(r).claim)
    BY <1>1, CollectingFacts
  <1>3. Service \in Worlds
    BY WorldsTyped DEF Service
  <1>4. Asked(r) \in KeysRequests
    BY <1>2, AskedTyped, KeysAsked
  <1>5. k \in KeySets
    BY <1>3, <1>4 DEF KeySets, Worlds, KeysRequests
  <1>6. AfterCollection(r) \in {"Save", "Judge"}
    BY DEF AfterCollection
  <1> HIDE DEF k
  <1>7. s \in RunStates
    BY <1>2, <1>5, <1>6 DEF RunStates, PCs
  <1>8. /\ s.pc \in {"Save", "Judge"} /\ s.clock = 0 /\ s.until = 0 /\ s.node = 1 /\ s.part = 1
    BY <1>2, <1>6 DEF RunStates
  <1> HIDE DEF s
  <1>9. MAA # ACL
    BY DEF ACL, MAA
  <1>10. /\ Underway(Asked(r), s) /\ Settled(Asked(r), s) /\ Timely(s) /\ Placed(s)
         /\ Gathered(work, serving, Asked(r), s)
    BY <1>2, <1>8, <1>9 DEF Underway, Settled, Timely, Asking, Placed, Gathered
  <1>11. Good(work, serving, Asked(r), s)
    BY <1>10 DEF Good
  <1> QED BY <1>1, <1>7, <1>11, OneMoves, SameFiles

LEMMA AdvanceKeeps ==
    ASSUME IInv, Advance
    PROVE  IInv'
  <1>1. /\ serving' = serving + 1 /\ serving < Len(work.worlds)
        /\ UNCHANGED <<work, files, run>>
    BY DEF Advance
  <1>2. serving \in 1..Len(work.worlds) /\ serving' \in DOMAIN work.worlds
    BY <1>1, WorldsTyped
  <1>3. TypeOK'
    <2>1. RunStates' = RunStates
      BY <1>1 DEF RunStates
    <2> QED BY <1>1, <1>2, <2>1 DEF IInv, TypeOK
  <1>4. ASSUME NEW r \in DOMAIN run PROVE Good(work, serving', Asked(r), run[r])
    <2>1. Good(work, serving, Asked(r), run[r])
      BY DEF IInv
    <2>2. FromOne(work, serving, run[r].bundle) => FromOne(work, serving', run[r].bundle)
      <3>1. 1..serving \subseteq 1..serving'
        BY <1>1, <1>2
      <3> QED BY <3>1 DEF FromOne
    <2> QED BY <2>1, <2>2 DEF Good, Gathered
  <1>5. \A r \in DOMAIN run' : Good(work', serving', Asked(r)', run'[r])
    BY <1>1, <1>4 DEF Asked
  <1>6. Kept(work', files')
    BY <1>1 DEF IInv
  <1> QED BY <1>3, <1>5, <1>6 DEF IInv

LEMMA KillKeeps ==
    ASSUME IInv, NEW r \in DOMAIN run, Kill(r)
    PROVE  IInv'
  <1> DEFINE s == [Fresh EXCEPT !.pc = "Killed", !.bundle = run[r].bundle,
                                !.keyset = run[r].keyset, !.after = run[r].after]
  <1>1. Becomes(r, s) /\ UNCHANGED <<work, serving, files>>
    BY DEF Kill
  <1>2. s \in RunStates
    BY AskedTyped, FreshTyped DEF RunStates, PCs
  <1>3. s.pc = "Killed" /\ s.clock = 0 /\ s.until = 0 /\ s.node = 1 /\ s.part = 1
    BY DEF Fresh
  <1> HIDE DEF s
  <1>4. Good(work, serving, Asked(r), s)
    BY <1>3 DEF Good, Underway, Settled, Timely, Asking, Placed, Gathered
  <1> QED BY <1>1, <1>2, <1>4, OneMoves, SameFiles

-----------------------------------------------------------------------------
(* The directory after one file is put into it or taken away.              *)
LEMMA PutKeeps ==
    ASSUME IInv, NEW name, NEW f, Put(name, f), UNCHANGED work,
           name[2] \in DOMAIN Contents, f.whole \in BOOLEAN, f.value \in Contents[name[2]],
           name = ManifestFile /\ AllDigested(work) =>
               f.value.digested /\ f.value.nodes \in Known(work)
    PROVE  Directory(files') /\ Kept(work, files')
  <1>1. files' = [n \in DOMAIN files \cup {name} |-> IF n = name THEN f ELSE files[n]]
    BY DEF Put
  <1>2. Directory(files) /\ Kept(work, files)
    BY DEF IInv, TypeOK
  <1>3. ASSUME NEW n \in DOMAIN files'
        PROVE  /\ n[2] \in DOMAIN Contents /\ files'[n].whole \in BOOLEAN
               /\ files'[n].value \in Contents[n[2]]
    <2>1. CASE n = name
      BY <1>1, <2>1
    <2>2. CASE n # name
      <3>1. n \in DOMAIN files /\ files'[n] = files[n]
        BY <1>1, <2>2
      <3> QED BY <1>2, <3>1 DEF Directory
    <2> QED BY <2>1, <2>2
  <1>4. Directory(files')
    BY <1>3 DEF Directory
  <1>5. Kept(work, files')
    <2>1. CASE name = ManifestFile
      <3>1. files'[ManifestFile] = f
        BY <1>1, <2>1
      <3> QED BY <2>1, <3>1 DEF Kept
    <2>2. CASE name # ManifestFile
      <3>1. /\ ManifestFile \in DOMAIN files' => ManifestFile \in DOMAIN files
            /\ ManifestFile \in DOMAIN files' => files'[ManifestFile] = files[ManifestFile]
        BY <1>1, <2>2
      <3> QED BY <1>2, <3>1 DEF Kept
    <2> QED BY <2>1, <2>2
  <1> QED BY <1>4, <1>5

LEMMA FileNames ==
    /\ ServiceFile[2] = "service" /\ ManifestFile[2] = "manifest" /\ KeysFile[2] = "keys"
    /\ KeysFile # ManifestFile /\ ServiceFile # ManifestFile
    /\ DOMAIN Contents = {"report", "amd", "uvm", "cert", "service", "manifest", "keys"}
    /\ Contents["report"] = Reports /\ Contents["amd"] = AmdChains
    /\ Contents["uvm"] = UvmEndorsements /\ Contents["cert"] = NodeCertificates
    /\ Contents["service"] = Nat /\ Contents["manifest"] = Manifests
    /\ Contents["keys"] = KeySets
  BY DEF ServiceFile, ManifestFile, KeysFile, Contents

LEMMA SaveFailsKeeps ==
    ASSUME IInv, NEW r \in DOMAIN run, SaveFails(r)
    PROVE  IInv'
  <1>1. Refuse(r) /\ UNCHANGED <<work, serving>>
    BY DEF SaveFails
  <1>2. CASE UNCHANGED files
    BY <1>1, <1>2, RefuseEnds, SameFiles
  <1>3. CASE files' = [n \in DOMAIN files \ {KeysFile} |-> files[n]]
    <2>1. Directory(files) /\ Kept(work, files)
      BY DEF IInv, TypeOK
    <2>2. Directory(files')
      BY <1>3, <2>1 DEF Directory
    <2>3. Kept(work, files')
      BY <1>3, <2>1, FileNames DEF Kept
    <2> QED BY <1>1, <2>2, <2>3, RefuseEnds
  <1> QED BY <1>2, <1>3 DEF SaveFails

LEMMA PartsAre ==
    ASSUME NEW part \in 1..4
    PROVE  /\ Parts[part] \in {"report", "amd", "uvm", "cert"}
           /\ \A node \in Nodes : node[Parts[part]] \in Contents[Parts[part]]
  <1>1. /\ Parts[1] = "report" /\ Parts[2] = "amd" /\ Parts[3] = "uvm" /\ Parts[4] = "cert"
    BY DEF Parts
  <1>2. part = 1 \/ part = 2 \/ part = 3 \/ part = 4
    OBVIOUS
  <1>3. ASSUME NEW node \in Nodes
        PROVE  /\ node["report"] \in Reports /\ node["amd"] \in AmdChains
               /\ node["uvm"] \in UvmEndorsements /\ node["cert"] \in NodeCertificates
    BY DEF Nodes
  <1> QED BY <1>1, <1>2, <1>3, FileNames

LEMMA SaveFacts ==
    ASSUME IInv, NEW r \in DOMAIN run, Is(r, "Save")
    PROVE  /\ run[r] \in RunStates /\ run[r].pc = "Save"
           /\ Asked(r).adapter \in {ACL, MAA} /\ Asked(r).live /\ Asked(r).accepted
           /\ ClaimUsable(Asked(r).claim)
           /\ Asked(r).adapter = ACL => PinMet(Asked(r).policy, Asked(r).claim)
           /\ run[r].until = 0 /\ run[r].node \in Nat \ {0}
           /\ run[r].node <= Len(run[r].bundle.nodes) => run[r].part \in 1..4
           /\ run[r].bundle \in Bundles /\ run[r].keyset \in KeySets
           /\ Asked(r).adapter = ACL => /\ run[r].bundle.nodes # <<>>
                                        /\ FromTwo(work, run[r].bundle)
  <1>1. run[r] \in RunStates /\ Good(work, serving, Asked(r), run[r]) /\ run[r].pc = "Save"
    BY AskedTyped DEF Is
  <1>2. /\ run[r].bundle \in Bundles /\ run[r].keyset \in KeySets /\ run[r].node \in Nat
        /\ run[r].until \in Nat
    BY <1>1 DEF RunStates
  <1>3. /\ Asked(r).adapter \in {ACL, MAA} /\ Asked(r).live /\ Asked(r).accepted
        /\ ClaimUsable(Asked(r).claim)
        /\ Asked(r).adapter = ACL => PinMet(Asked(r).policy, Asked(r).claim)
    BY <1>1 DEF Good, Underway
  <1>4. /\ run[r].until = 0 /\ run[r].node >= 1
        /\ run[r].node <= Len(run[r].bundle.nodes) => run[r].part \in 1..4
    BY <1>1 DEF Good, Timely, Asking, Placed
  <1>5. run[r].bundle.nodes # <<>> => run[r].bundle # NoBundle
    BY DEF NoBundle
  <1>6. Asked(r).adapter = ACL => run[r].bundle.nodes # <<>> /\ FromTwo(work, run[r].bundle)
    BY <1>1, <1>3, <1>5 DEF Good, Gathered
  <1> QED BY <1>1, <1>2, <1>3, <1>4, <1>6

LEMMA TwoAreKnown ==
    ASSUME NEW w, NEW b, FromTwo(w, b), w.worlds \in Seq(Worlds)
    PROVE  b.nodes \in Known(w)
  <1>1. PICK i \in DOMAIN w.worlds : \E j \in i..Len(w.worlds) :
            b.nodes = Joined(w.worlds[i].quotes, w.worlds[j].listing)
    BY DEF FromTwo
  <1>2. PICK j \in i..Len(w.worlds) :
            b.nodes = Joined(w.worlds[i].quotes, w.worlds[j].listing)
    BY <1>1
  <1>3. j \in DOMAIN w.worlds
    BY <1>2, LenProperties
  <1> QED BY <1>2, <1>3 DEF Known

LEMMA WritingTyped ==
    ASSUME IInv, NEW r \in DOMAIN run, Is(r, "Save")
    PROVE  /\ Writing(r).name[2] \in DOMAIN Contents
           /\ Writing(r).value \in Contents[Writing(r).name[2]]
           /\ Writing(r).name = ManifestFile =>
                  Writing(r).value.digested /\ Writing(r).value.nodes \in Known(work)
  <1>1. /\ run[r].bundle \in Bundles /\ run[r].keyset \in KeySets /\ run[r].node \in Nat \ {0}
        /\ run[r].node <= Len(run[r].bundle.nodes) => run[r].part \in 1..4
        /\ Asked(r).adapter \in {ACL, MAA}
        /\ Asked(r).adapter = ACL => FromTwo(work, run[r].bundle)
    BY SaveFacts
  <1>2. ACL # MAA
    BY DEF ACL, MAA
  <1>3. CASE Asked(r).adapter = MAA
    <2>1. Writing(r).name = KeysFile /\ Writing(r).value = run[r].keyset
      BY <1>3 DEF Writing
    <2> QED BY <1>1, <2>1, FileNames
  <1>4. CASE Asked(r).adapter = ACL /\ AtNode(r)
    <2>1. run[r].part \in 1..4 /\ ThisNode(r) \in Nodes
      <3>1. run[r].node <= Len(run[r].bundle.nodes) /\ run[r].bundle.nodes \in Seq(Nodes)
        BY <1>1, <1>4 DEF AtNode, Bundles
      <3> QED BY <1>1, <3>1, ElementOfSeq, LenProperties DEF ThisNode
    <2>2. /\ Writing(r).name = <<Stem[ThisNode(r).id], Parts[run[r].part]>>
          /\ Writing(r).value = ThisNode(r)[Parts[run[r].part]]
      BY <1>2, <1>4 DEF Writing, NodeFile
    <2>3. Writing(r).name[2] = Parts[run[r].part]
      BY <2>2
    <2> QED BY <2>1, <2>2, <2>3, PartsAre, FileNames
  <1>5. CASE Asked(r).adapter = ACL /\ ~AtNode(r) /\ run[r].part = 1 /\ run[r].bundle.service # 0
    <2>1. Writing(r).name = ServiceFile /\ Writing(r).value = run[r].bundle.service
      BY <1>2, <1>5 DEF Writing
    <2> QED BY <1>1, <2>1, FileNames DEF Bundles
  <1>6. CASE Asked(r).adapter = ACL /\ ~AtNode(r) /\ ~(run[r].part = 1 /\ run[r].bundle.service # 0)
    <2>1. Writing(r).name = ManifestFile /\ Writing(r).value = ManifestOf(run[r].bundle)
      BY <1>2, <1>6 DEF Writing
    <2>2. ManifestOf(run[r].bundle) \in Manifests
      BY <1>1 DEF ManifestOf, Manifests, Bundles
    <2>3. run[r].bundle.nodes \in Known(work)
      BY <1>1, <1>6, WorldsTyped, TwoAreKnown
    <2> QED BY <2>1, <2>2, <2>3, FileNames DEF ManifestOf
  <1> QED BY <1>1, <1>3, <1>4, <1>5, <1>6

LEMMA PutsWritten ==
    ASSUME IInv, NEW r \in DOMAIN run, Is(r, "Save"), UNCHANGED work,
           \/ Put(Writing(r).name, Torn(Writing(r).value))
           \/ Put(Writing(r).name, Whole(Writing(r).value))
    PROVE  Directory(files') /\ Kept(work, files')
  <1> DEFINE torn == Torn(Writing(r).value)
             full == Whole(Writing(r).value)
  <1>1. /\ torn.whole \in BOOLEAN /\ torn.value = Writing(r).value
        /\ full.whole \in BOOLEAN /\ full.value = Writing(r).value
    BY DEF Torn, Whole
  <1> HIDE DEF torn, full
  <1>2. CASE Put(Writing(r).name, torn)
    BY <1>1, <1>2, WritingTyped, PutKeeps
  <1>3. CASE Put(Writing(r).name, full)
    BY <1>1, <1>3, WritingTyped, PutKeeps
  <1> QED BY <1>2, <1>3 DEF torn, full

(* A run that goes on saving, or has saved, keeps what it collected.       *)
LEMMA SavingOn ==
    ASSUME IInv, NEW r \in DOMAIN run, Is(r, "Save"), NEW s \in RunStates,
           s.pc \in {"Save", "Judge"}, s.bundle = run[r].bundle, s.keyset = run[r].keyset,
           s.until = 0, s.pc = "Judge" => s.node = 1 /\ s.part = 1,
           s.pc = "Save" => s.node >= 1 /\ (s.node <= Len(s.bundle.nodes) => s.part \in 1..4)
    PROVE  Good(work, serving, Asked(r), s)
  <1>1. /\ Asked(r).adapter \in {ACL, MAA} /\ Asked(r).live /\ Asked(r).accepted
        /\ ClaimUsable(Asked(r).claim)
        /\ Asked(r).adapter = ACL => PinMet(Asked(r).policy, Asked(r).claim)
        /\ Asked(r).adapter = ACL => run[r].bundle.nodes # <<>> /\ FromTwo(work, run[r].bundle)
    BY SaveFacts
  <1>2. Underway(Asked(r), s)
    BY <1>1 DEF Underway
  <1>3. Settled(Asked(r), s) /\ Timely(s) /\ Placed(s)
    BY DEF Settled, Timely, Asking, Placed
  <1>4. Gathered(work, serving, Asked(r), s)
    BY <1>1 DEF Gathered
  <1> QED BY <1>2, <1>3, <1>4 DEF Good

LEMMA OpenFileKeeps ==
    ASSUME IInv, NEW r \in DOMAIN run, OpenFile(r)
    PROVE  IInv'
  <1> DEFINE s == [run[r] EXCEPT !.open = TRUE]
  <1>1. Is(r, "Save") /\ UNCHANGED <<work, serving>>
    BY DEF OpenFile
  <1>2. CASE Refuse(r) /\ UNCHANGED files
    BY <1>1, <1>2, RefuseEnds, SameFiles
  <1>3. CASE Put(Writing(r).name, Torn(Writing(r).value)) /\ Becomes(r, s)
    <2>1. /\ run[r] \in RunStates /\ run[r].pc = "Save" /\ run[r].until = 0
          /\ run[r].node \in Nat \ {0}
          /\ run[r].node <= Len(run[r].bundle.nodes) => run[r].part \in 1..4
      BY <1>1, SaveFacts
    <2>2. s \in RunStates
      BY <2>1 DEF RunStates
    <2>3. /\ s.pc = "Save" /\ s.bundle = run[r].bundle /\ s.keyset = run[r].keyset
          /\ s.until = 0 /\ s.node = run[r].node /\ s.part = run[r].part
      BY <2>1 DEF RunStates
    <2>4. s.node >= 1 /\ (s.node <= Len(s.bundle.nodes) => s.part \in 1..4)
      BY <2>1, <2>3
    <2> HIDE DEF s
    <2>5. Good(work, serving, Asked(r), s)
      BY <1>1, <2>2, <2>3, <2>4, SavingOn
    <2>6. Directory(files') /\ Kept(work, files')
      BY <1>1, <1>3, PutsWritten
    <2> QED BY <1>1, <1>3, <2>2, <2>5, <2>6, OneMoves
  <1> QED BY <1>2, <1>3 DEF OpenFile

LEMMA WriteFileKeeps ==
    ASSUME IInv, NEW r \in DOMAIN run, WriteFile(r)
    PROVE  IInv'
  <1> DEFINE last == Writing(r).name \in {ManifestFile, KeysFile}
             more == \/ run[r].node > Len(run[r].bundle.nodes)
                     \/ run[r].part < LastPart(run[r].bundle.nodes[run[r].node])
             s == IF last THEN Ready(run[r]) ELSE Forward(run[r])
  <1>1. Is(r, "Save") /\ UNCHANGED <<work, serving>> /\ Becomes(r, s)
    BY DEF WriteFile
  <1>2. Directory(files') /\ Kept(work, files')
    BY <1>1, PutsWritten DEF WriteFile
  <1>3. /\ run[r] \in RunStates /\ run[r].pc = "Save" /\ run[r].until = 0
        /\ run[r].node \in Nat \ {0} /\ run[r].part \in Nat
        /\ run[r].node <= Len(run[r].bundle.nodes) => run[r].part \in 1..4
        /\ Len(run[r].bundle.nodes) \in Nat
    BY <1>1, SaveFacts, LenProperties DEF RunStates, Bundles
  <1> HIDE DEF last, more, s
  <1>4. CASE last
    <2>1. s = Ready(run[r])
      BY <1>4 DEF s
    <2>2. s \in RunStates
      BY <1>3, <2>1, EmptyTyped DEF Ready, RunStates, PCs
    <2>3. /\ s.pc = "Judge" /\ s.bundle = run[r].bundle /\ s.keyset = run[r].keyset
          /\ s.until = 0 /\ s.node = 1 /\ s.part = 1
      BY <1>3, <2>1 DEF Ready, RunStates
    <2>4. Good(work, serving, Asked(r), s)
      BY <1>1, <2>2, <2>3, SavingOn
    <2> QED BY <1>1, <1>2, <2>2, <2>4, OneMoves
  <1>5. CASE ~last /\ more
    <2>1. s = [run[r] EXCEPT !.part = run[r].part + 1, !.open = FALSE]
      BY <1>5 DEF Forward, s, more
    <2>2. s \in RunStates
      <3>1. run[r] \in RunStates /\ run[r].part + 1 \in Nat
        BY <1>3
      <3> QED BY <2>1, <3>1 DEF RunStates
    <2>3. /\ s.pc = "Save" /\ s.bundle = run[r].bundle /\ s.keyset = run[r].keyset
          /\ s.until = 0 /\ s.node = run[r].node /\ s.part = run[r].part + 1
      BY <1>3, <2>1 DEF RunStates
    <2>4. s.node <= Len(s.bundle.nodes) => s.part \in 1..4
      BY <1>3, <1>5, <2>3 DEF LastPart, more
    <2>5. Good(work, serving, Asked(r), s)
      BY <1>1, <1>3, <2>2, <2>3, <2>4, SavingOn
    <2> QED BY <1>1, <1>2, <2>2, <2>5, OneMoves
  <1>6. CASE ~last /\ ~more
    <2>1. s = [run[r] EXCEPT !.node = run[r].node + 1, !.part = 1, !.open = FALSE]
      BY <1>6 DEF Forward, s, more
    <2>2. s \in RunStates
      <3>1. run[r] \in RunStates /\ run[r].node + 1 \in Nat
        BY <1>3
      <3> QED BY <2>1, <3>1 DEF RunStates
    <2>3. /\ s.pc = "Save" /\ s.bundle = run[r].bundle /\ s.keyset = run[r].keyset
          /\ s.until = 0 /\ s.node = run[r].node + 1 /\ s.part = 1
      BY <1>3, <2>1 DEF RunStates
    <2>4. Good(work, serving, Asked(r), s)
      BY <1>1, <1>3, <2>2, <2>3, SavingOn
    <2> QED BY <1>1, <1>2, <2>2, <2>4, OneMoves
  <1> QED BY <1>4, <1>5, <1>6

LEMMA ReadingFacts ==
    ASSUME IInv, NEW r \in DOMAIN run, run[r].pc \in {"Manifest", "Service", "Load"}
    PROVE  /\ run[r] \in RunStates /\ run[r].until = 0
           /\ Asked(r).adapter = ACL /\ ~Asked(r).live /\ Asked(r).accepted
           /\ ClaimUsable(Asked(r).claim) /\ PinMet(Asked(r).policy, Asked(r).claim)
           /\ Placed(run[r]) /\ Gathered(work, serving, Asked(r), run[r])
           /\ Directory(files)
  <1>1. run[r] \in RunStates /\ Good(work, serving, Asked(r), run[r])
    BY AskedTyped
  <1>2. Directory(files)
    BY DEF IInv, TypeOK
  <1> QED BY <1>1, <1>2 DEF Good, Underway, Timely, Asking

(* A run that goes on reading, or has read, of a saved ledger.             *)
LEMMA ReadingOn ==
    ASSUME IInv, NEW r \in DOMAIN run, run[r].pc \in {"Manifest", "Service", "Load"},
           NEW s \in RunStates, s.pc \in {"Service", "Load", "Judge"}, s.until = 0,
           Placed(s), Gathered(work, serving, Asked(r), s), Becomes(r, s),
           UNCHANGED <<work, serving, files>>
    PROVE  IInv'
  <1>1. /\ Asked(r).adapter = ACL /\ ~Asked(r).live /\ Asked(r).accepted
        /\ ClaimUsable(Asked(r).claim) /\ PinMet(Asked(r).policy, Asked(r).claim)
    BY ReadingFacts
  <1>2. Underway(Asked(r), s) /\ Settled(Asked(r), s) /\ Timely(s)
    BY <1>1 DEF Underway, Settled, Timely, Asking
  <1>3. Good(work, serving, Asked(r), s)
    BY <1>2 DEF Good
  <1> QED BY <1>3, OneMoves, SameFiles

LEMMA ReadManifestKeeps ==
    ASSUME IInv, NEW r \in DOMAIN run, ReadManifest(r)
    PROVE  IInv'
  <1> DEFINE m == files[ManifestFile].value
             b == [ledger |-> m.ledger, service |-> 0, nodes |-> m.nodes]
             s == [run[r] EXCEPT !.pc = "Service", !.manifest = m, !.bundle = b]
  <1>1. run[r].pc = "Manifest" /\ UNCHANGED <<work, serving, files>>
    BY DEF ReadManifest, Is
  <1>2. CASE Refuse(r)
    BY <1>1, <1>2, RefuseEnds, SameFiles
  <1>3. CASE Readable(ManifestFile) /\ UsableManifest(m) /\ Becomes(r, s)
    <2>1. /\ run[r] \in RunStates /\ run[r].until = 0 /\ run[r].node = 1 /\ run[r].part = 1
          /\ Directory(files)
      BY <1>1, ReadingFacts DEF Placed
    <2>2. ManifestFile \in DOMAIN files
      BY <1>3 DEF Readable, Found
    <2>3. m \in Manifests
      BY <2>1, <2>2, FileNames DEF Directory
    <2>4. m.nodes \in Seq(Nodes) /\ m.ledger \in Hosts
      BY <2>3 DEF Manifests
    <2>5. m.nodes # <<>>
      BY <1>3, <2>4 DEF UsableManifest
    <2>6. AllDigested(work) => m.digested /\ m.nodes \in Known(work)
      BY <2>2 DEF IInv, Kept
    <2> HIDE DEF m
    <2>7. b \in Bundles /\ b.nodes = m.nodes
      BY <2>4 DEF Bundles
    <2> HIDE DEF b
    <2>8. s \in RunStates
      BY <2>1, <2>3, <2>7 DEF RunStates, PCs
    <2>9. /\ s.pc = "Service" /\ s.until = 0 /\ s.node = 1 /\ s.part = 1
          /\ s.manifest = m /\ s.bundle = b
      BY <2>1 DEF RunStates
    <2> HIDE DEF s
    <2>10. Placed(s) /\ Gathered(work, serving, Asked(r), s)
      BY <2>5, <2>6, <2>7, <2>9 DEF Placed, Gathered
    <2> QED BY <1>1, <1>3, <2>8, <2>9, <2>10, ReadingOn
  <1> QED BY <1>2, <1>3 DEF ReadManifest

LEMMA ReadServiceKeeps ==
    ASSUME IInv, NEW r \in DOMAIN run, ReadService(r)
    PROVE  IInv'
  <1> DEFINE v == IF run[r].manifest.service /\ Readable(ServiceFile)
                  THEN files[ServiceFile].value ELSE 0
             s == [run[r] EXCEPT !.pc = "Load", !.bundle.service = v]
  <1>1. run[r].pc = "Service" /\ UNCHANGED <<work, serving, files>>
    BY DEF ReadService, Is
  <1>2. CASE Refuse(r)
    BY <1>1, <1>2, RefuseEnds, SameFiles
  <1>3. CASE Becomes(r, s)
    <2>1. /\ run[r] \in RunStates /\ run[r].until = 0 /\ run[r].node = 1 /\ run[r].part = 1
          /\ Directory(files) /\ Gathered(work, serving, Asked(r), run[r])
      BY <1>1, ReadingFacts DEF Placed
    <2>2. v \in Nat
      <3>1. ServiceFile \in DOMAIN files => files[ServiceFile].value \in Nat
        BY <2>1, FileNames DEF Directory
      <3> QED BY <3>1 DEF Readable, Found
    <2>3. run[r].bundle \in Bundles /\ run[r].manifest.nodes \in Seq(Nodes)
      BY <2>1 DEF RunStates, Manifests
    <2> HIDE DEF v
    <2>4. s \in RunStates
      BY <2>1, <2>2 DEF RunStates, PCs, Bundles
    <2>5. /\ s.pc = "Load" /\ s.until = 0 /\ s.node = 1 /\ s.part = 1
          /\ s.manifest = run[r].manifest /\ s.bundle.nodes = run[r].bundle.nodes
      BY <2>1 DEF RunStates, Bundles
    <2> HIDE DEF s
    <2>6. Gathered(work, serving, Asked(r), s)
      BY <1>1, <2>1, <2>5 DEF Gathered
    <2>7. 1 \in DOMAIN s.manifest.nodes /\ Len(s.bundle.nodes) = Len(s.manifest.nodes)
      <3>1. s.manifest.nodes # <<>> /\ s.manifest.nodes \in Seq(Nodes)
        BY <2>3, <2>5, <2>6 DEF Gathered
      <3> QED BY <2>5, <2>6, <3>1 DEF Gathered
    <2>8. Placed(s)
      BY <2>5, <2>7 DEF Placed
    <2> QED BY <1>1, <1>3, <2>4, <2>5, <2>6, <2>8, ReadingOn
  <1> QED BY <1>2, <1>3 DEF ReadService

LEMMA BytesTyped ==
    ASSUME NEW part \in 1..4, NEW file, file.value \in Contents[Parts[part]],
           NEW value \in Bytes(Parts[part], file)
    PROVE  value \in Contents[Parts[part]]
  <1>1. CASE file.whole
    BY <1>1 DEF Bytes
  <1>2. CASE ~file.whole
    <2>1. value \in Damaged(Parts[part], file.value)
      BY <1>2 DEF Bytes
    <2>2. CASE Parts[part] = "report"
      <3>1. file.value \in Reports
        BY <2>2, FileNames
      <3>2. value = [file.value EXCEPT !.signer = 0]
        BY <2>1, <2>2 DEF Damaged
      <3>3. value \in Reports
        BY <3>1, <3>2 DEF Reports
      <3> QED BY <2>2, <3>3, FileNames
    <2>3. CASE Parts[part] = "uvm"
      BY <2>1, <2>3, FileNames DEF Damaged, UvmEndorsements
    <2>4. CASE Parts[part] = "cert"
      BY <2>1, <2>4, FileNames DEF Damaged, NodeCertificates
    <2>5. CASE Parts[part] = "amd"
      BY <2>1, <2>5, FileNames DEF Damaged, AmdChains
    <2> QED BY <2>2, <2>3, <2>4, <2>5, PartsAre
  <1> QED BY <1>1, <1>2

(* One field of one node replaced, in a list of nodes and in a run.        *)
Replaced(nodes, n, part, value) == [nodes EXCEPT ![n][Parts[part]] = value]
Given(s, n, part, value) ==
    [s EXCEPT !.bundle = [s.bundle EXCEPT !.nodes = Replaced(s.bundle.nodes, n, part, value)]]

LEMMA ReplacedTyped ==
    ASSUME NEW nodes \in Seq(Nodes), NEW n \in 1..Len(nodes), NEW part \in 1..4,
           NEW value \in Contents[Parts[part]]
    PROVE  /\ Replaced(nodes, n, part, value) \in Seq(Nodes)
           /\ Len(Replaced(nodes, n, part, value)) = Len(nodes)
           /\ value = nodes[n][Parts[part]] => Replaced(nodes, n, part, value) = nodes
  <1> DEFINE p == Parts[part]
             node == [nodes[n] EXCEPT ![p] = value]
             changed == [nodes EXCEPT ![n] = node]
  <1>1. nodes[n] \in Nodes /\ p \in {"report", "amd", "uvm", "cert"}
    BY ElementOfSeq, PartsAre
  <1>2. node \in Nodes
    <2>1. CASE p = "report"
      BY <1>1, <2>1, FileNames DEF Nodes
    <2>2. CASE p = "amd"
      BY <1>1, <2>2, FileNames DEF Nodes
    <2>3. CASE p = "uvm"
      BY <1>1, <2>3, FileNames DEF Nodes
    <2>4. CASE p = "cert"
      BY <1>1, <2>4, FileNames DEF Nodes
    <2> QED BY <1>1, <2>1, <2>2, <2>3, <2>4
  <1>3. value = nodes[n][p] => node = nodes[n]
    <2>1. nodes[n] = [x \in DOMAIN nodes[n] |-> nodes[n][x]]
      BY <1>1 DEF Nodes
    <2> QED BY <2>1
  <1> HIDE DEF node
  <1>4. changed \in Seq(Nodes) /\ Len(changed) = Len(nodes)
    BY <1>2
  <1>5. node = nodes[n] => changed = nodes
    OBVIOUS
  <1>6. Replaced(nodes, n, part, value) = changed
    BY DEF node, Replaced
  <1> QED BY <1>3, <1>4, <1>5, <1>6

LEMMA FieldReplaced ==
    ASSUME NEW s \in RunStates, NEW n \in 1..Len(s.bundle.nodes), NEW part \in 1..4,
           NEW value \in Contents[Parts[part]]
    PROVE  LET t == Given(s, n, part, value)
           IN  /\ t \in RunStates
               /\ t.pc = s.pc /\ t.until = s.until /\ t.node = s.node /\ t.part = s.part
               /\ t.manifest = s.manifest
               /\ Len(t.bundle.nodes) = Len(s.bundle.nodes)
               /\ value = s.bundle.nodes[n][Parts[part]] => t.bundle.nodes = s.bundle.nodes
  <1> DEFINE t     == Given(s, n, part, value)
             old   == s.bundle.nodes
             nodes == Replaced(old, n, part, value)
             b == [s.bundle EXCEPT !.nodes = nodes]
  <1>1. s.bundle \in Bundles /\ old \in Seq(Nodes) /\ n \in 1..Len(old)
    BY DEF RunStates, Bundles
  <1>2. t = [s EXCEPT !.bundle = b]
    BY DEF Given
  <1> HIDE DEF t, b, old
  <1>3. /\ nodes \in Seq(Nodes) /\ Len(nodes) = Len(old)
        /\ value = old[n][Parts[part]] => nodes = old
    BY <1>1, ReplacedTyped
  <1> HIDE DEF nodes
  <1>4. b \in Bundles /\ b.nodes = nodes
    BY <1>1, <1>3 DEF Bundles, b
  <1>5. t \in RunStates
    BY <1>2, <1>4 DEF RunStates
  <1>6. /\ t.pc = s.pc /\ t.until = s.until /\ t.node = s.node /\ t.part = s.part
        /\ t.manifest = s.manifest /\ t.bundle = b
    BY <1>2 DEF RunStates
  <1> QED BY <1>3, <1>4, <1>5, <1>6 DEF old, t

LEMMA ReadPartKeeps ==
    ASSUME IInv, NEW r \in DOMAIN run, ReadPart(r)
    PROVE  IInv'
  <1> DEFINE n    == run[r].node
             part == Parts[run[r].part]
             node == run[r].manifest.nodes[n]
             name == <<Stem[node.id], part>>
  <1>1. run[r].pc = "Load" /\ UNCHANGED <<work, serving, files>>
    BY DEF ReadPart, Is
  <1>2. CASE Refuse(r)
    BY <1>1, <1>2, RefuseEnds, SameFiles
  <1>3. CASE /\ Found(name) /\ ~Disturbed(r, files[name], node[part])
             /\ \E value \in Bytes(part, files[name]) : Becomes(r, AfterPart(r, value))
    <2>1. PICK value \in Bytes(part, files[name]) : Becomes(r, AfterPart(r, value))
      BY <1>3, Zenon
    <2>2. /\ run[r] \in RunStates /\ run[r].until = 0 /\ Directory(files)
          /\ n \in DOMAIN run[r].manifest.nodes /\ run[r].part \in 1..4
          /\ Len(run[r].bundle.nodes) = Len(run[r].manifest.nodes)
          /\ run[r].manifest.nodes # <<>>
          /\ AllDigested(work) => /\ run[r].manifest.digested
                                  /\ run[r].manifest.nodes \in Known(work)
                                  /\ run[r].bundle.nodes = run[r].manifest.nodes
      BY <1>1, ReadingFacts DEF Placed, Gathered
    <2>3. /\ run[r].manifest.nodes \in Seq(Nodes) /\ run[r].bundle.nodes \in Seq(Nodes)
          /\ Len(run[r].manifest.nodes) \in Nat /\ n \in 1..Len(run[r].bundle.nodes)
      BY <2>2, LenProperties DEF RunStates, Manifests, Bundles
    <2>4. files[name].value \in Contents[part]
      <3>1. name \in DOMAIN files /\ name[2] = part
        BY <1>3 DEF Found
      <3> QED BY <2>2, <3>1 DEF Directory
    <2>5. value \in Contents[part]
      BY <2>1, <2>2, <2>4, BytesTyped
    <2>6. AllDigested(work) => value = run[r].bundle.nodes[n][part]
      BY <1>3, <2>1, <2>2, Zenon DEF Disturbed, Bytes
    <2> DEFINE t    == Given(run[r], n, run[r].part, value)
               last == IF node.cert.kind = "None" THEN 3 ELSE 4
    <2>6a. /\ t \in RunStates
           /\ t.pc = run[r].pc /\ t.until = run[r].until /\ t.node = n
           /\ t.part = run[r].part /\ t.manifest = run[r].manifest
           /\ Len(t.bundle.nodes) = Len(run[r].bundle.nodes)
           /\ value = run[r].bundle.nodes[n][part] => t.bundle.nodes = run[r].bundle.nodes
      <3> HIDE DEF t
      <3>1. value \in Contents[Parts[run[r].part]]
        BY <2>5
      <3>2. n \in 1..Len(run[r].bundle.nodes) /\ run[r].part \in 1..4 /\ run[r] \in RunStates
        BY <2>2, <2>3
      <3> HIDE DEF n, part
      <3> QED BY <3>1, <3>2, FieldReplaced DEF t, part, n
    <2>7. /\ t \in RunStates
          /\ t.pc = "Load" /\ t.until = 0 /\ t.node = n /\ t.part = run[r].part
          /\ t.manifest = run[r].manifest
          /\ Len(t.bundle.nodes) = Len(run[r].bundle.nodes)
          /\ AllDigested(work) => t.bundle.nodes = run[r].bundle.nodes
      BY <1>1, <2>2, <2>6, <2>6a
    <2>8. AfterPart(r, value) =
              IF t.part < last THEN [t EXCEPT !.part = t.part + 1]
              ELSE IF t.node < Len(t.bundle.nodes)
              THEN [t EXCEPT !.node = t.node + 1, !.part = 1]
              ELSE Ready(t)
      <3> DEFINE u == [run[r] EXCEPT !.bundle.nodes[n][part] = value]
      <3>1. u = t
        BY DEF Given, Replaced
      <3> HIDE DEF t
      <3>2. AfterPart(r, value) =
                IF u.part < last THEN [u EXCEPT !.part = @ + 1]
                ELSE IF u.node < Len(u.bundle.nodes)
                THEN [u EXCEPT !.node = @ + 1, !.part = 1]
                ELSE Ready(u)
        BY DEF AfterPart
      <3> HIDE DEF u, last
      <3>3. [t EXCEPT !.part = @ + 1] = [t EXCEPT !.part = t.part + 1]
            /\ [t EXCEPT !.node = @ + 1, !.part = 1] = [t EXCEPT !.node = t.node + 1, !.part = 1]
        OBVIOUS
      <3> QED BY <3>1, <3>2, <3>3
    <2>9. last \in 3..4 /\ t.part \in 1..4 /\ t.node \in 1..Len(t.manifest.nodes)
          /\ Len(t.manifest.nodes) = Len(t.bundle.nodes) /\ Len(t.manifest.nodes) \in Nat
      BY <2>2, <2>3, <2>7
    <2>10. /\ t.manifest.nodes # <<>>
           /\ AllDigested(work) => /\ t.manifest.digested
                                   /\ t.manifest.nodes \in Known(work)
                                   /\ t.bundle.nodes = t.manifest.nodes
      BY <2>2, <2>7
    <2>11. /\ DOMAIN t.manifest.nodes = 1..Len(t.manifest.nodes)
           /\ (t.bundle.nodes # <<>>)
      BY <2>3, <2>7, <2>9, LenProperties, EmptySeq
    <2>12. Asked(r).adapter = ACL /\ ~Asked(r).live
      BY <1>1, ReadingFacts
    <2> HIDE DEF t, last
    <2>13. CASE t.part < last
      <3> DEFINE s == [t EXCEPT !.part = t.part + 1]
      <3>1. t \in RunStates /\ t.part + 1 \in Nat
        BY <2>7, <2>9
      <3>2. s \in RunStates
        BY <3>1 DEF RunStates
      <3>3. /\ s.pc = "Load" /\ s.until = 0 /\ s.node = t.node /\ s.part = t.part + 1
            /\ s.manifest = t.manifest /\ s.bundle = t.bundle
        BY <2>7 DEF RunStates
      <3>4. Becomes(r, s)
        BY <2>1, <2>8, <2>13
      <3> HIDE DEF s
      <3>5. Placed(s)
        BY <2>9, <2>11, <2>13, <3>3 DEF Placed
      <3>6. Gathered(work, serving, Asked(r), s)
        BY <2>9, <2>10, <3>3 DEF Gathered
      <3> QED BY <1>1, <3>2, <3>3, <3>4, <3>5, <3>6, ReadingOn
    <2>14. CASE ~(t.part < last) /\ t.node < Len(t.bundle.nodes)
      <3> DEFINE s == [t EXCEPT !.node = t.node + 1, !.part = 1]
      <3>1. t \in RunStates /\ t.node + 1 \in Nat
        BY <2>7, <2>9
      <3>2. s \in RunStates
        BY <3>1 DEF RunStates
      <3>3. /\ s.pc = "Load" /\ s.until = 0 /\ s.node = t.node + 1 /\ s.part = 1
            /\ s.manifest = t.manifest /\ s.bundle = t.bundle
        BY <2>7 DEF RunStates
      <3>4. Becomes(r, s)
        BY <2>1, <2>8, <2>14
      <3> HIDE DEF s
      <3>5. Placed(s)
        BY <2>9, <2>11, <2>14, <3>3 DEF Placed
      <3>6. Gathered(work, serving, Asked(r), s)
        BY <2>9, <2>10, <3>3 DEF Gathered
      <3> QED BY <1>1, <3>2, <3>3, <3>4, <3>5, <3>6, ReadingOn
    <2>15. CASE ~(t.part < last) /\ ~(t.node < Len(t.bundle.nodes))
      <3> DEFINE s == Ready(t)
      <3>1. s \in RunStates
        BY <2>7, EmptyTyped DEF Ready, RunStates, PCs
      <3>2. /\ s.pc = "Judge" /\ s.until = 0 /\ s.node = 1 /\ s.part = 1
            /\ s.bundle = t.bundle
        BY <2>7 DEF Ready, RunStates
      <3>3. Becomes(r, s)
        BY <2>1, <2>8, <2>15
      <3> HIDE DEF s
      <3>4. Placed(s)
        BY <3>2 DEF Placed
      <3>5. Gathered(work, serving, Asked(r), s)
        BY <2>10, <2>11, <2>12, <3>2 DEF Gathered
      <3> QED BY <1>1, <3>1, <3>2, <3>3, <3>4, <3>5, ReadingOn
    <2> QED BY <2>13, <2>14, <2>15
  <1> QED BY <1>2, <1>3, Zenon DEF ReadPart

LEMMA ReadKeysKeeps ==
    ASSUME IInv, NEW r \in DOMAIN run, ReadKeys(r)
    PROVE  IInv'
  <1> DEFINE keys == files[KeysFile].value
             s == Ready([run[r] EXCEPT !.keyset = keys])
  <1>1. run[r].pc = "KeySet" /\ UNCHANGED <<work, serving, files>>
    BY DEF ReadKeys, Is
  <1>2. CASE Refuse(r)
    BY <1>1, <1>2, RefuseEnds, SameFiles
  <1>3. CASE Readable(KeysFile) /\ Becomes(r, s)
    <2>1. keys \in KeySets
      BY <1>3, FileNames DEF IInv, TypeOK, Directory, Readable, Found
    <2>2. run[r] \in RunStates /\ Good(work, serving, Asked(r), run[r])
      BY AskedTyped
    <2> HIDE DEF keys
    <2>3. s = [run[r] EXCEPT !.keyset = keys, !.pc = "Judge", !.node = 1, !.part = 1,
                             !.open = FALSE, !.manifest = NoManifest]
      BY <2>2 DEF Ready, RunStates
    <2> HIDE DEF s
    <2>4. s \in RunStates
      BY <2>1, <2>2, <2>3, EmptyTyped DEF RunStates, PCs
    <2>5. s.pc = "Judge" /\ s.node = 1 /\ s.part = 1 /\ s.until = run[r].until
      BY <2>2, <2>3 DEF RunStates
    <2>6. /\ run[r].until = 0 /\ Asked(r).adapter = MAA /\ Asked(r).accepted
          /\ ClaimUsable(Asked(r).claim) /\ MAA # ACL
      BY <1>1, <2>2 DEF Good, Underway, Timely, Asking, MAA, ACL
    <2>7. Good(work, serving, Asked(r), s)
      BY <2>5, <2>6 DEF Good, Underway, Settled, Timely, Asking, Placed, Gathered
    <2> QED BY <1>1, <1>3, <2>4, <2>7, OneMoves, SameFiles
  <1> QED BY <1>2, <1>3 DEF ReadKeys

LEMMA JudgeKeeps ==
    ASSUME IInv, NEW r \in DOMAIN run, Judge(r)
    PROVE  IInv'
  <1> DEFINE q == Asked(r)
             result == Assess(r)
             bundle == run[r].bundle
             keyset == run[r].keyset
             s == [Fresh EXCEPT !.pc = "Done", !.result = result, !.bundle = bundle,
                                !.keyset = keyset, !.after = run[r].after]
  <1>1. /\ run[r].pc = "Judge" /\ UNCHANGED <<work, serving, files>>
        /\ Conclude(r, result, bundle, keyset)
    BY DEF Judge, Is
  <1>2. /\ run[r] \in RunStates /\ q \in Requests /\ Good(work, serving, q, run[r])
    BY AskedTyped
  <1>3. /\ q.adapter \in {ACL, MAA} /\ q.accepted /\ ClaimUsable(q.claim)
        /\ q.adapter = ACL => PinMet(q.policy, q.claim) /\ bundle.nodes # <<>>
        /\ q.adapter = ACL /\ bundle # NoBundle =>
               IF q.live THEN FromTwo(work, bundle)
               ELSE AllDigested(work) => bundle.nodes \in Known(work)
    BY <1>1, <1>2 DEF Good, Underway, Gathered
  <1>4. /\ bundle \in Bundles /\ keyset \in KeySets
        /\ bundle.nodes \in Seq(Nodes) /\ keyset.keys \in Seq(Keys)
    BY <1>2 DEF RunStates, Bundles, KeySets
  <1>5. ACL # MAA
    BY DEF ACL, MAA
  <1> HIDE DEF bundle, keyset
  <1>6. s.pc = "Done" /\ s.result = result /\ s.bundle = bundle /\ s.keyset = keyset
    BY DEF Fresh
  <1>7. CASE q.adapter = ACL
    <2>1. q.policy \in LedgerPolicies /\ q.claim \in PolicyClaims
      BY <1>2, <1>7, LedgerAsked DEF LedgerRequests
    <2>2. result = AppraiseLedger(q.policy, q.claim, bundle)
      BY <1>7 DEF Assess, bundle
    <2>3. result \in Assessments
      BY <1>4, <2>1, <2>2, LedgerTyped
    <2> HIDE DEF result
    <2>4. Settled(q, s)
      BY <1>3, <1>6, <1>7, <2>2 DEF Settled
    <2>5. Good(work, serving, q, s)
      BY <1>3, <2>4, OverIsGood
    <2> QED BY <1>1, <1>4, <2>3, <2>5, Ends, SameFiles
  <1>8. CASE q.adapter = MAA
    <2>1. q.live \in BOOLEAN
      BY <1>2, <1>8, KeysAsked DEF KeysRequests
    <2>2. result = AppraiseAttestation(Target(q.policy, q.endpoint), q.claim, keyset, ~q.live)
      BY <1>5, <1>8 DEF Assess, keyset
    <2>3. result \in Assessments
      BY <1>4, <2>1, <2>2, AttestationTyped
    <2> HIDE DEF result
    <2>4. Settled(q, s)
      BY <1>3, <1>6, <1>8, <2>2 DEF Settled
    <2>5. Good(work, serving, q, s)
      BY <1>5, <1>8, <2>4, OverIsGood
    <2> QED BY <1>1, <1>4, <2>3, <2>5, Ends, SameFiles
  <1> QED BY <1>3, <1>7, <1>8

-----------------------------------------------------------------------------
LEMMA StartsGood ==
    ASSUME Init
    PROVE  IInv
  <1>1. /\ work \in Workloads /\ serving = 1 /\ files = work.files
        /\ run = [r \in DOMAIN work.requests |-> Fresh]
    BY DEF Init
  <1>2. Directory(files) /\ serving \in DOMAIN work.worlds
    <2>1. /\ work.worlds \in Seq(Worlds) /\ work.worlds # <<>> /\ Directory(work.files)
      BY <1>1, WorkloadsAssumption
    <2> QED BY <1>1, <2>1
  <1>3. TypeOK
    BY <1>1, <1>2, FreshTyped DEF TypeOK
  <1>4. Kept(work, files)
    BY <1>1 DEF Kept, AllDigested, RecordedIn, Known
  <1>5. ASSUME NEW r \in DOMAIN run PROVE Good(work, serving, Asked(r), run[r])
    <2>1. /\ run[r].pc = "Start" /\ run[r].until = 0 /\ run[r].node = 1 /\ run[r].part = 1
      BY <1>1 DEF Fresh
    <2> QED BY <2>1 DEF Good, Underway, Settled, Timely, Asking, Placed, Gathered
  <1> QED BY <1>3, <1>4, <1>5 DEF IInv

LEMMA ProgramKeeps ==
    ASSUME IInv, NEW r \in DOMAIN run, Program(r)
    PROVE  IInv'
  BY BeginLedgerKeeps, BeginAttestationKeeps, BeginSuppliedKeeps, AskKeeps, RefusalsKeep,
     OpenFileKeeps, WriteFileKeeps, ReadManifestKeeps, ReadServiceKeeps, ReadPartKeeps,
     ReadKeysKeeps, JudgeKeeps DEF Program

LEMMA PeersKeep ==
    ASSUME IInv, NEW r \in DOMAIN run, Peers(r)
    PROVE  IInv'
  BY RefusalsKeep, IdentityAnsweredKeeps, QuotesAnsweredKeeps, NodesAnsweredKeeps,
     CertsAnsweredKeeps DEF Peers

LEMMA NothingMoves ==
    ASSUME IInv, UNCHANGED vars
    PROVE  IInv'
  <1>1. UNCHANGED <<work, serving, files, run>>
    BY DEF vars
  <1>2. RunStates' = RunStates /\ \A t : Asked(t)' = Asked(t)
    BY <1>1 DEF RunStates, Asked
  <1>3. TypeOK'
    BY <1>1, <1>2 DEF IInv, TypeOK
  <1>4. \A r \in DOMAIN run' : Good(work', serving', Asked(r)', run'[r])
    BY <1>1, <1>2 DEF IInv
  <1>5. Kept(work', files')
    BY <1>1 DEF IInv
  <1> QED BY <1>3, <1>4, <1>5 DEF IInv

LEMMA StepKeeps ==
    ASSUME IInv, [Next]_vars
    PROVE  IInv'
  <1>1. CASE \E r \in DOMAIN run : Program(r) \/ Tick(r) \/ Peers(r) \/ SaveFails(r) \/ Kill(r)
    BY <1>1, ProgramKeeps, TickKeeps, PeersKeep, SaveFailsKeeps, KillKeeps
  <1>2. CASE Advance
    BY <1>2, AdvanceKeeps
  <1>3. CASE AllOver \/ UNCHANGED vars
    BY <1>3, NothingMoves DEF AllOver
  <1> QED BY <1>1, <1>2, <1>3 DEF Next

(* In every reachable state each run's part of the invariant holds: where  *)
(* it is and what had to be so for it to be there, what its assessment is  *)
(* an assessment of, where its clock stands, and where its nodes are from; *)
(* and a manifest in the directory lists the nodes of one collection.      *)
THEOREM AppraisalInvariant == Spec => []IInv
  BY StartsGood, StepKeeps, PTL DEF Spec

(* Every variable has its type: a run is at one of its steps, what it      *)
(* holds is a bundle or a key set, and every file holds what its name says.*)
THEOREM AppraisalTyped == Spec => []TypeOK
  <1>1. IInv => TypeOK
    BY DEF IInv
  <1> QED BY <1>1, AppraisalInvariant, PTL

(* A peer however slow, and however the answers split the time, keeps      *)
(* collection within the deadline (budget, ensure_time_remaining).         *)
THEOREM CollectionStaysInDeadline == Spec => []CollectionInDeadline
  <1>1. ASSUME IInv PROVE CollectionInDeadline
    <2>1. ASSUME NEW r \in DOMAIN run, Collecting(r)
          PROVE  run[r].clock <= IF Is(r, "Certs") THEN RequestTimeout ELSE TotalDeadline
      BY <1>1, <2>1, CollectingFacts DEF Timely, Limit, Is
    <2> QED BY <2>1 DEF CollectionInDeadline
  <1> QED BY <1>1, AppraisalInvariant, PTL

(* What a live run appraises is what the service it pinned listed, quotes  *)
(* first and certificates no earlier (bootstrap, live::assemble).          *)
THEOREM CollectedIsFromThePinned == Spec => []CollectedFromThePinned
  <1>1. ASSUME IInv PROVE CollectedFromThePinned
    <2>1. ASSUME NEW r \in DOMAIN run, Appraised(r), Asked(r).live
          PROVE  FromTwo(work, run[r].bundle)
      BY <1>1, <2>1, AskedTyped DEF Good, Gathered, Appraised, Is, About
    <2> QED BY <2>1 DEF CollectedFromThePinned, FromTwo, Collection
  <1> QED BY <1>1, AppraisalInvariant, PTL

(* Runs saving into one directory in any order, failing or killed at any   *)
(* file, never make a replay appraise nodes of two collections mixed:      *)
(* every file of a node is checked against the manifest (load::read_part). *)
THEOREM ReplayIsOneCollection == Spec => []LoadedIsOneCollection
  <1>1. ASSUME IInv PROVE LoadedIsOneCollection
    <2>1. Recorded = RecordedIn(work)
      BY DEF Recorded, RecordedIn
    <2>2. Known(work) = Collections \cup {m.nodes : m \in Recorded}
      BY <2>1 DEF Known, Collections, Collection
    <2>3. ASSUME AllDigested(work), NEW r \in DOMAIN run, Appraised(r), ~Asked(r).live
          PROVE  run[r].bundle.nodes \in Known(work)
      BY <1>1, <2>3, AskedTyped DEF Good, Gathered, Appraised, Is, About
    <2> QED BY <2>1, <2>2, <2>3 DEF LoadedIsOneCollection, AllDigested
  <1> QED BY <1>1, AppraisalInvariant, PTL

-----------------------------------------------------------------------------
(* What a pass was the pass of.                                            *)
LEMMA PassedFacts ==
    ASSUME IInv, NEW r \in DOMAIN run, Passed(r)
    PROVE  LET q == Asked(r)
               s == run[r]
           IN  /\ q.accepted /\ ScopedPass(s.result)
               /\ q.adapter = ACL =>
                     /\ ClaimUsable(q.claim) /\ PinMet(q.policy, q.claim)
                     /\ s.result = AppraiseLedger(q.policy, q.claim, s.bundle)
               /\ q.adapter = MAA =>
                     /\ ClaimUsable(q.claim)
                     /\ s.result = AppraiseAttestation(Target(q.policy, q.endpoint), q.claim,
                                                       s.keyset, ~q.live)
               /\ q.adapter \in {REPRO, SNP} => s.result = AppraiseGiven(q)
  <1> DEFINE q == Asked(r)
             s == run[r]
  <1>1. s.pc = "Done" /\ ScopedPass(s.result)
    BY DEF Passed, Is, Narrow
  <1>2. Settled(q, s) /\ q.adapter \in Adapters
    BY AskedTyped DEF Good
  <1>3. s.result # NotAttempted(q.adapter)
    BY <1>1, <1>2, NotAttemptedStates
  <1>4. q.adapter = ACL /\ (~ClaimUsable(q.claim) \/ ~PinMet(q.policy, q.claim)) =>
            s.result # BeforeEvidence(q.policy, q.claim)
    BY <1>1, <1>3, DisagreedStates, AdaptersAre, NamesIn DEF BeforeEvidence
  <1>5. ACL # MAA /\ {ACL, MAA} \cap {REPRO, SNP} = {}
    BY DEF ACL, MAA, REPRO, SNP
  <1> HIDE DEF q, s
  <1>6. /\ q.accepted
        /\ q.adapter = ACL => /\ ClaimUsable(q.claim) /\ PinMet(q.policy, q.claim)
                              /\ s.result = AppraiseLedger(q.policy, q.claim, s.bundle)
        /\ q.adapter = MAA => /\ ClaimUsable(q.claim)
                              /\ s.result = AppraiseAttestation(Target(q.policy, q.endpoint),
                                                q.claim, s.keyset, ~q.live)
        /\ q.adapter \in {REPRO, SNP} => s.result = AppraiseGiven(q)
    BY <1>1, <1>2, <1>3, <1>4, <1>5 DEF Settled
  <1> QED BY <1>1, <1>6 DEF q, s

(* A ledger passes only if every node shown is a different machine, signed *)
(* for by AMD, at its generation's floor, running the policy of an         *)
(* accepted statement, with a key its service certified, and they are as   *)
(* many as the policy expects (appraise_with, verify_node, assess_binding).*)
THEOREM FleetPassEarned == Spec => []FleetPassIsEarned
  <1>1. ASSUME IInv PROVE FleetPassIsEarned
    <2>1. ASSUME NEW r \in DOMAIN run, Passed(r), About(r, ACL)
          PROVE  LET q == Asked(r)
                     b == run[r].bundle
                 IN  /\ q.accepted /\ q.claim.readable /\ ~q.claim.oversized
                     /\ q.policy.pin \in {0, q.claim.digest}
                     /\ b.ledger.name = q.policy.host.name
                     /\ b.nodes # <<>> /\ q.policy.count \in {0, Len(b.nodes)}
                     /\ \A i \in DOMAIN b.nodes :
                           Endorses(b.nodes[i], b.service, q.claim.digest, q.policy.floors)
                     /\ \A i, j \in DOMAIN b.nodes :
                           b.nodes[i].report.key = b.nodes[j].report.key => i = j
      <3> DEFINE q == Asked(r)
                 b == run[r].bundle
      <3>1. q \in LedgerRequests /\ run[r] \in RunStates /\ q.adapter = ACL
        BY <1>1, <2>1, AskedTyped, LedgerAsked DEF About
      <3>2. q.policy \in LedgerPolicies /\ q.claim \in PolicyClaims /\ b.nodes \in Seq(Nodes)
        BY <3>1 DEF LedgerRequests, RunStates, Bundles
      <3>3. /\ q.accepted /\ ClaimUsable(q.claim) /\ PinMet(q.policy, q.claim)
            /\ ScopedPass(AppraiseLedger(q.policy, q.claim, b))
        BY <1>1, <2>1, <3>1, PassedFacts
      <3> HIDE DEF q, b
      <3>4. /\ b.ledger.name = q.policy.host.name
            /\ b.nodes # <<>> /\ q.policy.count \in {0, Len(b.nodes)}
            /\ \A i \in DOMAIN b.nodes :
                  Endorses(b.nodes[i], b.service, q.claim.digest, q.policy.floors)
            /\ \A i, j \in DOMAIN b.nodes :
                  b.nodes[i].report.key = b.nodes[j].report.key => i = j
        BY <3>2, <3>3, CollectedLedgerPass
      <3> QED BY <3>3, <3>4 DEF ClaimUsable, PinMet, q, b
    <2> QED BY <2>1 DEF FleetPassIsEarned
  <1> QED BY <1>1, AppraisalInvariant, PTL

(* An attestation service passes only if some certificate carries a report *)
(* and every one with evidence a genuine report of the statement's policy, *)
(* from the target asked about (maa::bundle, evidence::appraise).          *)
THEOREM AttestationPassEarned == Spec => []AttestationPassIsEarned
  <1>1. ASSUME IInv PROVE AttestationPassIsEarned
    <2>1. ASSUME NEW r \in DOMAIN run, Passed(r), About(r, MAA)
          PROVE  LET q == Asked(r)
                     k == run[r].keyset
                 IN  /\ q.accepted /\ q.claim.readable /\ ~q.claim.oversized
                     /\ k.target = IF q.live THEN q.endpoint ELSE q.policy.target
                     /\ Len(k.keys) <= MaxKeys
                     /\ \E i \in DOMAIN k.keys : k.keys[i].kind = "Report"
                     /\ \A i \in DOMAIN k.keys :
                           \/ k.keys[i].kind = "Ordinary"
                           \/ /\ k.keys[i].kind = "Report" /\ k.keys[i].genuine
                              /\ k.keys[i].hostData = q.claim.digest
      <3> DEFINE q == Asked(r)
                 k == run[r].keyset
      <3>1. /\ q.adapter = MAA /\ (q.live <=> q.endpoint # NoHost) /\ run[r] \in RunStates
            /\ q.live \in BOOLEAN
        BY <1>1, <2>1, AskedTyped, KeysAsked DEF About, KeysRequests
      <3>2. k.keys \in Seq(Keys)
        BY <3>1 DEF RunStates, KeySets
      <3>3. /\ q.accepted /\ ClaimUsable(q.claim)
            /\ ScopedPass(AppraiseAttestation(Target(q.policy, q.endpoint), q.claim, k, ~q.live))
        BY <1>1, <2>1, <3>1, PassedFacts
      <3> HIDE DEF q, k
      <3>4. /\ k.target = Target(q.policy, q.endpoint) /\ Len(k.keys) <= MaxKeys
            /\ \E i \in DOMAIN k.keys : k.keys[i].kind = "Report"
            /\ \A i \in DOMAIN k.keys :
                  \/ k.keys[i].kind = "Ordinary"
                  \/ /\ k.keys[i].kind = "Report" /\ k.keys[i].genuine
                     /\ k.keys[i].hostData = q.claim.digest
        <4>1. PICK target, claim, saved :
                  /\ target = Target(q.policy, q.endpoint) /\ claim = q.claim
                  /\ ScopedPass(AppraiseAttestation(target, claim, k, saved))
          BY <3>3
        <4>2. k.target = target /\ Len(k.keys) <= MaxKeys /\ AllReport(k.keys, claim.digest)
          BY <3>2, <4>1, KeySetPass
        <4> QED BY <4>1, <4>2 DEF AllReport
      <3>5. Target(q.policy, q.endpoint) = IF q.live THEN q.endpoint ELSE q.policy.target
        BY <3>1 DEF Target
      <3> QED BY <3>3, <3>4, <3>5 DEF ClaimUsable, q, k
    <2> QED BY <2>1 DEF AttestationPassIsEarned
  <1> QED BY <1>1, AppraisalInvariant, PTL

(* A reproduction passes only if the record is the one the accepted        *)
(* statement committed to and the supplied rebuild record has the same     *)
(* inputs and layers, in order (image-reproduction's appraise).            *)
THEOREM RebuildPassEarned == Spec => []RebuildPassIsEarned
  <1>1. ASSUME IInv PROVE RebuildPassIsEarned
    <2>1. ASSUME NEW r \in DOMAIN run, Passed(r), About(r, REPRO)
          PROVE  LET q == Asked(r)
                 IN  /\ q.accepted /\ q.policy.profile
                     /\ q.claim.payload = "Json" /\ q.claim.shape = "WellFormed"
                     /\ q.claim.component  = q.policy.component
                     /\ q.claim.repository = q.policy.repository
                     /\ q.published.bytes = q.claim.record
                     /\ q.published.layers # <<>> /\ q.published.layers = q.rebuilt.layers
                     /\ q.published.claimed = q.claim.inputs
                     /\ q.rebuilt.claimed = q.claim.inputs
                     /\ q.published.other = q.rebuilt.other
                     /\ 0 \notin {q.claim.inputs, q.published.other}
      <3> DEFINE q == Asked(r)
      <3>1. q.adapter = REPRO /\ q \in RebuildRequests
        BY <1>1, <2>1, AskedTyped, RebuildAsked DEF About
      <3>2. q.claim.payload \in {"Json", "NotJson", "Unavailable"}
            /\ q.claim.shape \in {"WellFormed", "Malformed", "OtherVersion"}
        BY <3>1 DEF RebuildRequests, Claims
      <3>3. q.accepted /\ ScopedPass(AppraiseRebuild(q.policy, q.claim, q.published, q.rebuilt))
        BY <1>1, <2>1, <3>1, PassedFacts DEF AppraiseGiven
      <3> HIDE DEF q
      <3>4. /\ q.policy.profile
            /\ q.claim.payload \notin {"Unavailable", "NotJson"}
            /\ q.claim.shape \notin {"OtherVersion", "Malformed"}
            /\ q.claim.component = q.policy.component
            /\ q.claim.repository = q.policy.repository
            /\ q.published.bytes = q.claim.record
            /\ q.published.layers # <<>> /\ q.published.layers = q.rebuilt.layers
            /\ q.published.claimed = q.claim.inputs /\ q.published.claimed = q.rebuilt.claimed
            /\ q.published.other = q.rebuilt.other
            /\ q.published.claimed # 0 /\ q.published.other # 0
        BY <3>3, SuppliedRebuildPass
      <3> QED BY <3>2, <3>3, <3>4 DEF q
    <2> QED BY <2>1 DEF RebuildPassIsEarned
  <1> QED BY <1>1, AppraisalInvariant, PTL

(* A device passes only if one chip, named by the statement and by its own *)
(* certificate, signed a report over a nonce that is not all zeros         *)
(* (amd-snp-device's appraise).                                            *)
THEOREM DevicePassEarned == Spec => []DevicePassIsEarned
  <1>1. ASSUME IInv PROVE DevicePassIsEarned
    <2>1. ASSUME NEW r \in DOMAIN run, Passed(r), About(r, SNP)
          PROVE  LET q == Asked(r)
                 IN  /\ q.accepted /\ q.policy.profile
                     /\ q.bom.payload = "Json" /\ q.bom.graph
                     /\ q.bom.serials = <<q.vcek.id>>
                     /\ q.vcek.hwid = "Id" /\ q.vcek.id # 0
                     /\ q.report.genuine /\ q.report.matches /\ q.report.data = q.nonce.value
                     /\ q.nonce.form = "Fits" /\ q.nonce.value # 0
                     /\ \E i \in DOMAIN q.policy.floors :
                           /\ q.policy.floors[i].generation = q.report.generation
                           /\ AtLeast(q.report.tcb, q.policy.floors[i].tcb)
      <3> DEFINE q == Asked(r)
      <3>1. q.adapter = SNP /\ q \in DeviceRequests
        BY <1>1, <2>1, AskedTyped, DeviceAsked DEF About
      <3>2. q.bom \in Boms /\ q.policy \in DevicePolicies
        BY <3>1 DEF DeviceRequests
      <3>3. /\ q.accepted
            /\ ScopedPass(AppraiseDevice(q.policy, q.bom, q.report, q.vcek, q.chain, q.nonce))
        BY <1>1, <2>1, <3>1, PassedFacts DEF AppraiseGiven, SNP, REPRO
      <3> HIDE DEF q
      <3>4. /\ q.policy.profile
            /\ q.bom.payload = "Json" /\ q.bom.graph
            /\ q.bom.serials = <<q.vcek.id>>
            /\ q.vcek.hwid = "Id" /\ q.vcek.id # 0
            /\ q.report.genuine /\ q.report.matches /\ q.report.data = q.nonce.value
            /\ q.nonce.form = "Fits" /\ q.nonce.value # 0
            /\ \E i \in DOMAIN q.policy.floors :
                  /\ q.policy.floors[i].generation = q.report.generation
                  /\ AtLeast(q.report.tcb, q.policy.floors[i].tcb)
        BY <3>2, <3>3, SuppliedDevicePass
      <3> QED BY <3>3, <3>4 DEF q
    <2> QED BY <2>1 DEF DevicePassIsEarned, AtLeast
  <1> QED BY <1>1, AppraisalInvariant, PTL

-----------------------------------------------------------------------------
(* What a failed check of a run that is over is a finding on.              *)
LEMMA DoneFacts ==
    ASSUME IInv, NEW r \in DOMAIN run, Is(r, "Done")
    PROVE  Settled(Asked(r), run[r]) /\ run[r].pc = "Done" /\ run[r] \in RunStates
           /\ Asked(r).adapter \in Adapters
  BY AskedTyped DEF Good, Is

LEMMA LedgerGrounds ==
    ASSUME IInv, NEW r \in DOMAIN run, Is(r, "Done"), About(r, ACL)
    PROVE  LedgerFailureHasGrounds(r)
  <1> DEFINE q == Asked(r)
             b == run[r].bundle
             result == run[r].result
  <1>1. /\ q.adapter = ACL /\ Settled(q, run[r]) /\ run[r].pc = "Done" /\ run[r] \in RunStates
        /\ q \in LedgerRequests
    BY DoneFacts, AskedTyped, LedgerAsked DEF About
  <1>2. q.policy \in LedgerPolicies /\ q.claim \in PolicyClaims /\ b.nodes \in Seq(Nodes)
    BY <1>1 DEF LedgerRequests, RunStates, Bundles
  <1>3. {ACL} \cap {MAA, REPRO, SNP} = {}
    BY DEF ACL, MAA, REPRO, SNP
  <1>4. \A n \in NamesOf(ACL) : StateOf(NotAttempted(ACL), n) # "Fail"
    BY NotAttemptedStates, AdaptersAre
  <1>5. CASE result = NotAttempted(ACL)
    BY <1>4, <1>5, NamesIn DEF LedgerFailureHasGrounds, Failed
  <1>6. CASE /\ ~ClaimUsable(q.claim) \/ ~PinMet(q.policy, q.claim)
             /\ result = BeforeEvidence(q.policy, q.claim) /\ result # NotAttempted(ACL)
    <2>1. /\ result = Disagreed(ACL, "cce-policy-host-data")
          /\ q.claim.readable /\ q.policy.pin \notin {0, q.claim.digest}
      BY <1>6 DEF BeforeEvidence, ClaimUsable, PinMet
    <2>2. \A n \in NamesOf(ACL) : n # "cce-policy-host-data" =>
              StateOf(result, n) = "CannotEvaluate"
      BY <2>1, DisagreedStates, AdaptersAre, NamesIn
    <2> QED BY <2>1, <2>2, NamesIn DEF LedgerFailureHasGrounds, Failed
  <1>7. CASE b.nodes # <<>> /\ result = AppraiseLedger(q.policy, q.claim, b)
    <2>1. b # NoBundle
      BY <1>7 DEF NoBundle
    <2> HIDE DEF q, b
    <2>2. LET signed == {i \in DOMAIN b.nodes : Authenticates(b.nodes[i])}
          IN  /\ StateOf(result, "ledger-identity-binding") = "Fail" =>
                    \/ b.ledger.name # q.policy.host.name
                    \/ \E i \in signed :
                          /\ b.service # 0 /\ b.nodes[i].cert.kind # "None"
                          /\ \/ b.nodes[i].cert.kind = "Other"
                             \/ b.nodes[i].cert.key # b.nodes[i].report.key
                             \/ b.nodes[i].cert.issuer # b.service
              /\ StateOf(result, "cce-policy-host-data") = "Fail" =>
                    \E i \in signed : b.nodes[i].report.hostData # q.claim.digest
              /\ StateOf(result, "snp-uvm-validation") = "Fail" =>
                    Deficient(b.nodes, q.claim.digest, q.policy.floors)
              /\ StateOf(result, "node-coverage") = "Fail" =>
                    Uncovered(b.nodes, q.policy.floors)
      BY <1>2, <1>7, CollectedLedgerFail
    <2> QED BY <2>1, <2>2 DEF LedgerFailureHasGrounds, Failed, SignedNodes, Deficient,
                              Uncovered, b, q
  <1> QED BY <1>1, <1>3, <1>5, <1>6, <1>7 DEF Settled

LEMMA KeysGrounds ==
    ASSUME IInv, NEW r \in DOMAIN run, Is(r, "Done"), About(r, MAA)
    PROVE  KeysFailureHasGrounds(r)
  <1> DEFINE q == Asked(r)
             k == run[r].keyset
             result == run[r].result
             target == Target(q.policy, q.endpoint)
             saved  == ~q.live
  <1>1. /\ q.adapter = MAA /\ Settled(q, run[r]) /\ run[r].pc = "Done" /\ run[r] \in RunStates
        /\ q.live \in BOOLEAN
    BY DoneFacts, AskedTyped, KeysAsked DEF About, KeysRequests
  <1>2. k.keys \in Seq(Keys) /\ saved \in BOOLEAN
    BY <1>1 DEF RunStates, KeySets
  <1>3. {MAA} \cap {ACL, REPRO, SNP} = {}
    BY DEF ACL, MAA, REPRO, SNP
  <1>4. \A n \in NamesOf(MAA) : StateOf(NotAttempted(MAA), n) # "Fail"
    BY NotAttemptedStates, AdaptersAre
  <1>5. CASE result = NotAttempted(MAA)
    BY <1>4, <1>5, NamesIn DEF KeysFailureHasGrounds, Failed
  <1>6. CASE result = AppraiseAttestation(target, q.claim, k, saved)
    <2> HIDE DEF q, k, target, saved
    <2>1. /\ StateOf(result, "cce-policy-host-data") = "Fail" =>
                \E i \in DOMAIN k.keys : Authentic(k.keys[i]) /\ k.keys[i].hostData # q.claim.digest
          /\ StateOf(result, "snp-validation") = "Fail" => Refuted(k.keys)
          /\ StateOf(result, "maa-certificate-coverage") = "Fail" =>
                k.current /\ (Refuted(k.keys) \/ Len(k.keys) \notin 1..MaxKeys)
      BY <1>2, <1>6, KeySetFail
    <2>2. k.current => k # NoKeySet
      BY DEF NoKeySet
    <2>3. Refuted(k.keys) =>
              \E i \in DOMAIN k.keys :
                 k.keys[i].kind # "Ordinary" /\ i \notin {j \in DOMAIN k.keys : Authentic(k.keys[j])}
      BY DEF Refuted
    <2> QED BY <2>1, <2>2, <2>3 DEF KeysFailureHasGrounds, Failed, SignedKeys, k, q
  <1> QED BY <1>1, <1>3, <1>5, <1>6 DEF Settled

LEMMA RebuildGrounds ==
    ASSUME IInv, NEW r \in DOMAIN run, Is(r, "Done"), About(r, REPRO)
    PROVE  RebuildFailureHasGrounds(r)
  <1> DEFINE q == Asked(r)
             result == run[r].result
  <1>1. q.adapter = REPRO /\ Settled(q, run[r]) /\ run[r].pc = "Done"
    BY DoneFacts DEF About
  <1>2. {REPRO} \cap {ACL, MAA, SNP} = {}
    BY DEF ACL, MAA, REPRO, SNP
  <1>3. \A n \in NamesOf(REPRO) : StateOf(NotAttempted(REPRO), n) # "Fail"
    BY NotAttemptedStates, AdaptersAre
  <1>4. CASE result = NotAttempted(REPRO)
    BY <1>3, <1>4, NamesIn DEF RebuildFailureHasGrounds, Failed
  <1>5. CASE result = AppraiseRebuild(q.policy, q.claim, q.published, q.rebuilt)
    <2> HIDE DEF q
    <2>1. /\ StateOf(result, "rebuild-layers") = "Fail" => q.published.layers # q.rebuilt.layers
          /\ StateOf(result, "rebuild-inputs") = "Fail" =>
                \/ q.published.claimed # q.rebuilt.claimed
                \/ q.published.other # q.rebuilt.other
          /\ ( \/ StateOf(result, "rebuild-layers") = "Fail"
               \/ StateOf(result, "rebuild-inputs") = "Fail" ) =>
                /\ q.published.bytes = q.claim.record /\ q.rebuilt.form = "Record"
                /\ q.rebuilt.claimed # 0 /\ q.rebuilt.other # 0
          /\ StateOf(result, "record-binding") = "Fail" => q.published.form # "Absent"
      BY <1>5, SuppliedRebuildFail
    <2> QED BY <2>1 DEF RebuildFailureHasGrounds, Failed, q
  <1> QED BY <1>1, <1>2, <1>4, <1>5 DEF Settled, AppraiseGiven

LEMMA DeviceGrounds ==
    ASSUME IInv, NEW r \in DOMAIN run, Is(r, "Done"), About(r, SNP)
    PROVE  DeviceFailureHasGrounds(r)
  <1> DEFINE q == Asked(r)
             result == run[r].result
  <1>1. q.adapter = SNP /\ Settled(q, run[r]) /\ run[r].pc = "Done" /\ q \in DeviceRequests
    BY DoneFacts, AskedTyped, DeviceAsked DEF About
  <1>2. q.report.file \in Files /\ q.vcek.file \in Files
    BY <1>1 DEF DeviceRequests, SnpReports, Vceks
  <1>3. {SNP} \cap {ACL, MAA, REPRO} = {}
    BY DEF ACL, MAA, REPRO, SNP
  <1>4. \A n \in NamesOf(SNP) : StateOf(NotAttempted(SNP), n) # "Fail"
    BY NotAttemptedStates, AdaptersAre
  <1>5. CASE result = NotAttempted(SNP)
    BY <1>4, <1>5, NamesIn DEF DeviceFailureHasGrounds, Failed
  <1>6. CASE result = AppraiseDevice(q.policy, q.bom, q.report, q.vcek, q.chain, q.nonce)
    <2> HIDE DEF q
    <2>1. LET failed(check) == StateOf(result, check) = "Fail"
          IN  /\ failed("tcb-floor") \/ failed("freshness") \/ failed("device-binding") =>
                    q.report.file = "Given" /\ q.report.genuine /\ q.vcek.file = "Given"
              /\ failed("freshness") => q.nonce.form = "Fits" /\ q.nonce.value # 0
              /\ failed("snp-report") => "Missing" \notin {q.report.file, q.vcek.file}
      BY <1>2, <1>6, SuppliedDeviceFail
    <2> QED BY <2>1 DEF DeviceFailureHasGrounds, Failed, q
  <1> QED BY <1>1, <1>3, <1>5, <1>6 DEF Settled, AppraiseGiven

(* A failed check has its grounds in what was appraised.  Identity,        *)
(* policy, freshness and the comparison of rebuilds fail only on evidence  *)
(* that was authenticated or bound and says otherwise.  The platform and   *)
(* coverage checks also fail for what cannot be verified, absent evidence  *)
(* included, but never for what verified, agrees and meets its floor.      *)
THEOREM FailuresAreGrounded == Spec => []FailureHasGrounds
  <1>1. ASSUME IInv PROVE FailureHasGrounds
    <2>1. ASSUME NEW r \in DOMAIN run, Is(r, "Done"), ~Asked(r).accepted
          PROVE  ~AnyFail(run[r].result)
      <3>1. run[r].result = NotAttempted(Asked(r).adapter) /\ Asked(r).adapter \in Adapters
        BY <1>1, <2>1, DoneFacts DEF Settled
      <3> QED BY <3>1, NotAttemptedStates
    <2> QED BY <1>1, <2>1, LedgerGrounds, KeysGrounds, RebuildGrounds, DeviceGrounds
            DEF FailureHasGrounds
  <1> QED BY <1>1, AppraisalInvariant, PTL

-----------------------------------------------------------------------------
(* A replay and the run whose evidence it replays.  The one run that saves *)
(* into the directory leaves there, file by file, what it appraises; a     *)
(* replay that begins after it reads the same, file by file.               *)
Sole(q)  == Saver(q) /\ \A s \in DOMAIN run : Saver(s) => s = q
Empty(s) == s.bundle = NoBundle /\ s.keyset = NoKeySet

AssessmentOf(q, bundle, keyset) ==
    IF q.adapter = ACL THEN AppraiseLedger(q.policy, q.claim, bundle)
    ELSE AppraiseAttestation(Target(q.policy, q.endpoint), q.claim, keyset, ~q.live)

(* What a live run has to save is what a replay accepts.                   *)
Savable(q, bundle, keyset) ==
    IF q.adapter = ACL
    THEN /\ bundle.ledger = q.policy.host /\ Routable(q.policy.host)
         /\ bundle.nodes # <<>> /\ AllNamed(bundle.nodes) /\ Distinct(bundle.nodes)
         /\ \A i \in DOMAIN bundle.nodes : bundle.nodes[i].amd.count # 0
    ELSE keyset.current /\ keyset.target = q.endpoint /\ keyset.object

(* A run by itself: only a replay remembers which runs were over, only one *)
(* that was asked to saves, and a live run assesses what it could save.    *)
Appraising(q, s) ==
    /\ s.pc = "Start" => s.after = {}
    /\ s.after # {} => ~q.live
    /\ s.pc = "Save" => q.save
    /\ s.open => s.pc = "Save"
    /\ s.pc \in {"Identity", "Quotes", "Nodes"} => Routable(q.policy.host)
    /\ s.pc \in {"Quotes", "Nodes"} => s.bundle.ledger = q.policy.host
    /\ s.pc \in {"Save", "Judge"} /\ q.live => Savable(q, s.bundle, s.keyset)
    /\ s.pc = "Done" /\ q.adapter \in {ACL, MAA} /\ q.live /\ ~Empty(s) =>
          /\ Savable(q, s.bundle, s.keyset)
          /\ s.result = AssessmentOf(q, s.bundle, s.keyset)

(* The files of a save that are in place, up to the one it is at.          *)
InPlace(fs, name, value) == name \in DOMAIN fs /\ fs[name] = Whole(value)
NodeInPlace(fs, node, last) ==
    \A p \in 1..last : InPlace(fs, <<Stem[node.id], Parts[p]>>, node[Parts[p]])
Apart(nodes, n) == \A i \in 1..(n - 1) : Stem[nodes[i].id] # Stem[nodes[n].id]

BundleInPlace(fs, b) ==
    /\ \A i \in DOMAIN b.nodes : NodeInPlace(fs, b.nodes[i], LastPart(b.nodes[i]))
    /\ b.service # 0 => InPlace(fs, ServiceFile, b.service)
    /\ InPlace(fs, ManifestFile, ManifestOf(b))

EvidenceInPlace(fs, q, s) == IF q.adapter = ACL THEN BundleInPlace(fs, s.bundle)
                             ELSE InPlace(fs, KeysFile, s.keyset)

SavingBundle(fs, s) ==
    LET nodes == s.bundle.nodes IN
    /\ \A i \in DOMAIN nodes : i < s.node => NodeInPlace(fs, nodes[i], LastPart(nodes[i]))
    /\ s.node <= Len(nodes) =>
          /\ s.part <= LastPart(nodes[s.node])
          /\ NodeInPlace(fs, nodes[s.node], s.part - 1)
          /\ s.open => Apart(nodes, s.node)
    /\ s.node > Len(nodes) =>
          /\ s.part \in {1, 2}
          /\ s.part = 2 => InPlace(fs, ServiceFile, s.bundle.service)

Saving(fs, q, s) ==
    /\ s.pc = "Save" /\ q.adapter = ACL => SavingBundle(fs, s)
    /\ s.pc = "Judge" \/ (s.pc = "Done" /\ ~Empty(s)) => EvidenceInPlace(fs, q, s)

(* The file that is open is the one being written, truncated.              *)
Begun(q) == Is(q, "Save") /\ run[q].open =>
               /\ Writing(q).name \in DOMAIN files
               /\ files[Writing(q).name] = Torn(Writing(q).value)

(* A replay of what a run saved, and what it has read so far.              *)
Stands(q, r) ==
    /\ Sole(q) /\ Replay(r) /\ SameQuestion(q, r) /\ Is(q, "Done") /\ ~Empty(run[q])
    /\ Rereadable(run[q].bundle) /\ Len(run[q].bundle.nodes) <= MaxSavedNodes
Replays(q, r) == Stands(q, r) /\ q \in run[r].after

Reads(b, k, q, s) ==
    /\ s.pc \in {"Manifest", "Service", "Load", "KeySet", "Judge", "Done"}
    /\ s.pc \in {"Service", "Load"} =>
          /\ s.manifest = ManifestOf(b) /\ s.bundle.ledger = b.ledger /\ s.bundle.nodes = b.nodes
    /\ s.pc = "Load" => s.bundle.service = b.service /\ s.part <= LastPart(b.nodes[s.node])
    /\ s.pc \in {"Judge", "Done"} => IF q.adapter = ACL THEN s.bundle = b ELSE s.keyset = k
    /\ s.pc = "Done" => s.result = AssessmentOf(q, s.bundle, s.keyset)

SaveInv ==
    /\ \A r \in DOMAIN run : Appraising(Asked(r), run[r]) /\ run[r].after \subseteq Over
    /\ \A q \in DOMAIN run : Sole(q) => Saving(files, Asked(q), run[q]) /\ Begun(q)
    /\ \A q, r \in DOMAIN run :
          Replays(q, r) => Reads(run[q].bundle, run[q].keyset, Asked(r), run[r])

LEMMA SavingStarts ==
    ASSUME Init
    PROVE  SaveInv
  <1>1. ASSUME NEW r \in DOMAIN run
        PROVE  run[r].pc = "Start" /\ run[r].after = {} /\ ~run[r].open
    BY DEF Init, Fresh
  <1>2. \A r \in DOMAIN run : Appraising(Asked(r), run[r]) /\ run[r].after \subseteq Over
    BY <1>1 DEF Appraising
  <1>3. \A q \in DOMAIN run : Saving(files, Asked(q), run[q]) /\ Begun(q)
    BY <1>1 DEF Saving, Begun, Is
  <1>4. \A q, r \in DOMAIN run : ~Replays(q, r)
    BY <1>1 DEF Replays
  <1> QED BY <1>2, <1>3, <1>4 DEF SaveInv

(* What is asked does not change, nor what follows from it alone.          *)
LEMMA QuestionsStay ==
    ASSUME UNCHANGED work, DOMAIN run' = DOMAIN run
    PROVE  /\ \A r : Asked(r)' = Asked(r) /\ Saver(r)' = Saver(r) /\ Replay(r)' = Replay(r)
           /\ \A r : Sole(r)' = Sole(r)
           /\ \A q, r : SameQuestion(q, r)' = SameQuestion(q, r)
  <1>1. \A r : Asked(r)' = Asked(r)
    BY DEF Asked
  <1>2. \A r : Saver(r)' = Saver(r) /\ Replay(r)' = Replay(r)
    BY <1>1 DEF Saver, Replay
  <1>3. \A r : Sole(r)' = Sole(r)
    BY <1>2 DEF Sole
  <1>4. \A q, r : SameQuestion(q, r)' = SameQuestion(q, r)
    BY <1>1 DEF SameQuestion
  <1> QED BY <1>1, <1>2, <1>3, <1>4

(* A step of one run keeps the invariant when it keeps that run's part,    *)
(* and what it reads where it is a replay: a run that is over moves no     *)
(* more, and nobody but the one that saves touches the directory.          *)
LEMMA OneRunMoves ==
    ASSUME IInv, SaveInv, NEW x \in DOMAIN run, NEW s, Becomes(x, s), UNCHANGED work,
           x \notin Over, UNCHANGED files \/ Saver(x),
           Appraising(Asked(x), s), s.after \subseteq Over,
           Sole(x) => Saving(files', Asked(x), s) /\ Begun(x)',
           \A q \in DOMAIN run : Stands(q, x) /\ q \in s.after =>
               Reads(run[q].bundle, run[q].keyset, Asked(x), s)
    PROVE  SaveInv'
  <1>1. /\ DOMAIN run' = DOMAIN run /\ run'[x] = s
        /\ \A t \in DOMAIN run : t # x => run'[t] = run[t]
    BY DEF Becomes, IInv, TypeOK
  <1>2. /\ \A r : Asked(r)' = Asked(r) /\ Saver(r)' = Saver(r) /\ Replay(r)' = Replay(r)
        /\ \A r : Sole(r)' = Sole(r)
        /\ \A q, r : SameQuestion(q, r)' = SameQuestion(q, r)
    BY <1>1, QuestionsStay
  <1>3. Over \subseteq Over' /\ \A t \in Over : t \in DOMAIN run /\ t # x
    BY <1>1 DEF Over
  <1>4. ASSUME NEW r \in DOMAIN run
        PROVE  Appraising(Asked(r)', run'[r]) /\ run'[r].after \subseteq Over'
    <2>1. CASE r = x
      BY <1>1, <1>2, <1>3, <2>1
    <2>2. CASE r # x
      BY <1>1, <1>2, <1>3, <2>2 DEF SaveInv
    <2> QED BY <2>1, <2>2
  <1>5. ASSUME NEW q \in DOMAIN run, Sole(q)
        PROVE  Saving(files', Asked(q)', run'[q]) /\ Begun(q)'
    <2>1. CASE q = x
      BY <1>1, <1>2, <1>5, <2>1
    <2>2. CASE q # x
      <3>1. run'[q] = run[q] /\ files' = files
        BY <1>1, <1>5, <2>2 DEF Sole
      <3>2. Saving(files, Asked(q), run[q]) /\ Begun(q)
        BY <1>5 DEF SaveInv
      <3>3. Saving(files', Asked(q)', run'[q])
        BY <1>2, <3>1, <3>2
      <3>4. Writing(q)' = Writing(q)
        BY <1>2, <3>1 DEF Writing, AtNode, NodeFile, ThisNode
      <3>5. Begun(q)'
        BY <3>1, <3>2, <3>4 DEF Begun, Is
      <3> QED BY <3>3, <3>5
    <2> QED BY <2>1, <2>2
  <1>6. ASSUME NEW q \in DOMAIN run, NEW r \in DOMAIN run, Replays(q, r)'
        PROVE  Reads(run'[q].bundle, run'[q].keyset, Asked(r)', run'[r])
    <2>1. /\ Sole(q) /\ Replay(r) /\ SameQuestion(q, r) /\ run'[q].pc = "Done"
          /\ ~Empty(run'[q]) /\ Rereadable(run'[q].bundle)
          /\ Len(run'[q].bundle.nodes) <= MaxSavedNodes /\ q \in run'[r].after
      BY <1>2, <1>6 DEF Replays, Stands, Is, Empty, Rereadable
    <2>2. q \in Over
      BY <1>1, <2>1 DEF SaveInv
    <2>3. run'[q] = run[q] /\ Stands(q, r)
      BY <1>1, <1>3, <2>1, <2>2 DEF Stands, Is
    <2>4. CASE r = x
      BY <1>1, <1>2, <2>1, <2>3, <2>4
    <2>5. CASE r # x
      <3>1. run'[r] = run[r] /\ Replays(q, r)
        BY <1>1, <2>1, <2>3, <2>5 DEF Replays
      <3> QED BY <1>2, <2>3, <3>1 DEF SaveInv
    <2> QED BY <2>4, <2>5
  <1> QED BY <1>1, <1>2, <1>4, <1>5, <1>6 DEF SaveInv

(* A run that ends with nothing appraised leaves nothing to be replayed.   *)
LEMMA EndsWithNothing ==
    ASSUME IInv, SaveInv, NEW x \in DOMAIN run, NEW result,
           Conclude(x, result, NoBundle, NoKeySet), UNCHANGED work, x \notin Over,
           UNCHANGED files \/ Saver(x), \A q \in DOMAIN run : ~Replays(q, x)
    PROVE  SaveInv'
  <1> DEFINE s == [Fresh EXCEPT !.pc = "Done", !.result = result, !.bundle = NoBundle,
                                !.keyset = NoKeySet, !.after = run[x].after]
  <1>1. /\ s.pc = "Done" /\ s.bundle = NoBundle /\ s.keyset = NoKeySet
        /\ s.after = run[x].after /\ s.open = FALSE
    BY DEF Fresh
  <1>2. Becomes(x, s)
    BY DEF Conclude
  <1> HIDE DEF s
  <1>3. /\ Appraising(Asked(x), run[x]) /\ run[x].after \subseteq Over
    BY DEF SaveInv
  <1>4. Empty(s)
    BY <1>1 DEF Empty
  <1>5. Appraising(Asked(x), s)
    BY <1>1, <1>3, <1>4 DEF Appraising
  <1>6. Saving(files', Asked(x), s)
    BY <1>1, <1>4 DEF Saving
  <1>7. run'[x] = s
    BY <1>2 DEF Becomes, IInv, TypeOK
  <1>8. Begun(x)'
    BY <1>1, <1>7 DEF Begun, Is
  <1>9. \A q \in DOMAIN run : ~(Stands(q, x) /\ q \in s.after)
    BY <1>1 DEF Replays
  <1> QED BY <1>1, <1>2, <1>3, <1>5, <1>6, <1>8, <1>9, OneRunMoves

(* A live run replays nothing.                                             *)
LEMMA LiveReplaysNothing ==
    ASSUME NEW x, Asked(x).live
    PROVE  \A q : ~Stands(q, x) /\ ~Replays(q, x)
  BY DEF Replays, Stands, Replay

LEMMA LiveRefusalSaves ==
    ASSUME IInv, SaveInv, NEW x \in DOMAIN run, Refuse(x), UNCHANGED work, x \notin Over,
           UNCHANGED files \/ Saver(x), Asked(x).live
    PROVE  SaveInv'
  BY LiveReplaysNothing, EndsWithNothing DEF Refuse

(* A live run that goes on, up to where it begins to save.                 *)
LEMMA LiveRunMoves ==
    ASSUME IInv, SaveInv, NEW x \in DOMAIN run, NEW s, Becomes(x, s),
           UNCHANGED <<work, files>>, x \notin Over, Asked(x).live, s.after = {}, ~s.open,
           s.pc \in {"Identity", "Quotes", "Nodes", "Certs", "Save", "Judge"},
           Appraising(Asked(x), s), s.pc = "Judge" => ~Asked(x).save,
           s.pc = "Save" => s.node = 1 /\ s.part = 1 /\ s.bundle \in Bundles
    PROVE  SaveInv'
  <1>1. ASSUME s.pc = "Save" PROVE SavingBundle(files, s)
    <2>1. /\ s.node = 1 /\ s.part = 1 /\ s.bundle.nodes \in Seq(Nodes)
          /\ DOMAIN s.bundle.nodes = 1..Len(s.bundle.nodes) /\ Len(s.bundle.nodes) \in Nat
      BY <1>1, LenProperties DEF Bundles
    <2>2. \A i \in DOMAIN s.bundle.nodes : ~(i < s.node)
      BY <2>1
    <2>3. s.part <= LastPart(s.bundle.nodes[s.node])
      BY <2>1 DEF LastPart
    <2>4. s.part - 1 = 0 /\ 1..0 = {}
      BY <2>1
    <2>5. NodeInPlace(files, s.bundle.nodes[s.node], s.part - 1)
      BY <2>4 DEF NodeInPlace
    <2> QED BY <2>1, <2>2, <2>3, <2>5 DEF SavingBundle
  <1>2. Saver(x) => s.pc # "Judge"
    BY DEF Saver
  <1>3. Sole(x) => Saving(files', Asked(x), s)
    BY <1>1, <1>2 DEF Saving, Sole
  <1>4. run'[x] = s
    BY DEF Becomes, IInv, TypeOK
  <1>5. Begun(x)'
    BY <1>4 DEF Begun
  <1> QED BY <1>3, <1>5, OneRunMoves

-----------------------------------------------------------------------------
(* The actions again, one by one.  A run that begins has nothing to        *)
(* remember; a replay remembers the runs that are over.                    *)
LEMMA StartReplaysNothing ==
    ASSUME SaveInv, NEW x \in DOMAIN run, Is(x, "Start")
    PROVE  x \notin Over /\ \A q \in DOMAIN run : ~Replays(q, x)
  <1>1. run[x].after = {}
    BY DEF SaveInv, Appraising, Is
  <1> QED BY <1>1 DEF Replays, Over, Is

LEMMA EntersSaving ==
    ASSUME IInv, SaveInv, NEW x \in DOMAIN run, Is(x, "Start"), NEW pc, Enter(x, pc),
           UNCHANGED <<work, files>>,
           IF Asked(x).live THEN pc \in {"Identity", "Certs"} ELSE pc \in {"Manifest", "KeySet"},
           pc = "Identity" => Routable(Asked(x).policy.host)
    PROVE  SaveInv'
  <1> DEFINE s == [Fresh EXCEPT !.pc = pc, !.after = IF Asked(x).live THEN {} ELSE Over]
  <1>1. /\ s.pc = pc /\ s.open = FALSE
        /\ s.after = IF Asked(x).live THEN {} ELSE Over
    BY DEF Fresh
  <1>2. Becomes(x, s)
    BY DEF Enter
  <1> HIDE DEF s
  <1>3. Appraising(Asked(x), s)
    BY <1>1 DEF Appraising
  <1>4. Saving(files', Asked(x), s)
    BY <1>1 DEF Saving
  <1>5. run'[x] = s
    BY <1>2 DEF Becomes, IInv, TypeOK
  <1>6. Begun(x)'
    BY <1>1, <1>5 DEF Begun
  <1>7. ASSUME NEW q \in DOMAIN run, Stands(q, x)
        PROVE  Reads(run[q].bundle, run[q].keyset, Asked(x), s)
    <2>1. pc \in {"Manifest", "KeySet"}
      BY <1>7, LiveReplaysNothing
    <2> QED BY <1>1, <2>1 DEF Reads
  <1> QED BY <1>1, <1>2, <1>3, <1>4, <1>6, <1>7, StartReplaysNothing, OneRunMoves

LEMMA BeginLedgerSaves ==
    ASSUME IInv, SaveInv, NEW x \in DOMAIN run, BeginLedger(x)
    PROVE  SaveInv'
  <1>1. Is(x, "Start") /\ UNCHANGED <<work, files>>
    BY DEF BeginLedger
  <1>2. CASE \E result : Conclude(x, result, NoBundle, NoKeySet)
    BY <1>1, <1>2, StartReplaysNothing, EndsWithNothing
  <1>3. CASE ~Asked(x).live /\ Enter(x, "Manifest")
    BY <1>1, <1>3, EntersSaving
  <1>4. CASE Asked(x).live /\ Routable(Asked(x).policy.host) /\ Enter(x, "Identity")
    BY <1>1, <1>4, EntersSaving
  <1> QED BY <1>2, <1>3, <1>4 DEF BeginLedger, Refuse

LEMMA BeginAttestationSaves ==
    ASSUME IInv, SaveInv, NEW x \in DOMAIN run, BeginAttestation(x)
    PROVE  SaveInv'
  <1>1. Is(x, "Start") /\ UNCHANGED <<work, files>>
    BY DEF BeginAttestation
  <1>2. CASE Refuse(x)
    BY <1>1, <1>2, StartReplaysNothing, EndsWithNothing DEF Refuse
  <1>3. CASE Asked(x).live /\ Enter(x, "Certs")
    BY <1>1, <1>3, EntersSaving
  <1>4. CASE ~Asked(x).live /\ Enter(x, "KeySet")
    BY <1>1, <1>4, EntersSaving
  <1> QED BY <1>2, <1>3, <1>4 DEF BeginAttestation

LEMMA BeginSuppliedSaves ==
    ASSUME IInv, SaveInv, NEW x \in DOMAIN run, BeginSupplied(x)
    PROVE  SaveInv'
  BY StartReplaysNothing, EndsWithNothing DEF BeginSupplied, Refuse

(* A run that collects.                                                    *)
LEMMA CollectingAlone ==
    ASSUME IInv, SaveInv, NEW x \in DOMAIN run, InFlight(x) \/ Collecting(x)
    PROVE  /\ x \notin Over /\ Asked(x).live /\ run[x] \in RunStates
           /\ run[x].after = {} /\ run[x].open = FALSE /\ run[x].pc \in Asking
           /\ Appraising(Asked(x), run[x])
  <1>1. run[x] \in RunStates /\ run[x].pc \in Asking /\ Asked(x).live
    BY CollectingFacts
  <1>2. Appraising(Asked(x), run[x])
    BY DEF SaveInv
  <1>3. run[x].open \in BOOLEAN
    BY <1>1 DEF RunStates
  <1> QED BY <1>1, <1>2, <1>3 DEF Appraising, Over, Asking

(* Time and requests say nothing of what is saved.                         *)
LEMMA CollectsOn ==
    ASSUME IInv, SaveInv, NEW x \in DOMAIN run, InFlight(x) \/ Collecting(x),
           NEW s, Becomes(x, s), UNCHANGED <<work, files>>, s.pc = run[x].pc,
           s.after = run[x].after, s.open = run[x].open, s.bundle = run[x].bundle
    PROVE  SaveInv'
  <1>1. /\ x \notin Over /\ Asked(x).live /\ run[x].after = {} /\ run[x].open = FALSE
        /\ run[x].pc \in Asking /\ Appraising(Asked(x), run[x])
    BY CollectingAlone
  <1>2. Appraising(Asked(x), s)
    BY <1>1 DEF Appraising, Asking
  <1> QED BY <1>1, <1>2, LiveRunMoves DEF Asking

LEMMA AskSaves ==
    ASSUME IInv, SaveInv, NEW x \in DOMAIN run, Ask(x)
    PROVE  SaveInv'
  <1>1. Collecting(x) /\ UNCHANGED <<work, files>>
    BY DEF Ask
  <1>2. /\ x \notin Over /\ Asked(x).live /\ run[x] \in RunStates
    BY <1>1, CollectingAlone
  <1>3. CASE Refuse(x)
    BY <1>1, <1>2, <1>3, LiveRefusalSaves
  <1>4. CASE Becomes(x, [run[x] EXCEPT !.until = run[x].clock + Budget(x)])
    <2> DEFINE s == [run[x] EXCEPT !.until = run[x].clock + Budget(x)]
    <2>1. /\ s.pc = run[x].pc /\ s.after = run[x].after /\ s.open = run[x].open
          /\ s.bundle = run[x].bundle
      BY <1>2 DEF RunStates
    <2> HIDE DEF s
    <2> QED BY <1>1, <1>4, <2>1, CollectsOn DEF s
  <1> QED BY <1>3, <1>4 DEF Ask

LEMMA TickSaves ==
    ASSUME IInv, SaveInv, NEW x \in DOMAIN run, Tick(x)
    PROVE  SaveInv'
  <1> DEFINE s == [run[x] EXCEPT !.clock = run[x].clock + 1]
  <1>1. InFlight(x) /\ UNCHANGED <<work, files>> /\ Becomes(x, s)
    BY DEF Tick
  <1>2. run[x] \in RunStates
    BY <1>1, CollectingAlone
  <1>3. /\ s.pc = run[x].pc /\ s.after = run[x].after /\ s.open = run[x].open
        /\ s.bundle = run[x].bundle
    BY <1>2 DEF RunStates
  <1> HIDE DEF s
  <1> QED BY <1>1, <1>3, CollectsOn

LEMMA RefusalsSave ==
    ASSUME IInv, SaveInv, NEW x \in DOMAIN run, Expire(x) \/ RequestFails(x)
    PROVE  SaveInv'
  <1>1. InFlight(x) /\ Refuse(x) /\ UNCHANGED <<work, files>>
    BY DEF Expire, RequestFails
  <1> QED BY <1>1, CollectingAlone, LiveRefusalSaves

LEMMA IdentityAnsweredSaves ==
    ASSUME IInv, SaveInv, NEW x \in DOMAIN run, IdentityAnswered(x)
    PROVE  SaveInv'
  <1>1. /\ run[x].pc = "Identity" /\ InFlight(x) /\ UNCHANGED <<work, files>>
    BY DEF IdentityAnswered, Is
  <1>2. PICK published \in 1..serving :
            Becomes(x, [run[x] EXCEPT !.pc = "Quotes", !.until = 0,
                !.bundle = [NoBundle EXCEPT !.ledger = Asked(x).policy.host,
                                            !.service = work.worlds[published].service]])
    BY DEF IdentityAnswered
  <1> DEFINE b == [NoBundle EXCEPT !.ledger = Asked(x).policy.host,
                                   !.service = work.worlds[published].service]
             s == [run[x] EXCEPT !.pc = "Quotes", !.until = 0, !.bundle = b]
  <1>3. /\ x \notin Over /\ Asked(x).live /\ run[x] \in RunStates /\ run[x].after = {}
        /\ run[x].open = FALSE /\ Appraising(Asked(x), run[x])
    BY <1>1, CollectingAlone
  <1>4. b.ledger = Asked(x).policy.host
    BY DEF NoBundle
  <1> HIDE DEF b
  <1>5. s.pc = "Quotes" /\ s.after = {} /\ s.open = FALSE /\ s.bundle = b
    BY <1>3 DEF RunStates
  <1>6. Becomes(x, s)
    BY <1>2 DEF b
  <1> HIDE DEF s
  <1>7. Appraising(Asked(x), s)
    BY <1>1, <1>3, <1>4, <1>5 DEF Appraising
  <1> QED BY <1>1, <1>3, <1>5, <1>6, <1>7, LiveRunMoves

LEMMA QuotesAnsweredSaves ==
    ASSUME IInv, SaveInv, NEW x \in DOMAIN run, QuotesAnswered(x)
    PROVE  SaveInv'
  <1> DEFINE s == [run[x] EXCEPT !.pc = "Nodes", !.until = 0, !.bundle.nodes = Service.quotes]
  <1>1. /\ run[x].pc = "Quotes" /\ InFlight(x) /\ UNCHANGED <<work, files>> /\ Becomes(x, s)
    BY DEF QuotesAnswered, Is
  <1>2. /\ x \notin Over /\ Asked(x).live /\ run[x] \in RunStates /\ run[x].after = {}
        /\ run[x].open = FALSE /\ Appraising(Asked(x), run[x])
    BY <1>1, CollectingAlone
  <1>3. /\ s.pc = "Nodes" /\ s.after = {} /\ s.open = FALSE
        /\ s.bundle.ledger = run[x].bundle.ledger
    BY <1>2 DEF RunStates, Bundles
  <1> HIDE DEF s
  <1>4. Appraising(Asked(x), s)
    BY <1>1, <1>2, <1>3 DEF Appraising
  <1> QED BY <1>1, <1>2, <1>3, <1>4, LiveRunMoves

(* What assembles is what a saved bundle is accepted for.                  *)
LEMMA AssembledIsSavable ==
    ASSUME NEW quotes \in Seq(Nodes), NEW listing \in Seq(Listings), Assembles(quotes, listing)
    PROVE  LET joined == Joined(quotes, listing)
           IN  /\ joined # <<>> /\ AllNamed(joined) /\ Distinct(joined)
               /\ \A i \in DOMAIN joined : joined[i].amd.count # 0
  <1> DEFINE joined == Joined(quotes, listing)
  <1>1. joined \in Seq(Nodes) /\ Len(joined) = Len(quotes) /\ Len(quotes) >= 1
    BY JoinedTyped DEF Assembles
  <1>2. DOMAIN joined = DOMAIN quotes
    BY DEF Joined
  <1>3. \A i \in DOMAIN quotes : quotes[i] \in Nodes
    BY ElementOfSeq
  <1>4. ASSUME NEW i \in DOMAIN quotes
        PROVE  joined[i].id = quotes[i].id /\ joined[i].amd = quotes[i].amd
    <2>1. PICK c : joined[i] = [quotes[i] EXCEPT !.cert = c]
      BY DEF Joined
    <2> QED BY <1>3, <2>1 DEF Nodes
  <1>5. joined # <<>>
    BY <1>1
  <1> HIDE DEF joined
  <1>6. AllNamed(joined) /\ Distinct(joined)
    BY <1>2, <1>4 DEF Assembles, AllNamed, Distinct
  <1>7. \A i \in DOMAIN joined : joined[i].amd.count # 0
    BY <1>2, <1>4 DEF Assembles
  <1> QED BY <1>5, <1>6, <1>7 DEF joined

LEMMA NodesAnsweredSaves ==
    ASSUME IInv, SaveInv, NEW x \in DOMAIN run, NodesAnswered(x)
    PROVE  SaveInv'
  <1> DEFINE quotes == run[x].bundle.nodes
             joined == Joined(quotes, Service.listing)
             s == [run[x] EXCEPT !.pc = AfterCollection(x), !.until = 0, !.clock = 0,
                                 !.bundle.nodes = joined]
  <1>1. run[x].pc = "Nodes" /\ InFlight(x) /\ UNCHANGED <<work, files>>
    BY DEF NodesAnswered, Is
  <1>2. /\ x \notin Over /\ Asked(x).live /\ run[x] \in RunStates /\ run[x].after = {}
        /\ run[x].open = FALSE /\ Appraising(Asked(x), run[x])
        /\ run[x].node = 1 /\ run[x].part = 1 /\ Asked(x).adapter = ACL
    BY <1>1, CollectingAlone, CollectingFacts
  <1>3. CASE Refuse(x)
    BY <1>1, <1>2, <1>3, LiveRefusalSaves
  <1>4. CASE Assembles(quotes, Service.listing) /\ Becomes(x, s)
    <2>1. quotes \in Seq(Nodes) /\ Service.listing \in Seq(Listings)
      BY <1>2, WorldsTyped DEF RunStates, Bundles, Service, Worlds
    <2>2. /\ joined # <<>> /\ AllNamed(joined) /\ Distinct(joined)
          /\ \A i \in DOMAIN joined : joined[i].amd.count # 0
          /\ joined \in Seq(Nodes)
      BY <1>4, <2>1, AssembledIsSavable, JoinedTyped
    <2> HIDE DEF joined
    <2>3. /\ s.pc = IF Asked(x).save THEN "Save" ELSE "Judge"
          /\ s.after = {} /\ s.open = FALSE /\ s.node = 1 /\ s.part = 1
          /\ s.bundle.ledger = run[x].bundle.ledger /\ s.bundle.nodes = joined
          /\ s.bundle \in Bundles
      BY <1>2, <2>2 DEF RunStates, Bundles, AfterCollection
    <2> HIDE DEF s
    <2>4. Savable(Asked(x), s.bundle, s.keyset)
      BY <1>1, <1>2, <2>2, <2>3 DEF Savable, Appraising
    <2>5. Appraising(Asked(x), s)
      BY <2>3, <2>4 DEF Appraising
    <2> QED BY <1>1, <1>2, <1>4, <2>3, <2>5, LiveRunMoves
  <1> QED BY <1>3, <1>4 DEF NodesAnswered

LEMMA CertsAnsweredSaves ==
    ASSUME IInv, SaveInv, NEW x \in DOMAIN run, CertsAnswered(x)
    PROVE  SaveInv'
  <1> DEFINE k == [current |-> TRUE, target |-> Asked(x).endpoint, object |-> TRUE,
                   keys |-> Service.keys]
             s == [run[x] EXCEPT !.pc = AfterCollection(x), !.until = 0, !.clock = 0,
                                 !.keyset = k]
  <1>1. run[x].pc = "Certs" /\ InFlight(x) /\ UNCHANGED <<work, files>> /\ Becomes(x, s)
    BY DEF CertsAnswered, Is
  <1>2. /\ x \notin Over /\ Asked(x).live /\ run[x] \in RunStates /\ run[x].after = {}
        /\ run[x].open = FALSE /\ run[x].node = 1 /\ run[x].part = 1 /\ Asked(x).adapter = MAA
    BY <1>1, CollectingAlone, CollectingFacts
  <1>3. k.current /\ k.target = Asked(x).endpoint /\ k.object
    OBVIOUS
  <1> HIDE DEF k
  <1>4. /\ s.pc = IF Asked(x).save THEN "Save" ELSE "Judge"
        /\ s.after = {} /\ s.open = FALSE /\ s.node = 1 /\ s.part = 1
        /\ s.keyset = k /\ s.bundle \in Bundles
    BY <1>2 DEF RunStates, AfterCollection
  <1> HIDE DEF s
  <1>5. MAA # ACL
    BY DEF ACL, MAA
  <1>6. Savable(Asked(x), s.bundle, s.keyset)
    BY <1>2, <1>3, <1>4, <1>5 DEF Savable
  <1>7. Appraising(Asked(x), s)
    BY <1>4, <1>6 DEF Appraising
  <1> QED BY <1>1, <1>2, <1>4, <1>7, LiveRunMoves

-----------------------------------------------------------------------------
(* What a run has saved, and a replay of it reads back.                    *)
Savings(q) == [bundle |-> run[q].bundle, keyset |-> run[q].keyset]

LEMMA ReplayFacts ==
    ASSUME IInv, SaveInv, NEW q \in DOMAIN run, NEW x \in DOMAIN run, Replays(q, x)
    PROVE  /\ Reads(run[q].bundle, run[q].keyset, Asked(x), run[x])
           /\ EvidenceInPlace(files, Asked(q), run[q])
           /\ Savable(Asked(q), run[q].bundle, run[q].keyset)
           /\ Asked(q).adapter = Asked(x).adapter
           /\ run[q].bundle \in Bundles /\ run[q].keyset \in KeySets
           /\ Rereadable(run[q].bundle) /\ Len(run[q].bundle.nodes) <= MaxSavedNodes
           /\ ~Asked(x).live /\ Asked(x).adapter \in {ACL, MAA}
           /\ run[q].result = AssessmentOf(Asked(q), run[q].bundle, run[q].keyset)
  <1>1. /\ Sole(q) /\ Replay(x) /\ SameQuestion(q, x) /\ run[q].pc = "Done"
        /\ ~Empty(run[q]) /\ Rereadable(run[q].bundle)
        /\ Len(run[q].bundle.nodes) <= MaxSavedNodes
    BY DEF Replays, Stands, Is
  <1>2. /\ Asked(q).adapter \in {ACL, MAA} /\ Asked(q).live
        /\ Asked(x).adapter \in {ACL, MAA} /\ ~Asked(x).live
        /\ Asked(q).adapter = Asked(x).adapter
    BY <1>1 DEF Sole, Saver, Replay, SameQuestion
  <1>3. Reads(run[q].bundle, run[q].keyset, Asked(x), run[x])
    BY DEF SaveInv
  <1>4. Appraising(Asked(q), run[q]) /\ Saving(files, Asked(q), run[q])
    BY <1>1 DEF SaveInv
  <1>5. EvidenceInPlace(files, Asked(q), run[q])
    BY <1>1, <1>4 DEF Saving
  <1>6. /\ Savable(Asked(q), run[q].bundle, run[q].keyset)
        /\ run[q].result = AssessmentOf(Asked(q), run[q].bundle, run[q].keyset)
    BY <1>1, <1>2, <1>4 DEF Appraising
  <1>7. run[q].bundle \in Bundles /\ run[q].keyset \in KeySets
    BY AskedTyped DEF RunStates
  <1> QED BY <1>1, <1>2, <1>3, <1>5, <1>6, <1>7

(* The ledger's files, as a replay finds them.                             *)
LEMMA SavedLedgerFacts ==
    ASSUME IInv, SaveInv, NEW q \in DOMAIN run, NEW x \in DOMAIN run, Replays(q, x),
           Asked(x).adapter = ACL
    PROVE  LET b == run[q].bundle
           IN  /\ BundleInPlace(files, b) /\ b \in Bundles /\ b.nodes \in Seq(Nodes)
               /\ b.ledger # NoHost /\ Len(b.nodes) \in 1..MaxSavedNodes
               /\ AllNamed(b.nodes) /\ Distinct(b.nodes)
               /\ \A i \in DOMAIN b.nodes : b.nodes[i].amd.count # 0
               /\ \A i \in DOMAIN b.nodes : b.nodes[i].uvm # "Oversized"
  <1> DEFINE b == run[q].bundle
  <1>1. /\ EvidenceInPlace(files, Asked(q), run[q])
        /\ Savable(Asked(q), b, run[q].keyset) /\ Asked(q).adapter = ACL
        /\ b \in Bundles /\ Rereadable(b) /\ Len(b.nodes) <= MaxSavedNodes
    BY ReplayFacts
  <1>2. BundleInPlace(files, b)
    BY <1>1 DEF EvidenceInPlace
  <1> HIDE DEF b
  <1>3. /\ b.ledger = Asked(q).policy.host /\ Routable(Asked(q).policy.host)
        /\ b.nodes # <<>> /\ AllNamed(b.nodes) /\ Distinct(b.nodes)
        /\ \A i \in DOMAIN b.nodes : b.nodes[i].amd.count # 0
    BY <1>1 DEF Savable
  <1>4. b.ledger # NoHost
    BY <1>3 DEF Routable, NoHost
  <1>5. b.nodes \in Seq(Nodes) /\ Len(b.nodes) \in Nat
    BY <1>1, LenProperties DEF Bundles
  <1>6. Len(b.nodes) # 0
    BY <1>3, <1>5, EmptySeq
  <1>7. Len(b.nodes) \in 1..MaxSavedNodes
    BY <1>1, <1>5, <1>6, BoundsAssumption
  <1>8. \A i \in DOMAIN b.nodes : b.nodes[i].uvm # "Oversized"
    BY <1>1 DEF Rereadable
  <1> QED BY <1>1, <1>2, <1>3, <1>4, <1>5, <1>7, <1>8 DEF b

(* A replay that goes on, reading what was saved if it replays a run.      *)
LEMMA ReplayGoesOn ==
    ASSUME IInv, SaveInv, NEW x \in DOMAIN run, NEW s, Becomes(x, s), UNCHANGED <<work, files>>,
           ~Asked(x).live, x \notin Over, s.pc \in {"Service", "Load", "Judge"},
           s.after = run[x].after, ~s.open,
           \A q \in DOMAIN run :
               Replays(q, x) => Reads(run[q].bundle, run[q].keyset, Asked(x), s)
    PROVE  SaveInv'
  <1>1. run[x].after \subseteq Over
    BY DEF SaveInv
  <1>2. Appraising(Asked(x), s)
    BY DEF Appraising
  <1>3. ~Sole(x)
    BY DEF Sole, Saver
  <1>4. \A q \in DOMAIN run : Stands(q, x) /\ q \in s.after => Replays(q, x)
    BY DEF Replays
  <1> QED BY <1>1, <1>2, <1>3, <1>4, OneRunMoves

LEMMA ReplayRefusalSaves ==
    ASSUME IInv, SaveInv, NEW x \in DOMAIN run, Refuse(x), UNCHANGED <<work, files>>,
           x \notin Over, \A q \in DOMAIN run : ~Replays(q, x)
    PROVE  SaveInv'
  BY EndsWithNothing DEF Refuse

LEMMA ReadsAlone ==
    ASSUME IInv, SaveInv, NEW x \in DOMAIN run,
           run[x].pc \in {"Manifest", "Service", "Load", "KeySet"}
    PROVE  /\ x \notin Over /\ ~Asked(x).live /\ run[x] \in RunStates /\ run[x].open = FALSE
           /\ Asked(x).adapter = IF run[x].pc = "KeySet" THEN MAA ELSE ACL
           /\ ACL # MAA
  <1>1. run[x] \in RunStates /\ Good(work, serving, Asked(x), run[x])
    BY AskedTyped
  <1>2. ~run[x].open /\ run[x].open \in BOOLEAN
    BY <1>1 DEF SaveInv, Appraising, RunStates
  <1> QED BY <1>1, <1>2 DEF Good, Underway, Over, ACL, MAA

LEMMA ReadManifestSaves ==
    ASSUME IInv, SaveInv, NEW x \in DOMAIN run, ReadManifest(x)
    PROVE  SaveInv'
  <1> DEFINE m == files[ManifestFile].value
             b == [ledger |-> m.ledger, service |-> 0, nodes |-> m.nodes]
             s == [run[x] EXCEPT !.pc = "Service", !.manifest = m, !.bundle = b]
  <1>1. run[x].pc = "Manifest" /\ UNCHANGED <<work, files>>
    BY DEF ReadManifest, Is
  <1>2. /\ x \notin Over /\ ~Asked(x).live /\ run[x] \in RunStates /\ run[x].open = FALSE
        /\ Asked(x).adapter = ACL
    BY <1>1, ReadsAlone
  <1>3. ASSUME NEW q \in DOMAIN run, Replays(q, x)
        PROVE  /\ Readable(ManifestFile) /\ UsableManifest(m)
               /\ m = ManifestOf(run[q].bundle)
    <2>1. /\ BundleInPlace(files, run[q].bundle)
          /\ run[q].bundle.ledger # NoHost /\ Len(run[q].bundle.nodes) \in 1..MaxSavedNodes
          /\ AllNamed(run[q].bundle.nodes) /\ Distinct(run[q].bundle.nodes)
      BY <1>2, <1>3, SavedLedgerFacts
    <2>2. ManifestFile \in DOMAIN files /\ files[ManifestFile] = Whole(ManifestOf(run[q].bundle))
      BY <2>1 DEF BundleInPlace, InPlace
    <2>3. Readable(ManifestFile) /\ m = ManifestOf(run[q].bundle)
      BY <2>2 DEF Readable, Found, Whole
    <2>4. UsableManifest(ManifestOf(run[q].bundle))
      BY <2>1 DEF UsableManifest, ManifestOf
    <2> QED BY <2>3, <2>4
  <1>4. CASE Refuse(x) /\ (~Readable(ManifestFile) \/ ~UsableManifest(m))
    BY <1>1, <1>2, <1>3, <1>4, ReplayRefusalSaves
  <1>5. CASE Becomes(x, s)
    <2> HIDE DEF m
    <2>1. b.ledger = m.ledger /\ b.nodes = m.nodes
      OBVIOUS
    <2> HIDE DEF b
    <2>2. /\ s.pc = "Service" /\ s.manifest = m /\ s.bundle = b /\ s.after = run[x].after
          /\ s.open = FALSE
      BY <1>2 DEF RunStates
    <2> HIDE DEF s
    <2>3. ASSUME NEW q \in DOMAIN run, Replays(q, x)
          PROVE  Reads(run[q].bundle, run[q].keyset, Asked(x), s)
      <3>1. /\ s.manifest = ManifestOf(run[q].bundle)
            /\ s.bundle.ledger = run[q].bundle.ledger /\ s.bundle.nodes = run[q].bundle.nodes
        BY <1>3, <2>1, <2>2, <2>3 DEF ManifestOf
      <3> QED BY <2>2, <3>1 DEF Reads
    <2> QED BY <1>1, <1>2, <1>5, <2>2, <2>3, ReplayGoesOn
  <1> QED BY <1>4, <1>5 DEF ReadManifest

LEMMA ReadServiceSaves ==
    ASSUME IInv, SaveInv, NEW x \in DOMAIN run, ReadService(x)
    PROVE  SaveInv'
  <1> DEFINE v == IF run[x].manifest.service /\ Readable(ServiceFile)
                  THEN files[ServiceFile].value ELSE 0
             s == [run[x] EXCEPT !.pc = "Load", !.bundle.service = v]
  <1>1. run[x].pc = "Service" /\ UNCHANGED <<work, files>>
    BY DEF ReadService, Is
  <1>2. /\ x \notin Over /\ ~Asked(x).live /\ run[x] \in RunStates /\ run[x].open = FALSE
        /\ Asked(x).adapter = ACL
    BY <1>1, ReadsAlone
  <1>3. ASSUME NEW q \in DOMAIN run, Replays(q, x)
        PROVE  /\ run[x].manifest.service => Found(ServiceFile)
               /\ v = run[q].bundle.service
               /\ run[x].manifest = ManifestOf(run[q].bundle)
               /\ run[x].bundle.ledger = run[q].bundle.ledger
               /\ run[x].bundle.nodes = run[q].bundle.nodes
               /\ run[q].bundle.nodes \in Seq(Nodes) /\ Len(run[q].bundle.nodes) >= 1
    <2>1. /\ BundleInPlace(files, run[q].bundle) /\ run[q].bundle.nodes \in Seq(Nodes)
          /\ Len(run[q].bundle.nodes) \in 1..MaxSavedNodes
      BY <1>2, <1>3, SavedLedgerFacts
    <2>2. /\ run[x].manifest = ManifestOf(run[q].bundle)
          /\ run[x].bundle.ledger = run[q].bundle.ledger
          /\ run[x].bundle.nodes = run[q].bundle.nodes
      BY <1>1, <1>3, ReplayFacts DEF Reads
    <2>3. run[q].bundle.service # 0 =>
              ServiceFile \in DOMAIN files /\ files[ServiceFile] = Whole(run[q].bundle.service)
      BY <2>1 DEF BundleInPlace, InPlace
    <2>4. run[x].manifest.service = (run[q].bundle.service # 0)
      BY <2>2 DEF ManifestOf
    <2>5. CASE run[q].bundle.service = 0
      <3>1. run[x].manifest.service = FALSE
        BY <2>4, <2>5
      <3>2. v = 0
        BY <3>1
      <3> HIDE DEF v
      <3> QED BY <2>1, <2>2, <2>5, <3>1, <3>2
    <2>6. CASE run[q].bundle.service # 0
      <3>a. run[x].manifest.service = TRUE
        BY <2>4, <2>6
      <3>1. Found(ServiceFile) /\ Readable(ServiceFile)
        BY <2>3, <2>6 DEF Readable, Found, Whole
      <3>2. v = files[ServiceFile].value
        BY <3>a, <3>1
      <3>3. v = run[q].bundle.service
        BY <2>3, <2>6, <3>2 DEF Whole
      <3> HIDE DEF v
      <3> QED BY <2>1, <2>2, <3>1, <3>3
    <2> QED BY <2>5, <2>6
  <1>4. CASE Refuse(x) /\ run[x].manifest.service /\ ~Found(ServiceFile)
    BY <1>1, <1>2, <1>3, <1>4, ReplayRefusalSaves
  <1>5. CASE Becomes(x, s)
    <2> HIDE DEF v
    <2>1. run[x].node = 1 /\ run[x].part = 1 /\ run[x].bundle \in Bundles
      BY <1>1, <1>2, ReadingFacts DEF Placed, RunStates
    <2>2. /\ s.pc = "Load" /\ s.manifest = run[x].manifest /\ s.after = run[x].after
          /\ s.open = FALSE /\ s.node = 1 /\ s.part = 1
          /\ s.bundle.ledger = run[x].bundle.ledger /\ s.bundle.nodes = run[x].bundle.nodes
          /\ s.bundle.service = v
      BY <1>2, <2>1 DEF RunStates, Bundles
    <2> HIDE DEF s
    <2>3. ASSUME NEW q \in DOMAIN run, Replays(q, x)
          PROVE  Reads(run[q].bundle, run[q].keyset, Asked(x), s)
      <3>1. /\ s.manifest = ManifestOf(run[q].bundle) /\ s.bundle.service = run[q].bundle.service
            /\ s.bundle.ledger = run[q].bundle.ledger /\ s.bundle.nodes = run[q].bundle.nodes
        BY <1>3, <2>2, <2>3
      <3>2. s.part <= LastPart(run[q].bundle.nodes[s.node])
        BY <2>2 DEF LastPart
      <3> QED BY <2>2, <3>1, <3>2 DEF Reads
    <2> QED BY <1>1, <1>2, <1>5, <2>2, <2>3, ReplayGoesOn
  <1> QED BY <1>4, <1>5 DEF ReadService

(* A node's file as a replay finds it: in place, and what the list says.   *)
LEMMA SavedPartFacts ==
    ASSUME IInv, SaveInv, NEW q \in DOMAIN run, NEW x \in DOMAIN run, Replays(q, x),
           run[x].pc = "Load"
    PROVE  LET part == Parts[run[x].part]
               node == run[x].manifest.nodes[run[x].node]
               name == <<Stem[node.id], part>>
           IN  /\ Found(name) /\ ~Disturbed(x, files[name], node[part])
               /\ \A value \in Bytes(part, files[name]) :
                     value = node[part] /\ ~Unloadable(part, value)
               /\ node = run[x].bundle.nodes[run[x].node]
               /\ node = run[q].bundle.nodes[run[x].node]
  <1> DEFINE b    == run[q].bundle
             n    == run[x].node
             p    == run[x].part
             part == Parts[p]
             node == run[x].manifest.nodes[n]
             name == <<Stem[node.id], part>>
  <1>1. Asked(x).adapter = ACL
    BY ReadsAlone
  <1>2. /\ BundleInPlace(files, b) /\ b.nodes \in Seq(Nodes)
        /\ \A i \in DOMAIN b.nodes : b.nodes[i].amd.count # 0
        /\ \A i \in DOMAIN b.nodes : b.nodes[i].uvm # "Oversized"
    BY <1>1, SavedLedgerFacts
  <1>3. /\ run[x].manifest = ManifestOf(b) /\ run[x].bundle.nodes = b.nodes
        /\ p <= LastPart(b.nodes[n])
    BY ReplayFacts DEF Reads
  <1>4. n \in DOMAIN run[x].manifest.nodes /\ p \in 1..4
    BY ReadingFacts DEF Placed
  <1>5. n \in DOMAIN b.nodes /\ node = b.nodes[n] /\ node = run[x].bundle.nodes[n]
    BY <1>3, <1>4 DEF ManifestOf
  <1>6. LastPart(b.nodes[n]) \in {3, 4} /\ p \in 1..LastPart(b.nodes[n])
    BY <1>3, <1>4 DEF LastPart
  <1>7. NodeInPlace(files, b.nodes[n], LastPart(b.nodes[n]))
    BY <1>2, <1>5 DEF BundleInPlace
  <1>8. name \in DOMAIN files /\ files[name] = Whole(node[part])
    BY <1>5, <1>6, <1>7 DEF NodeInPlace, InPlace
  <1>9. part = "uvm" => node[part] # "Oversized"
    BY <1>2, <1>5
  <1>10. part = "amd" => node[part].count # 0
    BY <1>2, <1>5
  <1> HIDE DEF name, node, part, n, p, b
  <1>11. files[name].whole /\ files[name].value = node[part]
    BY <1>8 DEF Whole
  <1>12. Found(name) /\ ~Disturbed(x, files[name], node[part])
    BY <1>8, <1>11 DEF Found, Disturbed
  <1>13. \A value \in Bytes(part, files[name]) : value = node[part]
    BY <1>11 DEF Bytes
  <1>14. ~Unloadable(part, node[part])
    BY <1>9, <1>10 DEF Unloadable
  <1> QED BY <1>5, <1>12, <1>13, <1>14, Zenon DEF name, node, part, n, p, b

LEMMA SameGiven ==
    ASSUME NEW s \in RunStates, NEW n \in 1..Len(s.bundle.nodes), NEW part \in 1..4
    PROVE  Given(s, n, part, s.bundle.nodes[n][Parts[part]]) = s
  <1> DEFINE old   == s.bundle.nodes
             value == old[n][Parts[part]]
  <1>1. s.bundle \in Bundles /\ old \in Seq(Nodes) /\ n \in 1..Len(old)
    BY DEF RunStates, Bundles
  <1>2. old[n] \in Nodes
    BY <1>1, ElementOfSeq
  <1>3. value \in Contents[Parts[part]]
    BY <1>2, PartsAre
  <1> HIDE DEF old, value
  <1>4. Replaced(old, n, part, value) = old
    BY <1>1, <1>3, ReplacedTyped DEF value
  <1>5. [s.bundle EXCEPT !.nodes = old] = s.bundle
    BY <1>1 DEF Bundles, old
  <1>6. Given(s, n, part, value) = [s EXCEPT !.bundle = s.bundle]
    BY <1>4, <1>5 DEF Given, old
  <1>7. [s EXCEPT !.bundle = s.bundle] = s
    BY DEF RunStates
  <1> QED BY <1>6, <1>7 DEF value, old

LEMMA AfterPartIs ==
    ASSUME NEW x, NEW value
    PROVE  LET t    == Given(run[x], run[x].node, run[x].part, value)
               last == LastPart(run[x].manifest.nodes[run[x].node])
           IN  AfterPart(x, value) =
                   IF t.part < last THEN [t EXCEPT !.part = t.part + 1]
                   ELSE IF t.node < Len(t.bundle.nodes)
                   THEN [t EXCEPT !.node = t.node + 1, !.part = 1]
                   ELSE Ready(t)
  <1> DEFINE t    == Given(run[x], run[x].node, run[x].part, value)
             last == LastPart(run[x].manifest.nodes[run[x].node])
             u    == [run[x] EXCEPT !.bundle.nodes[run[x].node][Parts[run[x].part]] = value]
  <1>1. u = t
    BY DEF Given, Replaced
  <1> HIDE DEF t
  <1>2. AfterPart(x, value) =
            IF u.part < last THEN [u EXCEPT !.part = @ + 1]
            ELSE IF u.node < Len(u.bundle.nodes)
            THEN [u EXCEPT !.node = @ + 1, !.part = 1]
            ELSE Ready(u)
    BY DEF AfterPart, LastPart
  <1> HIDE DEF u, last
  <1>3. /\ [t EXCEPT !.part = @ + 1] = [t EXCEPT !.part = t.part + 1]
        /\ [t EXCEPT !.node = @ + 1, !.part = 1] = [t EXCEPT !.node = t.node + 1, !.part = 1]
    OBVIOUS
  <1> QED BY <1>1, <1>2, <1>3 DEF t, last

(* Where a run is after a file, whatever it read.                          *)
LEMMA AfterPartGoesOn ==
    ASSUME NEW x, run[x] \in RunStates, run[x].pc = "Load", run[x].open = FALSE, NEW value
    PROVE  LET s == AfterPart(x, value)
           IN  s.pc \in {"Load", "Judge"} /\ s.after = run[x].after /\ s.open = FALSE
  <1> DEFINE t    == Given(run[x], run[x].node, run[x].part, value)
             last == LastPart(run[x].manifest.nodes[run[x].node])
  <1>1. t = [run[x] EXCEPT !.bundle = t.bundle]
    BY DEF Given, RunStates
  <1>2. PICK w : t = [run[x] EXCEPT !.bundle = w]
    BY <1>1
  <1> HIDE DEF t
  <1>3. /\ DOMAIN t = DOMAIN run[x] /\ t.pc = "Load" /\ t.after = run[x].after
        /\ t.open = FALSE
    BY <1>2 DEF RunStates
  <1>4. {"pc", "after", "open", "part", "node", "manifest"} \subseteq DOMAIN t
    BY <1>3 DEF RunStates
  <1>5. /\ [t EXCEPT !.part = t.part + 1].pc = "Load"
        /\ [t EXCEPT !.part = t.part + 1].after = run[x].after
        /\ [t EXCEPT !.part = t.part + 1].open = FALSE
    BY <1>3, <1>4
  <1>6. /\ [t EXCEPT !.node = t.node + 1, !.part = 1].pc = "Load"
        /\ [t EXCEPT !.node = t.node + 1, !.part = 1].after = run[x].after
        /\ [t EXCEPT !.node = t.node + 1, !.part = 1].open = FALSE
    BY <1>3, <1>4
  <1>7. Ready(t).pc = "Judge" /\ Ready(t).after = run[x].after /\ Ready(t).open = FALSE
    BY <1>3, <1>4 DEF Ready
  <1>8. AfterPart(x, value) =
            IF t.part < last THEN [t EXCEPT !.part = t.part + 1]
            ELSE IF t.node < Len(t.bundle.nodes)
            THEN [t EXCEPT !.node = t.node + 1, !.part = 1]
            ELSE Ready(t)
    BY AfterPartIs, Zenon DEF t
  <1> HIDE DEF last
  <1> QED BY <1>5, <1>6, <1>7, <1>8

LEMMA ReplayReadsPart ==
    ASSUME IInv, SaveInv, NEW q \in DOMAIN run, NEW x \in DOMAIN run, Replays(q, x),
           run[x].pc = "Load"
    PROVE  Reads(run[q].bundle, run[q].keyset, Asked(x),
                 AfterPart(x, run[x].bundle.nodes[run[x].node][Parts[run[x].part]]))
  <1> DEFINE b == run[q].bundle
             t == run[x]
             s == AfterPart(x, t.bundle.nodes[t.node][Parts[t.part]])
             last == LastPart(b.nodes[t.node])
  <1> SUFFICES Reads(b, run[q].keyset, Asked(x), s)
    OBVIOUS
  <1>1. /\ t \in RunStates /\ t.node \in DOMAIN t.manifest.nodes /\ t.part \in 1..4
        /\ Len(t.bundle.nodes) = Len(t.manifest.nodes)
    BY ReadingFacts DEF Placed
  <1>2. /\ t.manifest = ManifestOf(b) /\ t.bundle.ledger = b.ledger /\ t.bundle.nodes = b.nodes
        /\ t.bundle.service = b.service /\ t.part <= last /\ b \in Bundles
    BY ReplayFacts DEF Reads
  <1>3. t.bundle \in Bundles /\ t.bundle.nodes \in Seq(Nodes) /\ Len(b.nodes) \in Nat
    BY <1>1, <1>2, LenProperties DEF RunStates, Bundles
  <1>4. t.bundle = b
    BY <1>2, <1>3 DEF Bundles
  <1>5. t.manifest.nodes = b.nodes /\ t.node \in 1..Len(b.nodes)
    BY <1>1, <1>2, <1>3, LenProperties DEF ManifestOf
  <1>6. Given(t, t.node, t.part, t.bundle.nodes[t.node][Parts[t.part]]) = t
    BY <1>1, <1>2, <1>5, SameGiven
  <1>7. s = IF t.part < last THEN [t EXCEPT !.part = t.part + 1]
            ELSE IF t.node < Len(b.nodes) THEN [t EXCEPT !.node = t.node + 1, !.part = 1]
            ELSE Ready(t)
    BY <1>2, <1>5, <1>6, AfterPartIs, Zenon
  <1>8. Asked(x).adapter = ACL
    BY ReadsAlone
  <1>9. last \in {3, 4} /\ \A i : LastPart(b.nodes[i]) >= 1
    BY DEF LastPart
  <1> HIDE DEF s, last
  <1>10. CASE t.part < last
    <2>1. s = [t EXCEPT !.part = t.part + 1]
      BY <1>7, <1>10
    <2>2. /\ s.pc = "Load" /\ s.manifest = t.manifest /\ s.bundle = t.bundle
          /\ s.node = t.node /\ s.part = t.part + 1
      BY <1>1, <2>1 DEF RunStates
    <2>3. s.part <= LastPart(b.nodes[s.node])
      BY <1>1, <1>9, <1>10, <2>2 DEF last
    <2> QED BY <1>2, <2>2, <2>3 DEF Reads
  <1>11. CASE ~(t.part < last) /\ t.node < Len(b.nodes)
    <2>1. s = [t EXCEPT !.node = t.node + 1, !.part = 1]
      BY <1>7, <1>11
    <2>2. /\ s.pc = "Load" /\ s.manifest = t.manifest /\ s.bundle = t.bundle
          /\ s.part = 1
      BY <1>1, <2>1 DEF RunStates
    <2>3. s.part <= LastPart(b.nodes[s.node])
      BY <2>2 DEF LastPart
    <2> QED BY <1>2, <2>2, <2>3 DEF Reads
  <1>12. CASE ~(t.part < last) /\ ~(t.node < Len(b.nodes))
    <2>1. s = Ready(t)
      BY <1>7, <1>12
    <2>2. s.pc = "Judge" /\ s.bundle = t.bundle
      BY <1>1, <2>1 DEF Ready, RunStates
    <2> QED BY <1>4, <1>8, <2>2 DEF Reads
  <1> QED BY <1>10, <1>11, <1>12

LEMMA ReadPartSaves ==
    ASSUME IInv, SaveInv, NEW x \in DOMAIN run, ReadPart(x)
    PROVE  SaveInv'
  <1> DEFINE part == Parts[run[x].part]
             node == run[x].manifest.nodes[run[x].node]
             name == <<Stem[node.id], part>>
  <1>1. run[x].pc = "Load" /\ UNCHANGED <<work, files>>
    BY Zenon DEF ReadPart, Is
  <1>2. /\ x \notin Over /\ ~Asked(x).live /\ run[x] \in RunStates /\ run[x].open = FALSE
    BY <1>1, ReadsAlone
  <1>3. ASSUME NEW q \in DOMAIN run, Replays(q, x)
        PROVE  /\ Found(name) /\ ~Disturbed(x, files[name], node[part])
               /\ \A value \in Bytes(part, files[name]) :
                     value = node[part] /\ ~Unloadable(part, value)
               /\ node = run[x].bundle.nodes[run[x].node]
    BY <1>1, <1>3, SavedPartFacts
  <1>4. CASE /\ Refuse(x)
             /\ \/ ~Found(name) \/ Disturbed(x, files[name], node[part])
                \/ \E value \in Bytes(part, files[name]) : Unloadable(part, value)
    <2>1. \A q \in DOMAIN run : ~Replays(q, x)
      BY <1>3, <1>4, Zenon
    <2> QED BY <1>1, <1>2, <1>4, <2>1, ReplayRefusalSaves, Zenon
  <1>5. CASE \E value \in Bytes(part, files[name]) : Becomes(x, AfterPart(x, value))
    <2>1. PICK value \in Bytes(part, files[name]) : Becomes(x, AfterPart(x, value))
      BY <1>5
    <2> DEFINE s == AfterPart(x, value)
    <2>2. s.pc \in {"Load", "Judge"} /\ s.after = run[x].after /\ s.open = FALSE
      BY <1>1, <1>2, AfterPartGoesOn
    <2>3. ASSUME NEW q \in DOMAIN run, Replays(q, x)
          PROVE  Reads(run[q].bundle, run[q].keyset, Asked(x), s)
      <3>1. value = run[x].bundle.nodes[run[x].node][part]
        BY <1>3, <2>1, <2>3, Zenon
      <3> QED BY <1>1, <2>3, <3>1, ReplayReadsPart
    <2> HIDE DEF s
    <2> QED BY <1>1, <1>2, <2>1, <2>2, <2>3, ReplayGoesOn DEF s
  <1> QED BY <1>4, <1>5, Zenon DEF ReadPart

LEMMA ReadKeysSaves ==
    ASSUME IInv, SaveInv, NEW x \in DOMAIN run, ReadKeys(x)
    PROVE  SaveInv'
  <1> DEFINE keys == files[KeysFile].value
             s == Ready([run[x] EXCEPT !.keyset = keys])
  <1>1. run[x].pc = "KeySet" /\ UNCHANGED <<work, files>>
    BY DEF ReadKeys, Is
  <1>2. /\ x \notin Over /\ ~Asked(x).live /\ run[x] \in RunStates /\ run[x].open = FALSE
        /\ Asked(x).adapter = MAA /\ ACL # MAA
    BY <1>1, ReadsAlone
  <1>3. ASSUME NEW q \in DOMAIN run, Replays(q, x)
        PROVE  Readable(KeysFile) /\ keys = run[q].keyset
    <2>1. EvidenceInPlace(files, Asked(q), run[q]) /\ Asked(q).adapter = MAA
      BY <1>2, <1>3, ReplayFacts
    <2>2. KeysFile \in DOMAIN files /\ files[KeysFile] = Whole(run[q].keyset)
      BY <1>2, <2>1 DEF EvidenceInPlace, InPlace
    <2> QED BY <2>2 DEF Readable, Found, Whole
  <1>4. CASE Refuse(x) /\ ~Readable(KeysFile)
    BY <1>1, <1>2, <1>3, <1>4, ReplayRefusalSaves
  <1>5. CASE Becomes(x, s)
    <2> HIDE DEF keys
    <2>1. /\ s.pc = "Judge" /\ s.keyset = keys /\ s.after = run[x].after /\ s.open = FALSE
      BY <1>2 DEF Ready, RunStates
    <2> HIDE DEF s
    <2>2. ASSUME NEW q \in DOMAIN run, Replays(q, x)
          PROVE  Reads(run[q].bundle, run[q].keyset, Asked(x), s)
      BY <1>2, <1>3, <2>1, <2>2 DEF Reads
    <2> QED BY <1>1, <1>2, <1>5, <2>1, <2>2, ReplayGoesOn
  <1> QED BY <1>4, <1>5 DEF ReadKeys

LEMMA JudgeSaves ==
    ASSUME IInv, SaveInv, NEW x \in DOMAIN run, Judge(x)
    PROVE  SaveInv'
  <1> DEFINE s == [Fresh EXCEPT !.pc = "Done", !.result = Assess(x), !.bundle = run[x].bundle,
                                !.keyset = run[x].keyset, !.after = run[x].after]
  <1>1. run[x].pc = "Judge" /\ UNCHANGED <<work, files>> /\ Becomes(x, s)
    BY DEF Judge, Conclude, Is
  <1>2. Assess(x) = AssessmentOf(Asked(x), run[x].bundle, run[x].keyset)
    BY DEF Assess, AssessmentOf
  <1>3. /\ s.pc = "Done" /\ s.bundle = run[x].bundle /\ s.keyset = run[x].keyset
        /\ s.after = run[x].after /\ s.open = FALSE
        /\ s.result = AssessmentOf(Asked(x), s.bundle, s.keyset)
    BY <1>2 DEF Fresh
  <1> HIDE DEF s
  <1>4. x \notin Over /\ Appraising(Asked(x), run[x]) /\ run[x].after \subseteq Over
    BY <1>1 DEF SaveInv, Over
  <1>5. Appraising(Asked(x), s)
    BY <1>1, <1>3, <1>4 DEF Appraising
  <1>6. ASSUME Sole(x) PROVE Saving(files', Asked(x), s) /\ Begun(x)'
    <2>1. EvidenceInPlace(files, Asked(x), run[x])
      BY <1>1, <1>6 DEF SaveInv, Saving
    <2>2. Saving(files', Asked(x), s)
      BY <1>1, <1>3, <2>1 DEF Saving, EvidenceInPlace
    <2>3. run'[x] = s
      BY <1>1 DEF Becomes, IInv, TypeOK
    <2> QED BY <1>3, <2>2, <2>3 DEF Begun
  <1>7. ASSUME NEW q \in DOMAIN run, Stands(q, x), q \in s.after
        PROVE  Reads(run[q].bundle, run[q].keyset, Asked(x), s)
    <2>1. Replays(q, x) /\ Asked(q).adapter = Asked(x).adapter
      BY <1>3, <1>7 DEF Replays, Stands, SameQuestion
    <2>2. Reads(run[q].bundle, run[q].keyset, Asked(x), run[x])
      BY <2>1 DEF SaveInv
    <2> QED BY <1>1, <1>3, <2>2 DEF Reads
  <1> QED BY <1>1, <1>3, <1>4, <1>5, <1>6, <1>7, OneRunMoves

-----------------------------------------------------------------------------
(* A run that saves.  A file written leaves the others as they are, and    *)
(* the other files of the same bundle have other names.                    *)
LEMMA OthersStay ==
    ASSUME NEW name, NEW f, Put(name, f), NEW other, NEW value, InPlace(files, other, value),
           other # name
    PROVE  InPlace(files', other, value)
  BY DEF Put, InPlace

LEMMA PutIsThere ==
    ASSUME NEW name, NEW f, Put(name, f)
    PROVE  name \in DOMAIN files' /\ files'[name] = f
  BY DEF Put

LEMMA NodeStays ==
    ASSUME NEW name, NEW f, Put(name, f), NEW node, NEW last \in 0..4,
           NodeInPlace(files, node, last),
           \A p \in 1..last : <<Stem[node.id], Parts[p]>> # name
    PROVE  NodeInPlace(files', node, last)
  BY OthersStay DEF NodeInPlace

LEMMA PartsDiffer ==
    /\ \A p, o \in 1..4 : Parts[p] = Parts[o] => p = o
    /\ \A p \in 1..4 : Parts[p] \notin {"service", "manifest", "keys"}
  <1>1. /\ Parts[1] = "report" /\ Parts[2] = "amd" /\ Parts[3] = "uvm" /\ Parts[4] = "cert"
    BY DEF Parts
  <1>2. \A p \in 1..4 : p = 1 \/ p = 2 \/ p = 3 \/ p = 4
    OBVIOUS
  <1> QED BY <1>1, <1>2

LEMMA SavingFacts ==
    ASSUME IInv, SaveInv, NEW x \in DOMAIN run, Is(x, "Save")
    PROVE  /\ Saver(x) /\ x \notin Over /\ run[x].after = {} /\ run[x] \in RunStates
           /\ Appraising(Asked(x), run[x]) /\ run[x].bundle \in Bundles
           /\ run[x].bundle.nodes \in Seq(Nodes) /\ Len(run[x].bundle.nodes) \in Nat
           /\ DOMAIN run[x].bundle.nodes = 1..Len(run[x].bundle.nodes)
           /\ run[x].node \in Nat \ {0} /\ run[x].part \in Nat /\ Asked(x).live
           /\ run[x].pc = "Save"
  <1>1. /\ run[x] \in RunStates /\ run[x].pc = "Save" /\ Asked(x).adapter \in {ACL, MAA}
        /\ Asked(x).live /\ run[x].node \in Nat \ {0} /\ run[x].bundle \in Bundles
    BY SaveFacts
  <1>2. Appraising(Asked(x), run[x])
    BY DEF SaveInv
  <1>3. run[x].after = {} /\ Asked(x).save
    BY <1>1, <1>2 DEF Appraising
  <1>4. Saver(x) /\ x \notin Over
    BY <1>1, <1>3 DEF Saver, Over
  <1>5. /\ run[x].bundle.nodes \in Seq(Nodes) /\ Len(run[x].bundle.nodes) \in Nat
        /\ DOMAIN run[x].bundle.nodes = 1..Len(run[x].bundle.nodes)
    BY <1>1, LenProperties DEF Bundles
  <1>6. run[x].part \in Nat
    BY <1>1 DEF RunStates
  <1> QED BY <1>1, <1>2, <1>3, <1>4, <1>5, <1>6

(* A live run that goes on from a save.                                    *)
LEMMA SaverMoves ==
    ASSUME IInv, SaveInv, NEW x \in DOMAIN run, Is(x, "Save"), NEW s, Becomes(x, s),
           UNCHANGED work, s.pc \in {"Save", "Judge"}, s.after = {}, s.open => s.pc = "Save",
           s.bundle = run[x].bundle, s.keyset = run[x].keyset,
           Sole(x) => Saving(files', Asked(x), s) /\ Begun(x)'
    PROVE  SaveInv'
  <1>1. /\ Saver(x) /\ x \notin Over /\ Appraising(Asked(x), run[x]) /\ Asked(x).live
        /\ run[x].pc = "Save"
    BY SavingFacts
  <1>2. Appraising(Asked(x), s)
    BY <1>1 DEF Appraising
  <1>3. \A q \in DOMAIN run : ~Stands(q, x)
    BY <1>1, LiveReplaysNothing
  <1> QED BY <1>1, <1>2, <1>3, OneRunMoves

(* The file being written is none of those of the same run before it.      *)
LEMMA WritesAnother ==
    ASSUME IInv, SaveInv, NEW x \in DOMAIN run, Is(x, "Save"), Asked(x).adapter = ACL,
           SavingBundle(files, run[x]), AtNode(x) => Apart(run[x].bundle.nodes, run[x].node),
           NEW f, Put(Writing(x).name, f)
    PROVE  /\ \A i \in DOMAIN run[x].bundle.nodes : i < run[x].node =>
                 NodeInPlace(files', run[x].bundle.nodes[i], LastPart(run[x].bundle.nodes[i]))
           /\ AtNode(x) => NodeInPlace(files', ThisNode(x), run[x].part - 1)
           /\ ~AtNode(x) /\ run[x].part = 2 => InPlace(files', ServiceFile, run[x].bundle.service)
  <1> DEFINE nodes == run[x].bundle.nodes
             n     == run[x].node
             p     == run[x].part
             name  == Writing(x).name
  <1>1. /\ nodes \in Seq(Nodes) /\ Len(nodes) \in Nat /\ DOMAIN nodes = 1..Len(nodes)
        /\ n \in Nat \ {0} /\ p \in Nat
    BY SavingFacts
  <1>2. AtNode(x) <=> n <= Len(nodes)
    BY DEF AtNode
  <1>3. n <= Len(nodes) => p \in 1..4
    BY SaveFacts
  <1>4. /\ \A i \in DOMAIN nodes : i < n => NodeInPlace(files, nodes[i], LastPart(nodes[i]))
        /\ n <= Len(nodes) => NodeInPlace(files, nodes[n], p - 1)
        /\ n > Len(nodes) /\ p = 2 => InPlace(files, ServiceFile, run[x].bundle.service)
    BY DEF SavingBundle
  <1>5. ACL # MAA
    BY DEF ACL, MAA
  <1>6. AtNode(x) => name = <<Stem[nodes[n].id], Parts[p]>>
    BY <1>5 DEF Writing, NodeFile, ThisNode
  <1>7. ~AtNode(x) => name = IF p = 1 /\ run[x].bundle.service # 0
                             THEN ServiceFile ELSE ManifestFile
    BY <1>5 DEF Writing
  <1>8. ~AtNode(x) => name[2] \in {"service", "manifest"}
    BY <1>7, FileNames
  <1>9. \A i : LastPart(nodes[i]) \in {3, 4}
    BY DEF LastPart
  <1>10. AtNode(x) => \A i \in 1..(n - 1) : Stem[nodes[i].id] # Stem[nodes[n].id]
    BY DEF Apart
  <1> HIDE DEF nodes, n, p, name
  <1>11. ASSUME NEW i \in DOMAIN nodes, i < n
         PROVE  NodeInPlace(files', nodes[i], LastPart(nodes[i]))
    <2>1. \A o \in 1..LastPart(nodes[i]) : o \in 1..4
      BY <1>9
    <2>2. ASSUME NEW o \in 1..LastPart(nodes[i]) PROVE <<Stem[nodes[i].id], Parts[o]>> # name
      <3>1. CASE AtNode(x)
        <4>1. i \in 1..(n - 1)
          BY <1>1, <1>11
        <4> QED BY <1>6, <1>10, <3>1, <4>1
      <3>2. CASE ~AtNode(x)
        BY <1>8, <2>1, <3>2, PartsDiffer
      <3> QED BY <3>1, <3>2
    <2>3. NodeInPlace(files, nodes[i], LastPart(nodes[i])) /\ LastPart(nodes[i]) \in 0..4
      BY <1>4, <1>9, <1>11
    <2> QED BY <2>2, <2>3, NodeStays DEF name
  <1>12. ASSUME AtNode(x)
         PROVE  NodeInPlace(files', nodes[n], p - 1)
    <2>1. p \in 1..4 /\ p - 1 \in 0..4
      BY <1>2, <1>3, <1>12
    <2>2. ASSUME NEW o \in 1..(p - 1) PROVE <<Stem[nodes[n].id], Parts[o]>> # name
      <3>1. o \in 1..4 /\ o # p
        BY <2>1
      <3> QED BY <1>6, <1>12, <2>1, <3>1, PartsDiffer
    <2>3. NodeInPlace(files, nodes[n], p - 1)
      BY <1>2, <1>4, <1>12
    <2> QED BY <2>1, <2>2, <2>3, NodeStays DEF name
  <1>13. ASSUME ~AtNode(x), p = 2
         PROVE  InPlace(files', ServiceFile, run[x].bundle.service)
    <2>1. name = ManifestFile
      BY <1>7, <1>13
    <2>2. InPlace(files, ServiceFile, run[x].bundle.service)
      BY <1>1, <1>2, <1>4, <1>13
    <2> QED BY <2>1, <2>2, FileNames, OthersStay DEF name
  <1> QED BY <1>11, <1>12, <1>13 DEF nodes, n, p, ThisNode

LEMMA OpenFileSaves ==
    ASSUME IInv, SaveInv, NEW x \in DOMAIN run, OpenFile(x)
    PROVE  SaveInv'
  <1> DEFINE s == [run[x] EXCEPT !.open = TRUE]
  <1>1. Is(x, "Save") /\ UNCHANGED work
    BY DEF OpenFile
  <1>2. /\ Saver(x) /\ x \notin Over /\ run[x].after = {} /\ run[x] \in RunStates
        /\ Asked(x).live /\ run[x].pc = "Save" /\ run[x].node \in Nat \ {0}
        /\ Len(run[x].bundle.nodes) \in Nat
    BY <1>1, SavingFacts
  <1>3. CASE Refuse(x) /\ UNCHANGED files
    BY <1>1, <1>2, <1>3, LiveRefusalSaves
  <1>4. CASE /\ MayOpen(x) /\ Put(Writing(x).name, Torn(Writing(x).value))
             /\ Becomes(x, s)
    <2>1. /\ s.pc = "Save" /\ s.after = {} /\ s.open = TRUE /\ s.bundle = run[x].bundle
          /\ s.keyset = run[x].keyset /\ s.node = run[x].node /\ s.part = run[x].part
      BY <1>2 DEF RunStates
    <2> HIDE DEF s
    <2>2. run'[x] = s
      BY <1>4 DEF Becomes, IInv, TypeOK
    <2>3. Writing(x)' = Writing(x)
      BY <1>1, <2>1, <2>2 DEF Writing, AtNode, NodeFile, ThisNode, Asked
    <2>4. Begun(x)'
      BY <1>4, <2>3, PutIsThere DEF Begun
    <2>5. ASSUME Sole(x) PROVE Saving(files', Asked(x), s)
      <3>1. ASSUME Asked(x).adapter = ACL PROVE SavingBundle(files', s)
        <4>1. SavingBundle(files, run[x])
          BY <1>2, <2>5, <3>1 DEF SaveInv, Saving
        <4>2. Nameable(x)
          BY <1>4, <3>1 DEF MayOpen, ACL, MAA
        <4>3. AtNode(x) => Apart(run[x].bundle.nodes, run[x].node)
          BY <4>2 DEF Nameable, Apart, ThisNode
        <4>4. /\ \A i \in DOMAIN run[x].bundle.nodes : i < run[x].node =>
                    NodeInPlace(files', run[x].bundle.nodes[i], LastPart(run[x].bundle.nodes[i]))
              /\ AtNode(x) => NodeInPlace(files', ThisNode(x), run[x].part - 1)
              /\ ~AtNode(x) /\ run[x].part = 2 => InPlace(files', ServiceFile, run[x].bundle.service)
          BY <1>1, <1>4, <3>1, <4>1, <4>3, WritesAnother
        <4>5. (AtNode(x) <=> run[x].node <= Len(run[x].bundle.nodes))
              /\ (run[x].node > Len(run[x].bundle.nodes) => ~AtNode(x))
          BY <1>2 DEF AtNode
        <4> QED BY <2>1, <4>1, <4>3, <4>4, <4>5 DEF SavingBundle, ThisNode
      <3> QED BY <2>1, <3>1 DEF Saving
    <2> QED BY <1>1, <1>4, <2>1, <2>4, <2>5, SaverMoves
  <1> QED BY <1>3, <1>4 DEF OpenFile

(* A file that is written: the bundle goes on by one file, or is complete. *)
LEMMA FileWritten ==
    ASSUME IInv, SaveInv, NEW x \in DOMAIN run, Is(x, "Save"), Asked(x).adapter = ACL,
           Sole(x), run[x].open, Put(Writing(x).name, Whole(Writing(x).value))
    PROVE  /\ Writing(x).name = ManifestFile => BundleInPlace(files', run[x].bundle)
           /\ Writing(x).name # ManifestFile => SavingBundle(files', Forward(run[x]))
  <1> DEFINE b     == run[x].bundle
             nodes == run[x].bundle.nodes
             n     == run[x].node
             p     == run[x].part
             name  == Writing(x).name
             s     == Forward(run[x])
  <1>1. /\ nodes \in Seq(Nodes) /\ Len(nodes) \in Nat /\ DOMAIN nodes = 1..Len(nodes)
        /\ n \in Nat \ {0} /\ p \in Nat /\ run[x] \in RunStates /\ run[x].pc = "Save"
    BY SavingFacts
  <1>2. SavingBundle(files, run[x])
    BY <1>1 DEF SaveInv, Saving
  <1>3. AtNode(x) <=> n <= Len(nodes)
    BY DEF AtNode
  <1>4. AtNode(x) => Apart(nodes, n)
    BY <1>2, <1>3 DEF SavingBundle
  <1>5. /\ \A i \in DOMAIN nodes : i < n => NodeInPlace(files', nodes[i], LastPart(nodes[i]))
        /\ AtNode(x) => NodeInPlace(files', nodes[n], p - 1)
        /\ ~AtNode(x) /\ p = 2 => InPlace(files', ServiceFile, b.service)
    BY <1>2, <1>4, WritesAnother DEF ThisNode
  <1>6. InPlace(files', name, Writing(x).value)
    BY PutIsThere DEF InPlace
  <1>7. ACL # MAA
    BY DEF ACL, MAA
  <1>8. AtNode(x) => /\ name = <<Stem[nodes[n].id], Parts[p]>>
                     /\ Writing(x).value = nodes[n][Parts[p]]
    BY <1>7 DEF Writing, NodeFile, ThisNode
  <1>9. ~AtNode(x) => IF p = 1 /\ b.service # 0
                      THEN name = ServiceFile /\ Writing(x).value = b.service
                      ELSE name = ManifestFile /\ Writing(x).value = ManifestOf(b)
    BY <1>7 DEF Writing
  <1>10. AtNode(x) => p \in 1..4 /\ p <= LastPart(nodes[n])
    BY <1>2, <1>3, SaveFacts DEF SavingBundle
  <1>11. AtNode(x) => name # ManifestFile
    BY <1>8, <1>10, FileNames, PartsDiffer
  <1>12. ~AtNode(x) => p \in {1, 2}
    BY <1>1, <1>2, <1>3 DEF SavingBundle
  <1>13. \A i : LastPart(nodes[i]) \in {3, 4}
    BY DEF LastPart
  <1>14. s = IF n > Len(nodes) \/ p < LastPart(nodes[n])
             THEN [run[x] EXCEPT !.part = p + 1, !.open = FALSE]
             ELSE [run[x] EXCEPT !.node = n + 1, !.part = 1, !.open = FALSE]
    BY DEF Forward
  <1> HIDE DEF name, s
  <1>15. ASSUME name = ManifestFile PROVE BundleInPlace(files', b)
    <2>1. ~AtNode(x) /\ InPlace(files', ManifestFile, ManifestOf(b))
      BY <1>6, <1>9, <1>11, <1>15, FileNames
    <2>2. \A i \in DOMAIN nodes : i < n
      BY <1>1, <1>3, <2>1
    <2>3. b.service # 0 => p = 2
      BY <1>9, <1>12, <1>15, <2>1, FileNames
    <2> QED BY <1>5, <2>1, <2>2, <2>3 DEF BundleInPlace
  <1>16. ASSUME AtNode(x), p < LastPart(nodes[n]) PROVE SavingBundle(files', s)
    <2>1. s = [run[x] EXCEPT !.part = p + 1, !.open = FALSE]
      BY <1>14, <1>16
    <2>2. s.bundle = b /\ s.node = n /\ s.part = p + 1 /\ s.open = FALSE
      BY <1>1, <2>1 DEF RunStates
    <2>3. NodeInPlace(files', nodes[n], p)
      <3>1. ASSUME NEW o \in 1..p
            PROVE  InPlace(files', <<Stem[nodes[n].id], Parts[o]>>, nodes[n][Parts[o]])
        <4>1. CASE o = p
          BY <1>6, <1>8, <1>16, <4>1
        <4>2. CASE o # p
          <5>1. o \in 1..(p - 1)
            BY <1>1, <4>2
          <5> QED BY <1>5, <1>16, <5>1 DEF NodeInPlace
        <4> QED BY <4>1, <4>2
      <3> QED BY <3>1 DEF NodeInPlace
    <2>4. s.part <= LastPart(nodes[n]) /\ s.part - 1 = p /\ n <= Len(nodes)
      <3>1. PICK m \in {3, 4} : m = LastPart(nodes[n])
        BY <1>13
      <3>2. p \in Nat /\ s.part = p + 1 /\ p < m
        BY <1>1, <1>16, <2>2, <3>1
      <3>3. s.part <= m /\ s.part - 1 = p
        BY <3>2
      <3> QED BY <1>3, <1>16, <3>1, <3>3
    <2>5. ~(n > Len(nodes))
      BY <1>1, <2>4
    <2> QED BY <1>5, <2>2, <2>3, <2>4, <2>5 DEF SavingBundle
  <1>17. ASSUME AtNode(x), ~(p < LastPart(nodes[n])) PROVE SavingBundle(files', s)
    <2>1. s = [run[x] EXCEPT !.node = n + 1, !.part = 1, !.open = FALSE]
      BY <1>1, <1>3, <1>14, <1>17
    <2>2. s.bundle = b /\ s.node = n + 1 /\ s.part = 1 /\ s.open = FALSE
      BY <1>1, <2>1 DEF RunStates
    <2>3. LastPart(nodes[n]) = p
      BY <1>10, <1>13, <1>17
    <2>4. NodeInPlace(files', nodes[n], LastPart(nodes[n]))
      <3>1. ASSUME NEW o \in 1..p
            PROVE  InPlace(files', <<Stem[nodes[n].id], Parts[o]>>, nodes[n][Parts[o]])
        <4>1. CASE o = p
          BY <1>6, <1>8, <1>17, <4>1
        <4>2. CASE o # p
          <5>1. o \in 1..(p - 1)
            BY <1>1, <4>2
          <5> QED BY <1>5, <1>17, <5>1 DEF NodeInPlace
        <4> QED BY <4>1, <4>2
      <3> QED BY <2>3, <3>1 DEF NodeInPlace
    <2>5. \A i \in DOMAIN nodes : i < s.node => NodeInPlace(files', nodes[i], LastPart(nodes[i]))
      <3>1. \A i \in DOMAIN nodes : i < s.node => i < n \/ i = n
        BY <1>1, <2>2
      <3> QED BY <1>5, <2>4, <3>1
    <2>6. s.part <= LastPart(nodes[s.node])
      BY <2>2 DEF LastPart
    <2>7. NodeInPlace(files', nodes[s.node], s.part - 1)
      <3>1. s.part - 1 = 0 /\ 1..0 = {}
        BY <2>2
      <3> QED BY <3>1 DEF NodeInPlace
    <2> QED BY <2>2, <2>5, <2>6, <2>7 DEF SavingBundle
  <1>18. ASSUME ~AtNode(x), name # ManifestFile PROVE SavingBundle(files', s)
    <2>1. p = 1 /\ InPlace(files', ServiceFile, b.service) /\ n > Len(nodes)
      BY <1>1, <1>3, <1>6, <1>9, <1>18
    <2>2. s = [run[x] EXCEPT !.part = p + 1, !.open = FALSE]
      BY <1>14, <2>1
    <2>3. s.bundle = b /\ s.node = n /\ s.part = 2
      BY <1>1, <2>1, <2>2 DEF RunStates
    <2>4. ~(n <= Len(nodes))
      BY <1>1, <2>1
    <2> QED BY <1>5, <2>1, <2>3, <2>4 DEF SavingBundle
  <1>19. name # ManifestFile => SavingBundle(files', s)
    BY <1>16, <1>17, <1>18
  <1> QED BY <1>15, <1>19 DEF name, s

LEMMA WriteFileSaves ==
    ASSUME IInv, SaveInv, NEW x \in DOMAIN run, WriteFile(x)
    PROVE  SaveInv'
  <1> DEFINE w    == Writing(x)
             last == w.name \in {ManifestFile, KeysFile}
             s    == IF last THEN Ready(run[x]) ELSE Forward(run[x])
  <1>1. Is(x, "Save") /\ UNCHANGED work /\ Becomes(x, s) /\ run[x].open
    BY DEF WriteFile
  <1>2. /\ run[x].after = {} /\ run[x] \in RunStates /\ run[x].pc = "Save"
        /\ Asked(x).adapter \in {ACL, MAA} /\ ACL # MAA
    BY <1>1, SavingFacts, SaveFacts DEF ACL, MAA
  <1>3. /\ s.pc = IF last THEN "Judge" ELSE "Save"
        /\ s.after = {} /\ s.open = FALSE /\ s.bundle = run[x].bundle
        /\ s.keyset = run[x].keyset
    <2> HIDE DEF last
    <2>1. CASE last
      BY <1>2, <2>1 DEF Ready, RunStates
    <2>2. CASE ~last
      <3>1. \/ s = [run[x] EXCEPT !.part = @ + 1, !.open = FALSE]
            \/ s = [run[x] EXCEPT !.node = @ + 1, !.part = 1, !.open = FALSE]
        BY <2>2 DEF Forward
      <3> HIDE DEF s
      <3> QED BY <1>2, <2>2, <3>1 DEF RunStates
    <2> QED BY <2>1, <2>2
  <1>4. ASSUME Sole(x) PROVE Saving(files', Asked(x), s)
    <2>1. w.name \in DOMAIN files /\ files[w.name] = Torn(w.value)
      BY <1>1, <1>4 DEF SaveInv, Begun
    <2>2. ~Mixed(x)
      BY <2>1 DEF Mixed, Torn
    <2>3. Put(w.name, Whole(w.value))
      BY <2>2 DEF WriteFile
    <2>4. CASE Asked(x).adapter = MAA
      <3>1. w.name = KeysFile /\ w.value = run[x].keyset
        BY <2>4 DEF Writing
      <3>2. InPlace(files', KeysFile, run[x].keyset)
        BY <2>3, <3>1, PutIsThere DEF InPlace
      <3>3. EvidenceInPlace(files', Asked(x), s)
        BY <1>2, <1>3, <2>4, <3>2 DEF EvidenceInPlace
      <3>4. s.pc = "Judge"
        BY <1>3, <3>1
      <3> HIDE DEF s
      <3> QED BY <3>3, <3>4 DEF Saving
    <2>5. CASE Asked(x).adapter = ACL
      <3>1. /\ w.name = ManifestFile => BundleInPlace(files', run[x].bundle)
            /\ w.name # ManifestFile => SavingBundle(files', Forward(run[x]))
        BY <1>1, <1>4, <2>3, <2>5, FileWritten
      <3>2. w.name # KeysFile
        <4>1. ASSUME AtNode(x) PROVE w.name # KeysFile
          <5>1. w.name = <<Stem[ThisNode(x).id], Parts[run[x].part]>>
            BY <1>2, <2>5, <4>1 DEF Writing, NodeFile
          <5>2. run[x].part \in 1..4
            BY <1>1, <4>1, SaveFacts DEF AtNode
          <5> HIDE DEF w
          <5> QED BY <5>1, <5>2, FileNames, PartsDiffer
        <4>2. ~AtNode(x) => w.name \in {ServiceFile, ManifestFile}
          BY <1>2, <2>5 DEF Writing
        <4> HIDE DEF w
        <4> QED BY <4>1, <4>2, FileNames
      <3>3. last <=> w.name = ManifestFile
        BY <3>2
      <3>4. CASE last
        <4>1. s.pc = "Judge"
          BY <1>3, <3>4
        <4>2. EvidenceInPlace(files', Asked(x), s)
          BY <1>3, <2>5, <3>1, <3>3, <3>4 DEF EvidenceInPlace
        <4> HIDE DEF s
        <4> QED BY <4>1, <4>2 DEF Saving
      <3>5. CASE ~last
        <4>1. s.pc = "Save" /\ SavingBundle(files', s)
          BY <1>3, <3>1, <3>3, <3>5
        <4> HIDE DEF s
        <4> QED BY <4>1 DEF Saving
      <3> QED BY <3>4, <3>5
    <2> QED BY <1>2, <2>4, <2>5
  <1> HIDE DEF s, last
  <1>5. run'[x] = s
    BY <1>1 DEF Becomes, IInv, TypeOK
  <1>6. Begun(x)'
    BY <1>3, <1>5 DEF Begun
  <1> QED BY <1>1, <1>3, <1>4, <1>6, SaverMoves

LEMMA SaveFailsSaves ==
    ASSUME IInv, SaveInv, NEW x \in DOMAIN run, SaveFails(x)
    PROVE  SaveInv'
  <1>1. Is(x, "Save") /\ Refuse(x) /\ UNCHANGED work
    BY DEF SaveFails
  <1> QED BY <1>1, SavingFacts, LiveRefusalSaves

LEMMA KillSaves ==
    ASSUME IInv, SaveInv, NEW x \in DOMAIN run, Kill(x)
    PROVE  SaveInv'
  <1> DEFINE s == [Fresh EXCEPT !.pc = "Killed", !.bundle = run[x].bundle,
                                !.keyset = run[x].keyset, !.after = run[x].after]
  <1>1. Is(x, "Save") /\ UNCHANGED <<work, files>> /\ Becomes(x, s)
    BY DEF Kill
  <1>2. /\ Saver(x) /\ x \notin Over /\ run[x].after = {} /\ Asked(x).live
    BY <1>1, SavingFacts
  <1>3. s.pc = "Killed" /\ s.after = {} /\ s.open = FALSE
    BY <1>2 DEF Fresh
  <1> HIDE DEF s
  <1>4. run'[x] = s
    BY <1>1 DEF Becomes, IInv, TypeOK
  <1>5. Appraising(Asked(x), s) /\ Saving(files', Asked(x), s) /\ Begun(x)'
    BY <1>3, <1>4 DEF Appraising, Saving, Begun
  <1>6. \A q \in DOMAIN run : ~Stands(q, x)
    BY <1>2, LiveReplaysNothing
  <1> QED BY <1>1, <1>2, <1>3, <1>5, <1>6, OneRunMoves

-----------------------------------------------------------------------------
LEMMA NobodySaves ==
    ASSUME SaveInv, UNCHANGED <<work, files, run>>
    PROVE  SaveInv'
  <1>1. /\ \A r : Asked(r)' = Asked(r) /\ Saver(r)' = Saver(r) /\ Replay(r)' = Replay(r)
        /\ \A r : Sole(r)' = Sole(r)
        /\ \A q, r : SameQuestion(q, r)' = SameQuestion(q, r)
    BY QuestionsStay
  <1>2. Over' = Over
    BY DEF Over
  <1>3. \A q : Writing(q)' = Writing(q)
    BY <1>1 DEF Writing, AtNode, NodeFile, ThisNode
  <1>4. \A q : Begun(q)' = Begun(q)
    BY <1>3 DEF Begun, Is
  <1>5. \A q, r : Replays(q, r)' = Replays(q, r)
    BY <1>1 DEF Replays, Stands, Is
  <1> QED BY <1>1, <1>2, <1>4, <1>5 DEF SaveInv

LEMMA ProgramSaves ==
    ASSUME IInv, SaveInv, NEW x \in DOMAIN run, Program(x)
    PROVE  SaveInv'
  BY BeginLedgerSaves, BeginAttestationSaves, BeginSuppliedSaves, AskSaves, RefusalsSave,
     OpenFileSaves, WriteFileSaves, ReadManifestSaves, ReadServiceSaves, ReadPartSaves,
     ReadKeysSaves, JudgeSaves DEF Program

LEMMA PeersSave ==
    ASSUME IInv, SaveInv, NEW x \in DOMAIN run, Peers(x)
    PROVE  SaveInv'
  BY RefusalsSave, IdentityAnsweredSaves, QuotesAnsweredSaves, NodesAnsweredSaves,
     CertsAnsweredSaves DEF Peers

LEMMA StepSaves ==
    ASSUME IInv, SaveInv, [Next]_vars
    PROVE  SaveInv'
  <1>1. CASE \E x \in DOMAIN run : Program(x) \/ Tick(x) \/ Peers(x) \/ SaveFails(x) \/ Kill(x)
    BY <1>1, ProgramSaves, TickSaves, PeersSave, SaveFailsSaves, KillSaves
  <1>2. CASE Advance \/ AllOver \/ UNCHANGED vars
    BY <1>2, NobodySaves DEF Advance, AllOver, vars
  <1> QED BY <1>1, <1>2 DEF Next

(* In every reachable state the directory holds, file by file, what the    *)
(* one run that saves into it has got to, and all of it once that run has  *)
(* appraised anything; and a replay begun after has read just that.        *)
THEOREM SavingInvariant == Spec => []SaveInv
  BY SavingStarts, StepSaves, AppraisalInvariant, PTL DEF Spec

(* The checks of an attestation do not say whether it was saved.           *)
LEMMA ChecksAreOfTheEvidence ==
    ASSUME NEW target, NEW claim, NEW keyset
    PROVE  AppraiseAttestation(target, claim, keyset, TRUE).checks =
           AppraiseAttestation(target, claim, keyset, FALSE).checks
  <1>1. \A adapter, state, m, n :
            Report(adapter, state, m).checks = Report(adapter, state, n).checks
    BY DEF Report
  <1> QED BY <1>1 DEF AppraiseAttestation

(* What a live run of a ledger or of an attestation service saved, a       *)
(* replay of the same question over that directory, begun when the run was *)
(* over, appraises to the same state of every check, whatever the service, *)
(* the clock and the other replays did meanwhile.                          *)
THEOREM SavedIsReplayed == Spec => []SavedReplays
  <1>1. ASSUME IInv, SaveInv PROVE SavedReplays
    <2> SUFFICES ASSUME NEW q \in DOMAIN run, NEW r \in DOMAIN run,
                        Saver(q), Replay(r), SameQuestion(q, r), q \in run[r].after,
                        Is(q, "Done"), Is(r, "Done"),
                        <<run[q].bundle, run[q].keyset>> # <<NoBundle, NoKeySet>>,
                        \A s \in DOMAIN run : Saver(s) => s = q,
                        Rereadable(run[q].bundle),
                        Len(run[q].bundle.nodes) <= MaxSavedNodes
                 PROVE  run[r].result.checks = run[q].result.checks
      BY DEF SavedReplays
    <2>1. Replays(q, r)
      BY <1>1 DEF Replays, Stands, Sole, Empty
    <2>2. /\ Reads(run[q].bundle, run[q].keyset, Asked(r), run[r])
          /\ run[q].result = AssessmentOf(Asked(q), run[q].bundle, run[q].keyset)
          /\ Asked(q).adapter = Asked(r).adapter /\ Asked(r).adapter \in {ACL, MAA}
          /\ ~Asked(r).live
      BY <1>1, <2>1, ReplayFacts
    <2>3. run[r].result = AssessmentOf(Asked(r), run[r].bundle, run[r].keyset)
      BY <2>2 DEF Reads, Is
    <2>4. /\ Asked(q).claim = Asked(r).claim /\ Asked(q).live
          /\ IF Asked(q).adapter = MAA THEN Asked(q).endpoint = Asked(r).policy.target
             ELSE Asked(q).policy = Asked(r).policy
      BY DEF SameQuestion, Saver
    <2>5. Asked(q) \in Requests /\ Asked(r) \in Requests /\ ACL # MAA
      BY <1>1, AskedTyped DEF ACL, MAA
    <2>6. CASE Asked(q).adapter = ACL
      <3>1. run[r].bundle = run[q].bundle
        BY <2>2, <2>6 DEF Reads, Is
      <3> QED BY <2>2, <2>3, <2>4, <2>5, <2>6, <3>1 DEF AssessmentOf
    <2>7. CASE Asked(q).adapter = MAA
      <3>1. run[r].keyset = run[q].keyset
        BY <2>2, <2>5, <2>7 DEF Reads, Is
      <3>2. Asked(q).endpoint # NoHost /\ Asked(r).endpoint = NoHost
        BY <2>2, <2>4, <2>5, <2>7, KeysAsked
      <3>3. /\ Target(Asked(q).policy, Asked(q).endpoint) = Asked(q).endpoint
            /\ Target(Asked(r).policy, Asked(r).endpoint) = Asked(q).endpoint
        BY <2>4, <2>7, <3>2 DEF Target
      <3>4. /\ run[q].result = AppraiseAttestation(Asked(q).endpoint, Asked(q).claim,
                                                   run[q].keyset, FALSE)
            /\ run[r].result = AppraiseAttestation(Asked(q).endpoint, Asked(q).claim,
                                                   run[q].keyset, TRUE)
        <4>1. /\ Asked(q).adapter # ACL /\ Asked(r).adapter # ACL
              /\ (~Asked(q).live) = FALSE /\ (~Asked(r).live) = TRUE
          BY <2>2, <2>4, <2>5, <2>7
        <4> QED BY <2>2, <2>3, <2>4, <3>1, <3>3, <4>1 DEF AssessmentOf
      <3>5. AppraiseAttestation(Asked(q).endpoint, Asked(q).claim, run[q].keyset, TRUE).checks =
            AppraiseAttestation(Asked(q).endpoint, Asked(q).claim, run[q].keyset, FALSE).checks
        BY ChecksAreOfTheEvidence
      <3> QED BY <3>4, <3>5
    <2> QED BY <2>2, <2>6, <2>7
  <1> QED BY <1>1, AppraisalInvariant, SavingInvariant, PTL
=============================================================================
