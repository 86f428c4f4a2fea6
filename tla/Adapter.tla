------------------------------ MODULE Adapter ------------------------------
(***************************************************************************)
(* What every evidence adapter answers: the checks it names, which of them *)
(* a pass requires, the assessment it returns when nothing was appraised   *)
(* (adapters/mod.rs and the head of each adapter), and the vocabulary of   *)
(* platforms the four share.  An assessment has the fields that Outcome's  *)
(* Narrow and Blocking read.                                               *)
(***************************************************************************)
EXTENDS Outcome

CheckNames ==
    [AzureConfidentialLedger |->
        <<"ledger-identity-binding", "snp-uvm-validation", "cce-policy-host-data",
          "node-coverage", "freshness", "connection-binding">>,
     AzureAttestation  |-> <<"snp-validation", "cce-policy-host-data",
                             "maa-certificate-coverage">>,
     ImageReproduction |-> <<"reproduction-claim", "source-repository", "record-binding",
                             "rebuild-inputs", "rebuild-layers">>,
     AmdSnpDevice      |-> <<"device-claim", "snp-report", "tcb-floor", "freshness",
                             "device-binding">>]

Adapters == DOMAIN CheckNames

(* A ledger's reports can be neither fresh nor tied to a connection: the   *)
(* last two of its checks bound the claim and are never required.          *)
RequiredNames ==
    [CheckNames EXCEPT !.AzureConfidentialLedger =
        <<"ledger-identity-binding", "snp-uvm-validation", "cce-policy-host-data",
          "node-coverage">>]

NamesOf(adapter) == {CheckNames[adapter][i] : i \in DOMAIN CheckNames[adapter]}

(* Every appraisal starts with nothing established.                        *)
Unevaluated(adapter) == [n \in NamesOf(adapter) |-> "CannotEvaluate"]

Checks      == [name : UNION {NamesOf(a) : a \in Adapters}, state : CheckStates]
Assessments == [ran : BOOLEAN, checks : Seq(Checks),
                required : Seq(UNION {NamesOf(a) : a \in Adapters}), notes : Nat]

Report(adapter, state, notes) ==
    [ran      |-> TRUE,
     checks   |-> [i \in DOMAIN CheckNames[adapter] |->
                      [name  |-> CheckNames[adapter][i],
                       state |-> state[CheckNames[adapter][i]]]],
     required |-> RequiredNames[adapter],
     notes    |-> notes]

(* The reason is a note; Azure Attestation adds what was to be compared.   *)
NotAttempted(adapter) ==
    Report(adapter, Unevaluated(adapter), IF adapter = "AzureAttestation" THEN 2 ELSE 1)

(* An inability with one finding: a comparison that ran and disagreed.     *)
Disagreed(adapter, check) ==
    Report(adapter, [Unevaluated(adapter) EXCEPT ![check] = "Fail"], 1)

(* The findings on one check, rolled up: one failure fails it, and it      *)
(* passes only when there are findings and all of them pass.               *)
Roll(states) == IF "Fail" \in states THEN "Fail"
                ELSE IF states = {"Pass"} THEN "Pass" ELSE "CannotEvaluate"

StateOf(r, check) == r.checks[CHOOSE i \in DOMAIN r.checks : r.checks[i].name = check].state

(* A TCB is compared component by component: one ahead in one and behind   *)
(* in another is not at least the floor.                                   *)
Generations == {"milan", "genoa", "turin"}
AtLeast(tcb, floor) == \A i \in DOMAIN floor : tcb[i] >= floor[i]

(* A host as an operator or a collector wrote it; names are numbers, 0 is  *)
(* none.  "Spelled" is a URL, a trailing dot or another case, "Foreign" a  *)
(* bare name no provider covers.                                           *)
HostForms == {"Plain", "Spelled", "Foreign"}
Hosts     == [name : Nat, form : HostForms]
Routable(host)      == host.form = "Plain"
SameHost(one, other) == one.name = other.name
=============================================================================
