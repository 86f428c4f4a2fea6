------------------------------ MODULE MCVerify ------------------------------
(***************************************************************************)
(* Verify on small sets of inputs, the documented statements about its     *)
(* output, and the mutated definitions each property is tested against.    *)
(***************************************************************************)
EXTENDS Verify, TLC

Given == [statement |-> TRUE, policy |-> TRUE, keys |-> TRUE, online |-> FALSE,
          ledger |-> FALSE, saveTrust |-> FALSE, trustedRoots |-> FALSE,
          artifact |-> FALSE, mode |-> "None", adapter |-> "None", evidence |-> FALSE,
          saveEvidence |-> FALSE, maaEndpoint |-> FALSE, result |-> NoPath, facts |-> NoPath]

(* Every combination of the flags that reach evaluate, accepted or not.    *)
MCRequests ==
    {[Given EXCEPT !.keys = k, !.online = o, !.trustedRoots = t, !.artifact = a,
                   !.mode = m, !.adapter = n, !.evidence = e, !.maaEndpoint = p] :
        k \in BOOLEAN, o \in BOOLEAN, t \in BOOLEAN, a \in BOOLEAN, e \in BOOLEAN,
        p \in BOOLEAN, m \in BindingModes,
        n \in {"None", "AzureAttestation", "AmdSnpDevice"}}

MCPolicies ==
    {[adapters |-> a, rootSourcesValid |-> v] :
        a \in {{}, {"AzureAttestation"}, {"AmdSnpDevice"},
               {"AzureAttestation", "AmdSnpDevice"}},
        v \in BOOLEAN}

Good    == [lookup |-> "Found", root |-> "Yes", bound |-> "Yes"]
Broken  == [lookup |-> "Found", root |-> "No", bound |-> "No"]
Unknown == [lookup |-> "UnknownKid", root |-> "Unknown", bound |-> "Yes"]

(* One receipt, none, or a receipt that proves nothing appended to one     *)
(* that does; a chain in every outcome under either signature.             *)
MCStatements ==
    {[sig |-> s, chain |-> c, certs |-> TRUE, receipts |-> r, unevaluable |-> <<>>] :
        s \in Trilean, c \in {"None", "Valid", "Anchored", "Invalid", "Unsupported"},
        r \in {<<>>, <<Good>>, <<Good, Unknown>>, <<Broken>>}}
    \cup {[sig |-> "Unknown", chain |-> "Insufficient", certs |-> FALSE,
           receipts |-> <<Good>>, unevaluable |-> <<"Unreadable">>]}

Result(rule, outcome, anchored, material) ==
    [rule |-> rule, outcome |-> outcome, anchored |-> anchored, material |-> material]

MCDecisions ==
    {<<>>,
     <<Result("plain", "Pass", FALSE, FALSE)>>,
     <<Result("chainRootSource", "Pass", TRUE, TRUE)>>,
     <<Result("externalSignatures", "Pass", FALSE, FALSE)>>,
     <<Result("plain", "CannotEvaluate", FALSE, FALSE), Result("plain", "Fail", FALSE, FALSE)>>,
     <<Result("plain", "Pass", FALSE, FALSE), Result("plain", "CannotEvaluate", FALSE, FALSE)>>}

Asked(acquired, failed, roots) ==
    [attempted |-> TRUE, present |-> TRUE, acquired |-> acquired, failed |-> failed,
     roots |-> roots]
OneLedger == <<[ambiguous |-> TRUE, config |-> FALSE]>>

MCAcquisitions ==
    {Asked(OneLedger, <<>>, <<"Acquired">>), Asked(OneLedger, <<"Transport">>, <<"MalformedRoots">>),
     Asked(<<>>, <<"UnsupportedPlatform">>, <<>>)}

MCRequired == <<"evidence", "target">>
Report(e, t) ==
    [ran |-> TRUE, required |-> MCRequired, notes |-> 0,
     checks |-> <<[name |-> "evidence", state |-> e], [name |-> "target", state |-> t]>>]

(* All pass; one fails; one unanswered; a duplicate; nothing required.     *)
MCAppraisals ==
    {Report("Pass", "Pass"), Report("Pass", "Fail"), Report("CannotEvaluate", "Pass"),
     [Report("Pass", "Pass") EXCEPT !.checks = Append(@, [name |-> "target", state |-> "Pass"])],
     [Report("Pass", "Pass") EXCEPT !.required = <<>>, !.notes = 1]}

-----------------------------------------------------------------------------
(* docs/output.md: the primary diagnostic "names the one that decided the  *)
(* verdict".  For exit 1 that is a finding that indicts the statement; for *)
(* a statement accepted in every other respect it is what the policy, the  *)
(* comparison or the adapter left unanswered.                              *)
Assessed == pc = "Done" /\ assessment.checks.policy # "NotChecked"

PrimaryDecidedTheVerdict ==
    Assessed =>
        /\ assessment.verdict = "Untrusted" =>
              assessment.primary.code \in {"StatementSignatureInvalid",
                 "ArtifactBindingMismatch", "CertificateChainInvalid"}
        /\ assessment.verdict = "CannotEvaluate" /\ ~Unanswered(facts, args.trustedRoots) =>
              assessment.primary.code \in
                 IF ~DecisionSatisfied(decision)
                 THEN {"PolicyAssertionUnevaluable", "PolicyProducedNoAssertions"}
                 ELSE {"ArtifactBindingUnevaluable", "ResourceAppraisalIncomplete"}

(* docs/output.md: "Configuration faults are knowable before any packet is *)
(* sent, so they are usage errors" (exit 4).                               *)
ConfigurationFaultIsUsageError ==
    Assessed /\ acquisition.acquired = <<>>
             /\ (\E i \in DOMAIN acquisition.failed :
                     acquisition.failed[i] \in ConfigurationFaults) =>
        assessment.verdict \in {"UsageError", "Untrusted"}
=============================================================================
