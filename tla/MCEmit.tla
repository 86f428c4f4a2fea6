------------------------------- MODULE MCEmit -------------------------------
(***************************************************************************)
(* Emit on two ledgers and two root sources, every choice of outputs and   *)
(* every snapshot an earlier run may have left.                            *)
(***************************************************************************)
EXTENDS Emit, TLC

Record1 == [dir |-> "elsewhere", kind |-> "record", n |-> 1]
Facts1  == [dir |-> "elsewhere", kind |-> "facts",  n |-> 1]

MCAllFiles == {TrustFile("keys", 1), TrustFile("cert", 1), TrustFile("config", 1),
               TrustFile("keys", 2), TrustFile("cert", 2), TrustFile("root", 2),
               Manifest, EvidenceFile, Record1, Facts1}

MCPriorTrust == {{}, {TrustFile("cert", 2)}, {TrustFile("root", 2)}, {Manifest}}

Plain(file)    == [file |-> file, link |-> FALSE]
Dangling(file) == [file |-> file, link |-> TRUE]

Block == [attempted |-> TRUE, present |-> TRUE, failed |-> <<>>,
          acquired |-> <<[ambiguous |-> FALSE, config |-> TRUE],
                         [ambiguous |-> FALSE, config |-> FALSE]>>,
          roots |-> <<"Transport", "Acquired">>]

Given == [statement |-> TRUE, policy |-> TRUE, keys |-> FALSE, online |-> TRUE,
          ledger |-> FALSE, saveTrust |-> FALSE, trustedRoots |-> FALSE,
          artifact |-> FALSE, mode |-> "LiveEvidence",
          adapter |-> "AzureConfidentialLedger", evidence |-> FALSE,
          saveEvidence |-> FALSE, maaEndpoint |-> FALSE, result |-> NoPath, facts |-> NoPath]

(* An evidence bundle is saved only for an accepted statement, and a run   *)
(* that could not save it did not pass.  A run that had already failed and *)
(* a run that prints JSON (no transcript) are tried with fewer outputs.    *)
MCJobs ==
    {j \in [args : {c \in
                {[Given EXCEPT !.saveTrust = s, !.saveEvidence = e, !.result = r, !.facts = f] :
                    s \in BOOLEAN, e \in BOOLEAN,
                    r \in {NoPath, Plain(Record1), Plain(Manifest), Dangling(TrustFile("cert", 1)),
                           Dangling(EvidenceFile)},
                    f \in {NoPath, Plain(Facts1), Plain(Record1), Dangling(Manifest)}} :
                    Accepted(c)},
            verdict : {"ResourceTransparent", "Untrusted"},
            acquisition : {Block, NothingAcquired(FALSE, TRUE), NothingAcquired(FALSE, FALSE)},
            text : BOOLEAN,
            collected : BOOLEAN] :
        /\ j.collected => j.args.saveEvidence
        /\ j.verdict = "ResourceTransparent" =>
              j.acquisition = Block /\ (j.args.saveEvidence <=> j.collected)
        /\ j.verdict = "Untrusted" =>
              ~j.collected /\ j.args.result = Plain(Record1) /\ j.args.facts = NoPath
        /\ ~j.text => j.args.facts = NoPath}

=============================================================================
