-------------------------------- MODULE Cli --------------------------------
(***************************************************************************)
(* cli::parse for the verify command: which command lines are accepted,    *)
(* and what an accepted one asks for.  A flag that is a path or a name is  *)
(* TRUE when it was given.  Output paths are kept apart, because the       *)
(* command line is refused when one would land in a directory this run     *)
(* saves into; "link" is a path that is a dangling symbolic link when the  *)
(* command line is parsed, so that canonicalising it tells nothing.        *)
(***************************************************************************)
EXTENDS Naturals

BindingModes == {"None", "PayloadBytes", "PayloadDigest", "SavedEvidence", "LiveEvidence"}
AdapterNames == {"AzureAttestation", "AzureConfidentialLedger", "ImageReproduction",
                 "AmdSnpDevice"}

ArtifactMode(mode) == mode \in {"PayloadBytes", "PayloadDigest"}
EvidenceMode(mode) == mode \in {"SavedEvidence", "LiveEvidence"}

(* A file is named by the directory it is in, what it holds and a number.  *)
Files    == [dir : {"none", "trust", "evidence", "elsewhere"}, kind : STRING, n : Nat]
OutPaths == [file : Files, link : BOOLEAN]
NoPath   == [file |-> [dir |-> "none", kind |-> "none", n |-> 0], link |-> FALSE]

CommandLines ==
    [statement : BOOLEAN, policy : BOOLEAN, keys : BOOLEAN, online : BOOLEAN,
     ledger : BOOLEAN, saveTrust : BOOLEAN, trustedRoots : BOOLEAN,
     artifact : BOOLEAN, mode : BindingModes, adapter : AdapterNames \cup {"None"},
     evidence : BOOLEAN, saveEvidence : BOOLEAN, maaEndpoint : BOOLEAN,
     result : OutPaths, facts : OutPaths]

(* within: the comparison is made on what canonicalises, so a path that is *)
(* still dangling is placed where the link is, not where it points.        *)
Within(dir, path) == path.file.dir = dir /\ ~path.link

(***************************************************************************)
(* The refusals, grouped as the code groups them.                          *)
(***************************************************************************)
TrustAccepted(c) ==
    /\ c.statement /\ c.policy
    /\ c.keys # c.online                       \* exactly one source of keys
    /\ (c.ledger \/ c.saveTrust) => c.online   \* online-only flags

ArtifactAccepted(c) ==
    /\ c.artifact <=> ArtifactMode(c.mode)
    /\ EvidenceMode(c.mode) <=> c.adapter # "None"

LiveMaa(c) == c.adapter = "AzureAttestation" /\ c.mode = "LiveEvidence"

EvidenceAccepted(c) ==
    /\ c.adapter \in {"ImageReproduction", "AmdSnpDevice"} => c.mode # "LiveEvidence"
    /\ c.evidence <=> c.mode = "SavedEvidence"
    /\ c.maaEndpoint <=> LiveMaa(c)
    /\ c.mode = "LiveEvidence" => c.online
    /\ c.saveEvidence => c.mode = "LiveEvidence"

OutputsAccepted(c) ==
    \A path \in {c.result, c.facts} :
        /\ c.saveEvidence => ~Within("evidence", path)
        /\ c.saveTrust    => ~Within("trust", path)

Accepted(c) == /\ TrustAccepted(c)
               /\ ArtifactAccepted(c)
               /\ EvidenceAccepted(c)
               /\ OutputsAccepted(c)
=============================================================================
