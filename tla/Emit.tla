-------------------------------- MODULE Emit --------------------------------
(***************************************************************************)
(* The end of a run: main.rs emit, save_trust, demote and write_json, one  *)
(* action per file operation, each of which can fail and leave the file as *)
(* it was or torn.  The file system is what a later replay reads, so it is *)
(* modelled file by file; a file is named by where it is (see Cli).        *)
(***************************************************************************)
EXTENDS Cli, Outcome

CONSTANTS
    Jobs,          \* [args, verdict, acquisition, text, collected]
    PriorTrust,    \* the trust files an earlier run may have left: sets of files
    AllFiles       \* the files of the model

JobRecords == [args : CommandLines, verdict : Verdicts, acquisition : AcquisitionBlocks,
               text : BOOLEAN, collected : BOOLEAN]

TrustFile(kind, n) == [dir |-> "trust", kind |-> kind, n |-> n]
Manifest           == TrustFile("manifest", 0)
EvidenceFile       == [dir |-> "evidence", kind |-> "snapshot", n |-> 0]

(* One group per issuer, per acquired root bundle, and the manifest: the   *)
(* files of a group are checked together before the first is written.      *)
IssuerFiles(a, i) ==
    <<TrustFile("keys", i), TrustFile("cert", i)>>
    \o (IF a.acquired[i].config THEN <<TrustFile("config", i)>> ELSE <<>>)

RootFiles(a) ==
    LET acquired == SelectSeq([i \in 1..Len(a.roots) |-> i],
                              LAMBDA i : a.roots[i] = "Acquired")
    IN  [k \in DOMAIN acquired |-> <<TrustFile("root", acquired[k])>>]

Plan(a) == [i \in 1..Len(a.acquired) |-> IssuerFiles(a, i)] \o RootFiles(a) \o <<<<Manifest>>>>

SnapshotFiles == {f \in AllFiles : /\ f.dir = "trust"
                                   /\ f.kind \in {"keys", "cert", "config", "root", "manifest"}}
Groups        == {g \in Seq(SnapshotFiles) : g # <<>>}

ASSUME AllFilesAssumption   == AllFiles \subseteq Files
ASSUME PriorTrustAssumption == \A old \in PriorTrust : old \subseteq AllFiles
ASSUME JobsAssumption ==
    /\ Jobs \subseteq JobRecords
    /\ \A j \in Jobs :
          /\ Accepted(j.args)
          /\ j.args.result = NoPath \/ j.args.result.file \in AllFiles
          /\ j.args.facts  = NoPath \/ j.args.facts.file  \in AllFiles
          /\ j.acquisition.present => Plan(j.acquisition) \in Seq(Groups)

Contents == {"absent", "old", "torn", "keys", "cert", "config", "root", "manifest",
             "snapshot", "facts", "PassRecord", "FailRecord"}

VARIABLES
    job,           \* what evaluate handed over; never changes
    pc, fs,
    todo, checked, \* save_trust: the groups left to write; the first one is clear
    produced,      \* the trust files this run has written or begun to write
    trustFiles,    \* what save_trust returned
    verdict, missed,
    exit

vars == <<job, pc, fs, todo, checked, produced, trustFiles, verdict, missed, exit>>
saving == <<todo, checked, produced>>

Running == 9
Wanted  == {"stdout"} \cup (IF job.text THEN {"transcript"} ELSE {})
                      \cup (IF job.args.saveTrust THEN {"trust"} ELSE {})
                      \cup (IF job.args.facts  # NoPath THEN {"facts"} ELSE {})
                      \cup (IF job.args.result # NoPath THEN {"result"} ELSE {})

(* The evidence bundle, when there is one, was saved by the adapter.       *)
Init == /\ job \in Jobs
        /\ \E old \in PriorTrust :
              /\ fs = [f \in AllFiles |->
                          IF f \in old THEN "old"
                          ELSE IF f = EvidenceFile /\ job.collected THEN "snapshot"
                          ELSE "absent"]
              /\ \A path \in {job.args.result, job.args.facts} : path.link => path.file \notin old
        /\ pc = "Transcript"
        /\ todo = <<>> /\ checked = FALSE /\ produced = {} /\ trustFiles = {}
        /\ verdict = job.verdict
        /\ missed = {}
        /\ exit = Running

-----------------------------------------------------------------------------
(* demote: a lost output takes a pass away; a run that already failed      *)
(* keeps its own verdict.  "missed" keeps which output it was.             *)
(* Mutants: every failed write becomes the verdict; none does.             *)
MutDemoteAlways(output) == verdict' = "UsageError" /\ missed' = missed \cup {output}
MutDemoteNever(output)  == UNCHANGED verdict /\ missed' = missed \cup {output}

Demote(output) == /\ verdict' = IF IsPass(verdict) THEN "UsageError" ELSE verdict
                  /\ missed' = missed \cup {output}

Succeed == UNCHANGED <<verdict, missed>>

Transcript ==
    /\ pc = "Transcript"
    /\ pc' = "Directory"
    /\ Succeed \/ (job.text /\ Demote("transcript"))
    /\ UNCHANGED <<job, fs, saving, trustFiles, exit>>

-----------------------------------------------------------------------------
(* save_trust.  A failure abandons the rest and returns no file names.     *)
SaveFails == /\ Demote("trust")
             /\ pc' = "Facts"
             /\ UNCHANGED <<todo, checked, trustFiles>>

SkipSave ==
    /\ pc = "Directory" /\ ~job.args.saveTrust
    /\ pc' = "Facts"
    /\ UNCHANGED <<job, fs, saving, trustFiles, verdict, missed, exit>>

OpenDirectory ==
    /\ pc = "Directory" /\ job.args.saveTrust
    /\ \/ /\ job.acquisition.present
          /\ pc' = "Save"
          /\ todo' = Plan(job.acquisition)
          /\ UNCHANGED <<checked, trustFiles, verdict, missed>>
       \/ SaveFails
    /\ UNCHANGED <<job, fs, produced, exit>>

(* Mutant: only the key set itself is looked for.                          *)
MutOccupied(group) == fs[group[1]] # "absent" /\ group[1].kind = "keys"

Occupied(group) == \E i \in DOMAIN group : fs[group[i]] # "absent"

CheckGroup ==
    /\ pc = "Save" /\ todo # <<>> /\ ~checked
    /\ IF Occupied(Head(todo))
       THEN SaveFails
       ELSE checked' = TRUE /\ UNCHANGED <<pc, todo, trustFiles, verdict, missed>>
    /\ UNCHANGED <<job, fs, produced, exit>>

(* The next file of the group; after the last one, the next group.         *)
Advance == IF Len(Head(todo)) = 1
           THEN todo' = Tail(todo) /\ checked' = FALSE
           ELSE todo' = <<Tail(Head(todo))>> \o Tail(todo) /\ UNCHANGED checked

WriteTrustFile ==
    /\ pc = "Save" /\ todo # <<>> /\ checked
    /\ LET file == Head(Head(todo))
       IN  /\ produced' = produced \cup {file}
           /\ \/ /\ fs' = [fs EXCEPT ![file] = file.kind]
                 /\ Advance
                 /\ UNCHANGED <<pc, trustFiles, verdict, missed>>
              \/ /\ fs' \in {fs, [fs EXCEPT ![file] = "torn"]}
                 /\ SaveFails
    /\ UNCHANGED <<job, exit>>

SaveSucceeds ==
    /\ pc = "Save" /\ todo = <<>>
    /\ trustFiles' = produced
    /\ pc' = "Facts"
    /\ Succeed
    /\ UNCHANGED <<job, fs, saving, exit>>

-----------------------------------------------------------------------------
(* The two documents.  collides compares with what save_trust returned,    *)
(* through links; the record is built from the verdict as it stands.       *)
Collides(path) == path.file \in trustFiles

WriteDocument(path, output, content) ==
    IF path = NoPath THEN Succeed /\ UNCHANGED fs
    ELSE IF Collides(path) THEN Demote(output) /\ UNCHANGED fs
    ELSE \/ fs' = [fs EXCEPT ![path.file] = content] /\ Succeed
         \/ fs' \in {fs, [fs EXCEPT ![path.file] = "torn"]} /\ Demote(output)

WriteFacts ==
    /\ pc = "Facts"
    /\ pc' = "Record"
    /\ WriteDocument(job.args.facts, "facts", "facts")
    /\ UNCHANGED <<job, saving, trustFiles, exit>>

(* Mutant: the record is built from the verdict evaluate returned.         *)
MutRecord == IF IsPass(job.verdict) THEN "PassRecord" ELSE "FailRecord"

Record == IF IsPass(verdict) THEN "PassRecord" ELSE "FailRecord"

WriteRecord ==
    /\ pc = "Record"
    /\ pc' = "Print"
    /\ WriteDocument(job.args.result, "result", Record)
    /\ UNCHANGED <<job, saving, trustFiles, exit>>

WriteStdout ==
    /\ pc = "Print"
    /\ pc' = "Exit"
    /\ Succeed \/ Demote("stdout")
    /\ UNCHANGED <<job, fs, saving, trustFiles, exit>>

Leave ==
    /\ pc = "Exit"
    /\ pc' = "Done"
    /\ exit' = ExitCode(verdict)
    /\ UNCHANGED <<job, fs, saving, trustFiles, verdict, missed>>

Finished == pc = "Done" /\ UNCHANGED vars

Next == \/ Transcript \/ SkipSave \/ OpenDirectory \/ CheckGroup \/ WriteTrustFile
        \/ SaveSucceeds \/ WriteFacts \/ WriteRecord \/ WriteStdout \/ Leave \/ Finished

(* One thread runs to the end; no step waits for another.                  *)
Spec == Init /\ [][Next]_vars /\ WF_vars(Next)

-----------------------------------------------------------------------------
(* Every variable holds a value of its kind; a file that was begun is one  *)
(* save_trust had found free.                                              *)
TypeOK == /\ job \in Jobs
          /\ pc \in {"Transcript", "Directory", "Save", "Facts", "Record", "Print",
                     "Exit", "Done"}
          /\ fs \in [AllFiles -> Contents]
          /\ checked \in BOOLEAN
          /\ produced \subseteq AllFiles /\ trustFiles \subseteq produced
          /\ verdict \in Verdicts
          /\ missed \subseteq {"transcript", "trust", "facts", "result", "stdout"}
          /\ exit \in 0..4 \cup {Running}

(* Exit 0 leaves on disk what was asked for, whole: the snapshot with its  *)
(* manifest, the facts document, and a record that says pass.  Two outputs *)
(* the operator gave one path are outside it (see README).                 *)
ExitZeroLeavesEverything ==
    exit = 0 =>
        /\ job.args.saveTrust =>
              \A g \in DOMAIN Plan(job.acquisition) :
                 \A i \in DOMAIN Plan(job.acquisition)[g] :
                    LET f == Plan(job.acquisition)[g][i] IN fs[f] = f.kind
        /\ job.args.facts # NoPath /\ job.args.facts.file # job.args.result.file =>
              fs[job.args.facts.file] = "facts"
        /\ job.args.result # NoPath => fs[job.args.result.file] = "PassRecord"

(* The record on disk and the exit code agree, except when only standard   *)
(* output was lost after the record was written.                           *)
RecordAgreesWithExit ==
    exit # Running /\ job.args.result # NoPath
                   /\ "result" \notin missed /\ "stdout" \notin missed =>
        (fs[job.args.result.file] = "PassRecord" <=> exit = 0)

(* A snapshot that was saved is never written again by the run that saved  *)
(* it, and with --save-trust no file of an earlier snapshot is replaced.   *)
SnapshotIsFinal ==
    [][/\ \A f \in trustFiles : fs'[f] = fs[f]
       /\ job.args.saveTrust =>
             \A f \in AllFiles : f.dir = "trust" /\ fs[f] = "old" => fs'[f] = "old"]_vars

(* The gate's view: an output is delivered once its stage is over and it   *)
(* was not missed.                                                         *)
StagesAfter(output) ==
    CASE output = "transcript" -> {"Directory", "Save", "Facts", "Record", "Print", "Exit", "Done"}
      [] output = "trust"      -> {"Facts", "Record", "Print", "Exit", "Done"}
      [] output = "facts"      -> {"Record", "Print", "Exit", "Done"}
      [] output = "result"     -> {"Print", "Exit", "Done"}
      [] output = "stdout"     -> {"Exit", "Done"}

Delivered == {o \in Wanted : pc \in StagesAfter(o)} \ missed

G == INSTANCE Gate WITH wanted <- Wanted, delivered <- Delivered

(* emit implements the gate's contract, and always comes to an exit code.  *)
ImplementsGate == G!GateSpec
=============================================================================
