----------------------------- MODULE EmitProofs -----------------------------
(***************************************************************************)
(* Theorems about the end of a run, for every set of jobs, every snapshot  *)
(* an earlier run may have left and every file operation that may fail.    *)
(***************************************************************************)
EXTENDS Emit, TLAPS

USE DEF saving

-----------------------------------------------------------------------------
(* Type correctness, with what save_trust still has to write.              *)
Shape == TypeOK /\ todo \in Seq(Groups)

LEMMA JobFacts ==
    ASSUME NEW j \in Jobs
    PROVE  /\ j \in JobRecords /\ Accepted(j.args)
           /\ j.args.result = NoPath \/ j.args.result.file \in AllFiles
           /\ j.args.facts  = NoPath \/ j.args.facts.file  \in AllFiles
           /\ j.acquisition.present => Plan(j.acquisition) \in Seq(Groups)
  BY JobsAssumption

LEMMA GroupFacts ==
    ASSUME NEW g \in Groups
    PROVE  /\ g \in Seq(SnapshotFiles) /\ g # <<>>
           /\ Head(g) \in SnapshotFiles
           /\ Len(g) # 1 => Tail(g) \in Groups
  <1>1. g \in Seq(SnapshotFiles) /\ g # <<>>
    BY DEF Groups
  <1>2. Head(g) \in SnapshotFiles /\ Tail(g) \in Seq(SnapshotFiles)
    BY <1>1
  <1>3. ASSUME Len(g) # 1 PROVE Tail(g) # <<>>
    <2>1. Len(g) \in Nat /\ Len(g) > 1
      BY <1>1, <1>3
    <2>2. Len(Tail(g)) = Len(g) - 1 /\ Len(Tail(g)) \in Nat
      BY <1>1
    <2>3. Len(Tail(g)) > 0
      BY <2>1, <2>2
    <2>4. \A t : Len(t) > 0 => t # <<>>
      OBVIOUS
    <2> QED BY <2>3, <2>4
  <1> QED BY <1>1, <1>2, <1>3 DEF Groups

LEMMA AdvanceTyped ==
    ASSUME todo \in Seq(Groups), todo # <<>>, checked
    PROVE  /\ Head(todo) \in Groups
           /\ Advance => /\ todo' \in Seq(Groups)
                         /\ checked' \in BOOLEAN
                         /\ checked' => Head(todo') = Tail(Head(todo)) /\ Tail(Head(todo)) \in Groups
  <1> DEFINE left == Tail(Head(todo))
  <1>1. Head(todo) \in Groups /\ Tail(todo) \in Seq(Groups)
    OBVIOUS
  <1>2. CASE Len(Head(todo)) = 1
    BY <1>1, <1>2 DEF Advance
  <1>3. CASE Len(Head(todo)) # 1
    <2>1. left \in Groups
      BY <1>1, <1>3, GroupFacts
    <2>2. Advance => todo' = <<left>> \o Tail(todo) /\ checked' = checked
      BY <1>3 DEF Advance
    <2> HIDE DEF left
    <2>3. <<left>> \in Seq(Groups)
      BY <2>1
    <2>4. <<left>> \o Tail(todo) \in Seq(Groups) /\ Head(<<left>> \o Tail(todo)) = left
      BY <1>1, <2>1, <2>3
    <2>5. Advance => todo' \in Seq(Groups) /\ Head(todo') = left /\ checked' = checked
      BY <2>2, <2>4
    <2> QED BY <1>1, <2>1, <2>5 DEF left
  <1> QED BY <1>2, <1>3

(* demote keeps the verdict one of the five kinds and never creates a pass.*)
LEMMA DemoteTyped ==
    ASSUME NEW output \in {"transcript", "trust", "facts", "result", "stdout"},
           verdict \in Verdicts,
           missed \subseteq {"transcript", "trust", "facts", "result", "stdout"},
           Demote(output) \/ Succeed
    PROVE  /\ verdict' \in Verdicts
           /\ missed' \subseteq {"transcript", "trust", "facts", "result", "stdout"}
  BY DEF Demote, Succeed, Verdicts

LEMMA DocumentTyped ==
    ASSUME fs \in [AllFiles -> Contents], NEW path, NEW output, NEW content \in Contents,
           WriteDocument(path, output, content)
    PROVE  fs' \in [AllFiles -> Contents] /\ (Demote(output) \/ Succeed)
  <1>1. "torn" \in Contents
    BY DEF Contents
  <1> QED BY <1>1 DEF WriteDocument

LEMMA ExitCodes ==
    ASSUME NEW v \in Verdicts
    PROVE  ExitCode(v) \in 0..4 /\ (ExitCode(v) = 0 <=> IsPass(v))
  <1>1. CASE v \in Passes
    BY <1>1 DEF ExitCode, IsPass, Passes
  <1>2. CASE v = "Untrusted"
    BY <1>2 DEF ExitCode, IsPass, Passes
  <1>3. CASE v \in {"PolicyFailed", "ResourceFailed"}
    BY <1>3 DEF ExitCode, IsPass, Passes
  <1>4. CASE v = "CannotEvaluate"
    BY <1>4 DEF ExitCode, IsPass, Passes
  <1>5. CASE v = "UsageError"
    BY <1>5 DEF ExitCode, IsPass, Passes
  <1> QED BY <1>1, <1>2, <1>3, <1>4, <1>5 DEF Verdicts

LEMMA ShapeInit == Init => Shape
  <1> SUFFICES ASSUME Init PROVE Shape
    OBVIOUS
  <1>1. fs \in [AllFiles -> Contents]
    BY DEF Init, Contents
  <1>2. verdict \in Verdicts
    BY JobFacts DEF Init, JobRecords
  <1>3. <<>> \in Seq(Groups)
    OBVIOUS
  <1>4. /\ job \in Jobs /\ pc = "Transcript" /\ todo = <<>> /\ checked = FALSE
        /\ produced = {} /\ trustFiles = {} /\ missed = {} /\ exit = Running
    BY DEF Init
  <1> QED BY <1>1, <1>2, <1>3, <1>4 DEF Shape, TypeOK

LEMMA ShapeStep == Shape /\ [Next]_vars => Shape'
  <1> SUFFICES ASSUME Shape, [Next]_vars PROVE Shape'
    OBVIOUS
  <1> USE DEF Shape, TypeOK
  <1>1. CASE Transcript
    BY <1>1, DemoteTyped DEF Transcript
  <1>2. CASE SkipSave
    BY <1>2 DEF SkipSave
  <1>3. CASE OpenDirectory
    BY <1>3, DemoteTyped, JobFacts DEF OpenDirectory, SaveFails
  <1>4. CASE CheckGroup
    BY <1>4, DemoteTyped DEF CheckGroup, SaveFails
  <1>5. CASE WriteTrustFile
    <2> DEFINE file == Head(Head(todo))
    <2>1. Head(todo) \in Groups
          /\ (Advance => todo' \in Seq(Groups) /\ checked' \in BOOLEAN)
      BY <1>5, AdvanceTyped DEF WriteTrustFile
    <2>2. file \in SnapshotFiles
      BY <2>1, GroupFacts
    <2>3. file \in AllFiles /\ file.kind \in Contents /\ "torn" \in Contents
      BY <2>2 DEF SnapshotFiles, Contents
    <2>4. job' = job /\ exit' = exit /\ produced' = produced \cup {file}
      BY <1>5 DEF WriteTrustFile
    <2>5. CASE /\ fs' = [fs EXCEPT ![file] = file.kind]
               /\ Advance
               /\ UNCHANGED <<pc, trustFiles, verdict, missed>>
      <3>1. fs' \in [AllFiles -> Contents]
        BY <2>3, <2>5
      <3> QED BY <2>1, <2>3, <2>4, <2>5, <3>1
    <2>6. CASE fs' \in {fs, [fs EXCEPT ![file] = "torn"]} /\ SaveFails
      <3>1. fs' \in [AllFiles -> Contents]
        BY <2>3, <2>6
      <3>2. /\ verdict' \in Verdicts
            /\ missed' \subseteq {"transcript", "trust", "facts", "result", "stdout"}
        BY <2>6, DemoteTyped DEF SaveFails
      <3> QED BY <2>3, <2>4, <2>6, <3>1, <3>2 DEF SaveFails
    <2> QED BY <1>5, <2>5, <2>6 DEF WriteTrustFile
  <1>6. CASE SaveSucceeds
    BY <1>6 DEF SaveSucceeds, Succeed
  <1>7. CASE WriteFacts
    <2>1. "facts" \in Contents
      BY DEF Contents
    <2>2. fs' \in [AllFiles -> Contents] /\ (Demote("facts") \/ Succeed)
      BY <1>7, <2>1, DocumentTyped DEF WriteFacts
    <2> QED BY <1>7, <2>2, DemoteTyped DEF WriteFacts
  <1>8. CASE WriteRecord
    <2>1. Record \in Contents
      BY DEF Record, Contents
    <2>2. fs' \in [AllFiles -> Contents] /\ (Demote("result") \/ Succeed)
      BY <1>8, <2>1, DocumentTyped DEF WriteRecord
    <2> QED BY <1>8, <2>2, DemoteTyped DEF WriteRecord
  <1>9. CASE WriteStdout
    BY <1>9, DemoteTyped DEF WriteStdout
  <1>10. CASE Leave
    BY <1>10, ExitCodes DEF Leave
  <1>11. CASE UNCHANGED vars
    BY <1>11 DEF vars
  <1> QED BY <1>1, <1>2, <1>3, <1>4, <1>5, <1>6, <1>7, <1>8, <1>9, <1>10, <1>11
          DEF Next, Finished

(* Every variable keeps a value of its kind, and what save_trust returns   *)
(* is a set of files it wrote.                                             *)
THEOREM EmitTypeCorrect == Spec => []TypeOK
  <1>1. Shape => TypeOK
    BY DEF Shape
  <1> QED BY <1>1, ShapeInit, ShapeStep, PTL DEF Spec

-----------------------------------------------------------------------------
(* What the documents and the snapshot may rely on.                        *)
Documents == {job.args.result, job.args.facts} \ {NoPath}

(* Nothing counts as saved until save_trust has returned.                  *)
NotSavedYet == pc \in {"Transcript", "Directory", "Save"} => trustFiles = {}

(* A dangling link leads to no file of an earlier snapshot, and no file    *)
(* becomes one.                                                            *)
LinksLeadNowhere == \A path \in Documents : path.link => fs[path.file] # "old"

(* The group about to be written was found free of an earlier snapshot.    *)
GroupIsClear ==
    /\ pc \in {"Transcript", "Directory"} => ~checked
    /\ pc = "Save" /\ checked /\ todo # <<>> =>
          \A i \in DOMAIN Head(todo) : fs[Head(todo)[i]] # "old"

(* Once the record's stage is over it is on disk and says the verdict, or  *)
(* it was missed, or standard output was lost after it.                    *)
RecordSaysVerdict ==
    pc \in {"Print", "Exit", "Done"} /\ job.args.result # NoPath
        /\ "result" \notin missed /\ "stdout" \notin missed =>
        fs[job.args.result.file] = Record

(* A missed output has taken a pass away.                                  *)
MissedIsNoPass == missed # {} => ~IsPass(verdict)

ExitIsVerdict == /\ pc # "Done" => exit = Running
                 /\ pc = "Done" => exit = ExitCode(verdict)

EmitInv == /\ Shape /\ NotSavedYet /\ LinksLeadNowhere /\ GroupIsClear
           /\ RecordSaysVerdict /\ MissedIsNoPass /\ ExitIsVerdict

LEMMA EmitInvInit == Init => EmitInv
  <1> SUFFICES ASSUME Init PROVE EmitInv
    OBVIOUS
  <1>1. PICK old \in PriorTrust :
           /\ fs = [f \in AllFiles |->
                      IF f \in old THEN "old"
                      ELSE IF f = EvidenceFile /\ job.collected THEN "snapshot"
                      ELSE "absent"]
           /\ \A path \in {job.args.result, job.args.facts} : path.link => path.file \notin old
    BY DEF Init
  <1>2. ASSUME NEW path \in Documents, path.link PROVE fs[path.file] # "old"
    <2>1. path.file \in AllFiles /\ path.file \notin old
      BY <1>1, <1>2, JobFacts DEF Documents, Init
    <2> QED BY <1>1, <2>1
  <1>3. LinksLeadNowhere
    BY <1>2 DEF LinksLeadNowhere
  <1>4. NotSavedYet /\ GroupIsClear /\ RecordSaysVerdict /\ MissedIsNoPass /\ ExitIsVerdict
    BY DEF Init, NotSavedYet, GroupIsClear, RecordSaysVerdict, MissedIsNoPass, ExitIsVerdict
  <1> QED BY <1>3, <1>4, ShapeInit DEF EmitInv

(* A document never lands on a file of an earlier snapshot when this run   *)
(* saves one, and only where a document was asked for.                     *)
LEMMA DocumentSpares ==
    ASSUME Shape, LinksLeadNowhere, job.args.saveTrust,
           NEW path \in {job.args.result, job.args.facts}, path # NoPath
    PROVE  ~(path.file.dir = "trust" /\ fs[path.file] = "old")
  <1>1. Accepted(job.args)
    BY JobFacts DEF Shape, TypeOK
  <1>2. ~Within("trust", path)
    BY <1>1 DEF Accepted, OutputsAccepted
  <1>3. path.link => fs[path.file] # "old"
    BY DEF LinksLeadNowhere, Documents
  <1> QED BY <1>2, <1>3 DEF Within

(* A document changes only its own file, and never into an old snapshot.   *)
LEMMA DocumentWrites ==
    ASSUME fs \in [AllFiles -> Contents], NEW path, path = NoPath \/ path.file \in AllFiles,
           NEW output, NEW content, content # "old", WriteDocument(path, output, content)
    PROVE  /\ \A f \in AllFiles : fs'[f] # fs[f] => path # NoPath /\ f = path.file /\ ~Collides(path)
           /\ \A f \in AllFiles : fs'[f] = "old" => fs[f] = "old"
           /\ Succeed /\ path # NoPath => fs'[path.file] = content \/ output \in missed'
           /\ DOMAIN fs' = AllFiles
  <1>1. CASE UNCHANGED fs
    BY <1>1 DEF WriteDocument, Demote
  <1>2. CASE path # NoPath /\ ~Collides(path) /\ fs' = [fs EXCEPT ![path.file] = content] /\ Succeed
    BY <1>2
  <1>3. CASE path # NoPath /\ ~Collides(path) /\ fs' = [fs EXCEPT ![path.file] = "torn"] /\ Demote(output)
    BY <1>3 DEF Demote
  <1> QED BY <1>1, <1>2, <1>3 DEF WriteDocument

LEMMA EmitInvStep == EmitInv /\ [Next]_vars => EmitInv'
  <1> SUFFICES ASSUME EmitInv, [Next]_vars PROVE EmitInv'
    OBVIOUS
  <1> USE DEF EmitInv
  <1>0. Shape'
    BY ShapeStep
  <1>1. job \in Jobs /\ verdict \in Verdicts /\ fs \in [AllFiles -> Contents]
        /\ todo \in Seq(Groups) /\ job' = job
    BY DEF Shape, TypeOK, Next, Transcript, SkipSave, OpenDirectory, CheckGroup, WriteTrustFile,
           SaveSucceeds, WriteFacts, WriteRecord, WriteStdout, Leave, Finished, vars
  <1>2. \A path \in {job.args.result, job.args.facts} : path = NoPath \/ path.file \in AllFiles
    BY <1>1, JobFacts
  <1>3. \A output : Demote(output) => missed' # {} /\ ~IsPass(verdict')
    BY DEF Demote, IsPass, Passes
  <1>4. ASSUME UNCHANGED fs, LinksLeadNowhere PROVE LinksLeadNowhere'
    BY <1>1, <1>4 DEF LinksLeadNowhere, Documents
  <1>5. ASSUME Succeed PROVE MissedIsNoPass'
    BY <1>5 DEF Succeed, MissedIsNoPass
  <1>6. ASSUME NEW output, Demote(output) PROVE MissedIsNoPass'
    BY <1>3, <1>6 DEF MissedIsNoPass
  <1>7. CASE Transcript
    BY <1>1, <1>4, <1>5, <1>6, <1>7, <1>0
       DEF Transcript, NotSavedYet, GroupIsClear, RecordSaysVerdict, ExitIsVerdict
  <1>8. CASE SkipSave
    BY <1>1, <1>4, <1>8, <1>0
       DEF SkipSave, NotSavedYet, GroupIsClear, RecordSaysVerdict, ExitIsVerdict, MissedIsNoPass
  <1>9. CASE OpenDirectory
    BY <1>1, <1>4, <1>5, <1>6, <1>9, <1>0
       DEF OpenDirectory, SaveFails, NotSavedYet, GroupIsClear, RecordSaysVerdict, ExitIsVerdict,
           Succeed
  <1>10. CASE CheckGroup
    <2>1. CASE Occupied(Head(todo))
      BY <1>1, <1>4, <1>6, <1>10, <2>1, <1>0
         DEF CheckGroup, SaveFails, NotSavedYet, GroupIsClear, RecordSaysVerdict, ExitIsVerdict
    <2>2. CASE ~Occupied(Head(todo))
      <3>1. \A i \in DOMAIN Head(todo) : fs[Head(todo)[i]] # "old"
        BY <2>2 DEF Occupied
      <3>2. pc = "Save" /\ UNCHANGED <<job, fs, pc, todo, trustFiles, verdict, missed, exit>>
        BY <1>10, <2>2 DEF CheckGroup
      <3> QED BY <1>1, <1>4, <3>1, <3>2, <1>0
              DEF NotSavedYet, GroupIsClear, RecordSaysVerdict, MissedIsNoPass, ExitIsVerdict, Record
    <2> QED BY <2>1, <2>2
  <1>11. CASE WriteTrustFile
    <2> DEFINE file == Head(Head(todo))
    <2>1. /\ pc = "Save" /\ todo # <<>> /\ checked /\ exit' = exit
          /\ Head(todo) \in Groups /\ file \in SnapshotFiles
      BY <1>1, <1>11, AdvanceTyped, GroupFacts DEF WriteTrustFile
    <2>2. fs' \in {fs, [fs EXCEPT ![file] = "torn"], [fs EXCEPT ![file] = file.kind]}
      BY <1>11 DEF WriteTrustFile
    <2>3. file.kind # "old" /\ file \in AllFiles
      BY <2>1 DEF SnapshotFiles
    <2>4. \A f \in AllFiles : fs'[f] = "old" => fs[f] = "old"
      BY <1>1, <2>2, <2>3
    <2>5. LinksLeadNowhere'
      BY <1>1, <1>2, <2>4 DEF LinksLeadNowhere, Documents
    <2>6. CASE Advance /\ UNCHANGED <<pc, trustFiles, verdict, missed>>
      <3>1. ASSUME checked' PROVE \A i \in DOMAIN Head(todo') : fs'[Head(todo')[i]] # "old"
        <4> DEFINE left == Tail(Head(todo))
        <4>1. Head(todo') = left /\ left \in Groups
          BY <1>1, <2>1, <2>6, <3>1, AdvanceTyped
        <4>2. left \in Seq(SnapshotFiles)
          BY <4>1 DEF Groups
        <4>4. ASSUME NEW i \in DOMAIN left
              PROVE  left[i] \in AllFiles /\ fs[left[i]] # "old"
          <5>1. Head(todo) \in Seq(SnapshotFiles) /\ Head(todo) # <<>>
            BY <2>1, GroupFacts
          <5>2. left[i] = Head(todo)[i + 1] /\ i + 1 \in DOMAIN Head(todo)
            BY <5>1
          <5>3. fs[Head(todo)[i + 1]] # "old"
            BY <2>1, <5>2 DEF GroupIsClear
          <5>4. left[i] \in SnapshotFiles
            BY <4>2
          <5> QED BY <5>2, <5>3, <5>4 DEF SnapshotFiles
        <4> QED BY <2>4, <4>1, <4>4
      <3>2. GroupIsClear'
        BY <2>1, <2>6, <3>1 DEF GroupIsClear
      <3> QED BY <1>0, <1>1, <2>1, <2>5, <2>6, <3>2
              DEF NotSavedYet, RecordSaysVerdict, MissedIsNoPass, ExitIsVerdict
    <2>7. CASE SaveFails
      BY <1>0, <1>1, <1>6, <2>1, <2>5, <2>7
         DEF SaveFails, NotSavedYet, GroupIsClear, RecordSaysVerdict, ExitIsVerdict
    <2> QED BY <1>11, <2>6, <2>7 DEF WriteTrustFile
  <1>12. CASE SaveSucceeds
    BY <1>0, <1>1, <1>4, <1>5, <1>12
       DEF SaveSucceeds, NotSavedYet, GroupIsClear, RecordSaysVerdict, ExitIsVerdict
  <1>13. CASE WriteFacts
    <2>1. /\ WriteDocument(job.args.facts, "facts", "facts")
          /\ pc = "Facts" /\ pc' = "Record" /\ exit' = exit
      BY <1>13 DEF WriteFacts
    <2>2. \A f \in AllFiles : fs'[f] = "old" => fs[f] = "old"
      BY <1>1, <1>2, <2>1, DocumentWrites
    <2>3. LinksLeadNowhere'
      BY <1>1, <1>2, <2>2 DEF LinksLeadNowhere, Documents
    <2>4. Demote("facts") \/ Succeed
      BY <2>1 DEF WriteDocument
    <2> QED BY <1>0, <1>5, <1>6, <2>1, <2>3, <2>4
            DEF NotSavedYet, GroupIsClear, RecordSaysVerdict, ExitIsVerdict
  <1>14. CASE WriteRecord
    <2>1. /\ WriteDocument(job.args.result, "result", Record)
          /\ pc = "Record" /\ pc' = "Print" /\ exit' = exit
      BY <1>14 DEF WriteRecord
    <2>2. Record # "old"
      BY DEF Record
    <2>3. \A f \in AllFiles : fs'[f] = "old" => fs[f] = "old"
      BY <1>1, <1>2, <2>1, <2>2, DocumentWrites
    <2>4. LinksLeadNowhere'
      BY <1>1, <1>2, <2>3 DEF LinksLeadNowhere, Documents
    <2>5. Demote("result") \/ Succeed
      BY <2>1 DEF WriteDocument
    <2>6. RecordSaysVerdict'
      <3>1. CASE Succeed /\ job.args.result # NoPath
        <4>1. fs'[job.args.result.file] = Record \/ "result" \in missed'
          BY <1>1, <1>2, <2>1, <2>2, <3>1, DocumentWrites
        <4>2. Record' = Record
          BY <3>1 DEF Succeed, Record
        <4> QED BY <1>1, <4>1, <4>2 DEF RecordSaysVerdict
      <3>2. CASE Demote("result")
        BY <3>2 DEF Demote, RecordSaysVerdict
      <3>3. CASE job.args.result = NoPath
        BY <1>1, <3>3 DEF RecordSaysVerdict
      <3> QED BY <2>5, <3>1, <3>2, <3>3
    <2> QED BY <1>0, <1>5, <1>6, <2>1, <2>4, <2>5, <2>6
            DEF NotSavedYet, GroupIsClear, ExitIsVerdict
  <1>15. CASE WriteStdout
    <2>1. RecordSaysVerdict'
      BY <1>1, <1>15 DEF WriteStdout, RecordSaysVerdict, Succeed, Demote, Record
    <2> QED BY <1>0, <1>1, <1>4, <1>5, <1>6, <1>15, <2>1
            DEF WriteStdout, NotSavedYet, GroupIsClear, ExitIsVerdict
  <1>16. CASE Leave
    BY <1>0, <1>1, <1>4, <1>16
       DEF Leave, NotSavedYet, GroupIsClear, RecordSaysVerdict, MissedIsNoPass, ExitIsVerdict, Record
  <1>17. CASE UNCHANGED vars
    BY <1>0, <1>4, <1>17
       DEF vars, NotSavedYet, GroupIsClear, RecordSaysVerdict, MissedIsNoPass, ExitIsVerdict, Record
  <1> QED BY <1>7, <1>8, <1>9, <1>10, <1>11, <1>12, <1>13, <1>14, <1>15, <1>16, <1>17
          DEF Next, Finished

LEMMA EmitInvariant == Spec => []EmitInv
  BY EmitInvInit, EmitInvStep, PTL DEF Spec

(* The record a pipeline archives says pass exactly when the process exits *)
(* 0, whatever writes failed before it.                                    *)
THEOREM RecordIsTheExit == Spec => []RecordAgreesWithExit
  <1>1. EmitInv => RecordAgreesWithExit
    <2> SUFFICES ASSUME EmitInv, exit # Running, job.args.result # NoPath,
                        "result" \notin missed, "stdout" \notin missed
                 PROVE  fs[job.args.result.file] = "PassRecord" <=> exit = 0
      BY DEF RecordAgreesWithExit
    <2>1. pc = "Done" /\ exit = ExitCode(verdict) /\ verdict \in Verdicts
      BY DEF EmitInv, ExitIsVerdict, Shape, TypeOK
    <2>2. fs[job.args.result.file] = Record
      BY <2>1 DEF EmitInv, RecordSaysVerdict
    <2>3. exit = 0 <=> IsPass(verdict)
      BY <2>1, ExitCodes
    <2> QED BY <2>2, <2>3 DEF Record
  <1> QED BY <1>1, EmitInvariant, PTL

(* No step of a run changes a snapshot it saved or, with --save-trust, any *)
(* file of an earlier one.                                                 *)
THEOREM SavedIsFinal == Spec => SnapshotIsFinal
  <1> DEFINE Final == /\ \A f \in trustFiles : fs'[f] = fs[f]
                      /\ job.args.saveTrust =>
                            \A f \in AllFiles : f.dir = "trust" /\ fs[f] = "old" => fs'[f] = "old"
  <1>1. ASSUME EmitInv, Next PROVE Final
    <2> USE <1>1
    <2>1. job \in Jobs /\ fs \in [AllFiles -> Contents] /\ trustFiles \subseteq AllFiles
      BY DEF EmitInv, Shape, TypeOK
    <2>2. \A path \in {job.args.result, job.args.facts} : path = NoPath \/ path.file \in AllFiles
      BY <2>1, JobFacts
    <2>3. ASSUME NEW path \in {job.args.result, job.args.facts}, NEW output,
                 NEW content, content # "old", WriteDocument(path, output, content)
          PROVE  Final
      <3>1. \A f \in AllFiles : fs'[f] # fs[f] => path # NoPath /\ f = path.file /\ ~Collides(path)
        BY <2>1, <2>2, <2>3, DocumentWrites
      <3>2. ASSUME NEW f \in trustFiles PROVE fs'[f] = fs[f]
        BY <2>1, <3>1, <3>2 DEF Collides
      <3>3. ASSUME job.args.saveTrust, NEW f \in AllFiles, f.dir = "trust", fs[f] = "old"
            PROVE  fs'[f] = "old"
        <4>1. SUFFICES ASSUME fs'[f] # fs[f] PROVE FALSE
          BY <3>3
        <4>2. path # NoPath /\ f = path.file
          BY <3>1, <4>1
        <4>3. ~(path.file.dir = "trust" /\ fs[path.file] = "old")
          BY <3>3, <4>2, DocumentSpares DEF EmitInv
        <4> QED BY <3>3, <4>2, <4>3
      <3> QED BY <3>2, <3>3
    <2>4. CASE WriteTrustFile
      <3> DEFINE file == Head(Head(todo))
      <3>1. pc = "Save" /\ todo # <<>> /\ checked /\ todo \in Seq(Groups)
        BY <2>4 DEF WriteTrustFile, EmitInv, Shape
      <3>2. Head(todo) \in Seq(SnapshotFiles) /\ Head(todo) # <<>> /\ trustFiles = {}
        BY <3>1, GroupFacts DEF EmitInv, NotSavedYet
      <3>3. file = Head(todo)[1] /\ 1 \in DOMAIN Head(todo)
        BY <3>2
      <3>4. fs[file] # "old"
        BY <3>1, <3>3 DEF EmitInv, GroupIsClear
      <3>5. \A f \in AllFiles : f # file => fs'[f] = fs[f]
        BY <2>1, <2>4 DEF WriteTrustFile
      <3> QED BY <3>2, <3>4, <3>5
    <2>5. CASE WriteFacts
      BY <2>3, <2>5 DEF WriteFacts
    <2>6. CASE WriteRecord
      <3>1. Record # "old"
        BY DEF Record
      <3> QED BY <2>3, <2>6, <3>1 DEF WriteRecord
    <2>7. CASE UNCHANGED fs
      BY <2>7
    <2> QED BY <2>4, <2>5, <2>6, <2>7
            DEF Next, Transcript, SkipSave, OpenDirectory, CheckGroup, SaveSucceeds,
                WriteStdout, Leave, Finished, vars
  <1>2. ASSUME EmitInv, [Next]_vars PROVE [Final]_vars
    BY <1>1, <1>2
  <1> QED BY <1>2, EmitInvariant, PTL DEF Spec, SnapshotIsFinal

-----------------------------------------------------------------------------
(* What exit 0 leaves on disk.  A file of the snapshot is written whole or *)
(* still to be written; once the save is over and a pass stands, all are   *)
(* written and returned, so that no document lands on them.                *)
Left(t, f) == \E g \in DOMAIN t : \E i \in DOMAIN t[g] : t[g][i] = f
Planned(f) == Left(Plan(job.acquisition), f)
Whole(f)   == f \in produced /\ fs[f] = f.kind

WholeOrLeft == pc = "Save" => \A f : Planned(f) => Whole(f) \/ Left(todo, f)

SnapshotWhole ==
    pc \in {"Facts", "Record", "Print", "Exit", "Done"} /\ job.args.saveTrust /\ IsPass(verdict) =>
        \A f : Planned(f) => f \in trustFiles /\ fs[f] = f.kind

FactsWhole ==
    /\ pc \in {"Record", "Print", "Exit", "Done"} /\ IsPass(verdict)
    /\ job.args.facts # NoPath
    /\ pc = "Record" \/ job.args.facts.file # job.args.result.file
    => fs[job.args.facts.file] = "facts"

LeavesInv == WholeOrLeft /\ SnapshotWhole /\ FactsWhole

(* Moving on to the next file drops the one just written and no other.     *)
LEMMA AdvanceLeaves ==
    ASSUME todo \in Seq(Groups), todo # <<>>, Advance,
           NEW f, Left(todo, f), f # Head(Head(todo))
    PROVE  Left(todo', f)
  <1> DEFINE head == Head(todo)
             rest == Tail(todo)
             left == Tail(head)
  <1>1. head \in Groups /\ head = todo[1] /\ rest \in Seq(Groups)
    OBVIOUS
  <1>2. PICK g \in DOMAIN todo : \E i \in DOMAIN todo[g] : todo[g][i] = f
    BY DEF Left
  <1>3. PICK i \in DOMAIN todo[g] : todo[g][i] = f
    BY <1>2
  <1>4. head \in Seq(SnapshotFiles) /\ head # <<>> /\ Head(head) = head[1]
    BY <1>1, GroupFacts
  <1>5. CASE g # 1
    <2>1. g - 1 \in DOMAIN rest /\ rest[g - 1] = todo[g]
      BY <1>5
    <2>2. CASE Len(head) = 1
      <3>1. todo' = rest
        BY <2>2 DEF Advance
      <3> QED BY <1>3, <2>1, <3>1 DEF Left
    <2>3. CASE Len(head) # 1
      <3>1. todo' = <<left>> \o rest
        BY <2>3 DEF Advance
      <3> HIDE DEF left, rest
      <3>2. g \in DOMAIN (<<left>> \o rest) /\ (<<left>> \o rest)[g] = rest[g - 1]
        BY <1>1, <2>1, <1>5
      <3> QED BY <1>3, <2>1, <3>1, <3>2 DEF Left
    <2> QED BY <2>2, <2>3
  <1>6. CASE g = 1
    <2>1. i # 1 /\ i \in DOMAIN head /\ head[i] = f
      BY <1>1, <1>3, <1>4, <1>6
    <2>2. Len(head) # 1
      BY <1>4, <2>1
    <2>3. i - 1 \in DOMAIN left /\ left[i - 1] = f
      BY <1>4, <2>1
    <2>4. todo' = <<left>> \o rest
      BY <2>2 DEF Advance
    <2> HIDE DEF left, rest
    <2>5. 1 \in DOMAIN (<<left>> \o rest) /\ (<<left>> \o rest)[1] = left
      BY <1>1
    <2> QED BY <2>3, <2>4, <2>5 DEF Left
  <1> QED BY <1>5, <1>6

(* A document that is written keeps the snapshot of a pass as it is.       *)
LEMMA DocumentKeepsSnapshot ==
    ASSUME Shape, SnapshotWhole, pc \in {"Facts", "Record"}, pc' \in {"Record", "Print"},
           NEW path, path = NoPath \/ path.file \in AllFiles,
           NEW output, NEW content, content # "old", WriteDocument(path, output, content),
           UNCHANGED <<job, trustFiles>>
    PROVE  SnapshotWhole'
  <1> SUFFICES ASSUME job.args.saveTrust, IsPass(verdict'), NEW f, Planned(f)
               PROVE  f \in trustFiles /\ fs'[f] = f.kind
    BY DEF SnapshotWhole, Planned
  <1>1. IsPass(verdict)
    BY DEF WriteDocument, Succeed, Demote, IsPass, Passes
  <1>2. f \in trustFiles /\ fs[f] = f.kind
    BY <1>1 DEF SnapshotWhole
  <1>3. f \in AllFiles /\ fs \in [AllFiles -> Contents]
    BY <1>2 DEF Shape, TypeOK
  <1>4. fs'[f] = fs[f]
    BY <1>2, <1>3, DocumentWrites DEF Collides
  <1> QED BY <1>2, <1>4

LEMMA LeavesInvStep == EmitInv /\ LeavesInv /\ [Next]_vars => LeavesInv'
  <1> SUFFICES ASSUME EmitInv, LeavesInv, [Next]_vars PROVE LeavesInv'
    OBVIOUS
  <1>1. /\ Shape /\ job \in Jobs /\ fs \in [AllFiles -> Contents] /\ todo \in Seq(Groups)
        /\ produced \subseteq AllFiles
    BY DEF EmitInv, Shape, TypeOK
  <1>2. \A path \in {job.args.result, job.args.facts} : path = NoPath \/ path.file \in AllFiles
    BY <1>1, JobFacts
  <1>3. \A output : Demote(output) => ~IsPass(verdict')
    BY DEF Demote, IsPass, Passes
  <1>4. ASSUME SaveFails, UNCHANGED job PROVE LeavesInv'
    BY <1>3, <1>4 DEF SaveFails, LeavesInv, WholeOrLeft, SnapshotWhole, FactsWhole
  <1>5. CASE Transcript
    BY <1>5 DEF Transcript, LeavesInv, WholeOrLeft, SnapshotWhole, FactsWhole
  <1>6. CASE SkipSave
    BY <1>6 DEF SkipSave, LeavesInv, WholeOrLeft, SnapshotWhole, FactsWhole
  <1>7. CASE OpenDirectory
    <2>1. CASE todo' = Plan(job.acquisition) /\ pc' = "Save" /\ UNCHANGED job
      BY <2>1 DEF LeavesInv, WholeOrLeft, SnapshotWhole, FactsWhole, Planned
    <2> QED BY <1>4, <1>7, <2>1 DEF OpenDirectory
  <1>8. CASE CheckGroup
    <2>1. CASE UNCHANGED <<job, fs, produced, pc, todo, trustFiles, verdict>>
      BY <2>1 DEF LeavesInv, WholeOrLeft, SnapshotWhole, FactsWhole, Planned, Whole
    <2> QED BY <1>4, <1>8, <2>1 DEF CheckGroup
  <1>9. CASE WriteTrustFile
    <2> DEFINE file == Head(Head(todo))
    <2>1. /\ pc = "Save" /\ todo # <<>> /\ UNCHANGED job /\ produced' = produced \cup {file}
          /\ file \in SnapshotFiles
      BY <1>1, <1>9, AdvanceTyped, GroupFacts DEF WriteTrustFile
    <2>2. CASE fs' = [fs EXCEPT ![file] = file.kind] /\ Advance /\ UNCHANGED pc
      <3>1. file \in AllFiles
        BY <2>1 DEF SnapshotFiles
      <3> HIDE DEF file
      <3> DEFINE whole(f) == f \in produced' /\ fs'[f] = f.kind
      <3>2. whole(file)
        BY <1>1, <2>1, <2>2, <3>1
      <3>3. ASSUME NEW f, Whole(f) PROVE whole(f)
        BY <1>1, <2>1, <2>2, <3>1, <3>3 DEF Whole
      <3>4. ASSUME NEW f, Left(todo, f), f # file PROVE Left(todo', f)
        BY <1>1, <2>1, <2>2, <3>4, AdvanceLeaves DEF file
      <3>5. ASSUME NEW f, Planned(f) PROVE whole(f) \/ Left(todo', f)
        <4>1. Whole(f) \/ Left(todo, f)
          BY <2>1, <3>5 DEF LeavesInv, WholeOrLeft
        <4> QED BY <3>2, <3>3, <3>4, <4>1
      <3> QED BY <2>1, <2>2, <3>5 DEF Planned, Whole, LeavesInv, WholeOrLeft,
                                         SnapshotWhole, FactsWhole
    <2> QED BY <1>4, <1>9, <2>1, <2>2 DEF WriteTrustFile
  <1>10. CASE SaveSucceeds
    <2>1. \A f : ~Left(<<>>, f)
      BY DEF Left
    <2>2. pc = "Save" /\ todo = <<>> /\ trustFiles' = produced /\ UNCHANGED <<job, fs>>
          /\ pc' = "Facts"
      BY <1>10 DEF SaveSucceeds
    <2>3. \A f : Planned(f)' => f \in trustFiles' /\ fs'[f] = f.kind
      BY <2>1, <2>2 DEF LeavesInv, WholeOrLeft, Planned, Whole
    <2> QED BY <2>2, <2>3 DEF LeavesInv, WholeOrLeft, SnapshotWhole, FactsWhole
  <1>11. CASE WriteFacts
    <2>1. /\ WriteDocument(job.args.facts, "facts", "facts") /\ UNCHANGED <<job, trustFiles>>
          /\ pc = "Facts" /\ pc' = "Record"
      BY <1>11 DEF WriteFacts
    <2>2. SnapshotWhole'
      BY <1>1, <1>2, <2>1, DocumentKeepsSnapshot DEF LeavesInv
    <2>3. FactsWhole'
      <3> SUFFICES ASSUME IsPass(verdict'), job.args.facts # NoPath
                   PROVE  fs'[job.args.facts.file] = "facts"
        BY <2>1 DEF FactsWhole
      <3>1. fs' = [fs EXCEPT ![job.args.facts.file] = "facts"]
        BY <1>3, <2>1 DEF WriteDocument
      <3> QED BY <1>1, <1>2, <3>1
    <2> QED BY <2>1, <2>2, <2>3 DEF LeavesInv, WholeOrLeft
  <1>12. CASE WriteRecord
    <2>1. /\ WriteDocument(job.args.result, "result", Record) /\ UNCHANGED <<job, trustFiles>>
          /\ pc = "Record" /\ pc' = "Print"
      BY <1>12 DEF WriteRecord
    <2>2. Record # "old"
      BY DEF Record
    <2>3. SnapshotWhole'
      BY <1>1, <1>2, <2>1, <2>2, DocumentKeepsSnapshot DEF LeavesInv
    <2>4. FactsWhole'
      <3> SUFFICES ASSUME IsPass(verdict'), job.args.facts # NoPath,
                          job.args.facts.file # job.args.result.file
                   PROVE  fs'[job.args.facts.file] = "facts"
        BY <2>1 DEF FactsWhole
      <3>1. IsPass(verdict)
        BY <2>1 DEF WriteDocument, Succeed, Demote, IsPass, Passes
      <3>2. fs[job.args.facts.file] = "facts"
        BY <2>1, <3>1 DEF LeavesInv, FactsWhole
      <3>3. fs'[job.args.facts.file] = fs[job.args.facts.file]
        BY <1>1, <1>2, <2>1, <2>2, DocumentWrites
      <3> QED BY <3>2, <3>3
    <2> QED BY <2>1, <2>3, <2>4 DEF LeavesInv, WholeOrLeft
  <1>13. CASE WriteStdout
    <2>1. IsPass(verdict') => IsPass(verdict)
      BY <1>13 DEF WriteStdout, Succeed, Demote, IsPass, Passes
    <2> QED BY <1>13, <2>1
            DEF WriteStdout, LeavesInv, WholeOrLeft, SnapshotWhole, FactsWhole, Planned
  <1>14. CASE Leave
    BY <1>14 DEF Leave, LeavesInv, WholeOrLeft, SnapshotWhole, FactsWhole, Planned
  <1>15. CASE UNCHANGED vars
    BY <1>15 DEF vars, LeavesInv, WholeOrLeft, SnapshotWhole, FactsWhole, Planned, Whole
  <1> QED BY <1>5, <1>6, <1>7, <1>8, <1>9, <1>10, <1>11, <1>12, <1>13, <1>14, <1>15
          DEF Next, Finished

(* Exit 0 leaves on disk what was asked for, whole, whatever an earlier    *)
(* run left there and whichever files the operator named.                  *)
THEOREM ExitZeroLeaves == Spec => []ExitZeroLeavesEverything
  <1>1. Init => LeavesInv
    BY DEF Init, LeavesInv, WholeOrLeft, SnapshotWhole, FactsWhole
  <1>2. EmitInv /\ LeavesInv => ExitZeroLeavesEverything
    <2> SUFFICES ASSUME EmitInv, LeavesInv, exit = 0 PROVE ExitZeroLeavesEverything
      BY DEF ExitZeroLeavesEverything
    <2>1. pc = "Done" /\ IsPass(verdict)
      BY ExitCodes DEF EmitInv, ExitIsVerdict, Shape, TypeOK, Running
    <2>2. ASSUME job.args.saveTrust, NEW g \in DOMAIN Plan(job.acquisition),
                 NEW i \in DOMAIN Plan(job.acquisition)[g]
          PROVE  fs[Plan(job.acquisition)[g][i]] = Plan(job.acquisition)[g][i].kind
      <3>1. Planned(Plan(job.acquisition)[g][i])
        BY DEF Planned, Left
      <3> QED BY <2>1, <2>2, <3>1 DEF LeavesInv, SnapshotWhole
    <2>3. ASSUME job.args.facts # NoPath, job.args.facts.file # job.args.result.file
          PROVE  fs[job.args.facts.file] = "facts"
      BY <2>1, <2>3 DEF LeavesInv, FactsWhole
    <2>4. ASSUME job.args.result # NoPath PROVE fs[job.args.result.file] = "PassRecord"
      BY <2>1, <2>4 DEF EmitInv, MissedIsNoPass, RecordSaysVerdict, Record
    <2> QED BY <2>2, <2>3, <2>4 DEF ExitZeroLeavesEverything
  <1> QED BY <1>1, <1>2, LeavesInvStep, EmitInvariant, PTL DEF Spec

-----------------------------------------------------------------------------
(* The run as a gate sees it.                                              *)
AllOutputs == {"transcript", "trust", "facts", "result", "stdout"}

LEMMA StageOrder ==
    /\ StagesAfter("transcript") = {"Directory", "Save", "Facts", "Record", "Print", "Exit", "Done"}
    /\ StagesAfter("trust")  = {"Facts", "Record", "Print", "Exit", "Done"}
    /\ StagesAfter("facts")  = {"Record", "Print", "Exit", "Done"}
    /\ StagesAfter("result") = {"Print", "Exit", "Done"}
    /\ StagesAfter("stdout") = {"Exit", "Done"}
  BY DEF StagesAfter

(* An output is missed only by the stage that writes it.                   *)
MissedInTurn == /\ \A o \in missed : o \in Wanted /\ pc \in StagesAfter(o)
                /\ pc = "Save" => job.args.saveTrust

(* What one stage does for one output, seen from the gate.                 *)
Turn(o) == /\ o \in Wanted \ missed /\ pc \notin StagesAfter(o) /\ pc' \in StagesAfter(o)
           /\ \A x \in AllOutputs \ {o} : pc \in StagesAfter(x) <=> pc' \in StagesAfter(x)
           /\ Succeed \/ Demote(o)
           /\ UNCHANGED <<job, exit>>

(* A stage that is nobody's turn.                                          *)
NoTurn == /\ \A x \in Wanted : pc \in StagesAfter(x) <=> pc' \in StagesAfter(x)
          /\ Succeed /\ UNCHANGED <<job, exit>>

LEMMA StepIsTurn ==
    ASSUME EmitInv, MissedInTurn, [Next]_vars
    PROVE  NoTurn \/ Leave \/ \E o \in AllOutputs : Turn(o)
  <1> USE StageOrder DEF NoTurn, Turn, Succeed, AllOutputs
  <1>0. pc \in {"Transcript", "Directory", "Save", "Facts", "Record", "Print", "Exit", "Done"}
    BY DEF EmitInv, Shape, TypeOK
  <1>1. CASE Transcript
    <2>1. CASE job.text
      <3>1. Turn("transcript")
        BY <1>1, <2>1 DEF Transcript, Wanted, MissedInTurn
      <3> QED BY <3>1
    <2>2. CASE ~job.text
      <3>1. "transcript" \notin Wanted
        BY <2>2 DEF Wanted
      <3> QED BY <1>1, <2>2, <3>1 DEF Transcript, Wanted
    <2> QED BY <2>1, <2>2
  <1>2. CASE SkipSave
    <2>1. "trust" \notin Wanted
      BY <1>2 DEF SkipSave, Wanted
    <2> QED BY <1>2, <2>1 DEF SkipSave, Wanted
  <1>3. ASSUME SaveFails, pc \in {"Directory", "Save"}, UNCHANGED <<job, exit>>, job.args.saveTrust
        PROVE  Turn("trust")
    BY <1>3 DEF SaveFails, Wanted, MissedInTurn
  <1>4. CASE OpenDirectory
    <2>1. CASE SaveFails
      <3>1. Turn("trust")
        BY <1>3, <1>4, <2>1 DEF OpenDirectory
      <3> QED BY <3>1
    <2>2. CASE ~SaveFails
      BY <1>4, <2>2 DEF OpenDirectory, Wanted
    <2> QED BY <2>1, <2>2
  <1>5. CASE CheckGroup
    <2>1. CASE SaveFails
      <3>1. Turn("trust")
        BY <1>3, <1>5, <2>1 DEF CheckGroup, MissedInTurn
      <3> QED BY <3>1
    <2>2. CASE ~SaveFails
      BY <1>5, <2>2 DEF CheckGroup, Wanted
    <2> QED BY <2>1, <2>2
  <1>6. CASE WriteTrustFile
    <2>1. CASE SaveFails
      <3>1. Turn("trust")
        BY <1>3, <1>6, <2>1 DEF WriteTrustFile, MissedInTurn
      <3> QED BY <3>1
    <2>2. CASE ~SaveFails
      BY <1>6, <2>2 DEF WriteTrustFile, Wanted
    <2> QED BY <2>1, <2>2
  <1>7. CASE SaveSucceeds
    <2>1. Turn("trust")
      BY <1>7 DEF SaveSucceeds, MissedInTurn, Wanted
    <2> QED BY <2>1
  <1>8. CASE WriteFacts
    <2>1. CASE job.args.facts # NoPath
      <3>1. Turn("facts")
        BY <1>8, <2>1 DEF WriteFacts, WriteDocument, MissedInTurn, Wanted
      <3> QED BY <3>1
    <2>2. CASE job.args.facts = NoPath
      <3>1. "facts" \notin Wanted
        BY <2>2 DEF Wanted
      <3> QED BY <1>8, <2>2, <3>1 DEF WriteFacts, WriteDocument, Wanted
    <2> QED BY <2>1, <2>2
  <1>9. CASE WriteRecord
    <2>1. CASE job.args.result # NoPath
      <3>1. Turn("result")
        BY <1>9, <2>1 DEF WriteRecord, WriteDocument, MissedInTurn, Wanted
      <3> QED BY <3>1
    <2>2. CASE job.args.result = NoPath
      <3>1. "result" \notin Wanted
        BY <2>2 DEF Wanted
      <3> QED BY <1>9, <2>2, <3>1 DEF WriteRecord, WriteDocument, Wanted
    <2> QED BY <2>1, <2>2
  <1>10. CASE WriteStdout
    <2>1. Turn("stdout")
      BY <1>10 DEF WriteStdout, MissedInTurn, Wanted
    <2> QED BY <2>1
  <1>11. CASE UNCHANGED vars
    BY <1>11 DEF vars
  <1> QED BY <1>1, <1>2, <1>4, <1>5, <1>6, <1>7, <1>8, <1>9, <1>10, <1>11 DEF Next, Finished

LEMMA TurnKeepsOrder ==
    ASSUME EmitInv, MissedInTurn, [Next]_vars
    PROVE  MissedInTurn'
  <1> USE StageOrder DEF MissedInTurn
  <1>1. pc' = "Save" => job'.args.saveTrust
    BY DEF Next, Transcript, SkipSave, OpenDirectory, CheckGroup, WriteTrustFile, SaveFails,
           SaveSucceeds, WriteFacts, WriteRecord, WriteStdout, Leave, Finished, vars
  <1>2. CASE NoTurn
    BY <1>1, <1>2 DEF NoTurn, Succeed, Wanted
  <1>3. CASE Leave
    BY <1>1, <1>3 DEF Leave, Wanted
  <1>4. ASSUME NEW o \in AllOutputs, Turn(o) PROVE MissedInTurn'
    <2>1. Wanted' = Wanted
      BY <1>4 DEF Turn, Wanted
    <2>2. missed' \subseteq missed \cup {o}
      BY <1>4 DEF Turn, Succeed, Demote
    <2>3. missed \subseteq AllOutputs
      BY DEF EmitInv, Shape, TypeOK, AllOutputs
    <2> QED BY <1>1, <1>4, <2>1, <2>2, <2>3 DEF Turn
  <1> QED BY <1>2, <1>3, <1>4, StepIsTurn

LEMMA StepRefines ==
    ASSUME EmitInv, MissedInTurn, [Next]_vars
    PROVE  [G!GateNext]_G!gateVars
  <1>1. verdict \in Verdicts /\ missed \subseteq AllOutputs /\ Wanted \subseteq AllOutputs
    BY DEF EmitInv, Shape, TypeOK, AllOutputs, Wanted
  <1>2. CASE NoTurn
    <2>1. Wanted' = Wanted /\ Delivered' = Delivered
      BY <1>2 DEF NoTurn, Succeed, Wanted, Delivered
    <2> QED BY <1>2, <2>1 DEF G!gateVars, NoTurn, Succeed
  <1>3. CASE Leave
    <2>1. pc = "Exit" /\ pc' = "Done" /\ exit = Running /\ exit' = ExitCode(verdict)
          /\ UNCHANGED <<job, missed, verdict>>
      BY <1>3 DEF Leave, EmitInv, ExitIsVerdict
    <2>2. \A o \in AllOutputs : pc \in StagesAfter(o) /\ pc' \in StagesAfter(o)
      BY <2>1, StageOrder DEF AllOutputs
    <2>3. Wanted' = Wanted /\ Delivered' = Delivered /\ Wanted = Delivered \cup missed
      BY <1>1, <2>1, <2>2 DEF Wanted, Delivered, MissedInTurn
    <2>4. G!ExitCode(verdict) = ExitCode(verdict)
      BY DEF G!ExitCode, ExitCode, G!Passes, Passes
    <2>5. G!Leave
      BY <2>1, <2>3, <2>4 DEF G!Leave, G!Running, Running
    <2> QED BY <2>5 DEF G!GateNext
  <1>4. ASSUME NEW o \in AllOutputs, Turn(o) PROVE G!Deliver(o) \/ G!Miss(o)
    <2>1. Wanted' = Wanted /\ o \in Wanted \ (Delivered \cup missed)
      BY <1>4 DEF Turn, Wanted, Delivered
    <2>2. exit = Running /\ exit' = exit
      BY <1>4, StageOrder DEF Turn, EmitInv, ExitIsVerdict, AllOutputs
    <2>3. ASSUME Succeed PROVE G!Deliver(o)
      <3>1. Delivered' = Delivered \cup {o}
        BY <1>1, <1>4, <2>1, <2>3 DEF Turn, Delivered, Succeed
      <3> QED BY <2>1, <2>2, <2>3, <3>1 DEF G!Deliver, G!Running, Running, Succeed
    <2>4. ASSUME Demote(o) PROVE G!Miss(o)
      <3>1. Delivered' = Delivered
        BY <1>1, <1>4, <2>1, <2>4 DEF Turn, Delivered, Demote
      <3>2. verdict' = G!Demoted(verdict)
        BY <2>4 DEF Demote, G!Demoted, G!IsPass, IsPass, G!Passes, Passes
      <3> QED BY <2>1, <2>2, <2>4, <3>1, <3>2 DEF G!Miss, G!Running, Running, Demote
    <2> QED BY <1>4, <2>3, <2>4 DEF Turn
  <1>5. \A o \in AllOutputs : Turn(o) => G!GateNext
    BY <1>4 DEF G!GateNext, G!Outputs, AllOutputs
  <1> QED BY <1>2, <1>3, <1>5, StepIsTurn

(* emit does to each output what the gate's contract allows, once and in   *)
(* any run: it delivers it, or misses it and takes a pass away.            *)
THEOREM EmitKeepsTheContract == Spec => G!GateInit /\ [][G!GateNext]_G!gateVars
  <1>1. Init => G!GateInit
    <2> SUFFICES ASSUME Init PROVE G!GateInit
      OBVIOUS
    <2>1. Wanted \in SUBSET G!Outputs
      BY DEF Wanted, G!Outputs
    <2>2. Delivered = {} /\ missed = {} /\ exit = G!Running
      BY StageOrder DEF Init, Delivered, Running, G!Running, Wanted
    <2>3. verdict \in G!Verdicts
      BY ShapeInit DEF Shape, TypeOK, Verdicts, Passes, G!Verdicts, G!Passes
    <2> QED BY <2>1, <2>2, <2>3 DEF G!GateInit
  <1>2. Init => MissedInTurn
    BY DEF Init, MissedInTurn
  <1>3. EmitInv /\ MissedInTurn /\ [Next]_vars => MissedInTurn'
    BY TurnKeepsOrder
  <1>4. EmitInv /\ MissedInTurn /\ [Next]_vars => [G!GateNext]_G!gateVars
    BY StepRefines
  <1> QED BY <1>1, <1>2, <1>3, <1>4, EmitInvariant, PTL DEF Spec

(* A pipeline that proceeds on exit 0 has every output it asked for.       *)
THEOREM ExitZeroDelivers == Spec => []G!ExitZeroMeansDelivered
  <1>1. EmitInv => G!ExitZeroMeansDelivered
    <2> SUFFICES ASSUME EmitInv, exit = 0 PROVE missed = {} /\ Delivered = Wanted
      BY DEF G!ExitZeroMeansDelivered
    <2>1. pc = "Done" /\ exit = ExitCode(verdict) /\ verdict \in Verdicts
      BY DEF EmitInv, ExitIsVerdict, Shape, TypeOK, Running
    <2>2. missed = {}
      BY <2>1, ExitCodes DEF EmitInv, MissedIsNoPass
    <2>3. \A o \in Wanted : pc \in StagesAfter(o)
      BY <2>1, StageOrder DEF Wanted
    <2> QED BY <2>2, <2>3 DEF Delivered
  <1> QED BY <1>1, EmitInvariant, PTL
=============================================================================
