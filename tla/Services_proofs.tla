-------------------------- MODULE Services_proofs --------------------------
(***************************************************************************)
(* Theorems of the services, each with the invariant its induction needs:  *)
(* referenced files stay, installed skills stay reviewed, a finished case  *)
(* is what its evidence says, an adoption is of a candidate its checks     *)
(* passed, a Session keeps its checkout, an imported history is the        *)
(* reviewed one, a copy is of one Run at a time, a preference is sent      *)
(* while it stands, and a client is told of its writes what is true.  One  *)
(* section for each service; they share no state.                          *)
(***************************************************************************)
EXTENDS Attachments, SkillPackages, Evaluation, Delivery, Worktrees, HistoryImport, CopyRuns,
         Preferences, Mutations, FiniteInduction, FiniteSetTheorems, SequenceTheorems, TLAPS

(***************************************************************************)
(* Attachments.                                                            *)
(***************************************************************************)
Marks == {None, "free", "used"}
FilesSpec == FilesInit /\ [][FilesNext]_fileVars

FilesInv ==
  /\ kept \in [Roots -> [AttachmentIds -> Marks]]
  /\ referenced \in SUBSET AttachmentIds /\ FilesStay

\* An id that is in the same directories is as loadable as before.
LEMMA SamePlaces ==
  ASSUME NEW id \in referenced, Loadable(id), \A r \in Roots : (kept'[r][id] # None) = (kept[r][id] # None)
  PROVE  Loadable(id)'
<1>1. {r \in Roots : kept'[r][id] # None} = {r \in Roots : kept[r][id] # None}
  OBVIOUS
<1> QED BY <1>1 DEF Loadable, Found

LEMMA UploadKeeps ==
  ASSUME FilesInv, NEW id \in AttachmentIds, UploadAttachment(id)
  PROVE  FilesInv'
<1>1. /\ kept' = [kept EXCEPT !["primary"][id] = "free"] /\ UNCHANGED referenced
      /\ "primary" \in Roots /\ Found(id) = {}
  BY DEF UploadAttachment, Save, Roots
<1>2. kept' \in [Roots -> [AttachmentIds -> Marks]]
  BY <1>1 DEF FilesInv, Marks
<1>3. id \notin referenced
  <2>1. Cardinality(Found(id)) = 0
    BY <1>1, FS_EmptySet
  <2> QED BY <2>1 DEF FilesInv, FilesStay, Loadable
<1>4. ASSUME NEW i \in referenced PROVE Loadable(i)'
  BY <1>1, <1>3, <1>4, SamePlaces DEF FilesInv, FilesStay
<1> QED BY <1>1, <1>2, <1>4 DEF FilesInv, FilesStay

LEMMA DeleteKeeps ==
  ASSUME FilesInv, NEW id \in AttachmentIds, DeleteAttachment(id)
  PROVE  FilesInv'
<1>1. /\ kept' = [r \in Roots |-> [kept[r] EXCEPT ![id] = None]] /\ UNCHANGED referenced
      /\ id \notin referenced
  BY DEF DeleteAttachment, Unlink, Protected
<1>2. kept' \in [Roots -> [AttachmentIds -> Marks]]
  BY <1>1 DEF FilesInv, Marks
<1>3. ASSUME NEW i \in referenced PROVE Loadable(i)'
  BY <1>1, <1>3, SamePlaces DEF FilesInv, FilesStay
<1> QED BY <1>1, <1>2, <1>3 DEF FilesInv, FilesStay

\* What is marked is where it was, so what the log now refers to can be loaded as before.
LEMMA AdmitFilesKeeps ==
  ASSUME FilesInv, NEW ids \in SUBSET AttachmentIds, AdmitWithFiles(ids)
  PROVE  FilesInv'
<1>1. PICK marked \in SUBSET ids : Mark(marked)
  BY DEF AdmitWithFiles
<1>2. referenced' = referenced \cup ids /\ \A id \in ids : Loadable(id)
  BY DEF AdmitWithFiles
<1>3. kept' \in [Roots -> [AttachmentIds -> Marks]]
  BY <1>1 DEF Mark, FilesInv, Marks
<1>4. ASSUME NEW i \in AttachmentIds, NEW r \in Roots
      PROVE  (kept'[r][i] # None) = (kept[r][i] # None)
  BY <1>1, FileAssumption DEF Mark
<1>5. ASSUME NEW i \in referenced' PROVE Loadable(i)'
  <2>1. i \in AttachmentIds /\ Loadable(i)
    BY <1>2, <1>5 DEF FilesInv, FilesStay
  <2>2. {r \in Roots : kept'[r][i] # None} = {r \in Roots : kept[r][i] # None}
    BY <1>4, <2>1
  <2> QED BY <2>1, <2>2 DEF Loadable, Found
<1> QED BY <1>2, <1>3, <1>5 DEF FilesInv, FilesStay

\* A file the Session's log refers to can be loaded for as long as the Session lasts, for any
\* number of files, Runs and crashes between the fact and the marks (attachments.py).
THEOREM ReferencedFilesStay == FilesSpec => []FilesStay
<1>1. FilesInit => FilesInv
  <2> SUFFICES ASSUME FilesInit PROVE FilesInv
    OBVIOUS
  <2>1. ASSUME NEW id \in referenced PROVE Loadable(id)
    <3>1. Found(id) = {"legacy"}
      BY <2>1, FileAssumption DEF FilesInit, Found, Roots
    <3> QED BY <3>1, FS_Singleton DEF Loadable
  <2> QED BY <2>1 DEF FilesInit, FilesInv, FilesStay, Marks
<1>2. FilesInv /\ [FilesNext]_fileVars => FilesInv'
  <2> SUFFICES ASSUME FilesInv, [FilesNext]_fileVars PROVE FilesInv'
    OBVIOUS
  <2>1. CASE UNCHANGED <<kept, referenced>>
    BY <2>1 DEF FilesInv, FilesStay, Loadable, Found
  <2>2. CASE ListAttachments \/ HydrateMessages \/ CrashFiles \/ UNCHANGED fileVars
    BY <2>1, <2>2 DEF ListAttachments, HydrateMessages, CrashFiles, fileVars
  <2> QED BY <2>2, UploadKeeps, DeleteKeeps, AdmitFilesKeeps DEF FilesNext
<1> QED BY <1>1, <1>2, PTL DEF FilesSpec, FilesInv

(***************************************************************************)
(* Skills.                                                                 *)
(***************************************************************************)
SkillSpec == SkillInit /\ [][SkillNext]_skillVars

WriterPlaces == {"idle", "previewed", "hold", "staged", "placed", "record"}
Bound == SkillVersions \cup {None}
Snapshots == [pc : {"idle", "freezing", "admitted", "started", "ended"},
               snapshot : [Origins -> Bound], catalog : [Origins -> Bound]]

\* What an import holds was shown to the user first.
WriterInv ==
  /\ writer \in [Writers -> [pc : WriterPlaces, hold : {writer[w].hold : w \in Writers}]]
  /\ writer["import"].hold \in Seq(seen)
  /\ writer["import"].pc # "idle" => writer["import"].hold # <<>>

SkillInv ==
  /\ shelf \in [SkillVersions -> Bound] /\ offered \in SkillVersions /\ checkedOut \in Bound
  /\ seen \subseteq SkillVersions /\ skillRun \in Snapshots
  /\ WriterInv /\ SkillsAreAsReviewed

\* One writer's record is replaced.
LEMMA WriterRewritten ==
  ASSUME WriterInv, NEW w \in Writers, NEW pc \in WriterPlaces, NEW hold,
         writer' = [writer EXCEPT ![w] = [pc |-> pc, hold |-> hold]], seen \subseteq seen',
         w = "import" => hold \in Seq(seen') /\ (pc # "idle" => hold # <<>>)
  PROVE  WriterInv'
<1> DEFINE H == {writer'[x].hold : x \in Writers}
<1>1. writer' = [x \in Writers |-> IF x = w THEN [pc |-> pc, hold |-> hold] ELSE writer[x]]
  BY DEF WriterInv
<1>2. ASSUME NEW x \in Writers PROVE writer'[x] \in [pc : WriterPlaces, hold : H]
  <2>1. writer'[x].hold \in H
    OBVIOUS
  <2> HIDE DEF H
  <2>2. writer'[x] = [pc |-> writer'[x].pc, hold |-> writer'[x].hold] /\ writer'[x].pc \in WriterPlaces
    BY <1>1 DEF WriterInv
  <2> QED BY <2>1, <2>2
<1>3. writer' \in [Writers -> [pc : WriterPlaces, hold : H]]
  BY <1>1, <1>2
<1>4. /\ writer'["import"].hold \in Seq(seen')
      /\ writer'["import"].pc # "idle" => writer'["import"].hold # <<>>
  <2>1. CASE w = "import"
    BY <1>1, <2>1
  <2>2. CASE w # "import"
    <3>1. writer'["import"] = writer["import"]
      BY <1>1, <2>2 DEF Writers
    <3>2. writer["import"].hold \in Seq(seen')
      BY SeqMonotonic DEF WriterInv
    <3> QED BY <3>1, <3>2 DEF WriterInv
  <2> QED BY <2>1, <2>2
<1> QED BY <1>3, <1>4 DEF WriterInv

\* A writer at work goes on with what it holds.
LEMMA WriterGoesOn ==
  ASSUME WriterInv, NEW w \in Writers, NEW pc \in WriterPlaces, WriterGoes(w, pc),
         writer[w].pc # "idle", UNCHANGED seen
  PROVE  WriterInv'
<1> DEFINE h == writer[w].hold
<1>1. writer[w] \in [pc : WriterPlaces, hold : {writer[x].hold : x \in Writers}]
  BY DEF WriterInv
<1>2. writer' = [writer EXCEPT ![w] = [pc |-> pc, hold |-> h]]
  <2>1. \A H : writer[w] \in [pc : WriterPlaces, hold : H] =>
                 [writer[w] EXCEPT !.pc = pc] = [pc |-> pc, hold |-> h]
    OBVIOUS
  <2> QED BY <1>1, <2>1 DEF WriterGoes, WriterInv
<1>3. w = "import" => h \in Seq(seen') /\ h # <<>>
  BY DEF WriterInv
<1> HIDE DEF h
<1> QED BY <1>2, <1>3, WriterRewritten

LEMMA WriterStops ==
  ASSUME WriterInv, NEW w \in Writers, writer' = [writer EXCEPT ![w] = NoWork], UNCHANGED seen
  PROVE  WriterInv'
<1>1. <<>> \in Seq(seen') /\ writer' = [writer EXCEPT ![w] = [pc |-> "idle", hold |-> <<>>]]
  BY EmptySeq DEF NoWork, WriterPlaces
<1> QED BY <1>1, WriterRewritten DEF WriterPlaces

\* Whatever a step does to the writers, the rest of the invariant stays with what it is about.
LEMMA SkillStays ==
  ASSUME SkillInv, UNCHANGED <<shelfVars, decisionVars>>, WriterInv',
         skillRun' \in {skillRun, NoSkillRun}
  PROVE  SkillInv'
<1>1. /\ skillRun' \in Snapshots /\ skillRun'.snapshot["user"] \in installed \cup {None}
      /\ skillRun'.pc = "started" => skillRun'.catalog = skillRun'.snapshot
  <2>1. CASE skillRun' = skillRun
    BY <2>1 DEF SkillInv, SkillsAreAsReviewed
  <2>2. CASE skillRun' = NoSkillRun
    BY <2>2 DEF NoSkillRun, NoSkills, Snapshots, Bound, Origins
  <2> QED BY <2>1, <2>2
<1> QED BY <1>1 DEF SkillInv, SkillsAreAsReviewed, shelfVars, decisionVars

LEMMA FailedWriterKeeps ==
  ASSUME SkillInv, NEW w \in Writers, WriterFails(w), UNCHANGED <<shelfVars, decisionVars>>
  PROVE  SkillInv'
<1>1. WriterInv'
  BY WriterStops DEF SkillInv, WriterFails, decisionVars
<1>2. skillRun' \in {skillRun, NoSkillRun}
  BY DEF WriterFails
<1> QED BY <1>1, <1>2, SkillStays

LEMMA WriterStepKeeps ==
  ASSUME SkillInv, NEW w \in Writers, StagePackage(w) \/ PublishPackage(w) \/ InspectPackage(w)
  PROVE  SkillInv'
<1> DEFINE v == Head(writer[w].hold)
<1>1. CASE StagePackage(w)
  <2>1. WriterInv'
    BY <1>1, WriterGoesOn DEF WriterPlaces, StagePackage, Writes, SkillInv, decisionVars
  <2> QED BY <1>1, <2>1, SkillStays DEF StagePackage
<1>2. CASE PublishPackage(w) /\ shelf[v] # None
  BY <1>2, FailedWriterKeeps DEF PublishPackage, shelfVars
<1>3. CASE PublishPackage(w) /\ shelf[v] = None
  <2>1. /\ UNCHANGED <<offered, checkedOut, decisionVars, skillRun>>
        /\ shelf' = [shelf EXCEPT ![v] = v] /\ WriterGoes(w, "placed") /\ writer[w].pc # "idle"
    BY <1>3 DEF PublishPackage, Writes
  <2>2. WriterInv'
    BY <2>1, WriterGoesOn DEF WriterPlaces, SkillInv, decisionVars
  <2>3. shelf' \in [SkillVersions -> Bound]
    BY <2>1 DEF SkillInv, Bound
  <2> QED BY <2>1, <2>2, <2>3 DEF SkillInv, SkillsAreAsReviewed, decisionVars
<1>4. CASE InspectPackage(w) /\ ~ Sound(v)
  BY <1>4, FailedWriterKeeps DEF InspectPackage
<1>5. CASE InspectPackage(w) /\ Sound(v)
  <2> DEFINE pc == IF w = "import" THEN "record" ELSE "hold"
             h  == IF w = "import" THEN writer[w].hold ELSE Tail(writer[w].hold)
  <2>1. /\ UNCHANGED <<shelfVars, decisionVars, skillRun>> /\ writer[w].pc # "idle"
        /\ writer' = [writer EXCEPT ![w] = [pc |-> pc, hold |-> h]]
    BY <1>5 DEF InspectPackage, Writes
  <2>2. pc \in WriterPlaces /\ seen \subseteq seen' /\ (w = "import" => h \in Seq(seen') /\ h # <<>>)
    BY <2>1 DEF SkillInv, WriterInv, WriterPlaces, decisionVars
  <2> HIDE DEF pc, h
  <2>3. WriterInv'
    BY <2>1, <2>2, WriterRewritten DEF SkillInv
  <2> QED BY <2>1, <2>3, SkillStays
<1> QED BY <1>1, <1>2, <1>3, <1>4, <1>5

\* The second reading is what was shown.
LEMMA ImportKeeps ==
  ASSUME SkillInv, PreviewSkill \/ ReadImport \/ RecordInstallation \/ InstallInProject
  PROVE  SkillInv'
<1> DEFINE v == Head(writer["import"].hold)
<1>0. "import" \in Writers /\ "run" \in Writers
  BY DEF Writers
<1>1. CASE PreviewSkill
  <2>1. /\ UNCHANGED <<shelfVars, installed, pinned, skillRun>> /\ seen' = seen \cup {offered}
        /\ writer' = [writer EXCEPT !["import"] = [pc |-> "previewed", hold |-> <<offered>>]]
    BY <1>1 DEF PreviewSkill, ReadSource
  <2>2. <<offered>> \in Seq(seen') /\ <<offered>> # <<>>
    BY <2>1
  <2>3. WriterInv'
    BY <1>0, <2>1, <2>2, WriterRewritten DEF SkillInv, WriterPlaces
  <2> QED BY <2>1, <2>3 DEF SkillInv, SkillsAreAsReviewed, shelfVars
<1>2. CASE ReadImport
  <2>1. CASE ReadSource = v
    <3>1. WriterGoes("import", "hold") /\ UNCHANGED <<shelfVars, decisionVars, skillRun>>
          /\ writer["import"].pc # "idle"
      BY <1>2, <2>1 DEF ReadImport, Writes
    <3>2. WriterInv'
      BY <1>0, <3>1, WriterGoesOn DEF SkillInv, decisionVars, WriterPlaces
    <3> QED BY <3>1, <3>2, SkillStays
  <2>2. CASE ReadSource # v
    BY <1>0, <1>2, <2>2, FailedWriterKeeps DEF ReadImport
  <2> QED BY <2>1, <2>2
<1>3. CASE RecordInstallation
  <2>1. /\ UNCHANGED <<shelfVars, seen, pinned, skillRun>> /\ installed' = installed \cup {v}
        /\ writer' = [writer EXCEPT !["import"] = NoWork] /\ writer["import"].pc # "idle"
    BY <1>3 DEF RecordInstallation, Writes
  <2>2. v \in seen
    BY <2>1 DEF SkillInv, WriterInv
  <2>3. WriterInv'
    BY <1>0, <2>1, WriterStops DEF SkillInv
  <2> QED BY <2>1, <2>2, <2>3 DEF SkillInv, SkillsAreAsReviewed, shelfVars
<1>4. CASE InstallInProject
  <2>1. /\ UNCHANGED <<shelf, offered, decisionVars, skillRun>>
        /\ checkedOut' = IF checkedOut = None THEN v ELSE checkedOut
        /\ writer' = [writer EXCEPT !["import"] = NoWork] /\ writer["import"].pc # "idle"
    BY <1>4 DEF InstallInProject, Writes
  <2>2. v \in seen
    BY <2>1 DEF SkillInv, WriterInv
  <2>3. WriterInv'
    BY <1>0, <2>1, WriterStops DEF SkillInv, decisionVars
  <2> QED BY <2>1, <2>2, <2>3 DEF SkillInv, SkillsAreAsReviewed, decisionVars, Bound
<1> QED BY <1>1, <1>2, <1>3, <1>4

LEMMA OutsideKeeps ==
  ASSUME SkillInv, TouchFiles \/ ConfigureSkills
  PROVE  SkillInv'
<1>1. CASE TouchFiles
  <2>1. UNCHANGED <<decisionVars, writer, skillRun>>
    BY <1>1 DEF TouchFiles
  <2>2. /\ shelf' \in [SkillVersions -> Bound] /\ offered' \in SkillVersions
        /\ checkedOut' \in Bound
    BY <1>1 DEF TouchFiles, SkillInv, Bound
  <2> QED BY <2>1, <2>2 DEF SkillInv, SkillsAreAsReviewed, WriterInv, decisionVars
<1>2. CASE ConfigureSkills
  <2>1. /\ UNCHANGED <<shelfVars, seen, installed, writer, skillRun>>
        /\ pinned' \in {None} \cup installed
    BY <1>2 DEF ConfigureSkills
  <2> QED BY <2>1 DEF SkillInv, SkillsAreAsReviewed, WriterInv, shelfVars
<1> QED BY <1>1, <1>2

\* What a Run freezes of the user's is what was pinned, and that was installed.
LEMMA FreezeKeeps ==
  ASSUME SkillInv, FreezeSkills
  PROVE  SkillInv'
<1> DEFINE h == SelectSeq(<<SkillsNow["project"], SkillsNow["user"]>>, LAMBDA v : v # None)
<1>1. /\ UNCHANGED <<shelfVars, decisionVars>>
      /\ skillRun' = [pc |-> "freezing", snapshot |-> SkillsNow, catalog |-> NoSkills]
      /\ writer' = [writer EXCEPT !["run"] = [pc |-> "hold", hold |-> h]]
  BY DEF FreezeSkills, NoSkillRun
<1> HIDE DEF h
<1>2. WriterInv'
  BY <1>1, WriterRewritten DEF SkillInv, decisionVars, Writers, WriterPlaces
<1>3. SkillsNow \in [Origins -> Bound] /\ SkillsNow["user"] = pinned /\ NoSkills \in [Origins -> Bound]
  BY DEF SkillsNow, SkillInv, SkillsAreAsReviewed, Bound, Origins, NoSkills
<1>4. /\ skillRun' \in Snapshots /\ skillRun'.snapshot["user"] \in installed \cup {None}
      /\ skillRun'.pc # "started"
  BY <1>1, <1>3 DEF Snapshots, SkillInv, SkillsAreAsReviewed
<1> QED BY <1>1, <1>2, <1>4 DEF SkillInv, SkillsAreAsReviewed, shelfVars, decisionVars

\* A step of the Run alone, which keeps its snapshot.
LEMMA SkillRunKeeps ==
  ASSUME SkillInv, UNCHANGED <<shelfVars, decisionVars>>, WriterInv',
         skillRun' \in Snapshots, skillRun'.snapshot = skillRun.snapshot,
         skillRun'.pc = "started" => skillRun'.catalog = skillRun'.snapshot
  PROVE  SkillInv'
BY DEF SkillInv, SkillsAreAsReviewed, shelfVars, decisionVars

LEMMA RunStepKeeps ==
  ASSUME SkillInv, AdmitWithSkills \/ ContinueWithSkills \/ EndSkillRun
  PROVE  SkillInv'
<1>0. "run" \in Writers /\ NoSkills \in [Origins -> Bound]
  BY DEF Writers, NoSkills, Bound
<1>1. CASE AdmitWithSkills
  <2>1. /\ UNCHANGED <<shelfVars, decisionVars>> /\ skillRun' = [skillRun EXCEPT !.pc = "admitted"]
        /\ writer' = [writer EXCEPT !["run"] = NoWork]
    BY <1>1 DEF AdmitWithSkills
  <2>2. WriterInv'
    BY <1>0, <2>1, WriterStops DEF SkillInv, decisionVars
  <2>3. skillRun' \in Snapshots /\ skillRun'.snapshot = skillRun.snapshot /\ skillRun'.pc = "admitted"
    BY <2>1 DEF SkillInv, Snapshots
  <2> QED BY <2>1, <2>2, <2>3, SkillRunKeeps
<1>2. CASE ContinueWithSkills
  <2>1. /\ UNCHANGED <<shelfVars, decisionVars, writer>> /\ skillRun' = [skillRun EXCEPT !.pc = "admitted"]
    BY <1>2 DEF ContinueWithSkills
  <2>2. WriterInv'
    BY <2>1 DEF SkillInv, WriterInv, decisionVars
  <2>3. skillRun' \in Snapshots /\ skillRun'.snapshot = skillRun.snapshot /\ skillRun'.pc = "admitted"
    BY <2>1 DEF SkillInv, Snapshots
  <2> QED BY <2>1, <2>2, <2>3, SkillRunKeeps
<1>3. CASE EndSkillRun
  <2>1. /\ UNCHANGED <<shelfVars, decisionVars, writer>>
        /\ skillRun' = [skillRun EXCEPT !.pc = "ended", !.catalog = NoSkills]
    BY <1>3 DEF EndSkillRun
  <2>2. WriterInv'
    BY <2>1 DEF SkillInv, WriterInv, decisionVars
  <2>3. skillRun' \in Snapshots /\ skillRun'.snapshot = skillRun.snapshot /\ skillRun'.pc = "ended"
    BY <1>0, <2>1 DEF SkillInv, Snapshots
  <2> QED BY <2>1, <2>2, <2>3, SkillRunKeeps
<1> QED BY <1>1, <1>2, <1>3

\* The bytes that are kept under the hashes of the snapshot are the snapshot's.
LEMMA RestoreKeeps ==
  ASSUME SkillInv, RestoreSkills
  PROVE  SkillInv'
<1> DEFINE s == skillRun.snapshot
           c == [o \in Origins |-> IF s[o] = None THEN None ELSE shelf[s[o]]]
<1>1. UNCHANGED <<shelfVars, decisionVars, writer>> /\ s \in [Origins -> Bound]
  BY DEF RestoreSkills, SkillInv, Snapshots
<1>2. WriterInv'
  BY <1>1 DEF SkillInv, WriterInv, decisionVars
<1>3. CASE \A o \in Origins : s[o] # None => Sound(s[o])
  <2>1. c = s
    BY <1>1, <1>3 DEF Sound
  <2>2. skillRun' = [skillRun EXCEPT !.pc = "started", !.catalog = c]
    BY <1>3 DEF RestoreSkills
  <2> HIDE DEF c
  <2>3. skillRun' \in Snapshots /\ skillRun'.snapshot = s /\ skillRun'.catalog = s
    BY <1>1, <2>1, <2>2 DEF SkillInv, Snapshots
  <2> QED BY <1>1, <1>2, <2>3, SkillRunKeeps
<1>4. CASE ~ \A o \in Origins : s[o] # None => Sound(s[o])
  <2>1. skillRun' = [skillRun EXCEPT !.pc = "ended"]
    BY <1>4 DEF RestoreSkills
  <2>2. skillRun' \in Snapshots /\ skillRun'.snapshot = s /\ skillRun'.pc = "ended"
    BY <2>1 DEF SkillInv, Snapshots
  <2> QED BY <1>1, <1>2, <2>2, SkillRunKeeps
<1> QED BY <1>3, <1>4

LEMMA SkillCrashKeeps ==
  ASSUME SkillInv, CrashSkills
  PROVE  SkillInv'
<1>1. UNCHANGED <<shelfVars, decisionVars>> /\ writer' = [w \in Writers |-> NoWork]
  BY DEF CrashSkills
<1>2. WriterInv'
  <2> DEFINE H == {writer'[x].hold : x \in Writers}
  <2>1. <<>> \in H /\ NoWork.pc \in WriterPlaces
    BY <1>1 DEF NoWork, Writers, WriterPlaces
  <2> HIDE DEF H
  <2>2. writer' \in [Writers -> [pc : WriterPlaces, hold : H]]
    BY <1>1, <2>1 DEF NoWork
  <2>3. <<>> \in Seq(seen')
    BY EmptySeq
  <2> QED BY <1>1, <2>2, <2>3 DEF WriterInv, NoWork, Writers, H
<1>3. CASE skillRun.pc \in {"admitted", "started"}
  <2>1. skillRun' = [skillRun EXCEPT !.pc = "ended", !.catalog = NoSkills]
    BY <1>3 DEF CrashSkills
  <2>2. skillRun' \in Snapshots /\ skillRun'.snapshot = skillRun.snapshot /\ skillRun'.pc = "ended"
    BY <2>1 DEF SkillInv, Snapshots, NoSkills, Bound
  <2> QED BY <1>1, <1>2, <2>2, SkillRunKeeps
<1>4. CASE skillRun.pc \notin {"admitted", "started"}
  <2>1. skillRun' \in {skillRun, NoSkillRun}
    BY <1>4 DEF CrashSkills
  <2> QED BY <1>1, <1>2, <2>1, SkillStays
<1> QED BY <1>3, <1>4

\* A Run works with what its admission froze, and what of that is the user's own was shown,
\* installed and pinned first, for any number of versions, imports and Runs, whatever is
\* edited or damaged meanwhile (skill_packages.py, skill_runtime.py).
THEOREM SkillsStayReviewed == SkillSpec => []SkillsAreAsReviewed
<1>1. SkillInit => SkillInv
  <2> SUFFICES ASSUME SkillInit PROVE SkillInv
    OBVIOUS
  <2>1. WriterInv
    <3> DEFINE H == {writer[x].hold : x \in Writers}
    <3>1. writer = [w \in Writers |-> NoWork] /\ <<>> \in Seq(seen)
      BY EmptySeq DEF SkillInit
    <3>2. <<>> \in H /\ NoWork.pc \in WriterPlaces
      BY <3>1 DEF NoWork, Writers, WriterPlaces
    <3> HIDE DEF H
    <3>3. writer \in [Writers -> [pc : WriterPlaces, hold : H]]
      BY <3>1, <3>2 DEF NoWork
    <3> QED BY <3>1, <3>3 DEF WriterInv, NoWork, Writers, H
  <2>2. /\ shelf \in [SkillVersions -> Bound] /\ offered \in SkillVersions /\ checkedOut \in Bound
        /\ seen = {} /\ installed = {} /\ pinned = None
    BY DEF SkillInit, Bound
  <2>3. skillRun \in Snapshots /\ skillRun.snapshot["user"] = None /\ skillRun.pc = "idle"
    BY DEF SkillInit, NoSkillRun, NoSkills, Snapshots, Bound, Origins
  <2> QED BY <2>1, <2>2, <2>3 DEF SkillInv, SkillsAreAsReviewed
<1>2. SkillInv /\ [SkillNext]_skillVars => SkillInv'
  <2> SUFFICES ASSUME SkillInv, [SkillNext]_skillVars PROVE SkillInv'
    OBVIOUS
  <2>1. CASE UNCHANGED skillVars
    BY <2>1 DEF skillVars, SkillInv, WriterInv, SkillsAreAsReviewed
  <2> QED BY <2>1, OutsideKeeps, ImportKeeps, WriterStepKeeps, FreezeKeeps, RunStepKeeps,
             RestoreKeeps, SkillCrashKeeps DEF SkillNext
<1> QED BY <1>1, <1>2, PTL DEF SkillSpec, SkillInv

(***************************************************************************)
(* Evaluations.                                                            *)
(***************************************************************************)
EvaluationSpec == EvaluationInit /\ [][EvaluationNext]_evaluationVars

CaseOutcomes == {"completed", "failed", "interrupted", "timed_out", "cancelled"}
Saves == {"running", "completed", "cancelled", "aborted"}
AtWork == {"case", "calling", "stopping", "ending"}
ReportsOf(no, files) == {r \in files : r.name[1] = no}
AllReports == [name : Nat \X Nat, content : Saves \X Seq(CaseOutcomes)]
Evaluations ==
  [no : Nat, live : BOOLEAN, config : Endpoints \cup {None}, pending : BOOLEAN,
   pc : {"idle", "queued", "saving", "written", "finishing"} \cup AtWork,
   done : Seq(CaseOutcomes), saved : Seq(AllReports), save : Saves \cup {None},
   last : AllReports \cup {None}, outcome : CaseOutcomes \cup {None}, blocked : BOOLEAN,
   status : {"none", "running", "completed", "failed", "interrupted"}]

LastContent(e) == e.saved[Len(e.saved)].content
NoneCancelled(e) == \A i \in 1..Len(e.done) : e.done[i] # "cancelled"

\* The last report says all that was done, or one case less; before the first there is none.
SaysAll(e) == e.saved # <<>> /\ LastContent(e) = <<e.save, e.done>>
OneBehind(e) ==
  e.saved # <<>> => LET d == LastContent(e)[2] IN
                    d = SubSeq(e.done, 1, Len(d)) /\ Len(e.done) <= Len(d) + 1

\* What the facts of an evaluation are where its task stands.
Batch(e) ==
  /\ OneBehind(e)
  /\ e.pc = "queued" => e.saved = <<>> /\ e.done = <<>>
  /\ e.pc \in AtWork => e.save = "running" /\ SaysAll(e) /\ Len(e.done) < MaxCases
  /\ e.pc = "finishing" => e.save # "running" /\ SaysAll(e)
  /\ e.pc \in {"saving", "written"} =>
       Len(e.done) <= MaxCases /\ (e.saved = <<>> => e.done = <<>>)
  /\ e.pc = "ending" => e.outcome \in CaseOutcomes
  /\ e.pc \in {"saving", "written", "finishing"} => e.save \in Saves
  /\ e.pc \notin {"idle", "queued"} /\ e.save \in {"running", "completed"} => NoneCancelled(e)
  /\ e.pc \in {"saving", "written", "finishing"} /\ e.save = "completed" => Len(e.done) = MaxCases
  /\ e.pc = "written" => e.last \in reports /\ e.last.content = <<e.save, e.done>>
  /\ e.status = "completed" =>
       /\ e.pc = "idle" /\ LastContent(e) = <<"completed", e.done>>
       /\ Len(e.done) = MaxCases /\ NoneCancelled(e)

\* The reports of a number have the indices below their count.
ReportsAreNumbered ==
  /\ IsFiniteSet(reports) /\ reports \subseteq AllReports
  /\ \A r \in reports : r.name[2] <= Cardinality(ReportsOf(r.name[1], reports))

\* The configuration stands while an evaluation runs that no change was under way for.
Confirmed ==
  /\ evaluation.pc # "idle" /\ ~ evaluation.pending =>
       changing = None /\ settings = evaluation.config
  /\ \A c \in calls : c.config = c.confirmed \/ c.pending

EvaluationInv ==
  /\ evaluation \in Evaluations /\ Batch(evaluation)
  /\ \A i \in 1..Len(evaluation.saved) : evaluation.saved[i] \in reports
  /\ ReportsAreNumbered /\ Confirmed /\ settings \in Endpoints
  /\ changing \in Endpoints \cup {None}

\* A step of a batch at work that neither ends a case nor writes a report.
LEMMA WorkKeeps ==
  ASSUME EvaluationInv, evaluation.pc \in AtWork, evaluation' \in Evaluations,
         evaluation'.pc \in AtWork, evaluation'.pc = "ending" => evaluation'.outcome \in CaseOutcomes,
         evaluation'.done = evaluation.done, evaluation'.saved = evaluation.saved,
         evaluation'.save = evaluation.save, evaluation'.status = evaluation.status,
         evaluation'.pending = evaluation.pending, evaluation'.config = evaluation.config,
         UNCHANGED <<settings, changing, reports>>,
         \A c \in calls' : c.config = c.confirmed \/ c.pending
  PROVE  EvaluationInv'
<1>1. Batch(evaluation)'
  BY DEF EvaluationInv, Batch, OneBehind, SaysAll, LastContent, NoneCancelled, AtWork
<1>2. Confirmed'
  BY DEF EvaluationInv, Confirmed, AtWork
<1>3. ReportsAreNumbered'
  BY DEF EvaluationInv, ReportsAreNumbered
<1> QED BY <1>1, <1>2, <1>3 DEF EvaluationInv

\* A batch that stops without an end is as its last report shows it.
LEMMA SettleKeeps ==
  ASSUME EvaluationInv, NEW st \in {"failed", "interrupted"}, EvaluationSettles(st),
         UNCHANGED <<settings, reports, calls>>, changing' \in {changing, None}
  PROVE  EvaluationInv'
<1>1. /\ evaluation' \in Evaluations /\ evaluation'.pc = "idle" /\ evaluation'.status = st
      /\ evaluation'.done = evaluation.done /\ evaluation'.saved = evaluation.saved
  BY DEF EvaluationInv, Evaluations, EvaluationSettles
<1>2. Batch(evaluation)'
  BY <1>1 DEF EvaluationInv, Batch, OneBehind, LastContent, AtWork
<1>3. Confirmed' /\ ReportsAreNumbered'
  BY <1>1 DEF EvaluationInv, Confirmed, ReportsAreNumbered
<1> QED BY <1>1, <1>2, <1>3 DEF EvaluationInv

LEMMA SettingsKeep ==
  ASSUME EvaluationInv, ShowEstimate \/ BeginChange \/ CommitChange
  PROVE  EvaluationInv'
<1>1. UNCHANGED <<evaluation, reports, calls>>
  BY DEF ShowEstimate, BeginChange, CommitChange
<1>2. Confirmed' /\ settings' \in Endpoints /\ changing' \in Endpoints \cup {None}
  BY <1>1 DEF EvaluationInv, Confirmed, ShowEstimate, BeginChange, CommitChange, EvaluationAt
<1>3. Batch(evaluation)' /\ ReportsAreNumbered'
  BY <1>1 DEF EvaluationInv, Batch, OneBehind, SaysAll, LastContent, NoneCancelled, ReportsAreNumbered
<1> QED BY <1>1, <1>2, <1>3 DEF EvaluationInv

LEMMA AdmitEvaluationKeeps ==
  ASSUME EvaluationInv, NEW live \in BOOLEAN, AdmitEvaluation(live)
  PROVE  EvaluationInv'
<1>1. /\ evaluation' = [NoEvaluation EXCEPT !.no = evaluation.no + 1, !.live = live, !.pc = "queued",
                                        !.config = settings, !.pending = changing # None,
                                        !.status = "running"]
      /\ UNCHANGED <<settings, changing, reports, calls>>
  BY DEF AdmitEvaluation, ServiceRest
<1>2. evaluation.no + 1 \in Nat /\ settings \in Endpoints
  BY DEF EvaluationInv, Evaluations
<1>3. <<>> \in Seq(CaseOutcomes) /\ <<>> \in Seq(AllReports) /\ Len(<<>>) = 0
  BY EmptySeq
<1>4. /\ evaluation' \in Evaluations /\ evaluation'.pc = "queued" /\ evaluation'.done = <<>>
      /\ evaluation'.saved = <<>> /\ evaluation'.config = settings
      /\ evaluation'.pending = (changing # None) /\ evaluation'.status = "running"
  BY <1>1, <1>2, <1>3 DEF NoEvaluation, Evaluations
<1>5. Batch(evaluation)'
  BY <1>4 DEF Batch, OneBehind, AtWork
<1>6. Confirmed' /\ ReportsAreNumbered'
  BY <1>1, <1>4 DEF EvaluationInv, Confirmed, ReportsAreNumbered
<1> QED BY <1>1, <1>3, <1>4, <1>5, <1>6 DEF EvaluationInv

LEMMA ExecuteKeeps ==
  ASSUME EvaluationInv, ExecuteEvaluation
  PROVE  EvaluationInv'
<1>1. evaluation.pc = "queued" /\ UNCHANGED <<settings, changing, reports, calls>>
  BY DEF ExecuteEvaluation, EvaluationAt, ServiceRest
<1>2. CASE EvaluationSettles("failed")
  BY <1>1, <1>2, SettleKeeps
<1>3. CASE EvaluationSaves("running")
  <2>1. /\ evaluation' \in Evaluations /\ evaluation'.pc = "saving" /\ evaluation'.save = "running"
        /\ evaluation'.done = evaluation.done /\ evaluation'.saved = evaluation.saved
        /\ evaluation'.status = evaluation.status /\ evaluation'.pending = evaluation.pending
        /\ evaluation'.config = evaluation.config
    BY <1>3 DEF EvaluationInv, Evaluations, EvaluationSaves, Saves
  <2>2. evaluation.done = <<>> /\ evaluation.saved = <<>> /\ Len(<<>>) = 0
    BY <1>1, EmptySeq DEF EvaluationInv, Batch
  <2>3. Batch(evaluation)'
    BY <1>1, <2>1, <2>2, EvaluationAssumption
       DEF EvaluationInv, Batch, OneBehind, AtWork, NoneCancelled, Saves
  <2>4. Confirmed' /\ ReportsAreNumbered'
    BY <1>1, <2>1 DEF EvaluationInv, Confirmed, ReportsAreNumbered
  <2> QED BY <1>1, <2>1, <2>3, <2>4 DEF EvaluationInv
<1> QED BY <1>2, <1>3 DEF ExecuteEvaluation

\* A report gets a name none has, and only adds to what there is.
LEMMA WriteKeeps ==
  ASSUME EvaluationInv, WriteReport
  PROVE  EvaluationInv'
<1> DEFINE a == evaluation.no
           n == Cardinality(ReportsOf(a, reports))
           w == [name |-> <<a, 1 + n>>, content |-> <<evaluation.save, evaluation.done>>]
<1>1. /\ evaluation.pc = "saving" /\ UNCHANGED <<settings, changing, calls>>
      /\ reports' = {r \in reports : r.name # <<a, 1 + n>>} \cup {w}
      /\ evaluation' = [evaluation EXCEPT !.pc = "written", !.last = w]
  BY DEF WriteReport, EvaluationAt, ServiceRest, Report, ReportName, ReportsOf
<1>2. /\ a \in Nat /\ evaluation.save \in Saves /\ evaluation.done \in Seq(CaseOutcomes)
      /\ reports \subseteq AllReports /\ IsFiniteSet(reports)
      /\ \A r \in reports : r.name[2] <= Cardinality(ReportsOf(r.name[1], reports))
  BY <1>1 DEF EvaluationInv, Evaluations, Batch, ReportsAreNumbered
<1>3. ASSUME NEW no PROVE IsFiniteSet(ReportsOf(no, reports))
  BY <1>2, FS_Subset DEF ReportsOf
<1>4. n \in Nat
  BY <1>3, FS_CardinalityType
<1> HIDE DEF n
<1>5. w \in AllReports /\ w.name = <<a, 1 + n>> /\ w.content = <<evaluation.save, evaluation.done>>
  BY <1>2, <1>4 DEF AllReports
<1>6. ASSUME NEW r \in reports PROVE r.name # <<a, 1 + n>>
  <2>1. r.name \in Nat \X Nat /\ r.name[2] <= Cardinality(ReportsOf(r.name[1], reports))
    BY <1>2, <1>6 DEF AllReports
  <2>2. SUFFICES ASSUME r.name = <<a, 1 + n>> PROVE FALSE
    OBVIOUS
  <2>3. r.name[1] = a /\ r.name[2] = 1 + n
    BY <2>2
  <2>4. 1 + n <= n
    BY <2>1, <2>3 DEF n
  <2> QED BY <1>4, <2>4
<1>7. reports' = reports \cup {w} /\ w \notin reports
  BY <1>1, <1>5, <1>6
<1> HIDE DEF w
<1>8. ReportsAreNumbered'
  <2>1. IsFiniteSet(reports') /\ reports' \subseteq AllReports
    BY <1>2, <1>5, <1>7, FS_AddElement
  <2>2. ASSUME NEW r \in reports'
        PROVE  r.name[2] <= Cardinality(ReportsOf(r.name[1], reports'))
    <3>1. CASE r.name[1] # a
      <4>1. ReportsOf(r.name[1], reports') = ReportsOf(r.name[1], reports) /\ r \in reports
        BY <1>5, <1>7, <2>2, <3>1 DEF ReportsOf
      <4> QED BY <1>2, <4>1
    <3>2. CASE r.name[1] = a
      <4>1. ReportsOf(a, reports') = ReportsOf(a, reports) \cup {w} /\ w \notin ReportsOf(a, reports)
        BY <1>5, <1>7 DEF ReportsOf
      <4>2. Cardinality(ReportsOf(a, reports')) = n + 1
        BY <1>3, <4>1, FS_AddElement DEF n
      <4>3. r.name[2] \in Nat /\ r.name[2] <= n + 1
        <5>1. CASE r = w
          BY <1>4, <1>5, <5>1
        <5>2. CASE r \in reports
          <6>1. r.name \in Nat \X Nat /\ r.name[2] <= n
            BY <1>2, <3>2, <5>2 DEF AllReports, n
          <6> QED BY <1>4, <6>1
        <5> QED BY <1>7, <2>2, <5>1, <5>2
      <4> QED BY <3>2, <4>2, <4>3
    <3> QED BY <3>1, <3>2
  <2> QED BY <2>1, <2>2 DEF ReportsAreNumbered
<1>9. /\ evaluation' \in Evaluations /\ evaluation'.pc = "written" /\ evaluation'.last = w
      /\ evaluation'.done = evaluation.done /\ evaluation'.saved = evaluation.saved
      /\ evaluation'.save = evaluation.save /\ evaluation'.status = evaluation.status
      /\ evaluation'.pending = evaluation.pending /\ evaluation'.config = evaluation.config
  BY <1>1, <1>5 DEF EvaluationInv, Evaluations
<1>10. Batch(evaluation)'
  BY <1>1, <1>5, <1>7, <1>9 DEF EvaluationInv, Batch, OneBehind, LastContent, AtWork, NoneCancelled
<1>11. Confirmed'
  BY <1>1, <1>9 DEF EvaluationInv, Confirmed
<1> QED BY <1>1, <1>7, <1>8, <1>9, <1>10, <1>11 DEF EvaluationInv

\* The report the log names next says all that was done so far.
LEMMA RecordKeeps ==
  ASSUME EvaluationInv, RecordReport
  PROVE  EvaluationInv'
<1> DEFINE next == IF evaluation.save # "running" THEN "finishing"
                   ELSE IF Len(evaluation.done) < MaxCases THEN "case" ELSE "saving"
           save == IF next = "saving" THEN "completed" ELSE evaluation.save
           saved == Append(evaluation.saved, evaluation.last)
<1>1. /\ evaluation.pc = "written" /\ UNCHANGED <<settings, changing, calls, reports>>
      /\ evaluation' = [evaluation EXCEPT !.pc = next, !.saved = saved, !.save = save]
  BY DEF RecordReport, EvaluationAt, ServiceRest
<1>2. /\ evaluation.last \in reports /\ evaluation.last \in AllReports
      /\ evaluation.last.content = <<evaluation.save, evaluation.done>>
      /\ evaluation.saved \in Seq(AllReports) /\ evaluation.done \in Seq(CaseOutcomes)
      /\ evaluation.save \in Saves /\ Len(evaluation.done) <= MaxCases
  BY <1>1 DEF EvaluationInv, Batch, ReportsAreNumbered, Evaluations
<1>3. /\ saved \in Seq(AllReports) /\ saved # <<>> /\ Len(saved) = Len(evaluation.saved) + 1
      /\ \A i \in 1..Len(evaluation.saved) : saved[i] = evaluation.saved[i]
      /\ saved[Len(saved)] = evaluation.last /\ Len(evaluation.saved) \in Nat
  BY <1>2, AppendProperties, LenProperties
<1> HIDE DEF saved
<1>4. ASSUME NEW i \in 1..Len(saved) PROVE saved[i] \in reports
  BY <1>2, <1>3, <1>4 DEF EvaluationInv
<1>5. next \in {"finishing", "case", "saving"} /\ save \in Saves
  BY <1>2 DEF Saves
<1>6. /\ evaluation'.pc = next /\ evaluation'.save = save /\ evaluation'.saved = saved
      /\ evaluation'.done = evaluation.done /\ evaluation'.status = evaluation.status
      /\ evaluation'.pending = evaluation.pending /\ evaluation'.config = evaluation.config
      /\ evaluation' \in Evaluations
  <2> HIDE DEF next, save
  <2> QED BY <1>1, <1>3, <1>5 DEF EvaluationInv, Evaluations, AtWork
<1>7. /\ saved[Len(saved)].content[2] = evaluation.done /\ Len(evaluation.done) \in Nat
      /\ evaluation.done = SubSeq(evaluation.done, 1, Len(evaluation.done))
  BY <1>2, <1>3, SubSeqFull, LenProperties
<1>8. OneBehind(evaluation')
  BY <1>6, <1>7 DEF OneBehind, LastContent
<1>9. next # "saving" => SaysAll(evaluation')
  BY <1>2, <1>3, <1>6 DEF SaysAll, LastContent
<1>10. next = "saving" => Len(evaluation.done) = MaxCases /\ evaluation.save = "running"
  BY <1>2, <1>7, EvaluationAssumption
<1>11. NoneCancelled(evaluation') = NoneCancelled(evaluation)
  BY <1>6 DEF NoneCancelled
<1>12. /\ evaluation.status # "completed"
       /\ evaluation.save \in {"running", "completed"} => NoneCancelled(evaluation)
       /\ evaluation.save = "completed" => Len(evaluation.done) = MaxCases
  BY <1>1 DEF EvaluationInv, Batch
<1>13. Batch(evaluation')
  BY <1>2, <1>3, <1>5, <1>6, <1>8, <1>9, <1>10, <1>11, <1>12 DEF Batch, AtWork
<1>14. Confirmed' /\ ReportsAreNumbered'
  BY <1>1, <1>6 DEF EvaluationInv, Confirmed, ReportsAreNumbered
<1>15. Batch(evaluation)'
  BY <1>1, <1>6, <1>13 DEF Batch
<1> QED BY <1>1, <1>4, <1>6, <1>14, <1>15 DEF EvaluationInv

LEMMA CaseEndKeeps ==
  ASSUME EvaluationInv, NEW o \in CaseOutcomes, CaseEnds(o), evaluation.pc \in AtWork,
         UNCHANGED <<settings, changing, reports, calls>>
  PROVE  EvaluationInv'
<1>1. /\ evaluation' \in Evaluations /\ evaluation'.pc = "ending" /\ evaluation'.outcome = o
      /\ evaluation'.done = evaluation.done /\ evaluation'.saved = evaluation.saved
      /\ evaluation'.save = evaluation.save /\ evaluation'.status = evaluation.status
      /\ evaluation'.pending = evaluation.pending /\ evaluation'.config = evaluation.config
  BY DEF EvaluationInv, Evaluations, CaseEnds, AtWork
<1> QED BY <1>1, WorkKeeps DEF AtWork, EvaluationInv, Confirmed

LEMMA PhaseKeeps ==
  ASSUME EvaluationInv, NEW pc \in {"case", "calling", "stopping"}, EvaluationGoes(pc),
         evaluation.pc \in AtWork, UNCHANGED <<settings, changing, reports>>,
         \A c \in calls' : c.config = c.confirmed \/ c.pending
  PROVE  EvaluationInv'
<1>1. /\ evaluation' \in Evaluations /\ evaluation'.pc = pc
      /\ evaluation'.done = evaluation.done /\ evaluation'.saved = evaluation.saved
      /\ evaluation'.save = evaluation.save /\ evaluation'.status = evaluation.status
      /\ evaluation'.pending = evaluation.pending /\ evaluation'.config = evaluation.config
  BY DEF EvaluationInv, Evaluations, EvaluationGoes, AtWork
<1> QED BY <1>1, WorkKeeps DEF AtWork

LEMMA CaseKeeps ==
  ASSUME EvaluationInv, CheckCall \/ EndCase \/ TimeOutCase \/ CaseStopped
  PROVE  EvaluationInv'
<1>1. /\ UNCHANGED <<settings, changing, reports, calls>> /\ evaluation.pc \in AtWork
      /\ \A c \in calls' : c.config = c.confirmed \/ c.pending
  BY DEF CheckCall, EndCase, TimeOutCase, CaseStopped, ServiceRest, EvaluationAt, AtWork,
         EvaluationInv, Confirmed
<1>2. \/ \E o \in CaseOutcomes : CaseEnds(o)
      \/ \E pc \in {"case", "calling", "stopping"} : EvaluationGoes(pc)
  BY DEF CheckCall, EndCase, TimeOutCase, CaseStopped, CaseOutcomes
<1> QED BY <1>1, <1>2, CaseEndKeeps, PhaseKeeps

\* A request goes where the user confirmed, unless a change was under way before.
LEMMA SendCallKeeps ==
  ASSUME EvaluationInv, SendCall
  PROVE  EvaluationInv'
<1>1. /\ evaluation.pc = "calling" /\ UNCHANGED <<settings, changing, reports>>
  BY DEF SendCall, EvaluationAt, ServiceRest
<1>2. CASE /\ calls' = calls \cup {[no |-> evaluation.no, config |-> settings,
                                 confirmed |-> evaluation.config, pending |-> evaluation.pending]}
           /\ \E next \in {"calling", "case"} : EvaluationGoes(next)
  <2>1. PICK next \in {"calling", "case"} : EvaluationGoes(next)
    BY <1>2
  <2>2. \A c \in calls' : c.config = c.confirmed \/ c.pending
    BY <1>1, <1>2 DEF EvaluationInv, Confirmed
  <2> QED BY <1>1, <2>1, <2>2, PhaseKeeps DEF AtWork
<1>3. CASE /\ evaluation' = [evaluation EXCEPT !.pc = "ending", !.outcome = "failed", !.blocked = TRUE]
           /\ UNCHANGED calls
  <2>1. /\ evaluation' \in Evaluations /\ evaluation'.pc = "ending" /\ evaluation'.outcome = "failed"
        /\ evaluation'.done = evaluation.done /\ evaluation'.saved = evaluation.saved
        /\ evaluation'.save = evaluation.save /\ evaluation'.status = evaluation.status
        /\ evaluation'.pending = evaluation.pending /\ evaluation'.config = evaluation.config
    BY <1>3 DEF EvaluationInv, Evaluations, AtWork, CaseOutcomes
  <2> QED BY <1>1, <1>3, <2>1, WorkKeeps DEF AtWork, EvaluationInv, Confirmed, CaseOutcomes
<1> QED BY <1>2, <1>3 DEF SendCall

\* The case that ended is the one the last report does not say; a cancelled one ends the batch.
LEMMA RecordCaseKeeps ==
  ASSUME EvaluationInv, RecordCase
  PROVE  EvaluationInv'
<1> DEFINE o == evaluation.outcome
           save == IF o = "cancelled" THEN "cancelled"
                   ELSE IF evaluation.blocked \/ (evaluation.live /\ o \in {"failed", "timed_out"})
                   THEN "aborted" ELSE "running"
           done == Append(evaluation.done, o)
<1>1. /\ evaluation.pc = "ending" /\ UNCHANGED <<settings, changing, calls, reports>>
      /\ evaluation' = [evaluation EXCEPT !.pc = "saving", !.done = done, !.outcome = None, !.save = save]
  BY DEF RecordCase, EvaluationAt, ServiceRest
<1>2. /\ o \in CaseOutcomes /\ evaluation.done \in Seq(CaseOutcomes) /\ evaluation.saved # <<>>
      /\ LastContent(evaluation)[2] = evaluation.done
      /\ Len(evaluation.done) < MaxCases /\ NoneCancelled(evaluation)
      /\ evaluation.status # "completed"
  BY <1>1 DEF EvaluationInv, Batch, Evaluations, SaysAll, AtWork
<1>3. /\ done \in Seq(CaseOutcomes) /\ Len(done) = Len(evaluation.done) + 1
      /\ \A i \in 1..Len(evaluation.done) : done[i] = evaluation.done[i]
      /\ done[Len(done)] = o /\ Len(evaluation.done) \in Nat
  BY <1>2, AppendProperties, LenProperties
<1>4. evaluation.done = SubSeq(done, 1, Len(evaluation.done))
  <2> DEFINE d == SubSeq(done, 1, Len(evaluation.done))
  <2>1. /\ d \in Seq(CaseOutcomes) /\ Len(d) = Len(evaluation.done)
        /\ \A i \in 1..Len(evaluation.done) : d[i] = done[i]
    <3>1. CASE Len(evaluation.done) = 0
      BY <1>3, <3>1, SubSeqProperties, SubSeqEmpty, EmptySeq
    <3>2. CASE Len(evaluation.done) # 0
      BY <1>3, <3>2, SubSeqProperties
    <3> QED BY <3>1, <3>2
  <2> HIDE DEF d
  <2> QED BY <1>2, <1>3, <2>1, SeqEqual DEF d
<1>5. save \in {"cancelled", "aborted", "running"} /\ (save = "running" => o # "cancelled")
  OBVIOUS
<1> HIDE DEF done, save
<1>6. /\ evaluation'.pc = "saving" /\ evaluation'.save = save /\ evaluation'.done = done
      /\ evaluation'.saved = evaluation.saved /\ evaluation'.status = evaluation.status
      /\ evaluation'.pending = evaluation.pending /\ evaluation'.config = evaluation.config
      /\ evaluation' \in Evaluations
  BY <1>1, <1>3, <1>5 DEF EvaluationInv, Evaluations, Saves
<1>7. OneBehind(evaluation')
  BY <1>2, <1>3, <1>4, <1>6 DEF OneBehind, LastContent
<1>8. save = "running" => NoneCancelled(evaluation')
  BY <1>2, <1>3, <1>5, <1>6 DEF NoneCancelled
<1>9. Batch(evaluation')
  BY <1>2, <1>3, <1>5, <1>6, <1>7, <1>8, EvaluationAssumption DEF Batch, AtWork, Saves
<1>10. Batch(evaluation)'
  BY <1>9, <1>6, <1>1 DEF Batch
<1>11. Confirmed' /\ ReportsAreNumbered'
  BY <1>1, <1>6 DEF EvaluationInv, Confirmed, ReportsAreNumbered
<1> QED BY <1>1, <1>6, <1>10, <1>11 DEF EvaluationInv

\* Only a batch whose last report is complete ends as completed.
LEMMA FinishKeeps ==
  ASSUME EvaluationInv, FinishEvaluation
  PROVE  EvaluationInv'
<1>1. evaluation.pc = "finishing" /\ UNCHANGED <<settings, changing, reports, calls>>
  BY DEF FinishEvaluation, EvaluationAt, ServiceRest
<1>2. CASE evaluation.save # "completed"
  BY <1>1, <1>2, SettleKeeps DEF FinishEvaluation
<1>3. CASE evaluation.save = "completed"
  <2>1. /\ evaluation' \in Evaluations /\ evaluation'.pc = "idle" /\ evaluation'.status = "completed"
        /\ evaluation'.done = evaluation.done /\ evaluation'.saved = evaluation.saved
        /\ evaluation'.save = evaluation.save
    BY <1>3 DEF FinishEvaluation, EvaluationInv, Evaluations, EvaluationSettles
  <2>2. Batch(evaluation)'
    BY <1>1, <1>3, <2>1 DEF EvaluationInv, Batch, OneBehind, LastContent, SaysAll, AtWork, NoneCancelled
  <2>3. Confirmed' /\ ReportsAreNumbered'
    BY <1>1, <2>1 DEF EvaluationInv, Confirmed, ReportsAreNumbered
  <2> QED BY <1>1, <2>1, <2>2, <2>3 DEF EvaluationInv
<1> QED BY <1>2, <1>3

LEMMA QuietEvaluationKeeps ==
  ASSUME EvaluationInv, UNCHANGED <<settings, evaluation, reports, calls>>, changing' \in {changing, None}
  PROVE  EvaluationInv'
<1>1. Batch(evaluation)' /\ ReportsAreNumbered' /\ Confirmed'
  BY DEF EvaluationInv, Batch, OneBehind, SaysAll, LastContent, NoneCancelled, ReportsAreNumbered, Confirmed
<1> QED BY <1>1 DEF EvaluationInv

LEMMA StopKeeps ==
  ASSUME EvaluationInv, FailEvaluation \/ CancelEvaluation \/ CrashEvaluation
  PROVE  EvaluationInv'
<1>1. CASE FailEvaluation
  BY <1>1, SettleKeeps DEF FailEvaluation, ServiceRest
<1>2. CASE CancelEvaluation
  <2>1. UNCHANGED <<settings, changing, reports, calls>>
    BY <1>2 DEF CancelEvaluation, ServiceRest
  <2>2. CASE EvaluationAt({"queued"})
    BY <1>2, <2>1, <2>2, SettleKeeps DEF CancelEvaluation
  <2>3. CASE EvaluationAt({"stopping"})
    BY <1>2, <2>1, <2>3, QuietEvaluationKeeps DEF CancelEvaluation, EvaluationAt
  <2>4. CASE ~ EvaluationAt({"queued"}) /\ ~ EvaluationAt({"stopping"})
    <3>1. evaluation.pc \in AtWork /\ CaseEnds("cancelled")
      BY <1>2, <2>4 DEF CancelEvaluation, EvaluationAt, AtWork
    <3> QED BY <2>1, <3>1, CaseEndKeeps DEF CaseOutcomes
  <2> QED BY <2>2, <2>3, <2>4
<1>3. CASE CrashEvaluation
  <2>1. UNCHANGED <<settings, reports, calls>> /\ changing' = None
    BY <1>3 DEF CrashEvaluation
  <2>2. CASE EvaluationAt({"idle"})
    BY <1>3, <2>1, <2>2, QuietEvaluationKeeps DEF CrashEvaluation
  <2>3. CASE ~ EvaluationAt({"idle"})
    BY <1>3, <2>1, <2>3, SettleKeeps DEF CrashEvaluation
  <2> QED BY <2>2, <2>3
<1> QED BY <1>1, <1>2, <1>3

\* What the log says of an evaluation can be shown, and a live batch asked only where its user
\* had confirmed, for any number of cases, batches and configurations, whatever is cancelled,
\* timed out or lost (evaluation_control.py, evaluation.py, evaluation_calls.py).
THEOREM EvaluationsAreEvidence == EvaluationSpec => []EvaluationIsEvidence
<1>1. EvaluationInit => EvaluationInv
  <2> SUFFICES ASSUME EvaluationInit PROVE EvaluationInv
    OBVIOUS
  <2>1. <<>> \in Seq(CaseOutcomes) /\ <<>> \in Seq(AllReports) /\ Len(<<>>) = 0
    BY EmptySeq
  <2>2. evaluation \in Evaluations /\ evaluation.saved = <<>> /\ evaluation.pc = "idle"
        /\ evaluation.status = "none"
    BY <2>1 DEF EvaluationInit, NoEvaluation, Evaluations
  <2>3. Batch(evaluation)
    BY <2>2 DEF Batch, OneBehind, AtWork
  <2>4. ReportsAreNumbered
    BY FS_EmptySet DEF EvaluationInit, ReportsAreNumbered
  <2> QED BY <2>1, <2>2, <2>3, <2>4 DEF EvaluationInit, EvaluationInv, Confirmed
<1>2. EvaluationInv /\ [EvaluationNext]_evaluationVars => EvaluationInv'
  <2> SUFFICES ASSUME EvaluationInv, [EvaluationNext]_evaluationVars PROVE EvaluationInv'
    OBVIOUS
  <2>1. CASE UNCHANGED evaluationVars
    BY <2>1, QuietEvaluationKeeps DEF evaluationVars
  <2> QED BY <2>1, SettingsKeep, AdmitEvaluationKeeps, ExecuteKeeps, WriteKeeps, RecordKeeps,
             CaseKeeps, SendCallKeeps, RecordCaseKeeps, FinishKeeps, StopKeeps DEF EvaluationNext
<1>3. EvaluationInv => EvaluationIsEvidence
  <2> SUFFICES ASSUME EvaluationInv PROVE EvaluationIsEvidence
    OBVIOUS
  <2>1. /\ DOMAIN evaluation.saved = 1..Len(evaluation.saved)
        /\ DOMAIN evaluation.done = 1..Len(evaluation.done)
    BY LenProperties DEF EvaluationInv, Evaluations
  <2> QED BY <2>1 DEF EvaluationInv, Batch, OneBehind, LastContent, NoneCancelled, Confirmed,
                      EvaluationIsEvidence
<1> QED BY <1>1, <1>2, <1>3, PTL DEF EvaluationSpec

(***************************************************************************)
(* Deliveries.                                                             *)
(***************************************************************************)
DeliverySpec == DeliveryInit /\ [][DeliveryNext]_deliveryVars

Actions == {"prepare", "run", "verify", "repair", "apply"}
DeliveryFacts ==
  [prepared : BOOLEAN, verified : {None} \cup [patch : Trees, passed : BOOLEAN],
   repair : {None, "started", "passed", "stopped"}, applied : BOOLEAN]
Operations ==
  [action : Actions \cup {None},
   phase : {"idle", "preparing", "writing", "candidate", "checking", "checked", "starting",
            "round", "judging", "finishing", "applying", "adopting", "recording"},
   patch : Trees \cup {None}, passed : BOOLEAN, rounds : Nat]

DeliveryTypes ==
  /\ delivery \in DeliveryFacts /\ op \in Operations
  /\ checkout \in Trees /\ used.crashes \in Nat /\ DOMAIN used = {"operations", "meddling", "crashes"}
  /\ IsFiniteSet(adopted)

\* Where an operation stands: whose it is, and what the repair and the verdict are then.
Standing ==
  /\ op.phase = "writing" => op.action \in {"run", "repair"}
  /\ op.phase \in {"candidate", "checking", "checked"} => op.action \in {"verify", "repair"}
  /\ op.phase \in {"starting", "round", "judging", "finishing"} => op.action = "repair"
  /\ op.phase \in {"applying", "adopting", "recording"} =>
       op.action = "apply" /\ ~ delivery.applied /\ delivery.repair \in {None, "passed"}
  /\ op.phase # "idle" /\ op.action \in {"run", "verify"} => delivery.repair = None
  /\ op.phase = "starting" => delivery.repair = None
  /\ op.phase \notin {"idle", "starting"} /\ op.action = "repair" => delivery.repair = "started"
  /\ op.phase = "judging" =>
       op.patch \in Trees /\ delivery.verified = [patch |-> op.patch, passed |-> op.passed]
  /\ op.phase = "finishing" /\ op.passed =>
       op.patch \in Trees /\ delivery.verified = [patch |-> op.patch, passed |-> TRUE]
  /\ op.phase = "adopting" =>
       /\ delivery.verified = [patch |-> op.patch, passed |-> TRUE]
       /\ op.patch \in Candidates /\ unknownIn = {}

DeliveryInv == DeliveryTypes /\ Standing /\ AdoptionIsSound

VerdictStep ==
  /\ delivery.repair # None /\ delivery'.verified # delivery.verified => op.action = "repair"
  /\ delivery.repair \notin {None, "started"} => delivery'.repair = delivery.repair
  /\ delivery.repair = "started" /\ delivery'.repair = "passed" =>
       VerificationPassed /\ delivery.verified.patch = op.patch

DeliveryKept == DeliveryInv' /\ VerdictStep

\* A step that leaves the operation and the facts alone.
LEMMA AsideKeeps ==
  ASSUME DeliveryInv, UNCHANGED <<delivery, op, adopted>>, checkout' \in Trees,
         used'.crashes = used.crashes, DOMAIN used' = DOMAIN used,
         op.phase = "adopting" => UNCHANGED unknownIn
  PROVE  DeliveryKept
<1>1. DeliveryTypes' /\ Standing'
  BY DEF DeliveryInv, DeliveryTypes, DeliveryFacts, Operations, Standing
<1>2. AdoptionIsSound'
  BY DEF DeliveryInv, AdoptionIsSound
<1> QED BY <1>1, <1>2 DEF DeliveryKept, DeliveryInv, VerdictStep

\* An operation ends, or a repair that was started is about to record that it stopped.
LEMMA FailKeeps ==
  ASSUME DeliveryInv, EndOp \/ FailOp, UNCHANGED <<delivery, adopted>>, checkout' \in Trees,
         UNCHANGED used, op.phase # "recording"
  PROVE  DeliveryKept
<1>1. \/ op' = NoOp
      \/ /\ op.action = "repair" /\ delivery.repair = "started"
         /\ op' = [op EXCEPT !.phase = "finishing", !.passed = FALSE]
  BY DEF EndOp, FailOp
<1>2. DeliveryTypes' /\ Standing'
  <2>1. CASE op' = NoOp
    <3>1. op'.phase = "idle"
      BY <2>1 DEF NoOp, Operations
    <3>2. op' \in Operations
      BY <2>1 DEF NoOp, Operations
    <3> QED BY <3>1, <3>2 DEF DeliveryInv, DeliveryTypes, DeliveryFacts, Operations, Standing
  <2>2. CASE /\ op.action = "repair" /\ delivery.repair = "started"
             /\ op' = [op EXCEPT !.phase = "finishing", !.passed = FALSE]
    BY <2>2 DEF DeliveryInv, DeliveryTypes, DeliveryFacts, Operations, Standing
  <2> QED BY <1>1, <2>1, <2>2
<1>3. AdoptionIsSound'
  BY DEF DeliveryInv, AdoptionIsSound
<1> QED BY <1>2, <1>3 DEF DeliveryKept, DeliveryInv, VerdictStep

\* An operation goes on, and the facts stay.
LEMMA PhaseOfOp ==
  ASSUME DeliveryInv, UNCHANGED <<delivery, adopted>>, checkout' \in Trees,
         used'.crashes = used.crashes, DOMAIN used' = DOMAIN used,
         op.phase # "recording", DeliveryTypes', Standing'
  PROVE  DeliveryKept
BY DEF DeliveryInv, DeliveryKept, VerdictStep, AdoptionIsSound

LEMMA AdmissionKeeps ==
  ASSUME DeliveryInv, (\E a \in Actions : AdmitDelivery(a)) \/ ExecuteAdmitted
  PROVE  DeliveryKept
<1>1. /\ UNCHANGED <<delivery, op, adopted, checkout, unknownIn>>
      /\ used' = used \/ used' = [used EXCEPT !["operations"] = @ + 1]
  BY DEF AdmitDelivery, ExecuteAdmitted, Spend
<1>2. used'.crashes = used.crashes /\ DOMAIN used' = DOMAIN used
  BY <1>1 DEF DeliveryInv, DeliveryTypes, DeliveryFacts, Operations
<1>3. checkout' \in Trees
  BY <1>1 DEF DeliveryInv, DeliveryTypes, DeliveryFacts, Operations
<1> QED BY <1>1, <1>2, <1>3, AsideKeeps

\* An operation begins only where the repair lets it.
LEMMA BeginKeeps ==
  ASSUME DeliveryInv, NEW a \in Actions, BeginOp(a), op = NoOp,
         UNCHANGED <<delivery, adopted, checkout>>,
         used'.crashes = used.crashes, DOMAIN used' = DOMAIN used
  PROVE  DeliveryKept
<1>0. checkout' \in Trees /\ op.phase = "idle"
  BY DEF DeliveryInv, DeliveryTypes, DeliveryFacts, Operations, NoOp
<1>1. CASE ~ MayBegin(a)
  <2>1. op' = op
    BY <1>1 DEF BeginOp
  <2> QED BY <1>0, <2>1, AsideKeeps
<1>2. CASE MayBegin(a)
  <2>1. FirstPhase(a) \in {"preparing", "writing", "candidate", "starting", "applying"}
    BY DEF FirstPhase, Actions
  <2>2. /\ FirstPhase(a) = "writing" => a = "run"
        /\ FirstPhase(a) = "candidate" => a = "verify"
        /\ FirstPhase(a) = "starting" => a = "repair"
        /\ FirstPhase(a) = "applying" => a = "apply"
        /\ a = "repair" => FirstPhase(a) = "starting"
    BY DEF FirstPhase, Actions
  <2>3. op' = [action |-> a, phase |-> FirstPhase(a), patch |-> None, passed |-> FALSE, rounds |-> 0]
    BY <1>2 DEF BeginOp, NoOp
  <2> HIDE DEF FirstPhase
  <2>4. DeliveryTypes'
    BY <1>0, <2>1, <2>3 DEF DeliveryInv, DeliveryTypes, DeliveryFacts, Operations
  <2>5. /\ a \in {"run", "verify", "repair"} => delivery.repair = None
        /\ a = "apply" => delivery.repair \in {None, "passed"} /\ ~ delivery.applied
    BY <1>2 DEF MayBegin, RefusedByRepair
  <2>6. Standing'
    BY <2>1, <2>2, <2>3, <2>5 DEF Standing
  <2> QED BY <1>0, <2>4, <2>6, PhaseOfOp
<1> QED BY <1>1, <1>2

\* What the Web has admitted is one of the operations.
WebType == web # None => web \in [action : Actions, phase : {"admitted", "waiting"}, reviewed : Trees \cup {None}]

LEMMA WebKeeps ==
  ASSUME DeliveryInv, WebType, [DeliveryNext]_deliveryVars
  PROVE  WebType'
<1>1. ASSUME NEW a \in Actions, AdmitDelivery(a) PROVE WebType'
  <2>1. a = "apply" => delivery.verified.patch \in Trees
    BY <1>1 DEF AdmitDelivery, MayAdmit, VerificationPassed, DeliveryInv, DeliveryTypes, DeliveryFacts, Operations
  <2>2. web' = [action |-> a, phase |-> "admitted",
                reviewed |-> IF a = "apply" THEN delivery.verified.patch ELSE None]
    BY <1>1 DEF AdmitDelivery
  <2> QED BY <2>1, <2>2 DEF WebType
<1>2. CASE ExecuteAdmitted
  <2>1. web # None /\ (web' = None \/ web' = [web EXCEPT !.phase = "waiting"])
    BY <1>2 DEF ExecuteAdmitted
  <2> QED BY <2>1 DEF WebType
<1>3. CASE web' \in {web, None}
  BY <1>3 DEF WebType
<1>4. \/ \E a \in Actions : AdmitDelivery(a)
      \/ ExecuteAdmitted
      \/ web' \in {web, None}
  BY DEF DeliveryNext, deliveryVars, Actions, BeginAdmitted, BeginDirect, PrepareCheckout, RunWriter,
         BuildCandidate, RunChecks, RecordVerified, StartRepair, StartRound, JudgeRound, FinishRepair,
         CheckAdoption, GitApply, RecordApplied, CancelOperation, DeliveryCrash, Meddle, DeliveryRest
<1> QED BY <1>1, <1>2, <1>3, <1>4

LEMMA BeginAnyKeeps ==
  ASSUME DeliveryInv, WebType, BeginAdmitted \/ \E a \in Actions : BeginDirect(a)
  PROVE  DeliveryKept
<1>1. CASE BeginAdmitted
  <2>1. web.action \in Actions /\ BeginOp(web.action) /\ op = NoOp
        /\ UNCHANGED <<delivery, adopted, checkout, used>>
    BY <1>1 DEF BeginAdmitted, WebType
  <2>2. PICK a \in Actions : BeginOp(a)
    BY <2>1
  <2> QED BY <2>1, <2>2, BeginKeeps
<1>2. ASSUME NEW a \in Actions, BeginDirect(a) PROVE DeliveryKept
  <2>1. used' = [used EXCEPT !["operations"] = @ + 1] /\ BeginOp(a) /\ op = NoOp
        /\ UNCHANGED <<delivery, adopted, checkout>>
    BY <1>2 DEF BeginDirect, Spend
  <2>2. used'.crashes = used.crashes /\ DOMAIN used' = DOMAIN used
    BY <2>1 DEF DeliveryInv, DeliveryTypes, DeliveryFacts, Operations
  <2> QED BY <2>1, <2>2, BeginKeeps
<1> QED BY <1>1, <1>2

LEMMA PrepareKeeps ==
  ASSUME DeliveryInv, PrepareCheckout
  PROVE  DeliveryKept
<1>1. /\ op.phase = "preparing" /\ op' = NoOp /\ UNCHANGED <<checkout, adopted, used>>
      /\ delivery' \in {delivery, [delivery EXCEPT !.prepared = TRUE]}
  BY DEF PrepareCheckout, EndOp
<1>2. op'.phase = "idle" /\ op' \in [action : Actions \cup {None}, phase : {"idle"}, patch : Trees \cup {None},
                                    passed : BOOLEAN, rounds : Nat]
  BY <1>1 DEF NoOp
<1>3. /\ delivery'.repair = delivery.repair /\ delivery'.verified = delivery.verified
      /\ delivery'.applied = delivery.applied
  BY <1>1 DEF DeliveryInv, DeliveryTypes, DeliveryFacts, Operations
<1>4. DeliveryTypes'
  BY <1>1, <1>2 DEF DeliveryInv, DeliveryTypes, DeliveryFacts, Operations
<1>5. Standing' /\ AdoptionIsSound'
  BY <1>1, <1>2, <1>3 DEF DeliveryInv, Standing, AdoptionIsSound
<1>6. VerdictStep
  BY <1>3 DEF VerdictStep
<1> QED BY <1>4, <1>5, <1>6 DEF DeliveryKept, DeliveryInv

LEMMA WriterKeepsDelivery ==
  ASSUME DeliveryInv, RunWriter
  PROVE  DeliveryKept
<1>1. /\ op.phase = "writing" /\ UNCHANGED <<delivery, adopted, used>> /\ checkout' \in Trees
  BY DEF RunWriter, DeliveryInv, DeliveryTypes, DeliveryFacts, Operations
<1>2. CASE op' = [op EXCEPT !.phase = "candidate"] /\ op.action = "repair"
  <2>1. DeliveryTypes' /\ Standing'
    BY <1>1, <1>2 DEF DeliveryInv, DeliveryTypes, DeliveryFacts, Operations, Standing
  <2> QED BY <1>1, <2>1, PhaseOfOp
<1>3. CASE FailOp \/ EndOp
  BY <1>1, <1>3, FailKeeps
<1> QED BY <1>2, <1>3 DEF RunWriter, EndOp

LEMMA CandidateKeeps ==
  ASSUME DeliveryInv, BuildCandidate
  PROVE  DeliveryKept
<1>1. /\ op.phase = "candidate" /\ UNCHANGED <<delivery, adopted, used>> /\ checkout' \in Trees
  BY DEF BuildCandidate, DeliveryRest, DeliveryInv, DeliveryTypes, DeliveryFacts, Operations
<1>2. CASE op' = [op EXCEPT !.phase = "checking", !.patch = checkout]
  <2>1. DeliveryTypes' /\ Standing'
    BY <1>1, <1>2 DEF DeliveryInv, DeliveryTypes, DeliveryFacts, Operations, Standing
  <2> QED BY <1>1, <2>1, PhaseOfOp
<1>3. CASE FailOp
  BY <1>1, <1>3, FailKeeps
<1> QED BY <1>2, <1>3 DEF BuildCandidate

LEMMA ChecksKeep ==
  ASSUME DeliveryInv, RunChecks
  PROVE  DeliveryKept
<1>1. /\ op.phase = "checking" /\ UNCHANGED <<delivery, adopted, used>> /\ checkout' \in Trees
  BY DEF RunChecks, DeliveryInv, DeliveryTypes, DeliveryFacts, Operations, Trees
<1>2. PICK passed \in BOOLEAN : op' = [op EXCEPT !.phase = "checked", !.passed = passed]
  BY DEF RunChecks
<1>3. DeliveryTypes' /\ Standing'
  BY <1>1, <1>2 DEF DeliveryInv, DeliveryTypes, DeliveryFacts, Operations, Standing
<1> QED BY <1>1, <1>3, PhaseOfOp

\* Only the repair verifies once it has started, and it judges what it recorded.
LEMMA VerifiedKeeps ==
  ASSUME DeliveryInv, RecordVerified
  PROVE  DeliveryKept
<1>1. op.phase = "checked" /\ UNCHANGED <<checkout, adopted, used>> /\ checkout' \in Trees
  BY DEF RecordVerified, DeliveryInv, DeliveryTypes, DeliveryFacts, Operations
<1>2. CASE UNCHANGED delivery /\ FailOp
  BY <1>1, <1>2, FailKeeps
<1>3. CASE /\ Buildable /\ checkout = op.patch
           /\ delivery' = [delivery EXCEPT !.verified = [patch |-> op.patch, passed |-> op.passed]]
           /\ IF op.action = "repair" THEN Proceed("judging") ELSE EndOp
  <2>1. /\ delivery'.repair = delivery.repair /\ delivery'.applied = delivery.applied
        /\ delivery'.verified = [patch |-> op.patch, passed |-> op.passed]
    BY <1>3 DEF DeliveryInv, DeliveryTypes, DeliveryFacts, Operations
  <2>2. \/ op.action = "repair" /\ op' = [op EXCEPT !.phase = "judging"]
        \/ op' = NoOp /\ NoOp.phase = "idle"
    BY <1>3 DEF Proceed, EndOp, NoOp
  <2>3. DeliveryTypes'
    <3>1. delivery' \in DeliveryFacts
      <4>1. op.passed \in BOOLEAN /\ op.patch \in Trees
        BY <1>1, <1>3 DEF DeliveryInv, DeliveryTypes, Operations
      <4>2. PICK v \in [patch : Trees, passed : BOOLEAN] : delivery' = [delivery EXCEPT !.verified = v]
        BY <1>3, <4>1
      <4> QED BY <4>2 DEF DeliveryInv, DeliveryTypes, DeliveryFacts
    <3>2. NoOp \in Operations
      BY DEF NoOp, Operations
    <3>3. op' \in Operations
      <4>1. op \in Operations
        BY DEF DeliveryInv, DeliveryTypes, DeliveryFacts, Operations
      <4>2. [op EXCEPT !.phase = "judging"] \in Operations
        BY <4>1 DEF Operations
      <4> QED BY <2>2, <3>2, <4>2
    <3> QED BY <1>1, <3>1, <3>3 DEF DeliveryInv, DeliveryTypes
  <2>4. Standing'
    <3>1. CASE op.action = "repair" /\ op' = [op EXCEPT !.phase = "judging"]
      BY <1>1, <1>3, <2>1, <3>1 DEF DeliveryInv, DeliveryTypes, DeliveryFacts, Operations, Standing
    <3>2. CASE op' = NoOp /\ NoOp.phase = "idle"
      BY <3>2 DEF Standing
    <3> QED BY <2>2, <3>1, <3>2
  <2>5. AdoptionIsSound' /\ VerdictStep
    BY <1>1, <2>1 DEF DeliveryInv, AdoptionIsSound, VerdictStep, Standing
  <2> QED BY <2>3, <2>4, <2>5 DEF DeliveryKept, DeliveryInv
<1> QED BY <1>2, <1>3 DEF RecordVerified

\* A repair starts once, verifies what it wrote, and passes on what it recorded.
LEMMA RepairKeeps ==
  ASSUME DeliveryInv, StartRepair \/ StartRound \/ JudgeRound
  PROVE  DeliveryKept
<1>0. UNCHANGED <<checkout, adopted, used>> /\ checkout' \in Trees
  BY DEF StartRepair, StartRound, JudgeRound, DeliveryRest, DeliveryInv, DeliveryTypes, DeliveryFacts, Operations
<1>1. CASE StartRepair /\ ~ Buildable
  BY <1>0, <1>1, FailKeeps DEF StartRepair
<1>2. CASE StartRepair /\ Buildable
  <2>1. /\ op.phase = "starting" /\ delivery' = [delivery EXCEPT !.repair = "started"]
        /\ op' = [op EXCEPT !.phase = "round", !.patch = checkout]
    BY <1>2 DEF StartRepair
  <2>2. /\ delivery'.repair = "started" /\ delivery'.applied = delivery.applied
        /\ delivery'.verified = delivery.verified
    BY <2>1 DEF DeliveryInv, DeliveryTypes, DeliveryFacts, Operations
  <2>3. DeliveryTypes'
    BY <1>0, <2>1 DEF DeliveryInv, DeliveryTypes, DeliveryFacts, Operations
  <2>4. Standing' /\ delivery.repair = None
    BY <2>1, <2>2 DEF DeliveryInv, DeliveryTypes, DeliveryFacts, Operations, Standing
  <2>5. AdoptionIsSound' /\ VerdictStep
    BY <1>0, <2>1, <2>2, <2>4 DEF DeliveryInv, AdoptionIsSound, VerdictStep
  <2> QED BY <2>3, <2>4, <2>5 DEF DeliveryKept, DeliveryInv
<1>3. CASE StartRound \/ JudgeRound
  <2>1. UNCHANGED <<delivery, unknownIn>> /\ op.phase \in {"round", "judging"}
    BY <1>3 DEF StartRound, JudgeRound, DeliveryRest
  <2>2. CASE FailOp
    BY <1>0, <2>1, <2>2, FailKeeps
  <2>3. CASE op' = [op EXCEPT !.phase = "writing", !.rounds = @ + 1] /\ op.phase = "round"
    <3> DEFINE n == op.rounds + 1
    <3>a. n \in Nat /\ op' = [op EXCEPT !.phase = "writing", !.rounds = n]
      BY <2>3 DEF DeliveryInv, DeliveryTypes, Operations
    <3> HIDE DEF n
    <3>0. PICK r \in Nat : op' = [op EXCEPT !.phase = "writing", !.rounds = r]
      BY <3>a
    <3>1. op' \in Operations /\ op'.phase = "writing" /\ op'.action = op.action
      BY <3>0 DEF DeliveryInv, DeliveryTypes, Operations
    <3>2. DeliveryTypes' /\ Standing'
      BY <1>0, <2>1, <2>3, <3>1 DEF DeliveryInv, DeliveryTypes, Standing
    <3> QED BY <1>0, <2>1, <3>2, PhaseOfOp
  <2>4. CASE op' = [op EXCEPT !.phase = "finishing"] /\ op.phase = "judging" /\ op.passed
    <3>1. DeliveryTypes' /\ Standing'
      BY <1>0, <2>1, <2>4 DEF DeliveryInv, DeliveryTypes, DeliveryFacts, Operations, Standing
    <3> QED BY <1>0, <2>1, <3>1, PhaseOfOp
  <2>5. CASE op' = [op EXCEPT !.phase = "round"] /\ op.phase = "judging"
    <3>1. DeliveryTypes' /\ Standing'
      BY <1>0, <2>1, <2>5 DEF DeliveryInv, DeliveryTypes, DeliveryFacts, Operations, Standing
    <3> QED BY <1>0, <2>1, <3>1, PhaseOfOp
  <2> QED BY <1>3, <2>2, <2>3, <2>4, <2>5 DEF StartRound, JudgeRound, Proceed
<1> QED BY <1>1, <1>2, <1>3

LEMMA FinishRepairKeeps ==
  ASSUME DeliveryInv, FinishRepair
  PROVE  DeliveryKept
<1>1. /\ op.phase = "finishing" /\ UNCHANGED <<checkout, adopted, used>>
      /\ delivery' = [delivery EXCEPT !.repair = IF op.passed THEN "passed" ELSE "stopped"]
      /\ op' = NoOp
  BY DEF FinishRepair, EndOp
<1>2. /\ delivery'.repair = (IF op.passed THEN "passed" ELSE "stopped")
      /\ delivery'.applied = delivery.applied /\ delivery'.verified = delivery.verified
      /\ op'.phase = "idle"
  BY <1>1 DEF DeliveryInv, DeliveryTypes, DeliveryFacts, Operations, NoOp
<1>3. DeliveryTypes'
  BY <1>1 DEF DeliveryInv, DeliveryTypes, DeliveryFacts, Operations, NoOp
<1>4. Standing' /\ delivery.repair = "started"
  BY <1>1, <1>2 DEF DeliveryInv, Standing
<1>5. op.passed => VerificationPassed /\ delivery.verified.patch = op.patch
  <2>1. op.passed => op.patch \in Trees /\ delivery.verified = [patch |-> op.patch, passed |-> TRUE]
    BY <1>1 DEF DeliveryInv, Standing
  <2>2. \A p \in Trees : [patch |-> p, passed |-> TRUE] \in [patch : Trees, passed : BOOLEAN]
    OBVIOUS
  <2>3. \A p : [patch |-> p, passed |-> TRUE].patch = p /\ [patch |-> p, passed |-> TRUE].passed
    OBVIOUS
  <2> QED
    <3>1. SUFFICES ASSUME op.passed PROVE VerificationPassed /\ delivery.verified.patch = op.patch
      OBVIOUS
    <3>2. delivery.verified \in [patch : Trees, passed : BOOLEAN] /\ delivery.verified.passed
          /\ delivery.verified.patch = op.patch
      BY <2>1, <2>2, <2>3, <3>1
    <3> QED BY <3>2, DeliveryAssumption DEF VerificationPassed
<1>6. AdoptionIsSound'
  BY <1>1, <1>2 DEF DeliveryInv, AdoptionIsSound
<1>7. VerdictStep
  BY <1>2, <1>4, <1>5 DEF VerdictStep
<1> QED BY <1>3, <1>4, <1>6, <1>7 DEF DeliveryKept, DeliveryInv

\* What is to be adopted is what passed, and both directories are held from there on.
LEMMA CheckKeeps ==
  ASSUME DeliveryInv, CheckAdoption
  PROVE  DeliveryKept
<1>1. op.phase = "applying" /\ UNCHANGED <<delivery, adopted, used, unknownIn>> /\ checkout' \in Trees
  BY DEF CheckAdoption, DeliveryRest, DeliveryInv, DeliveryTypes, DeliveryFacts, Operations
<1>2. CASE ~ Adoptable
  BY <1>1, <1>2, FailKeeps DEF CheckAdoption
<1>3. CASE Adoptable
  <2>1. op' = [op EXCEPT !.phase = "adopting", !.patch = checkout]
    BY <1>3 DEF CheckAdoption
  <2>2. /\ delivery.verified = [patch |-> checkout, passed |-> TRUE]
        /\ checkout \in Candidates /\ unknownIn = {}
    BY <1>3 DEF Adoptable, VerificationPassed, DeliveryInv, DeliveryTypes, DeliveryFacts, Operations, Trees
  <2>3. DeliveryTypes' /\ Standing'
    BY <1>1, <2>1, <2>2 DEF DeliveryInv, DeliveryTypes, DeliveryFacts, Operations, Standing
  <2> QED BY <1>1, <2>3, PhaseOfOp
<1> QED BY <1>2, <1>3

LEMMA ApplyKeeps ==
  ASSUME DeliveryInv, GitApply
  PROVE  DeliveryKept
<1>1. op.phase = "adopting" /\ UNCHANGED <<delivery, checkout, used, unknownIn>> /\ checkout' \in Trees
  BY DEF GitApply, DeliveryInv, DeliveryTypes, DeliveryFacts, Operations
<1>2. CASE source # Base /\ EndOp /\ UNCHANGED <<source, adopted>>
  BY <1>1, <1>2, FailKeeps
<1>3. CASE adopted' = adopted \cup {Adoption} /\ Proceed("recording")
  <2>1. op' = [op EXCEPT !.phase = "recording"]
    BY <1>3 DEF Proceed
  <2>2. DeliveryTypes'
    <3>1. IsFiniteSet(adopted')
      BY <1>3, FS_AddElement DEF DeliveryInv, DeliveryTypes, DeliveryFacts, Operations
    <3> QED BY <1>1, <2>1, <3>1 DEF DeliveryInv, DeliveryTypes, DeliveryFacts, Operations
  <2>3. Standing' /\ op'.phase = "recording"
    BY <1>1, <2>1 DEF DeliveryInv, DeliveryTypes, DeliveryFacts, Operations, Standing
  <2>4. /\ Adoption.verified = [patch |-> Adoption.patch, passed |-> TRUE]
        /\ Adoption.patch \in Candidates /\ Adoption.unknownIn = {}
        /\ Adoption.repair \in {None, "passed"}
    BY <1>1 DEF DeliveryInv, Standing, Adoption
  <2>5. used.crashes = 0 => Cardinality(adopted') <= 1
    <3>1. used.crashes = 0 => adopted = {}
      BY <1>1 DEF DeliveryInv, Standing, AdoptionIsSound
    <3>2. Cardinality({Adoption}) = 1
      BY FS_Singleton
    <3> QED BY <1>3, <3>1, <3>2
  <2>6. AdoptionIsSound'
    BY <1>1, <1>3, <2>3, <2>4, <2>5 DEF DeliveryInv, AdoptionIsSound
  <2>7. VerdictStep
    BY <1>1 DEF VerdictStep
  <2> QED BY <2>2, <2>3, <2>6, <2>7 DEF DeliveryKept, DeliveryInv
<1> QED BY <1>2, <1>3 DEF GitApply

LEMMA AppliedKeeps ==
  ASSUME DeliveryInv, RecordApplied
  PROVE  DeliveryKept
<1>1. /\ UNCHANGED <<checkout, adopted, used>> /\ op' = NoOp
      /\ delivery' = [delivery EXCEPT !.applied = TRUE]
  BY DEF RecordApplied, EndOp
<1>2. /\ delivery'.repair = delivery.repair /\ delivery'.applied /\ op'.phase = "idle"
      /\ delivery'.verified = delivery.verified
  BY <1>1 DEF DeliveryInv, DeliveryTypes, DeliveryFacts, Operations, NoOp
<1>3. DeliveryTypes'
  BY <1>1 DEF DeliveryInv, DeliveryTypes, DeliveryFacts, Operations, NoOp
<1>4. Standing' /\ AdoptionIsSound' /\ VerdictStep
  BY <1>1, <1>2 DEF DeliveryInv, Standing, AdoptionIsSound, VerdictStep
<1> QED BY <1>3, <1>4 DEF DeliveryKept, DeliveryInv

\* Cancelled, lost, or disturbed by others: not while the directories are held.
LEMMA DisturbKeeps ==
  ASSUME DeliveryInv, CancelOperation \/ DeliveryCrash \/ Meddle
  PROVE  DeliveryKept
<1>1. CASE CancelOperation
  <2>1. /\ FailOp /\ op.phase # "recording" /\ UNCHANGED <<delivery, adopted, used>> /\ checkout' \in Trees
    BY <1>1 DEF CancelOperation, DeliveryInv, DeliveryTypes, DeliveryFacts, Operations
  <2> QED BY <2>1, FailKeeps
<1>2. CASE DeliveryCrash
  <2>1. /\ op' = NoOp /\ UNCHANGED <<delivery, checkout, adopted>>
        /\ used' = [used EXCEPT !["crashes"] = @ + 1]
    BY <1>2 DEF DeliveryCrash, EndOp, Spend
  <2>2. used'.crashes \in Nat /\ used'.crashes # 0 /\ DOMAIN used' = DOMAIN used /\ op'.phase = "idle"
    BY <2>1 DEF DeliveryInv, DeliveryTypes, DeliveryFacts, Operations, NoOp
  <2>3. DeliveryTypes'
    BY <2>1, <2>2 DEF DeliveryInv, DeliveryTypes, DeliveryFacts, Operations, NoOp
  <2>4. Standing' /\ AdoptionIsSound' /\ VerdictStep
    BY <2>1, <2>2 DEF DeliveryInv, Standing, AdoptionIsSound, VerdictStep
  <2> QED BY <2>3, <2>4 DEF DeliveryKept, DeliveryInv
<1>3. CASE Meddle
  <2>1. used' = [used EXCEPT !["meddling"] = @ + 1] /\ UNCHANGED <<delivery, op, adopted>>
    BY <1>3 DEF Meddle, Spend
  <2>2. used'.crashes = used.crashes /\ DOMAIN used' = DOMAIN used
    BY <2>1 DEF DeliveryInv, DeliveryTypes, DeliveryFacts, Operations
  <2>3. checkout' \in Trees
    BY <1>3 DEF Meddle, DeliveryInv, DeliveryTypes, DeliveryFacts, Operations
  <2>4. op.phase = "adopting" => UNCHANGED unknownIn
    BY <1>3 DEF Meddle, DeliveryLocks
  <2> QED BY <2>1, <2>2, <2>3, <2>4, AsideKeeps
<1> QED BY <1>1, <1>2, <1>3

\* What is adopted into the source is the candidate that passed, once unless the process was
\* lost, and a repair's verdict is its own, for any contents, operations, rounds and edits
\* (delivery.py, delivery_runtime.py, delivery_repair.py, delivery_control.py).
THEOREM DeliveriesAreSound == DeliverySpec => DeliveryIsSound
<1>1. DeliveryInit => DeliveryInv /\ WebType
  <2> SUFFICES ASSUME DeliveryInit PROVE DeliveryInv /\ WebType
    OBVIOUS
  <2>1. op.phase = "idle" /\ DeliveryTypes
    BY FS_EmptySet DEF DeliveryInit, DeliveryTypes, DeliveryFacts, Operations, NoOp, Trees
  <2> QED BY <2>1, FS_EmptySet DEF DeliveryInit, DeliveryInv, Standing, AdoptionIsSound, WebType
<1>2. DeliveryInv /\ WebType /\ [DeliveryNext]_deliveryVars => WebType' /\ DeliveryKept
  <2> SUFFICES ASSUME DeliveryInv, WebType, [DeliveryNext]_deliveryVars PROVE DeliveryKept
    BY WebKeeps
  <2>1. CASE UNCHANGED deliveryVars
    <3>1. checkout' \in Trees
      BY <2>1 DEF deliveryVars, DeliveryInv, DeliveryTypes, DeliveryFacts, Operations
    <3> QED BY <2>1, <3>1, AsideKeeps DEF deliveryVars
  <2> QED BY <2>1, AdmissionKeeps, BeginAnyKeeps, PrepareKeeps, WriterKeepsDelivery, CandidateKeeps,
             ChecksKeep, VerifiedKeeps, RepairKeeps, FinishRepairKeeps, CheckKeeps, ApplyKeeps,
             AppliedKeeps, DisturbKeeps DEF DeliveryNext, Actions
<1>3. DeliveryInv => AdoptionIsSound
  BY DEF DeliveryInv
<1> QED BY <1>1, <1>2, <1>3, PTL
        DEF DeliverySpec, DeliveryIsSound, RepairOwnsVerdict, DeliveryKept, VerdictStep

(***************************************************************************)
(* Managed worktrees.                                                      *)
(***************************************************************************)
TreeSpec == TreeInit /\ [][TreeNext]_treeVars

TreeActions == {"create", "keep", "remove"}
TreeRecords ==
  [record : Nat, disk : {"none", "partial", "clean", "work", "ignored", "ahead"}, branch : BOOLEAN,
   workspace : BOOLEAN, sessions : BOOLEAN]

TreeOps ==
  [action : TreeActions \cup {None}, name : Names \cup {None},
   seen : (SUBSET (Names \X Nat)) \cup {None},
   phase : {"idle", "begun", "adding", "registering", "inspected", "unlinking", "forgetting"}]

\* Where the running operation stands: a removal holds its name, and until its record is
\* written what its user saw is what there is.
TreeStanding ==
  /\ treeOp.phase # "idle" => treeOp.name \in Names
  /\ treeOp.action = "remove" /\ treeOp.phase # "idle" =>
       removing = {treeOp.name} /\ ~ tree[treeOp.name].sessions
  /\ /\ treeOp.seen # None
     /\ \/ treeOp.action = "keep" /\ treeOp.phase = "begun"
        \/ treeOp.action = "remove" /\ treeOp.phase \in {"begun", "inspected", "unlinking"}
     => <<treeOp.name, tree[treeOp.name].record>> \in treeOp.seen

TreeInv ==
  /\ tree \in [Names -> TreeRecords] /\ stamp \in Nat /\ catalog \in SUBSET (Names \X Nat)
  /\ queuedOp # None =>
       queuedOp \in [action : TreeActions, name : Names, seen : SUBSET (Names \X Nat)]
  /\ treeOp \in TreeOps /\ TreeStanding /\ SessionKeepsCheckout

SeenStep ==
  \A n \in Names :
    tree[n].record > 0 /\ tree'[n].record # tree[n].record /\ treeOp.seen # None
    /\ treeOp.action # "create" => <<n, tree[n].record>> \in treeOp.seen

TreeKept == TreeInv' /\ SeenStep

\* What the steps write of one name.
LEMMA WriteTree ==
  ASSUME tree \in [Names -> TreeRecords], NEW n \in Names
  PROVE  /\ \A v \in Nat : SetTree(n, "record", v) =>
              /\ tree' \in [Names -> TreeRecords] /\ tree'[n] = [tree[n] EXCEPT !.record = v]
              /\ \A m \in Names : /\ m # n => tree'[m] = tree[m]
                                  /\ tree'[m].disk = tree[m].disk
                                  /\ tree'[m].sessions = tree[m].sessions
         /\ \A v \in {"none", "partial", "clean", "work", "ignored", "ahead"} :
              SetTree(n, "disk", v) =>
              /\ tree' \in [Names -> TreeRecords] /\ tree'[n] = [tree[n] EXCEPT !.disk = v]
              /\ tree'[n].disk = v
              /\ \A m \in Names : /\ m # n => tree'[m] = tree[m]
                                  /\ tree'[m].record = tree[m].record
                                  /\ tree'[m].sessions = tree[m].sessions
         /\ \A v \in BOOLEAN : SetTree(n, "branch", v) \/ SetTree(n, "workspace", v) =>
              /\ tree' \in [Names -> TreeRecords]
              /\ \A m \in Names : /\ tree'[m].record = tree[m].record
                                  /\ tree'[m].disk = tree[m].disk
                                  /\ tree'[m].sessions = tree[m].sessions
<1>1. tree[n] \in TreeRecords
  OBVIOUS
<1>2. ASSUME NEW v \in Nat, SetTree(n, "record", v)
      PROVE  /\ tree' \in [Names -> TreeRecords] /\ tree'[n] = [tree[n] EXCEPT !.record = v]
             /\ \A m \in Names : /\ m # n => tree'[m] = tree[m]
                                 /\ tree'[m].disk = tree[m].disk
                                 /\ tree'[m].sessions = tree[m].sessions
  BY <1>1, <1>2 DEF SetTree, TreeRecords
<1>3. ASSUME NEW v \in {"none", "partial", "clean", "work", "ignored", "ahead"}, SetTree(n, "disk", v)
      PROVE  /\ tree' \in [Names -> TreeRecords] /\ tree'[n] = [tree[n] EXCEPT !.disk = v]
             /\ tree'[n].disk = v
             /\ \A m \in Names : /\ m # n => tree'[m] = tree[m]
                                 /\ tree'[m].record = tree[m].record
                                 /\ tree'[m].sessions = tree[m].sessions
  BY <1>1, <1>3 DEF SetTree, TreeRecords
<1>4. ASSUME NEW v \in BOOLEAN, SetTree(n, "branch", v)
      PROVE  /\ tree' \in [Names -> TreeRecords]
             /\ \A m \in Names : /\ tree'[m].record = tree[m].record
                                 /\ tree'[m].disk = tree[m].disk
                                 /\ tree'[m].sessions = tree[m].sessions
  BY <1>1, <1>4 DEF SetTree, TreeRecords
<1>5. ASSUME NEW v \in BOOLEAN, SetTree(n, "workspace", v)
      PROVE  /\ tree' \in [Names -> TreeRecords]
             /\ \A m \in Names : /\ tree'[m].record = tree[m].record
                                 /\ tree'[m].disk = tree[m].disk
                                 /\ tree'[m].sessions = tree[m].sessions
  BY <1>1, <1>5 DEF SetTree, TreeRecords
<1> QED BY <1>2, <1>3, <1>4, <1>5

\* An operation ends; what it wrote last is the caller's part.
LEMMA TreeEnds ==
  ASSUME TreeInv, FinishTree, tree' \in [Names -> TreeRecords], stamp' \in Nat,
         UNCHANGED catalog, queuedOp' \in {queuedOp, None}, SessionKeepsCheckout', SeenStep
  PROVE  TreeKept
<1>1. treeOp' \in TreeOps /\ treeOp'.phase = "idle"
  <2>1. IdleTree \in TreeOps
    BY DEF IdleTree, TreeOps
  <2>2. IdleTree.phase = "idle"
    BY DEF IdleTree
  <2> QED BY <2>1, <2>2 DEF FinishTree
<1> QED BY <1>1 DEF TreeKept, TreeInv, TreeStanding

\* An operation goes on to its next phase.
LEMMA TreeGoesOn ==
  ASSUME TreeInv, NEW phase \in {"adding", "registering", "inspected", "unlinking", "forgetting"},
         TreePhase(phase), treeOp.phase # "idle", treeOp.action \in {"create", "remove"},
         tree' \in [Names -> TreeRecords], stamp' \in Nat, UNCHANGED <<catalog, queuedOp>>,
         \A n \in Names : tree'[n].sessions = tree[n].sessions,
         treeOp.action = "remove" =>
           \/ phase = "forgetting"
           \/ /\ treeOp.phase \in {"begun", "inspected", "unlinking"}
              /\ tree'[treeOp.name].record = tree[treeOp.name].record,
         SessionKeepsCheckout', SeenStep
  PROVE  TreeKept
<1>1. /\ treeOp' \in TreeOps /\ treeOp'.phase = phase /\ treeOp'.name = treeOp.name
      /\ treeOp'.seen = treeOp.seen /\ treeOp'.action = treeOp.action /\ treeOp.name \in Names
  BY DEF TreePhase, TreeOps, TreeInv, TreeStanding
<1>2. TreeStanding'
  BY <1>1 DEF TreeStanding, TreeInv, TreePhase
<1> QED BY <1>1, <1>2 DEF TreeKept, TreeInv

\* Nothing of the trees or the operation changes.
LEMMA TreeAside ==
  ASSUME TreeInv, UNCHANGED <<tree, treeOp, removing, stamp>>, catalog' \in SUBSET (Names \X Nat),
         queuedOp' # None =>
           queuedOp' \in [action : TreeActions, name : Names, seen : SUBSET (Names \X Nat)]
  PROVE  TreeKept
<1>1. TreeStanding' /\ SessionKeepsCheckout'
  BY DEF TreeInv, TreeStanding, SessionKeepsCheckout
<1> QED BY <1>1 DEF TreeKept, TreeInv, SeenStep

LEMMA CatalogType == ASSUME TreeInv PROVE Catalog \in SUBSET (Names \X Nat)
BY DEF TreeInv, Catalog, TreeRecords

LEMMA LookKeeps ==
  ASSUME TreeInv, LookAtCatalog \/ CancelQueued \/ \E a \in TreeActions, n \in Names : AdmitTree(a, n)
  PROVE  TreeKept
<1>1. CASE LookAtCatalog
  BY <1>1, CatalogType, TreeAside DEF LookAtCatalog, TreeInv
<1>2. CASE CancelQueued
  BY <1>2, TreeAside DEF CancelQueued, TreeInv
<1>3. ASSUME NEW a \in TreeActions, NEW n \in Names, AdmitTree(a, n) PROVE TreeKept
  <2>1. /\ queuedOp' = [action |-> a, name |-> n, seen |-> catalog] /\ catalog \in SUBSET (Names \X Nat)
        /\ UNCHANGED <<tree, catalog, treeOp, removing, stamp>>
    BY <1>3 DEF AdmitTree, TreeInv
  <2> QED BY <2>1, TreeAside
<1> QED BY <1>1, <1>2, <1>3

\* An operation starts on what its user saw, and a removal where nobody is.
LEMMA StartKeeps ==
  ASSUME TreeInv, NEW a \in TreeActions, NEW n \in Names,
         NEW seen_0 \in (SUBSET (Names \X Nat)) \cup {None}, StartTree(a, n, seen_0),
         queuedOp' \in {queuedOp, None}
  PROVE  TreeKept
<1>1. UNCHANGED <<tree, catalog, stamp>> /\ treeOp = IdleTree
  BY DEF StartTree
<1>2. CASE ~ MayStart(a, n, seen_0)
  <2>1. UNCHANGED <<treeOp, removing>>
    BY <1>2 DEF StartTree
  <2> QED BY <1>1, <2>1, TreeAside DEF TreeInv
<1>3. CASE MayStart(a, n, seen_0)
  <2>1. /\ treeOp' = [action |-> a, name |-> n, seen |-> seen_0, phase |-> "begun"]
        /\ removing' = IF a = "remove" THEN {n} ELSE {}
    BY <1>3 DEF StartTree, ReserveRemoval
  <2>2. treeOp' \in TreeOps
    BY <2>1 DEF TreeOps
  <2>3. a # "create" /\ seen_0 # None => <<n, tree[n].record>> \in seen_0
    BY <1>3 DEF MayStart, Catalog
  <2>4. a = "remove" => ~ tree[n].sessions
    BY <1>3 DEF MayStart
  <2>5. TreeStanding'
    BY <1>1, <2>1, <2>3, <2>4 DEF TreeStanding
  <2>6. SessionKeepsCheckout' /\ SeenStep
    BY <1>1 DEF SessionKeepsCheckout, SeenStep, TreeInv
  <2> QED BY <1>1, <2>2, <2>5, <2>6 DEF TreeKept, TreeInv
<1> QED BY <1>2, <1>3

LEMMA StartAnyKeeps ==
  ASSUME TreeInv, StartQueued \/ \E a \in TreeActions, n \in Names : StartUnqueued(a, n)
  PROVE  TreeKept
<1>1. CASE StartQueued
  <2>1. /\ queuedOp \in [action : TreeActions, name : Names, seen : SUBSET (Names \X Nat)]
        /\ StartTree(queuedOp.action, queuedOp.name, queuedOp.seen) /\ queuedOp' = None
    BY <1>1 DEF StartQueued, TreeInv
  <2>2. PICK a \in TreeActions, n \in Names, seen_0 \in SUBSET (Names \X Nat) :
          StartTree(a, n, seen_0)
    BY <2>1
  <2> QED BY <2>1, <2>2, StartKeeps
<1>2. ASSUME NEW a \in TreeActions, NEW n \in Names, StartUnqueued(a, n) PROVE TreeKept
  BY <1>2, StartKeeps DEF StartUnqueued
<1> QED BY <1>1, <1>2

\* A checkout that is made is a new one, recorded before.
LEMMA CreateKeeps ==
  ASSUME TreeInv, WriteRecord \/ AddCheckout \/ RegisterCheckout
  PROVE  TreeKept
<1> DEFINE n == treeOp.name
<1>0. /\ treeOp.action = "create" /\ treeOp.phase # "idle" /\ n \in Names /\ tree \in [Names -> TreeRecords]
      /\ UNCHANGED <<catalog, queuedOp>> /\ stamp' \in Nat
  <2>1. CASE WriteRecord
    BY <2>1 DEF WriteRecord, TreeAt, TreeInv, TreeStanding
  <2>2. CASE AddCheckout
    BY <2>2 DEF AddCheckout, TreeAt, TreeInv, TreeStanding
  <2>3. CASE RegisterCheckout
    BY <2>3 DEF RegisterCheckout, TreeAt, TreeInv, TreeStanding
  <2> QED BY <2>1, <2>2, <2>3
<1> HIDE DEF n
<1>1. ASSUME tree' \in [Names -> TreeRecords], \A m \in Names : tree'[m].sessions = tree[m].sessions,
             \A m \in Names : tree'[m].disk = tree[m].disk \/ tree'[m].disk # "none",
             FinishTree \/ TreePhase("adding") \/ TreePhase("registering")
      PROVE  TreeKept
  <2>1. SessionKeepsCheckout' /\ SeenStep
    BY <1>0, <1>1 DEF SessionKeepsCheckout, SeenStep, TreeInv
  <2> QED BY <1>0, <1>1, <2>1, TreeEnds, TreeGoesOn
<1>2. CASE WriteRecord
  <2>1. CASE FinishTree /\ UNCHANGED <<tree, stamp>>
    BY <1>0, <1>1, <2>1
  <2>2. CASE stamp' = stamp + 1 /\ SetTree(n, "record", stamp') /\ TreePhase("adding")
    <3>1. PICK v \in Nat : SetTree(n, "record", v)
      BY <1>0, <2>2
    <3> QED BY <1>0, <1>1, <2>2, <3>1, WriteTree
  <2> QED BY <1>2, <2>1, <2>2 DEF WriteRecord, n
<1>3. CASE AddCheckout
  <2>1. CASE /\ tree' = [tree EXCEPT ![n] = [@ EXCEPT !.disk = "clean", !.branch = TRUE]]
             /\ TreePhase("registering")
    <3>1. tree' \in [Names -> TreeRecords] /\ tree'[n].disk = "clean" /\ tree'[n].sessions = tree[n].sessions
          /\ \A m \in Names : m # n => tree'[m] = tree[m]
      BY <1>0, <2>1 DEF TreeRecords
    <3>2. /\ \A m \in Names : tree'[m].sessions = tree[m].sessions
          /\ \A m \in Names : tree'[m].disk = tree[m].disk \/ tree'[m].disk # "none"
      BY <3>1
    <3> QED BY <1>1, <2>1, <3>1, <3>2
  <2>2. CASE SetTree(n, "record", 0) /\ FinishTree
    BY <1>0, <1>1, <2>2, WriteTree
  <2>3. CASE SetTree(n, "disk", "partial") /\ FinishTree
    <3>1. /\ tree' \in [Names -> TreeRecords] /\ tree'[n].disk = "partial"
          /\ \A m \in Names : m # n => tree'[m] = tree[m]
          /\ \A m \in Names : tree'[m].sessions = tree[m].sessions
      BY <1>0, <2>3, WriteTree
    <3>2. \A m \in Names : tree'[m].disk = tree[m].disk \/ tree'[m].disk # "none"
      BY <3>1
    <3> QED BY <1>1, <2>3, <3>1, <3>2
  <2> QED BY <1>3, <2>1, <2>2, <2>3 DEF AddCheckout, n
<1>4. CASE RegisterCheckout
  <2>1. SetTree(n, "workspace", TRUE) /\ FinishTree
    BY <1>4 DEF RegisterCheckout, n
  <2> QED BY <1>0, <1>1, <2>1, WriteTree
<1> QED BY <1>2, <1>3, <1>4

\* keep writes the record its user saw.
LEMMA KeepKeeps ==
  ASSUME TreeInv, KeepTree
  PROVE  TreeKept
<1> DEFINE n == treeOp.name
<1>0. /\ treeOp.action = "keep" /\ treeOp.phase = "begun" /\ n \in Names /\ tree \in [Names -> TreeRecords]
      /\ UNCHANGED <<catalog, queuedOp>> /\ stamp' \in Nat /\ SetTree(n, "record", stamp') /\ FinishTree
      /\ treeOp.seen # None => <<n, tree[n].record>> \in treeOp.seen
  BY DEF KeepTree, TreeAt, TreeInv, TreeStanding
<1> HIDE DEF n
<1>1. PICK v \in Nat : SetTree(n, "record", v)
  BY <1>0
<1>2. /\ tree' \in [Names -> TreeRecords] /\ \A m \in Names : m # n => tree'[m] = tree[m]
      /\ \A m \in Names : tree'[m].disk = tree[m].disk /\ tree'[m].sessions = tree[m].sessions
  BY <1>0, <1>1, WriteTree
<1>3. SessionKeepsCheckout' /\ SeenStep
  BY <1>0, <1>2 DEF SessionKeepsCheckout, SeenStep, TreeInv
<1> QED BY <1>0, <1>2, <1>3, TreeEnds

\* A removal takes a checkout nobody is opened on, and the record its user saw.
LEMMA RemoveKeeps ==
  ASSUME TreeInv, InspectCheckout \/ RemoveCheckout \/ UnlinkRecord \/ ForgetWorkspace
  PROVE  TreeKept
<1> DEFINE n == treeOp.name
<1>0. /\ treeOp.action = "remove" /\ treeOp.phase # "idle" /\ n \in Names /\ tree \in [Names -> TreeRecords]
      /\ UNCHANGED <<catalog, queuedOp>> /\ stamp' \in Nat
      /\ ~ tree[n].sessions
  <2>1. UNCHANGED <<catalog, queuedOp, stamp>> /\ treeOp.action = "remove" /\ treeOp.phase # "idle"
    BY DEF InspectCheckout, RemoveCheckout, UnlinkRecord, ForgetWorkspace, TreeAt
  <2> QED BY <2>1 DEF TreeInv, TreeStanding
<1> HIDE DEF n
<1>1. ASSUME tree' \in [Names -> TreeRecords], \A m \in Names : tree'[m].sessions = tree[m].sessions,
             \A m \in Names \ {n} : tree'[m].disk = tree[m].disk
      PROVE  SessionKeepsCheckout'
  BY <1>0, <1>1 DEF SessionKeepsCheckout, TreeInv
<1>2. CASE InspectCheckout
  <2>1. /\ UNCHANGED tree /\ treeOp.phase = "begun"
        /\ FinishTree \/ TreePhase("inspected")
    BY <1>2 DEF InspectCheckout, TreeAt
  <2>2. SessionKeepsCheckout' /\ SeenStep
    BY <1>0, <1>1, <2>1 DEF SeenStep
  <2> QED BY <1>0, <2>1, <2>2, TreeEnds, TreeGoesOn DEF n
<1>3. CASE RemoveCheckout
  <2>1. CASE FinishTree /\ UNCHANGED tree
    BY <1>0, <1>1, <2>1, TreeEnds DEF SeenStep
  <2>2. CASE SetTree(n, "disk", "none") /\ TreePhase("unlinking")
    <3>1. /\ tree' \in [Names -> TreeRecords] /\ \A m \in Names : m # n => tree'[m] = tree[m]
          /\ \A m \in Names : tree'[m].record = tree[m].record /\ tree'[m].sessions = tree[m].sessions
      BY <1>0, <2>2, WriteTree
    <3>2. SessionKeepsCheckout' /\ SeenStep
      BY <1>1, <3>1 DEF SeenStep
    <3>3. treeOp.phase = "inspected"
      BY <1>3 DEF RemoveCheckout, TreeAt
    <3> QED BY <1>0, <2>2, <3>1, <3>2, <3>3, TreeGoesOn DEF n
  <2> QED BY <1>3, <2>1, <2>2 DEF RemoveCheckout, n
<1>4. CASE UnlinkRecord
  <2>1. SetTree(n, "record", 0) /\ TreePhase("forgetting") /\ treeOp.phase = "unlinking"
    BY <1>4 DEF UnlinkRecord, TreeAt, n
  <2>2. /\ tree' \in [Names -> TreeRecords] /\ \A m \in Names : m # n => tree'[m] = tree[m]
        /\ \A m \in Names : tree'[m].disk = tree[m].disk /\ tree'[m].sessions = tree[m].sessions
    BY <1>0, <2>1, WriteTree
  <2>3. treeOp.seen # None => <<n, tree[n].record>> \in treeOp.seen
    BY <1>0, <2>1 DEF TreeInv, TreeStanding, n
  <2>4. SessionKeepsCheckout' /\ SeenStep
    BY <1>1, <2>2, <2>3 DEF SeenStep
  <2> QED BY <1>0, <2>1, <2>2, <2>4, TreeGoesOn DEF n
<1>5. CASE ForgetWorkspace
  <2>1. SetTree(n, "workspace", tree[n].sessions) /\ FinishTree /\ tree[n].sessions \in BOOLEAN
    BY <1>0, <1>5 DEF ForgetWorkspace, TreeRecords, n
  <2>2. /\ tree' \in [Names -> TreeRecords]
        /\ \A m \in Names : /\ tree'[m].record = tree[m].record /\ tree'[m].disk = tree[m].disk
                            /\ tree'[m].sessions = tree[m].sessions
    BY <1>0, <2>1, WriteTree
  <2>3. SessionKeepsCheckout' /\ SeenStep
    BY <1>1, <2>2 DEF SeenStep
  <2> QED BY <1>0, <2>1, <2>2, <2>3, TreeEnds
<1> QED BY <1>2, <1>3, <1>4, <1>5

\* The trees change under a running operation, which keeps its standing.
LEMMA TreeChanges ==
  ASSUME TreeInv, UNCHANGED <<catalog, queuedOp, treeOp, removing, stamp>>,
         tree' \in [Names -> TreeRecords], \A m \in Names : tree'[m].record = tree[m].record,
         \A m \in removing : m \in Names => tree'[m].sessions = tree[m].sessions, SessionKeepsCheckout'
  PROVE  TreeKept
<1>1. treeOp.phase # "idle" => treeOp.name \in Names
  BY DEF TreeInv, TreeStanding
<1>2. TreeStanding'
  BY <1>1 DEF TreeInv, TreeStanding
<1>3. SeenStep
  BY DEF SeenStep
<1> QED BY <1>2, <1>3 DEF TreeKept, TreeInv

\* A Session is opened on a directory that is there and not being removed.
LEMMA OpenKeeps ==
  ASSUME TreeInv, NEW n \in Names, OpenSession(n)
  PROVE  TreeKept
<1>1. /\ tree' \in [Names -> TreeRecords] /\ \A m \in Names : m # n => tree'[m] = tree[m]
      /\ tree'[n].record = tree[n].record /\ tree'[n].disk = tree[n].disk
  <2> DEFINE r == [tree[n] EXCEPT !.workspace = TRUE, !.sessions = TRUE]
  <2>1. tree \in [Names -> TreeRecords] /\ tree' = [tree EXCEPT ![n] = r] /\ tree[n] \in TreeRecords
    BY DEF OpenSession, TreeInv
  <2>2. r \in TreeRecords /\ r.record = tree[n].record /\ r.disk = tree[n].disk
    BY <2>1 DEF TreeRecords
  <2> HIDE DEF r
  <2> QED BY <2>1, <2>2
<1>2. tree[n].disk # "none" /\ n \notin removing
      /\ UNCHANGED <<catalog, queuedOp, treeOp, removing, stamp>>
  BY DEF OpenSession
<1>3. SessionKeepsCheckout'
  BY <1>1, <1>2 DEF TreeInv, SessionKeepsCheckout
<1>4. \A m \in removing : m \in Names => tree'[m].sessions = tree[m].sessions
  BY <1>1, <1>2
<1>5. \A m \in Names : tree'[m].record = tree[m].record
  BY <1>1
<1> QED BY <1>1, <1>2, <1>3, <1>4, <1>5, TreeChanges

\* A file that is edited stays on disk.
LEMMA EditKeeps ==
  ASSUME TreeInv, NEW n \in Names, EditCheckout(n)
  PROVE  TreeKept
<1>0. UNCHANGED <<catalog, queuedOp, treeOp, removing, stamp>> /\ tree \in [Names -> TreeRecords]
  BY DEF EditCheckout, TreeInv
<1>1. ASSUME NEW v \in {"clean", "work", "ignored", "ahead"}, SetTree(n, "disk", v), tree[n].disk # "none"
      PROVE  TreeKept
  <2>1. /\ tree' \in [Names -> TreeRecords] /\ tree'[n].disk = v
        /\ \A m \in Names : m # n => tree'[m] = tree[m]
        /\ \A m \in Names : tree'[m].record = tree[m].record /\ tree'[m].sessions = tree[m].sessions
    BY <1>0, <1>1, WriteTree
  <2>2. SessionKeepsCheckout'
    BY <2>1 DEF TreeInv, SessionKeepsCheckout
  <2> QED BY <1>0, <2>1, <2>2, TreeChanges
<1>2. CASE SetTree(n, "branch", FALSE)
  <2>1. /\ tree' \in [Names -> TreeRecords]
        /\ \A m \in Names : /\ tree'[m].record = tree[m].record /\ tree'[m].disk = tree[m].disk
                            /\ tree'[m].sessions = tree[m].sessions
    BY <1>0, <1>2, WriteTree
  <2>2. SessionKeepsCheckout'
    BY <2>1 DEF TreeInv, SessionKeepsCheckout
  <2> QED BY <1>0, <2>1, <2>2, TreeChanges
<1>3. \/ tree[n].disk # "none" /\ SetTree(n, "disk", "clean")
      \/ \E work \in {"work", "ignored", "ahead"} : tree[n].disk = "clean" /\ SetTree(n, "disk", work)
      \/ SetTree(n, "branch", FALSE)
  BY DEF EditCheckout
<1> QED BY <1>1, <1>2, <1>3

\* A crash ends the operation where it stands.
LEMMA CrashKeeps ==
  ASSUME TreeInv, TreeCrash
  PROVE  TreeKept
<1>1. FinishTree /\ queuedOp' = None /\ UNCHANGED <<tree, catalog, stamp>>
  BY DEF TreeCrash
<1>2. SessionKeepsCheckout' /\ SeenStep
  BY <1>1 DEF TreeInv, SessionKeepsCheckout, SeenStep
<1> QED BY <1>1, <1>2, TreeEnds DEF TreeInv

\* CheckoutsAreSafe: a Session never loses the checkout it was opened on, and an operation
\* admitted on a catalog changes only the worktree its user saw, whatever happens between
\* the steps of an operation or after one that a crash ended (worktrees.py).
THEOREM CheckoutsStaySafe == TreeSpec => CheckoutsAreSafe
<1>1. TreeInit => TreeInv
  <2> SUFFICES ASSUME TreeInit PROVE TreeInv
    OBVIOUS
  <2>1. tree \in [Names -> TreeRecords] /\ SessionKeepsCheckout
    BY DEF TreeInit, Untouched, TreeRecords, SessionKeepsCheckout
  <2>2. treeOp \in TreeOps /\ treeOp.phase = "idle"
    BY DEF TreeInit, IdleTree, TreeOps
  <2> QED BY <2>1, <2>2 DEF TreeInit, TreeInv, TreeStanding
<1>2. TreeInv /\ [TreeNext]_treeVars => TreeKept
  <2> SUFFICES ASSUME TreeInv, [TreeNext]_treeVars PROVE TreeKept
    OBVIOUS
  <2>1. CASE UNCHANGED treeVars
    BY <2>1, TreeAside DEF treeVars, TreeInv
  <2>2. CASE TreeNext
    BY <2>2, LookKeeps, StartAnyKeeps, CreateKeeps, KeepKeeps, RemoveKeeps, OpenKeeps, EditKeeps,
       CrashKeeps DEF TreeNext, TreeActions
  <2> QED BY <2>1, <2>2
<1>3. TreeInv => SessionKeepsCheckout
  BY DEF TreeInv
<1> QED BY <1>1, <1>2, <1>3, PTL
        DEF TreeSpec, CheckoutsAreSafe, ChangedAsSeen, TreeKept, SeenStep

(***************************************************************************)
(* The import of a reviewed history implements ReviewedImport.  What a     *)
(* completed preview shows never changes, because a Run that ended is not  *)
(* written again and the hash of an import was taken from one.             *)
(***************************************************************************)
HistoryRuns ==
  [action : {"preview", "import"}, of : Nat, hash : Histories \cup {None},
   read : Histories \cup {None}, cancelled : BOOLEAN,
   status : {"queued", "running", "completed", "failed", "interrupted"},
   at : {"waiting", "thread", "archived", "previewed", "read", "refused", "back", "closed", "lost"}]

EndedStatus == {"completed", "failed", "interrupted"}

\* Where a Run's facts come from: a preview's hash from a reading, an import's from a
\* completed preview before it; what it is about to commit has that hash.
Sourced(r, i, runs) ==
  /\ r.at \in {"archived", "previewed"} \/ (r.action = "preview" /\ r.status = "completed")
       => r.action = "preview" /\ r.hash \in Histories
  /\ r.at = "read" => r.action = "import" /\ r.read = r.hash
  /\ r.action = "import" => /\ r.of \in 1..(i - 1) /\ runs[r.of].action = "preview"
                            /\ runs[r.of].status = "completed" /\ runs[r.of].hash = r.hash

RunsInv ==
  /\ importRuns \in Seq(HistoryRuns) /\ Len(importRuns) <= MaxImportRuns
  /\ \A i \in 1..Len(importRuns) : Sourced(importRuns[i], i, importRuns)
  /\ \A i \in 1..Len(importRuns) : i < Len(importRuns) => importRuns[i].status \in EndedStatus

ImportInv ==
  /\ RunsInv
  /\ legacy \in Histories /\ archive \in [1..MaxImportRuns -> Histories \cup {None}]
  /\ \A b \in brought : b.by \in Told

\* A step writes at most the latest Run, and not one that ended.
RewritesLatest(e) ==
  /\ LastRun > 0 /\ importRuns[LastRun].status \notin EndedStatus
  /\ importRuns' = [importRuns EXCEPT ![LastRun] = e]

\* The latest Run rewritten keeps the invariant if what is written is sourced as it was.
LEMMA RewriteLemma ==
  ASSUME RunsInv, NEW e \in HistoryRuns, RewritesLatest(e),
         Sourced(e, LastRun, importRuns)
  PROVE  /\ RunsInv' /\ LastRun \in 1..MaxImportRuns
         /\ Len(importRuns') = Len(importRuns) /\ importRuns'[LastRun] = e
         /\ \A i \in 1..Len(importRuns) : i # LastRun => importRuns'[i] = importRuns[i]
<1> DEFINE n == LastRun
<1>1. n \in 1..Len(importRuns) /\ n \in 1..MaxImportRuns /\ n = Len(importRuns)
  BY ImportAssumption, LenProperties DEF RunsInv, RewritesLatest, LastRun
<1>2. /\ importRuns' \in Seq(HistoryRuns) /\ Len(importRuns') = Len(importRuns)
      /\ importRuns'[n] = e
      /\ \A i \in 1..Len(importRuns) : i # n => importRuns'[i] = importRuns[i]
  BY <1>1, ExceptSeq DEF RunsInv, RewritesLatest
<1>3. ASSUME NEW i \in 1..Len(importRuns')
      PROVE  /\ Sourced(importRuns'[i], i, importRuns')
             /\ i < Len(importRuns') => importRuns'[i].status \in EndedStatus
  <2>1. ASSUME NEW r, r.of \in 1..(i - 1)
        PROVE  importRuns'[r.of] = importRuns[r.of]
    BY <1>1, <1>2, <2>1
  <2>2. Sourced(importRuns'[i], i, importRuns)
    BY <1>1, <1>2 DEF RunsInv
  <2>3. Sourced(importRuns'[i], i, importRuns')
    BY <2>1, <2>2 DEF Sourced
  <2> QED BY <2>3, <1>1, <1>2 DEF RunsInv
<1> QED BY <1>1, <1>2, <1>3 DEF RunsInv

\* A new Run keeps the invariant; what came before it is as it was.
LEMMA AppendLemma ==
  ASSUME RunsInv, NEW e \in HistoryRuns, importRuns' = Append(importRuns, e),
         LastRun < MaxImportRuns, \A i \in DOMAIN importRuns : ImportEnded(i),
         Sourced(e, Len(importRuns) + 1, importRuns)
  PROVE  /\ RunsInv' /\ Len(importRuns') = Len(importRuns) + 1
         /\ importRuns'[Len(importRuns) + 1] = e
         /\ \A i \in 1..Len(importRuns) : importRuns'[i] = importRuns[i]
<1> DEFINE n == Len(importRuns)
<1>1. n \in Nat /\ DOMAIN importRuns = 1..n /\ n + 1 <= MaxImportRuns
  BY ImportAssumption, LenProperties DEF RunsInv, LastRun
<1>2. /\ importRuns' \in Seq(HistoryRuns) /\ Len(importRuns') = n + 1 /\ importRuns'[n + 1] = e
      /\ \A i \in 1..n : importRuns'[i] = importRuns[i]
  BY AppendProperties DEF RunsInv
<1>3. ASSUME NEW i \in 1..(n + 1)
      PROVE  /\ Sourced(importRuns'[i], i, importRuns')
             /\ i < n + 1 => importRuns'[i].status \in EndedStatus
  <2>1. ASSUME NEW r, r.of \in 1..(i - 1)
        PROVE  importRuns'[r.of] = importRuns[r.of]
    BY <1>1, <1>2, <2>1
  <2>2. Sourced(importRuns'[i], i, importRuns)
    BY <1>1, <1>2 DEF RunsInv
  <2>3. Sourced(importRuns'[i], i, importRuns')
    BY <2>1, <2>2 DEF Sourced
  <2>4. i < n + 1 => importRuns'[i].status \in EndedStatus
    BY <1>1, <1>2 DEF ImportEnded, EndedStatus
  <2> QED BY <2>3, <2>4
<1> QED BY <1>1, <1>2, <1>3 DEF RunsInv

\* The latest Run is a record of its type, sourced, and written field by field as a whole.
LEMMA LatestRun ==
  ASSUME RunsInv, LastRun > 0
  PROVE  /\ importRuns[LastRun] \in HistoryRuns /\ Sourced(importRuns[LastRun], LastRun, importRuns)
         /\ LastRun \in 1..Len(importRuns) /\ DOMAIN importRuns = 1..Len(importRuns)
BY LenProperties, ElementOfSeq DEF RunsInv, LastRun

\* Goes writes a status and a place.
LEMMA GoesLemma ==
  ASSUME RunsInv, LastRun > 0, ~ ImportEnded(LastRun),
         NEW status \in {"queued", "running", "completed", "failed", "interrupted"},
         NEW place \in {"thread", "previewed", "refused", "back", "closed", "lost"},
         Goes(status, place),
         place = "previewed" => importRuns[LastRun].action = "preview" /\ importRuns[LastRun].hash \in Histories,
         status = "completed" /\ importRuns[LastRun].action = "preview" => place = "previewed"
  PROVE  \E e \in HistoryRuns :
           /\ e.status = status /\ e.action = importRuns[LastRun].action
           /\ e.hash = importRuns[LastRun].hash
           /\ RewritesLatest(e) /\ Sourced(e, LastRun, importRuns)
<1> DEFINE r == importRuns[LastRun]
           e == [r EXCEPT !.status = status, !.at = place]
<1>1. /\ e \in HistoryRuns /\ e.status = status /\ e.at = place
      /\ e.action = r.action /\ e.of = r.of /\ e.hash = r.hash
  <2>1. r \in HistoryRuns
    BY LatestRun
  <2> QED BY <2>1 DEF HistoryRuns
<1>2. Sourced(r, LastRun, importRuns)
  BY LatestRun
<1>3. Sourced(e, LastRun, importRuns)
  <2> HIDE DEF e, r
  <2> QED BY <1>1, <1>2 DEF Sourced, r
<1>4. RewritesLatest(e)
  BY LatestRun DEF RewritesLatest, Goes, ImportEnded, EndedStatus
<1> QED BY <1>1, <1>3, <1>4

Completed(action) ==
  {i \in DOMAIN importRuns : importRuns[i].action = action /\ importRuns[i].status = "completed"}

\* A Run that is rewritten adds to what is shown or told exactly what it completes with.
LEMMA RewriteShows ==
  ASSUME RunsInv, NEW e \in HistoryRuns, RewritesLatest(e), Sourced(e, LastRun, importRuns)
  PROVE  /\ Told' = Told \cup IF e.action = "import" /\ e.status = "completed" THEN {LastRun} ELSE {}
         /\ Reviewable' = Reviewable \cup IF e.action = "preview" /\ e.status = "completed"
                                          THEN {[preview |-> LastRun, content |-> e.hash]} ELSE {}
         /\ LastRun \notin Told /\ \A s \in Reviewable : s.preview # LastRun
<1>1. /\ DOMAIN importRuns = 1..Len(importRuns) /\ DOMAIN importRuns' = 1..Len(importRuns)
      /\ LastRun \in 1..Len(importRuns) /\ importRuns'[LastRun] = e
      /\ \A i \in 1..Len(importRuns) : i # LastRun => importRuns'[i] = importRuns[i]
  <2>1. /\ importRuns' \in Seq(HistoryRuns) /\ Len(importRuns') = Len(importRuns)
        /\ importRuns'[LastRun] = e
        /\ \A i \in 1..Len(importRuns) : i # LastRun => importRuns'[i] = importRuns[i]
    BY RewriteLemma DEF RunsInv
  <2>2. DOMAIN importRuns' = 1..Len(importRuns)
    BY <2>1, LenProperties
  <2> QED BY <2>1, <2>2, LatestRun DEF RewritesLatest
<1>2. importRuns[LastRun].status # "completed"
  BY DEF RewritesLatest, EndedStatus
<1>3. \A a : Completed(a)' = Completed(a) \cup
               IF e.action = a /\ e.status = "completed" THEN {LastRun} ELSE {}
  BY <1>1, <1>2 DEF Completed
<1>4. Told = Completed("import") /\ Told' = Completed("import")' /\ LastRun \notin Told
  BY <1>2 DEF Told, Completed, ImportRun
<1>5. /\ Reviewable = {[preview |-> i, content |-> importRuns[i].hash] : i \in Completed("preview")}
      /\ Reviewable' = {[preview |-> i, content |-> importRuns'[i].hash] : i \in Completed("preview")'}
  BY DEF Reviewable, Completed, ImportRun
<1>6. LastRun \notin Completed("preview") /\ Completed("preview") \subseteq 1..Len(importRuns)
  BY <1>1, <1>2 DEF Completed
<1>7. \A i \in Completed("preview") : importRuns'[i].hash = importRuns[i].hash
  BY <1>1, <1>6
<1>8. Reviewable' = Reviewable \cup IF e.action = "preview" /\ e.status = "completed"
                                    THEN {[preview |-> LastRun, content |-> e.hash]} ELSE {}
  <2>1. CASE e.action = "preview" /\ e.status = "completed"
    BY <2>1, <1>1, <1>3, <1>5, <1>7
  <2>2. CASE ~ (e.action = "preview" /\ e.status = "completed")
    BY <2>2, <1>3, <1>5, <1>7
  <2> QED BY <2>1, <2>2
<1> QED BY <1>3, <1>4, <1>5, <1>6, <1>8

\* A Run that is accepted shows and tells nothing.
LEMMA AppendShows ==
  ASSUME RunsInv, NEW e \in HistoryRuns, importRuns' = Append(importRuns, e),
         LastRun < MaxImportRuns, \A i \in DOMAIN importRuns : ImportEnded(i),
         Sourced(e, Len(importRuns) + 1, importRuns), e.status = "queued"
  PROVE  Told' = Told /\ Reviewable' = Reviewable
<1>1. /\ DOMAIN importRuns = 1..Len(importRuns) /\ DOMAIN importRuns' = 1..(Len(importRuns) + 1)
      /\ Len(importRuns) \in Nat /\ importRuns'[Len(importRuns) + 1] = e
      /\ \A i \in 1..Len(importRuns) : importRuns'[i] = importRuns[i]
  <2>1. importRuns' \in Seq(HistoryRuns)
    BY AppendLemma DEF RunsInv
  <2> QED BY <2>1, AppendLemma, LenProperties DEF RunsInv
<1>2. \A a : Completed(a)' = Completed(a)
  BY <1>1 DEF Completed
<1>3. Told = Completed("import") /\ Told' = Completed("import")'
  BY DEF Told, Completed, ImportRun
<1>4. /\ Reviewable = {[preview |-> i, content |-> importRuns[i].hash] : i \in Completed("preview")}
      /\ Reviewable' = {[preview |-> i, content |-> importRuns'[i].hash] : i \in Completed("preview")'}
  BY DEF Reviewable, Completed, ImportRun
<1>5. \A i \in Completed("preview") : importRuns'[i].hash = importRuns[i].hash
  BY <1>1 DEF Completed
<1> QED BY <1>2, <1>3, <1>4, <1>5

\* So does a step that completes no Run and imports nothing.
LEMMA QuietStep ==
  ASSUME ImportInv, NEW e \in HistoryRuns, RewritesLatest(e), Sourced(e, LastRun, importRuns),
         e.status # "completed", brought' = brought
  PROVE  RunsInv' /\ (\A b \in brought' : b.by \in Told') /\ UNCHANGED <<Reviewable, brought, Told>>
BY RewriteLemma, RewriteShows DEF ImportInv

\* The step of the abstract specification that a step of the import is.
ReviewStep == [Review!ReviewedNext]_(Review!reviewed)

LEMMA QuietIsStutter ==
  ASSUME UNCHANGED <<Reviewable, brought, Told>>
  PROVE  ReviewStep
BY DEF ReviewStep, Review!reviewed

LEMMA AcceptStep ==
  ASSUME ImportInv, AdmitPreview \/ AdmitImport
  PROVE  ImportInv' /\ ReviewStep
<1>1. ASSUME NEW e \in HistoryRuns, importRuns' = Append(importRuns, e), LastRun < MaxImportRuns,
             \A i \in DOMAIN importRuns : ImportEnded(i), UNCHANGED <<legacy, archive, brought>>,
             Sourced(e, Len(importRuns) + 1, importRuns), e.status = "queued"
      PROVE  ImportInv' /\ ReviewStep
  BY <1>1, AppendLemma, AppendShows, QuietIsStutter DEF ImportInv
<1> DEFINE New(action, of, hash) == [action |-> action, of |-> of, hash |-> hash, read |-> None,
                                     status |-> "queued", at |-> "waiting", cancelled |-> FALSE]
<1>2. CASE AdmitPreview
  <2>1. New("preview", 0, None) \in HistoryRuns
    BY DEF HistoryRuns
  <2>2. Sourced(New("preview", 0, None), Len(importRuns) + 1, importRuns)
    BY DEF Sourced
  <2> QED BY <1>1, <1>2, <2>1, <2>2 DEF AdmitPreview, AdmitHistoryRun
<1>3. CASE AdmitImport
  <2>1. PICK p \in DOMAIN importRuns :
          /\ importRuns[p].action = "preview" /\ importRuns[p].status = "completed"
          /\ AdmitHistoryRun("import", p, importRuns[p].hash)
    BY <1>3 DEF AdmitImport, ImportRun
  <2>2. p \in 1..Len(importRuns) /\ Len(importRuns) \in Nat /\ importRuns[p] \in HistoryRuns
    BY <2>1, LenProperties, ElementOfSeq DEF ImportInv, RunsInv
  <2> DEFINE e == New("import", p, importRuns[p].hash)
  <2>3. e \in HistoryRuns
    BY <2>2 DEF HistoryRuns
  <2>4. Sourced(e, Len(importRuns) + 1, importRuns)
    BY <2>1, <2>2 DEF Sourced
  <2> QED BY <1>1, <2>1, <2>3, <2>4 DEF AdmitHistoryRun
<1> QED BY <1>2, <1>3

\* Steps that write the latest Run and complete nothing.
LEMMA GoesStep ==
  ASSUME ImportInv, LastRun > 0, ~ ImportEnded(LastRun),
         NEW status \in {"running", "failed", "interrupted"},
         NEW place \in {"thread", "previewed", "refused", "closed", "lost"},
         Goes(status, place), brought' = brought,
         place = "previewed" => importRuns[LastRun].action = "preview" /\ importRuns[LastRun].hash \in Histories
  PROVE  RunsInv' /\ (\A b \in brought' : b.by \in Told') /\ UNCHANGED <<Reviewable, brought, Told>>
<1>0. /\ status \in {"queued", "running", "completed", "failed", "interrupted"}
      /\ place \in {"thread", "previewed", "refused", "back", "closed", "lost"}
      /\ status = "completed" /\ importRuns[LastRun].action = "preview" => place = "previewed"
  OBVIOUS
<1>1. RunsInv
  BY DEF ImportInv
<1>2. PICK e \in HistoryRuns : /\ e.status = status /\ RewritesLatest(e)
                               /\ Sourced(e, LastRun, importRuns)
  BY <1>0, <1>1, GoesLemma
<1> QED BY <1>2, QuietStep

\* What other programs, a cancellation and a crash do shows and tells nothing.
LEMMA DisturbStep ==
  ASSUME ImportInv, EditLegacy \/ DamageArchive \/ CancelImport \/ CrashImport
  PROVE  ImportInv' /\ ReviewStep
<1>1. CASE EditLegacy
  <2>1. UNCHANGED <<Reviewable, brought, Told>> /\ RunsInv' /\ \A b \in brought' : b.by \in Told'
    BY <1>1 DEF EditLegacy, ImportInv, RunsInv, Reviewable, Told, ImportRun
  <2> QED BY <1>1, <2>1, QuietIsStutter DEF EditLegacy, ImportInv
<1>2. CASE DamageArchive
  <2>1. UNCHANGED <<Reviewable, brought, Told>> /\ RunsInv' /\ \A b \in brought' : b.by \in Told'
    BY <1>2 DEF DamageArchive, ImportInv, RunsInv, Reviewable, Told, ImportRun
  <2>2. archive' \in [1..MaxImportRuns -> Histories \cup {None}] /\ legacy' \in Histories
    BY <1>2 DEF DamageArchive, ImportInv
  <2> QED BY <2>1, <2>2, QuietIsStutter DEF ImportInv
<1>3. CASE CancelImport
  <2> DEFINE r == importRuns[LastRun]
             e == [r EXCEPT !.cancelled = TRUE, !.status = IF At("waiting") THEN "interrupted" ELSE @]
  <2>1. r \in HistoryRuns /\ Sourced(r, LastRun, importRuns) /\ LastRun > 0 /\ r.status \notin EndedStatus
    BY <1>3, LatestRun DEF ImportInv, CancelImport, ImportEnded, EndedStatus
  <2>2. /\ e \in HistoryRuns /\ e.status \in {r.status, "interrupted"} /\ e.at = r.at /\ e.read = r.read
        /\ e.action = r.action /\ e.of = r.of /\ e.hash = r.hash
    BY <2>1 DEF HistoryRuns
  <2>3. RewritesLatest(e)
    BY <1>3, <2>1, LatestRun DEF ImportInv, RewritesLatest, CancelImport
  <2>4. Sourced(e, LastRun, importRuns) /\ e.status # "completed"
    <3> HIDE DEF e, r
    <3> QED BY <2>1, <2>2 DEF Sourced, EndedStatus
  <2>5. RunsInv' /\ (\A b \in brought' : b.by \in Told') /\ UNCHANGED <<Reviewable, brought, Told>>
    <3> HIDE DEF e
    <3> QED BY <1>3, <2>2, <2>3, <2>4, QuietStep DEF CancelImport
  <2> QED BY <1>3, <2>5, QuietIsStutter DEF CancelImport, ImportInv
<1>4. CASE CrashImport
  <2>1. RunsInv' /\ (\A b \in brought' : b.by \in Told') /\ UNCHANGED <<Reviewable, brought, Told>>
    BY <1>4, GoesStep DEF CrashImport
  <2> QED BY <1>4, <2>1, QuietIsStutter DEF CrashImport, ImportInv
<1> QED BY <1>1, <1>2, <1>3, <1>4

\* The start, a closed Run and a refused import.
LEMMA WaitStep ==
  ASSUME ImportInv, StartImport \/ CloseImport
  PROVE  ImportInv' /\ ReviewStep
<1>1. RunsInv' /\ (\A b \in brought' : b.by \in Told') /\ UNCHANGED <<Reviewable, brought, Told>>
  <2>1. CASE StartImport
    BY <2>1, GoesStep DEF StartImport, At
  <2>2. CASE CloseImport
    BY <2>2, GoesStep DEF CloseImport
  <2> QED BY <2>1, <2>2
<1> QED BY <1>1, QuietIsStutter DEF StartImport, CloseImport, ImportInv

\* A reading is archived, or an archive is read.
LEMMA ReadStep ==
  ASSUME ImportInv, ReadLegacy \/ ReadReviewed
  PROVE  ImportInv' /\ ReviewStep
<1> DEFINE r == importRuns[LastRun]
<1>1. /\ r \in HistoryRuns /\ Sourced(r, LastRun, importRuns) /\ LastRun > 0
      /\ r.status \notin EndedStatus /\ LastRun \in 1..MaxImportRuns
      /\ DOMAIN importRuns = 1..Len(importRuns)
  <2>1. LastRun > 0 /\ r.status \notin EndedStatus
    BY DEF ReadLegacy, ReadReviewed, At, ImportEnded, EndedStatus
  <2> QED BY <2>1, LatestRun, ImportAssumption, LenProperties DEF ImportInv, RunsInv, LastRun
<1>2. CASE ReadLegacy
  <2> DEFINE e == [r EXCEPT !.at = "archived", !.hash = Reading]
  <2>1. /\ e \in HistoryRuns /\ e.status = r.status /\ e.at = "archived" /\ e.action = "preview"
        /\ e.hash \in Histories
    BY <1>1, <1>2 DEF HistoryRuns, Reading, ReadLegacy, ImportInv, ImportRun
  <2>2. RewritesLatest(e)
    BY <1>1, <1>2 DEF RewritesLatest, ReadLegacy
  <2>3. Sourced(e, LastRun, importRuns) /\ e.status # "completed"
    <3> HIDE DEF e
    <3> QED BY <1>1, <2>1 DEF Sourced, EndedStatus
  <2>4. RunsInv' /\ (\A b \in brought' : b.by \in Told') /\ UNCHANGED <<Reviewable, brought, Told>>
    <3> HIDE DEF e
    <3> QED BY <1>2, <2>1, <2>2, <2>3, QuietStep DEF ReadLegacy
  <2>5. legacy' \in Histories /\ archive' \in [1..MaxImportRuns -> Histories \cup {None}]
    BY <1>1, <1>2 DEF ReadLegacy, Reading, ImportInv
  <2> QED BY <2>4, <2>5, QuietIsStutter DEF ImportInv
<1>3. CASE ReadReviewed
  <2> DEFINE bytes == archive[r.of]
             e == [r EXCEPT !.status = "running", !.read = bytes,
                            !.at = IF bytes = r.hash THEN "read" ELSE "refused"]
  <2>1. r.action = "import" /\ bytes \in Histories \cup {None}
    <3>1. r.action = "import" /\ r.of \in 1..(LastRun - 1)
      BY <1>1, <1>3 DEF ReadReviewed, ImportRun, Sourced
    <3>2. r.of \in 1..MaxImportRuns
      BY <1>1, <3>1, ImportAssumption
    <3> QED BY <3>1, <3>2 DEF ImportInv
  <2>2. /\ e \in HistoryRuns /\ e.status = "running" /\ e.read = bytes /\ e.action = "import"
        /\ e.of = r.of /\ e.hash = r.hash
        /\ e.at = IF bytes = r.hash THEN "read" ELSE "refused"
    BY <1>1, <2>1 DEF HistoryRuns
  <2>3. RewritesLatest(e)
    BY <1>1, <1>3 DEF RewritesLatest, ReadReviewed, ImportRun
  <2>4. Sourced(e, LastRun, importRuns)
    <3> HIDE DEF e
    <3> QED BY <1>1, <2>1, <2>2 DEF Sourced
  <2>5. RunsInv' /\ (\A b \in brought' : b.by \in Told') /\ UNCHANGED <<Reviewable, brought, Told>>
    <3> HIDE DEF e
    <3> QED BY <1>3, <2>2, <2>3, <2>4, QuietStep DEF ReadReviewed
  <2> QED BY <1>3, <2>5, QuietIsStutter DEF ReadReviewed, ImportInv
<1> QED BY <1>2, <1>3

\* A preview is first recorded, then completed; the second step shows it.
LEMMA ShowStep ==
  ASSUME ImportInv, RecordPreview
  PROVE  ImportInv' /\ ReviewStep
<1> DEFINE r == importRuns[LastRun]
<1>1. /\ LastRun > 0 /\ ~ ImportEnded(LastRun) /\ RunsInv /\ r.at \in {"archived", "previewed"}
      /\ UNCHANGED <<legacy, archive, brought>>
  BY DEF RecordPreview, At, ImportInv
<1>2. r \in HistoryRuns /\ r.action = "preview" /\ r.hash \in Histories /\ LastRun \in 1..MaxImportRuns
  BY <1>1, LatestRun, ImportAssumption, LenProperties DEF Sourced, RunsInv, LastRun
<1>3. CASE Goes("running", "previewed")
  <2>1. RunsInv' /\ (\A b \in brought' : b.by \in Told') /\ UNCHANGED <<Reviewable, brought, Told>>
    BY <1>1, <1>2, <1>3, GoesStep
  <2> QED BY <1>1, <2>1, QuietIsStutter DEF ImportInv
<1>4. CASE Goes("completed", "previewed")
  <2>1. PICK e \in HistoryRuns : /\ e.status = "completed" /\ e.action = "preview" /\ e.hash = r.hash
                                 /\ RewritesLatest(e) /\ Sourced(e, LastRun, importRuns)
    BY <1>1, <1>2, <1>4, GoesLemma
  <2>2. /\ RunsInv' /\ Told' = Told /\ \A s \in Reviewable : s.preview # LastRun
        /\ Reviewable' = Reviewable \cup {[preview |-> LastRun, content |-> r.hash]}
    BY <1>1, <2>1, RewriteLemma, RewriteShows
  <2>3. Review!Show(LastRun, r.hash)
    BY <1>1, <2>2 DEF Review!Show
  <2>4. ReviewStep
    BY <1>2, <2>3 DEF ReviewStep, Review!ReviewedNext
  <2> QED BY <1>1, <2>2, <2>4 DEF ImportInv
<1> QED BY <1>3, <1>4 DEF RecordPreview

\* The commit imports what the preview showed and completes the Run, or does nothing.
LEMMA ImportStep ==
  ASSUME ImportInv, CommitHistory
  PROVE  ImportInv' /\ ReviewStep
<1> DEFINE r == importRuns[LastRun]
<1>1. /\ LastRun > 0 /\ ~ ImportEnded(LastRun) /\ RunsInv /\ r.at = "read"
      /\ UNCHANGED <<legacy, archive>>
  BY DEF CommitHistory, At, ImportInv
<1>2. /\ r \in HistoryRuns /\ r.action = "import" /\ r.read = r.hash /\ LastRun \in 1..MaxImportRuns
      /\ r.of \in 1..(LastRun - 1) /\ importRuns[r.of].action = "preview"
      /\ importRuns[r.of].status = "completed" /\ importRuns[r.of].hash = r.hash
  BY <1>1, LatestRun, ImportAssumption, LenProperties DEF Sourced, RunsInv, LastRun
<1>3. CASE Goes("running", "refused") /\ UNCHANGED brought
  <2>1. RunsInv' /\ (\A b \in brought' : b.by \in Told') /\ UNCHANGED <<Reviewable, brought, Told>>
    BY <1>1, <1>3, GoesStep
  <2> QED BY <1>1, <2>1, QuietIsStutter DEF ImportInv
<1>4. CASE ~ Taken(r.of) /\ Goes("completed", "back") /\ brought' = brought \cup {Receipt}
  <2>1. PICK e \in HistoryRuns : /\ e.status = "completed" /\ e.action = "import"
                                 /\ RewritesLatest(e) /\ Sourced(e, LastRun, importRuns)
    BY <1>1, <1>2, <1>4, GoesLemma
  <2>2. RunsInv' /\ Reviewable' = Reviewable /\ LastRun \notin Told /\ Told' = Told \cup {LastRun}
    BY <1>1, <2>1, RewriteLemma, RewriteShows
  <2>3. [preview |-> r.of, content |-> r.hash] \in Reviewable /\ r.of \in 1..MaxImportRuns
        /\ r.hash \in Histories
    <3>1. r.of \in 1..Len(importRuns) /\ DOMAIN importRuns = 1..Len(importRuns) /\ r.of \in 1..MaxImportRuns
      BY <1>1, <1>2, LatestRun, ImportAssumption, LenProperties DEF RunsInv
    <3>2. importRuns[r.of].hash \in Histories
      BY <1>1, <1>2, <3>1 DEF RunsInv, Sourced
    <3> QED BY <1>2, <3>1, <3>2 DEF Reviewable, ImportRun
  <2>4. Receipt = [preview |-> r.of, content |-> r.hash, by |-> LastRun]
    BY <1>2 DEF Receipt, ImportRun
  <2>5. \A b \in brought : b.preview # r.of /\ b.by # LastRun
    BY <1>4, <2>2 DEF Taken, ImportInv
  <2>6. Review!Import(r.of, r.hash, LastRun)
    BY <1>4, <2>2, <2>3, <2>4, <2>5 DEF Review!Import
  <2>7. ReviewStep
    BY <1>2, <2>3, <2>6 DEF ReviewStep, Review!ReviewedNext
  <2>8. \A b \in brought' : b.by \in Told'
    BY <1>4, <2>2, <2>4 DEF ImportInv
  <2> QED BY <1>1, <2>2, <2>7, <2>8 DEF ImportInv
<1> QED BY <1>3, <1>4 DEF CommitHistory, ImportRun

\* The import implements the reviewed import, for every number of Runs and contents: whatever
\* is edited, damaged, cancelled or lost meanwhile (history_import_control.py, migration.py).
THEOREM ImplementsReview == ImportSpec => HistoryAsReviewed
<1>1. ImportInit => ImportInv /\ Review!ReviewedInit
  <2> SUFFICES ASSUME ImportInit PROVE ImportInv /\ Review!ReviewedInit
    OBVIOUS
  <2>1. RunsInv
    BY EmptySeq, ImportAssumption DEF ImportInit, RunsInv
  <2>2. DOMAIN importRuns = {}
    BY EmptySeq DEF ImportInit
  <2> QED BY <2>1, <2>2 DEF ImportInit, ImportInv, Reviewable, Told, Review!ReviewedInit
<1>2. ImportInv /\ [ImportNext]_importVars => ImportInv' /\ ReviewStep
  <2> SUFFICES ASSUME ImportInv, [ImportNext]_importVars PROVE ImportInv' /\ ReviewStep
    OBVIOUS
  <2>1. CASE UNCHANGED importVars
    <3>1. UNCHANGED <<Reviewable, brought, Told>> /\ ImportInv'
      BY <2>1 DEF importVars, ImportInv, RunsInv, Reviewable, Told, ImportRun
    <3> QED BY <3>1, QuietIsStutter
  <2> QED BY <2>1, AcceptStep, DisturbStep, WaitStep, ReadStep, ShowStep, ImportStep DEF ImportNext
<1> QED BY <1>1, <1>2, PTL DEF ImportSpec, HistoryAsReviewed, ReviewStep, Review!ReviewedSpec

(***************************************************************************)
(* Runs on copies.                                                         *)
(***************************************************************************)
CopySpec == CopyInit /\ [][CopyNext]_copyVars

CopyKinds == {"snapshot", "worktree", "sandbox"}
CopyRecords == [kind : CopyKinds, base : Versions, content : Versions]
Bindings == [kind : CopyKinds \cup {"source"}, copy : Nat]
SessionRecords ==
  [pc : {"idle", "copying", "comparing", "admitting", "queued", "running", "abandoning"},
   status : {"none", "running", "ended", "parked"}, kind : CopyKinds \cup {"source"}, copy : Nat,
   seen : Versions \cup {None}, prior : CopyKinds \cup Bindings \cup {None}, worktree : Nat]

\* Later copies: those there were keep their kind and what they were copied from.
Extended(cs, ds) ==
  /\ Len(cs) <= Len(ds)
  /\ \A c \in 1..Len(cs) : ds[c].kind = cs[c].kind /\ ds[c].base = cs[c].base

\* A binding names a copy of its kind, and the Session's worktree if it has one.
BoundTo(cs, kind, copy, worktree) ==
  IF kind = "source" THEN copy = 0
  ELSE /\ copy \in 1..Len(cs) /\ cs[copy].kind = kind
       /\ IF kind = "worktree" THEN worktree \in {0, copy} ELSE worktree = 0

\* Where a Session stands: what its latest Run, the one being admitted and the one being
\* abandoned are bound to.
SoundSession(cs, r) ==
  /\ r \in SessionRecords
  /\ BoundTo(cs, r.kind, r.copy, r.worktree)
  /\ r.kind = "worktree" => r.worktree = r.copy
  /\ r.worktree # 0 => r.worktree \in 1..Len(cs) /\ cs[r.worktree].kind = "worktree"
  /\ r.status = "none" => r.kind = "source" /\ r.worktree = 0
  /\ r.pc = "copying" => r.prior \in CopyKinds /\ r.worktree = 0
  /\ r.pc \in {"comparing", "admitting"} =>
       /\ r.prior \in Bindings /\ r.prior.kind # "source"
       /\ BoundTo(cs, r.prior.kind, r.prior.copy, r.worktree)
  /\ r.pc = "abandoning" =>
       /\ r.prior \in Bindings /\ r.status # "none"
       /\ BoundTo(cs, r.prior.kind, r.prior.copy, r.worktree)
       /\ r.prior.kind = "worktree" => r.worktree = r.prior.copy
  /\ r.pc \in {"queued", "running"} => r.kind # "source"
  /\ r.pc = "queued" /\ r.kind = "snapshot" => r.seen = cs[r.copy].base

\* From the claim to the end of its Run, a worktree is its Session's.
Claimed(cl, r, s) ==
  /\ r.pc \in {"comparing", "admitting"} /\ r.prior.kind = "worktree" => cl[r.prior.copy] = s
  /\ r.pc \in {"queued", "running"} /\ r.kind = "worktree" => cl[r.copy] = s

GuestClaims ==
  guest # 0 => guest \in 1..Len(copies) /\ copies[guest].kind = "worktree" /\ claim[guest] = Guest

CopyTypes ==
  /\ original \in Versions /\ copies \in Seq(CopyRecords) /\ Len(copies) <= MaxCopies
  /\ claim \in [1..MaxCopies -> Tasks \cup {Guest, None}] /\ sess \in [Tasks -> SessionRecords]

CopyInv ==
  /\ CopyTypes /\ GuestClaims
  /\ \A s \in Tasks : SoundSession(copies, sess[s]) /\ Claimed(claim, sess[s], s)

StartsAsAdmitted ==
  \A s \in Tasks : sess'[s].pc = "running" /\ sess[s].pc # "running" =>
       LET c == sess'[s].copy IN
       /\ copies[c].content = sess[s].seen /\ c \notin tainted
       /\ sess[s].worktree \in {0, c}

CopyKept == CopyInv' /\ StartsAsAdmitted

\* A Session stands as well on later copies.
LEMMA SoundLater ==
  ASSUME NEW cs \in Seq(CopyRecords), NEW ds \in Seq(CopyRecords), Extended(cs, ds),
         NEW r, SoundSession(cs, r)
  PROVE  SoundSession(ds, r)
<1>1. Len(cs) \in Nat /\ Len(ds) \in Nat /\ 1..Len(cs) \subseteq 1..Len(ds)
  BY LenProperties DEF Extended
<1>2. ASSUME NEW kind, NEW copy, NEW worktree, BoundTo(cs, kind, copy, worktree)
      PROVE  BoundTo(ds, kind, copy, worktree)
  BY <1>1, <1>2 DEF BoundTo, Extended
<1>3. r.pc = "queued" /\ r.kind = "snapshot" => ds[r.copy].base = cs[r.copy].base
  BY DEF SoundSession, BoundTo, Extended
<1>4. r.worktree # 0 => r.worktree \in 1..Len(ds) /\ ds[r.worktree].kind = "worktree"
  BY <1>1 DEF SoundSession, Extended
<1> QED BY <1>2, <1>3, <1>4 DEF SoundSession

\* A claim that was another's stays.
LEMMA ClaimsLater ==
  ASSUME CopyInv, NEW s \in Tasks \cup {Guest}, NEW t \in Tasks, t # s, NEW cl,
         \A c \in 1..Len(copies) : claim[c] \notin {None, s} => cl[c] = claim[c]
  PROVE  Claimed(cl, sess[t], t)
<1>1. t # None
  BY CopyAssumption
<1> QED BY <1>1 DEF CopyInv, Claimed, SoundSession, BoundTo

\* One Session moves, and no other loses its claim.
LEMMA SessionMoves ==
  ASSUME CopyInv, NEW s \in Tasks, NEW r, Becomes(s, r), SoundSession(copies', r), Claimed(claim', r, s),
         original' \in Versions, copies' \in Seq(CopyRecords), Len(copies') <= MaxCopies,
         Extended(copies, copies'), claim' \in [1..MaxCopies -> Tasks \cup {Guest, None}], UNCHANGED guest,
         \A c \in 1..Len(copies) : claim[c] \notin {None, s} => claim'[c] = claim[c]
  PROVE  /\ CopyInv'
         /\ r.pc # "running" \/ sess[s].pc = "running" => CopyKept
<1>1. sess' \in [Tasks -> SessionRecords] /\ sess'[s] = r /\ \A t \in Tasks : t # s => sess'[t] = sess[t]
  BY DEF Becomes, CopyInv, CopyTypes, SoundSession
<1>2. ASSUME NEW t \in Tasks PROVE SoundSession(copies', sess'[t]) /\ Claimed(claim', sess'[t], t)
  <2>1. CASE t = s
    BY <1>1, <2>1
  <2>2. CASE t # s
    <3>1. SoundSession(copies', sess[t])
      BY SoundLater DEF CopyInv, CopyTypes
    <3>2. Claimed(claim', sess[t], t)
      BY <2>2, ClaimsLater
    <3> QED BY <1>1, <2>2, <3>1, <3>2
  <2> QED BY <2>1, <2>2
<1>3. GuestClaims'
  <2>1. Guest \notin {None, s} /\ Len(copies) \in Nat /\ Len(copies') \in Nat
    BY CopyAssumption, LenProperties DEF CopyInv, CopyTypes
  <2> QED BY <2>1 DEF GuestClaims, CopyInv, Extended
<1>4. CopyInv'
  BY <1>1, <1>2, <1>3 DEF CopyInv, CopyTypes
<1>5. ASSUME r.pc # "running" \/ sess[s].pc = "running" PROVE StartsAsAdmitted
  BY <1>1, <1>5 DEF StartsAsAdmitted
<1> QED BY <1>4, <1>5 DEF CopyKept

\* Copies that change in content only.
LEMMA SameCopies == ASSUME CopyTypes PROVE Extended(copies, copies)
BY LenProperties DEF CopyTypes, Extended

\* What is released is the Session's own.
LEMMA Released ==
  ASSUME CopyTypes, NEW s \in Tasks \cup {Guest}, claim' = Release(s)
  PROVE  /\ claim' \in [1..MaxCopies -> Tasks \cup {Guest, None}]
         /\ \A c \in 1..MaxCopies : claim[c] # s => claim'[c] = claim[c]
BY DEF CopyTypes, Release

\* A step that writes no copy.
LEMMA SessionOnly ==
  ASSUME CopyInv, NEW s \in Tasks, NEW r, Becomes(s, r), SoundSession(copies, r), Claimed(claim', r, s),
         r.pc # "running", original' \in Versions, UNCHANGED <<copies, guest>>,
         UNCHANGED claim \/ claim' = Release(s) \/ \E c \in 1..Len(copies) : ClaimCopy(s, c)
  PROVE  CopyKept
<1>1. /\ claim' \in [1..MaxCopies -> Tasks \cup {Guest, None}] /\ Len(copies) \in Nat
      /\ \A c \in 1..Len(copies) : claim[c] \notin {None, s} => claim'[c] = claim[c]
  <2>0. 1..Len(copies) \subseteq 1..MaxCopies /\ Len(copies) \in Nat
    BY CopyAssumption, LenProperties DEF CopyInv, CopyTypes
  <2>1. CASE UNCHANGED claim
    BY <2>0, <2>1 DEF CopyInv, CopyTypes
  <2>2. CASE claim' = Release(s)
    BY <2>0, <2>2, Released DEF CopyInv
  <2>3. CASE \E c \in 1..Len(copies) : ClaimCopy(s, c)
    BY <2>0, <2>3 DEF ClaimCopy, CopyInv, CopyTypes
  <2> QED BY <2>1, <2>2, <2>3
<1>2. Extended(copies, copies') /\ copies' \in Seq(CopyRecords) /\ Len(copies') <= MaxCopies
  BY SameCopies DEF CopyInv, CopyTypes
<1> QED BY <1>1, <1>2, SessionMoves

LEMMA AdmitKeeps ==
  ASSUME CopyInv, NEW s \in Tasks, NEW aim \in Targets, AdmitOnCopy(s, aim)
  PROVE  CopyKept
<1> DEFINE now  == sess[s]
           mine == IF aim = "sandbox" /\ now.kind = "sandbox" THEN now.copy
                   ELSE IF aim = "worktree" THEN now.worktree ELSE 0
<1>1. /\ now \in SessionRecords /\ SoundSession(copies, now) /\ now.pc = "idle"
      /\ aim \in CopyKinds /\ TargetFits(s, aim)
      /\ UNCHANGED <<original, copies, guest>> /\ original' \in Versions
  BY CopyAssumption DEF AdmitOnCopy, CopyInv, CopyTypes, CopyKinds
<1>2. CASE mine = 0
  <2> DEFINE r == [now EXCEPT !.pc = "copying", !.prior = aim]
  <2>1. Becomes(s, r) /\ UNCHANGED claim
    BY <1>2 DEF AdmitOnCopy
  <2>2. now.worktree = 0
    BY <1>1, <1>2 DEF TargetFits, SoundSession, BoundTo, CopyKinds
  <2>3. /\ r \in SessionRecords /\ r.pc = "copying" /\ r.prior = aim /\ r.status = now.status
        /\ r.kind = now.kind /\ r.copy = now.copy /\ r.worktree = now.worktree
    BY <1>1 DEF SessionRecords
  <2> HIDE DEF r
  <2>4. SoundSession(copies, r) /\ Claimed(claim', r, s)
    BY <1>1, <2>2, <2>3 DEF SoundSession, Claimed
  <2> QED BY <1>1, <2>1, <2>3, <2>4, SessionOnly
<1>3. CASE mine # 0
  <2> DEFINE b == [kind |-> aim, copy |-> mine]
             r == [now EXCEPT !.pc = "admitting", !.prior = b]
  <2>1. /\ Becomes(s, r)
        /\ IF aim = "worktree" THEN ClaimCopy(s, mine) ELSE UNCHANGED claim
    BY <1>3 DEF AdmitOnCopy
  <2>2. mine \in Nat /\ BoundTo(copies, aim, mine, now.worktree) /\ mine \in 1..Len(copies)
    BY <1>1, <1>3 DEF TargetFits, SoundSession, BoundTo, CopyKinds, SessionRecords
  <2>3. b \in Bindings /\ b.kind = aim /\ b.copy = mine
    BY <1>1, <2>2 DEF Bindings
  <2>4. aim = "worktree" => mine \in 1..MaxCopies /\ claim' = [claim EXCEPT ![mine] = s]
                               /\ claim \in [1..MaxCopies -> Tasks \cup {Guest, None}]
    BY <2>1, <2>2, CopyAssumption, LenProperties DEF ClaimCopy, CopyInv, CopyTypes
  <2> HIDE DEF mine, b
  <2>5. /\ r \in SessionRecords /\ r.pc = "admitting" /\ r.prior = b /\ r.status = now.status
        /\ r.kind = now.kind /\ r.copy = now.copy /\ r.worktree = now.worktree
    BY <1>1, <2>3 DEF SessionRecords
  <2> HIDE DEF r
  <2>6. SoundSession(copies, r)
    BY <1>1, <2>2, <2>3, <2>5 DEF SoundSession, CopyKinds
  <2>7. Claimed(claim', r, s)
    BY <2>3, <2>4, <2>5 DEF Claimed
  <2>8. UNCHANGED claim \/ \E c \in 1..Len(copies) : ClaimCopy(s, c)
    BY <2>1, <2>2
  <2> QED BY <1>1, <2>1, <2>5, <2>6, <2>7, <2>8, SessionOnly
<1> QED BY <1>2, <1>3

\* The Session's own view, and what of it a step may keep.
LEMMA SessionFacts ==
  ASSUME CopyInv, NEW s \in Tasks
  PROVE  /\ sess[s] \in SessionRecords /\ SoundSession(copies, sess[s]) /\ Claimed(claim, sess[s], s)
         /\ copies \in Seq(CopyRecords) /\ Len(copies) \in Nat /\ original \in Versions
         /\ \A c \in 1..Len(copies) : copies[c] \in CopyRecords /\ c \in 1..MaxCopies
BY CopyAssumption, LenProperties DEF CopyInv, CopyTypes

LEMMA SourceKeeps ==
  ASSUME CopyInv, NEW s \in Tasks, RunOnSource(s)
  PROVE  CopyKept
<1> DEFINE now == sess[s]
           r == [now EXCEPT !.status = "ended", !.kind = "source", !.copy = 0]
<1>1. /\ now \in SessionRecords /\ SoundSession(copies, now) /\ now.pc = "idle" /\ Becomes(s, r)
      /\ UNCHANGED <<copies, claim, guest>> /\ original' \in Versions
  BY SessionFacts DEF RunOnSource
<1>2. /\ r \in SessionRecords /\ r.pc = "idle" /\ r.kind = "source" /\ r.copy = 0 /\ r.status = "ended"
      /\ r.worktree = now.worktree
  BY <1>1 DEF SessionRecords
<1> HIDE DEF r
<1>3. SoundSession(copies, r) /\ Claimed(claim', r, s)
  BY <1>1, <1>2 DEF SoundSession, BoundTo, Claimed
<1> QED BY <1>1, <1>2, <1>3, SessionOnly

LEMMA CompareKeeps ==
  ASSUME CopyInv, NEW s \in Tasks, CompareSource(s)
  PROVE  CopyKept
<1> DEFINE now == sess[s]
           go == [now EXCEPT !.pc = "admitting"]
           no == [now EXCEPT !.pc = "idle", !.prior = None]
<1>1. /\ now \in SessionRecords /\ SoundSession(copies, now) /\ Claimed(claim, now, s)
      /\ now.pc = "comparing" /\ UNCHANGED <<original, copies, guest>> /\ original' \in Versions
      /\ \/ Becomes(s, go) /\ UNCHANGED claim
         \/ Becomes(s, no) /\ claim' = Release(s)
  BY SessionFacts DEF CompareSource
<1>2. /\ go \in SessionRecords /\ go.pc = "admitting" /\ go.prior = now.prior /\ go.kind = now.kind
      /\ go.copy = now.copy /\ go.status = now.status /\ go.worktree = now.worktree
  BY <1>1 DEF SessionRecords
<1>3. /\ no \in SessionRecords /\ no.pc = "idle" /\ no.kind = now.kind
      /\ no.copy = now.copy /\ no.status = now.status /\ no.worktree = now.worktree
  BY <1>1 DEF SessionRecords
<1> HIDE DEF go, no
<1>4. SoundSession(copies, go) /\ Claimed(claim, go, s)
  BY <1>1, <1>2 DEF SoundSession, Claimed
<1>5. SoundSession(copies, no) /\ Claimed(claim', no, s)
  BY <1>1, <1>3 DEF SoundSession, Claimed
<1>6. CASE Becomes(s, go) /\ UNCHANGED claim
  BY <1>1, <1>2, <1>4, <1>6, SessionOnly
<1>7. CASE Becomes(s, no) /\ claim' = Release(s)
  BY <1>1, <1>3, <1>5, <1>7, SessionOnly
<1> QED BY <1>1, <1>6, <1>7

LEMMA ContinueKeeps ==
  ASSUME CopyInv, NEW s \in Tasks, ContinueOnCopy(s)
  PROVE  CopyKept
<1> DEFINE now == sess[s]
           b == [kind |-> now.kind, copy |-> now.copy]
           r == [now EXCEPT !.pc = "admitting", !.prior = b]
<1>1. /\ now \in SessionRecords /\ SoundSession(copies, now) /\ now.kind # "source"
      /\ UNCHANGED <<original, copies, guest>> /\ original' \in Versions /\ Becomes(s, r)
      /\ IF now.kind = "worktree" THEN ClaimCopy(s, now.copy) ELSE UNCHANGED claim
  BY SessionFacts DEF ContinueOnCopy
<1>2. BoundTo(copies, now.kind, now.copy, now.worktree) /\ now.copy \in 1..Len(copies)
  BY <1>1 DEF SoundSession, BoundTo
<1>3. b \in Bindings /\ b.kind = now.kind /\ b.copy = now.copy
  BY <1>1 DEF Bindings, SessionRecords
<1> HIDE DEF b
<1>4. /\ r \in SessionRecords /\ r.pc = "admitting" /\ r.prior = b /\ r.kind = now.kind
      /\ r.copy = now.copy /\ r.status = now.status /\ r.worktree = now.worktree
  BY <1>1, <1>3 DEF SessionRecords
<1> HIDE DEF r
<1>5. SoundSession(copies, r)
  BY <1>1, <1>2, <1>3, <1>4 DEF SoundSession
<1>6. Claimed(claim', r, s)
  <2>1. now.kind = "worktree" => claim'[now.copy] = s
    BY <1>1, <1>2, SessionFacts DEF ClaimCopy, CopyInv, CopyTypes
  <2> QED BY <1>3, <1>4, <2>1 DEF Claimed
<1>7. UNCHANGED claim \/ \E c \in 1..Len(copies) : ClaimCopy(s, c)
  BY <1>1, <1>2
<1> QED BY <1>1, <1>4, <1>5, <1>6, <1>7, SessionOnly

\* The Run is recorded on the copy that was claimed for it.
LEMMA RecordRunKeeps ==
  ASSUME CopyInv, NEW s \in Tasks, RecordCopyRun(s)
  PROVE  CopyKept
<1> DEFINE now == sess[s]
           c == now.prior.copy
           k == now.prior.kind
           w == IF k = "worktree" THEN c ELSE now.worktree
           go == [now EXCEPT !.pc = "queued", !.status = "running", !.kind = k,
                             !.copy = c, !.seen = copies[c].content, !.prior = None, !.worktree = w]
           no == [now EXCEPT !.pc = "idle", !.prior = None]
<1>1. /\ now \in SessionRecords /\ SoundSession(copies, now) /\ Claimed(claim, now, s)
      /\ now.pc = "admitting" /\ UNCHANGED <<original, copies, guest>> /\ original' \in Versions
      /\ \/ Becomes(s, go) /\ UNCHANGED claim /\ Intact(c)
         \/ Becomes(s, no) /\ claim' = Release(s)
  BY SessionFacts DEF RecordCopyRun
<1>2. /\ k \in CopyKinds /\ c \in 1..Len(copies) /\ c \in Nat /\ copies[c].kind = k
      /\ BoundTo(copies, k, c, now.worktree) /\ copies[c].content \in Versions
  <2>1. k \in CopyKinds /\ c \in 1..Len(copies) /\ c \in Nat /\ copies[c].kind = k
        /\ BoundTo(copies, k, c, now.worktree)
    BY <1>1, SessionFacts DEF SoundSession, BoundTo, Bindings, CopyKinds
  <2> QED BY <2>1, SessionFacts DEF CopyRecords
<1>3. w \in Nat /\ BoundTo(copies, k, c, w) /\ (k = "worktree" => w = c)
      /\ (w # 0 => w \in 1..Len(copies) /\ copies[w].kind = "worktree")
  BY <1>1, <1>2 DEF BoundTo, SessionRecords, SoundSession, CopyKinds
<1> HIDE DEF w, k, c
<1>4. /\ go \in SessionRecords /\ go.pc = "queued" /\ go.kind = k /\ go.copy = c
      /\ go.status = "running" /\ go.worktree = w /\ go.seen = copies[c].content
  BY <1>1, <1>2, <1>3 DEF SessionRecords
<1>5. /\ no \in SessionRecords /\ no.pc = "idle" /\ no.kind = now.kind
      /\ no.copy = now.copy /\ no.status = now.status /\ no.worktree = now.worktree
  BY <1>1 DEF SessionRecords
<1> HIDE DEF go, no
<1>6. ASSUME Intact(c) PROVE SoundSession(copies, go)
  BY <1>2, <1>3, <1>4, <1>6 DEF SoundSession, CopyKinds, Intact
<1>7. Claimed(claim, go, s)
  BY <1>1, <1>4 DEF Claimed, k, c
<1>8. SoundSession(copies, no) /\ Claimed(claim', no, s)
  BY <1>1, <1>5 DEF SoundSession, Claimed
<1>9. CASE Becomes(s, go) /\ UNCHANGED claim /\ Intact(c)
  BY <1>1, <1>4, <1>6, <1>7, <1>9, SessionOnly
<1>10. CASE Becomes(s, no) /\ claim' = Release(s)
  BY <1>1, <1>5, <1>8, <1>10, SessionOnly
<1> QED BY <1>1, <1>9, <1>10

\* A Run that starts finds its copy as its admission recorded it.
LEMMA CopyStartKeeps ==
  ASSUME CopyInv, NEW s \in Tasks, StartCopyRun(s)
  PROVE  CopyKept
<1> DEFINE now == sess[s]
           go == [now EXCEPT !.pc = "running"]
           no == [now EXCEPT !.pc = "idle", !.status = "ended"]
<1>1. /\ now \in SessionRecords /\ SoundSession(copies, now) /\ Claimed(claim, now, s)
      /\ now.pc = "queued" /\ UNCHANGED <<original, copies, guest>> /\ original' \in Versions
      /\ \/ Becomes(s, go) /\ UNCHANGED claim /\ Startable(s)
         \/ Becomes(s, no) /\ claim' = Release(s)
  BY SessionFacts DEF StartCopyRun
<1>2. /\ go \in SessionRecords /\ go.pc = "running" /\ go.kind = now.kind
      /\ go.copy = now.copy /\ go.status = now.status /\ go.worktree = now.worktree
  BY <1>1 DEF SessionRecords
<1>3. /\ no \in SessionRecords /\ no.pc = "idle" /\ no.kind = now.kind
      /\ no.copy = now.copy /\ no.status = "ended" /\ no.worktree = now.worktree
  BY <1>1 DEF SessionRecords
<1> HIDE DEF go, no
<1>4. SoundSession(copies, go) /\ Claimed(claim, go, s)
  BY <1>1, <1>2 DEF SoundSession, Claimed
<1>5. SoundSession(copies, no) /\ Claimed(claim', no, s)
  BY <1>1, <1>3 DEF SoundSession, Claimed
<1>6. CASE Becomes(s, go) /\ UNCHANGED claim /\ Startable(s)
  <2>1. CopyInv'
    BY <1>1, <1>4, <1>6, SessionFacts, SameCopies, SessionMoves DEF CopyInv, CopyTypes
  <2>2. copies[now.copy].content = now.seen /\ now.copy \notin tainted /\ now.worktree \in {0, now.copy}
    BY <1>1, <1>6 DEF Startable, Intact, SoundSession, BoundTo, SessionRecords, CopyKinds
  <2>3. sess'[s] = go /\ \A t \in Tasks : t # s => sess'[t] = sess[t]
    BY <1>6 DEF Becomes, CopyInv, CopyTypes
  <2>4. StartsAsAdmitted
    BY <1>2, <2>2, <2>3 DEF StartsAsAdmitted
  <2> QED BY <2>1, <2>4 DEF CopyKept
<1>7. CASE Becomes(s, no) /\ claim' = Release(s)
  BY <1>1, <1>3, <1>5, <1>7, SessionOnly
<1> QED BY <1>1, <1>6, <1>7

LEMMA EndKeeps ==
  ASSUME CopyInv, NEW s \in Tasks, EndCopyRun(s)
  PROVE  CopyKept
<1> DEFINE now == sess[s]
<1>1. PICK status \in {"ended", "parked"} :
        Becomes(s, [now EXCEPT !.pc = "idle", !.status = status, !.seen = copies[now.copy].content])
  BY DEF EndCopyRun
<1> DEFINE r == [now EXCEPT !.pc = "idle", !.status = status, !.seen = copies[now.copy].content]
<1>2. /\ now \in SessionRecords /\ SoundSession(copies, now) /\ now.pc = "running"
      /\ UNCHANGED <<original, copies, guest>> /\ original' \in Versions /\ claim' = Release(s)
  BY SessionFacts DEF EndCopyRun
<1>3. copies[now.copy].content \in Versions
  BY <1>2, SessionFacts DEF SoundSession, BoundTo, CopyRecords
<1>4. /\ r \in SessionRecords /\ r.pc = "idle" /\ r.kind = now.kind
      /\ r.copy = now.copy /\ r.status = status /\ r.worktree = now.worktree
  BY <1>2, <1>3 DEF SessionRecords
<1> HIDE DEF r
<1>5. SoundSession(copies, r) /\ Claimed(claim', r, s)
  BY <1>2, <1>4 DEF SoundSession, Claimed
<1> QED BY <1>1, <1>2, <1>4, <1>5, SessionOnly DEF r

LEMMA AbandonKeeps ==
  ASSUME CopyInv, NEW s \in Tasks, BeginAbandon(s) \/ EndAbandon(s)
  PROVE  CopyKept
<1> DEFINE now == sess[s]
<1>1. /\ now \in SessionRecords /\ SoundSession(copies, now)
      /\ UNCHANGED <<original, copies, claim, guest>> /\ original' \in Versions
  BY SessionFacts DEF BeginAbandon, EndAbandon
<1>2. CASE BeginAbandon(s)
  <2> DEFINE b == [kind |-> now.kind, copy |-> now.copy]
             r == [now EXCEPT !.pc = "abandoning", !.status = "running", !.kind = "source",
                              !.copy = 0, !.prior = b]
  <2>1. Becomes(s, r) /\ now.pc = "idle"
    BY <1>2 DEF BeginAbandon
  <2>2. b \in Bindings /\ b.kind = now.kind /\ b.copy = now.copy
    BY <1>1 DEF Bindings, SessionRecords
  <2> HIDE DEF b
  <2>3. /\ r \in SessionRecords /\ r.pc = "abandoning" /\ r.prior = b /\ r.kind = "source"
        /\ r.copy = 0 /\ r.status = "running" /\ r.worktree = now.worktree
    BY <1>1, <2>2 DEF SessionRecords
  <2> HIDE DEF r
  <2>4. SoundSession(copies, r) /\ Claimed(claim', r, s)
    BY <1>1, <2>2, <2>3 DEF SoundSession, BoundTo, Claimed
  <2> QED BY <1>1, <2>1, <2>3, <2>4, SessionOnly
<1>3. CASE EndAbandon(s)
  <2> DEFINE r == [now EXCEPT !.pc = "idle", !.status = "ended", !.kind = now.prior.kind,
                              !.copy = now.prior.copy, !.prior = None]
  <2>1. Becomes(s, r) /\ now.pc = "abandoning" /\ now.prior \in Bindings
    BY <1>1, <1>3 DEF EndAbandon, SoundSession
  <2>2. now.prior.kind \in CopyKinds \cup {"source"} /\ now.prior.copy \in Nat
    BY <2>1 DEF Bindings
  <2>3. /\ r \in SessionRecords /\ r.pc = "idle" /\ r.kind = now.prior.kind
        /\ r.copy = now.prior.copy /\ r.status = "ended" /\ r.worktree = now.worktree
    BY <1>1, <2>2 DEF SessionRecords
  <2> HIDE DEF r
  <2>4. SoundSession(copies, r) /\ Claimed(claim', r, s)
    BY <1>1, <2>1, <2>3 DEF SoundSession, Claimed
  <2> QED BY <1>1, <2>1, <2>3, <2>4, SessionOnly
<1> QED BY <1>2, <1>3

\* A copy that is made is a new one, whoever waits for others.
LEMMA MakeKeeps ==
  ASSUME CopyInv, NEW s \in Tasks, MakeCopy(s)
  PROVE  CopyKept
<1> DEFINE now  == sess[s]
           kind == now.prior
           old  == SameSnapshot(kind)
           c    == IF old # {} THEN CHOOSE d \in old : TRUE ELSE Len(copies) + 1
           b    == [kind |-> kind, copy |-> c]
           r    == [now EXCEPT !.pc = "comparing", !.prior = b]
<1>1. /\ now \in SessionRecords /\ SoundSession(copies, now) /\ now.pc = "copying" /\ c <= MaxCopies
      /\ copies' = IF old # {} THEN copies ELSE Append(copies, NewCopy(kind))
      /\ claim' = IF kind = "worktree" THEN [claim EXCEPT ![c] = s] ELSE claim
      /\ Becomes(s, r) /\ UNCHANGED <<original, guest>> /\ original' \in Versions
  BY SessionFacts DEF MakeCopy
<1>2. kind \in CopyKinds /\ now.worktree = 0
  BY <1>1 DEF SoundSession
<1>3. copies \in Seq(CopyRecords) /\ Len(copies) \in Nat /\ NewCopy(kind) \in CopyRecords
      /\ DOMAIN copies = 1..Len(copies) /\ Len(copies) <= MaxCopies
  BY <1>2, SessionFacts, LenProperties DEF NewCopy, CopyRecords, CopyInv, CopyTypes
<1>4. old # {} => c \in 1..Len(copies) /\ copies[c].kind = kind /\ kind = "snapshot"
  BY <1>3 DEF SameSnapshot
<1>5. /\ copies' \in Seq(CopyRecords) /\ Len(copies') <= MaxCopies /\ Extended(copies, copies')
      /\ c \in 1..Len(copies') /\ copies'[c].kind = kind /\ c \in Nat /\ c \in 1..MaxCopies
  <2>1. CASE old # {}
    BY <1>1, <1>3, <1>4, <2>1, SameCopies, CopyAssumption DEF CopyInv
  <2>2. CASE old = {}
    <3>1. copies' = Append(copies, NewCopy(kind)) /\ c = Len(copies) + 1
      BY <1>1, <2>2
    <3>2. /\ copies' \in Seq(CopyRecords) /\ Len(copies') = Len(copies) + 1
          /\ copies'[Len(copies) + 1] = NewCopy(kind)
          /\ \A d \in 1..Len(copies) : copies'[d] = copies[d]
      BY <1>3, <3>1, AppendProperties
    <3> QED BY <1>1, <1>3, <3>1, <3>2, CopyAssumption DEF Extended, NewCopy
  <2> QED BY <2>1, <2>2
<1>6. /\ claim' \in [1..MaxCopies -> Tasks \cup {Guest, None}]
      /\ kind = "worktree" => claim'[c] = s
      /\ \A d \in 1..Len(copies) : claim[d] \notin {None, s} => claim'[d] = claim[d]
  <2>1. claim \in [1..MaxCopies -> Tasks \cup {Guest, None}]
    BY DEF CopyInv, CopyTypes
  <2>2. kind = "worktree" => c \notin 1..Len(copies)
    BY <1>3, <1>4
  <2> QED BY <1>1, <1>3, <1>5, <2>1, <2>2
<1>7. b \in Bindings /\ b.kind = kind /\ b.copy = c
  BY <1>2, <1>5 DEF Bindings
<1> HIDE DEF old, c, b
<1>8. /\ r \in SessionRecords /\ r.pc = "comparing" /\ r.prior = b /\ r.kind = now.kind
      /\ r.copy = now.copy /\ r.status = now.status /\ r.worktree = now.worktree
  BY <1>1, <1>7 DEF SessionRecords
<1> HIDE DEF r
<1>9. SoundSession(copies', r)
  <2>1. SoundSession(copies', now)
    BY <1>1, <1>3, <1>5, SoundLater
  <2>2. BoundTo(copies', kind, c, 0) /\ kind # "source"
    BY <1>2, <1>5 DEF BoundTo, CopyKinds
  <2> QED BY <1>2, <1>7, <1>8, <2>1, <2>2 DEF SoundSession
<1>10. Claimed(claim', r, s)
  BY <1>6, <1>7, <1>8 DEF Claimed
<1> QED BY <1>1, <1>5, <1>6, <1>8, <1>9, <1>10, SessionMoves

\* Writing a copy.
LEMMA WriteCopy ==
  ASSUME CopyTypes, NEW c \in 1..Len(copies), NEW v \in Versions,
         copies' = [copies EXCEPT ![c] = [@ EXCEPT !.content = v]]
  PROVE  copies' \in Seq(CopyRecords) /\ Len(copies') <= MaxCopies /\ Extended(copies, copies')
<1> DEFINE e == [copies[c] EXCEPT !.content = v]
<1>1. copies \in Seq(CopyRecords) /\ Len(copies) \in Nat /\ copies[c] \in CopyRecords
  BY LenProperties DEF CopyTypes
<1>2. e \in CopyRecords /\ e.kind = copies[c].kind /\ e.base = copies[c].base
  BY <1>1 DEF CopyRecords
<1>3. copies' = [copies EXCEPT ![c] = e]
  OBVIOUS
<1> HIDE DEF e
<1>4. /\ copies' \in Seq(CopyRecords) /\ Len(copies') = Len(copies)
      /\ \A d \in 1..Len(copies) : copies'[d] = IF d = c THEN e ELSE copies[d]
  BY <1>1, <1>2, <1>3, ExceptSeq
<1> QED BY <1>1, <1>2, <1>4 DEF Extended, CopyTypes

LEMMA WorkInKeeps ==
  ASSUME CopyInv, NEW s \in Tasks, WorkInCopy(s)
  PROVE  CopyKept
<1> DEFINE now == sess[s]
           c == now.copy
           r == [now EXCEPT !.seen = copies[c].content]
<1>1. /\ now \in SessionRecords /\ SoundSession(copies, now) /\ Claimed(claim, now, s) /\ now.pc = "running"
      /\ UNCHANGED <<original, claim, guest>> /\ original' \in Versions /\ CopyTypes
      /\ \/ /\ \E v \in Versions : copies' = [copies EXCEPT ![c] = [@ EXCEPT !.content = v]]
            /\ UNCHANGED sess
         \/ Becomes(s, r) /\ UNCHANGED copies
  BY SessionFacts DEF WorkInCopy, CopyInv
<1>2. c \in 1..Len(copies) /\ copies[c].content \in Versions
  BY <1>1, SessionFacts DEF SoundSession, BoundTo, CopyRecords
<1>3. CASE /\ \E v \in Versions : copies' = [copies EXCEPT ![c] = [@ EXCEPT !.content = v]]
           /\ UNCHANGED sess
  <2>1. copies' \in Seq(CopyRecords) /\ Len(copies') <= MaxCopies /\ Extended(copies, copies')
    BY <1>1, <1>2, <1>3, WriteCopy
  <2>2. Becomes(s, now) /\ SoundSession(copies', now)
    BY <1>1, <1>3, <2>1, SoundLater DEF Becomes, CopyTypes
  <2> QED BY <1>1, <2>1, <2>2, SessionMoves DEF CopyTypes
<1>4. CASE Becomes(s, r) /\ UNCHANGED copies
  <2>1. /\ r \in SessionRecords /\ r.pc = "running" /\ r.kind = now.kind /\ r.prior = now.prior
        /\ r.copy = now.copy /\ r.status = now.status /\ r.worktree = now.worktree
    BY <1>1, <1>2 DEF SessionRecords
  <2> HIDE DEF r
  <2>2. SoundSession(copies, r) /\ Claimed(claim, r, s)
    BY <1>1, <2>1 DEF SoundSession, Claimed
  <2> QED BY <1>1, <1>4, <2>1, <2>2, SameCopies, SessionMoves DEF CopyTypes
<1> QED BY <1>1, <1>3, <1>4

\* Nobody of the Sessions moves, and none loses its claim.
LEMMA OthersMove ==
  ASSUME CopyInv, UNCHANGED sess, original' \in Versions, copies' \in Seq(CopyRecords),
         Len(copies') <= MaxCopies, Extended(copies, copies'), GuestClaims',
         claim' \in [1..MaxCopies -> Tasks \cup {Guest, None}],
         \A c \in 1..Len(copies) : claim[c] \notin {None, Guest} => claim'[c] = claim[c]
  PROVE  CopyKept
<1>1. ASSUME NEW t \in Tasks PROVE SoundSession(copies', sess'[t]) /\ Claimed(claim', sess'[t], t)
  <2>1. t # Guest
    BY CopyAssumption
  <2> QED BY <2>1, SoundLater, ClaimsLater DEF CopyInv, CopyTypes
<1> QED BY <1>1 DEF CopyKept, CopyInv, CopyTypes, StartsAsAdmitted

LEMMA GuestKeeps ==
  ASSUME CopyInv, EndGuest \/ EditAnything \/ \E c \in 1..MaxCopies : StartGuest(c)
  PROVE  CopyKept
<1>0. CopyTypes /\ GuestClaims /\ Extended(copies, copies) /\ DOMAIN copies = 1..Len(copies)
      /\ Len(copies) \in Nat /\ 1..Len(copies) \subseteq 1..MaxCopies
  BY SameCopies, LenProperties, CopyAssumption DEF CopyInv, CopyTypes
<1>1. CASE EndGuest
  <2>1. PICK v \in Versions : copies' = [copies EXCEPT ![guest] = [@ EXCEPT !.content = v]]
    BY <1>1 DEF EndGuest
  <2>2. claim' = Release(Guest) /\ guest' = 0 /\ UNCHANGED <<original, sess>> /\ guest \in 1..Len(copies)
    BY <1>0, <1>1 DEF EndGuest, GuestClaims
  <2>3. copies' \in Seq(CopyRecords) /\ Len(copies') <= MaxCopies /\ Extended(copies, copies')
    BY <1>0, <2>1, <2>2, WriteCopy
  <2>4. /\ claim' \in [1..MaxCopies -> Tasks \cup {Guest, None}]
        /\ \A c \in 1..Len(copies) : claim[c] \notin {None, Guest} => claim'[c] = claim[c]
    BY <1>0, <2>2, Released
  <2> QED BY <1>0, <2>2, <2>3, <2>4, OthersMove DEF CopyTypes, GuestClaims
<1>2. CASE EditAnything
  <2>1. UNCHANGED <<claim, guest, sess>> /\ original' \in Versions
        /\ copies' \in Seq(CopyRecords) /\ Len(copies') <= MaxCopies /\ Extended(copies, copies')
    <3>1. \/ original' \in Versions \ {original} /\ UNCHANGED copies
          \/ /\ \E c \in DOMAIN copies, v \in Versions :
                   copies' = [copies EXCEPT ![c] = [@ EXCEPT !.content = v]]
             /\ UNCHANGED original
      BY <1>2 DEF EditAnything
    <3>2. UNCHANGED <<claim, guest, sess>>
      BY <1>2 DEF EditAnything
    <3> QED BY <1>0, <3>1, <3>2, WriteCopy DEF CopyTypes
  <2>2. GuestClaims'
    BY <1>0, <2>1, LenProperties DEF GuestClaims, Extended
  <2> QED BY <1>0, <2>1, <2>2, OthersMove DEF CopyTypes
<1>3. ASSUME NEW c \in 1..MaxCopies, StartGuest(c) PROVE CopyKept
  <2>1. /\ guest' = c /\ claim[c] = None /\ claim' = [claim EXCEPT ![c] = Guest]
        /\ c \in 1..Len(copies) /\ copies[c].kind = "worktree" /\ UNCHANGED <<original, copies, sess>>
    BY <1>0, <1>3 DEF StartGuest, ClaimCopy
  <2>2. /\ claim' \in [1..MaxCopies -> Tasks \cup {Guest, None}] /\ claim'[c] = Guest
        /\ \A d \in 1..Len(copies) : claim[d] \notin {None, Guest} => claim'[d] = claim[d]
    BY <1>0, <2>1 DEF CopyTypes
  <2>3. GuestClaims'
    BY <2>1, <2>2 DEF GuestClaims
  <2> QED BY <1>0, <2>1, <2>2, <2>3, OthersMove DEF CopyTypes
<1> QED BY <1>1, <1>2, <1>3

\* What is left of a Session when the process is lost.
LEMMA LossIsSound ==
  ASSUME CopyInv, NEW s \in Tasks, NEW r \in AfterLoss(s)
  PROVE  SoundSession(copies, r) /\ r.pc = "idle"
<1> DEFINE now == sess[s]
<1>0. /\ now \in SessionRecords /\ SoundSession(copies, now)
      /\ \A c \in 1..Len(copies) : copies[c].content \in Versions
  BY SessionFacts DEF CopyRecords
<1>1. ASSUME NEW saw \in Versions \cup {None}, now.pc \in {"queued", "running", "abandoning"},
             r = [now EXCEPT !.pc = "idle", !.status = "parked", !.prior = None, !.seen = saw]
      PROVE  SoundSession(copies, r) /\ r.pc = "idle"
  <2>1. /\ r \in SessionRecords /\ r.pc = "idle" /\ r.kind = now.kind
        /\ r.copy = now.copy /\ r.status = "parked" /\ r.worktree = now.worktree
    BY <1>0, <1>1 DEF SessionRecords
  <2> QED BY <1>0, <2>1 DEF SoundSession
<1>2. CASE now.pc = "queued"
  <2>1. r = [now EXCEPT !.pc = "idle", !.status = "parked", !.prior = None]
    BY <1>2 DEF AfterLoss
  <2>2. r = [now EXCEPT !.pc = "idle", !.status = "parked", !.prior = None, !.seen = now.seen]
        /\ now.seen \in Versions \cup {None}
    BY <1>0, <2>1 DEF SessionRecords
  <2> QED BY <1>1, <1>2, <2>2
<1>3. CASE now.pc = "running"
  <2>1. PICK saw \in CrashGap(now.kind, now.copy, now.seen) :
          r = [now EXCEPT !.pc = "idle", !.status = "parked", !.prior = None, !.seen = saw]
    BY <1>3 DEF AfterLoss
  <2>2. saw \in Versions \cup {None}
    BY <1>0 DEF CrashGap, SoundSession, BoundTo, SessionRecords
  <2> QED BY <1>1, <1>3, <2>1, <2>2
<1>4. CASE now.pc = "abandoning"
  <2>0. /\ now.prior \in Bindings /\ now.prior.kind \in CopyKinds \cup {"source"} /\ now.prior.copy \in Nat
        /\ BoundTo(copies, now.prior.kind, now.prior.copy, now.worktree)
        /\ now.prior.kind = "worktree" => now.worktree = now.prior.copy
    BY <1>0, <1>4 DEF SoundSession, Bindings
  <2>1. CASE r = [now EXCEPT !.pc = "idle", !.status = "parked", !.prior = None, !.seen = None]
    BY <1>1, <1>4, <2>1
  <2>2. ASSUME NEW saw \in CrashGap(now.prior.kind, now.prior.copy, None),
               r = [now EXCEPT !.pc = "idle", !.status = "parked", !.prior = None,
                               !.kind = now.prior.kind, !.copy = now.prior.copy, !.seen = saw]
        PROVE  SoundSession(copies, r) /\ r.pc = "idle"
    <3>1. saw \in Versions \cup {None}
      BY <1>0, <2>0 DEF CrashGap, BoundTo
    <3>2. /\ r \in SessionRecords /\ r.pc = "idle" /\ r.kind = now.prior.kind
          /\ r.copy = now.prior.copy /\ r.status = "parked" /\ r.worktree = now.worktree
      BY <1>0, <2>0, <2>2, <3>1 DEF SessionRecords
    <3> QED BY <1>0, <2>0, <3>2 DEF SoundSession
  <2>3. \/ r = [now EXCEPT !.pc = "idle", !.status = "parked", !.prior = None, !.seen = None]
        \/ \E saw \in CrashGap(now.prior.kind, now.prior.copy, None) :
             r = [now EXCEPT !.pc = "idle", !.status = "parked", !.prior = None,
                             !.kind = now.prior.kind, !.copy = now.prior.copy, !.seen = saw]
    BY <1>4 DEF AfterLoss
  <2> QED BY <2>1, <2>2, <2>3
<1>5. CASE now.pc \notin {"queued", "running", "abandoning"}
  <2>1. r = [now EXCEPT !.pc = "idle", !.prior = None]
    BY <1>5 DEF AfterLoss
  <2>2. /\ r \in SessionRecords /\ r.pc = "idle" /\ r.kind = now.kind
        /\ r.copy = now.copy /\ r.status = now.status /\ r.worktree = now.worktree
    BY <1>0, <2>1 DEF SessionRecords
  <2> QED BY <1>0, <2>2 DEF SoundSession
<1> QED BY <1>2, <1>3, <1>4, <1>5

LEMMA CopyCrashKeeps ==
  ASSUME CopyInv, CopyCrash
  PROVE  CopyKept
<1>1. /\ sess' \in [Tasks -> UNION {AfterLoss(s) : s \in Tasks}] /\ \A s \in Tasks : sess'[s] \in AfterLoss(s)
      /\ claim' = [c \in DOMAIN claim |-> None] /\ guest' = 0 /\ UNCHANGED <<original, copies>>
  BY DEF CopyCrash
<1>2. \A s \in Tasks : SoundSession(copies, sess'[s]) /\ sess'[s].pc = "idle"
  BY <1>1, LossIsSound
<1>3. sess' \in [Tasks -> SessionRecords]
  BY <1>1, <1>2 DEF SoundSession
<1>4. CopyTypes' /\ GuestClaims'
  BY <1>1, <1>3 DEF CopyInv, CopyTypes, GuestClaims
<1>5. \A s \in Tasks : Claimed(claim', sess'[s], s)
  BY <1>2 DEF Claimed
<1> QED BY <1>1, <1>2, <1>4, <1>5 DEF CopyKept, CopyInv, StartsAsAdmitted

\* CopiesAreSound: once a Run is admitted to a worktree no other Run works in it before that
\* Run has ended, and a Run starts only in the content its admission recorded, in a copy
\* without an unknown outcome (host.py _reserve_copy_run, _execute_copy_run, workspace_busy).
THEOREM CopiesStaySound == CopySpec => CopiesAreSound
<1>1. CopyInit => CopyInv
  <2> SUFFICES ASSUME CopyInit PROVE CopyInv
    OBVIOUS
  <2>1. NewSession \in SessionRecords
    BY DEF NewSession, SessionRecords
  <2>2. copies = <<>> /\ Len(copies) = 0 /\ copies \in Seq(CopyRecords)
    BY DEF CopyInit
  <2>3. CopyTypes /\ GuestClaims
    BY <2>1, <2>2, CopyAssumption DEF CopyInit, CopyTypes, GuestClaims
  <2>4. SoundSession(copies, NewSession) /\ \A s \in Tasks : Claimed(claim, NewSession, s)
    BY <2>1 DEF NewSession, SoundSession, BoundTo, Claimed
  <2> QED BY <2>3, <2>4 DEF CopyInit, CopyInv
<1>2. CopyInv /\ [CopyNext]_copyVars => CopyKept
  <2> SUFFICES ASSUME CopyInv, [CopyNext]_copyVars PROVE CopyKept
    OBVIOUS
  <2>1. CASE UNCHANGED copyVars
    <3>1. CopyInv'
      BY <2>1 DEF copyVars, CopyInv, CopyTypes, GuestClaims
    <3> QED BY <2>1, <3>1 DEF copyVars, CopyKept, StartsAsAdmitted
  <2>2. CASE CopyNext
    BY <2>2, AdmitKeeps, SourceKeeps, MakeKeeps, CompareKeeps, ContinueKeeps, RecordRunKeeps, CopyStartKeeps,
       WorkInKeeps, EndKeeps, AbandonKeeps, GuestKeeps, CopyCrashKeeps DEF CopyNext
  <2> QED BY <2>1, <2>2
<1>3. CopyInv => CopyIsExclusive
  <2> SUFFICES ASSUME CopyInv, NEW s \in Tasks, sess[s].pc \in {"queued", "running"},
                      sess[s].kind = "worktree"
               PROVE  /\ guest # sess[s].copy
                      /\ \A t \in Tasks \ {s} :
                           sess[t].pc \in {"queued", "running"} => sess[t].copy # sess[s].copy
    BY DEF CopyIsExclusive
  <2>1. claim[sess[s].copy] = s /\ s # Guest /\ sess[s].copy \in 1..Len(copies)
        /\ copies[sess[s].copy].kind = "worktree"
    BY CopyAssumption, SessionFacts DEF Claimed, SoundSession, BoundTo
  <2>2. guest # sess[s].copy
    <3>1. sess[s].copy # 0
      BY <2>1, SessionFacts
    <3> QED BY <2>1, <3>1 DEF CopyInv, GuestClaims
  <2>3. ASSUME NEW t \in Tasks \ {s}, sess[t].pc \in {"queued", "running"} PROVE sess[t].copy # sess[s].copy
    <3>1. copies[sess[t].copy].kind = "worktree" => claim[sess[t].copy] = t
      BY <2>3, SessionFacts DEF Claimed, SoundSession, BoundTo
    <3> QED BY <2>1, <3>1
  <2> QED BY <2>2, <2>3
<1> QED BY <1>1, <1>2, <1>3, PTL
        DEF CopySpec, CopiesAreSound, CopyStartsAsAdmitted, CopyKept, StartsAsAdmitted

(***************************************************************************)
(* Preferences.                                                            *)
(***************************************************************************)
PreferenceSpec == PreferenceInit /\ [][PreferenceNext]_preferenceVars

Revisions == [content : Contents, status : {"active", "paused", "revoked"}, source : SUBSET Nat]
MemoryRecords == {m \in [scope : Scopes, revisions : Seq(Revisions)] : Len(m.revisions) >= 1}
SuggestionRecords ==
  [scope : Scopes, content : Contents, status : {"pending", "accepted", "dismissed"}, source : SUBSET Nat]
References == [id : Nat, revision : Nat]
ChatRecords ==
  [nth : Nat, pc : {"ready", "observed", "begun"}, snapshot : SUBSET References,
   allowed : SUBSET References, sent : SUBSET References]

PreferenceTypes ==
  /\ memories \in Seq(MemoryRecords) /\ suggestions \in Seq(SuggestionRecords)
  /\ observed \in Seq([event : Nat, fingerprint : [scope : Scopes, content : Contents]])
  /\ chat \in ChatRecords

\* Every source is a message the Session has heard, and a suggestion has two.
HeardBefore ==
  /\ \A n \in 1..Len(observed) : observed[n].event \in 1..chat.nth
  /\ \A i \in 1..Len(memories) : \A n \in 1..Len(memories[i].revisions) :
       memories[i].revisions[n].source \subseteq 1..chat.nth
  /\ \A i \in 1..Len(suggestions) : /\ suggestions[i].source \subseteq 1..chat.nth
                                    /\ \A e : suggestions[i].source # {e}

\* What a suggestion was made of, no other suggestion and no told preference has.
OwnSources ==
  \A j \in 1..Len(suggestions) :
    /\ \A i \in 1..Len(suggestions) :
         i # j => suggestions[i].source \cap suggestions[j].source = {}
    /\ \A i \in 1..Len(memories), e \in suggestions[j].source :
         memories[i].revisions[1].source # {e}

OneLive ==
  \A i, j \in 1..Len(memories) : i # j /\ memories[i].scope = memories[j].scope =>
    ~ Live(memories[i]) \/ ~ Live(memories[j])

\* What a request may carry, while it is being sent, is of what the Run selected.
SoundChat(c) == c.allowed \subseteq c.snapshot /\ (c.pc # "begun" => c.allowed = {})

PreferenceInv ==
  PreferenceTypes /\ HeardBefore /\ OwnSources /\ OneLive /\ SoundChat(chat)

\* What the Run has selected are revisions there are, and what was withdrawn since is no longer
\* usable: a later revision that is active does not undo the one that was not.
SelectionSound ==
  /\ \A ref \in chat.snapshot :
       /\ ref.id \in 1..Len(memories) /\ ref.revision \in 1..Len(memories[ref.id].revisions)
       /\ ref.id \in withdrawn => ~ Usable(ref)
  /\ chat.pc = "observed" => chat.snapshot = {} /\ withdrawn = {}

\* What a request carries when it is sent: OnlyStandingIsSent of one step.
SentStanding ==
  chat.pc = "begun" /\ chat'.pc = "ready" =>
    /\ chat'.sent # {} => enabled /\ chat'.sent \subseteq chat.snapshot
    /\ \A ref \in chat'.sent : ref.id \notin withdrawn

PreferenceKept == PreferenceInv' /\ SelectionSound' /\ SentStanding

LEMMA PreferenceShape ==
  ASSUME PreferenceTypes
  PROVE  /\ DOMAIN memories = 1..Len(memories) /\ Len(memories) \in Nat
         /\ DOMAIN suggestions = 1..Len(suggestions) /\ Len(suggestions) \in Nat
         /\ DOMAIN observed = 1..Len(observed) /\ Len(observed) \in Nat
         /\ \A i \in 1..Len(memories) : /\ memories[i] \in MemoryRecords /\ Len(memories[i].revisions) \in Nat
                                        /\ memories[i].revisions \in Seq(Revisions)
                                        /\ 1 \in 1..Len(memories[i].revisions)
                                        /\ DOMAIN memories[i].revisions = 1..Len(memories[i].revisions)
         /\ \A i \in 1..Len(suggestions) : suggestions[i] \in SuggestionRecords
<1>1. \A i \in 1..Len(memories) : /\ memories[i] \in MemoryRecords
                                  /\ memories[i].revisions \in Seq(Revisions) /\ Len(memories[i].revisions) >= 1
  BY LenProperties DEF PreferenceTypes, MemoryRecords
<1> QED BY <1>1, LenProperties DEF PreferenceTypes

\* What the user reads is what the induction keeps.
LEMMA OwnSourcesSuffice == ASSUME PreferenceInv PROVE SourcesAreUsedOnce
<1> DEFINE ever(i) == memories[i].revisions[1].source
<1>1. ASSUME NEW i \in DOMAIN memories, Cardinality(ever(i)) = 1 PROVE \E e : ever(i) = {e}
  <2>1. IsFiniteSet(ever(i))
    <3>1. ever(i) \subseteq 1..chat.nth
      BY PreferenceShape DEF PreferenceInv, HeardBefore
    <3>2. IsFiniteSet(1..chat.nth)
      BY FS_Interval DEF PreferenceInv, PreferenceTypes, ChatRecords
    <3> QED BY <3>1, <3>2, FS_Subset
  <2> HIDE DEF ever
  <2> QED BY <1>1, <2>1, FS_Singleton
<1>2. ASSUME NEW i \in DOMAIN memories, Cardinality(ever(i)) = 1, NEW j \in DOMAIN suggestions
      PROVE  ever(i) \cap suggestions[j].source = {}
  <2>1. PICK e : ever(i) = {e}
    BY <1>1, <1>2
  <2> QED BY <2>1, PreferenceShape DEF PreferenceInv, OwnSources
<1>3. \A i, j \in DOMAIN suggestions : i # j => suggestions[i].source \cap suggestions[j].source = {}
  BY PreferenceShape DEF PreferenceInv, OwnSources
<1>4. \A i, j \in DOMAIN memories : i # j /\ memories[i].scope = memories[j].scope =>
       ~ Live(memories[i]) \/ ~ Live(memories[j])
  BY PreferenceShape DEF PreferenceInv, OneLive
<1> QED BY <1>2, <1>3, <1>4 DEF SourcesAreUsedOnce

\* A preference is added to a topic that has none: of no message, of a new one, or of a suggestion.
LEMMA MemoryAdded ==
  ASSUME PreferenceInv, NEW scope \in Scopes, NEW content \in Contents, NEW src, ~ Conflict(scope),
         memories' = Append(memories, Memory(scope, content, src)), src \subseteq 1..chat'.nth,
         chat' \in ChatRecords, chat'.nth >= chat.nth,
         \A n \in 1..Len(observed') : observed'[n].event \in 1..chat'.nth,
         observed' \in Seq([event : Nat, fingerprint : [scope : Scopes, content : Contents]]),
         suggestions' \in Seq(SuggestionRecords), Len(suggestions') = Len(suggestions),
         \A i \in 1..Len(suggestions) : suggestions'[i].source = suggestions[i].source,
         \A j \in 1..Len(suggestions) : \A e \in suggestions[j].source : src # {e},
         SoundChat(chat')
  PROVE  PreferenceInv'
<1> DEFINE m == Memory(scope, content, src)
<1>0. chat.nth \in Nat /\ chat'.nth \in Nat /\ 1..chat.nth \subseteq 1..chat'.nth
  BY DEF PreferenceInv, PreferenceTypes, ChatRecords
<1>1. /\ m \in MemoryRecords /\ m.scope = scope /\ Len(m.revisions) = 1
      /\ m.revisions[1].source = src
  <2>1. Revision(content, "active", src) \in Revisions
    BY <1>0 DEF Revision, Revisions
  <2>2. /\ <<Revision(content, "active", src)>> \in Seq(Revisions)
        /\ Len(<<Revision(content, "active", src)>>) = 1
    BY <2>1
  <2>3. m = [scope |-> scope, revisions |-> <<Revision(content, "active", src)>>]
    BY DEF Memory
  <2>4. m.revisions[1].source = src
    BY <2>3 DEF Revision
  <2>5. m.scope = scope /\ m.revisions = <<Revision(content, "active", src)>>
        /\ m \in [scope : Scopes, revisions : Seq(Revisions)]
    BY <2>2, <2>3
  <2> HIDE DEF m
  <2>6. Len(m.revisions) = 1
    BY <2>2, <2>5
  <2>7. m \in MemoryRecords
    <3>1. Len(m.revisions) >= 1
      BY <2>6
    <3> QED BY <2>5, <3>1, Zenon DEF MemoryRecords
  <2> QED BY <2>4, <2>5, <2>6, <2>7
<1> HIDE DEF m
<1>2. /\ memories' \in Seq(MemoryRecords) /\ Len(memories') = Len(memories) + 1 /\ Len(memories) \in Nat
      /\ memories'[Len(memories) + 1] = m
      /\ \A i \in 1..Len(memories) : memories'[i] = memories[i]
  BY <1>1, AppendProperties, LenProperties DEF PreferenceInv, PreferenceTypes, m
<1>3. \A i \in 1..Len(memories') : i = Len(memories) + 1 \/ i \in 1..Len(memories)
  BY <1>2
<1>4. HeardBefore'
  <2>1. ASSUME NEW i \in 1..Len(memories'), NEW n \in 1..Len(memories'[i].revisions)
        PROVE  memories'[i].revisions[n].source \subseteq 1..chat'.nth
    <3>1. CASE i \in 1..Len(memories)
      BY <1>0, <1>2, <2>1, <3>1 DEF PreferenceInv, HeardBefore
    <3>2. CASE i = Len(memories) + 1
      <4>1. memories'[i] = m
        BY <1>2, <3>2
      <4>2. n \in 1..Len(m.revisions)
        BY <4>1
      <4>3. n = 1
        BY <1>1, <4>2
      <4> QED BY <1>1, <4>1, <4>3
    <3> QED BY <1>3, <3>1, <3>2
  <2>2. \A i \in 1..Len(suggestions') : /\ suggestions'[i].source \subseteq 1..chat'.nth
                                        /\ \A e : suggestions'[i].source # {e}
    BY <1>0 DEF PreferenceInv, HeardBefore
  <2> QED BY <2>1, <2>2 DEF HeardBefore
<1>5. OwnSources'
  <2>1. ASSUME NEW j \in 1..Len(suggestions'), NEW i \in 1..Len(memories'), NEW e \in suggestions'[j].source
        PROVE  memories'[i].revisions[1].source # {e}
    <3>1. j \in 1..Len(suggestions) /\ e \in suggestions[j].source
      BY <2>1
    <3>2. CASE i \in 1..Len(memories)
      <4>1. memories'[i] = memories[i]
        BY <1>2, <3>2
      <4>2. memories[i].revisions[1].source # {e}
        BY <3>1, <3>2 DEF PreferenceInv, OwnSources
      <4> QED BY <4>1, <4>2
    <3>3. CASE i = Len(memories) + 1
      <4>1. memories'[i] = m /\ src # {e}
        BY <1>2, <3>1, <3>3
      <4> QED BY <1>1, <4>1
    <3> QED BY <1>3, <3>2, <3>3
  <2>2. \A i, j \in 1..Len(suggestions') :
          i # j => suggestions'[i].source \cap suggestions'[j].source = {}
    BY DEF PreferenceInv, OwnSources
  <2> QED BY <2>1, <2>2 DEF OwnSources
<1>6. OneLive'
  <2>1. \A i \in 1..Len(memories) : memories[i].scope = scope => ~ Live(memories[i])
    BY PreferenceShape DEF Conflict, PreferenceInv
  <2>2. ASSUME NEW i \in 1..Len(memories'), NEW j \in 1..Len(memories'), i # j,
               memories'[i].scope = memories'[j].scope
        PROVE  ~ Live(memories'[i]) \/ ~ Live(memories'[j])
    BY <1>1, <1>2, <1>3, <2>1, <2>2 DEF PreferenceInv, OneLive
  <2> QED BY <2>2 DEF OneLive, Live, Latest
<1> QED BY <1>2, <1>4, <1>5, <1>6 DEF PreferenceInv, PreferenceTypes

\* Nothing that was said changes.
LEMMA NothingSaid ==
  ASSUME PreferenceInv, UNCHANGED <<memories, observed>>, chat' \in ChatRecords, chat'.nth >= chat.nth,
         suggestions' \in Seq(SuggestionRecords), Len(suggestions') = Len(suggestions),
         \A i \in 1..Len(suggestions) : suggestions'[i].source = suggestions[i].source,
         SoundChat(chat')
  PROVE  PreferenceInv'
<1>0. chat.nth \in Nat /\ chat'.nth \in Nat /\ 1..chat.nth \subseteq 1..chat'.nth
  BY DEF PreferenceInv, PreferenceTypes, ChatRecords
<1>1. HeardBefore'
  <2>1. /\ \A n \in 1..Len(observed) : observed[n].event \in 1..chat'.nth
        /\ \A i \in 1..Len(memories) : \A n \in 1..Len(memories[i].revisions) :
             memories[i].revisions[n].source \subseteq 1..chat'.nth
    BY <1>0 DEF PreferenceInv, HeardBefore
  <2>2. \A i \in 1..Len(suggestions') : /\ suggestions'[i].source \subseteq 1..chat'.nth
                                        /\ \A e : suggestions'[i].source # {e}
    BY <1>0 DEF PreferenceInv, HeardBefore
  <2> QED BY <2>1, <2>2 DEF HeardBefore
<1>2. OwnSources' /\ OneLive'
  BY DEF PreferenceInv, OwnSources, OneLive, Live, Latest
<1> QED BY <1>1, <1>2 DEF PreferenceInv, PreferenceTypes

LEMMA CreateMemoryKeeps ==
  ASSUME PreferenceInv, NEW scope \in Scopes, NEW content \in Contents, CreateMemory(scope, content)
  PROVE  PreferenceInv'
<1>1. /\ ~ Conflict(scope) /\ memories' = Append(memories, Memory(scope, content, {}))
      /\ UNCHANGED <<suggestions, observed, chat>>
  BY DEF CreateMemory
<1>2. /\ chat' \in ChatRecords /\ chat.nth \in Nat /\ suggestions' \in Seq(SuggestionRecords)
      /\ observed' \in Seq([event : Nat, fingerprint : [scope : Scopes, content : Contents]])
      /\ \A n \in 1..Len(observed') : observed'[n].event \in 1..chat'.nth
      /\ SoundChat(chat')
  BY <1>1 DEF PreferenceInv, PreferenceTypes, HeardBefore, ChatRecords
<1>3. \A j \in 1..Len(suggestions) : \A e \in suggestions[j].source : {} # {e}
  OBVIOUS
<1>4. /\ chat'.nth >= chat.nth /\ {} \subseteq 1..chat'.nth /\ Len(suggestions') = Len(suggestions)
      /\ \A i \in 1..Len(suggestions) : suggestions'[i].source = suggestions[i].source
  BY <1>1, <1>2
<1> QED BY <1>1, <1>2, <1>3, <1>4, MemoryAdded

\* What is edited keeps its first source, and what is revoked is not revived.
LEMMA UpdateMemoryKeeps ==
  ASSUME PreferenceInv, NEW i \in DOMAIN memories, UpdateMemory(i)
  PROVE  PreferenceInv'
<1> DEFINE m == memories[i]
           old == Latest(m)
<1>1. /\ i \in 1..Len(memories) /\ m \in MemoryRecords /\ m.revisions \in Seq(Revisions)
      /\ Len(m.revisions) \in Nat /\ 1 \in 1..Len(m.revisions) /\ Live(m) /\ m.scope \in Scopes
      /\ UNCHANGED <<suggestions, observed, chat>> /\ memories \in Seq(MemoryRecords)
  BY PreferenceShape DEF UpdateMemory, PreferenceInv, PreferenceTypes, MemoryRecords
<1>2. old \in Revisions /\ old = m.revisions[Len(m.revisions)]
  BY <1>1 DEF Latest
<1>3. PICK rev : /\ rev \in Revisions /\ rev.source \in {old.source, {}}
                 /\ memories' = [memories EXCEPT ![i].revisions = Append(@, rev)]
  <2>1. PICK edit \in Contents \cup {None}, status \in {"active", "paused", "revoked"} :
          memories' = [memories EXCEPT ![i].revisions = Append(@,
            IF edit = None THEN Revision(old.content, status, old.source)
                           ELSE Revision(edit, status, {}))]
    BY DEF UpdateMemory
  <2> DEFINE rev == IF edit = None THEN Revision(old.content, status, old.source)
                                   ELSE Revision(edit, status, {})
  <2>2. rev \in Revisions /\ rev.source \in {old.source, {}}
    <3>1. old.content \in Contents /\ old.source \in SUBSET Nat
      BY <1>2 DEF Revisions
    <3>2. Revision(old.content, status, old.source) \in Revisions
          /\ Revision(old.content, status, old.source).source = old.source
      BY <3>1 DEF Revision, Revisions
    <3>3. edit # None => Revision(edit, status, {}) \in Revisions /\ Revision(edit, status, {}).source = {}
      BY DEF Revision, Revisions
    <3>4. CASE edit = None
      <4>1. rev = Revision(old.content, status, old.source)
        BY <3>4
      <4> QED BY <3>2, <4>1
    <3>5. CASE edit # None
      <4>1. rev = Revision(edit, status, {})
        BY <3>5
      <4> QED BY <3>3, <3>5, <4>1
    <3> QED BY <3>4, <3>5
  <2>3. memories' = [memories EXCEPT ![i].revisions = Append(@, rev)]
    BY <2>1
  <2> HIDE DEF rev
  <2> QED BY <2>2, <2>3
<1> DEFINE rs == Append(m.revisions, rev)
           e == [m EXCEPT !.revisions = rs]
<1>4. /\ rs \in Seq(Revisions) /\ Len(rs) = Len(m.revisions) + 1 /\ rs[Len(m.revisions) + 1] = rev
      /\ \A n \in 1..Len(m.revisions) : rs[n] = m.revisions[n]
  BY <1>1, <1>3, AppendProperties
<1>5. memories' = [memories EXCEPT ![i] = e]
  BY <1>3
<1> HIDE DEF rs
<1>6. e \in MemoryRecords /\ e.scope = m.scope /\ e.revisions = rs
  <2>1. /\ e \in [scope : Scopes, revisions : Seq(Revisions)] /\ e.scope = m.scope /\ e.revisions = rs
    BY <1>1, <1>4 DEF MemoryRecords
  <2> HIDE DEF e
  <2>2. Len(e.revisions) >= 1
    BY <1>1, <1>4, <2>1
  <2>3. e \in MemoryRecords
    BY <2>1, <2>2, Zenon DEF MemoryRecords
  <2> QED BY <2>1, <2>3
<1> HIDE DEF e
<1>7. /\ memories' \in Seq(MemoryRecords) /\ Len(memories') = Len(memories) /\ memories'[i] = e
      /\ \A j \in 1..Len(memories) : j # i => memories'[j] = memories[j]
  BY <1>1, <1>5, <1>6, ExceptSeq
<1>8. HeardBefore'
  <2>1. ASSUME NEW j \in 1..Len(memories'), NEW n \in 1..Len(memories'[j].revisions)
        PROVE  memories'[j].revisions[n].source \subseteq 1..chat'.nth
    <3>1. CASE j # i
      <4>1. memories'[j] = memories[j] /\ j \in 1..Len(memories) /\ n \in 1..Len(memories[j].revisions)
        BY <1>7, <2>1, <3>1
      <4> QED BY <1>1, <4>1 DEF PreferenceInv, HeardBefore
    <3>2. CASE j = i
      <4>1. n \in 1..Len(rs) /\ memories'[j].revisions = rs
        BY <1>6, <1>7, <2>1, <3>2
      <4>2. \A k \in 1..Len(m.revisions) : m.revisions[k].source \subseteq 1..chat.nth
        BY <1>1 DEF PreferenceInv, HeardBefore
      <4>3. old.source \subseteq 1..chat.nth
        BY <1>1, <1>2, <4>2
      <4>4. CASE n = Len(m.revisions) + 1
        <5>1. rev.source \subseteq 1..chat.nth
          BY <1>3, <4>3
        <5> QED BY <1>1, <1>4, <4>1, <4>4, <5>1
      <4>5. CASE n # Len(m.revisions) + 1
        <5>1. n \in 1..Len(m.revisions)
          BY <1>1, <1>4, <4>1, <4>5
        <5> QED BY <1>1, <1>4, <4>1, <4>2, <5>1
      <4> QED BY <4>4, <4>5
    <3> QED BY <3>1, <3>2
  <2>2. /\ \A n \in 1..Len(observed') : observed'[n].event \in 1..chat'.nth
        /\ \A j \in 1..Len(suggestions') : /\ suggestions'[j].source \subseteq 1..chat'.nth
                                           /\ \A x : suggestions'[j].source # {x}
    BY <1>1 DEF PreferenceInv, HeardBefore
  <2> QED BY <2>1, <2>2 DEF HeardBefore
<1>9. OwnSources'
  <2>1. \A j \in 1..Len(memories) : memories'[j].revisions[1].source = memories[j].revisions[1].source
    BY <1>1, <1>4, <1>6, <1>7
  <2>2. ASSUME NEW j \in 1..Len(suggestions'), NEW k \in 1..Len(memories'), NEW x \in suggestions'[j].source
        PROVE  memories'[k].revisions[1].source # {x}
    <3>1. memories[k].revisions[1].source # {x}
      BY <1>1, <1>7, <2>2 DEF PreferenceInv, OwnSources
    <3> QED BY <1>7, <2>1, <3>1
  <2>3. \A k, j \in 1..Len(suggestions') :
          k # j => suggestions'[k].source \cap suggestions'[j].source = {}
    BY <1>1 DEF PreferenceInv, OwnSources
  <2> QED BY <2>2, <2>3 DEF OwnSources
<1>10. OneLive'
  <2>1. ASSUME NEW j \in 1..Len(memories'), NEW k \in 1..Len(memories'), j # k,
               memories'[j].scope = memories'[k].scope
        PROVE  ~ Live(memories'[j]) \/ ~ Live(memories'[k])
    <3>1. memories[j].scope = memories[k].scope /\ j \in 1..Len(memories) /\ k \in 1..Len(memories)
      BY <1>6, <1>7, <2>1
    <3>2. ~ Live(memories[j]) \/ ~ Live(memories[k])
      BY <2>1, <3>1 DEF PreferenceInv, OneLive
    <3> QED BY <1>1, <1>7, <2>1, <3>1, <3>2
  <2> QED BY <2>1 DEF OneLive, Live, Latest
<1> QED BY <1>1, <1>7, <1>8, <1>9, <1>10 DEF PreferenceInv, PreferenceTypes

\* Accepting a suggestion makes a preference of two messages.
LEMMA ResolveKeeps ==
  ASSUME PreferenceInv, NEW i \in DOMAIN suggestions, ResolveSuggestion(i)
  PROVE  PreferenceInv'
<1> DEFINE s == suggestions[i]
<1>1. /\ i \in 1..Len(suggestions) /\ s \in SuggestionRecords /\ UNCHANGED <<observed, chat>>
      /\ suggestions \in Seq(SuggestionRecords) /\ chat' \in ChatRecords /\ chat.nth \in Nat
      /\ observed' \in Seq([event : Nat, fingerprint : [scope : Scopes, content : Contents]])
      /\ \A n \in 1..Len(observed') : observed'[n].event \in 1..chat'.nth
      /\ SoundChat(chat')
      /\ s.source \subseteq 1..chat'.nth /\ \A e : s.source # {e}
  BY PreferenceShape DEF ResolveSuggestion, PreferenceInv, PreferenceTypes, HeardBefore, ChatRecords
<1>2. ASSUME NEW status \in {"accepted", "dismissed"},
             suggestions' = [suggestions EXCEPT ![i].status = status]
      PROVE  /\ suggestions' \in Seq(SuggestionRecords) /\ Len(suggestions') = Len(suggestions)
             /\ \A j \in 1..Len(suggestions) : suggestions'[j].source = suggestions[j].source
  <2> DEFINE e == [s EXCEPT !.status = status]
  <2>1. e \in SuggestionRecords /\ e.source = s.source
    BY <1>1 DEF SuggestionRecords
  <2>2. suggestions' = [suggestions EXCEPT ![i] = e]
    BY <1>2
  <2> HIDE DEF e
  <2> QED BY <1>1, <2>1, <2>2, ExceptSeq
<1>3. CASE /\ ~ Conflict(s.scope) /\ memories' = Append(memories, Memory(s.scope, s.content, s.source))
           /\ suggestions' = [suggestions EXCEPT ![i].status = "accepted"]
  <2>1. s.scope \in Scopes /\ s.content \in Contents
    BY <1>1 DEF SuggestionRecords
  <2>2. \A j \in 1..Len(suggestions) : \A e \in suggestions[j].source : s.source # {e}
    BY <1>1
  <2>3. /\ suggestions' \in Seq(SuggestionRecords) /\ Len(suggestions') = Len(suggestions)
        /\ \A j \in 1..Len(suggestions) : suggestions'[j].source = suggestions[j].source
    BY <1>2, <1>3
  <2>4. chat'.nth >= chat.nth
    BY <1>1
  <2> HIDE DEF s
  <2> QED BY <1>1, <1>3, <2>1, <2>2, <2>3, <2>4, MemoryAdded
<1>4. CASE suggestions' = [suggestions EXCEPT ![i].status = "dismissed"] /\ UNCHANGED memories
  BY <1>1, <1>2, <1>4, NothingSaid
<1> QED BY <1>3, <1>4 DEF ResolveSuggestion

\* What a revision or a suggestion was bound to was used.
LEMMA EverUsed ==
  /\ \A i \in DOMAIN memories : \A n \in DOMAIN memories[i].revisions :
       memories[i].revisions[n].source \subseteq SourcesEverUsed
  /\ \A i \in DOMAIN suggestions : suggestions[i].source \subseteq SourcesEverUsed
<1>1. ASSUME NEW i \in DOMAIN memories, NEW n \in DOMAIN memories[i].revisions
      PROVE  memories[i].revisions[n].source \subseteq SourcesEverUsed
  <2> DEFINE R(k) == {memories[k].revisions[m].source : m \in DOMAIN memories[k].revisions}
  <2>1. memories[i].revisions[n].source \in R(i)
    OBVIOUS
  <2>2. R(i) \in {R(k) : k \in DOMAIN memories}
    OBVIOUS
  <2>3. memories[i].revisions[n].source \in UNION {R(k) : k \in DOMAIN memories}
    BY <2>1, <2>2
  <2> QED BY <2>3 DEF SourcesEverUsed
<1>2. ASSUME NEW i \in DOMAIN suggestions
      PROVE  suggestions[i].source \subseteq SourcesEverUsed
  <2>1. suggestions[i].source \in {suggestions[k].source : k \in DOMAIN suggestions}
    OBVIOUS
  <2> QED BY <2>1 DEF SourcesEverUsed
<1> QED BY <1>1, <1>2

\* A Run that hears a message: a preference of its own, a suggestion of two, or nothing.
LEMMA ObserveKeeps ==
  ASSUME PreferenceInv, ObserveRun
  PROVE  PreferenceInv'
<1> DEFINE r == chat.nth + 1
<1>1. /\ chat \in ChatRecords /\ chat.nth \in Nat /\ r \in Nat /\ chat.pc = "ready"
      /\ chat' = [NoChat EXCEPT !.nth = chat.nth + 1, !.pc = "observed"]
  BY DEF ObserveRun, PreferenceInv, PreferenceTypes, ChatRecords
<1>2. /\ chat' \in ChatRecords /\ chat'.nth = r /\ SoundChat(chat') /\ chat'.nth >= chat.nth
      /\ r \in 1..r /\ r \notin 1..chat.nth
  <2>1. chat' = [nth |-> r, pc |-> "observed", snapshot |-> {}, allowed |-> {}, sent |-> {}]
    BY <1>1 DEF NoChat
  <2>2. r \in Nat
    BY <1>1
  <2> HIDE DEF r
  <2>3. chat' \in ChatRecords
    BY <2>1, <2>2 DEF ChatRecords
  <2>4. chat'.nth = r /\ chat'.allowed = {}
    BY <2>1
  <2>5. SoundChat(chat')
    BY <2>4 DEF SoundChat
  <2> QED BY <1>1, <2>3, <2>4, <2>5 DEF r
<1> HIDE DEF r
<1>3. CASE UNCHANGED <<memories, suggestions, observed>>
  BY <1>2, <1>3, NothingSaid DEF PreferenceInv, PreferenceTypes
<1>4. ASSUME NEW message \in Understood, Observe(r, message) PROVE PreferenceInv'
  <2> DEFINE o == [event |-> r, fingerprint |-> [scope |-> message.scope, content |-> message.content]]
  <2>1. message.scope \in Scopes /\ message.content \in Contents
    BY <1>4 DEF Understood, Messages
  <2>2. /\ observed' \in Seq([event : Nat, fingerprint : [scope : Scopes, content : Contents]])
        /\ \A n \in 1..Len(observed') : observed'[n].event \in 1..chat'.nth
    <3>1. observed' = Append(observed, o) /\ observed \in Seq([event : Nat, fingerprint : [scope : Scopes, content : Contents]])
          /\ Len(observed) \in Nat
      BY <1>4, LenProperties DEF Observe, PreferenceInv, PreferenceTypes
    <3>2. o \in [event : Nat, fingerprint : [scope : Scopes, content : Contents]] /\ o.event = r
      BY <1>1, <2>1
    <3> HIDE DEF o
    <3>3. /\ observed' \in Seq([event : Nat, fingerprint : [scope : Scopes, content : Contents]])
          /\ Len(observed') = Len(observed) + 1 /\ observed'[Len(observed) + 1] = o
          /\ \A n \in 1..Len(observed) : observed'[n] = observed[n]
      BY <3>1, <3>2, AppendProperties
    <3>4. \A n \in 1..Len(observed) : observed[n].event \in 1..chat.nth
      BY DEF PreferenceInv, HeardBefore
    <3>5. 1..chat.nth \subseteq 1..r
      BY <1>1 DEF r
    <3> QED BY <1>2, <3>1, <3>2, <3>3, <3>4, <3>5
  <2>3. \A i \in 1..Len(memories) : memories[i].revisions[1].source \subseteq 1..chat.nth
    BY PreferenceShape DEF PreferenceInv, HeardBefore
  <2>4. \A j \in 1..Len(suggestions) : suggestions[j].source \subseteq 1..chat.nth
    BY DEF PreferenceInv, HeardBefore
  <2>5. /\ PreferenceTypes /\ 1..chat.nth \subseteq 1..chat'.nth
        /\ suggestions \in Seq(SuggestionRecords) /\ Len(suggestions) \in Nat
    BY <1>1, <1>2, PreferenceShape DEF PreferenceInv, PreferenceTypes, r
  <2>6. CASE UNCHANGED <<memories, suggestions>>
    <3>1. HeardBefore'
      <4>1. /\ \A i \in 1..Len(memories) : \A n \in 1..Len(memories[i].revisions) :
                 memories[i].revisions[n].source \subseteq 1..chat'.nth
            /\ \A i \in 1..Len(suggestions) : /\ suggestions[i].source \subseteq 1..chat'.nth
                                              /\ \A e : suggestions[i].source # {e}
        BY <2>5 DEF PreferenceInv, HeardBefore
      <4> QED BY <2>2, <2>6, <4>1 DEF HeardBefore
    <3>2. OwnSources' /\ OneLive'
      BY <2>6 DEF PreferenceInv, OwnSources, OneLive, Live, Latest
    <3> QED BY <1>2, <2>2, <2>5, <2>6, <3>1, <3>2 DEF PreferenceInv, PreferenceTypes
  <2>7. CASE /\ ~ Conflict(message.scope)
             /\ memories' = Append(memories, Memory(message.scope, message.content, {r}))
             /\ UNCHANGED suggestions
    <3>1. \A j \in 1..Len(suggestions) : \A e \in suggestions[j].source : {r} # {e}
      BY <1>2, <2>4
    <3>2. /\ {r} \subseteq 1..chat'.nth /\ suggestions' \in Seq(SuggestionRecords)
          /\ Len(suggestions') = Len(suggestions) /\ SoundChat(chat')
          /\ \A i \in 1..Len(suggestions) : suggestions'[i].source = suggestions[i].source
      BY <1>2, <2>5, <2>7
    <3> QED BY <1>2, <2>1, <2>2, <2>7, <3>1, <3>2, MemoryAdded
  <2>8. ASSUME NEW last \in Eligible(message), UNCHANGED memories,
               suggestions' = Append(suggestions, [scope |-> message.scope, content |-> message.content,
                                                   status |-> "pending", source |-> {last, r}])
        PROVE  PreferenceInv'
    <3> DEFINE s == [scope |-> message.scope, content |-> message.content,
                     status |-> "pending", source |-> {last, r}]
    <3>1. last \in 1..chat.nth
      <4>1. \E n \in DOMAIN observed : last = observed[n].event
        BY <2>8 DEF Eligible
      <4> QED BY <2>5, <4>1, PreferenceShape DEF PreferenceInv, HeardBefore
    <3>2. last \notin SourcesEverUsed
      BY <2>8 DEF Eligible
    <3>3. \A i \in 1..Len(memories) : last \notin memories[i].revisions[1].source
      <4>1. ASSUME NEW i \in 1..Len(memories) PROVE last \notin memories[i].revisions[1].source
        <5>1. i \in DOMAIN memories /\ 1 \in DOMAIN memories[i].revisions
          BY <2>5, PreferenceShape
        <5> QED BY <3>2, <5>1, EverUsed
      <4> QED BY <4>1
    <3>4. \A j \in 1..Len(suggestions) : last \notin suggestions[j].source
      <4>1. ASSUME NEW j \in 1..Len(suggestions) PROVE last \notin suggestions[j].source
        <5>1. j \in DOMAIN suggestions
          BY <2>5, PreferenceShape
        <5> QED BY <3>2, <5>1, EverUsed
      <4> QED BY <4>1
    <3>5. s \in SuggestionRecords /\ s.source = {last, r} /\ last # r /\ {last, r} \subseteq 1..chat'.nth
      BY <1>1, <1>2, <2>1, <2>5, <3>1 DEF SuggestionRecords
    <3> HIDE DEF s
    <3>6. /\ suggestions' \in Seq(SuggestionRecords) /\ Len(suggestions') = Len(suggestions) + 1
          /\ suggestions'[Len(suggestions) + 1] = s
          /\ \A j \in 1..Len(suggestions) : suggestions'[j] = suggestions[j]
      BY <2>5, <2>8, <3>5, AppendProperties DEF s
    <3>7. \A j \in 1..Len(suggestions') : j = Len(suggestions) + 1 \/ j \in 1..Len(suggestions)
      BY <2>5, <3>6
    <3>8. HeardBefore'
      <4>1. ASSUME NEW j \in 1..Len(suggestions')
            PROVE  suggestions'[j].source \subseteq 1..chat'.nth /\ \A e : suggestions'[j].source # {e}
        <5>1. CASE j \in 1..Len(suggestions)
          <6>1. suggestions'[j] = suggestions[j]
            BY <3>6, <5>1
          <6>2. suggestions[j].source \subseteq 1..chat.nth /\ \A e : suggestions[j].source # {e}
            BY <5>1 DEF PreferenceInv, HeardBefore
          <6> QED BY <2>5, <6>1, <6>2
        <5>2. CASE j = Len(suggestions) + 1
          <6>1. suggestions'[j].source = {last, r}
            BY <3>5, <3>6, <5>2
          <6>2. \A e : {last, r} # {e}
            BY <3>5
          <6> QED BY <3>5, <6>1, <6>2
        <5> QED BY <3>7, <5>1, <5>2
      <4>2. \A i \in 1..Len(memories) : \A n \in 1..Len(memories[i].revisions) :
              memories[i].revisions[n].source \subseteq 1..chat'.nth
        BY <2>5 DEF PreferenceInv, HeardBefore
      <4> QED BY <2>2, <2>8, <4>1, <4>2 DEF HeardBefore
    <3>9. OwnSources'
      <4>1. ASSUME NEW j \in 1..Len(suggestions'), NEW i \in 1..Len(suggestions'), i # j
            PROVE  suggestions'[i].source \cap suggestions'[j].source = {}
        <5>1. \A k \in 1..Len(suggestions) : suggestions[k].source \cap {last, r} = {}
          BY <1>2, <2>4, <3>4
        <5>2. CASE i \in 1..Len(suggestions) /\ j \in 1..Len(suggestions)
          BY <3>6, <4>1, <5>2 DEF PreferenceInv, OwnSources
        <5>3. CASE i = Len(suggestions) + 1 /\ j \in 1..Len(suggestions)
          BY <3>5, <3>6, <5>1, <5>3
        <5>4. CASE i \in 1..Len(suggestions) /\ j = Len(suggestions) + 1
          BY <3>5, <3>6, <5>1, <5>4
        <5> QED BY <3>7, <4>1, <5>2, <5>3, <5>4
      <4>2. ASSUME NEW j \in 1..Len(suggestions'), NEW i \in 1..Len(memories'), NEW e \in suggestions'[j].source
            PROVE  memories'[i].revisions[1].source # {e}
        <5>1. i \in 1..Len(memories) /\ memories'[i] = memories[i]
          BY <2>8
        <5>2. CASE j \in 1..Len(suggestions)
          <6>1. e \in suggestions[j].source
            BY <3>6, <4>2, <5>2
          <6>2. memories[i].revisions[1].source # {e}
            BY <5>1, <5>2, <6>1 DEF PreferenceInv, OwnSources
          <6> QED BY <5>1, <6>2
        <5>3. CASE j = Len(suggestions) + 1
          <6>1. e \in {last, r}
            BY <3>5, <3>6, <4>2, <5>3
          <6>2. e \notin memories[i].revisions[1].source
            BY <1>2, <2>3, <3>3, <5>1, <6>1
          <6> QED BY <5>1, <6>2
        <5> QED BY <3>7, <5>2, <5>3
      <4> QED BY <4>1, <4>2 DEF OwnSources
    <3>10. OneLive'
      BY <2>8 DEF PreferenceInv, OneLive, Live, Latest
    <3> QED BY <1>2, <2>2, <2>5, <2>8, <3>6, <3>8, <3>9, <3>10 DEF PreferenceInv, PreferenceTypes
  <2>9. Eligible(message) # {} =>
          (CHOOSE e \in Eligible(message) : \A f \in Eligible(message) : f <= e) \in Eligible(message)
    <3>1. ASSUME NEW e \in Eligible(message) PROVE e \in 1..chat.nth
      <4>1. \E n \in DOMAIN observed : e = observed[n].event
        BY <3>1 DEF Eligible
      <4> QED BY <2>5, <4>1, PreferenceShape DEF PreferenceInv, HeardBefore
    <3>2. Eligible(message) \in SUBSET Int /\ IsFiniteSet(Eligible(message))
      <4>1. IsFiniteSet(1..chat.nth)
        BY <1>1, FS_Interval
      <4>2. Eligible(message) \subseteq 1..chat.nth
        BY <3>1
      <4>3. 1..chat.nth \subseteq Int
        BY <1>1
      <4> QED BY <4>1, <4>2, <4>3, FS_Subset
    <3>3. Eligible(message) # {} => \E e \in Eligible(message) : \A f \in Eligible(message) : e >= f
      BY <3>2, MaxExists
    <3>4. \A e, f \in Eligible(message) : e >= f => f <= e
      BY <3>2
    <3> QED BY <3>3, <3>4
  <2> QED BY <1>4, <2>6, <2>7, <2>8, <2>9 DEF Observe
<1> QED BY <1>3, <1>4 DEF ObserveRun, r

LEMMA SelectedType == ASSUME PreferenceTypes PROVE Selected \in SUBSET References
BY PreferenceShape DEF Selected, References

\* Revisions and memories are only added.
OnlyAdded ==
  \A i \in 1..Len(memories) :
    /\ i \in 1..Len(memories')
    /\ Len(memories'[i].revisions) \in Nat /\ Len(memories'[i].revisions) >= Len(memories[i].revisions)
    /\ \A n \in 1..Len(memories[i].revisions) : memories'[i].revisions[n] = memories[i].revisions[n]

\* What is withdrawn by a step has a revision then that is not active.
LEMMA SelectionStays ==
  ASSUME PreferenceInv, SelectionSound, OnlyAdded, UNCHANGED chat, chat.pc = "observed" => withdrawn' = withdrawn,
         \A ref \in chat.snapshot : ref.id \in withdrawn' =>
           \/ ref.id \in withdrawn
           \/ \E n \in ref.revision..Len(memories'[ref.id].revisions) :
                memories'[ref.id].revisions[n].status # "active"
  PROVE  SelectionSound'
<1>1. ASSUME NEW ref \in chat.snapshot
      PROVE  /\ ref.id \in 1..Len(memories') /\ ref.revision \in 1..Len(memories'[ref.id].revisions)
             /\ ref.id \in withdrawn' => ~ Usable(ref)'
  <2>1. /\ ref.id \in 1..Len(memories) /\ ref.revision \in 1..Len(memories[ref.id].revisions)
        /\ Len(memories[ref.id].revisions) \in Nat
    BY PreferenceShape DEF SelectionSound, PreferenceInv
  <2>2. /\ ref.id \in 1..Len(memories') /\ Len(memories'[ref.id].revisions) \in Nat
        /\ Len(memories'[ref.id].revisions) >= Len(memories[ref.id].revisions)
        /\ \A n \in 1..Len(memories[ref.id].revisions) :
             memories'[ref.id].revisions[n] = memories[ref.id].revisions[n]
    BY <2>1 DEF OnlyAdded
  <2>3. CASE ref.id \in withdrawn
    <3>1. PICK n \in ref.revision..Len(memories[ref.id].revisions) :
            memories[ref.id].revisions[n].status # "active"
      BY <2>3 DEF SelectionSound, Usable
    <3>2. /\ n \in 1..Len(memories[ref.id].revisions)
          /\ n \in ref.revision..Len(memories'[ref.id].revisions)
      BY <2>1, <2>2
    <3>3. memories'[ref.id].revisions[n].status # "active"
      BY <2>2, <3>1, <3>2
    <3>4. ~ Usable(ref)'
      BY <3>2, <3>3 DEF Usable
    <3> QED BY <2>1, <2>2, <3>4
  <2>4. CASE ref.id \in withdrawn' /\ ref.id \notin withdrawn
    BY <2>1, <2>2, <2>4 DEF Usable
  <2> QED BY <2>1, <2>2, <2>3, <2>4
<1>2. chat'.pc = "observed" => chat'.snapshot = {} /\ withdrawn' = {}
  BY DEF SelectionSound
<1> QED BY <1>1, <1>2 DEF SelectionSound

\* A preference more takes nothing from the selection.
LEMMA AddedSelection ==
  ASSUME PreferenceInv, SelectionSound, UNCHANGED <<chat, withdrawn>>,
         \/ UNCHANGED memories
         \/ \E scope \in Scopes, content \in Contents, src \in SUBSET Nat :
              memories' = Append(memories, Memory(scope, content, src))
  PROVE  SelectionSound'
<1>1. CASE UNCHANGED memories
  <2>1. OnlyAdded
    BY <1>1, PreferenceShape DEF OnlyAdded, PreferenceInv
  <2> QED BY <2>1, SelectionStays
<1>2. ASSUME NEW scope \in Scopes, NEW content \in Contents, NEW src \in SUBSET Nat,
             memories' = Append(memories, Memory(scope, content, src))
      PROVE  SelectionSound'
  <2> DEFINE m == Memory(scope, content, src)
  <2>1. memories \in Seq(MemoryRecords) /\ Len(memories) \in Nat
    BY PreferenceShape DEF PreferenceInv, PreferenceTypes
  <2>2. Len(memories') = Len(memories) + 1 /\ \A i \in 1..Len(memories) : memories'[i] = memories[i]
    <3> HIDE DEF m
    <3>1. memories \in Seq(MemoryRecords \cup {m}) /\ m \in MemoryRecords \cup {m}
      BY <2>1
    <3>2. memories' = Append(memories, m)
      BY <1>2 DEF m
    <3> QED BY <3>1, <3>2, AppendProperties
  <2>3. OnlyAdded
    BY <2>1, <2>2, PreferenceShape DEF OnlyAdded, PreferenceInv
  <2> QED BY <2>3, SelectionStays
<1> QED BY <1>1, <1>2

\* The user's word on a preference that the Run carries stays among its revisions.
LEMMA UpdateSelection ==
  ASSUME PreferenceInv, SelectionSound, NEW i \in DOMAIN memories, UpdateMemory(i)
  PROVE  SelectionSound'
<1> DEFINE rs == memories[i].revisions
           old == Latest(memories[i])
<1>1. /\ i \in 1..Len(memories) /\ Len(memories) \in Nat /\ DOMAIN memories = 1..Len(memories)
      /\ rs \in Seq(Revisions) /\ Len(rs) \in Nat /\ memories \in Seq(MemoryRecords)
      /\ memories[i] \in [scope : Scopes, revisions : Seq(Revisions)] /\ UNCHANGED chat
  BY PreferenceShape DEF UpdateMemory, PreferenceInv, PreferenceTypes, MemoryRecords
<1>2. PICK rev : /\ memories' = [memories EXCEPT ![i].revisions = Append(@, rev)]
                 /\ withdrawn' = withdrawn \/ (/\ withdrawn' = withdrawn \cup ({i} \cap Carried)
                                               /\ rev.status # "active")
  <2>1. PICK edit \in Contents \cup {None}, status \in {"active", "paused", "revoked"} :
          /\ memories' = [memories EXCEPT ![i].revisions = Append(@,
               IF edit = None THEN Revision(old.content, status, old.source)
                              ELSE Revision(edit, status, {}))]
          /\ withdrawn' = IF status = "active" THEN withdrawn
                          ELSE withdrawn \cup ({i} \cap Carried)
    BY DEF UpdateMemory
  <2> DEFINE rev == IF edit = None THEN Revision(old.content, status, old.source)
                                   ELSE Revision(edit, status, {})
  <2>2. rev.status = status
    BY DEF Revision
  <2>3. memories' = [memories EXCEPT ![i].revisions = Append(@, rev)]
    BY <2>1
  <2> HIDE DEF rev
  <2> QED BY <2>1, <2>2, <2>3
<1>3. /\ Len(Append(rs, rev)) = Len(rs) + 1 /\ Append(rs, rev)[Len(rs) + 1] = rev
      /\ \A n \in 1..Len(rs) : Append(rs, rev)[n] = rs[n]
  <2> HIDE DEF rs
  <2>1. rs \in Seq(Revisions \cup {rev}) /\ rev \in Revisions \cup {rev}
    BY <1>1
  <2> QED BY <2>1, AppendProperties
<1>4. /\ memories'[i].revisions = Append(rs, rev) /\ DOMAIN memories' = DOMAIN memories
      /\ \A j \in 1..Len(memories) : j # i => memories'[j] = memories[j]
  BY <1>1, <1>2
<1>5. Len(memories') = Len(memories)
  BY <1>1, <1>2
<1> HIDE DEF rs
<1>6. OnlyAdded
  <2>1. ASSUME NEW j \in 1..Len(memories)
        PROVE  /\ Len(memories'[j].revisions) \in Nat
               /\ Len(memories'[j].revisions) >= Len(memories[j].revisions)
               /\ \A n \in 1..Len(memories[j].revisions) :
                    memories'[j].revisions[n] = memories[j].revisions[n]
    <3>1. CASE j # i
      BY <1>4, <3>1, PreferenceShape DEF PreferenceInv
    <3>2. CASE j = i
      BY <1>1, <1>3, <1>4, <3>2 DEF rs
    <3> QED BY <3>1, <3>2
  <2> QED BY <1>5, <2>1 DEF OnlyAdded
<1>7. ASSUME NEW ref \in chat.snapshot, ref.id \in withdrawn', ref.id \notin withdrawn
      PROVE  \E n \in ref.revision..Len(memories'[ref.id].revisions) :
               memories'[ref.id].revisions[n].status # "active"
  <2>1. ref.id = i /\ rev.status # "active"
    BY <1>2, <1>7
  <2>2. ref.revision \in 1..Len(rs)
    BY <2>1 DEF SelectionSound, rs
  <2>3. Len(rs) + 1 \in ref.revision..Len(memories'[ref.id].revisions)
    BY <1>1, <1>3, <1>4, <2>1, <2>2
  <2> QED BY <1>3, <1>4, <2>1, <2>3
<1>8. chat.pc = "observed" => withdrawn' = withdrawn
  BY <1>2 DEF SelectionSound, Carried
<1> QED BY <1>1, <1>6, <1>7, <1>8, SelectionStays

\* Selecting, and looking again before the attempt and before it is sent.
LEMMA RequestKeeps ==
  ASSUME PreferenceInv, SelectionSound, SnapshotRun \/ BeginRequest \/ SendRequest \/ SwitchMemory
  PROVE  PreferenceKept
<1>1. chat \in ChatRecords /\ suggestions \in Seq(SuggestionRecords) /\ SoundChat(chat)
      /\ chat.nth \in Nat /\ Selected \in SUBSET References
  BY SelectedType DEF PreferenceInv, PreferenceTypes, ChatRecords
<1>2. UNCHANGED <<memories, suggestions, observed, withdrawn>>
  BY DEF SnapshotRun, BeginRequest, SendRequest, SwitchMemory
<1>3. ASSUME chat' \in ChatRecords, chat'.nth = chat.nth, SoundChat(chat')
      PROVE  PreferenceInv'
  BY <1>1, <1>2, <1>3, NothingSaid
<1>4. ASSUME chat'.snapshot = chat.snapshot, chat'.pc # "observed" PROVE SelectionSound'
  BY <1>2, <1>4 DEF SelectionSound, Usable
<1>5. CASE SnapshotRun
  <2>1. chat' = [chat EXCEPT !.pc = "ready", !.snapshot = Selected] /\ chat.pc = "observed"
    BY <1>5 DEF SnapshotRun
  <2>2. chat' \in ChatRecords /\ chat'.nth = chat.nth /\ chat'.allowed = {}
        /\ chat'.snapshot = Selected /\ chat'.pc = "ready"
    BY <1>1, <2>1 DEF ChatRecords, SoundChat
  <2>3. SoundChat(chat')
    BY <2>2 DEF SoundChat
  <2>4. \A ref \in Selected :
          ref.id \in 1..Len(memories) /\ ref.revision \in 1..Len(memories[ref.id].revisions)
    BY PreferenceShape DEF Selected, PreferenceInv
  <2>5. SelectionSound'
    BY <1>2, <2>1, <2>2, <2>4 DEF SelectionSound
  <2> QED BY <1>3, <2>1, <2>2, <2>3, <2>5 DEF PreferenceKept, SentStanding
<1>6. CASE BeginRequest
  <2>1. chat' = [chat EXCEPT !.pc = "begun", !.allowed = Injected(chat.snapshot)]
    BY <1>6 DEF BeginRequest
  <2>2. Injected(chat.snapshot) \subseteq chat.snapshot
    BY DEF Injected
  <2>3. /\ chat' \in ChatRecords /\ chat'.nth = chat.nth /\ chat'.allowed = Injected(chat.snapshot)
        /\ chat'.snapshot = chat.snapshot /\ chat'.pc = "begun"
    BY <1>1, <2>1, <2>2 DEF ChatRecords
  <2>4. SoundChat(chat')
    BY <2>2, <2>3 DEF SoundChat
  <2> QED BY <1>3, <1>4, <2>3, <2>4 DEF PreferenceKept, SentStanding
<1>7. CASE SendRequest
  <2>1. chat' = [chat EXCEPT !.pc = "ready", !.sent = Injected(chat.allowed), !.allowed = {}]
    BY <1>7 DEF SendRequest
  <2>2. \A ref \in Injected(chat.allowed) : enabled /\ ref \in chat.snapshot /\ Usable(ref)
    BY <1>1 DEF Injected, SoundChat
  <2>3. \A ref \in Injected(chat.allowed) : ref.id \notin withdrawn
    BY <2>2 DEF SelectionSound
  <2>4. Injected(chat.allowed) \subseteq chat.allowed
    BY DEF Injected
  <2>5. /\ chat' \in ChatRecords /\ chat'.nth = chat.nth /\ chat'.allowed = {}
        /\ chat'.sent = Injected(chat.allowed) /\ chat'.snapshot = chat.snapshot
        /\ chat'.pc = "ready"
    BY <1>1, <2>1, <2>4 DEF ChatRecords
  <2>6. SoundChat(chat')
    BY <2>5 DEF SoundChat
  <2> QED BY <1>3, <1>4, <2>2, <2>3, <2>5, <2>6 DEF PreferenceKept, SentStanding
<1>8. CASE SwitchMemory
  <2>1. UNCHANGED chat
    BY <1>8 DEF SwitchMemory
  <2>2. SelectionSound'
    BY <1>2, <2>1 DEF SelectionSound, Usable
  <2> QED BY <1>1, <1>3, <2>1, <2>2 DEF PreferenceKept, SentStanding
<1> QED BY <1>5, <1>6, <1>7, <1>8

\* PreferencesAreRespected: a message is the source of one preference or suggestion at most, a
\* topic has one preference, and no request carries a preference that was paused or revoked after
\* its Run selected it, resumed or not (preference_memory.py observe_run, context).
THEOREM PreferencesStayRespected == PreferenceSpec => PreferencesAreRespected
<1>1. PreferenceInit => PreferenceInv /\ SelectionSound
  <2> SUFFICES ASSUME PreferenceInit PROVE PreferenceInv /\ SelectionSound
    OBVIOUS
  <2>1. memories = <<>> /\ suggestions = <<>> /\ observed = <<>>
        /\ Len(memories) = 0 /\ Len(suggestions) = 0 /\ Len(observed) = 0
    BY DEF PreferenceInit
  <2>2. chat \in ChatRecords /\ SoundChat(chat) /\ chat.snapshot = {} /\ chat.pc = "ready"
    BY DEF PreferenceInit, NoChat, ChatRecords, SoundChat
  <2>3. PreferenceTypes /\ SelectionSound
    BY <2>1, <2>2 DEF PreferenceTypes, SelectionSound
  <2> QED BY <2>1, <2>2, <2>3 DEF PreferenceInv, HeardBefore, OwnSources, OneLive
<1>2. PreferenceInv /\ SelectionSound /\ [PreferenceNext]_preferenceVars => PreferenceKept
  <2> SUFFICES ASSUME PreferenceInv, SelectionSound, [PreferenceNext]_preferenceVars
               PROVE  PreferenceKept
    OBVIOUS
  <2>1. CASE UNCHANGED preferenceVars
    <3>1. UNCHANGED <<memories, suggestions, observed, chat, withdrawn>>
      BY <2>1 DEF preferenceVars
    <3>2. PreferenceInv'
      BY <3>1, NothingSaid DEF PreferenceInv, PreferenceTypes, ChatRecords
    <3>3. SelectionSound'
      BY <3>1 DEF SelectionSound, Usable
    <3> QED BY <3>1, <3>2, <3>3 DEF PreferenceKept, SentStanding
  <2>2. ASSUME NEW scope \in Scopes, NEW content \in Contents, CreateMemory(scope, content)
        PROVE  PreferenceKept
    <3>1. UNCHANGED <<chat, withdrawn>> /\ memories' = Append(memories, Memory(scope, content, {}))
      BY <2>2 DEF CreateMemory
    <3>2. SelectionSound'
      BY <3>1, AddedSelection
    <3> QED BY <2>2, <3>1, <3>2, CreateMemoryKeeps DEF PreferenceKept, SentStanding
  <2>3. ASSUME NEW i \in DOMAIN memories, UpdateMemory(i) PROVE PreferenceKept
    BY <2>3, UpdateMemoryKeeps, UpdateSelection DEF PreferenceKept, SentStanding, UpdateMemory
  <2>4. ASSUME NEW i \in DOMAIN suggestions, ResolveSuggestion(i) PROVE PreferenceKept
    <3>1. UNCHANGED <<chat, withdrawn>>
      BY <2>4 DEF ResolveSuggestion
    <3>2. suggestions[i] \in SuggestionRecords
      BY PreferenceShape DEF PreferenceInv
    <3>3. SelectionSound'
      BY <2>4, <3>1, <3>2, AddedSelection DEF ResolveSuggestion, SuggestionRecords
    <3> QED BY <2>4, <3>1, <3>3, ResolveKeeps DEF PreferenceKept, SentStanding
  <2>5. CASE ObserveRun
    <3>1. chat'.snapshot = {} /\ withdrawn' = {} /\ chat.pc = "ready"
      BY <2>5 DEF ObserveRun, NoChat
    <3>2. SelectionSound'
      BY <3>1 DEF SelectionSound
    <3> QED BY <2>5, <3>1, <3>2, ObserveKeeps DEF PreferenceKept, SentStanding
  <2>6. CASE SnapshotRun \/ BeginRequest \/ SendRequest \/ SwitchMemory
    BY <2>6, RequestKeeps
  <2> QED BY <2>1, <2>2, <2>3, <2>4, <2>5, <2>6 DEF PreferenceNext
<1>3. PreferenceInv => SourcesAreUsedOnce
  BY OwnSourcesSuffice
<1> QED BY <1>1, <1>2, <1>3, PTL
        DEF PreferenceSpec, PreferencesAreRespected, OnlyStandingIsSent, PreferenceKept, SentStanding

(***************************************************************************)
(* Mutations: what a client is told of a write is true and stays true.  It *)
(* rests on the receipt: "started" belongs to at most one request under    *)
(* way, and no one begins what has a receipt.                              *)
(***************************************************************************)
Bodies     == Nat \cup {None}
AnswerKinds       == {"done", "rejected", "unknown", "conflict"}
ReceiptSet == [state : {"none", "started", "completed", "rejected"}, body : Bodies]
Writing    == {"committing", "acting", "acted", "admitting"}
HandlerSet == [pc : {"idle", "sent"} \cup Writing, key : Keys \cup {None}, body : Bodies]

MutationType ==
  /\ workspace \in [identity : Nat, born : Nat] /\ title \in Nat
  /\ receipt \in [Keys -> ReceiptSet] /\ handler \in [Handlers -> HandlerSet]
  /\ answers \in [Keys -> SUBSET AnswerKinds] /\ effects \in [Keys -> Nat]

\* What has happened and what clients know, by what the log says of a key.
KeySound(k) ==
  /\ receipt[k].state = "none" =>
       effects[k] = 0 /\ "done" \notin answers[k]
         /\ (k \in MutationKeys => "rejected" \notin answers[k])
  /\ receipt[k].state = "started" =>
       k \in MutationKeys /\ effects[k] \in {0, 1}
         /\ "done" \notin answers[k] /\ "rejected" \notin answers[k]
  /\ receipt[k].state = "completed" =>
       effects[k] = 1 /\ (k \in MutationKeys => "rejected" \notin answers[k])
  /\ receipt[k].state = "rejected" =>
       k \in MutationKeys /\ effects[k] = 0 /\ "done" \notin answers[k]

\* What a request under way relies on.
HandlerSound(h) ==
  /\ handler[h].pc # "idle" => handler[h].key \in Keys
  /\ handler[h].pc \in {"committing", "acting", "acted"} =>
       handler[h].key \in MutationKeys /\ receipt[handler[h].key].state = "started"
  /\ handler[h].pc \in {"committing", "acting"} => effects[handler[h].key] = 0
  /\ handler[h].pc = "acted" => effects[handler[h].key] = 1
  /\ handler[h].pc = "admitting" =>
       /\ handler[h].key \in RunAdmissions /\ reserved = {handler[h].key}
       /\ receipt[handler[h].key].state = "none"

\* One request at a time is at the write of a key.
OneWrite ==
  \A g, h \in Handlers :
    /\ handler[g].pc \in Writing /\ handler[h].pc \in Writing
    /\ handler[g].key = handler[h].key
    => g = h

MutationInv ==
  /\ MutationType /\ OneWrite
  /\ \A k \in Keys : KeySound(k)
  /\ \A h \in Handlers : HandlerSound(h)

LEMMA ReceiptsFollow == MutationInv => ReceiptsAreTrue
<1> SUFFICES ASSUME MutationInv, NEW k \in Keys
             PROVE  /\ effects[k] <= 1
                    /\ "done" \in answers[k] => effects[k] = 1
                    /\ k \in MutationKeys /\ "rejected" \in answers[k] => effects[k] = 0
  BY DEF ReceiptsAreTrue
<1>1. receipt[k].state \in {"none", "started", "completed", "rejected"} /\ KeySound(k)
  BY DEF MutationInv, MutationType, ReceiptSet
<1>2. 0 <= 1 /\ 1 <= 1
  OBVIOUS
<1>3. effects[k] \in {0, 1}
  BY <1>1 DEF KeySound
<1>4. effects[k] <= 1
  BY <1>2, <1>3
<1> QED BY <1>1, <1>4 DEF KeySound

\* A step of one request, on its key: what is sound of both afterwards is all that must be
\* shown, if it was at the write of the key or nobody else is.
LEMMA HandlerStep ==
  ASSUME MutationInv, NEW h \in Handlers, NEW k \in Keys, handler[h].key = k,
         NEW rc \in ReceiptSet, NEW e \in Nat, NEW a \in SUBSET AnswerKinds, NEW hd \in HandlerSet,
         receipt' = [receipt EXCEPT ![k] = rc], effects' = [effects EXCEPT ![k] = e],
         answers' = [answers EXCEPT ![k] = a], handler' = [handler EXCEPT ![h] = hd],
         hd.pc = "idle" \/ hd.key = k,
         workspace' \in [identity : Nat, born : Nat], title' \in Nat,
         KeySound(k)', HandlerSound(h)',
         \A g \in Handlers \ {h} : handler[g].pc = "admitting" => reserved' = reserved,
         \/ \A g \in Handlers \ {h} : handler[g].pc \in Writing => handler[g].key # k
         \/ rc = receipt[k] /\ e = effects[k] /\ hd.pc = "idle"
  PROVE  MutationInv'
<1>1. /\ receipt' \in [Keys -> ReceiptSet] /\ effects' \in [Keys -> Nat]
      /\ answers' \in [Keys -> SUBSET AnswerKinds] /\ handler' \in [Handlers -> HandlerSet]
      /\ receipt'[k] = rc /\ effects'[k] = e /\ handler'[h] = hd
      /\ \A g \in Handlers \ {h} : handler'[g] = handler[g]
      /\ \A j \in Keys \ {k} :
           receipt'[j] = receipt[j] /\ effects'[j] = effects[j] /\ answers'[j] = answers[j]
  BY DEF MutationInv, MutationType
<1>2. MutationType'
  BY <1>1 DEF MutationType
<1>3. \A j \in Keys : KeySound(j)'
  BY <1>1 DEF MutationInv, KeySound
<1>4. OneWrite'
  BY <1>1 DEF MutationInv, OneWrite, Writing
<1>5. ASSUME NEW g \in Handlers, g # h PROVE HandlerSound(g)'
  <2>1. HandlerSound(g) /\ handler'[g] = handler[g]
    BY <1>1, <1>5 DEF MutationInv
  <2>2. CASE handler[g].pc \notin Writing
    BY <2>1, <2>2 DEF HandlerSound, Writing
  <2>3. CASE handler[g].pc \in Writing
    <3>1. handler[g].key \in Keys
      BY <2>1, <2>3 DEF HandlerSound, Writing
    <3>2. receipt'[handler[g].key] = receipt[handler[g].key]
            /\ effects'[handler[g].key] = effects[handler[g].key]
      BY <1>1, <1>5, <2>3, <3>1
    <3>3. handler[g].pc = "admitting" => reserved' = reserved
      BY <1>5
    <3> QED BY <2>1, <3>2, <3>3 DEF HandlerSound
  <2> QED BY <2>2, <2>3
<1> QED BY <1>2, <1>3, <1>4, <1>5 DEF MutationInv

\* The records of one key and one request.
LEMMA Fields ==
  ASSUME MutationInv, NEW h \in Handlers, handler[h].key \in Keys
  PROVE  LET k == handler[h].key IN
         /\ handler[h] \in HandlerSet /\ HandlerSound(h) /\ KeySound(k)
         /\ receipt[k] \in ReceiptSet /\ effects[k] \in Nat /\ answers[k] \in SUBSET AnswerKinds
         /\ workspace \in [identity : Nat, born : Nat] /\ title \in Nat
         /\ receipt = [receipt EXCEPT ![k] = receipt[k]]
         /\ effects = [effects EXCEPT ![k] = effects[k]]
         /\ answers = [answers EXCEPT ![k] = answers[k]]
  BY DEF MutationInv, MutationType

LEMMA IdleHandler == Idle \in HandlerSet /\ Idle.pc = "idle"
  BY DEF Idle, HandlerSet, Bodies

\* An answer that says nothing new, or what the receipt says.
LEMMA AnswerKeepsReceipts ==
  ASSUME MutationInv, NEW h \in Handlers, NEW k \in Keys, handler[h].key = k, NEW what \in AnswerKinds,
         Answer(h, what), UNCHANGED <<workspace, title, receipt, effects>>,
         \A g \in Handlers \ {h} : handler[g].pc = "admitting" => reserved' = reserved,
         what = "done" => receipt[k].state = "completed",
         what = "rejected" => \/ receipt[k].state = "rejected"
                              \/ k \in RunAdmissions /\ receipt[k].state \notin {"started", "completed"}
  PROVE  MutationInv'
<1>1. PICK a, rc, e : a = answers[k] \cup {what} /\ rc = receipt[k] /\ e = effects[k]
  OBVIOUS
<1>2. /\ KeySound(k) /\ rc \in ReceiptSet /\ e \in Nat /\ a \in SUBSET AnswerKinds
      /\ receipt' = [receipt EXCEPT ![k] = rc] /\ effects' = [effects EXCEPT ![k] = e]
      /\ answers' = [answers EXCEPT ![k] = a] /\ handler' = [handler EXCEPT ![h] = Idle]
  BY <1>1, Fields DEF Answer
<1>3. workspace' \in [identity : Nat, born : Nat] /\ title' \in Nat
  BY Fields
<1>4. /\ answers'[k] = a /\ handler'[h] = Idle
      /\ receipt'[k] = receipt[k] /\ effects'[k] = effects[k]
  BY <1>2 DEF MutationInv, MutationType
<1>5. "done" \in a => "done" \in answers[k] \/ receipt[k].state = "completed"
  BY <1>1
<1>6. "rejected" \in a => \/ "rejected" \in answers[k]
                          \/ receipt[k].state = "rejected"
                          \/ k \in RunAdmissions /\ receipt[k].state \notin {"started", "completed"}
  BY <1>1
<1>7. k \in RunAdmissions => k \notin MutationKeys
  BY ReceiptAssumption
<1>8. KeySound(k)'
  BY <1>2, <1>4, <1>5, <1>6, <1>7 DEF KeySound
<1>9. HandlerSound(h)'
  BY <1>4, IdleHandler DEF HandlerSound
<1> QED BY <1>1, <1>2, <1>3, <1>8, <1>9, IdleHandler, HandlerStep

\* A step of a request that is at the write of its key.
LEMMA WriteStep ==
  ASSUME MutationInv, NEW h \in Handlers, handler[h].pc \in Writing, NEW k, k = handler[h].key,
         NEW state \in {"started", "completed", "rejected"}, NEW e \in Nat, NEW a \in SUBSET AnswerKinds,
         NEW hd \in HandlerSet,
         receipt' = [receipt EXCEPT ![k] = [@ EXCEPT !.state = state]],
         effects' = [effects EXCEPT ![k] = e], answers' = [answers EXCEPT ![k] = a],
         handler' = [handler EXCEPT ![h] = hd], hd.pc = "idle" \/ hd.key = k,
         workspace' \in [identity : Nat, born : Nat], title' \in Nat, UNCHANGED reserved,
         k \in MutationKeys,
         state = "started" => e \in {0, 1} /\ "done" \notin a /\ "rejected" \notin a,
         state = "completed" => e = 1 /\ "rejected" \notin a,
         state = "rejected" => e = 0 /\ "done" \notin a,
         \/ hd.pc = "idle"
         \/ hd.pc = "acted" /\ state = "started" /\ e = 1
  PROVE  MutationInv'
<1> DEFINE rc == [receipt[k] EXCEPT !.state = state]
<1>1. k \in Keys /\ handler[h].key = k /\ receipt[k] \in ReceiptSet
  BY DEF Keys, MutationInv, MutationType
<1>2. rc \in ReceiptSet /\ rc.state = state
  BY <1>1 DEF ReceiptSet
<1>3. receipt' = [receipt EXCEPT ![k] = rc]
  BY <1>1
<1> HIDE DEF rc
<1>4. receipt'[k] = rc /\ effects'[k] = e /\ answers'[k] = a /\ handler'[h] = hd
  BY <1>1, <1>3 DEF MutationInv, MutationType
<1>5. KeySound(k)'
  BY <1>2, <1>4 DEF KeySound
<1>6. HandlerSound(h)'
  BY <1>1, <1>2, <1>4 DEF HandlerSound
<1>7. \A g \in Handlers \ {h} : handler[g].pc \in Writing => handler[g].key # k
  BY <1>1 DEF MutationInv, OneWrite
<1> QED BY <1>1, <1>2, <1>3, <1>5, <1>6, <1>7, HandlerStep

\* A request that is sent is at no write yet.
LEMMA SendKeeps ==
  ASSUME MutationInv, NEW h \in Handlers, NEW k \in Keys, Send(h, k)
  PROVE  MutationInv'
<1>1. Shown(k) \in Nat /\ receipt[k].body \in Bodies
  BY DEF MutationInv, MutationType, ReceiptSet, Shown
<1>2. PICK body \in Bodies : handler' = [handler EXCEPT ![h] = [pc |-> "sent", key |-> k, body |-> body]]
  BY <1>1 DEF Send, Bodies
<1>3. /\ handler' \in [Handlers -> HandlerSet] /\ handler'[h].pc = "sent" /\ handler'[h].key = k
      /\ \A g \in Handlers \ {h} : handler'[g] = handler[g]
  BY <1>2 DEF MutationInv, MutationType, HandlerSet
<1>4. UNCHANGED <<workspace, title, target, receipt, reserved, answers, effects>>
  BY DEF Send
<1>5. MutationType'
  BY <1>3, <1>4 DEF MutationInv, MutationType
<1>6. OneWrite'
  BY <1>3 DEF MutationInv, OneWrite, Writing
<1>7. \A j \in Keys : KeySound(j)'
  BY <1>4 DEF MutationInv, KeySound
<1>8. \A g \in Handlers : HandlerSound(g)'
  BY <1>3, <1>4 DEF MutationInv, HandlerSound
<1> QED BY <1>5, <1>6, <1>7, <1>8 DEF MutationInv

\* Only what has no receipt begins, so nobody is at its write.
LEMMA BeginWriteKeeps ==
  ASSUME MutationInv, NEW h \in Handlers, BeginMutation(h)
  PROVE  MutationInv'
<1>1. PICK k \in Keys : handler[h].key = k /\ k \in MutationKeys
  BY DEF BeginMutation, Keys
<1>2. UNCHANGED <<workspace, title, effects, reserved>>
  BY DEF BeginMutation
<1>3. handler[h] \in HandlerSet /\ receipt[k] \in ReceiptSet /\ KeySound(k)
  BY <1>1, Fields
<1>4. CASE receipt[k].body \notin {None, handler[h].body}
  <2>1. Answer(h, "conflict") /\ UNCHANGED receipt
    BY <1>1, <1>4 DEF BeginMutation
  <2> QED BY <1>1, <1>2, <2>1, AnswerKeepsReceipts DEF AnswerKinds
<1>5. CASE receipt[k].body \in {None, handler[h].body} /\ ~ Begins(k)
  <2>1. Answer(h, Replay[receipt[k].state]) /\ UNCHANGED receipt
    BY <1>1, <1>5 DEF BeginMutation
  <2>2. receipt[k].state \in {"started", "completed", "rejected"}
    BY <1>3, <1>5 DEF Begins, ReceiptSet
  <2>3. PICK what : what = Replay[receipt[k].state]
    OBVIOUS
  <2>4. /\ what \in AnswerKinds
        /\ what = "done" => receipt[k].state = "completed"
        /\ what = "rejected" => receipt[k].state = "rejected"
    BY <2>2, <2>3 DEF Replay, AnswerKinds
  <2> QED BY <1>1, <1>2, <2>1, <2>3, <2>4, AnswerKeepsReceipts
<1>6. CASE receipt[k].body \in {None, handler[h].body} /\ Begins(k)
  <2>1. PICK rc, pc, e, a :
          /\ rc = [state |-> "started", body |-> handler[h].body]
          /\ pc = IF k \in RecordWrites THEN "committing" ELSE "acting"
          /\ e = effects[k] /\ a = answers[k]
    OBVIOUS
  <2>2. PICK hd : hd = [handler[h] EXCEPT !.pc = pc]
    OBVIOUS
  <2>3. /\ rc \in ReceiptSet /\ rc.state = "started" /\ pc \in {"committing", "acting"}
        /\ hd \in HandlerSet /\ hd.pc = pc /\ hd.key = k
    BY <1>1, <1>3, <2>1, <2>2 DEF ReceiptSet, HandlerSet, Writing
  <2>4. /\ receipt' = [receipt EXCEPT ![k] = rc] /\ handler' = [handler EXCEPT ![h] = hd]
        /\ UNCHANGED answers
    BY <1>1, <1>6, <2>1, <2>2 DEF BeginMutation, Advance
  <2>5. /\ effects' = [effects EXCEPT ![k] = e] /\ answers' = [answers EXCEPT ![k] = a]
        /\ e \in Nat /\ a \in SUBSET AnswerKinds
    BY <1>1, <1>2, <2>1, <2>4, Fields
  <2>6. /\ receipt'[k] = rc /\ handler'[h] = hd /\ effects'[k] = effects[k]
        /\ answers'[k] = answers[k] /\ receipt[k].state = "none"
    BY <1>2, <1>6, <2>4 DEF MutationInv, MutationType, Begins
  <2>7. KeySound(k)'
    BY <1>1, <1>3, <2>3, <2>6 DEF KeySound
  <2>8. HandlerSound(h)'
    BY <1>1, <1>3, <2>3, <2>6 DEF HandlerSound, KeySound
  <2>9. \A g \in Handlers \ {h} : handler[g].pc \in Writing => handler[g].key # k
    BY <1>1, <2>6, ReceiptAssumption DEF MutationInv, HandlerSound, Writing
  <2>10. workspace' \in [identity : Nat, born : Nat] /\ title' \in Nat
    BY <1>2 DEF MutationInv, MutationType
  <2> QED BY <1>1, <1>2, <2>3, <2>4, <2>5, <2>7, <2>8, <2>9, <2>10, HandlerStep
<1> QED BY <1>4, <1>5, <1>6

\* The write of a record and its receipt are one step.
LEMMA CommitKeeps ==
  ASSUME MutationInv, NEW h \in Handlers, handler[h].pc = "committing",
         NEW permitted \in BOOLEAN, Commit(h, permitted), UNCHANGED reserved,
         workspace' \in [identity : Nat, born : Nat], title' \in Nat
  PROVE  MutationInv'
<1>1. PICK k \in Keys : handler[h].key = k /\ k \in MutationKeys
  BY DEF MutationInv, HandlerSound, Keys
<1>2. receipt[k].state = "started" /\ effects[k] = 0 /\ KeySound(k) /\ answers[k] \in SUBSET AnswerKinds
  BY <1>1, Fields DEF HandlerSound
<1>3. "done" \notin answers[k] /\ "rejected" \notin answers[k]
  BY <1>2 DEF KeySound
<1>4. CASE permitted
  <2>1. PICK a, e : a = answers[k] \cup {"done"} /\ e = effects[k] + 1
    OBVIOUS
  <2>2. /\ a \in SUBSET AnswerKinds /\ "rejected" \notin a
    BY <1>2, <1>3, <2>1 DEF AnswerKinds
  <2>3. e = 1
    BY <1>2, <2>1
  <2>4. /\ receipt' = [receipt EXCEPT ![k] = [@ EXCEPT !.state = "completed"]]
        /\ effects' = [effects EXCEPT ![k] = e] /\ answers' = [answers EXCEPT ![k] = a]
        /\ handler' = [handler EXCEPT ![h] = Idle]
    BY <1>1, <1>4, <2>1 DEF Commit, Happens, Record, Answer
  <2> QED BY <1>1, <2>2, <2>3, <2>4, IdleHandler, WriteStep DEF Writing
<1>5. CASE ~ permitted
  <2>1. PICK a, e : a = answers[k] \cup {"rejected"} /\ e = effects[k]
    OBVIOUS
  <2>2. /\ a \in SUBSET AnswerKinds /\ "done" \notin a /\ e = 0
    BY <1>2, <1>3, <2>1 DEF AnswerKinds
  <2>3. /\ receipt' = [receipt EXCEPT ![k] = [@ EXCEPT !.state = "rejected"]]
        /\ answers' = [answers EXCEPT ![k] = a] /\ handler' = [handler EXCEPT ![h] = Idle]
    BY <1>1, <1>5, <2>1 DEF Commit, Record, Answer
  <2>4. effects' = [effects EXCEPT ![k] = e]
    BY <1>1, <1>5, <2>1, Fields DEF Commit
  <2> QED BY <1>1, <2>2, <2>3, <2>4, IdleHandler, WriteStep DEF Writing
<1> QED BY <1>4, <1>5

LEMMA RecordsKeep ==
  ASSUME MutationInv, NEW h \in Handlers,
         CommitMetadata(h) \/ CommitRegistration(h) \/ CommitRemoval(h)
  PROVE  MutationInv'
<1>1. workspace \in [identity : Nat, born : Nat] /\ title \in Nat
  BY DEF MutationInv, MutationType
<1>2. CASE CommitMetadata(h)
  <2>1. PICK permitted \in BOOLEAN : permitted = (handler[h].body = title)
    OBVIOUS
  <2>2. Commit(h, permitted)
    BY <1>2, <2>1 DEF CommitMetadata
  <2>3. title' \in Nat /\ workspace' \in [identity : Nat, born : Nat] /\ UNCHANGED reserved
    BY <1>1, <1>2 DEF CommitMetadata
  <2>4. handler[h].pc = "committing"
    BY <1>2 DEF CommitMetadata
  <2> QED BY <2>2, <2>3, <2>4, CommitKeeps
<1>3. CASE CommitRegistration(h)
  <2>1. Commit(h, TRUE) /\ title' \in Nat /\ UNCHANGED reserved /\ handler[h].pc = "committing"
    BY <1>1, <1>3 DEF CommitRegistration
  <2>2. workspace' \in [identity : Nat, born : Nat]
    BY <1>1, <1>3 DEF CommitRegistration
  <2> QED BY <2>1, <2>2, CommitKeeps
<1>4. CASE CommitRemoval(h)
  <2>1. PICK permitted \in BOOLEAN :
          permitted = (workspace.identity # 0 /\ handler[h].body = workspace.identity)
    OBVIOUS
  <2>2. Commit(h, permitted)
    BY <1>4, <2>1 DEF CommitRemoval
  <2>3. title' \in Nat /\ UNCHANGED reserved /\ handler[h].pc = "committing"
    BY <1>1, <1>4 DEF CommitRemoval
  <2>4. workspace' \in [identity : Nat, born : Nat]
    BY <1>1, <1>4 DEF CommitRemoval
  <2> QED BY <2>2, <2>3, <2>4, CommitKeeps
<1> QED BY <1>2, <1>3, <1>4

\* An outcome that is not known leaves the receipt started.
LEMMA LossKeeps ==
  ASSUME MutationInv, NEW h \in Handlers, LoseCommit(h) \/ LoseAction(h)
  PROVE  MutationInv'
<1>1. handler[h].pc # "idle" /\ Answer(h, "unknown")
  BY DEF LoseCommit, LoseAction
<1>2. PICK k \in Keys : handler[h].key = k
  BY <1>1 DEF MutationInv, HandlerSound
<1>3. UNCHANGED <<workspace, title, receipt, effects, reserved>>
  BY DEF LoseCommit, LoseAction
<1> QED BY <1>1, <1>2, <1>3, AnswerKeepsReceipts DEF AnswerKinds

\* The action and its receipt are two steps; the receipt is started between them.
LEMMA ActKeeps ==
  ASSUME MutationInv, NEW h \in Handlers, ActOnRun(h) \/ FinishAction(h)
  PROVE  MutationInv'
<1>1. handler[h].pc \in {"acting", "acted"}
  BY DEF ActOnRun, FinishAction
<1>2. PICK k \in Keys : handler[h].key = k /\ k \in MutationKeys
  BY <1>1 DEF MutationInv, HandlerSound, Keys
<1>3. /\ receipt[k].state = "started" /\ KeySound(k) /\ answers[k] \in SUBSET AnswerKinds
      /\ receipt[k] \in ReceiptSet /\ handler[h] \in HandlerSet
      /\ handler[h].pc = "acting" => effects[k] = 0
      /\ handler[h].pc = "acted" => effects[k] = 1
  BY <1>1, <1>2, Fields DEF HandlerSound
<1>4. "done" \notin answers[k] /\ "rejected" \notin answers[k]
  BY <1>3 DEF KeySound
<1>5. /\ workspace' \in [identity : Nat, born : Nat] /\ title' \in Nat /\ UNCHANGED reserved
  BY DEF ActOnRun, FinishAction, MutationInv, MutationType
<1>6. CASE ActOnRun(h) /\ target = "done"
  <2>1. PICK a, e : a = answers[k] \cup {"rejected"} /\ e = effects[k]
    OBVIOUS
  <2>2. /\ a \in SUBSET AnswerKinds /\ "done" \notin a /\ e = 0
    BY <1>3, <1>4, <1>6, <2>1 DEF AnswerKinds, ActOnRun
  <2>3. /\ receipt' = [receipt EXCEPT ![k] = [@ EXCEPT !.state = "rejected"]]
        /\ answers' = [answers EXCEPT ![k] = a] /\ handler' = [handler EXCEPT ![h] = Idle]
        /\ UNCHANGED effects
    BY <1>2, <1>6, <2>1 DEF ActOnRun, Record, Answer
  <2>4. effects' = [effects EXCEPT ![k] = e]
    BY <1>2, <2>1, <2>3, Fields
  <2> QED BY <1>1, <1>2, <1>5, <2>2, <2>3, <2>4, IdleHandler, WriteStep DEF Writing
<1>7. CASE ActOnRun(h) /\ target # "done"
  <2>1. PICK a, e, hd : /\ a = answers[k] /\ e = effects[k] + 1
                        /\ hd = [handler[h] EXCEPT !.pc = "acted"]
    OBVIOUS
  <2>2. e = 1
    BY <1>3, <1>7, <2>1 DEF ActOnRun
  <2>3. hd \in HandlerSet /\ hd.pc = "acted" /\ hd.key = k
    BY <1>2, <1>3, <2>1 DEF HandlerSet, Writing
  <2>4. /\ effects' = [effects EXCEPT ![k] = e] /\ handler' = [handler EXCEPT ![h] = hd]
        /\ UNCHANGED <<receipt, answers>>
    BY <1>2, <1>7, <2>1 DEF ActOnRun, Happens, Advance
  <2>5. answers' = [answers EXCEPT ![k] = a]
    BY <1>2, <2>1, <2>4, Fields
  <2>6. receipt' = [receipt EXCEPT ![k] = [@ EXCEPT !.state = "started"]]
    <3>1. receipt[k] = [receipt[k] EXCEPT !.state = "started"]
      BY <1>3 DEF ReceiptSet
    <3> QED BY <1>2, <2>4, <3>1, Fields
  <2>7. a \in SUBSET AnswerKinds /\ "done" \notin a /\ "rejected" \notin a /\ e \in Nat /\ e \in {0, 1}
    BY <1>3, <1>4, <2>1, <2>2
  <2>8. handler[h].pc \in Writing
    BY <1>1 DEF Writing
  <2>9. PICK state \in {"started", "completed", "rejected"} : state = "started"
    OBVIOUS
  <2>10. receipt' = [receipt EXCEPT ![k] = [@ EXCEPT !.state = state]]
    BY <2>6, <2>9
  <2> QED BY <1>2, <1>5, <2>2, <2>3, <2>4, <2>5, <2>7, <2>8, <2>9, <2>10, WriteStep
<1>8. CASE FinishAction(h)
  <2>1. PICK a, e : a = answers[k] \cup {"done"} /\ e = effects[k]
    OBVIOUS
  <2>2. /\ a \in SUBSET AnswerKinds /\ "rejected" \notin a /\ e = 1
    BY <1>3, <1>4, <1>8, <2>1 DEF AnswerKinds, FinishAction
  <2>3. /\ receipt' = [receipt EXCEPT ![k] = [@ EXCEPT !.state = "completed"]]
        /\ answers' = [answers EXCEPT ![k] = a] /\ handler' = [handler EXCEPT ![h] = Idle]
        /\ UNCHANGED effects
    BY <1>2, <1>8, <2>1 DEF FinishAction, Record, Answer
  <2>4. effects' = [effects EXCEPT ![k] = e]
    BY <1>2, <2>1, <2>3, Fields
  <2> QED BY <1>1, <1>2, <1>5, <2>2, <2>3, <2>4, IdleHandler, WriteStep DEF Writing
<1> QED BY <1>6, <1>7, <1>8

\* An admission holds the Session's reservation, so no other is under way.
LEMMA BeginAdmissionKeeps ==
  ASSUME MutationInv, NEW h \in Handlers, BeginAdmission(h)
  PROVE  MutationInv'
<1>1. PICK k \in Keys : handler[h].key = k /\ k \in RunAdmissions
  BY DEF BeginAdmission, Keys
<1>2. UNCHANGED <<workspace, title, receipt, effects>> /\ k \notin MutationKeys
  BY <1>1, ReceiptAssumption DEF BeginAdmission
<1>3. /\ handler[h] \in HandlerSet /\ receipt[k] \in ReceiptSet /\ KeySound(k)
      /\ effects[k] \in Nat /\ answers[k] \in SUBSET AnswerKinds
  BY <1>1, Fields
<1>4. CASE Accepted(k) /\ UNCHANGED reserved
           /\ Answer(h, IF receipt[k].body = handler[h].body THEN "done" ELSE "conflict")
  <2>1. PICK what \in {"done", "conflict"} : Answer(h, what)
    BY <1>4
  <2> QED BY <1>1, <1>2, <1>4, <2>1, AnswerKeepsReceipts DEF AnswerKinds, Accepted
<1>5. CASE ~ Accepted(k) /\ Answer(h, "rejected") /\ UNCHANGED reserved
  <2>1. receipt[k].state \notin {"started", "completed"}
    BY <1>2, <1>3, <1>5 DEF KeySound, Accepted
  <2> QED BY <1>1, <1>2, <1>5, <2>1, AnswerKeepsReceipts DEF AnswerKinds
<1>6. CASE ~ Accepted(k) /\ reserved = {} /\ reserved' = {k} /\ Advance(h, "admitting")
  <2>1. PICK hd, rc, e, a : /\ hd = [handler[h] EXCEPT !.pc = "admitting"]
                            /\ rc = receipt[k] /\ e = effects[k] /\ a = answers[k]
    OBVIOUS
  <2>2. hd \in HandlerSet /\ hd.pc = "admitting" /\ hd.key = k
    BY <1>1, <1>3, <2>1 DEF HandlerSet, Writing
  <2>3. handler' = [handler EXCEPT ![h] = hd] /\ UNCHANGED answers
    BY <1>6, <2>1 DEF Advance
  <2>4. /\ receipt' = [receipt EXCEPT ![k] = rc] /\ effects' = [effects EXCEPT ![k] = e]
        /\ answers' = [answers EXCEPT ![k] = a]
    BY <1>1, <1>2, <2>1, <2>3, Fields
  <2>5. handler'[h] = hd /\ receipt'[k] = receipt[k] /\ receipt[k].state = "none"
    BY <1>2, <1>3, <1>6, <2>3 DEF MutationInv, MutationType, KeySound, Accepted, ReceiptSet
  <2>6. KeySound(k)'
    BY <1>2, <1>3, <2>3 DEF KeySound
  <2>7. HandlerSound(h)'
    BY <1>1, <1>6, <2>2, <2>5 DEF HandlerSound
  <2>8. \A g \in Handlers \ {h} : handler[g].pc # "admitting"
    BY <1>6 DEF MutationInv, HandlerSound
  <2>9. \A g \in Handlers \ {h} : handler[g].pc \in Writing => handler[g].key # k
    BY <1>2, <2>8 DEF MutationInv, HandlerSound, Writing
  <2>10. workspace' \in [identity : Nat, born : Nat] /\ title' \in Nat
    BY <1>2 DEF MutationInv, MutationType
  <2>11. rc \in ReceiptSet /\ e \in Nat /\ a \in SUBSET AnswerKinds
    BY <1>3, <2>1
  <2> QED BY <1>1, <2>2, <2>3, <2>4, <2>6, <2>7, <2>8, <2>9, <2>10, <2>11, HandlerStep
<1> QED BY <1>1, <1>4, <1>5, <1>6 DEF BeginAdmission

\* The Run's record is its receipt; a refusal and a failure before it leave none.
LEMMA RecordAdmissionKeeps ==
  ASSUME MutationInv, NEW h \in Handlers, RecordAdmission(h)
  PROVE  MutationInv'
<1>1. PICK k \in Keys : /\ handler[h].key = k /\ k \in RunAdmissions
                        /\ reserved = {k} /\ receipt[k].state = "none"
  BY DEF RecordAdmission, MutationInv, HandlerSound
<1>2. UNCHANGED <<workspace, title>> /\ k \notin MutationKeys /\ handler[h].pc = "admitting"
  BY <1>1, ReceiptAssumption DEF RecordAdmission
<1>3. /\ handler[h] \in HandlerSet /\ receipt[k] \in ReceiptSet /\ KeySound(k)
      /\ effects[k] = 0 /\ answers[k] \in SUBSET AnswerKinds
  BY <1>1, Fields DEF KeySound
<1>4. /\ \A g \in Handlers \ {h} : handler[g].pc \in Writing => handler[g].key # k
      /\ \A g \in Handlers \ {h} : handler[g].pc # "admitting"
  <2>1. \A g \in Handlers \ {h} : handler[g].pc \in Writing => handler[g].key # k
    BY <1>1, <1>2 DEF MutationInv, OneWrite, Writing
  <2>2. \A g \in Handlers : handler[g].pc = "admitting" => handler[g].key = k
    BY <1>1 DEF MutationInv, HandlerSound
  <2> QED BY <2>1, <2>2 DEF Writing
<1>5. CASE /\ receipt' = [receipt EXCEPT ![k] = [state |-> "completed", body |-> handler[h].body]]
           /\ Happens(k) /\ Answer(h, "done") /\ UNCHANGED reserved
  <2>1. PICK rc, e, a : /\ rc = [state |-> "completed", body |-> handler[h].body]
                        /\ e = effects[k] + 1 /\ a = answers[k] \cup {"done"}
    OBVIOUS
  <2>2. /\ rc \in ReceiptSet /\ rc.state = "completed" /\ e = 1 /\ a \in SUBSET AnswerKinds
    BY <1>3, <2>1 DEF ReceiptSet, HandlerSet, AnswerKinds
  <2>3. /\ receipt' = [receipt EXCEPT ![k] = rc] /\ effects' = [effects EXCEPT ![k] = e]
        /\ answers' = [answers EXCEPT ![k] = a] /\ handler' = [handler EXCEPT ![h] = Idle]
    BY <1>1, <1>5, <2>1 DEF Happens, Answer
  <2>4. receipt'[k] = rc /\ effects'[k] = e /\ handler'[h] = Idle
    BY <2>3 DEF MutationInv, MutationType
  <2>5. KeySound(k)' /\ HandlerSound(h)'
    BY <1>2, <2>2, <2>4, IdleHandler DEF KeySound, HandlerSound
  <2>6. workspace' \in [identity : Nat, born : Nat] /\ title' \in Nat
    BY <1>2 DEF MutationInv, MutationType
  <2> QED BY <1>1, <1>4, <2>2, <2>3, <2>5, <2>6, IdleHandler, HandlerStep
<1>6. CASE /\ \E told \in {"rejected", "unknown"} : Answer(h, told)
           /\ UNCHANGED <<receipt, effects>>
  <2>1. PICK told \in {"rejected", "unknown"} : Answer(h, told)
    BY <1>6
  <2> QED BY <1>1, <1>2, <1>4, <1>6, <2>1, AnswerKeepsReceipts DEF AnswerKinds
<1> QED BY <1>1, <1>5, <1>6 DEF RecordAdmission

\* A crash forgets requests, and never what was recorded.
LEMMA WriteCrashKeeps ==
  ASSUME MutationInv, ReceiptCrash
  PROVE  MutationInv'
<1>1. /\ handler' = [h \in Handlers |-> Idle]
      /\ UNCHANGED <<workspace, title, receipt, answers, effects>>
  BY DEF ReceiptCrash
<1>2. MutationType' /\ \A h \in Handlers : handler'[h].pc = "idle"
  BY <1>1, IdleHandler DEF MutationInv, MutationType
<1>3. OneWrite' /\ \A h \in Handlers : HandlerSound(h)'
  BY <1>2 DEF OneWrite, HandlerSound, Writing
<1>4. \A k \in Keys : KeySound(k)'
  BY <1>1 DEF MutationInv, KeySound
<1> QED BY <1>2, <1>3, <1>4 DEF MutationInv

\* What leaves requests and receipts alone; only an accepted Run gives the Session back.
LEMMA ElseKeeps ==
  ASSUME MutationInv, UNCHANGED <<workspace, title, receipt, handler, answers, effects>>,
         reserved' # reserved => \E k \in reserved : Accepted(k)
  PROVE  MutationInv'
<1>1. MutationType' /\ OneWrite' /\ \A k \in Keys : KeySound(k)'
  BY DEF MutationInv, MutationType, OneWrite, KeySound
<1>2. \A h \in Handlers : HandlerSound(h)'
  BY DEF MutationInv, HandlerSound, Accepted
<1> QED BY <1>1, <1>2 DEF MutationInv

LEMMA MutationStarts == MutationInit => MutationInv
<1> SUFFICES ASSUME MutationInit PROVE MutationInv
  OBVIOUS
<1>1. NoReceipt \in ReceiptSet /\ NoReceipt.state = "none"
  BY DEF NoReceipt, ReceiptSet, Bodies
<1>2. MutationType
  BY <1>1, IdleHandler DEF MutationInit, MutationType
<1>3. \A h \in Handlers : handler[h].pc = "idle"
  BY IdleHandler DEF MutationInit
<1>4. OneWrite /\ \A h \in Handlers : HandlerSound(h)
  BY <1>3 DEF OneWrite, HandlerSound, Writing
<1>5. \A k \in Keys : receipt[k].state = "none" /\ effects[k] = 0 /\ answers[k] = {}
  BY <1>1 DEF MutationInit
<1>6. \A k \in Keys : KeySound(k)
  BY <1>5 DEF KeySound
<1> QED BY <1>2, <1>4, <1>6 DEF MutationInv

LEMMA MutationStep == MutationInv /\ [MutationNext]_mutationVars => MutationInv'
<1> SUFFICES ASSUME MutationInv, [MutationNext]_mutationVars PROVE MutationInv'
  OBVIOUS
<1>1. ASSUME NEW h \in Handlers, NEW k \in Keys, Send(h, k) PROVE MutationInv'
  BY <1>1, SendKeeps
<1>2. ASSUME NEW h \in Handlers,
             \/ BeginMutation(h) \/ LoseCommit(h)
             \/ CommitMetadata(h) \/ CommitRegistration(h) \/ CommitRemoval(h)
             \/ ActOnRun(h) \/ FinishAction(h) \/ LoseAction(h)
             \/ BeginAdmission(h) \/ RecordAdmission(h)
      PROVE  MutationInv'
  BY <1>2, BeginWriteKeeps, LossKeeps, RecordsKeep, ActKeeps, BeginAdmissionKeeps,
     RecordAdmissionKeeps
<1>3. CASE TargetWaitsAgain
  BY <1>3, ElseKeeps DEF TargetWaitsAgain
<1>4. CASE EndOfRun
  BY <1>4, ElseKeeps DEF EndOfRun
<1>5. CASE ReceiptCrash
  BY <1>5, WriteCrashKeeps
<1>6. CASE UNCHANGED mutationVars
  BY <1>6, ElseKeeps DEF mutationVars
<1> QED BY <1>1, <1>2, <1>3, <1>4, <1>5, <1>6 DEF MutationNext

\* In every state the receipt of a key decides how often its write has happened and what its
\* clients may have been told, and one request at most is at the write.
THEOREM ReceiptsDecide == MutationSpec => []MutationInv
BY MutationStarts, MutationStep, PTL DEF MutationSpec

\* A write that is sent again happens at most once, and what clients were told of it is true
\* and stays true, for any number of requests, keys, failures and crashes.
THEOREM ReceiptsStayTrue == MutationSpec => []ReceiptsAreTrue
BY ReceiptsDecide, ReceiptsFollow, PTL
=============================================================================
