---------------------------- MODULE HistoryImport ----------------------------
(***************************************************************************)
(* The import of an older version's history into one project (migration.py,*)
(* history_import_control.py): a Run archives what it read of the legacy   *)
(* database, a person reviews it, and another Run imports that archive.    *)
(* What either Run reads and writes it does in a thread that a             *)
(* cancellation waits for.                                                 *)
(***************************************************************************)
EXTENDS Integers, Sequences, Absence

CONSTANTS
  Histories,                        \* model values: contents, each its own hash
  MaxImportRuns, MaxImportEvents    \* bounds

ASSUME ImportAssumption == MaxImportRuns \in Nat

VARIABLES
  legacy,      \* what the legacy database holds
  archive,     \* per preview Run: the file history-imports/<run>.json, or None
  importRuns,  \* the Runs of the project's import Session: [action, of (the preview), hash (of
               \* history.previewed or history.accepted), read (from the archive), status, at,
               \* cancelled]
  brought,     \* the histories in the store: [preview, content, by]
  eventsUsed   \* bound used: edits, damage, cancellations and crashes

importVars == <<legacy, archive, importRuns, brought, eventsUsed>>

ImportInit ==
  /\ legacy \in Histories /\ archive = [i \in 1..MaxImportRuns |-> None]
  /\ importRuns = <<>> /\ brought = {} /\ eventsUsed = 0

ImportEnded(i) == importRuns[i].status \in {"completed", "failed", "interrupted"}
LastRun == Len(importRuns)
At(place) == LastRun > 0 /\ ~ImportEnded(LastRun) /\ importRuns[LastRun].at = place
ImportRun(i) == importRuns[i]
Goes(status, place) == importRuns' = [importRuns EXCEPT ![LastRun].status = status, ![LastRun].at = place]
AnyEvent == eventsUsed < MaxImportEvents /\ eventsUsed' = eventsUsed + 1

(***************************************************************************)
(* Other programs and the user.                                            *)
(***************************************************************************)
EditLegacy == AnyEvent /\ legacy' \in Histories \ {legacy} /\ UNCHANGED <<archive, importRuns, brought>>

DamageArchive ==
  /\ AnyEvent
  /\ \E i \in DOMAIN importRuns, bytes \in Histories :
       archive[i] # None /\ archive' = [archive EXCEPT ![i] = bytes]
  /\ UNCHANGED <<legacy, importRuns, brought>>

\* One Run at a time in the project's import Session.
AdmitHistoryRun(action, of, hash) ==
  /\ LastRun < MaxImportRuns /\ \A i \in DOMAIN importRuns : ImportEnded(i)
  /\ importRuns' = Append(importRuns, [action |-> action, of |-> of, hash |-> hash, read |-> None,
                                       status |-> "queued", at |-> "waiting", cancelled |-> FALSE])
  /\ UNCHANGED <<legacy, archive, brought, eventsUsed>>

AdmitPreview == AdmitHistoryRun("preview", 0, None)

\* The client names the preview and the hash that it reviewed.
AdmitImport ==
  \E p \in DOMAIN importRuns :
    ImportRun(p).action = "preview" /\ ImportRun(p).status = "completed" /\ AdmitHistoryRun("import", p, ImportRun(p).hash)

\* A queued Run is closed at once; a running one when its thread has come back.  Nothing is
\* awaited between the two facts of a preview.
CancelImport ==
  /\ AnyEvent /\ LastRun > 0 /\ ~ImportEnded(LastRun) /\ ~At("previewed")
  /\ importRuns' = [importRuns EXCEPT ![LastRun].cancelled = TRUE,
                      ![LastRun].status = IF At("waiting") THEN "interrupted" ELSE @]
  /\ UNCHANGED <<legacy, archive, brought>>

CrashImport ==
  /\ AnyEvent /\ LastRun > 0 /\ ~ImportEnded(LastRun) /\ Goes("interrupted", "lost")
  /\ UNCHANGED <<legacy, archive, brought>>

(***************************************************************************)
(* The Runs.                                                               *)
(***************************************************************************)
StartImport ==
  /\ At("waiting") /\ Goes("running", "thread") /\ UNCHANGED <<legacy, archive, brought, eventsUsed>>

\* One transaction of the legacy database, valid and within its limits, or an error.
Reading == legacy

\* The reading goes into a new file of the preview's own.
ReadLegacy ==
  /\ At("thread") /\ ImportRun(LastRun).action = "preview"
  /\ archive' = [archive EXCEPT ![LastRun] = Reading]
  /\ importRuns' = [importRuns EXCEPT ![LastRun].at = "archived", ![LastRun].hash = Reading]
  /\ UNCHANGED <<legacy, brought, eventsUsed>>

\* history.previewed and run.completed are two commits.
RecordPreview ==
  /\ LastRun > 0 /\ ~ImportRun(LastRun).cancelled
  /\ \/ At("archived") /\ Goes("running", "previewed")
     \/ At("previewed") /\ Goes("completed", "previewed")
  /\ UNCHANGED <<legacy, archive, brought, eventsUsed>>

\* _read_snapshot: the archive is the one reviewed, or the Run fails.
ReadReviewed ==
  LET run == ImportRun(LastRun)  bytes == archive[run.of] IN
  /\ At("thread") /\ run.action = "import"
  /\ importRuns' = [importRuns EXCEPT ![LastRun].status = "running", ![LastRun].read = bytes,
                                      ![LastRun].at = IF bytes = run.hash THEN "read" ELSE "refused"]
  /\ UNCHANGED <<legacy, archive, brought, eventsUsed>>

\* The imported Sessions and Runs have identities made from the preview's.
Taken(preview) == \E b \in brought : b.preview = preview

Receipt == [preview |-> ImportRun(LastRun).of, content |-> ImportRun(LastRun).read, by |-> LastRun]

\* Sessions, Runs, the receipt and run.completed in one transaction.
CommitHistory ==
  /\ At("read")
  /\ IF Taken(ImportRun(LastRun).of)
     THEN Goes("running", "refused") /\ UNCHANGED brought
     ELSE Goes("completed", "back") /\ brought' = brought \cup {Receipt}
  /\ UNCHANGED <<legacy, archive, eventsUsed>>

Raises(cancelled) == {"refused"} \cup IF cancelled THEN {"archived", "back"} ELSE {}

\* Fault: a cancelled Run is interrupted although its thread has committed.
CloseAnyway ==
  /\ LastRun > 0 /\ ImportRun(LastRun).at \in Raises(ImportRun(LastRun).cancelled)
  /\ Goes(IF ImportRun(LastRun).cancelled THEN "interrupted" ELSE "failed", "closed")
  /\ UNCHANGED <<legacy, archive, brought, eventsUsed>>

\* An error, or a cancellation, is raised once the thread has ended; a terminal fact is the last.
CloseImport ==
  /\ LastRun > 0 /\ ImportRun(LastRun).at \in Raises(ImportRun(LastRun).cancelled)
  /\ ~ImportEnded(LastRun) /\ Goes(IF ImportRun(LastRun).cancelled THEN "interrupted" ELSE "failed", "closed")
  /\ UNCHANGED <<legacy, archive, brought, eventsUsed>>

ImportNext ==
  \/ EditLegacy \/ DamageArchive \/ AdmitPreview \/ AdmitImport \/ CancelImport \/ CrashImport
  \/ StartImport \/ ReadLegacy \/ RecordPreview \/ ReadReviewed \/ CommitHistory
  \/ CloseImport

ImportSpec == ImportInit /\ [][ImportNext]_importVars

\* What ReviewedImport calls shown and told: previews whose Run completed, imports that did.
Reviewable == {[preview |-> i, content |-> ImportRun(i).hash] :
                 i \in {k \in DOMAIN importRuns : ImportRun(k).action = "preview" /\ ImportRun(k).status = "completed"}}
Told == {i \in DOMAIN importRuns : ImportRun(i).action = "import" /\ ImportRun(i).status = "completed"}

Review == INSTANCE ReviewedImport
            WITH Runs <- 1..MaxImportRuns, Contents <- Histories,
                 shown <- Reviewable, imported <- brought, told <- Told

\* What a person was shown is imported as it was shown, once for each preview and in the step
\* that completes the Run, and none of the three is taken back: whatever changed in the legacy
\* database or the archive since, and whenever the Run was cancelled or the process ended
\* ("atomically import it after explicit review").
HistoryAsReviewed == Review!ReviewedSpec
=============================================================================
