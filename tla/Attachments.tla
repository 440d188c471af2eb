----------------------------- MODULE Attachments -----------------------------
(***************************************************************************)
(* The attachments of one Session (attachments.py, its HTTP routes, the    *)
(* admissions in host.py).  A file is kept in the Session's own directory  *)
(* or in the one older versions used.  The log of the Session is the       *)
(* authority on which files its Runs refer to; the mark "used" in a file   *)
(* is a cache, written file by file after the admission has committed.     *)
(***************************************************************************)
EXTENDS Integers, FiniteSets, Absence

CONSTANTS
  AttachmentIds,                  \* model values: att_<12 hex digits>
  MaxUploads, MaxFileRuns, MaxFileCrashes \* bounds

\* No mark is no file.
ASSUME FileAssumption == None \notin {"free", "used"}

Roots == {"primary", "legacy"}

VARIABLES
  kept,       \* per directory and id: None, "free", "used"
  referenced, \* attachment_ids of run.admitted and message.user of this Session
  listed,     \* ids the web client shows as pending
  hydrated,   \* the Session's Run: "none", "open", "failed"
  fileUsed    \* bounds used: [uploads, runs, crashes]

fileVars == <<kept, referenced, listed, hydrated, fileUsed>>

\* An older version left what it left: files of its directory, marked or not.
FilesInit ==
  /\ kept \in [Roots -> [AttachmentIds -> {None, "free", "used"}]]
  /\ \A id \in AttachmentIds : kept["primary"][id] = None
  /\ referenced = {id \in AttachmentIds : kept["legacy"][id] = "used"}
  /\ listed = {} /\ hydrated = "none"
  /\ fileUsed = [uploads |-> 0, runs |-> 0, crashes |-> 0]

Found(id) == {r \in Roots : kept[r][id] # None}

\* _load_meta: one file of that id, in one of the Session's directories.
Loadable(id) == Cardinality(Found(id)) = 1
MarkedUsed(id) == \E r \in Roots : kept[r][id] = "used"

\* referenced_attachments: read from the facts of the Session, whatever the files say.
Protected(id) == id \in referenced

\* The list a client is shown, and what it may delete.
Pending == {id \in AttachmentIds : Found(id) # {} /\ ~MarkedUsed(id) /\ ~Protected(id)}

\* mark_attachments_used, as far as it came: a file that is replaced stays in its directory.
Mark(ids) == kept' = [r \in Roots |-> [id \in AttachmentIds |->
                        IF id \in ids /\ kept[r][id] # None THEN "used" ELSE kept[r][id]]]

\* Linked under a fresh name: an id that is taken in either directory is refused.
Save(id) == Found(id) = {} /\ kept' = [kept EXCEPT !["primary"][id] = "free"]

\* delete_attachment: never a file marked as used.
Unlink(id) ==
  /\ Loadable(id) /\ ~MarkedUsed(id) /\ kept' = [r \in Roots |-> [kept[r] EXCEPT ![id] = None]]

SpendFile(kind, max) == fileUsed[kind] < max /\ fileUsed' = [fileUsed EXCEPT ![kind] = @ + 1]

(***************************************************************************)
(* The routes.                                                             *)
(***************************************************************************)
\* Between the receipt that is started and the one that is completed: a crash or an error
\* leaves the file, or none, and an unknown receipt that never saves another.
UploadAttachment(id) ==
  /\ SpendFile("uploads", MaxUploads) /\ Save(id)
  /\ UNCHANGED <<referenced, listed, hydrated>>

ListAttachments ==
  /\ listed # Pending /\ listed' = Pending /\ UNCHANGED <<kept, referenced, hydrated, fileUsed>>

\* Fault: only the mark in the file is looked at, not the Session's log.
DeleteByMark(id) ==
  /\ id \in listed /\ Unlink(id)
  /\ UNCHANGED <<referenced, listed, hydrated, fileUsed>>

DeleteAttachment(id) ==
  /\ id \in listed /\ ~Protected(id) /\ Unlink(id)
  /\ UNCHANGED <<referenced, listed, hydrated, fileUsed>>

(***************************************************************************)
(* The Runs.                                                               *)
(***************************************************************************)
\* Loaded, committed and marked without an await.  The marks may fail or the process may end
\* after any of them: the Run that was committed is closed, its message stays.
AdmitWithFiles(ids) ==
  /\ hydrated # "open" /\ SpendFile("runs", MaxFileRuns)
  /\ ids # {} /\ \A id \in ids : Loadable(id)
  /\ referenced' = referenced \cup ids
  /\ \E marked \in SUBSET ids :
       Mark(marked) /\ hydrated' = IF marked = ids THEN "open" ELSE "failed"
  /\ UNCHANGED listed

\* A message holds its text, and its other files by their ids: every model request reads those of
\* the whole history again.  A Run ends well, or with the first file that is gone.
HydrateMessages ==
  /\ hydrated = "open"
  /\ hydrated' \in IF \A id \in referenced : Loadable(id) THEN {"none"} ELSE {"failed"}
  /\ UNCHANGED <<kept, referenced, listed, fileUsed>>

CrashFiles ==
  /\ SpendFile("crashes", MaxFileCrashes)
  /\ hydrated' = IF hydrated = "open" THEN "failed" ELSE hydrated
  /\ listed' = {} /\ UNCHANGED <<kept, referenced>>

FilesNext ==
  \/ \E id \in AttachmentIds : UploadAttachment(id) \/ DeleteAttachment(id)
  \/ \E ids \in SUBSET AttachmentIds : AdmitWithFiles(ids)
  \/ ListAttachments \/ HydrateMessages \/ CrashFiles

\* A file the log refers to can be loaded, by one name in one place, for as long as the
\* Session lasts: when its mark was never written, when a client deletes from an old list,
\* when another file is uploaded ("Canonical references protect attachments even when the
\* used cache was not written").
FilesStay == \A id \in referenced : Loadable(id)
=============================================================================
