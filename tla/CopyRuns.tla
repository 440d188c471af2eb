------------------------------ MODULE CopyRuns ------------------------------
(***************************************************************************)
(* Runs of Sessions that execute on a copy of their Workspace (host.py     *)
(* _reserve_copy_run, _execute_copy_run; execution_snapshots.py,           *)
(* execution_worktrees.py, execution_sandbox.py): a read-only snapshot     *)
(* named by its content, a Git worktree that is a Workspace of its own, or *)
(* a sandbox candidate.  The copy is made under the source's locks, the    *)
(* admission claims it, and the execution looks at it again.  Other Runs   *)
(* and people change source and copies meanwhile, and the process may be   *)
(* lost at every step; a parked Session continues on its copy or is        *)
(* abandoned.  A content stands for a checkpoint, which identifies it.     *)
(***************************************************************************)
EXTENDS Integers, FiniteSets, Sequences, Absence

CONSTANTS
  Tasks,     \* Sessions of the source Workspace
  Guest,     \* a Session opened on the Workspace of a worktree copy
  Versions,  \* contents of the source and of copies
  Targets,   \* subset of {"source", "snapshot", "worktree", "sandbox"}
  MaxCopies, MaxCopyEdits, MaxCopyCrashes, MaxCopyRuns \* bounds

ASSUME CopyAssumption ==
  /\ None \notin Tasks \cup {Guest} /\ Guest \notin Tasks
  /\ Targets \subseteq {"source", "snapshot", "worktree", "sandbox"} /\ MaxCopies \in Nat

VARIABLES
  original,  \* content of the source Workspace
  copies,    \* copies made so far: [kind, base, content]
  tainted,   \* copies with an unknown tool outcome
  claim,     \* _admissions: who holds the copy of a worktree
  guest,     \* the guest's Run: the copy it works on, or 0
  sess,      \* per Session, its latest Run and what it is doing
  copyUsed   \* bounds used: [runs, edits, crashes]

copyVars == <<original, copies, tainted, claim, guest, sess, copyUsed>>

\* kind and copy are the latest Run's binding (session_execution_target), prior the
\* binding an abandonment closes; worktree is what any admission recorded.
NewSession == [pc |-> "idle", status |-> "none", kind |-> "source", copy |-> 0, seen |-> None,
               prior |-> None, worktree |-> 0]

CopyInit ==
  /\ original \in Versions /\ copies = <<>> /\ tainted = {}
  /\ claim = [c \in 1..MaxCopies |-> None] /\ guest = 0
  /\ sess = [s \in Tasks |-> NewSession]
  /\ copyUsed = [runs |-> 0, edits |-> 0, crashes |-> 0]

CopySpend(bound) == copyUsed' = [copyUsed EXCEPT ![bound] = @ + 1]
Release(s)  == [c \in DOMAIN claim |-> IF claim[c] = s THEN None ELSE claim[c]]
Becomes(s, record) == sess' = [sess EXCEPT ![s] = record]
\* _workspace_execution: the lock of a copy that is its own Workspace.
CopyLocked(c) == guest = c \/ \E s \in Tasks : sess[s].pc = "running" /\ sess[s].copy = c

\* ExecutionSnapshots.restore: the files are still those of the manifest.
Intact(c) == copies[c].kind = "snapshot" => copies[c].content = copies[c].base

(***************************************************************************)
(* Admission: _prepare_run, _reserve_copy_run.                             *)
(***************************************************************************)
\* A sandboxed Session stays one, and a Session with a worktree keeps to it.
TargetFits(s, target) ==
  /\ sess[s].status # "none" => (target = "sandbox") = (sess[s].kind = "sandbox")
  /\ target # "sandbox" /\ sess[s].worktree # 0 => target = "worktree"

\* workspace_busy: nobody runs in the copy or has reserved it; it is this Run's now.
ClaimCopy(s, c) ==
  claim[c] = None /\ ~ CopyLocked(c) /\ claim' = [claim EXCEPT ![c] = s]

AdmitOnCopy(s, target) ==
  LET now == sess[s]
      kept == IF target = "sandbox" /\ now.kind = "sandbox" THEN now.copy
              ELSE IF target = "worktree" THEN now.worktree ELSE 0
  IN
  /\ now.pc = "idle" /\ now.status # "parked"
  /\ target # "source" /\ TargetFits(s, target) /\ copyUsed.runs < MaxCopyRuns
  /\ CopySpend("runs")
  /\ IF kept = 0
     THEN Len(copies) < MaxCopies /\ Becomes(s, [now EXCEPT !.pc = "copying", !.prior = target])
          /\ UNCHANGED claim
     ELSE kept \notin tainted
          /\ (IF target = "worktree" THEN ClaimCopy(s, kept) ELSE UNCHANGED claim)
          /\ Becomes(s, [now EXCEPT !.pc = "admitting", !.prior = [kind |-> target, copy |-> kept]])
  /\ UNCHANGED <<original, copies, tainted, guest>>

\* A prompt for the source itself; its Run is abstracted to what it leaves there.
RunOnSource(s) ==
  /\ sess[s].pc = "idle" /\ sess[s].status # "parked" /\ TargetFits(s, "source")
  /\ copyUsed.runs < MaxCopyRuns /\ CopySpend("runs")
  /\ original' \in Versions
  /\ Becomes(s, [sess[s] EXCEPT !.status = "ended", !.kind = "source", !.copy = 0])
  /\ UNCHANGED <<copies, tainted, claim, guest>>

\* Snapshots are named by their content: one that is there is used again.  A worktree is
\* registered as a Workspace and claimed in one step.
SameSnapshot(kind) == {c \in DOMAIN copies : kind = "snapshot" /\ copies[c].kind = kind
                                             /\ copies[c].base = original}

NewCopy(kind) == [kind |-> kind, base |-> original, content |-> original]

MakeCopy(s) ==
  LET kind == sess[s].prior
      old  == SameSnapshot(kind)
      c    == IF old # {} THEN CHOOSE d \in old : TRUE ELSE Len(copies) + 1
  IN
  /\ sess[s].pc = "copying" /\ c <= MaxCopies
  /\ copies' = IF old # {} THEN copies
               ELSE Append(copies, NewCopy(kind))
  /\ claim' = IF kind = "worktree" THEN [claim EXCEPT ![c] = s] ELSE claim
  /\ Becomes(s, [sess[s] EXCEPT !.pc = "comparing", !.prior = [kind |-> kind, copy |-> c]])
  /\ UNCHANGED <<original, tainted, guest, copyUsed>>

\* The source must still be what was copied; a copy made in vain is left behind.
CompareSource(s) ==
  LET c == sess[s].prior.copy IN
  /\ sess[s].pc = "comparing"
  /\ IF original = copies[c].base /\ Intact(c)
     THEN Becomes(s, [sess[s] EXCEPT !.pc = "admitting"]) /\ UNCHANGED claim
     ELSE Becomes(s, [sess[s] EXCEPT !.pc = "idle", !.prior = None]) /\ claim' = Release(s)
  /\ UNCHANGED <<original, copies, tainted, guest, copyUsed>>

\* _validate_continue: the copy is what the parked Run's last checkpoint saw.
ContinueOnCopy(s) ==
  LET now == sess[s] IN
  /\ now.pc = "idle" /\ now.status = "parked" /\ now.kind # "source"
  /\ now.copy \notin tainted /\ Intact(now.copy) /\ copies[now.copy].content = now.seen
  /\ copyUsed.runs < MaxCopyRuns /\ CopySpend("runs")
  /\ IF now.kind = "worktree" THEN ClaimCopy(s, now.copy) ELSE UNCHANGED claim
  /\ Becomes(s, [now EXCEPT !.pc = "admitting", !.prior = [kind |-> now.kind, copy |-> now.copy]])
  /\ UNCHANGED <<original, copies, tainted, guest>>

\* One transaction: the Run, its binding and the checkpoint of its copy.
RecordCopyRun(s) ==
  LET now == sess[s]  c == now.prior.copy IN
  /\ now.pc = "admitting"
  /\ IF Intact(c) /\ c \notin tainted
     THEN /\ Becomes(s, [now EXCEPT !.pc = "queued", !.status = "running", !.kind = now.prior.kind,
                                    !.copy = c, !.seen = copies[c].content, !.prior = None,
                                    !.worktree = IF now.prior.kind = "worktree" THEN c ELSE @])
          /\ UNCHANGED claim
     ELSE Becomes(s, [now EXCEPT !.pc = "idle", !.prior = None]) /\ claim' = Release(s)
  /\ UNCHANGED <<original, copies, tainted, guest, copyUsed>>

(***************************************************************************)
(* Execution: _execute_copy_run.                                           *)
(***************************************************************************)
\* Fault: the copy is not compared with the admission's checkpoint.
StartableIntact(s) == Intact(sess[s].copy) /\ sess[s].copy \notin tainted

Startable(s) ==
  LET c == sess[s].copy IN
  /\ Intact(c) /\ c \notin tainted
  /\ sess[s].kind \in {"worktree", "sandbox"} => copies[c].content = sess[s].seen

StartCopyRun(s) ==
  /\ sess[s].pc = "queued"
  /\ sess[s].kind = "worktree" => ~ CopyLocked(sess[s].copy)
  /\ IF Startable(s)
     THEN Becomes(s, [sess[s] EXCEPT !.pc = "running"]) /\ UNCHANGED claim
     ELSE Becomes(s, [sess[s] EXCEPT !.pc = "idle", !.status = "ended"]) /\ claim' = Release(s)
  /\ UNCHANGED <<original, copies, tainted, guest, copyUsed>>

\* A Plan Run has no tool that writes; the others write into their copy, and checkpoint.
WorkInCopy(s) ==
  LET c == sess[s].copy IN
  /\ sess[s].pc = "running" /\ sess[s].kind # "snapshot"
  /\ \/ /\ \E v \in Versions \ {copies[c].content} :
             copies' = [copies EXCEPT ![c] = [@ EXCEPT !.content = v]]
        /\ UNCHANGED sess
     \/ Becomes(s, [sess[s] EXCEPT !.seen = copies[c].content]) /\ UNCHANGED copies
  /\ UNCHANGED <<original, tainted, claim, guest, copyUsed>>

\* Completed or failed, or parked; a tool outcome that is unknown taints the copy.
EndCopyRun(s) ==
  LET c == sess[s].copy IN
  /\ sess[s].pc = "running"
  /\ \E status \in {"ended", "parked"} :
       Becomes(s, [sess[s] EXCEPT !.pc = "idle", !.status = status, !.seen = copies[c].content])
  /\ tainted' \in {tainted, IF sess[s].kind = "snapshot" THEN tainted ELSE tainted \cup {c}}
  /\ claim' = Release(s)
  /\ UNCHANGED <<original, copies, guest, copyUsed>>

(***************************************************************************)
(* Abandonment: the closing Run is created, and then says where it is.     *)
(***************************************************************************)
BeginAbandon(s) ==
  /\ sess[s].pc = "idle" /\ sess[s].status = "parked"
  /\ copyUsed.runs < MaxCopyRuns /\ CopySpend("runs")
  /\ Becomes(s, [sess[s] EXCEPT !.pc = "abandoning", !.status = "running", !.kind = "source",
                                !.copy = 0, !.prior = [kind |-> sess[s].kind, copy |-> sess[s].copy]])
  /\ UNCHANGED <<original, copies, tainted, claim, guest>>

EndAbandon(s) ==
  /\ sess[s].pc = "abandoning"
  /\ Becomes(s, [sess[s] EXCEPT !.pc = "idle", !.status = "ended", !.kind = sess[s].prior.kind,
                                !.copy = sess[s].prior.copy, !.prior = None])
  /\ UNCHANGED <<original, copies, tainted, claim, guest, copyUsed>>

(***************************************************************************)
(* The other Run of a worktree's Workspace, people, and the lost process.  *)
(***************************************************************************)
StartGuest(c) ==
  /\ guest = 0 /\ c \in DOMAIN copies /\ copies[c].kind = "worktree" /\ c \notin tainted
  /\ copyUsed.runs < MaxCopyRuns /\ CopySpend("runs")
  /\ ClaimCopy(Guest, c)
  /\ guest' = c
  /\ UNCHANGED <<original, copies, tainted, sess>>

EndGuest ==
  /\ guest # 0
  /\ \E v \in Versions : copies' = [copies EXCEPT ![guest] = [@ EXCEPT !.content = v]]
  /\ tainted' \in {tainted, tainted \cup {guest}}
  /\ claim' = Release(Guest) /\ guest' = 0
  /\ UNCHANGED <<original, sess, copyUsed>>

EditAnything ==
  /\ copyUsed.edits < MaxCopyEdits /\ CopySpend("edits")
  /\ \/ original' \in Versions \ {original} /\ UNCHANGED copies
     \/ /\ \E c \in DOMAIN copies, v \in Versions :
             copies' = [copies EXCEPT ![c] = [@ EXCEPT !.content = v]]
        /\ UNCHANGED original
  /\ UNCHANGED <<tainted, claim, guest, sess>>

\* _crash_gap_evidence: the last checkpoint, or one of now when nothing was touched since the
\* Run's last fact; of a sandbox only the last one, and of an abandonment perhaps none.
CrashGap(kind, c, known) ==
  {known} \cup IF kind \in {"worktree", "snapshot"} /\ Intact(c) THEN {copies[c].content} ELSE {}

\* Admissions that were not recorded are gone; recorded Runs are interrupted.  An abandonment
\* has its Session's copy from its run.started on.
AfterLoss(s) ==
  LET now == sess[s]
      parked == [now EXCEPT !.pc = "idle", !.status = "parked", !.prior = None]
  IN
  CASE now.pc = "queued" -> {parked}
    [] now.pc = "running" -> {[parked EXCEPT !.seen = seen] : seen \in CrashGap(now.kind, now.copy, now.seen)}
    [] now.pc = "abandoning" ->
         {[parked EXCEPT !.seen = None]} \cup
         {[parked EXCEPT !.kind = now.prior.kind, !.copy = now.prior.copy, !.seen = seen] :
            seen \in CrashGap(now.prior.kind, now.prior.copy, None)}
    [] OTHER -> {[now EXCEPT !.pc = "idle", !.prior = None]}

\* A sandbox whose command was running has an unknown outcome (_recover_interrupted_runs).
CopyCrash ==
  /\ copyUsed.crashes < MaxCopyCrashes /\ CopySpend("crashes")
  /\ sess' \in {after \in [Tasks -> UNION {AfterLoss(s) : s \in Tasks}] :
                 \A s \in Tasks : after[s] \in AfterLoss(s)}
  /\ tainted' \in {tainted, tainted \cup {sess[s].copy : s \in
                      {t \in Tasks : sess[t].pc = "running" /\ sess[t].kind = "sandbox"}}}
  /\ claim' = [c \in DOMAIN claim |-> None] /\ guest' = 0
  /\ UNCHANGED <<original, copies>>

CopyNext ==
  \/ \E s \in Tasks, target \in Targets : AdmitOnCopy(s, target)
  \/ \E s \in Tasks : \/ RunOnSource(s) \/ MakeCopy(s) \/ CompareSource(s) \/ ContinueOnCopy(s)
                      \/ RecordCopyRun(s) \/ StartCopyRun(s) \/ WorkInCopy(s) \/ EndCopyRun(s)
                      \/ BeginAbandon(s) \/ EndAbandon(s)
  \/ \E c \in 1..MaxCopies : StartGuest(c)
  \/ EndGuest \/ EditAnything \/ CopyCrash

(***************************************************************************)
(* Properties.                                                             *)
(***************************************************************************)
\* Once a Run is admitted to a worktree no other Run works in it before that Run has ended,
\* whether it came by the Session, by Continue or by the copy's own Workspace
\* (_admissions, workspace_busy, _workspace_execution).
CopyIsExclusive ==
  \A s \in Tasks : sess[s].pc \in {"queued", "running"} /\ sess[s].kind = "worktree" =>
    /\ guest # sess[s].copy
    /\ \A t \in Tasks \ {s} : sess[t].pc \in {"queued", "running"} => sess[t].copy # sess[s].copy

\* A Run starts only in the content its admission recorded, in a copy without an unknown
\* outcome, and in its Session's worktree once there is one, over Continue, abandonment,
\* crashes and the edits of others (_execute_copy_run, _session_worktree).
CopyStartsAsAdmitted ==
  [][\A s \in Tasks : sess'[s].pc = "running" /\ sess[s].pc # "running" =>
       LET c == sess'[s].copy IN
       /\ copies[c].content = sess[s].seen /\ c \notin tainted
       /\ sess[s].worktree \in {0, c}]_copyVars

\* Both: a copy belongs to one Run at a time, which starts in what was admitted.
CopiesAreSound == []CopyIsExclusive /\ CopyStartsAsAdmitted
=============================================================================
