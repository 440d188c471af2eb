----------------------------- MODULE RunRecovery -----------------------------
(***************************************************************************)
(* One Session working on one Git Workspace: how a Run dispatches tool     *)
(* calls and records what they did (host.py _execute), how it stops, how   *)
(* the next start closes a Run whose process was lost                      *)
(* (_recover_interrupted_runs, _crash_gap_evidence), and when a parked     *)
(* Session may Continue, take a new prompt or be abandoned.                *)
(*                                                                         *)
(* The log holds the facts these decisions read; every append is one       *)
(* SQLite transaction.  content is the Git-visible source, of which        *)
(* workspace_checkpoint is the digest: HEAD, the staged and the unstaged   *)
(* differences and the untracked files.  Clocks are abstract: touched says *)
(* that a path which Git still lists, or the directory of one that is      *)
(* missing, bears a time strictly after the last fact, which is all that   *)
(* changed_since looks at.  Approvals, arguments and the failure window    *)
(* are data: an outcome is chosen from those the code tells apart.         *)
(***************************************************************************)
EXTENDS Integers, SequencesExt, Absence

CONSTANTS
  Calls,      \* ids of tool calls
  ReadOnly,   \* calls of runtime_readonly_tools
  Coop,       \* calls of bash and of coroutine handlers: they can be cancelled
  Contents,   \* the Git-visible source
  Opaque,     \* a content Git cannot describe: no HEAD, a dirty submodule
  Raises,     \* a tool call may raise outside the executor's try
  MaxRuns, MaxBatch, MaxEdits, MaxCrashes \* bounds

ASSUME RecoveryAssumption ==
  /\ ReadOnly \subseteq Calls /\ Coop \subseteq Calls /\ Opaque \in Contents
  /\ None \notin Contents \cup Calls /\ Raises \in BOOLEAN
  /\ MaxRuns \in Nat /\ MaxBatch \in Nat /\ MaxEdits \in Nat /\ MaxCrashes \in Nat

VARIABLES
  log,      \* facts of the Session: [type, run, arg]
  rows,     \* runs table: continuation_of of each Run, 0 for none
  task,     \* the unfinished Run's task: [pc, call, todo]
  tool,     \* the handler in flight: [call, acted], also after the process is lost
  content, touched,
  up,       \* the process runs, after recovery
  crashes, edits,
  unseen,   \* calls whose effects no checkpoint has recorded yet
  left,     \* the content the process died with
  gap       \* what the times of files tell of the last change since then

vars == <<log, rows, task, tool, content, touched, up, crashes, edits, unseen, left, gap>>

Idle   == [pc |-> "idle", call |-> None, todo |-> <<>>]
NoTool == [call |-> None, acted |-> FALSE]
At(pc) == [task EXCEPT !.pc = pc]

Init ==
  /\ log = <<>> /\ rows = <<>> /\ task = Idle /\ tool = NoTool
  /\ content \in Contents \ {Opaque} /\ touched = FALSE /\ up = TRUE
  /\ crashes = 0 /\ edits = 0 /\ unseen = {} /\ left = content
  /\ gap = "none"

(***************************************************************************)
(* Projections of the log.                                                 *)
(***************************************************************************)
Latest    == Len(rows)
Of(k)     == {i \in DOMAIN log : log[i].run = k}
Typed(ts) == {i \in DOMAIN log : log[i].type \in ts}
Terminals == {"completed", "failed", "interrupted"}

\* RuntimeStateProjection: the first terminal fact counts; a Run without one runs.
Status(k) ==
  IF k = 0 THEN "none"
  ELSE IF Of(k) \cap Typed(Terminals) = {} THEN "running"
  ELSE log[Min(Of(k) \cap Typed(Terminals))].type

\* The Run's checkpoint, where it stands in the log, and None before there is one.
LastCheckpoint(k) == Max({0} \cup (Of(k) \cap Typed({"checkpoint"})))
Checkpoint(k) == IF LastCheckpoint(k) = 0 THEN None ELSE log[LastCheckpoint(k)].arg

CallsIn(ts)   == {log[i].arg : i \in Typed(ts)}
OwnCalls(k, ts) == {log[i].arg : i \in Of(k) \cap Typed(ts)}
Advertised    == UNION {Range(log[i].arg) : i \in Typed({"response"})}
Resolved      == CallsIn({"call.completed", "call.abandoned"})

\* _recovery_facts, MessagesProjection: calls the model was promised a result for.
Pending == Advertised \ Resolved

\* workspace_has_unknown_outcome.
HasUnknown == Typed({"call.unknown"}) # {}

\* workspace_checkpoint.
Snapshot == IF content = Opaque THEN None ELSE content

Fact(type, k, x) == [type |-> type, run |-> k, arg |-> x]

\* The transaction appends these facts; their time is later than any touch so far.
Emit(facts) == log' = log \o facts /\ touched' = FALSE

EmitCheckpoint == Emit(<<Fact("checkpoint", Latest, Snapshot)>>) /\ unseen' = {}

Abandoned(cs) == [i \in DOMAIN cs |-> Fact("call.abandoned", Latest', cs[i])]

(***************************************************************************)
(* Admission: _prepare_run.                                                *)
(***************************************************************************)
\* Fault: only the checkpoint and recorded unknown outcomes are compared.
ContinuableByContent(k) ==
  /\ Status(k) = "interrupted"
  /\ Snapshot # None /\ Snapshot = Checkpoint(k)
  /\ OwnCalls(k, {"call.unknown"}) = {}

\* _validate_continue, with the order of its checks abstracted.
Continuable(k) ==
  /\ Status(k) = "interrupted"
  /\ Snapshot # None /\ Snapshot = Checkpoint(k)
  /\ OwnCalls(k, {"call.unknown"}) = {}
  /\ \A i \in Of(k) \cap Typed({"call.completed"}) :
       i > LastCheckpoint(k) => log[i].arg \in ReadOnly
  /\ OwnCalls(k, {"prepared"}) \subseteq ReadOnly \cup Resolved

\* A prompt or a Continue is checked; what follows awaits a thread or two.
CheckAdmission(continue) ==
  /\ up /\ task = Idle /\ Latest < MaxRuns
  /\ ~ HasUnknown
  /\ IF continue THEN Continuable(Latest) ELSE Status(Latest) # "interrupted"
  /\ task' = [Idle EXCEPT !.pc = IF continue THEN "continue" ELSE "prompt"]
  /\ UNCHANGED <<log, rows, tool, content, touched, up, crashes, edits, unseen, left, gap>>

\* Fault: the calls of the interrupted Run are left unanswered.
AdmitUnpaired ==
  /\ up /\ task.pc \in {"continue", "prompt"}
  /\ rows' = Append(rows, IF task.pc = "continue" THEN Latest ELSE 0)
  /\ Emit(<<Fact("admitted", Latest', None), Fact("checkpoint", Latest', Snapshot)>>)
  /\ unseen' = {}
  /\ task' = At("queued")
  /\ UNCHANGED <<tool, content, up, crashes, edits, left, gap>>

\* Then one transaction creates the Run with its recovery facts and checkpoint.
Admit ==
  /\ up /\ task.pc \in {"continue", "prompt"}
  /\ rows' = Append(rows, IF task.pc = "continue" THEN Latest ELSE 0)
  /\ Emit(<<Fact("admitted", Latest', None)>>
            \o (IF task.pc = "continue" THEN Abandoned(SetToSeq(Pending)) ELSE <<>>)
            \o <<Fact("checkpoint", Latest', Snapshot)>>)
  /\ unseen' = {}
  /\ task' = At("queued")
  /\ UNCHANGED <<tool, content, up, crashes, edits, left, gap>>

\* _admit: under the Workspace lock the accepted source is compared again.
Start ==
  /\ up /\ task.pc = "queued"
  /\ IF Snapshot = Checkpoint(Latest)
     THEN /\ Emit(<<Fact("started", Latest, None)>>) /\ task' = At("first")
     ELSE /\ task' = At("fail") /\ UNCHANGED <<log, touched>>
  /\ UNCHANGED <<rows, tool, content, up, crashes, edits, unseen, left, gap>>

FirstCheckpoint ==
  /\ up /\ task.pc = "first" /\ EmitCheckpoint
  /\ task' = At("turn")
  /\ UNCHANGED <<rows, tool, content, up, crashes, edits, left, gap>>

(***************************************************************************)
(* Model steps.                                                            *)
(***************************************************************************)
\* A history with unanswered calls cannot be sent to a model.
Ask ==
  /\ up /\ task.pc = "turn"
  /\ IF Pending = {}
     THEN /\ Emit(<<Fact("request", Latest, None)>>) /\ task' = At("model")
     ELSE /\ task' = At("fail") /\ UNCHANGED <<log, touched>>
  /\ UNCHANGED <<rows, tool, content, up, crashes, edits, unseen, left, gap>>

\* Call ids are new to the Run, or the response is not recorded.
Batches ==
  {cs \in UNION {[1 .. n -> Calls \ Advertised] : n \in 0 .. MaxBatch} : IsInjective(cs)}

Respond(cs) ==
  /\ up /\ task.pc = "model"
  /\ Emit(<<Fact("response", Latest, cs)>>)
  /\ task' = IF cs = <<>> THEN At("complete") ELSE [pc |-> "next", call |-> None, todo |-> cs]
  /\ UNCHANGED <<rows, tool, content, up, crashes, edits, unseen, left, gap>>

\* A truncated response authorises no dispatch: its calls are answered as errors.
\* Each is a fact of its own, but nothing is awaited in between.
RespondTruncated(cs) ==
  /\ up /\ task.pc = "model"
  /\ Emit(<<Fact("response", Latest, cs)>>
            \o [i \in DOMAIN cs |-> Fact("call.abandoned", Latest, cs[i])])
  /\ task' = At("fail")
  /\ UNCHANGED <<rows, tool, content, up, crashes, edits, unseen, left, gap>>

\* The model, or what is set up for it, fails.
StepFails ==
  /\ up /\ task.pc \in {"first", "model"} /\ task' = At("fail")
  /\ UNCHANGED <<log, rows, tool, content, touched, up, crashes, edits, unseen, left, gap>>

\* The step budget, the task's step budget or the token budget is used up.
StopAtBudget ==
  /\ up
  /\ \/ task.pc = "turn" /\ task' \in {At("park"), At("parkNow")}
     \/ task.pc = "model" /\ task' = At("parkNow")
  /\ UNCHANGED <<log, rows, tool, content, touched, up, crashes, edits, unseen, left, gap>>

(***************************************************************************)
(* Tool calls.                                                             *)
(***************************************************************************)
Prepare ==
  /\ up /\ task.pc = "next" /\ task.todo # <<>>
  /\ Emit(<<Fact("prepared", Latest, Head(task.todo))>>)
  /\ task' = [pc |-> "exec", call |-> Head(task.todo), todo |-> Tail(task.todo)]
  /\ tool' = [call |-> Head(task.todo), acted |-> FALSE]
  /\ UNCHANGED <<rows, content, up, crashes, edits, unseen, left, gap>>

\* All calls of the response are done; a second failed repair ends the Run.
CallsDone ==
  /\ up /\ task.pc = "next" /\ task.todo = <<>>
  /\ task' \in {At("turn"), At("fail")}
  /\ UNCHANGED <<log, rows, tool, content, touched, up, crashes, edits, unseen, left, gap>>

\* The source may change.  The path that changed bears a newer time, or none does after it:
\* an untracked file was deleted, a time was kept (mv, cp -p), Git's own state changed (add,
\* commit, reset), or the path that bore one went.  A change may come after the look at them.
Change ==
  /\ content' \in Contents
  /\ touched' \in IF content' = content THEN {touched} ELSE BOOLEAN
  /\ gap' = IF up \/ content' = content THEN gap
            ELSE IF task.pc = "measured" THEN "late"
            ELSE IF touched' THEN "newer" ELSE "untraced"

\* A handler that is not read-only acts on the Workspace: also one whose process
\* group outlived the Host.
Act ==
  /\ tool.call \in Calls \ ReadOnly /\ ~ tool.acted
  /\ tool' = [tool EXCEPT !.acted = TRUE]
  /\ Change
  /\ unseen' = unseen \cup {tool.call}
  /\ UNCHANGED <<log, rows, task, up, crashes, edits, left>>

Executing == up /\ task.pc \in {"exec", "stop"}
ToolIsOver == tool' = NoTool

\* tool.completed, with a result or an error; budget_exceeded parks the Run.
Complete ==
  /\ Executing
  /\ Emit(<<Fact("call.completed", Latest, task.call)>>)
  /\ ToolIsOver
  /\ task' \in IF task.pc = "stop" THEN {At("park")}
               ELSE {At("parkNow"), At(IF task.call \in ReadOnly THEN "next" ELSE "post")}
  /\ UNCHANGED <<rows, content, up, crashes, edits, unseen, left, gap>>

\* tool.outcome_unknown.
CompleteUnknown ==
  /\ Executing /\ task.call \notin ReadOnly
  /\ Emit(<<Fact("call.unknown", Latest, task.call)>>)
  /\ ToolIsOver
  /\ task' = At(IF task.pc = "stop" THEN "park" ELSE "interrupt")
  /\ UNCHANGED <<rows, content, up, crashes, edits, unseen, left, gap>>

\* policy.evaluate or the contract raises: no fact is recorded for the call.
Escape ==
  /\ Raises /\ Executing /\ ~ tool.acted
  /\ ToolIsOver /\ task' = At("fail")
  /\ UNCHANGED <<log, rows, content, touched, up, crashes, edits, unseen, left, gap>>

PostCheckpoint ==
  /\ up /\ task.pc = "post" /\ EmitCheckpoint
  /\ task' = At("next")
  /\ UNCHANGED <<rows, tool, content, up, crashes, edits, left, gap>>

\* tool_loops: three equal failures without progress.  The calls that were not
\* dispatched are answered as errors.
ParkLoop ==
  /\ up /\ task.pc = "next" /\ task.call # None
  /\ Emit(<<Fact("loop", Latest, None)>>
            \o [i \in DOMAIN task.todo |-> Fact("call.abandoned", Latest, task.todo[i])])
  /\ task' = At("park")
  /\ UNCHANGED <<rows, tool, content, up, crashes, edits, unseen, left, gap>>

(***************************************************************************)
(* Cancellation and the end of a Run.                                      *)
(***************************************************************************)
\* Fault: the tool is left to itself.
CancelDetached ==
  /\ up
  /\ \/ task.pc \in {"first", "model", "post"} /\ task' = At("park")
     \/ task.pc = "exec" /\ task' = At("park")
     \/ task.pc = "queued" /\ task' = At("interrupt")
  /\ UNCHANGED <<log, rows, tool, content, touched, up, crashes, edits, unseen, left, gap>>

\* A cancellation is raised where the task awaits; a tool is waited for, a queued
\* Run is closed at once.
Cancel ==
  /\ up
  /\ \/ task.pc \in {"first", "model", "post"} /\ task' = At("park")
     \/ task.pc = "exec" /\ task' = At("stop")
     \/ task.pc = "queued" /\ task' = At("interrupt")
  /\ UNCHANGED <<log, rows, tool, content, touched, up, crashes, edits, unseen, left, gap>>

\* A command or a coroutine handler was cancelled and its process terminated.
Terminated ==
  /\ up /\ task.pc = "stop" /\ task.call \in Coop
  /\ ToolIsOver /\ task' = At("park")
  /\ UNCHANGED <<log, rows, content, touched, up, crashes, edits, unseen, left, gap>>

LastIsCheckpoint == Of(Latest) # {} /\ log[Max(Of(Latest))].type = "checkpoint"

\* A parked Run ends with a checkpoint; a further cancellation skips it.
ParkCheckpoint ==
  /\ up /\ task.pc \in {"park", "parkNow"}
  /\ IF task.pc = "park" /\ LastIsCheckpoint THEN UNCHANGED <<log, touched, unseen>> ELSE EmitCheckpoint
  /\ task' = At("interrupt")
  /\ UNCHANGED <<rows, tool, content, up, crashes, edits, left, gap>>

CancelPark ==
  /\ up /\ task.pc \in {"park", "parkNow"}
  /\ task' = At("interrupt")
  /\ UNCHANGED <<log, rows, tool, content, touched, up, crashes, edits, unseen, left, gap>>

\* The terminal fact.
Finish ==
  /\ up /\ task.pc \in {"complete", "fail", "interrupt"}
  /\ Emit(<<Fact(CASE task.pc = "complete" -> "completed" [] task.pc = "fail" -> "failed"
                   [] OTHER -> "interrupted", Latest, None)>>)
  /\ task' = Idle
  /\ UNCHANGED <<rows, tool, content, up, crashes, edits, unseen, left, gap>>

(***************************************************************************)
(* abandon_interruption: a successor Run answers what is pending.  Every   *)
(* fact is a transaction of its own.                                       *)
(***************************************************************************)
Abandon ==
  /\ up /\ task = Idle /\ Latest < MaxRuns /\ Status(Latest) = "interrupted"
  /\ rows' = Append(rows, Latest) /\ task' = At("created")
  /\ UNCHANGED <<log, tool, content, touched, up, crashes, edits, unseen, left, gap>>

AbandonStart ==
  /\ up /\ task.pc = "created"
  /\ Emit(<<Fact("started", Latest, None)>>) /\ task' = At("abandon")
  /\ UNCHANGED <<rows, tool, content, up, crashes, edits, unseen, left, gap>>

AbandonCall(c) ==
  /\ up /\ task.pc = "abandon" /\ c \in Pending
  /\ Emit(<<Fact("call.abandoned", Latest, c)>>)
  /\ UNCHANGED <<rows, task, tool, content, up, crashes, edits, unseen, left, gap>>

AbandonFinish ==
  /\ up /\ task.pc = "abandon" /\ Pending = {}
  /\ Emit(<<Fact("completed", Latest, None)>>) /\ task' = Idle
  /\ UNCHANGED <<rows, tool, content, up, crashes, edits, unseen, left, gap>>

(***************************************************************************)
(* The world, the loss of the process, and recovery.                       *)
(***************************************************************************)
Edit ==
  /\ edits < MaxEdits /\ edits' = edits + 1
  /\ Change /\ content' # content
  /\ UNCHANGED <<log, rows, task, tool, up, crashes, unseen, left>>

\* Threads die with the process; the process group of a command may not.
Crash ==
  /\ crashes < MaxCrashes /\ crashes' = crashes + 1
  /\ up \/ task # Idle
  /\ up' = FALSE /\ task' = Idle /\ left' = IF up THEN content ELSE left
  /\ tool' \in {NoTool} \cup (IF tool.call \in Coop THEN {tool} ELSE {})
  /\ gap' = IF up THEN "none" ELSE gap
  /\ UNCHANGED <<log, rows, content, touched, edits, unseen>>

OrphanEnds ==
  /\ tool.call # None /\ ~ (Executing /\ task.call = tool.call)
  /\ ToolIsOver
  /\ UNCHANGED <<log, rows, task, content, touched, up, crashes, edits, unseen, left, gap>>

Queued(k) == Of(k) \cap Typed({"started"}) = {} /\ Of(k) \cap Typed({"admitted"}) # {}

\* Fault: the checkpoint is taken without asking what was touched since.
TrustsWorkspace(k) == ~ Queued(k) /\ Of(k) # {}

\* changed_since: no path bears a time after the Run's last fact.
NothingNewer(k) == ~ Queued(k) /\ Of(k) # {} /\ ~ touched

\* _crash_gap_evidence: the next start looks at the times of the files first, ...
MeasureGap ==
  /\ ~ up /\ task = Idle /\ Status(Latest) = "running" /\ NothingNewer(Latest)
  /\ task' = At("measured")
  /\ UNCHANGED <<log, rows, tool, content, touched, up, crashes, edits, unseen, left, gap>>

\* ... then reads the source, if Git can, and appends it as the Run's checkpoint, ...
RecoverCheckpoint ==
  /\ ~ up /\ task.pc = "measured" /\ Snapshot # None
  /\ EmitCheckpoint /\ task' = At("recovered")
  /\ UNCHANGED <<rows, tool, content, up, crashes, edits, left, gap>>

\* ... and closes the Run, if there is one.
Recover ==
  /\ ~ up /\ up' = TRUE /\ task' = Idle /\ gap' = "none"
  /\ IF Status(Latest) = "running"
     THEN Emit(<<Fact("interrupted", Latest, None)>>)
     ELSE UNCHANGED <<log, touched>>
  /\ UNCHANGED <<rows, tool, content, crashes, edits, unseen, left>>

Next ==
  \/ \E continue \in BOOLEAN : CheckAdmission(continue)
  \/ Admit \/ Start \/ FirstCheckpoint \/ Ask \/ StepFails \/ StopAtBudget
  \/ \E cs \in Batches : Respond(cs) \/ RespondTruncated(cs)
  \/ Prepare \/ CallsDone \/ Act \/ Complete \/ CompleteUnknown \/ Escape \/ PostCheckpoint
  \/ ParkLoop \/ Cancel \/ Terminated \/ ParkCheckpoint \/ CancelPark \/ Finish
  \/ Abandon \/ AbandonStart \/ AbandonFinish
  \/ \E c \in Calls : AbandonCall(c)
  \/ Edit \/ Crash \/ OrphanEnds \/ MeasureGap \/ RecoverCheckpoint \/ Recover

Spec == Init /\ [][Next]_vars

(***************************************************************************)
(* Invariants.                                                             *)
(***************************************************************************)
\* ADR-021: a tool acts only while its Run is unfinished and its task waits for
\* it, except a process that the Host's own end left behind.
StoppedToolsAreStill ==
  tool.call # None /\ crashes = 0 =>
    Executing /\ task.call = tool.call /\ Status(Latest) = "running"

\* A prompt finds every call of the history answered, unless a tool call of a
\* failed Run had raised past the executor.
UnpairedOnlyByEscape ==
  up /\ task = Idle /\ Status(Latest) \in {"completed", "failed"} /\ Pending # {} =>
    \E k \in 1 .. Latest :
      Status(k) = "failed" /\ ~ OwnCalls(k, {"prepared"}) \subseteq Resolved

\* The same, without the exception.
SessionUsable ==
  up /\ task = Idle /\ Status(Latest) \in {"completed", "failed"} => Pending = {}

(***************************************************************************)
(* What a step may never do.                                               *)
(***************************************************************************)
Continues == task.pc = "continue" /\ task'.pc = "queued"

\* A Run is continued only if each of its side-effecting calls is recorded as
\* completed, no longer acts, and is covered by a checkpoint.
ContinueIsSound ==
  [][Continues =>
       LET own == OwnCalls(Latest, {"prepared"}) \ ReadOnly
       IN /\ own \subseteq CallsIn({"call.completed"})
          /\ tool.call \notin own /\ own \cap unseen = {}]_vars

\* ADR-015, of the whole chain of interrupted Runs that is continued.
Chain[k \in 0 .. MaxRuns] ==
  IF k = 0 THEN {} ELSE {k} \cup Chain[rows[k]]

NoUnknownContinued ==
  [][Continues =>
       \A k \in Chain[Latest] :
         OwnCalls(k, {"prepared"}) \ ReadOnly \subseteq CallsIn({"call.completed"})]_vars

Recovers == ~ up /\ Len(log') > Len(log) /\ log'[Len(log')].type = "checkpoint"

\* ADR-036: the checkpoint that recovery appends is the source the Host died with, unless the
\* last change since then left no path with a newer time, or came after the look at the times.
\* A newer time keeps recovery from it through every further crash and start.
RecoveryIsHonest ==
  [][Recovers => log'[Len(log')].arg = left \/ gap \in {"untraced", "late"}]_vars
=============================================================================
