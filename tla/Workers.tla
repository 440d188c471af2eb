------------------------------- MODULE Workers -------------------------------
(***************************************************************************)
(* Read-only workers (workers.py, delegate_readonly in host.py): a call of *)
(* a Run copies the source once per task, admits one child Run per task,   *)
(* waits for them with a timeout, and ends only when all of them have.     *)
(* The Runs here are those of one Session; a Continue follows the Run it   *)
(* continues, and its history is the history of that chain.                *)
(***************************************************************************)
EXTENDS Integers, Sequences, FiniteSets

CONSTANTS
  Goals,              \* model values: role and exact goal of a task
  Sources,           \* model values: what the source may contain
  MaxTasks,           \* tasks of one call (2)
  WorkersPerRun,      \* workers of one Run (4)
  MaxWorkerRuns, MaxCalls, MaxSourceEdits, MaxWorkerCrashes \* bounds

ASSUME WorkerAssumption == MaxTasks \in Nat

VARIABLES
  sourceNow,  \* the content of the Workspace
  head,       \* the latest Run: [no, chain (its first Run), status (running, over, parked, crashed),
              \* delegated, usage]
  call,       \* its delegate_readonly: [pc, goals, snaps, left (goals to admit), stop]
  kids,       \* children in the order of their run.admitted: [run, chain, task, content,
              \* started (worker.started), status, usage, settled (worker.completed)]
  workerUsed  \* bounds used: [calls, edits, crashes]

workerVars == <<sourceNow, head, call, kids, workerUsed>>

NoCall == [pc |-> "idle", goals |-> <<>>, snaps |-> <<>>, left |-> 0, stop |-> FALSE]
FirstOf(n, chain) == [no |-> n, chain |-> chain, status |-> "running", delegated |-> 0, usage |-> 0]

WorkersInit ==
  /\ sourceNow \in Sources /\ head = FirstOf(1, 1) /\ call = NoCall /\ kids = <<>>
  /\ workerUsed = [calls |-> 0, edits |-> 0, crashes |-> 0]

SpendWorker(kind, max) == workerUsed[kind] < max /\ workerUsed' = [workerUsed EXCEPT ![kind] = @ + 1]

\* validate_tasks: one or two of them.
Batches == UNION {[1..n -> Goals] : n \in 1..MaxTasks}

\* The hash of a task and of the snapshot it works on.
Fingerprint(goal, content) == <<goal, content>>

\* Fault: a worker counts from its worker.started on.
HistoryOfStarted == {Fingerprint(kids[i].task, kids[i].content) :
                       i \in {k \in DOMAIN kids : kids[k].chain = head.chain /\ kids[k].started}}

\* delegation_history: every child admitted by this Run or by one that it continues.
DelegationHistory == {Fingerprint(kids[i].task, kids[i].content) :
              i \in {k \in DOMAIN kids : kids[k].chain = head.chain}}

\* A child that completes gives a report, or an output that validate_report refuses; with what
\* it used of the model.
Outcomes == {<<"reported", 1>>, <<"failed", 0>>, <<"failed", 1>>}
WorkerRuns(i) == kids[i].status = "running"
Own == {i \in DOMAIN kids : kids[i].run = head.no}

(***************************************************************************)
(* Other programs and the Runs of the Session.                             *)
(***************************************************************************)
EditSource ==
  /\ SpendWorker("edits", MaxSourceEdits)
  /\ sourceNow' \in Sources \ {sourceNow} /\ UNCHANGED <<head, call, kids>>

\* A Run is over, or parked and continued; only a Continue belongs to the chain.
EndRun ==
  /\ head.status = "running" /\ call.pc = "idle"
  /\ \E status \in {"over", "parked"} : head' = [head EXCEPT !.status = status]
  /\ UNCHANGED <<sourceNow, call, kids, workerUsed>>

NextRun ==
  /\ head.status # "running" /\ head.no < MaxWorkerRuns
  /\ head' = FirstOf(head.no + 1, IF head.status = "over" THEN head.no + 1 ELSE head.chain)
  /\ UNCHANGED <<sourceNow, call, kids, workerUsed>>

\* SourceSnapshot.create: one state of the source, or an error when it changes meanwhile.
Snapshot == sourceNow

(***************************************************************************)
(* A call.                                                                 *)
(***************************************************************************)
\* The arguments are valid, the Run may have that many more workers.
Delegate(goals) ==
  /\ head.status = "running" /\ call.pc = "idle" /\ SpendWorker("calls", MaxCalls)
  /\ head.delegated + Len(goals) <= WorkersPerRun
  /\ call' = [NoCall EXCEPT !.pc = "copying", !.goals = goals] /\ UNCHANGED <<sourceNow, head, kids>>

\* One consistent copy per task; they must be of one source, and new to the chain and to each
\* other, or the call ends before any child is admitted.
CopySource ==
  /\ call.pc = "copying" /\ Len(call.snaps) < Len(call.goals)
  /\ call' = IF call.snaps # <<>> /\ Head(call.snaps) # Snapshot THEN NoCall
             ELSE [call EXCEPT !.snaps = Append(@, Snapshot)]
  /\ UNCHANGED <<sourceNow, head, kids, workerUsed>>

CheckHistory ==
  LET signatures == {Fingerprint(call.goals[i], call.snaps[i]) : i \in DOMAIN call.goals} IN
  /\ call.pc = "copying" /\ Len(call.snaps) = Len(call.goals)
  /\ IF signatures \cap DelegationHistory # {} \/ Cardinality(signatures) < Len(call.goals)
     THEN call' = NoCall /\ UNCHANGED head
     ELSE /\ call' = [call EXCEPT !.pc = "admitting", !.left = Len(call.goals)]
          /\ head' = [head EXCEPT !.delegated = @ + Len(call.goals)]
  /\ UNCHANGED <<sourceNow, kids, workerUsed>>

\* run.admitted with the fingerprint; the child's task runs from here on.
AdmitWorker ==
  LET i == Len(call.goals) - call.left + 1 IN
  /\ call.pc = "admitting" /\ call.left > 0
  /\ kids' = Append(kids, [run |-> head.no, chain |-> head.chain, task |-> call.goals[i],
                           content |-> call.snaps[i], started |-> FALSE, status |-> "running",
                           usage |-> 0, settled |-> FALSE])
  /\ call' = [call EXCEPT !.pc = "announcing", !.left = @ - 1]
  /\ UNCHANGED <<sourceNow, head, workerUsed>>

AnnounceWorker ==
  /\ call.pc = "announcing" /\ kids' = [kids EXCEPT ![Len(kids)].started = TRUE]
  /\ call' = [call EXCEPT !.pc = IF call.left > 0 THEN "admitting" ELSE "waiting"]
  /\ UNCHANGED <<sourceNow, head, workerUsed>>

\* A child ends by itself, or because it is cancelled; it may have asked the model before.
WorkerEnds(i) ==
  /\ WorkerRuns(i)
  /\ \E outcome \in Outcomes :
       kids' = [kids EXCEPT ![i].status = outcome[1], ![i].usage = outcome[2]]
  /\ UNCHANGED <<sourceNow, head, call, workerUsed>>

\* All have ended, or the time has: the others are cancelled.
StopWaiting ==
  /\ call.pc = "waiting" /\ call' = [call EXCEPT !.pc = "settling"]
  /\ UNCHANGED <<sourceNow, head, kids, workerUsed>>

\* The Run is cancelled and will park, or a step of the call fails, with children admitted or not.
CancelCall ==
  /\ call.pc \in {"copying", "admitting", "announcing", "waiting"}
  /\ \E stop \in BOOLEAN : call' = [call EXCEPT !.pc = "settling", !.stop = stop]
  /\ UNCHANGED <<sourceNow, head, kids, workerUsed>>

Unsettled == {i \in Own : ~kids[i].settled}

\* Fault: a worker that is being cancelled is not waited for.
SettleUnended ==
  /\ call.pc = "settling"
  /\ \E i \in Unsettled :
       /\ \A j \in Unsettled : i <= j
       /\ kids' = [kids EXCEPT ![i].settled = TRUE]
       /\ head' = [head EXCEPT !.usage = @ + kids[i].usage]
  /\ UNCHANGED <<sourceNow, call, workerUsed>>

\* finally: every child has ended before the copies go and the first one is settled.
SettleWorker ==
  /\ call.pc = "settling" /\ \A i \in Own : ~WorkerRuns(i)
  /\ \E i \in Unsettled :
       /\ \A j \in Unsettled : i <= j
       /\ kids' = [kids EXCEPT ![i].settled = TRUE]
       /\ head' = [head EXCEPT !.usage = @ + kids[i].usage]
  /\ UNCHANGED <<sourceNow, call, workerUsed>>

EndCall ==
  /\ call.pc = "settling" /\ Unsettled = {} /\ call' = NoCall
  /\ head' = IF call.stop THEN [head EXCEPT !.status = "parked"] ELSE head
  /\ UNCHANGED <<sourceNow, kids, workerUsed>>

\* The start that follows parks the Run and every child that had not ended.
CrashWorkers ==
  /\ SpendWorker("crashes", MaxWorkerCrashes) /\ call' = NoCall
  /\ head' = IF head.status = "running" THEN [head EXCEPT !.status = "crashed"] ELSE head
  /\ kids' = [i \in DOMAIN kids |-> IF WorkerRuns(i) THEN [kids[i] EXCEPT !.status = "failed"] ELSE kids[i]]
  /\ UNCHANGED sourceNow

WorkersNext ==
  \/ EditSource \/ EndRun \/ NextRun \/ (\E goals \in Batches : Delegate(goals))
  \/ CopySource \/ CheckHistory \/ AdmitWorker \/ AnnounceWorker
  \/ (\E i \in DOMAIN kids : WorkerEnds(i)) \/ StopWaiting \/ CancelCall \/ SettleWorker \/ EndCall
  \/ CrashWorkers

WorkersSpec == WorkersInit /\ [][WorkersNext]_workerVars

\* Over a Run and everything that continues it, a task is given to a worker at most once on
\* the same source: whatever was cancelled, timed out or crashed before worker.started or the
\* call's own result ("Admission is the evidence even if worker.started or the parent result
\* was never committed").
DelegatedOnce ==
  \A i, j \in DOMAIN kids :
    i # j /\ kids[i].chain = kids[j].chain
      => Fingerprint(kids[i].task, kids[i].content) # Fingerprint(kids[j].task, kids[j].content)

\* When a call is over, so are its children, on their snapshots and in the accounts: none
\* still runs, and the Run has counted what each of them used, once.
WorkersSettle ==
  call.pc = "idle" =>
    /\ \A i \in DOMAIN kids : ~WorkerRuns(i)
    /\ head.status # "crashed" => head.usage = Cardinality({i \in Own : kids[i].usage = 1})
=============================================================================
