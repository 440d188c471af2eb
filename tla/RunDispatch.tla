---------------------------- MODULE RunDispatch ----------------------------
(***************************************************************************)
(* One RuntimeHost: admission of root Runs into the 4 + 20 capacity of     *)
(* scheduler.py, their dispatch (run_dispatch.py), the Session and         *)
(* Workspace locks of host.py under which they execute, the control        *)
(* operations and the abandon action that use the same locks, cancellation,*)
(* Host.close, a crash, and the recovery at the next start.                *)
(*                                                                         *)
(* The program is one asyncio event loop: code between two awaits is       *)
(* atomic, so an action here is the code from one await to the next.  All  *)
(* volatile state is the record host; it is lost in a crash.  fact, log    *)
(* and cont are what RuntimeStore keeps.                                   *)
(***************************************************************************)
EXTENDS RunLedger

CONSTANTS
  ActiveRoots,   \* SchedulingLimits.active_roots
  WaitingRoots,  \* SchedulingLimits.waiting_roots
  MaxRestarts    \* bound on crashes and orderly closes

Locks == Sessions \cup Workspaces

ASSUME LimitAssumption ==
  ActiveRoots \in Nat \ {0} /\ WaitingRoots \in Nat /\ MaxRestarts \in Nat

VARIABLES
  host,      \* memory of the RuntimeHost, its scheduler and its dispatch
  mode,      \* "up", "closing" (Host._closed) or "down" (no process)
  restarts   \* crashes and closes so far, bounded by MaxRestarts

vars == <<fact, log, cont, host, mode, restarts>>

(***************************************************************************)
(* Where an actor's task stands.  idle: no task.  wantPrep, wantS, wantW:  *)
(* queued on the Workspace lock of _prepare_run, on the Session lock, on   *)
(* the Workspace lock.  awaitS, awaitW: released the lock again and waits  *)
(* for an admission's done event.  accepted: durable, no task yet.         *)
(* pending, go: task waits for dispatch; dispatched.  inside: a control or *)
(* an abandon holds its locks.  cancelled, ended: the task is over, its    *)
(* done callback has not run.                                              *)
(***************************************************************************)
PCs == {"idle", "wantPrep", "preparing", "accepted", "pending", "go", "wantS",
        "awaitS", "wantW", "awaitW", "checking", "executing", "inside",
        "cancelled", "ended", "done"}

Fresh(f) ==
  [pc     |-> [a \in Actors |-> IF a \in Turns /\ f[a] # "none"
                                THEN "done" ELSE "idle"],
   seen   |-> [t \in Turns |-> None],       \* previous Run a request has read
   awaits |-> [a \in Actors |-> None],      \* admission whose done event it awaits
   ticket |-> [r \in Runs |-> "none"],      \* RuntimeScheduler._tickets, by lane
   roots  |-> {},                           \* RuntimeScheduler._roots
   claim  |-> [w \in Workspaces |-> None],  \* RuntimeHost._admissions
   owned  |-> {},                           \* RuntimeHost._admission_done
   holder |-> [l \in Locks |-> None],       \* asyncio.Lock: the holder
   queue  |-> [l \in Locks |-> <<>>]]       \* asyncio.Lock: FIFO waiters

Init ==
  /\ LedgerInit
  /\ host = Fresh(fact)
  /\ mode = "up"
  /\ restarts = 0

(***************************************************************************)
(* The scheduler: projections of the log and of the transient ownership.   *)
(***************************************************************************)
Ticketed(h) == {r \in Runs : h.ticket[r] # "none"}
Held(h)     == Ticketed(h) \cup h.roots

ActiveSet(f, h) ==
  h.roots \cup {r \in Runs : h.ticket[r] = "active"}
          \cup {r \in Runs : f[r] = "started" /\ r \notin Held(h)}
WaitingSet(f, h) ==
  {r \in Runs : h.ticket[r] = "waiting"}
    \cup {r \in Runs : f[r] = "admitted" /\ r \notin Held(h)}

\* Fault: only the tickets of the waiting lane are counted, not the queue.
LanesWithoutQueue(f, h) ==
  IF Cardinality(ActiveSet(f, h)) < ActiveRoots THEN {"active"}
  ELSE IF Cardinality({r \in Runs : h.ticket[r] = "waiting"}) < WaitingRoots THEN {"waiting"}
  ELSE {}

Lanes(f, h) ==
  IF Cardinality(ActiveSet(f, h)) < ActiveRoots THEN {"active"}
  ELSE IF Cardinality(WaitingSet(f, h)) < WaitingRoots THEN {"waiting"}
  ELSE {}

PendingIn(f, h, s) ==
  \E r \in Runs : /\ SessionOf[r] = s
                  /\ r \in Held(h) \/ f[r] \in {"admitted", "started"}

SessionBusy(h, s) ==
  h.holder[s] # None \/ \E r \in h.owned : SessionOf[r] = s
WorkspaceBusy(h, w) == h.claim[w] # None \/ h.holder[w] # None

(***************************************************************************)
(* dispatch(): while root capacity is left, the oldest queued Run whose    *)
(* task is waiting, whose Session has no other work and whose execution    *)
(* key and Session lock are free is claimed.  ClaimSets gives the set the  *)
(* whole loop claims.                                                      *)
(***************************************************************************)
Claimable(f, h, r) ==
  /\ h.pc[r] = "pending" /\ f[r] = "admitted" /\ r \notin Held(h)
  /\ h.holder[SessionOf[r]] = None
  /\ ~ WorkspaceBusy(h, WorkspaceOf[r])
  /\ \A q \in Runs : (q \in Held(h) \/ f[q] = "started") => SessionOf[q] # SessionOf[r]

Conflict(q, r) == SessionOf[q] = SessionOf[r] \/ WorkspaceOf[q] = WorkspaceOf[r]

\* Fault: the newest queued Run is claimed first.
NewestFirst(f, h) ==
  LET ready  == {r \in Runs : Claimable(f, h, r)}
      active == Cardinality(ActiveSet(f, h))
  IN  {C \in SUBSET ready :
         /\ C # {} => active + Cardinality(C) <= ActiveRoots
         /\ \A q, r \in C : Older(q, r) => ~ Conflict(q, r)
         /\ \A r \in ready \ C :
              \/ \E q \in C : Older(r, q) /\ Conflict(q, r)
              \/ active + Cardinality({q \in C : Older(r, q)}) >= ActiveRoots}

ClaimSets(f, h) ==
  LET ready  == {r \in Runs : Claimable(f, h, r)}
      active == Cardinality(ActiveSet(f, h))
  IN  {C \in SUBSET ready :
         /\ C # {} => active + Cardinality(C) <= ActiveRoots
         /\ \A q, r \in C : Older(q, r) => ~ Conflict(q, r)
         /\ \A r \in ready \ C :
              \/ \E q \in C : Older(q, r) /\ Conflict(q, r)
              \/ active + Cardinality({q \in C : Older(q, r)}) >= ActiveRoots}

\* Fault: the root lease is taken when the task starts to execute, too late.
GrantUnleased(h, C) ==
  [h EXCEPT !.claim = [w \in Workspaces |->
                         IF \E r \in C : WorkspaceOf[r] = w
                         THEN CHOOSE r \in C : WorkspaceOf[r] = w ELSE @[w]],
            !.pc    = [a \in Actors |-> IF a \in C THEN "go" ELSE @[a]]]

Grant(h, C) ==
  [h EXCEPT !.roots = @ \cup C,
            !.claim = [w \in Workspaces |->
                         IF \E r \in C : WorkspaceOf[r] = w
                         THEN CHOOSE r \in C : WorkspaceOf[r] = w ELSE @[w]],
            !.pc    = [a \in Actors |-> IF a \in C THEN "go" ELSE @[a]]]

Dispatch(f, h) ==
  IF mode = "up" THEN {Grant(h, C) : C \in ClaimSets(f, h)} ELSE {h}

(***************************************************************************)
(* asyncio.Lock: a released lock is free, but its first waiter, already    *)
(* woken, gets it before anyone who asks later.                            *)
(***************************************************************************)
Uncontended(h, l) == h.holder[l] = None /\ h.queue[l] = <<>>
Enqueue(h, l, a, at) == [h EXCEPT !.queue[l] = Append(@, a), !.pc[a] = at]

\* A waiter is in a queue at most once.
Without(q, a) ==
  IF \A i \in 1..Len(q) : q[i] # a THEN q
  ELSE LET i == CHOOSE i \in 1..Len(q) : q[i] = a
       IN  [j \in 1..(Len(q) - 1) |-> IF j < i THEN q[j] ELSE q[j + 1]]

Leave(h, a) ==
  [h EXCEPT !.holder = [l \in Locks |-> IF @[l] = a THEN None ELSE @[l]],
            !.queue  = [l \in Locks |-> Without(@[l], a)],
            !.awaits[a] = None]

Unclaimed(claim, r) == [w \in Workspaces |-> IF claim[w] = r THEN None ELSE claim[w]]

\* Fault: the done event is set, the claim stays.
ReleaseDoneOnly(h, r) == [h EXCEPT !.owned = @ \ {r}]

\* Fault: the claim is popped, the done event never set.
ReleaseClaimOnly(h, r) == [h EXCEPT !.claim = Unclaimed(@, r)]

ReleaseAdmission(h, r) ==
  [h EXCEPT !.claim = Unclaimed(@, r), !.owned = @ \ {r}]

\* _workspace_execution, the lock acquired at this instant.
GotWorkspace(h, a) ==
  LET w == WorkspaceOf[a]
  IN  IF h.claim[w] \in {None, a}
      THEN [h EXCEPT !.holder[w] = a,
                     !.pc[a] = IF a \in Runs THEN "checking" ELSE "inside"]
      ELSE [h EXCEPT !.awaits[a] = h.claim[w], !.pc[a] = "awaitW"]

EnterWorkspace(h, a) ==
  IF Uncontended(h, WorkspaceOf[a]) THEN GotWorkspace(h, a)
  ELSE Enqueue(h, WorkspaceOf[a], a, "wantW")

\* Fault: the search for a pending admission does not leave out the own identity.
GotSessionSelf(h, a) ==
  LET s     == SessionOf[a]
      other == {r \in h.owned \cup {a} : SessionOf[r] = s}
  IN  IF other = {} THEN EnterWorkspace([h EXCEPT !.holder[s] = a], a)
      ELSE [h EXCEPT !.awaits[a] = CHOOSE r \in other : TRUE, !.pc[a] = "awaitS"]

\* _session_execution, the lock acquired at this instant; then the Workspace.
GotSession(h, a) ==
  LET s     == SessionOf[a]
      other == {r \in h.owned : SessionOf[r] = s /\ r # a}
  IN  IF other = {} THEN EnterWorkspace([h EXCEPT !.holder[s] = a], a)
      ELSE [h EXCEPT !.awaits[a] = CHOOSE r \in other : TRUE, !.pc[a] = "awaitS"]

EnterSession(h, a) ==
  IF Uncontended(h, SessionOf[a]) THEN GotSession(h, a)
  ELSE Enqueue(h, SessionOf[a], a, "wantS")

\* _prepare_run owns the Workspace and reads the Session's latest Run.
Own(h, r) ==
  [h EXCEPT !.holder[WorkspaceOf[r]] = r, !.claim[WorkspaceOf[r]] = r,
            !.owned = @ \cup {r}, !.seen[r] = Latest(SessionOf[r]),
            !.pc[r] = "preparing"]

(***************************************************************************)
(* Admission.                                                              *)
(***************************************************************************)
RequestGuard(r) ==
  /\ mode = "up" /\ host.pc[r] = "idle"
  /\ ~ SessionBusy(host, SessionOf[r])
  /\ ~ PendingIn(fact, host, SessionOf[r])

Request(r) ==
  /\ RequestGuard(r)
  /\ ~ WorkspaceBusy(host, WorkspaceOf[r])
  /\ \E lane \in Lanes(fact, host) :
       LET h == [host EXCEPT !.ticket[r] = lane]
       IN  host' = IF Uncontended(h, WorkspaceOf[r]) THEN Own(h, r)
                   ELSE Enqueue(h, WorkspaceOf[r], r, "wantPrep")
  /\ UNCHANGED <<fact, log, cont, mode, restarts>>

\* A reservation that finds the Workspace busy is undone, and dispatch() runs.
RequestBusy(r) ==
  /\ RequestGuard(r) /\ Lanes(fact, host) # {}
  /\ WorkspaceBusy(host, WorkspaceOf[r])
  /\ host' \in Dispatch(fact, host)
  /\ UNCHANGED <<fact, log, cont, mode, restarts>>

\* Fault: Continue only looks whether there is an earlier Run.
AdmissionOfAny(r) == (r \in Continues) <=> (host.seen[r] # None)

\* Continue needs an interrupted latest Run, a new message needs none.
AdmissionValid(r) ==
  (r \in Continues) <=> (host.seen[r] # None /\ fact[host.seen[r]] = "interrupted")

Admit(r) ==
  /\ mode = "up" /\ host.pc[r] = "preparing"
  /\ AdmissionValid(r)
  /\ fact' = [fact EXCEPT ![r] = "admitted"]
  /\ log'  = Append(log, r)
  /\ cont' = [cont EXCEPT ![r] = IF r \in Continues THEN host.seen[r] ELSE None]
  /\ LET lease == host.ticket[r] = "active"
         h == [host EXCEPT !.holder[WorkspaceOf[r]] = None,
                           !.ticket[r] = "none",
                           !.roots = IF lease THEN @ \cup {r} ELSE @,
                           !.claim = IF lease THEN @ ELSE Unclaimed(@, r),
                           !.pc[r] = "accepted"]
     IN  host' \in Dispatch(fact', h)
  /\ UNCHANGED <<mode, restarts>>

\* A failed check, a disconnected client or close(): nothing durable remains.
Refuse(r) ==
  /\ mode # "down" /\ host.pc[r] \in {"wantPrep", "preparing"}
  /\ LET h == [ReleaseAdmission(Leave(host, r), r)
                 EXCEPT !.ticket[r] = "none", !.pc[r] = "idle"]
     IN  host' \in Dispatch(fact, h)
  /\ UNCHANGED <<fact, log, cont, mode, restarts>>

(***************************************************************************)
(* The task of an accepted Run.                                            *)
(***************************************************************************)
Start(r) ==
  /\ mode = "up" /\ host.pc[r] = "accepted"
  /\ host' \in IF r \in host.roots THEN {[host EXCEPT !.pc[r] = "go"]}
               ELSE Dispatch(fact, [host EXCEPT !.pc[r] = "pending"])
  /\ UNCHANGED <<fact, log, cont, mode, restarts>>

Begin(r) ==
  /\ mode = "up" /\ host.pc[r] = "go"
  /\ host' = EnterSession(host, r)
  /\ UNCHANGED <<fact, log, cont, mode, restarts>>

\* The checkpoint still matches the one accepted: run.started.
Execute(r) ==
  /\ mode = "up" /\ host.pc[r] = "checking"
  /\ fact' = [fact EXCEPT ![r] = "started"]
  /\ host' = [host EXCEPT !.pc[r] = "executing"]
  /\ UNCHANGED <<log, cont, mode, restarts>>

\* Fault: a Run that lost its locks is reported as completed.
OutcomesTooGood(at) ==
  CASE at = "executing" -> Terminal
    [] at = "checking"  -> {"failed", "interrupted"}
    [] at = "go"        -> {"failed"}
    [] at \in {"wantS", "awaitS", "wantW", "awaitW"} -> {"interrupted", "completed"}
    [] OTHER            -> {}

Outcomes(at) ==
  CASE at = "executing" -> Terminal
    [] at = "checking"  -> {"failed", "interrupted"}
    [] at = "go"        -> {"failed"}
    [] at \in {"wantS", "awaitS", "wantW", "awaitW"} -> {"interrupted"}
    [] OTHER            -> {}

\* The task leaves _admit: terminal fact, locks, dispatch(), admission.
Unwind(r) ==
  /\ mode # "down"
  /\ \E out \in Outcomes(host.pc[r]) : fact' = [fact EXCEPT ![r] = out]
  /\ LET h == [Leave(host, r) EXCEPT !.pc[r] = "ended"]
     IN  \E d \in IF host.holder[SessionOf[r]] = r THEN Dispatch(fact', h) ELSE {h} :
           host' = ReleaseAdmission(d, r)
  /\ UNCHANGED <<log, cont, mode, restarts>>

\* A task cancelled before it ran leaves everything to its done callback.
CancelUnstarted(r) ==
  /\ mode # "down" /\ host.pc[r] \in {"pending", "go"}
  /\ host' = [host EXCEPT !.pc[r] = "cancelled"]
  /\ UNCHANGED <<fact, log, cont, mode, restarts>>

\* Fault: the queue is not advanced.
FinishedSilently(f, h, r) ==
  {[ReleaseAdmission(h, r) EXCEPT !.roots = @ \ {r}, !.pc[r] = "done"]}

\* dispatch.finished(): the root lease is released and the queue advances.
Finished(f, h, r) ==
  Dispatch(f, [ReleaseAdmission(h, r) EXCEPT !.roots = @ \ {r}, !.pc[r] = "done"])

\* Fault: a task cancelled before it ran gets no terminal fact.
InterruptNever(f, r) == f

Interrupt(f, r) == IF f[r] \in Terminal THEN f ELSE [f EXCEPT ![r] = "interrupted"]

\* Accepted, no task yet: cancel_run and close() finish it in place.
CancelAccepted(r) ==
  /\ mode # "down" /\ host.pc[r] = "accepted"
  /\ fact' = Interrupt(fact, r)
  /\ host' \in Finished(fact', host, r)
  /\ UNCHANGED <<log, cont, mode, restarts>>

DoneCallback(r) ==
  /\ mode # "down" /\ host.pc[r] \in {"cancelled", "ended"}
  /\ fact' = Interrupt(fact, r)
  /\ host' \in Finished(fact', host, r)
  /\ UNCHANGED <<log, cont, mode, restarts>>

(***************************************************************************)
(* Control operations: _workspace_execution(workspace) with no Run.        *)
(***************************************************************************)
EnterControl(c) ==
  /\ mode = "up" /\ host.pc[c] = "idle"
  /\ host' = EnterWorkspace(host, c)
  /\ UNCHANGED <<fact, log, cont, mode, restarts>>

LeaveControl(c) ==
  /\ mode # "down" /\ host.pc[c] \in {"wantW", "awaitW", "inside"}
  /\ LET h == [Leave(host, c) EXCEPT !.pc[c] = "idle"]
     IN  host' \in IF host.pc[c] = "inside" THEN Dispatch(fact, h) ELSE {h}
  /\ UNCHANGED <<fact, log, cont, mode, restarts>>

(***************************************************************************)
(* Abandon: the route's checks, then Session lock and Workspace lock.      *)
(***************************************************************************)
Abandon(a) ==
  /\ mode = "up" /\ host.pc[a] = "idle"
  /\ ~ SessionBusy(host, SessionOf[a]) /\ ~ WorkspaceBusy(host, WorkspaceOf[a])
  /\ Parked(SessionOf[a])
  /\ host' = EnterSession([host EXCEPT !.seen[a] = Latest(SessionOf[a])], a)
  /\ UNCHANGED <<fact, log, cont, mode, restarts>>

\* Both locks held: still parked by the same Run, so its successor is recorded.
AbandonOpen(a) ==
  /\ mode # "down" /\ host.pc[a] = "inside"
  /\ Parked(SessionOf[a]) /\ Latest(SessionOf[a]) = host.seen[a]
  /\ fact' = [fact EXCEPT ![a] = "started"]
  /\ log'  = Append(log, a)
  /\ cont' = [cont EXCEPT ![a] = host.seen[a]]
  /\ host' = [host EXCEPT !.pc[a] = "executing"]
  /\ UNCHANGED <<mode, restarts>>

AbandonClose(a) ==
  /\ mode # "down" /\ host.pc[a] = "executing"
  /\ fact' = [fact EXCEPT ![a] = "completed"]
  /\ host' \in Dispatch(fact', [Leave(host, a) EXCEPT !.pc[a] = "done"])
  /\ UNCHANGED <<log, cont, mode, restarts>>

\* The Session changed while it waited, or the request was cancelled.
AbandonLeave(a) ==
  /\ mode # "down" /\ host.pc[a] \in {"wantS", "awaitS", "wantW", "awaitW", "inside"}
  /\ LET h == [Leave(host, a) EXCEPT !.pc[a] = "idle"]
     IN  host' \in IF host.holder[SessionOf[a]] = a THEN Dispatch(fact, h) ELSE {h}
  /\ UNCHANGED <<fact, log, cont, mode, restarts>>

(***************************************************************************)
(* The event loop resumes the first waiter of a free lock, or a task whose *)
(* awaited admission is done.                                              *)
(***************************************************************************)
Resume(l) ==
  /\ mode # "down" /\ host.holder[l] = None /\ host.queue[l] # <<>>
  /\ LET a == Head(host.queue[l])
         h == [host EXCEPT !.queue[l] = Tail(@)]
     IN  host' = IF l \in Sessions THEN GotSession(h, a)
                 ELSE IF host.pc[a] = "wantPrep" THEN Own(h, a)
                 ELSE GotWorkspace(h, a)
  /\ UNCHANGED <<fact, log, cont, mode, restarts>>

WakeDone(a) ==
  /\ mode # "down" /\ host.pc[a] \in {"awaitS", "awaitW"}
  /\ host.awaits[a] \notin host.owned
  /\ LET h == [host EXCEPT !.awaits[a] = None]
     IN  host' = IF host.pc[a] = "awaitS" THEN EnterSession(h, a)
                 ELSE EnterWorkspace(h, a)
  /\ UNCHANGED <<fact, log, cont, mode, restarts>>

(***************************************************************************)
(* The process: orderly close, crash, and recovery of unfinished Runs.     *)
(***************************************************************************)
Close ==
  /\ mode = "up" /\ restarts < MaxRestarts
  /\ mode' = "closing" /\ restarts' = restarts + 1
  /\ UNCHANGED <<fact, log, cont, host>>

\* Fault: close() forgets the admissions that have no task yet.
ExitTasksOnly ==
  /\ mode = "closing" /\ \A a \in Actors : host.pc[a] \in {"idle", "accepted", "done"}
  /\ mode' = "down" /\ host' = Fresh(fact)
  /\ UNCHANGED <<fact, log, cont, restarts>>

Exit ==
  /\ mode = "closing" /\ \A a \in Actors : host.pc[a] \in {"idle", "done"}
  /\ mode' = "down" /\ host' = Fresh(fact)
  /\ UNCHANGED <<fact, log, cont, restarts>>

Crash ==
  /\ mode # "down" /\ restarts < MaxRestarts
  /\ mode' = "down" /\ restarts' = restarts + 1 /\ host' = Fresh(fact)
  /\ UNCHANGED <<fact, log, cont>>

\* Each Run the log left unfinished is closed in a transaction of its own; the
\* Host accepts work only when none is left.
RecoverRun(t) ==
  /\ mode = "down" /\ Unfinished(t)
  /\ fact' = [fact EXCEPT ![t] = "interrupted"]
  /\ host' = Fresh(fact')
  /\ UNCHANGED <<log, cont, mode, restarts>>

Reopen ==
  /\ mode = "down" /\ \A t \in Turns : ~ Unfinished(t)
  /\ mode' = "up"
  /\ UNCHANGED <<fact, log, cont, host, restarts>>

Next ==
  \/ \E r \in Runs : \/ Request(r) \/ RequestBusy(r) \/ Admit(r) \/ Refuse(r)
                     \/ Start(r) \/ Begin(r) \/ Execute(r) \/ Unwind(r)
                     \/ CancelUnstarted(r) \/ CancelAccepted(r) \/ DoneCallback(r)
  \/ \E c \in Controls : EnterControl(c) \/ LeaveControl(c)
  \/ \E a \in Abandons : Abandon(a) \/ AbandonOpen(a) \/ AbandonClose(a) \/ AbandonLeave(a)
  \/ \E l \in Locks : Resume(l)
  \/ \E a \in Actors : WakeDone(a)
  \/ \E t \in Turns : RecoverRun(t)
  \/ Close \/ Exit \/ Crash \/ Reopen

Spec == Init /\ [][Next]_vars

(***************************************************************************)
(* Fairness.  The loop runs every ready callback and task; a check, a run  *)
(* and a control operation under their locks end (they have timeouts); the *)
(* route starts what it accepted.  Clients need not send or cancel.        *)
(***************************************************************************)
InBody(a) == host.pc[a] \in {"preparing", "checking", "executing", "inside"}

Fairness ==
  /\ \A r \in Runs :
       /\ WF_vars(InBody(r) /\ (Admit(r) \/ Refuse(r)))
       /\ WF_vars(InBody(r) /\ (Execute(r) \/ Unwind(r)))
       /\ WF_vars(Start(r)) /\ WF_vars(Begin(r)) /\ WF_vars(DoneCallback(r))
  /\ \A c \in Controls : WF_vars(InBody(c) /\ LeaveControl(c))
  /\ \A a \in Abandons : /\ WF_vars(InBody(a) /\ (AbandonOpen(a) \/ AbandonLeave(a)))
                         /\ WF_vars(AbandonClose(a))
  /\ \A l \in Locks : WF_vars(Resume(l))
  /\ \A a \in Actors : WF_vars(WakeDone(a))
  /\ \A t \in Turns : WF_vars(RecoverRun(t))
  /\ WF_vars(Reopen)

FairSpec == Spec /\ Fairness

(***************************************************************************)
(* Types.                                                                  *)
(***************************************************************************)
HostType ==
  [pc     : [Actors -> PCs],
   seen   : [Turns -> Turns \cup {None}],
   awaits : [Actors -> Runs \cup {None}],
   ticket : [Runs -> {"none", "active", "waiting"}],
   roots  : SUBSET Runs,
   claim  : [Workspaces -> Runs \cup {None}],
   owned  : SUBSET Runs,
   holder : [Locks -> Actors \cup {None}],
   queue  : [Locks -> Seq(Actors)]]

\* Every variable keeps the shape its comment gives it.
TypeOK ==
  /\ fact \in [Turns -> Facts]
  /\ log \in Seq(Turns)
  /\ cont \in [Turns -> Turns \cup {None}]
  /\ host \in HostType
  /\ mode \in {"up", "closing", "down"}
  /\ restarts \in 0..MaxRestarts
(***************************************************************************)
(* Safety.                                                                 *)
(***************************************************************************)
\* Leases, active tickets and running Runs that neither has never exceed the 4
\* active roots (scheduler.py SchedulingLimits): capacity is looked at once, in
\* reserve_admission and claim_next, and every later handover conserves it.
ActiveBound == mode # "down" => Cardinality(ActiveSet(fact, host)) <= ActiveRoots

\* Waiting tickets and queued Runs never exceed 20, although only the ticket is
\* counted at first and the Run becomes queued several awaits later.
WaitingBound == mode # "down" => Cardinality(WaitingSet(fact, host)) <= WaitingRoots

\* Both together: what the Host promises its clients about its capacity (SchedulingLimits).
CapacityHolds == ActiveBound /\ WaitingBound

\* Whoever has an execution claim is an admission this Host owns, else
\* _workspace_execution's lookup of _admission_done[reserved] would raise.
ClaimsAreOwned ==
  \A w \in Workspaces : host.claim[w] # None => host.claim[w] \in host.owned

\* A Run the log calls started has its root lease, its admission and both locks
\* for as long as the process lives.
StartedIsCovered ==
  mode # "down" =>
    \A r \in Runs : fact[r] = "started" =>
      /\ r \in host.roots \cap host.owned
      /\ host.holder[SessionOf[r]] = r /\ host.holder[WorkspaceOf[r]] = r

\* Queued work holds no execution claim and no ticket (run_dispatch.py admitted).
QueuedHoldsNothing ==
  \A r \in Runs : fact[r] = "admitted" /\ r \notin host.roots =>
    /\ host.ticket[r] = "none"
    /\ \A w \in Workspaces : host.claim[w] # r

\* Both together: execution claims are what the admissions and the queue say they are
\* (_workspace_execution, run_dispatch.py admitted).
ClaimsAreSound == ClaimsAreOwned /\ QueuedHoldsNothing

\* A Run with a root lease keeps its execution claim until its admission is
\* released; it holds while no control operation or abandon uses the Workspace.
ClaimKept ==
  \A r \in Runs : r \in host.roots \cap host.owned => host.claim[WorkspaceOf[r]] = r

\* Two Runs with a root lease never have the same execution key: the lease comes
\* with the execution resources (scheduler.py: "acquire execution resources
\* before launch").
LeasesAreExclusive ==
  \A q, r \in host.roots \cap host.owned : WorkspaceOf[q] = WorkspaceOf[r] => q = r

(***************************************************************************)
(* What a step may never do.                                               *)
(***************************************************************************)
\* Except by losing the process, a root lease is released only for a Run whose
\* terminal fact is durable (release_root raises otherwise).
LeaseOutlivesRun ==
  [][mode' # "down" /\ mode # "down" =>
       \A r \in host.roots \ host'.roots : fact'[r] \in Terminal]_vars

\* While a Run waits for its execution key, no later one gets that key for an
\* active slot, neither from the queue (scheduler.py claim_next) nor by a request
\* that finds the Workspace free; it holds while no control operation or abandon
\* uses the Workspace.
KeysInOrder ==
  [][\A q, r \in Runs :
       /\ host.pc[q] = "pending" /\ host'.pc[q] = "pending"
       /\ q # r /\ WorkspaceOf[q] = WorkspaceOf[r] /\ ~ Older(r, q)'
       /\ host.claim[WorkspaceOf[r]] # r /\ host'.claim[WorkspaceOf[r]] = r
       => host'.ticket[r] = "waiting"]_vars

\* Both: an execution key is kept, and handed out in the order of the queue.
KeysAreServed == []ClaimKept /\ KeysInOrder

\* A terminal fact is the last one: nothing is executed or closed twice, in
\* particular not after a crash and recovery.
TerminalIsLast ==
  [][\A t \in Turns : fact[t] \in Terminal => fact'[t] = fact[t]]_vars

\* After an orderly close nothing is left for the next start to recover.
CloseFinishes ==
  [][mode = "closing" /\ mode' = "down" /\ restarts' = restarts =>
       \A r \in Runs : ~ Unfinished(r)]_vars

(***************************************************************************)
(* Progress.                                                               *)
(***************************************************************************)
\* Every accepted Run reaches a terminal fact: no wake-up of the queue is lost.
AcceptedFinishes ==
  \A r \in Runs : fact[r] = "admitted" ~> fact[r] \in Terminal

\* A control operation that waits for a Workspace gets it or gives up.
ControlServed ==
  \A c \in Controls :
    host.pc[c] \in {"wantW", "awaitW"} ~> host.pc[c] \in {"inside", "idle"}

\* An abandon that passed the route's checks is answered: it closes the Session
\* or, its source no longer the latest Run, is refused with a 409.
AbandonAnswered ==
  \A a \in Abandons :
    host.pc[a] \in {"wantS", "awaitS", "wantW", "awaitW"} ~> host.pc[a] \in {"executing", "idle"}
=============================================================================
