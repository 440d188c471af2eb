------------------------------ MODULE Mutations ------------------------------
(***************************************************************************)
(* Writes over HTTP and the receipts that make their retries safe          *)
(* (http_control.py, run_mutations.py, session_management.py,              *)
(* workspace_management.py, runs.py).  A client that does not know what    *)
(* became of a request sends it again with its key.  Sessions and          *)
(* Workspaces commit their change and its receipt together; the actions    *)
(* on a Run happen first and get their receipt after; a new Run is its     *)
(* own receipt.  Any step may fail, and the process may be lost.           *)
(***************************************************************************)
EXTENDS Integers, FiniteSets, Absence

CONSTANTS
  Handlers,      \* requests the service works on at one time
  Registrations, Removals, \* keys of registering and removing one path as a Workspace
  Updates,       \* keys of changes of one Session's metadata
  RunActions,    \* keys of cancel, approval and abandon on one Run
  RunAdmissions, \* keys of new Runs and Continues of one Session
  MaxSends, MaxReceiptCrashes \* bounds

VARIABLES
  workspace,  \* the identity the path is registered with (0: none), and the last one given
  title,      \* the version of a Session's metadata
  target,     \* the Run that is acted on: still "pending", or "done"
  receipt,    \* per key, what the log says of it: [state, body]
  handler,    \* per handler: the request it is at
  reserved,   \* keys of Runs being admitted (_admission_done, the Session's lock)
  answers,    \* per key, what clients were told
  effects,    \* per key, how often the write happened
  sends       \* bounds used: [requests, crashes]

mutationVars == <<workspace, title, target, receipt, handler, reserved, answers, effects, sends>>

RecordWrites == Registrations \cup Updates \cup Removals
MutationKeys == RecordWrites \cup RunActions
Keys         == MutationKeys \cup RunAdmissions

\* A receipt belongs to one scope: a Run's key is not looked up among the mutations.
ASSUME ReceiptAssumption == RunAdmissions \cap MutationKeys = {}

NoReceipt == [state |-> "none", body |-> None]
Idle      == [pc |-> "idle", key |-> None, body |-> None]

MutationInit ==
  /\ workspace = [identity |-> 0, born |-> 0] /\ title = 0 /\ target = "pending"
  /\ receipt = [k \in Keys |-> NoReceipt] /\ handler = [h \in Handlers |-> Idle]
  /\ reserved = {} /\ answers = [k \in Keys |-> {}] /\ effects = [k \in Keys |-> 0]
  /\ sends = [requests |-> 0, crashes |-> 0]

\* The routes of records do not await: nobody runs between their steps.
Synchronous  == \E h \in Handlers : handler[h].pc = "committing"
Answer(h, what) ==
  /\ answers' = [answers EXCEPT ![handler[h].key] = @ \cup {what}]
  /\ handler' = [handler EXCEPT ![h] = Idle]
Advance(h, pc)  == handler' = [handler EXCEPT ![h] = [@ EXCEPT !.pc = pc]] /\ UNCHANGED answers
Record(k, state) == receipt' = [receipt EXCEPT ![k] = [@ EXCEPT !.state = state]]
Happens(k)      == effects' = [effects EXCEPT ![k] = @ + 1]

\* What the page shows of the object of a request.
Shown(k) == IF k \in Updates THEN title ELSE IF k \in Removals THEN workspace.identity ELSE 0

\* A request on what the page shows, or one sent again as it was.  The key of a Run that was
\* rejected is not used again.
Send(h, k) ==
  /\ handler[h] = Idle /\ sends.requests < MaxSends
  /\ k \in RunAdmissions => "rejected" \notin answers[k]
  /\ \E body \in {Shown(k)} \cup ({receipt[k].body} \ {None}) :
       handler' = [handler EXCEPT ![h] = [pc |-> "sent", key |-> k, body |-> body]]
  /\ sends' = [sends EXCEPT !.requests = @ + 1]
  /\ UNCHANGED <<workspace, title, target, receipt, reserved, answers, effects>>

(***************************************************************************)
(* begin_mutation, and what the receipt answers.                           *)
(***************************************************************************)
\* Fault: a mutation whose outcome is unknown is begun again.
BeginsUnknownAgain(k) == receipt[k].state \in {"none", "started"}

Begins(k) == receipt[k].state = "none"

\* What the stored receipt says of the same content.
Replay == [started |-> "unknown", completed |-> "done", rejected |-> "rejected"]

BeginMutation(h) ==
  LET k == handler[h].key  body == handler[h].body IN
  /\ handler[h].pc = "sent" /\ k \in MutationKeys /\ ~ Synchronous
  /\ IF receipt[k].body \notin {None, body} THEN Answer(h, "conflict") /\ UNCHANGED receipt
     ELSE IF Begins(k)
     THEN /\ receipt' = [receipt EXCEPT ![k] = [state |-> "started", body |-> body]]
          /\ Advance(h, IF k \in RecordWrites THEN "committing" ELSE "acting")
     ELSE Answer(h, Replay[receipt[k].state]) /\ UNCHANGED receipt
  /\ UNCHANGED <<workspace, title, target, reserved, effects, sends>>

(***************************************************************************)
(* Records: the write and its receipt are one transaction.                 *)
(***************************************************************************)
Commit(h, permitted) ==
  LET k == handler[h].key IN
  IF permitted
  THEN Happens(k) /\ Record(k, "completed") /\ Answer(h, "done")
  ELSE UNCHANGED effects /\ Record(k, "rejected") /\ Answer(h, "rejected")

\* commit_session_metadata: only what the page showed is changed.
CommitMetadata(h) ==
  LET shown == handler[h].body = title IN
  /\ handler[h].pc = "committing" /\ handler[h].key \in Updates
  /\ Commit(h, shown)
  /\ title' = IF shown THEN title + 1 ELSE title
  /\ UNCHANGED <<workspace, target, reserved, sends>>

\* A path that is registered keeps its record; a new registration is a new identity.
CommitRegistration(h) ==
  /\ handler[h].pc = "committing" /\ handler[h].key \in Registrations
  /\ Commit(h, TRUE)
  /\ workspace' = IF workspace.identity # 0 THEN workspace
                  ELSE [identity |-> workspace.born + 1, born |-> workspace.born + 1]
  /\ UNCHANGED <<title, target, reserved, sends>>

CommitRemoval(h) ==
  LET there == workspace.identity # 0 /\ handler[h].body = workspace.identity IN
  /\ handler[h].pc = "committing" /\ handler[h].key \in Removals
  /\ Commit(h, there)
  /\ workspace' = IF there THEN [workspace EXCEPT !.identity = 0] ELSE workspace
  /\ UNCHANGED <<title, target, reserved, sends>>

\* The store fails: the transaction is rolled back, the receipt stays started.
LoseCommit(h) ==
  /\ handler[h].pc = "committing" /\ Answer(h, "unknown")
  /\ UNCHANGED <<workspace, title, target, receipt, reserved, effects, sends>>

(***************************************************************************)
(* mutate_run_action: the write, and then its receipt.                     *)
(***************************************************************************)
\* An action on a Run that is no longer waiting for one is refused.
ActOnRun(h) ==
  LET k == handler[h].key IN
  /\ handler[h].pc = "acting"
  /\ IF target = "done"
     THEN Record(k, "rejected") /\ Answer(h, "rejected") /\ UNCHANGED <<target, effects>>
     ELSE target' = "done" /\ Happens(k) /\ Advance(h, "acted") /\ UNCHANGED receipt
  /\ UNCHANGED <<workspace, title, reserved, sends>>

FinishAction(h) ==
  /\ handler[h].pc = "acted"
  /\ Record(handler[h].key, "completed") /\ Answer(h, "done")
  /\ UNCHANGED <<workspace, title, target, reserved, effects, sends>>

\* An exception before, in or after the action that says nothing of its effect.
LoseAction(h) ==
  /\ handler[h].pc \in {"acting", "acted"} /\ Answer(h, "unknown")
  /\ UNCHANGED <<workspace, title, target, receipt, reserved, effects, sends>>

\* The Run asks for another decision.
TargetWaitsAgain ==
  /\ target = "done" /\ target' = "pending"
  /\ sends.requests < MaxSends
  /\ UNCHANGED <<workspace, title, receipt, handler, reserved, answers, effects, sends>>

(***************************************************************************)
(* run_receipt and admission: the Run is the receipt.                      *)
(***************************************************************************)
Accepted(k) == receipt[k].state = "completed"

\* The Session is busy: a refusal before the Run is recorded is a rejection.
BeginAdmission(h) ==
  LET k == handler[h].key IN
  /\ handler[h].pc = "sent" /\ k \in RunAdmissions /\ ~ Synchronous
  /\ \/ /\ Accepted(k) /\ Answer(h, IF receipt[k].body = handler[h].body THEN "done" ELSE "conflict")
        /\ UNCHANGED reserved
     \/ ~ Accepted(k) /\ reserved # {} /\ Answer(h, "rejected") /\ UNCHANGED reserved
     \/ ~ Accepted(k) /\ reserved = {} /\ reserved' = {k} /\ Advance(h, "admitting")
  /\ UNCHANGED <<workspace, title, target, receipt, effects, sends>>

\* admission_error: a failure after the transaction is still an acceptance.
RecordAdmission(h) ==
  LET k == handler[h].key IN
  /\ handler[h].pc = "admitting"
  /\ \/ /\ receipt' = [receipt EXCEPT ![k] = [state |-> "completed", body |-> handler[h].body]]
        /\ Happens(k) /\ Answer(h, "done") /\ UNCHANGED reserved
     \/ /\ \E told \in {"rejected", "unknown"} : Answer(h, told)
        /\ reserved' = {} /\ UNCHANGED <<receipt, effects>>
  /\ UNCHANGED <<workspace, title, target, sends>>

EndOfRun ==
  /\ \E k \in reserved : Accepted(k)
  /\ reserved' = {}
  /\ UNCHANGED <<workspace, title, target, receipt, handler, answers, effects, sends>>

ReceiptCrash ==
  /\ sends.crashes < MaxReceiptCrashes /\ sends' = [sends EXCEPT !.crashes = @ + 1]
  /\ handler' = [h \in Handlers |-> Idle] /\ reserved' = {}
  /\ UNCHANGED <<workspace, title, target, receipt, answers, effects>>

MutationNext ==
  \/ \E h \in Handlers :
       \/ \E k \in Keys : Send(h, k)
       \/ BeginMutation(h) \/ LoseCommit(h)
       \/ CommitMetadata(h) \/ CommitRegistration(h) \/ CommitRemoval(h)
       \/ ActOnRun(h) \/ FinishAction(h) \/ LoseAction(h)
       \/ BeginAdmission(h) \/ RecordAdmission(h)
  \/ TargetWaitsAgain \/ EndOfRun \/ ReceiptCrash

MutationSpec == MutationInit /\ [][MutationNext]_mutationVars

(***************************************************************************)
(* Properties.                                                             *)
(***************************************************************************)
\* However often a request is sent, failed over or lost with the process, its write
\* happens at most once; who is told that it was done or rejected is told the truth, and
\* stays right (begin_mutation: "ambiguous writes are never replayed").
ReceiptsAreTrue ==
  \A k \in Keys :
    /\ effects[k] <= 1
    /\ "done" \in answers[k] => effects[k] = 1
    /\ k \in MutationKeys /\ "rejected" \in answers[k] => effects[k] = 0

\* A Run or Continue whose client was told "rejected" is not accepted: only a Run that was
\* not created is answered so, and only then may the key be dropped (api-contract.md).
RejectedRunIsNotAccepted ==
  \A k \in RunAdmissions : "rejected" \in answers[k] => effects[k] = 0
=============================================================================
