# A TLA+ development of Eventide

Eventide (`src/eventide`) is a local runtime for coding agents: one process and
one asyncio event loop (`RuntimeHost`) that accepts Runs of Sessions on
Workspaces, calls a model, executes the tools the model asks for, and keeps
everything it did in an append-only SQLite event log. Its correctness is in how
tasks interleave at `await`s, in what a crash leaves in the log, and in what the
next start and the user may then do. That is what is modelled here.

`PROJECT.json` maps every definition to its source lines, and lists the runs,
the faults each property was shown to detect, the findings, the hazards and the
theorems. This file explains them.

## 1. Inventory

The parts of the system, the state each keeps, its operations, and the
properties that make it correct. *Modelled* names the module.

| part | state | operations | what makes it correct | modelled |
|---|---|---|---|---|
| **Event store** `store.py` | SQLite: Runs, turns, Sessions, Workspaces, `runtime_events` with a sequence per Session | `create_run`, `admit_run`, `append_fact`, `transact_facts` (read, decide, append in one transaction), projections | a terminal fact is written once and last; what is decided in a transaction is decided on the newest facts | as the state of every module |
| **Admission and dispatch** `host.py`, `scheduler.py`, `run_dispatch.py` | in memory: tickets, root leases, claims of Workspaces (`_admissions`), done events (`_admission_done`), Session and Workspace `asyncio.Lock`s, tasks; durable: admitted Runs | admit a prompt or a Continue, start, dispatch, execute under both locks, cancel, control operations, abandon, close, recover | capacity 4 + 20 is never exceeded; one Run per Session and per Workspace; the queue is served in order; nothing accepted is lost; everything is released once | `RunDispatch`, `RunLedger` |
| **Token budgets and model calls** `budgets.py`, `model_budget.py`, `delivery_limits.py`, `embedding_runtime.py`, `host._complete_with_retry` | durable: limits, reservations, settlements, cost estimates; in memory: the model semaphore | configure, reserve, call, retry, settle, resolve, limits of a delivery, the day's bucket | budgets are not overspent by concurrency, retries, crashes or workers; unknown is never free | `BudgetLedger` |
| **Run execution and recovery** `host._execute`, `_recover_interrupted_runs`, `_validate_continue`, `abandon_interruption`, `executor.py`, `workspace.py`, `projections.py` | durable: model responses, prepared, completed, unknown and abandoned calls, checkpoints; external: the Workspace, processes of tools | step, tool call, cancel, park, end, recover, Continue, abandon | side effects are not repeated or lost; a checkpoint says what it certifies; a parked Session can always be left | `RunRecovery` |
| **HTTP receipts** `http_control.py`, `http_api/*` | durable: started, completed and rejected mutations by idempotency key | begin, commit with the change, finish, fail, deterministic Run identity | at most once over retries and crashes; who is told something is told the truth | `Mutations` |
| **Execution copies** `execution_sandbox.py`, `execution_snapshots.py`, `execution_worktrees.py`, `host._reserve_copy_run` | immutable snapshots, sandboxes, managed checkouts; the binding is in the admission fact | create, restore, checkpoint, start, continue, abandon | one Run at a time in a copy, and only in the content its admission recorded | `CopyRuns` |
| **Delivery** `delivery*.py` | prepared, verified, repaired, applied deliveries; patches; a managed checkout | prepare, run a Writer, verify, repair in rounds, apply | only a verified patch is adopted, once, onto the source it was made for; a repair owns its verdict | `Delivery` (limits: `BudgetLedger`) |
| **Worktrees** `worktrees.py`, `worktree_control.py` | record files, checkouts, branches, Workspace rows, `_worktree_removals` | create, keep, remove, list | a Session keeps its checkout; what is changed is what its user saw | `Worktrees` |
| **Read-only workers** `workers.py`, `host.delegate_readonly` | child Runs, source snapshots | delegate, time out, settle | none repeated over a chain of Continues, each over and counted once when its call is | `Workers` (calls: `BudgetLedger`) |
| **Knowledge index** `rag/`, `index_runtime.py`, `index_control.py`, `retrieval_*.py` | SQLite index with a generation | build, search, rewrite the query, cancel | an answer is of one generation; a publication is exactly what one build found twice | `KnowledgeIndex` |
| **Preferences** `preference_memory.py` | records and suggestions with revisions, on the log | create, update, revoke, resolve, observe, inject | revoked stays revoked; a message is used once; what was withdrawn is not sent | `Preferences` |
| **Skills** `skills.py`, `skill_packages.py`, `skill_runtime.py` | content-addressed packages, enabled versions on the log | preview, import, enable, freeze, restore | a Run uses the bytes it was admitted with, which the user saw | `SkillPackages` |
| **Attachments** `attachments.py` | files with a mark, in two directories; references on the log | upload, list, use, delete | what the log refers to can be loaded | `Attachments` |
| **History import** `migration.py`, `history_import_control.py` | an archive and its hash per preview | preview, import | imported once, as it was shown | `HistoryImport` implements `ReviewedImport` |
| **Evaluation** `evaluation*.py`, `eval_*.py` | an estimate, reports by name | admit, run cases, bridge model calls, report, cancel | requests go where the user confirmed; the log names reports that are there and up to date | `Evaluation` |
| **Context and prompts** `context_builder.py`, `task_plan.py`, `projections.py`, `tool_loops.py` | projections of the log | fold, compact, plan, detect a failure loop | a request is the whole log, summarised or folded but never parted; summaries are paid once; a sound plan; a stop for repetition has evidence | `ContextView`, `TaskPlan`, `FailureLoops` |
| **Prices** `budget_prices.py` | price versions, estimates | register, estimate, summarise | a complete sum is exact | `BudgetLedger`, at a constant price |
| **Providers, streaming, MCP** `providers/`, `streaming.py`, `mcp/` | sessions of external protocols | complete, stream, call | bounded; only whole responses carry calls | external |
| **Container executor** `container_executor.py` | a Docker container per command | execute, remove | a container whose removal is not confirmed is an unknown outcome | outcome only, in `RunRecovery` |
| **Configuration, secrets, telemetry, web workbench** | settings, a key, exports, Vue state | — | — | not modelled (section 7) |

**How they interact.** A route asks the Host for an admission; the Host owns the
Workspace for a moment, commits the admission, and releases it or keeps it,
depending on the lane. The dispatcher claims queued Runs when something is
released. The task of a Run takes the Session lock and the Workspace lock,
records `run.started` and steps: every model call goes through the budget ledger
and the model semaphore; every tool call is recorded before and after. When the
Run ends, its terminal fact is committed, locks and claim are released, and the
done callback releases the lease and dispatches again. All components share the
event log; only the Host writes terminal facts.

**What is hard.** Every `await` is an interleaving point, and code often tests a
condition before one and relies on it after it. Capacity is computed from
durable facts *and* transient tickets, so between two of them a Run could be
counted twice or not at all. Two locks and a done event form the waits-for
graph. A crash may fall between any two transactions: between a tool's effect and
its record, a settlement and its price, a start and its end. Commands survive the
process that started them. People edit the Workspace at any time. A request whose
answer was lost is retried. `PROJECT.json` lists these as hazards, each at its
line, with the properties that cover it or the reason why none does.

## 2. Plan

| | module | what | composition |
|---|---|---|---|
| done | `RunLedger`, `RunDispatch` | admission, dispatch, locks, close, crash | `RunDispatch` extends and implements `RunLedger` |
| done | `BudgetLedger` | reservations, calls, settlement, delivery limits | uses Runs as given |
| done | `RunRecovery` | tool calls, cancellation, recovery, Continue, abandon | one Session; the scheduling around it is `RunDispatch` |
| done | `Mutations`, `CopyRuns`, `Delivery`, `Worktrees`, `Workers`, `Preferences`, `KnowledgeIndex`, `SkillPackages`, `Attachments`, `Evaluation` | one service each, with its concurrent requests, other programs and a crash | side by side in `MCServices` |
| done | `HistoryImport`, `ReviewedImport` | the import and what it promises | `HistoryImport` implements `ReviewedImport` |
| done | `ContextView`, `TaskPlan`, `FailureLoops` | what is read back from the log of one Session: messages, plan, repeated failures | `FailureLoops` beside `RunRecovery` in `MCRunLoops`, the others in `MCServices` |
| left | `PricePartition` | versions of prices and the split by kind of token | under `BudgetLedger` |
| left | copies and workers under the capacity of the Host | a copy's Run takes a slot, a worker takes none | `CopyRuns`, `Workers` with `RunDispatch` |

Every safety invariant that a run checks is also a theorem, but `KeysAreServed`, which is not true
of every value of the constants (section 6).

## 3. The modules

### RunLedger and RunDispatch

`RunLedger` is the promise of the event log about Runs: rows in commit order,
the last scheduling fact of each, continuation links. A Session has one
unfinished Run at most, a parked Session accepts only what continues it, Runs of
one Workspace execute one at a time, only what started completes.

`RunDispatch` is one Host. Its program is one event loop, so an action is the
code from one `await` to the next, and all of a Host's memory is one record
`host`, which a crash forgets:

| field | code |
|---|---|
| `pc` | where the task of a Run, a control operation or an abandon stands |
| `seen` | `previous`, read under the lock by `_prepare_run` |
| `ticket`, `roots` | `RuntimeScheduler._tickets`, `_roots` |
| `claim`, `owned` | `RuntimeHost._admissions`, `_admission_done` |
| `holder`, `queue` | `asyncio.Lock`: holder and FIFO of waiters |
| `awaits` | the admission whose done event a task waits for |

| actions | code |
|---|---|
| `Request`, `RequestBusy`, `Admit`, `Refuse` | `_reserve_run`, `_prepare_run` |
| `Start`, `Begin`, `Execute`, `Unwind` | `start_admitted_run`, `_admit`, `_execute` as a whole |
| `CancelUnstarted`, `CancelAccepted`, `DoneCallback` | `cancel_run`, `_track_run_task`, `RunDispatch.finished` |
| `Resume`, `WakeDone` | a waiter of a lock or of a done event is run |
| `EnterControl`, `LeaveControl` | `_workspace_execution` of control operations |
| `Abandon`, `AbandonOpen`, `AbandonClose`, `AbandonLeave` | `abandon_interruption` |
| `Close`, `Exit`, `Crash`, `RecoverRun`, `Reopen` | `close`, process loss, `_recover_interrupted_runs` |

`Dispatch` is the whole loop of `RunDispatch.dispatch`, as the set of Runs it
claims, characterised declaratively: oldest first among those that conflict, as
many as fit. What happens inside an executing Run is one `Unwind`; `RunRecovery`
opens it.

### BudgetLedger

Runs, their model requests and the durable ledger. A request's task passes
`line` (the semaphore), `reserved`, `sent`, `drain` (a cancelled embedding whose
client is being closed), `backoff`, `done`, `failed`. `book` holds per attempt
what was reserved in which buckets and what settled it. The variable `billed`
is what the provider charges: the program never reads it, and the properties
compare the ledger with it. `StartRun` and `EndRun` stand for the Runs of
`RunDispatch`; `CloseDelivery` for the end of a delivery's repair.

Simplifications: a provider that reports usage reports it truthfully, and may
bill a call that failed; prices are constant; estimates are from a small set
and a bill may exceed its estimate; `keep_unknown` changes no amount and is left
out; the notifications sent between a settlement and the release of the slot
are part of the settling action, so a slot is free slightly earlier than in the
code; the ownership checks of `_validate_context` hold by construction of
`RootOf` and `RunScopes`; `finish` is called once per attempt, so the replay and
unknown-to-known branches of `settle` are not reached from the Host. A
connection probe is a request with one try, an embedding one that may drain.

### RunRecovery

One Session on one Git Workspace. The log holds, in order, the facts that
`_validate_continue`, `_recovery_facts`, `_crash_gap_evidence` and
`MessagesProjection` read; every append is one transaction. `content` is the
Git-visible source and a checkpoint is its digest; `Opaque` is a state Git cannot
describe. `tool` is the handler in flight, which acts on the Workspace while the
task waits for it and, if it is a command, perhaps after the process is gone.

| actions | code |
|---|---|
| `CheckAdmission`, `Admit`, `Start` | `_prepare_run`, `_admit` |
| `FirstCheckpoint`, `Ask`, `Respond`, `RespondTruncated`, `StepFails`, `StopAtBudget` | `_execute`, up to a model response |
| `Prepare`, `Act`, `Complete`, `CompleteUnknown`, `Escape`, `PostCheckpoint`, `CallsDone`, `ParkLoop` | the tool loop, `ToolExecutor.execute` |
| `Cancel`, `Terminated`, `ParkCheckpoint`, `CancelPark`, `Finish` | the handlers at the end of `_execute` |
| `Abandon`, `AbandonStart`, `AbandonCall`, `AbandonFinish` | `abandon_interruption` |
| `Crash`, `OrphanEnds`, `Edit` | the world |
| `MeasureGap`, `RecoverCheckpoint`, `Recover` | `changed_since`, `_crash_gap_evidence`, `_recover_interrupted_runs` |

Clocks are abstract: `touched` says that a path which Git still lists, or the
directory of one that is missing, bears a time after the last fact. This is all that
`changed_since` looks at, so `Change` lets a change leave such a time or none:
deleting an untracked file, `git add`, `commit` and `reset`, moving an untracked file
and `cp -p` leave none, and so does a change in the very tick of a fact; a later
change may also take the path that bore it. Recovery looks at the times first
(`MeasureGap`) and reads the source after (`RecoverCheckpoint`). `left` and `gap` are
history: the source the process died with, and what the times tell of the last change
since (`none`, `newer`, `untraced`, or `late` if it came between the two looks). The
failure window, approvals and arguments are choices; JSON
finalization, compaction, delegation and execution copies are not in it. Between
the comparison of a Continue and its admission checkpoint (`CheckAdmission`,
`Admit`) the code awaits: an edit there becomes part of the accepted source
unnoticed. The code promises nothing about that window, so no property is stated
about it.

### Mutations

A request passes `sent`, then `committing` (the change and its receipt are one
transaction: Session metadata, registration and removal of a Workspace), or `acting` and
`acted` (an action on a Run, and then its receipt), or `admitting` (a new Run, which is its
own receipt). `receipt` is the log's word on a key, `effects` how often its write happened,
`answers` what clients were told. A client sends again with the same key, for as long as it
has not been told "rejected", perhaps with other content. `LoseCommit` and `LoseAction` are
failures that say nothing about the effect; `ReceiptCrash` forgets all handlers. The routes
of records do not await, hence `Synchronous`.

### Delivery

One delivery with its source and its checkout, each abstracted to a content; a patch is the
content it makes of `Base`. `op` is the operation under the delivery's lock, `web` one that
was admitted and has not the lock yet. A writer and the checks may leave any content and an
unknown outcome; limits and repeated failures are choices. `Meddle` is everybody else: people
edit either directory at any time, and another Run may leave an unknown outcome in one that
the operation has not locked.
`GitApply` and `RecordApplied` are two steps, and a crash falls between them.

### Worktrees

What there is of a name is four things: a record file (told from its successors by an
incarnation), a checkout on disk, a branch, a Workspace row. Each operation changes them one
at a time. `catalog` is the list its user looked at. `disk` distinguishes what `git status`
reports (`work`) from what it does not (`ignored`, `ahead`).

### CopyRuns

Sessions whose Runs execute on a snapshot, a worktree or a sandbox. A copy is made under the
source's locks (`MakeCopy`, `CompareSource`), claimed, recorded with the admission
(`RecordCopyRun`), and compared again when the Run starts (`StartCopyRun`). The Workspace of
a worktree has a guest: another Session that was opened on it. What happens inside a Run is
`WorkInCopy`. After a crash `CrashGap` is the checkpoint that recovery keeps or takes.
An abandonment commits its Run before the fact that carries its binding (`BeginAbandon`).

### Workers

The Runs of one Session, the call to `delegate_readonly` of the latest, and its children.
A task copies the source (`CopySource`), is compared with the history of the chain of Continues
(`CheckHistory`), admitted and announced one by one, waited for, and settled when all have
ended. A cancellation or a failed step goes to the settlement from anywhere.

### Preferences

Memories are sequences of revisions, on two scopes of one key. A Run observes its message,
takes a snapshot, and looks at it again when an attempt begins (`BeginRequest`) and, with no
`await` before the provider, when it is sent (`SendRequest`). The revision a client expects
is the latest by the shape of `UpdateMemory`: a stale one changes nothing. `withdrawn` is history: what
the user paused or revoked since the Run selected it. An edit that leaves a preference active is
not among it, because the code goes on sending the selected content until the next Run.

### KnowledgeIndex

Builders read the generation, then the rows, then the files one by one, embed, and publish
under SQLite's write lock after reading the files once more. `stopped` are the events that
cancelled builds look at. A search pins a snapshot for its two paths; a rewritten query is a
second search. The last look at that event (`CheckBuild`) and the commit (`CommitBuild`) are two
steps of the builder's thread, and the event loop may set the event between them: a cancelled
build may publish, and what it publishes is still what it found.

### SkillPackages

One Skill. A version is its bytes' hash, so `shelf[v] # v` is a damaged package. An import
and an admission put packages on the same shelf (`StagePackage`, `PublishPackage`,
`InspectPackage`). A rename onto a directory that is there fails, as it does on Linux.

### Attachments

Two directories (the Session's and an older version's), the mark in each file, and the
references of the log. Loading and committing an admission do not await; marking the files
may stop after any of them. `listed` is the list a client deletes from.

### HistoryImport and ReviewedImport

A preview Run reads the legacy database into an archive of its own; an import Run names the
preview and the hash that were reviewed, reads the archive and commits history, receipt and
its own end in one transaction. What either does in its thread is settled before a
cancellation shows. `ReviewedImport` says what this amounts to: contents are shown, and what
was shown is imported by one Run that says so in the same step. The mapping is `shown <-
Reviewable` (completed previews with their hash), `told <- Told` (completed imports).

### Evaluation

One project. The estimate shows the model and not its address (as `evaluation_quote` does);
`changing` is a configuration whose predecessor's client is still being closed. A batch runs
its cases one after another; each ends with an outcome that is recorded in a report under a new
name, and the report is then named in the log.

### ContextView

One Session: its log without the events that become no message, the saved summaries, the claims,
and the Run whose steps are built. `Read` is one event of `MessagesProjection`; `Build` is
`ContextBuilder.build` up to its only `await`, and `SummaryReturns` and `SummaryFails` are what
follows it. An identity of a message is its position, and a size is a number: results are those
after their preview, arguments of the plan tool are left out as they are in the code, and
`RequestSize` adds what the system prompt and the tools take. A saved summary is used without
its digest, because the log before it does not change. `History` says of which messages a
summary is made, as the hash of the claim does. Partial events and imported messages are the
same to it as none and as a prompt. The log that an exception outside the executor's `try`
leaves unpaired (finding 3) is not repeated here.

| actions | code |
|---|---|
| `StartRun`, `ContinueRun`, `AbandonRun` | admission of a prompt, `_recovery_facts` in a Continue and in an abandon |
| `Build`, `SummaryReturns`, `SummaryFails` | `build`, `_claim_summary`, `complete_summary` |
| `Respond`, `ToolCompleted`, `CompleteRun` | a step of `_execute` |
| `StopRun`, `RequestFails` | cancellation, refused budget, restart; a failed request |

### TaskPlan

The newest plan, the next number, and for each task ever planned when it was first planned and
settled, counted in results of tools. `WritePlan` is `write_task_plan` with everything
`plan_update` accepts; what it refuses changes nothing. `Visit` is the depth-first search of the
code, and `WellFounded` the definition it is held against: the theorem `CirclesAreFound` shows that
they agree on every finite graph. `EchoIsAccepted` speaks of numbers that `ID_PATTERN` reads.
Limits on the length of texts and old plans without identities are left out.

### FailureLoops

The log of outcomes and checkpoints of one Session, from which `RepeatedFailure` is computed anew
each time, as `failure_loop_candidate` does. A fingerprint stands for tool, arguments and error. The
call is split where the program awaits: prepared, done, scanned, scanned again, so that people
edit in between. `streak` is a history variable: how often the same failure was met in a row by
a Run at a source that stayed as it was. `ValidateContinue` and `AdmitContinue` are the two
halves of an admission.

## 4. What the runs show

Every property of a passing run was also broken: for each, `PROJECT.json` names
a fault (`\* Fault:` in the modules), a plausible bug of the code in place of a
definition, under which TLC finds the property violated in the same instance.

| run | instance | shows |
|---|---|---|
| `dispatch_shared` | 4 Runs of 3 Sessions, a Continue, an abandon and a control operation on one Workspace; 1 active, 1 waiting slot | types, capacity (`CapacityHolds`), claims (`ClaimsAreSound`), a started Run is covered by lease, admission and locks, leases outlive their Runs, no fork of a continuation, refinement of `RunLedger` |
| `dispatch_restart` | 4 Runs, 2 Workspaces, one active and two waiting slots, one close or crash | keys are served in order and one claim at a time (`KeysAreServed`), close finishes everything |
| `dispatch_live` | as shared without the abandon, fair | accepted Runs end, control operations are served |
| `budget_ledger` | 2 Runs of a project, one retrying, one embedding; a limit lowered and raised; a crash | billed amounts stay under the ceilings, holds are kept, complete costs are exact, reservations fit |
| `budget_delivery` | a Run, its worker, a later Run of one delivery; 2 days; a crash; one slot, fair | the delivery's attempts are capped over all of them, requests end |
| `recovery_park` | 2 Runs, a command and a file read in batches up to 2; one edit, one crash. Beside them `FailureLoops`: a Run and its Continue or another, four outcomes, an edit, a window of 2 | Continue is sound, recovery is honest while a path bears a newer time, stopped tools are still, calls are paired; a stop for repetition has fresh evidence, and repetition at an unchanged source is bounded |
| `side_by_side` | eleven services, the context and the plan, one at a time; the bounds of each below | adoption and verdicts of repairs (`DeliveryIsSound`), checkouts, copies, receipts, preferences, index and answers, Skills, attachments, workers, evaluations, refinement of `ReviewedImport`, whole requests, paid summaries, sound plans and identities of tasks |

**Side by side.** The services keep no state in common, so `MCServices` extends all of them and
`part` says which one moves; the others stay as they began. The states of the run are the sum of
what each service reaches and not their product, and one run answers for all of them. Contents
are model values, and no module tells them apart, so where several services begin with one of
them it is the first; `x1` and `x2` stand for names, identities, goals and builders, which are
interchangeable, and are the symmetry set. All properties of the run are safety properties.
Where a module has several properties about one subject, its last definition joins them under
one name (`DeliveryIsSound`, `CheckoutsAreSafe`, `CopiesAreSound`, `PreferencesAreRespected`,
`RequestsAreWhole`, `PlansAreSound`, `TasksKeepTheirIdentity`, `RepetitionIsStopped`,
`KeysAreServed`), and the run checks that. `MCRunLoops` puts Runs and the stop for repetition
beside each other in the same way: `ParkLoop` of `RunRecovery` is a choice that `FailureLoops`
explains.

`CHECK_DEADLOCK FALSE` everywhere: a Host whose clients asked for everything they
may ask stops, as it should. `KeysAreServed` (order, and claims that are kept) is stated for
instances without control operations and abandons: those take the Workspace lock
without a claim, and then a claim may be overwritten (finding 1).

**Bounds.** Two Runs of one Session and a third and fourth of others suffice for every
pair of conflicting roles (same Session, same Workspace, neither) and for a queue
with an order. One active slot makes capacity binding in the passing dispatch runs;
with two, the same instance has 718 880 states and satisfies the inductive
invariant too, and the two violation runs use two. One restart suffices for safety
because everything volatile is forgotten at once; the proofs have no such bound.
In the ledger, size 1 with spends 1 and 2 gives exact use, underuse (0) and overshoot.
In `recovery_park`, two Runs are a Run and what follows it (Continue, prompt or
abandon), two calls in a batch give a call in flight and one not dispatched, one
edit and one crash fall anywhere; `recovery_unknown` uses three Runs and two crashes.
The two contents that Git describes are interchangeable, hence the symmetry set; the
run with symmetry checks no liveness.

The bounds of `side_by_side`, each the smallest under which the hazards of the service occur:

| service | bounds | what they allow |
|---|---|---|
| deliveries | 2 candidates, 2 rounds, 4 operations, an edit, a crash | prepare, a repair of two rounds or run and verify, and apply, with another operation in between |
| worktrees | 2 names, 3 operations, an edit, a crash | create, remove and make again while an older request waits |
| copies | 1 Session and a guest, 2 copies, 4 Runs, an edit, a crash | a Run, what continues or abandons it, and another one on the same copy |
| receipts | 2 handlers, one key of each kind, 3 requests, a crash | a request, its retry beside it, and one more after both |
| preferences | 2 contents, 3 messages, 2 decisions, an attempt | a message, its repetition, and one after a decision |
| index | 2 files, 2 contents, 2 profiles, 2 builds, an event | a build that overtakes another, an edit or a cancellation within one |
| Skills | 2 versions, 2 imports, 2 Runs, 2 events | an import beside an admission, a damage and what comes after it |
| attachments | 2 files in 2 directories, 3 uploads, 3 Runs, a crash | a mark that was not written, and a deletion from an old list |
| workers | 2 Runs, 2 calls of up to 2 tasks, 2 workers per Run, an edit, a crash | a call that is repeated after a park or a crash, on the same source or another |
| history | 2 contents, 4 Runs, 2 events | two previews and two imports, or an import twice, with a change and a cancellation |
| evaluations | 1 batch of 2 cases, a model at 2 addresses, 2 events | a change that begins before the batch or between its cases |
| context | 2 models, a budget of 10, results of size 1 and 4, summaries of size 1 and 5, 8 events | see below |
| plan | three plans of up to two items, one result | a task that is planned, dropped, and followed by another |

Eight events hold two Runs with calls and the beginning of a third: enough for a second
checkpoint, for a request with a summary and a folded result (`KeepRecent` 1), for an overflow,
for the one failure that folding would have avoided, and for a claim that the cooldown or too
little new content refuses. The two models are interchangeable. What is written of a plan
is `WhatIsWritten`: items that are new, known, reworded, completed with and without a claim,
dependent and blocked. In `FailureLoops` the window is 2 and not 3, which still has a first, a
last and an outcome before them, so that four outcomes are one more than `RepetitionIsBounded`
allows.

**Fairness.** The event loop runs every ready task and callback, locks wake their
first waiter, bodies under locks end because model and tool calls have timeouts,
and the route starts what it accepted: weak fairness of those actions. Clients,
editors, cancellations and crashes get none. Model calls end by the model timeout
(`asyncio.wait_for`), requests by their client's.

## 5. Findings

Runs with a violation, each at the line where the code does it:

1. `dispatch_exclusive`: two requests that find a Workspace free while its lock is
   handed to a waiter both own it; the later admission overwrites the claim of the
   earlier one.
2. `dispatch_answered`: an abandon that holds its Session lock waits for an admission
   of that Session whose task waits for the lock: neither proceeds until cancelled.
3. `recovery_usable`: an exception outside the executor's `try` fails the Run with an
   unanswered call; every later Run of the Session fails on it, and neither Continue
   nor abandon accepts a failed Run.
4. `recovery_unknown`: a crash inside an abandon gives its successor Run a fresh
   checkpoint, and Continue then accepts it although a write of the abandoned Run has
   no known outcome.
5. `receipts_rejected`: a retry that arrives while the first request of its key is still in
   admission finds no Run of the key and a busy Session, and is answered with the rejected
   marker, after which the first request is accepted.

Observations made while modelling, which no run states as a violation:

- A change after the crash that leaves no listed path with a newer time is certified at the next
  start as the source the Host died with, and Continue may then accept it: an untracked file was
  deleted (only the directory of a missing tracked file is looked at), or Git's own state changed by
  `add`, `commit` or `reset`, of which the checkpoint is made too (`workspace.py:181`). The docstring
  at `host.py:2566` calls the workspace "provably what it was when the Host died"; ADR-036 concedes
  the same tick, kept times and files created and deleted in the gap, but not these.
  `RecoveryIsHonest` excepts exactly such changes (`gap = "untraced"`).
- The prefix that a continued Run would have summarised ends at the interruption, before the facts
  in which Continue answered the interrupted calls (`host.py:1979`), and is projected outside the
  `try` of the summary (`context_builder.py:319`). The build raises "Incomplete tool history", and
  the Run fails whenever it is over its budget or asked to compact, although folding would do.
  `FailuresAreReal` names this case as the only failure that is not an overflow.
- After `t9999` the plan hands out `t10000`, which `ID_PATTERN` cannot read (`task_plan.py:14`):
  the model cannot send the id back, nor make another task depend on it.
- An evaluation that is accepted while a replaced configuration is waiting for the old client
  to close (`host.py:777`) is confirmed for one address and runs at another;
  `EvaluationIsEvidence` excepts it (`pending`).
- The reviewed patch of an adoption is compared before the delivery's lock is taken
  (`delivery_control.py:222`); what is adopted is the latest verified one.
- After a crash between `create_run` and `run.started` of an abandonment (`host.py:2342`), the
  Session's latest Run has no execution binding: a sandboxed Session is then taken for one on
  the source.
- Renaming a package onto a version that is there raises `ENOTEMPTY` on Linux, and not the
  `FileExistsError` that is caught (`skill_packages.py:521`): the loser of two imports fails.
- After the timeout of a delegation every report says "Worker timed out", also that of a worker
  that had completed (`host.py:3179`).
- A cancellation that arrives while a timed-out case is waited for is swallowed
  (`evaluation.py:333`): the batch goes on.
- While the last checkpoint is one that Git could not tell, failures of read-only tools are no
  candidate (`tool_loops.py:117`), and nothing scans again until a writing tool or the end of
  the Run does; only the step budget stops such a Run, as `RepetitionIsBounded` says.
- A summary refused by the token budget of the Run raises an error that is not the
  `BudgetExceeded` which `build` lets through (`context_builder.py:358`, `host.py:133`); the same
  test before the step makes this unlikely to be met.

## 6. What is proved

Proofs are checked by TLAPS for every value of the constants that the named
assumptions admit: any number of Runs, Sessions, Workspaces, slots, requests,
buckets and restarts.

**RunDispatch** (`RunDispatch_proofs`). The safety properties are not
inductive: that a started Run holds both locks needs what every earlier stage of its task
holds. `IInv` says, per stage of each actor, which fact is durable and which ticket, lease,
admission, claim and lock it has (`Stage`); that a waiter waits in one queue, once
(`Waiters`); that claims belong to owned admissions (`OwnedClaims`); that one Run per
Session is under way (`OnePending`); that capacity holds (`Bounds`); and that what a
request has read is still the latest (`LatestKnown`). `Invariant` proves it inductive, one
step per action. From it follow `TypeCorrect`, `CapacityKept`, `ClaimsKept`, `Covered`,
`LeasesOutliveRuns`, `CloseIsComplete`, `TerminalIsFinal`, and `Implements`: each step is a
step of `RunLedger` or leaves the log alone. `LedgerNoFork` is proved of `RunLedger` and carried over as `NeverForks`.
Assumptions: `FiniteAssumption`, `IdentityAssumption`, `PlacementAssumption`,
`LimitAssumption`.

**Finite sets, sums and folds** (`FiniteInduction`). No prover here instantiates an induction
theorem that takes a predicate. `SetInduction` takes a set of subsets instead: a set of subsets
of a finite S that holds T whenever it holds T without any one element holds S, because the
strict subset ordering of a finite set is well-founded. On it rest what `SumFunctionOnSet` is of
one more element, of a union, of pointwise smaller values; that a finite set of numbers has a
largest and a smallest; and that a fold over a sequence has a solution, which every other
solution equals (`FoldsExist`, `FoldsAgree`). The folds of the model are then reasoned about as
recursive functions over the sets of indices.

**BudgetLedger** (`BudgetLedger_proofs`). `BInv`: types, a request under way belongs to a
running Run of a running process (`LiveRuns`), what the ledger holds for its attempt at each
stage (`OpenInSlot`), unsettled entries have no amount (`Unsettled`), slots are bounded
(`SlotsHeld`). From it `InFlight` (settlement never conflicts) and `HoldsKept` (no step
loses or alters a hold). The sums need `BillInv` on top: what each attempt was billed and
estimated at against what was reserved for it (`Billing`), and that the limits are the newest
configured ones (`InForce`). A step changes the entry of one attempt, so each sum changes by one
summand: `SpendStaysWithinCeiling` and `ReservationsFitLimits` compare it with the highest limit
a bucket has had and the newest one, `CompleteCostsAreExact` with the estimates, and
`DeliveryStaysCapped` with the limits of the delivery, counted over its family of Runs.
Assumption: `LedgerAssumption`; among it, that the Runs of a family draw on every bucket of their
root, which `_validate_context` demands ("A Run family cannot change budget ownership") and
`BudgetContext.scopes` gives.

**Workers** (`ReadOnly_proofs`). `DelegatedOnce` is not inductive, because a call admits its
workers one at a time, long after it looked at the history. `WorkersInv` adds what the call
knows (`CallInv`): its remaining tasks are of different fingerprints, none of them is in the
history of the chain, and its snapshots are as many as its tasks. Nobody else admits a worker
of the chain meanwhile, because a Session has one call at a time. `NeverDelegatedTwice`
follows. `CallsSettle` rests on `SettleInv`: a worker runs only during the call of the newest
Run that admitted it, and that Run's count is the number of workers it has settled, unless
its process is lost. Assumption: `WorkerAssumption`.

**KnowledgeIndex** (`ReadOnly_proofs`). Both theorems on it rest on the generation:
`IndexInv` says that while the index's generation is the one a build or a search has read,
the index is what it has read (`BuildSound`, `LookupSound`), that publications exclude each
other (`OneWriter`), and that every row carries the index's profile. A row that a publication
keeps is then the row it would have written, which is `PublicationsAreOneBuild`; and the pin
of a search whose generation did not move is the pin of its original query, which is
`AnswersAreOneIndex`. Assumption: `IndexAssumption`.

**RunRecovery** (`RunRecovery_proofs`). `ContinueIsSound` speaks of the log at admission, which
is a thread or two after the check. `RInv` says that an advertised call is prepared by one Run
and completed by it, and that a latest Run's own calls are not abandoned (`CallFacts`); what
waits for its dispatch has no fact yet (`TaskCalls`); a completed call acts no more, and what no
checkpoint has recorded comes after the last one (`Stillness`); a tool has the task that waits
for it until the process is first lost (`ToolWaits`); what was checked stays true (`Checked`);
and a source that changed after the process was lost with a newer time still says so until
recovery (`LossIsSeen`), crash after crash. Steps that
say nothing of calls keep it by one lemma (`QuietStep`). From it follow `ToolsStopWithTheirRun`,
`ContinuesAreSound` and `RecoveriesAreHonest`, for any number of Runs, calls, edits and crashes.

That every call gets its answer, or why not, is `PInv`: a Run ends once (`EndsOnce`); a process
that accepts work has no open Run (`Closed`), and none that was interrupted once a prompt was
checked (`Prompted`); and `Pairing` says at each place of the task which calls are unanswered:
those it has still to make, the one it is making, none. Every cancel, limit, loss of the process,
recovery and abandonment must bring the log back to one of these. `CallsArePaired` is what a
prompt then finds. `UsableUnlessRaised` is the converse of the finding on `SessionUsable`: where
no call raises past the executor, no ended Run leaves a call without an answer, so that the
raise is the only cause there is. Assumption: `RecoveryAssumption`.

**The services** (`Services_proofs`), each by an invariant of its own:

- Attachments, `ReferencedFilesStay` by `FilesInv`: an id is found in one directory, whatever else
  a step does there (`FileAssumption`).
- Skills, `SkillsStayReviewed` by `SkillInv`: what an import holds was shown before it was held, and
  what a Run has is what its admission saw.
- Evaluation, `EvaluationsAreEvidence` by `EvaluationInv`: the last report holds the verdicts up to
  the case at work or the one before it (`Batch`), reports are numbered once, requests under way
  are confirmed ones (`EvaluationAssumption`).
- Delivery, `DeliveriesAreSound` by `DeliveryInv`: whose operation it is, and what repair and verdict
  are at each of its phases (`Standing`), between which other programs change the checkout
  (`DeliveryAssumption`).
- Worktrees, `CheckoutsStaySafe` by `TreeInv`: a running removal holds its name, and what its user
  saw is what there is until its record is written (`TreeStanding`).
- Execution copies, `CopiesStaySound` by `CopyInv`: a binding names a copy of its kind
  (`SoundSession`), and a Session has the claim of its worktree copy from the comparison to the
  end of the Run (`Claimed`, `CopyAssumption`).
- Preferences, `PreferencesStayRespected` by `PreferenceInv`: sources are messages already heard, no
  two records were made of one, a topic has one live record, and what a request may carry is of
  what the Run selected; and by `SelectionSound`: what was withdrawn since has a revision that is not
  active, which no later one undoes.
- History import, `ImplementsReview` by `ImportInv`: only the last Run is unfinished and what
  a Run is doing fits its action (`RunsInv`), and every import names a completed preview whose
  hash is what it read once it is at `read` (`Sourced`). `RecordPreview` and `CommitHistory` are
  the steps of `ReviewedImport`, and every other step leaves its variables alone
  (`ImportAssumption`).
- Receipts, `ReceiptsStayTrue` by `MutationInv`, which says by the state of a key's receipt what
  has happened and what may have been told (`KeySound`), what a request under way relies on
  (`HandlerSound`), and that one request at most is at the write of a key (`OneWrite`), because
  it found no receipt there or, for a Run, holds the Session's reservation. `HandlerStep`
  reduces every step to its own key (`ReceiptAssumption`: a Run's key and a mutation's are looked
  up apart, as they are in `run_receipt` and `begin_mutation`).

**TaskPlan and ContextView** (`Context_proofs`). `PlanInv`: the numbers of a plan are distinct and
below the next one, and so is every number ever planned. One item keeps what `Kept` says of the
candidate, and a fold of such steps keeps it, which is `NumbersStay`. That a plan can be worked off
needs what the search computes. `Visit` calls itself below a task it is inside of, so its
recursion is not over the tasks: the lemmas up to `VisitSolves` show that it has a solution, by
`SetInduction` on the tasks a search is not inside of yet, because a search that goes on is
inside of one more. `SearchRight` then says by the same induction what a search returns: if it
found nothing, what it has visited is closed and has no circle; if it found one, the graph has
one, or the tasks it was inside of do. `CirclesAreFound` is what that comes to for a whole graph.
`PlansStaySound` adds to `PlanInv` what an accepted plan is (`SoundPlan`) and follows the echo
item by item: after k items the candidate is the first k tasks. Assumption: `PlanAssumption`.

`SummariesArePaidOnce` counts claims, so `ContextInv` compares any two claims of a model: they are
apart in events, time and size by as many minima and cooldowns as there are claims between them
(`PaidApart`). A claim is made only when the projection since the last summary is long enough,
and `ProjectFits` shows that a projection is never longer than the events it is made from.
Assumption: `ContextAssumption`.

`RequestsAreWhole` says of the messages of one request what the log says, so `WholeInv` first says
what the log is like: `Owed` counts the calls that have no result after n events, and in an
`Answered` log a prompt or a response comes when none is owed and a result when one is. Nothing
is owed outside of `tools` and `parked` (`Paired`), nor after what a saved summary covers (`Covers`). From
such a place a projection keeps `Reading` event by event (`ReadOne`, `ProjectReads`): what is pending is what
is owed, the prompts and responses read are those of the log, and the results collected are
those recorded since the last response. So `Materialize` is `Whole`. Folding is two nested folds, one over the
messages and one over the blocks of a message: `FoldKeeps` shows that each step changes a block
of an old result to a placeholder that is shorter and nothing else (`FoldedFrom`), and that a request still
too long has no such block left (`Done`). The former is `SentIsWhole`, the latter the first half of `FailuresAreReal`; its other
half, `RaiseHolds`, is that what follows an end where calls were owed can only be their
results. `WholeInvariant` proves all this inductive, `RequestsStayWhole` is the property.

**FailureLoops** (`FailureLoops_proofs`). What the detector knows is a fold over a part of the log,
so the proof first says what that fold is (`ReadTo`, `WindowShows`): the entry of each outcome has
its fingerprint and the source of the last checkpoint before the next call, and its place in the
window is its rank among the outcomes. `RepeatedIs` and `RepeatedWhen` are then the meaning of
`RepeatedFailure` in both directions, counted from the newest outcome, because the start of the
window depends on the log and its end does not. The first direction, with what the log is like
where a Run is being stopped (`Newly`), is `StopsAreProved`. For the other property `LoopInv`
carries a `Streak`: the equal failures in a row began at an outcome
since which no Run was admitted, at one source. As long as no checkpoint came after one of them (`Unseen`), there are fewer than
Window before the next call, because a full window would have asked for a checkpoint; once
one did (`Seen`), a window that fills from there on holds only entries of the source as it is, and the next
outcome stops the Run. The two parts add up to the bound, and a failure of a writing tool is
seen at once. `LoopInvariant` proves this inductive, and `RepetitionStops` is `RepetitionIsStopped` for
every window, any fingerprints and any number of Runs, calls and edits. Assumption:
`FailureAssumption`.

**Only model-checked**: liveness (`AcceptedFinishes`, `ControlServed`, `RequestsEnd`), which
needs ENABLED; queue order (`KeysAreServed`), which is not true of every value of the constants.
The properties of runs that end in a violation are not theorems, of course: `UsableUnlessRaised` proves the one of them that
holds without its cause.

## 7. What is not modelled, and why

Left to do is in section 2. Not planned: the front end (no state the Runtime relies on), provider
and MCP protocols (external; what they may do to a Run or the ledger is a choice in the models),
the Docker client (its outcomes are in `RunRecovery` and `CopyRuns`), encryption of secrets (a
library call), telemetry (a derived export), grading, metrics, ranking and vectors (numeric),
request schemas, directory listings and previews (input and output), and the conversion of
legacy rows and the parsing of Skill packages, messages and patches (data, of which the models
keep what identifies it), and of prompts their composition and the normalization of text. The services are modelled one by one: that two of them exclude each
other by the Host's Workspace locks is a guard in each, and `RunDispatch` models those locks.
