---------------------------- MODULE BudgetLedger ----------------------------
(***************************************************************************)
(* The token ledger (budgets.py, model_budget.py) and the model calls that *)
(* draw on it: host.py _complete_with_retry, the remote embeddings and the *)
(* connection probe.  A call waits for a model slot, reserves its estimate *)
(* in every scope of its Run (root Run, own Run, delivery, project, UTC    *)
(* day), goes to the provider, and is settled with what the provider       *)
(* reported; a failed, cancelled or lost call keeps its reservation until  *)
(* a person resolves it.  Every ledger operation is one SQLite transaction *)
(* and one action.  What the provider really bills is the variable billed, *)
(* which the program never reads.                                          *)
(*                                                                         *)
(* Prices do not change here: a cost estimate is the usage it was made of. *)
(* The audit fact of "keep unknown" changes no bucket and is left out.     *)
(***************************************************************************)
EXTENDS Sequences, FiniteSetsExt

CONSTANTS
  Runs, RootOf,      \* a worker's root is its parent Run, any other is its own
  Requests, RunOf,   \* model requests and the Run that makes them
  Embeddings,        \* requests of embed_remote
  Tries,             \* max_attempts of each request
  Scopes, RunScopes, \* the run, delivery and project buckets of a Run
  Delivery,          \* Runs of the one delivery under repair limits
  DeliveryAttempts, DeliveryTokens, \* its model_attempts and observed_tokens
  Configs, ConfigOf, \* budget configurations, by request identity
  StartLimits,       \* limits in force at the start
  ModelSlots,        \* SchedulingLimits.model_requests
  Sizes,             \* request estimates
  Spends,            \* tokens a provider may bill or report
  None,
  MaxDay, MaxCrashes \* bounds

Days     == {<<"day", d>> : d \in 1 .. MaxDay}
Buckets  == Scopes \cup Days
Attempts == {<<q, n>> : q \in Requests, n \in 1 .. 3}
Limits   == Nat \cup {None}

ASSUME LedgerAssumption ==
  /\ None \notin Nat /\ IsFiniteSet(Requests)
  /\ RootOf \in [Runs -> Runs] /\ \A r \in Runs : RootOf[RootOf[r]] = RootOf[r]
  /\ RunOf \in [Requests -> Runs] /\ Embeddings \subseteq Requests
  /\ Tries \in [Requests -> 1 .. 3] /\ \A q \in Embeddings : Tries[q] = 1
  /\ RunScopes \in [Runs -> SUBSET Scopes]
  /\ \A r \in Runs : RunScopes[RootOf[r]] \subseteq RunScopes[r] \* a family has one context
  /\ Scopes \cap Days = {}
  /\ Delivery \subseteq Runs /\ \A r \in Runs : r \in Delivery <=> RootOf[r] \in Delivery
  /\ DeliveryAttempts \in Nat /\ DeliveryTokens \in Nat
  /\ ConfigOf \in [Configs -> [scope : Buckets, limit : Limits]]
  /\ StartLimits \in [Buckets -> Limits]
  /\ ModelSlots \in Nat \ {0} /\ Sizes \subseteq Nat /\ Spends \subseteq Nat
  /\ MaxDay \in Nat \ {0} /\ MaxCrashes \in Nat

VARIABLES
  book,     \* per attempt: its reservation and what settles it
  cost,     \* per attempt: its cost estimate, or None
  limits,   \* budget.configured: the limit in force per bucket
  applied,  \* budget.configured: the request identities, in order
  closed,   \* the delivery is finished, past its deadline or has lost its owner
  run,      \* per Run: "new", "running", "ended"
  req,      \* per request: where its task stands, and its attempt number
  line,     \* waiters of the model semaphore, FIFO
  day,      \* the UTC day
  up,       \* the process runs
  crashes,
  billed    \* per attempt: what the provider billed

facts == <<book, cost, limits, applied, closed>>
vars  == <<facts, run, req, line, day, up, crashes, billed>>

Current(q) == <<q, req[q].try>>
InSlot     == {q \in Requests : req[q].at \in {"reserved", "sent", "drain"}}
AtProvider == {q \in Requests : req[q].at \in {"sent", "drain"}}
Live       == {q \in Requests : req[q].at \notin {"new", "done", "failed"}}
Workers(r) == {w \in Runs : RootOf[w] = r /\ w # r}

Nothing == [need |-> 0, scopes |-> {}, seen |-> 0, known |-> None, by |-> "none"]

Init ==
  /\ book = [a \in Attempts |-> Nothing] /\ cost = [a \in Attempts |-> None]
  /\ limits = StartLimits /\ applied = <<>> /\ closed = FALSE
  /\ run = [r \in Runs |-> "new"]
  /\ req = [q \in Requests |-> [at |-> "new", try |-> 1]]
  /\ line = <<>> /\ day = 1 /\ up = TRUE /\ crashes = 0
  /\ billed = [a \in Attempts |-> 0]

(***************************************************************************)
(* Buckets are projections of the facts: _projection, _amount, _bucket.    *)
(***************************************************************************)
\* Fault: an unknown amount counts as the part that was reported.
ChargeReported(b) == IF b.known # None THEN b.known
                     ELSE IF b.by = "open" THEN b.need ELSE b.seen

\* What an attempt counts for: its known amount, or else all it reserved, or
\* the part the provider reported if that is more.
Charge(b) == IF b.known # None THEN b.known ELSE Max({b.need, b.seen})

Reserved(bk)     == {a \in Attempts : bk[a].by # "none"}
Holders(bk, s)   == {a \in Reserved(bk) : s \in bk[a].scopes}
Committed(bk, s) == SumFunctionOnSet([a \in Attempts |-> Charge(bk[a])], Holders(bk, s))

\* reserve() refuses what exceeds a limit and anything once it is reached.
Exceeds(s, n) ==
  /\ limits[s] # None
  /\ Committed(book, s) + n > limits[s] \/ Committed(book, s) >= limits[s]

ScopesOf(r) == RunScopes[r] \cup {<<"day", day>>}

\* delivery_limit_reason: attempts and observed tokens over all the Runs of the
\* delivery, its workers and failed attempts included.
Observed(b) == IF b.by = "reported" THEN b.known ELSE b.seen
DeliveryBook == {a \in Reserved(book) : RunOf[a[1]] \in Delivery}
ObservedTokens == SumFunctionOnSet([a \in Attempts |-> Observed(book[a])], DeliveryBook)
DeliveryCalls == {a \in DeliveryBook : a[1] \notin Embeddings}

\* Fault: every Run of the delivery has the attempt limit to itself.
DeliveryRefusesRun(q) ==
  /\ RunOf[q] \in Delivery
  /\ \/ closed
     \/ ObservedTokens >= DeliveryTokens
     \/ /\ q \notin Embeddings
        /\ Cardinality({a \in DeliveryCalls : RunOf[a[1]] = RunOf[q]}) >= DeliveryAttempts

DeliveryRefuses(q) ==
  /\ RunOf[q] \in Delivery
  /\ \/ closed
     \/ ObservedTokens >= DeliveryTokens
     \/ q \notin Embeddings /\ Cardinality(DeliveryCalls) >= DeliveryAttempts

(***************************************************************************)
(* Runs.                                                                   *)
(***************************************************************************)
\* A Run starts, a worker under its running parent.
StartRun(r) ==
  /\ up /\ run[r] = "new"
  /\ RootOf[r] # r => run[RootOf[r]] = "running"
  /\ run' = [run EXCEPT ![r] = "running"]
  /\ UNCHANGED <<facts, req, line, day, up, crashes, billed>>

\* A Run ends when its requests and its workers have ended.
EndRun(r) ==
  /\ up /\ run[r] = "running"
  /\ \A q \in Live : RunOf[q] # r
  /\ \A w \in Workers(r) : run[w] # "running"
  /\ run' = [run EXCEPT ![r] = "ended"]
  /\ UNCHANGED <<facts, req, line, day, up, crashes, billed>>

(***************************************************************************)
(* A model request: _complete_with_retry, embed_remote.                    *)
(***************************************************************************)
\* A Run makes one request at a time, and none while it waits for workers.
Ask(q) ==
  /\ up /\ run[RunOf[q]] = "running" /\ req[q].at = "new"
  /\ \A p \in Live : RunOf[p] # RunOf[q]
  /\ \A w \in Workers(RunOf[q]) : run[w] # "running"
  /\ req' = [req EXCEPT ![q].at = "line"]
  /\ line' = Append(line, q)
  /\ UNCHANGED <<facts, run, day, up, crashes, billed>>

Reservation(q, n) ==
  [need |-> n, scopes |-> ScopesOf(RunOf[q]), seen |-> 0, known |-> None, by |-> "open"]

Refusal(q, n) == DeliveryRefuses(q) \/ \E s \in ScopesOf(RunOf[q]) : Exceeds(s, n)

\* Fault: a request that is refused waits for the budget to grow.
BeginOrWait(q) ==
  /\ up /\ line # <<>> /\ q = Head(line) /\ req[q].at = "line"
  /\ Cardinality(InSlot) < ModelSlots
  /\ \E n \in Sizes :
       IF Refusal(q, n)
       THEN /\ line' = Append(Tail(line), q)
            /\ UNCHANGED <<req, book>>
       ELSE /\ line' = Tail(line)
            /\ req' = [req EXCEPT ![q].at = "reserved"]
            /\ book' = [book EXCEPT ![Current(q)] = Reservation(q, n)]
  /\ UNCHANGED <<cost, limits, applied, closed, run, day, up, crashes, billed>>

\* The first waiter gets a model slot.  Without an await in between, begin()
\* checks the delivery limits, then reserves in every scope and records the
\* attempt, or raises BudgetExceeded, which ends the request and frees the slot.
Begin(q) ==
  /\ up /\ line # <<>> /\ q = Head(line) /\ req[q].at = "line"
  /\ Cardinality(InSlot) < ModelSlots
  /\ line' = Tail(line)
  /\ \E n \in Sizes :
       IF Refusal(q, n)
       THEN /\ req' = [req EXCEPT ![q].at = "failed"]
            /\ UNCHANGED book
       ELSE /\ req' = [req EXCEPT ![q].at = "reserved"]
            /\ book' = [book EXCEPT ![Current(q)] = Reservation(q, n)]
  /\ UNCHANGED <<cost, limits, applied, closed, run, day, up, crashes, billed>>

\* The committed attempt was announced and the provider is called.
Send(q) ==
  /\ up /\ req[q].at = "reserved"
  /\ req' = [req EXCEPT ![q].at = "sent"]
  /\ UNCHANGED <<facts, run, line, day, up, crashes, billed>>

(***************************************************************************)
(* finish(): settle() and the cost estimate.  A report is complete, partial*)
(* (seen is a lower bound) or absent.  settle refuses an attempt that is   *)
(* known or resolved, or an unknown one that stays unknown.                *)
(***************************************************************************)
Reports(spent) ==
  {[seen |-> 0, known |-> spent, by |-> "reported"]}
    \cup {[seen |-> v, known |-> None, by |-> "unknown"] : v \in {0} \cup {x \in Spends : x <= spent}}
NoReport == [seen |-> 0, known |-> None, by |-> "unknown"]

Settleable(a) == book[a].by = "open"

Settled(a, report) ==
  [book EXCEPT ![a].seen = report.seen, ![a].known = report.known, ![a].by = report.by]

Estimate(report) ==
  [usage |-> IF report.known # None THEN report.known ELSE report.seen,
   complete |-> report.known # None]

Finish(q, spent, report, next) ==
  LET a == Current(q) IN
  /\ Settleable(a)
  /\ book' = Settled(a, report)
  /\ cost' = [cost EXCEPT ![a] = Estimate(report)]
  /\ billed' = [billed EXCEPT ![a] = spent]
  /\ req' = [req EXCEPT ![q].at = next]
  /\ UNCHANGED <<limits, applied, closed, run, line, day, up, crashes>>

\* The provider answers; the response is settled before anything else happens.
Answer(q) ==
  /\ up /\ req[q].at = "sent" /\ q \notin Embeddings
  /\ \E spent \in Spends : \E report \in Reports(spent) : Finish(q, spent, report, "done")

FailTo(q) == IF req[q].try < Tries[q] THEN {"backoff", "failed"} ELSE {"failed"}

\* A call that has not reached the provider bills nothing.
MayBill(q) == IF req[q].at = "reserved" THEN {0} ELSE {0} \cup Spends

Fail(q) ==
  /\ up /\ req[q].at = "sent" /\ q \notin Embeddings
  /\ \E spent \in MayBill(q), next \in FailTo(q) : Finish(q, spent, NoReport, next)

\* Cancellation of a call in a slot; a generation is given up at once.
CancelInSlot(q) ==
  /\ up
  /\ req[q].at = "reserved" \/ (req[q].at = "sent" /\ q \notin Embeddings)
  /\ \E spent \in MayBill(q) : Finish(q, spent, NoReport, "failed")

\* An embedding was answered, failed, timed out or was cancelled: its request
\* and its client are awaited to the end.
Drain(q) ==
  /\ up /\ req[q].at = "sent" /\ q \in Embeddings
  /\ req' = [req EXCEPT ![q].at = "drain"]
  /\ UNCHANGED <<facts, run, line, day, up, crashes, billed>>

\* They are over: usage is settled even if it arrived after the cancellation.
Drained(q) ==
  /\ up /\ req[q].at = "drain"
  /\ \E spent \in MayBill(q), next \in {"done", "failed"} :
       \E report \in Reports(spent) : Finish(q, spent, report, next)

\* Cancellation of a request that waits for a slot or pauses.
CancelWaiting(q) ==
  /\ up /\ req[q].at \in {"line", "backoff"}
  /\ req' = [req EXCEPT ![q].at = "failed"]
  /\ line' = SelectSeq(line, LAMBDA p : p # q)
  /\ UNCHANGED <<facts, run, day, up, crashes, billed>>

\* The pause is over: the next attempt competes for a slot and for budget anew.
Retry(q) ==
  /\ up /\ req[q].at = "backoff"
  /\ req' = [req EXCEPT ![q] = [at |-> "line", try |-> req[q].try + 1]]
  /\ line' = Append(line, q)
  /\ UNCHANGED <<facts, run, day, up, crashes, billed>>

(***************************************************************************)
(* People: configuration, its retransmission, and resolution of unknowns.  *)
(***************************************************************************)
\* Fault: a retransmitted configuration is applied again.
ConfigureAgain(c) ==
  /\ up
  /\ limits' = [limits EXCEPT ![ConfigOf[c].scope] = ConfigOf[c].limit]
  /\ applied' = IF c \in Range(applied) THEN applied ELSE Append(applied, c)
  /\ UNCHANGED <<book, cost, closed, run, req, line, day, up, crashes, billed>>

\* A request identity that was applied before changes nothing.
Configure(c) ==
  /\ up
  /\ c \notin Range(applied)
  /\ limits' = [limits EXCEPT ![ConfigOf[c].scope] = ConfigOf[c].limit]
  /\ applied' = Append(applied, c)
  /\ UNCHANGED <<book, cost, closed, run, req, line, day, up, crashes, billed>>

\* Fault: an attempt that is still at the provider may be resolved.
ResolvableEarly(a, n) ==
  /\ a \in Reserved(book) /\ book[a].known = None
  /\ n >= book[a].seen

\* require_unknown: the attempt has no known amount, and its task has finished
\* it or its Run has ended; the person's figure is not below the reported part.
Resolvable(a, n) ==
  /\ a \in Reserved(book) /\ book[a].known = None
  /\ book[a].by = "unknown" \/ run[RunOf[a[1]]] = "ended"
  /\ n >= book[a].seen

Resolve(a) ==
  /\ up
  /\ \E n \in {0} \cup Spends :
       /\ Resolvable(a, n)
       /\ book' = [book EXCEPT ![a].known = n, ![a].by = "user"]
  /\ UNCHANGED <<cost, limits, applied, closed, run, req, line, day, up, crashes, billed>>

(***************************************************************************)
(* Time, the end of the delivery, and the end of the process.              *)
(***************************************************************************)
Midnight ==
  /\ day < MaxDay /\ day' = day + 1
  /\ UNCHANGED <<facts, run, req, line, up, crashes, billed>>

CloseDelivery ==
  /\ up /\ Delivery # {} /\ ~ closed /\ closed' = TRUE
  /\ UNCHANGED <<book, cost, limits, applied, run, req, line, day, up, crashes, billed>>

\* The process is lost: what each call at the provider bills is never learnt.
LoseProcess(bill) ==
  /\ up /\ crashes < MaxCrashes
  /\ up' = FALSE /\ crashes' = crashes + 1
  /\ req' = [q \in Requests |-> IF q \in Live THEN [req[q] EXCEPT !.at = "failed"] ELSE req[q]]
  /\ line' = <<>>
  /\ billed' = [a \in Attempts |->
       IF \E q \in AtProvider : a = Current(q) THEN bill[a[1]] ELSE billed[a]]

Crash ==
  /\ \E bill \in [AtProvider -> {0} \cup Spends] : LoseProcess(bill)
  /\ UNCHANGED <<facts, run, day>>

\* finish() is two transactions: the process can be lost between the settlement
\* and the cost estimate.
CrashUnpriced(q) ==
  /\ q \in AtProvider
  /\ \E bill \in [AtProvider -> {0} \cup Spends] : \E report \in Reports(bill[q]) :
       /\ Settleable(Current(q))
       /\ book' = Settled(Current(q), report)
       /\ LoseProcess(bill)
  /\ UNCHANGED <<cost, limits, applied, closed, run, day>>

\* Fault: recovery settles what the lost process left open as unused.
RestartRefunds ==
  /\ ~ up /\ up' = TRUE
  /\ run' = [r \in Runs |-> IF run[r] = "running" THEN "ended" ELSE run[r]]
  /\ book' = [a \in Attempts |->
       IF book[a].by = "open"
       THEN [book[a] EXCEPT !.known = 0, !.by = "reported"] ELSE book[a]]
  /\ UNCHANGED <<cost, limits, applied, closed, req, line, day, crashes, billed>>

\* The next start closes the Runs that were running and dispatches nothing; the
\* reservations stay as they are.
Restart ==
  /\ ~ up /\ up' = TRUE
  /\ run' = [r \in Runs |-> IF run[r] = "running" THEN "ended" ELSE run[r]]
  /\ UNCHANGED <<facts, req, line, day, crashes, billed>>

Next ==
  \/ \E r \in Runs : StartRun(r) \/ EndRun(r)
  \/ \E q \in Requests :
       \/ Ask(q) \/ Begin(q) \/ Send(q) \/ Answer(q) \/ Fail(q) \/ CancelInSlot(q)
       \/ Drain(q) \/ Drained(q) \/ CancelWaiting(q) \/ Retry(q) \/ CrashUnpriced(q)
  \/ \E c \in Configs : Configure(c)
  \/ \E a \in Attempts : Resolve(a)
  \/ Midnight \/ CloseDelivery \/ Crash \/ Restart

Spec == Init /\ [][Next]_vars

\* The event loop runs every task that can run, the model timeout ends a call
\* that is not answered, and a cancelled HTTP request ends.
Fairness ==
  \A q \in Requests :
    /\ WF_vars(Begin(q)) /\ WF_vars(Send(q)) /\ WF_vars(Retry(q))
    /\ WF_vars(Answer(q) \/ Fail(q) \/ Drain(q)) /\ WF_vars(Drained(q))

FairSpec == Spec /\ Fairness

(***************************************************************************)
(* Invariants.                                                             *)
(***************************************************************************)
\* A call in a model slot has a reservation that nobody has settled or resolved,
\* its Run is running, and the slots are not exceeded: finish() never finds a
\* "Conflicting attempt settlement" or a Run that "already terminated".
InFlightIsOpen ==
  /\ \A q \in InSlot :
       /\ book[Current(q)].by = "open"
       /\ run[RunOf[q]] = "running"
  /\ Cardinality(InSlot) <= ModelSlots

\* The part of a bill a budget answers for: up to the estimate that was reserved,
\* and no more than the figure of the person who resolved it.
Accountable(a) ==
  Min({billed[a], book[a].need}
        \cup IF book[a].by = "user" THEN {book[a].known} ELSE {})

EverLimits(s) ==
  {StartLimits[s]} \cup {ConfigOf[c].limit : c \in {d \in Range(applied) : ConfigOf[d].scope = s}}

\* The highest limit a bucket ever had; None once it had none.
Ceiling(s) ==
  IF None \in EverLimits(s) THEN None ELSE Max(EverLimits(s))

\* What providers bill within the reserved estimates never exceeds the highest
\* limit a bucket ever had: over workers, retries, failures, cancellations,
\* crashes and restarts, whether or not the program learnt the bill.
SpendWithinCeiling ==
  \A s \in Buckets :
    Ceiling(s) # None =>
      SumFunctionOnSet([a \in Attempts |-> Accountable(a)], Holders(book, s)) <= Ceiling(s)

\* The delivery's attempt limit holds over all its Runs: a Continue, a worker, a
\* retry or a restart gives no new attempts.
DeliveryCapped == Cardinality(DeliveryCalls) <= DeliveryAttempts

\* Fault: attempts without an estimate are not looked at.
CostCompleteEstimated ==
  /\ \E a \in Attempts : cost[a] # None
  /\ \A a \in Reserved(book) : cost[a] # None => cost[a].complete

\* summarize_cost_events: complete means that the sum of the estimates is the
\* sum of the bills; a lost or unknown call is never a free one.
CostComplete ==
  /\ \E a \in Attempts : cost[a] # None
  /\ \A a \in Reserved(book) : cost[a] # None /\ cost[a].complete

Estimated == {a \in Attempts : cost[a] # None}

CompleteIsExact ==
  CostComplete =>
    SumFunctionOnSet([a \in Attempts |-> cost[a].usage], Estimated)
      = SumFunctionOnSet(billed, Attempts)

(***************************************************************************)
(* What a step may never do.                                               *)
(***************************************************************************)
\* A reservation is never lost, an amount once known never changes, and what an
\* attempt counts for shrinks only to the provider's true bill or to a person's
\* figure, which is not below the part that was reported.
HoldsAreKept ==
  [][\A a \in Reserved(book) :
       /\ a \in Reserved(book') /\ book'[a].need = book[a].need /\ book'[a].scopes = book[a].scopes
       /\ book[a].known # None => book'[a] = book[a]
       /\ Charge(book'[a]) < Charge(book[a]) =>
            \/ book'[a].by = "reported" /\ book'[a].known = billed'[a]
            \/ book'[a].by = "user" /\ book'[a].known >= book[a].seen]_vars

\* The limit of the configuration that was the last to be accepted.
NewestLimit(s) ==
  LET Of == {i \in 1 .. Len(applied) : ConfigOf[applied[i]].scope = s}
  IN IF Of = {} THEN StartLimits[s] ELSE ConfigOf[applied[Max(Of)]].limit

\* A reservation fits the newest limit of every bucket it draws on, the Run's
\* family included; a configuration that is transmitted twice restores nothing.
ReservationsFit ==
  [][\A a \in Reserved(book') \ Reserved(book) :
       \A s \in RunScopes[RunOf[a[1]]] \cup RunScopes[RootOf[RunOf[a[1]]]]
                  \cup {<<"day", day>>} :
         /\ s \in book'[a].scopes
         /\ NewestLimit(s) # None => Committed(book', s) <= NewestLimit(s)]_vars

(***************************************************************************)
(* Progress.                                                               *)
(***************************************************************************)
\* Every request that waits for a model slot is answered or given up.
RequestsEnd ==
  \A q \in Requests : req[q].at = "line" ~> req[q].at \in {"done", "failed"}
=============================================================================
