----------------------------- MODULE ContextView -----------------------------
(***************************************************************************)
(* The messages of a request (context_builder.py): a projection of the     *)
(* Session's log that keeps calls and results paired, starts with a saved  *)
(* summary of ended Runs where there is one, asks for a new one when the   *)
(* request is too long, and folds old results when that is not enough.  A  *)
(* summary is claimed in the log before it is awaited.  Events that become *)
(* no message are left out; sizes are those after preview and elision of   *)
(* plan arguments; one process builds for a Session at a time.             *)
(***************************************************************************)
EXTENDS Integers, FiniteSets, Sequences, SequencesExt, Absence

CONSTANTS
  Models,               \* provider and model a Run may be sent to
  Budget, Fixed,        \* context_limit; what the system prompt and the tools take of it
  KeepRecent,           \* KEEP_RECENT_TOOL_RESULTS
  Cooldown, MinNew,     \* SUMMARY_MIN_INTERVAL_SECONDS, SUMMARY_MIN_NEW_CHARACTERS
  ResultSizes, SummarySizes, Placeholder, \* sizes of results, summaries and of a folded result
  MaxEvents, MaxClock   \* bounds

ASSUME ContextAssumption ==
  /\ {Budget, Fixed, KeepRecent, Cooldown, MinNew, Placeholder, MaxEvents, MaxClock} \subseteq Nat
  /\ ResultSizes \cup SummarySizes \subseteq Nat \ {0}

VARIABLES
  events,       \* the Session's log: [kind, calls, size]
  checkpoints,  \* context_checkpoints: [model, covered, size]
  claims,       \* context.summary_claimed: [model, covered, history, at]
  clock,
  turn,         \* the Session's Run: [pc, model, force]
  request       \* what the last build came to: [kind, messages]

contextVars == <<events, checkpoints, claims, clock, turn, request>>

NoRequest == [kind |-> "none", messages |-> <<>>]
EventOf(kind, calls, size) == [kind |-> kind, calls |-> calls, size |-> size]

ContextInit ==
  /\ events = <<>> /\ checkpoints = <<>> /\ claims = <<>> /\ clock = 0
  /\ turn = [pc |-> "ended", model |-> None, force |-> FALSE]
  /\ request = NoRequest

(***************************************************************************)
(* The projection: MessagesProjection.project.                             *)
(***************************************************************************)
Message(kind, at, sizes) == [kind |-> kind, at |-> at, sizes |-> sizes]

\* One event read: the results of a response become one message when the last of them is there;
\* a result of no call that is still open is passed over.
Read(state, i) ==
  LET e == events[i] IN
  CASE e.kind \in {"user", "response"} ->
         [state EXCEPT !.messages = Append(@, Message(e.kind, i, <<e.size>>)),
                       !.pending = IF e.kind = "response" THEN e.calls ELSE @]
    [] e.kind = "result" /\ state.pending = 1 ->
         [messages |-> Append(state.messages, Message("results", i, Append(state.results, e.size))),
          pending |-> 0, results |-> <<>>]
    [] e.kind = "result" /\ state.pending > 1 ->
         [state EXCEPT !.pending = @ - 1, !.results = Append(@, e.size)]
    [] OTHER -> state

\* The events after from, up to to.
Project(from, to) ==
  FoldLeft(Read, [messages |-> <<>>, pending |-> 0, results |-> <<>>],
           [n \in 1..(to - from) |-> from + n])

SizeOf(messages) == SumFunction([k \in DOMAIN messages |-> SumFunction(messages[k].sizes)])

RequestSize(messages) == Fixed + SizeOf(messages)

NoCheckpoint == [model |-> turn.model, covered |-> 0, size |-> 0]

\* The newest checkpoint of this model; the log before it cannot have changed.
Saved ==
  FoldLeft(LAMBDA found, c : IF c.model = turn.model THEN c ELSE found, NoCheckpoint, checkpoints)

Materialize(c) ==
  (IF c.covered = 0 THEN <<>> ELSE <<Message("summary", c.covered, <<c.size>>)>>)
  \o Project(c.covered, Len(events)).messages

(***************************************************************************)
(* Folding: _fold_tool_results.                                            *)
(***************************************************************************)
Groups(messages) == {i \in DOMAIN messages : messages[i].kind = "results"}

\* Fault: the oldest results are spared.
NewGroups(messages) ==
  {i \in Groups(messages) : Cardinality({j \in Groups(messages) : j < i}) >= KeepRecent}

\* All but the newest KeepRecent.
OldGroups(messages) ==
  {i \in Groups(messages) : Cardinality({j \in Groups(messages) : j > i}) >= KeepRecent}

FoldBlock(messages, block) == [messages EXCEPT ![block[1]].sizes[block[2]] = Placeholder]

\* Of one message, in order, the blocks that a placeholder makes shorter, until the request fits.
FoldBlocks(messages, i) ==
  FoldLeft(LAMBDA folded, p : IF RequestSize(folded) <= Budget \/ folded[i].sizes[p] <= Placeholder
                              THEN folded ELSE FoldBlock(folded, <<i, p>>),
           messages, [p \in DOMAIN messages[i].sizes |-> p])

\* The oldest first.
Fold(messages) ==
  FoldLeft(LAMBDA folded, i : IF i \in OldGroups(messages) THEN FoldBlocks(folded, i) ELSE folded,
           messages, [i \in DOMAIN messages |-> i])

(***************************************************************************)
(* The claim: _claim_summary.                                              *)
(***************************************************************************)
\* The end of the newest ended Run.
Boundary == Max({0} \cup {i \in DOMAIN events : events[i].kind = "end"})

\* What a summary is made of; it tells two prefixes apart when a message stands between them.
History(to) ==
  LET messages == Project(0, to).messages
  IN  [n \in DOMAIN messages |-> messages[n].at]

Claimed == {n \in DOMAIN claims : claims[n].model = turn.model}

\* Fault: only the time since the last claim is looked at.
MayClaimAgain == Claimed # {} => clock - claims[Max(Claimed)].at >= Cooldown

MayClaim ==
  /\ \A n \in Claimed : claims[n].history # History(Boundary)
  /\ Claimed # {} =>
       LET previous == claims[Max(Claimed)] IN
       /\ Boundary > previous.covered
       /\ clock - previous.at >= Cooldown
       /\ SizeOf(Project(previous.covered, Boundary).messages) >= MinNew

Claim ==
  claims' = Append(claims, [model |-> turn.model, covered |-> Boundary,
                            history |-> History(Boundary), at |-> clock])

(***************************************************************************)
(* One build before every step: ContextBuilder.build.                      *)
(***************************************************************************)
Fail(kind, messages) ==
  /\ Len(events) < MaxEvents
  /\ request' = [kind |-> kind, messages |-> messages]
  /\ events' = Append(events, EventOf("end", 0, 0))
  /\ turn' = [turn EXCEPT !.pc = "ended", !.force = FALSE]

SendMessages(messages) ==
  /\ request' = [kind |-> "sent", messages |-> messages]
  /\ turn' = [turn EXCEPT !.pc = "asked", !.force = FALSE]
  /\ UNCHANGED events

\* After the summary, whatever became of it: fold, then send or overflow.
Finish(messages) ==
  LET folded == Fold(messages) IN
  IF RequestSize(folded) > Budget THEN Fail("overflow", folded) ELSE SendMessages(folded)

\* A summary is worth asking for when a Run ended after the one in use was made.
SummaryDue == Boundary > Saved.covered

Build ==
  LET messages == Materialize(Saved) IN
  /\ turn.pc = "step"
  /\ \/ /\ ~ turn.force /\ RequestSize(messages) <= Budget
        /\ SendMessages(messages) /\ UNCHANGED claims
     \/ /\ turn.force \/ RequestSize(messages) > Budget
        /\ ~ SummaryDue \/ (Project(0, Boundary).pending = 0 /\ ~ MayClaim)
        /\ Finish(messages) /\ UNCHANGED claims
     \/ /\ turn.force \/ RequestSize(messages) > Budget
        /\ SummaryDue /\ Project(0, Boundary).pending > 0
        /\ Fail("raised", messages) /\ UNCHANGED claims
     \/ /\ turn.force \/ RequestSize(messages) > Budget
        /\ SummaryDue /\ Project(0, Boundary).pending = 0 /\ MayClaim
        /\ Claim /\ turn' = [turn EXCEPT !.pc = "summarizing"]
        /\ UNCHANGED <<events, request>>
  /\ UNCHANGED <<checkpoints, clock>>

\* A usable summary is adopted when it makes the request shorter, and saved when that is sent.
SummaryReturns ==
  /\ turn.pc = "summarizing"
  /\ \E size \in SummarySizes :
       LET summary   == [model |-> turn.model, covered |-> Boundary, size |-> size]
           candidate == Materialize(summary)
           current   == Materialize(Saved)
           adopted   == RequestSize(candidate) < RequestSize(current)
       IN  /\ Finish(IF adopted THEN candidate ELSE current)
           /\ checkpoints' = IF adopted /\ request'.kind = "sent" THEN Append(checkpoints, summary)
                             ELSE checkpoints
  /\ UNCHANGED <<claims, clock>>

\* Empty, with calls, truncated, or no answer at all.
SummaryFails ==
  /\ turn.pc = "summarizing"
  /\ Finish(Materialize(Saved))
  /\ UNCHANGED <<checkpoints, claims, clock>>

(***************************************************************************)
(* The Run around it: RuntimeHost._run_reserved.                           *)
(***************************************************************************)
LogEvent(event) == Len(events) < MaxEvents /\ events' = Append(events, event)

StartRun ==
  /\ turn.pc = "ended" /\ LogEvent(EventOf("user", 0, 1))
  /\ \E model \in Models : turn' = [pc |-> "step", model |-> model, force |-> FALSE]
  /\ request' = NoRequest /\ UNCHANGED <<checkpoints, claims, clock>>

\* Continue closes every call that has no result; it adds no message of the user.
ContinueRun ==
  LET open == Project(0, Len(events)).pending IN
  /\ turn.pc = "parked" /\ Len(events) + open <= MaxEvents
  /\ events' = events \o [n \in 1..open |-> EventOf("result", 0, 1)]
  /\ turn' = [turn EXCEPT !.pc = "step"]
  /\ request' = NoRequest /\ UNCHANGED <<checkpoints, claims, clock>>

\* Abandoning closes them too, and ends: what comes next is a Run of its own.
AbandonRun ==
  LET open == Project(0, Len(events)).pending IN
  /\ turn.pc = "parked" /\ Len(events) + open < MaxEvents
  /\ events' = events \o [n \in 1..open |-> EventOf("result", 0, 1)] \o <<EventOf("end", 0, 0)>>
  /\ turn' = [turn EXCEPT !.pc = "ended"]
  /\ UNCHANGED <<checkpoints, claims, clock, request>>

Respond ==
  /\ turn.pc = "asked"
  /\ \E calls \in 0..2 :
       /\ LogEvent(EventOf("response", calls, 1))
       /\ turn' = [turn EXCEPT !.pc = IF calls = 0 THEN "answered" ELSE "tools"]
  /\ request' = NoRequest /\ UNCHANGED <<checkpoints, claims, clock>>

\* The next step begins when every call has its result; compact asks for a summary then.
ToolCompleted ==
  /\ turn.pc = "tools"
  /\ \E size \in ResultSizes, compact \in BOOLEAN :
       /\ LogEvent(EventOf("result", 0, size))
       /\ turn' = [turn EXCEPT !.force = @ \/ compact,
                               !.pc = IF Project(0, Len(events)).pending = 1 THEN "step" ELSE @]
  /\ UNCHANGED <<checkpoints, claims, clock, request>>

CompleteRun ==
  /\ turn.pc = "answered" /\ LogEvent(EventOf("end", 0, 0))
  /\ turn' = [turn EXCEPT !.pc = "ended"]
  /\ UNCHANGED <<checkpoints, claims, clock, request>>

\* A cancel, a refused budget (of the summary too) or a restart: the Run is interrupted.
StopRun ==
  /\ turn.pc \notin {"ended", "parked"} /\ LogEvent(EventOf("end", 0, 0))
  /\ turn' = [turn EXCEPT !.pc = "parked", !.force = FALSE]
  /\ request' = NoRequest /\ UNCHANGED <<checkpoints, claims, clock>>

\* The provider refuses the request.
RequestFails ==
  /\ turn.pc = "asked" /\ LogEvent(EventOf("end", 0, 0))
  /\ turn' = [turn EXCEPT !.pc = "ended"]
  /\ request' = NoRequest /\ UNCHANGED <<checkpoints, claims, clock>>

Wait ==
  /\ clock < MaxClock /\ clock' = clock + 1
  /\ UNCHANGED <<events, checkpoints, claims, turn, request>>

ContextNext ==
  \/ StartRun \/ ContinueRun \/ AbandonRun \/ Build \/ SummaryReturns \/ SummaryFails
  \/ Respond \/ ToolCompleted \/ CompleteRun \/ StopRun \/ RequestFails \/ Wait

(***************************************************************************)
(* Properties.                                                             *)
(***************************************************************************)
EventsOf(kinds, from, to) == {n \in (from + 1)..to : events[n].kind \in kinds}

CallsIn(from, to) == SumFunctionOnSet([n \in DOMAIN events |-> events[n].calls], (from + 1)..to)

\* The results that the message at position k stands for.
ResultsOf(k) == EventsOf({"result"}, request.messages[k - 1].at, request.messages[k].at)

LaterGroups(k) == {j \in DOMAIN request.messages : j > k /\ request.messages[j].kind = "results"}

\* A request that is sent fits, begins with the newest saved summary of its model, whose prefix has
\* a result for every call, and then holds every later message once and in order, each response
\* with calls directly before the results of all of them; the newest results are as recorded, an
\* older one is as recorded or a placeholder (ContextBuilder.build, MessagesProjection.project).
SentIsWhole ==
  LET messages == request.messages
      mine     == {n \in DOMAIN checkpoints : checkpoints[n].model = turn.model}
      newest   == CHOOSE n \in mine : \A m \in mine : m <= n
      covered  == IF mine = {} THEN 0 ELSE checkpoints[newest].covered
      spoken   == {k \in DOMAIN messages : messages[k].kind \in {"user", "response"}}
  IN  request.kind = "sent" =>
        /\ Fixed + SizeOf(messages) <= Budget
        /\ covered > 0 => messages[1] = Message("summary", covered, <<checkpoints[newest].size>>)
        /\ CallsIn(0, covered) = Cardinality(EventsOf({"result"}, 0, covered))
        /\ {messages[k].at : k \in spoken} = EventsOf({"user", "response"}, covered, Len(events))
        /\ \A k \in DOMAIN messages :
             LET m     == messages[k]
                 calls == events[m.at].calls
             IN  /\ k > 1 => messages[k - 1].at < m.at
                 /\ m.kind = "summary" => k = 1 /\ covered > 0
                 /\ k \in spoken => m = Message(events[m.at].kind, m.at, <<events[m.at].size>>)
                 /\ m.kind = "response" /\ calls > 0 => k < Len(messages) /\ messages[k + 1].kind = "results"
                 /\ m.kind = "results" =>
                      /\ k > 1 /\ messages[k - 1].kind = "response"
                      /\ Len(m.sizes) = events[messages[k - 1].at].calls
                      /\ Len(m.sizes) = Cardinality(ResultsOf(k))
                      /\ \A n \in ResultsOf(k) :
                           LET p == Cardinality({i \in ResultsOf(k) : i <= n}) IN
                           \/ m.sizes[p] = events[n].size
                           \/ /\ m.sizes[p] = Placeholder /\ Placeholder < events[n].size
                              /\ Cardinality(LaterGroups(k)) >= KeepRecent

\* A model is asked for summaries no more often than its claims allow, whatever became of the
\* earlier ones and through every stop and restart: not twice for the same messages, not within
\* the cooldown, and never more than once for each MinNew of what the log gained (ADR-084).
SummariesArePaidOnce ==
  \A i, j \in DOMAIN claims :
    i < j /\ claims[i].model = claims[j].model =>
      LET between == Cardinality({k \in i..(j - 1) : claims[k].model = claims[i].model}) IN
      /\ claims[i].history # claims[j].history
      /\ claims[j].at - claims[i].at >= between * Cooldown
      /\ SumFunctionOnSet([n \in DOMAIN events |-> events[n].size],
                          (claims[i].covered + 1)..claims[j].covered) >= between * MinNew

\* A build fails only when every older result that a placeholder would shorten is folded already
\* and the request is still too long (_fold_tool_results), or, in one case, because the last Run
\* ended with calls that a Continue answered after that end, so that the prefix before it is not
\* paired (_summary_history).
FailuresAreReal ==
  /\ request.kind = "overflow" =>
       /\ Fixed + SizeOf(request.messages) > Budget
       /\ \A k \in DOMAIN request.messages :
            request.messages[k].kind = "results" /\ Cardinality(LaterGroups(k)) >= KeepRecent =>
              \A p \in DOMAIN request.messages[k].sizes : request.messages[k].sizes[p] <= Placeholder
  /\ request.kind = "raised" =>
       \E n \in DOMAIN events :
         events[n].kind = "end" /\ events[n + 1].kind = "result" /\ EventsOf({"end"}, n, Len(events)) = {Len(events)}

\* What is sent is the whole log, and what is not sent could not be: both of the above.
RequestsAreWhole == SentIsWhole /\ FailuresAreReal
=============================================================================
