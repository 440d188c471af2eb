---------------------------- MODULE FailureLoops ----------------------------
(***************************************************************************)
(* The stop of a Run that fails the same way again and again               *)
(* (tool_loops.py): the last outcomes of its tools and the checkpoints of  *)
(* the source around them are read back from the log, through every        *)
(* Continue, before each further call.  People edit the source meanwhile.  *)
(* A fingerprint stands for tool, arguments and error; a source that Git   *)
(* cannot tell is None, as is the fingerprint of an outcome that is no     *)
(* evidence of failure.  One call after another, of one Session.           *)
(***************************************************************************)
EXTENDS Integers, FiniteSets, Sequences, SequencesExt, Absence

CONSTANTS
  SourceStates,         \* what the source may look like
  ReadFailures,         \* fingerprints of failures of read-only tools
  WriteFailures,        \* and of all others
  Window,               \* FAILURE_WINDOW
  MaxOutcomes, MaxSourceChanges, MaxLoopRuns  \* bounds

ASSUME FailureAssumption == Window \in Nat \ {0} /\ ReadFailures \cap WriteFailures = {}

VARIABLES
  facts,    \* the Session's log: [kind, continued, readonly, failure, source]
  working,  \* its newest Run: where the program is
  sourceTree,   \* the source as it is
  sourceEdits,  \* bound
  streak    \* history: equal failures of this Run in a row at one source that Git can tell

loopVars == <<facts, working, sourceTree, sourceEdits, streak>>

Blank == [kind |-> "prepared", continued |-> FALSE, readonly |-> TRUE, failure |-> None, source |-> None]
Admitted(continued)        == [Blank EXCEPT !.kind = "admitted", !.continued = continued]
Prepared(readonly)         == [Blank EXCEPT !.readonly = readonly]
Outcome(readonly, failure) == [Blank EXCEPT !.kind = "outcome", !.readonly = readonly, !.failure = failure]
SourceCheckpoint           == [Blank EXCEPT !.kind = "checkpoint", !.source = sourceTree]

FactsOf(kind) == {n \in DOMAIN facts : facts[n].kind = kind}

LoopInit ==
  /\ facts = <<>> /\ working = "ended" /\ sourceEdits = 0 /\ streak = 0
  /\ sourceTree \in SourceStates \cup {None}

(***************************************************************************)
(* What the log shows: _history, failure_loop_candidate.                   *)
(***************************************************************************)
\* From the newest Run back, through Continues only, until the window can be filled.
HistoryStart(log) ==
  LET since(n) == Cardinality({m \in n..Len(log) : log[m].kind = "outcome"})
      starts   == {n \in DOMAIN log : /\ log[n].kind = "admitted"
                                      /\ ~ log[n].continued \/ since(n) >= Window}
  IN  CHOOSE n \in starts : \A m \in starts : m <= n

\* Fault: a call starts with no checkpoint.
ReadFactAnew(state, fact) ==
  CASE fact.kind = "checkpoint" ->
         [state EXCEPT !.source = fact.source,
                       !.window = IF state.open THEN [@ EXCEPT ![Len(@)].source = fact.source] ELSE @]
    [] fact.kind = "prepared" -> [state EXCEPT !.open = FALSE, !.source = None]
    [] fact.kind = "outcome" ->
         [state EXCEPT !.open = TRUE,
                       !.window = Append(@, [failure |-> fact.failure, source |-> state.source])]
    [] OTHER -> state

\* A checkpoint belongs to the outcome before it until the next call is prepared.
ReadFact(state, fact) ==
  CASE fact.kind = "checkpoint" ->
         [state EXCEPT !.source = fact.source,
                       !.window = IF state.open THEN [@ EXCEPT ![Len(@)].source = fact.source] ELSE @]
    [] fact.kind = "prepared" -> [state EXCEPT !.open = FALSE]
    [] fact.kind = "outcome" ->
         [state EXCEPT !.open = TRUE,
                       !.window = Append(@, [failure |-> fact.failure, source |-> state.source])]
    [] OTHER -> state

FailureWindow(log) ==
  FoldLeft(ReadFact, [source |-> None, open |-> FALSE, window |-> <<>>],
           SubSeq(log, HistoryStart(log), Len(log))).window

RepeatedFailure(log) ==
  LET outcomes == FailureWindow(log)
      last     == outcomes[Len(outcomes)]
  IN  /\ Len(outcomes) >= Window
      /\ last.failure # None /\ last.source # None
      /\ \A n \in (Len(outcomes) - Window + 1)..Len(outcomes) : outcomes[n] = last

(***************************************************************************)
(* Runs: admission, _validate_continue, and how they stop.                 *)
(***************************************************************************)
Log(entries) == facts' = facts \o entries

LastOf(kind) == IF FactsOf(kind) = {} THEN 0 ELSE CHOOSE n \in FactsOf(kind) : \A m \in FactsOf(kind) : m <= n

StartLoopRun ==
  /\ working = "ended" /\ Cardinality(FactsOf("admitted")) < MaxLoopRuns
  /\ Log(<<Admitted(FALSE), SourceCheckpoint>>) /\ working' = "calling" /\ streak' = 0
  /\ UNCHANGED <<sourceTree, sourceEdits>>

\* The source is as the last checkpoint says, and no call of a writing tool came after that.
ValidateContinue ==
  /\ working = "parked" /\ Cardinality(FactsOf("admitted")) < MaxLoopRuns
  /\ sourceTree # None /\ sourceTree = facts[LastOf("checkpoint")].source
  /\ \A n \in FactsOf("outcome") : n > LastOf("checkpoint") => facts[n].readonly
  /\ \A n \in FactsOf("prepared") : n > LastOf("outcome") /\ n > LastOf("admitted") => facts[n].readonly
  /\ working' = "admitting" /\ UNCHANGED <<facts, sourceTree, sourceEdits, streak>>

\* The checkpoint of the admission is captured after that comparison.
AdmitContinue ==
  /\ working = "admitting" /\ Log(<<Admitted(TRUE), SourceCheckpoint>>)
  /\ working' = "calling" /\ streak' = 0
  /\ UNCHANGED <<sourceTree, sourceEdits>>

\* The Run completes, or a parked one is abandoned: the next begins a window of its own.
EndLoopRun ==
  /\ working \in {"calling", "parked"} /\ working' = "ended"
  /\ UNCHANGED <<facts, sourceTree, sourceEdits, streak>>

\* A cancel, a limit, or the end of a stop for failures: with a checkpoint.  One that is there is
\* kept or, by a refused budget, followed by another, which matters only if the source changed.
\* Of a writing call under way nobody knows the outcome; it is left as by a crash.
ParkRun ==
  LET last == facts[Len(facts)] IN
  /\ working \notin {"ended", "parked", "admitting"}
  /\ working = "prepared" => last.readonly
  /\ IF last.kind = "checkpoint" /\ last.source = sourceTree THEN UNCHANGED facts
     ELSE \/ Log(<<SourceCheckpoint>>)
          \/ last.kind = "checkpoint" /\ working # "looping" /\ UNCHANGED facts
  /\ working' = "parked" /\ UNCHANGED <<sourceTree, sourceEdits, streak>>

\* The process ends: the restart finds an interrupted Run.
CrashRun ==
  /\ working \in {"calling", "prepared", "outcome", "recheck", "looping"}
  /\ working' = "parked" /\ UNCHANGED <<facts, sourceTree, sourceEdits, streak>>

(***************************************************************************)
(* A call: the loop over calls of RuntimeHost._run_reserved.               *)
(***************************************************************************)
PrepareCall ==
  /\ working = "calling" /\ Cardinality(FactsOf("outcome")) < MaxOutcomes
  /\ \E readonly \in BOOLEAN : Log(<<Prepared(readonly)>>)
  /\ working' = "prepared" /\ UNCHANGED <<sourceTree, sourceEdits, streak>>

InARow(failure) ==
  IF failure = None \/ sourceTree = None \/ facts[LastOf("checkpoint")].source = None THEN 0
  ELSE IF streak > 0 /\ facts[LastOf("outcome")].failure = failure THEN streak + 1 ELSE 1

\* The log is read again right after the last fact of a call; what only a read-only tool has shown
\* is confirmed by a checkpoint of its own first.
Judged(log, failure, confirmed) ==
  IF failure = None \/ ~ RepeatedFailure(log) THEN "calling"
  ELSE IF confirmed THEN "looping" ELSE "recheck"

\* Only the outcome of a writing tool is followed by a checkpoint in any case.
CompleteCall ==
  LET readonly == facts[Len(facts)].readonly IN
  /\ working = "prepared"
  /\ \E failure \in {None} \cup (IF readonly THEN ReadFailures ELSE WriteFailures) :
       LET outcome == Outcome(readonly, failure) IN
       /\ Log(<<outcome>>)
       /\ streak' = InARow(failure)
       /\ working' = IF readonly THEN Judged(Append(facts, outcome), failure, FALSE) ELSE "outcome"
  /\ UNCHANGED <<sourceTree, sourceEdits>>

LastFailure == facts[LastOf("outcome")].failure

ScanAfterWrite ==
  /\ working = "outcome" /\ Log(<<SourceCheckpoint>>)
  /\ working' = Judged(Append(facts, SourceCheckpoint), LastFailure, TRUE)
  /\ UNCHANGED <<sourceTree, sourceEdits, streak>>

Refresh ==
  /\ working = "recheck" /\ Log(<<SourceCheckpoint>>)
  /\ working' = Judged(Append(facts, SourceCheckpoint), LastFailure, TRUE)
  /\ UNCHANGED <<sourceTree, sourceEdits, streak>>

\* A tool or somebody else changes the source.
EditTree ==
  /\ sourceEdits < MaxSourceChanges /\ sourceEdits' = sourceEdits + 1
  /\ \E s \in (SourceStates \cup {None}) \ {sourceTree} : sourceTree' = s
  /\ streak' = 0 /\ UNCHANGED <<facts, working>>

LoopNext ==
  \/ StartLoopRun \/ ValidateContinue \/ AdmitContinue \/ EndLoopRun \/ ParkRun \/ CrashRun
  \/ PrepareCall \/ CompleteCall \/ ScanAfterWrite \/ Refresh \/ EditTree

(***************************************************************************)
(* Properties.                                                             *)
(***************************************************************************)
\* A Run is stopped only for Window equal failures, the last outcomes of one chain of Continues,
\* and only on evidence: the last checkpoint is newer than the last of them, and it equals the
\* checkpoint that stood at each of them when the next call began, so an edit that lasted from one
\* call to another prevents the stop (ADR-086, failure_loop_candidate and the refresh in the Host).
StopsAreProved ==
  working = "looping" =>
    LET equal == {n \in FactsOf("outcome") : Cardinality({m \in FactsOf("outcome") : m >= n}) <= Window}
        stood(n) == {c \in FactsOf("checkpoint") : \A m \in FactsOf("prepared") : m > n => c < m}
        sourceAt(n) == facts[CHOOSE c \in stood(n) : \A d \in stood(n) : d <= c].source
    IN  /\ Cardinality(equal) = Window
        /\ \E failure \in ReadFailures \cup WriteFailures : \A n \in equal : facts[n].failure = failure
        /\ \A n \in FactsOf("admitted") : (\E m \in equal : m < n) => facts[n].continued
        /\ LastOf("checkpoint") > LastOf("outcome")
        /\ \A n \in equal : sourceAt(n) = facts[LastOf("checkpoint")].source /\ sourceAt(n) # None

\* A Run cannot repeat a failure for long: at a source that stays as it is and that Git can tell
\* and could at the last checkpoint, a writing tool fails the same way at most Window times, and a
\* read-only one, whose first candidate may only bring a stale checkpoint up to date, at most
\* 2 * Window - 1 times.
RepetitionIsBounded ==
  streak <= IF facts # <<>> /\ LastOf("outcome") > 0 /\ ~ facts[LastOf("outcome")].readonly
            THEN Window ELSE 2 * Window - 1

\* A stop comes neither without proof nor too late.
RepetitionIsStopped == StopsAreProved /\ RepetitionIsBounded
=============================================================================
