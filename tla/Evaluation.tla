------------------------------- MODULE Evaluation -------------------------------
(***************************************************************************)
(* Evaluations of one project (evaluation_control.py, evaluation.py,       *)
(* evaluation_calls.py): a batch of cases runs one after another, each in  *)
(* a Host of its own; every model request of a live batch goes through the *)
(* service, whose configuration the user confirmed with the estimate.      *)
(* After each case a report is written and named in the log.  What a case  *)
(* does is chosen, with its verdict.  Between two cases nothing is awaited,*)
(* so only a crash comes between those steps.                              *)
(***************************************************************************)
EXTENDS Integers, Sequences, FiniteSets, Absence

CONSTANTS
  Endpoints,       \* configurations <<model, address>>
  MaxCases, MaxEvaluations, MaxEvaluationEvents \* bounds

ASSUME EvaluationAssumption == MaxCases \in Nat

VARIABLES
  settings,        \* the configuration of the service
  changing,        \* the one that replaces it when the old client is closed, or None
  estimate,        \* the latest estimate the user was shown
  evaluation,      \* the project's latest evaluation: its facts, and where its task is
  reports,         \* evaluations/<run>/: [name, content]
  calls,           \* model requests sent: [no, config, confirmed, pending]
  evaluationEvents \* bound used: changes, cancellations, crashes

evaluationVars == <<settings, changing, estimate, evaluation, reports, calls, evaluationEvents>>

NoEvaluation == [no |-> 0, live |-> FALSE, config |-> None, pending |-> FALSE, pc |-> "idle",
                 done |-> <<>>, saved |-> <<>>, save |-> None, last |-> None, outcome |-> None,
                 blocked |-> FALSE, status |-> "none"]

EvaluationInit ==
  /\ settings \in Endpoints /\ changing = None /\ estimate = None
  /\ evaluation = NoEvaluation /\ reports = {} /\ calls = {} /\ evaluationEvents = 0

EvaluationEvent ==
  evaluationEvents < MaxEvaluationEvents /\ evaluationEvents' = evaluationEvents + 1
EvaluationAt(places) == evaluation.pc \in places
EvaluationGoes(pc) == evaluation' = [evaluation EXCEPT !.pc = pc]
EvaluationSaves(status)  == evaluation' = [evaluation EXCEPT !.pc = "saving", !.save = status]
EvaluationSettles(status) == evaluation' = [evaluation EXCEPT !.pc = "idle", !.status = status]
CaseEnds(outcome) == evaluation' = [evaluation EXCEPT !.pc = "ending", !.outcome = outcome]
ServiceRest == UNCHANGED <<settings, changing, estimate>>

(***************************************************************************)
(* The configuration and the estimate.                                     *)
(***************************************************************************)
\* evaluation_quote: provider, model, generation and prices, not the address.
Estimate(config) == config[1]

ShowEstimate ==
  /\ estimate' = Estimate(settings)
  /\ UNCHANGED <<settings, changing, evaluation, reports, calls, evaluationEvents>>

\* configure_provider: nothing runs or waits; then the client is closed, which takes time.
BeginChange ==
  /\ EvaluationEvent /\ changing = None /\ EvaluationAt({"idle"})
  /\ changing' \in Endpoints \ {settings}
  /\ UNCHANGED <<settings, estimate, evaluation, reports, calls>>

CommitChange ==
  /\ changing # None /\ settings' = changing /\ changing' = None
  /\ UNCHANGED <<estimate, evaluation, reports, calls, evaluationEvents>>

(***************************************************************************)
(* Admission and the start: admit, _execute.                               *)
(***************************************************************************)
\* A live one must be confirmed with the estimate of the present configuration.  That a
\* change has begun is not looked at.
AdmitEvaluation(live) ==
  /\ EvaluationAt({"idle"}) /\ evaluation.no < MaxEvaluations
  /\ live => estimate = Estimate(settings)
  /\ evaluation' = [NoEvaluation EXCEPT !.no = evaluation.no + 1, !.live = live, !.pc = "queued",
                                        !.config = settings, !.pending = changing # None,
                                        !.status = "running"]
  /\ ServiceRest /\ UNCHANGED <<reports, calls, evaluationEvents>>

\* Its configuration, inputs and Skills must be those of the admission.
ExecuteEvaluation ==
  /\ EvaluationAt({"queued"})
  /\ IF evaluation.live /\ settings # evaluation.config THEN EvaluationSettles("failed") ELSE EvaluationSaves("running")
  /\ ServiceRest /\ UNCHANGED <<reports, calls, evaluationEvents>>

(***************************************************************************)
(* Reports: save, progress.                                                *)
(***************************************************************************)
\* Fault: there is one report, and it is replaced.
LatestName == <<evaluation.no, 0>>

\* A name that was never used (uuid4).
ReportName == <<evaluation.no, 1 + Cardinality({r \in reports : r.name[1] = evaluation.no})>>

Report == [name |-> ReportName, content |-> <<evaluation.save, evaluation.done>>]

\* atomic_json replaces the file of that name; then comes the fact with its name and hash.
WriteReport ==
  /\ EvaluationAt({"saving"})
  /\ reports' = {r \in reports : r.name # ReportName} \cup {Report}
  /\ evaluation' = [evaluation EXCEPT !.pc = "written", !.last = Report]
  /\ ServiceRest /\ UNCHANGED <<calls, evaluationEvents>>

\* Another case, the last report, or the end.
RecordReport ==
  LET next == IF evaluation.save # "running" THEN "finishing"
              ELSE IF Len(evaluation.done) < MaxCases THEN "case" ELSE "saving" IN
  /\ EvaluationAt({"written"})
  /\ evaluation' = [evaluation EXCEPT !.pc = next, !.saved = Append(@, evaluation.last),
                                      !.save = IF next = "saving" THEN "completed" ELSE @]
  /\ ServiceRest /\ UNCHANGED <<reports, calls, evaluationEvents>>

(***************************************************************************)
(* A case: _evaluate_case, _bounded_case; a model request of a live one.   *)
(***************************************************************************)
\* EvaluationCallBridge.complete: then it waits for a model slot.
CheckCall ==
  /\ EvaluationAt({"case"}) /\ evaluation.live
  /\ IF settings = evaluation.config THEN EvaluationGoes("calling") ELSE CaseEnds("failed")
  /\ ServiceRest /\ UNCHANGED <<reports, calls, evaluationEvents>>

\* _complete_with_retry: the client of the present configuration; a failed attempt is
\* repeated, and a budget may refuse it.
SendCall ==
  /\ EvaluationAt({"calling"})
  /\ \/ /\ calls' = calls \cup {[no |-> evaluation.no, config |-> settings,
                                 confirmed |-> evaluation.config, pending |-> evaluation.pending]}
        /\ \E next \in {"calling", "case"} : EvaluationGoes(next)
     \/ /\ evaluation' = [evaluation EXCEPT !.pc = "ending", !.outcome = "failed", !.blocked = TRUE]
        /\ UNCHANGED calls
  /\ ServiceRest /\ UNCHANGED <<reports, evaluationEvents>>

EndCase ==
  /\ EvaluationAt({"case"})
  /\ \E outcome \in {"completed", "failed", "interrupted"} : CaseEnds(outcome)
  /\ ServiceRest /\ UNCHANGED <<reports, calls, evaluationEvents>>

\* Its time is over: it is cancelled and waited for.
TimeOutCase ==
  /\ EvaluationAt({"case", "calling"}) /\ EvaluationGoes("stopping")
  /\ ServiceRest /\ UNCHANGED <<reports, calls, evaluationEvents>>

CaseStopped ==
  /\ EvaluationAt({"stopping"}) /\ CaseEnds("timed_out")
  /\ ServiceRest /\ UNCHANGED <<reports, calls, evaluationEvents>>

\* case_completed; what was cancelled or, in a live batch, spent in vain stops the batch.
RecordCase ==
  LET outcome == evaluation.outcome IN
  /\ EvaluationAt({"ending"})
  /\ evaluation' = [evaluation EXCEPT !.pc = "saving", !.done = Append(@, outcome), !.outcome = None,
       !.save = IF outcome = "cancelled" THEN "cancelled"
                ELSE IF evaluation.blocked \/ (evaluation.live /\ outcome \in {"failed", "timed_out"})
                THEN "aborted" ELSE "running"]
  /\ ServiceRest /\ UNCHANGED <<reports, calls, evaluationEvents>>

(***************************************************************************)
(* The end.                                                                *)
(***************************************************************************)
FinishEvaluation ==
  /\ EvaluationAt({"finishing"})
  /\ EvaluationSettles(IF evaluation.save = "completed" THEN "completed" ELSE "interrupted")
  /\ ServiceRest /\ UNCHANGED <<reports, calls, evaluationEvents>>

\* A report cannot be written, or the Skills cannot be restored.
FailEvaluation ==
  /\ EvaluationAt({"queued", "saving"}) /\ EvaluationSettles("failed")
  /\ ServiceRest /\ UNCHANGED <<reports, calls, evaluationEvents>>

\* While a case that took too long is waited for, a cancellation is swallowed.
CancelEvaluation ==
  /\ EvaluationEvent /\ EvaluationAt({"queued", "case", "calling", "stopping", "ending"})
  /\ IF EvaluationAt({"queued"}) THEN EvaluationSettles("interrupted")
     ELSE IF EvaluationAt({"stopping"}) THEN UNCHANGED evaluation ELSE CaseEnds("cancelled")
  /\ ServiceRest /\ UNCHANGED <<reports, calls>>

\* What was unfinished is parked by the next start; what was not committed is gone.
CrashEvaluation ==
  /\ EvaluationEvent /\ changing' = None
  /\ IF EvaluationAt({"idle"}) THEN UNCHANGED evaluation ELSE EvaluationSettles("interrupted")
  /\ UNCHANGED <<settings, estimate, reports, calls>>

EvaluationNext ==
  \/ ShowEstimate \/ BeginChange \/ CommitChange
  \/ \E live \in BOOLEAN : AdmitEvaluation(live)
  \/ ExecuteEvaluation \/ WriteReport \/ RecordReport \/ CheckCall \/ SendCall \/ EndCase
  \/ TimeOutCase \/ CaseStopped \/ RecordCase \/ FinishEvaluation \/ FailEvaluation
  \/ CancelEvaluation \/ CrashEvaluation

\* What the log says of an evaluation can be shown: every report it names is there as it was
\* written and runs at most one case behind, a completed batch has a verdict on every case and
\* none was cancelled; and, unless the configuration was already being replaced when a live
\* batch was accepted, its requests went where the user had confirmed, whatever was configured,
\* cancelled, timed out or lost meanwhile (progress, report, EvaluationCallBridge).
EvaluationIsEvidence ==
  LET saved == evaluation.saved  done == evaluation.done  latest == saved[Len(saved)].content IN
  /\ \A i \in DOMAIN saved : saved[i] \in reports
  /\ saved # <<>> => /\ latest[2] = SubSeq(done, 1, Len(latest[2]))
                     /\ Len(done) <= Len(latest[2]) + 1
  /\ evaluation.status = "completed" =>
       latest = <<"completed", done>> /\ Len(done) = MaxCases /\ \A i \in DOMAIN done : done[i] # "cancelled"
  /\ \A c \in calls : c.config = c.confirmed \/ c.pending
=============================================================================
