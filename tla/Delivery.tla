------------------------------ MODULE Delivery ------------------------------
(***************************************************************************)
(* One delivery: a checkout of the source is prepared, a writer changes    *)
(* it, its checks are run on the candidate, and the candidate that passed  *)
(* them is adopted into the source (delivery.py, delivery_runtime.py,      *)
(* delivery_repair.py, delivery_control.py).                               *)
(*                                                                         *)
(* A content stands for the tree and the checkpoint of a directory, and a  *)
(* patch for the content it makes of Base.  Operations of one delivery     *)
(* exclude each other by a lock; two of them may have been admitted, one   *)
(* by the Web and one in the process itself.  Ordinary Runs and people     *)
(* change both directories beside it.  Commands, limits and failure        *)
(* signatures are data: their verdicts are chosen.                         *)
(***************************************************************************)
EXTENDS Integers, FiniteSets, Absence

CONSTANTS
  Base,          \* the content the delivery started from
  Candidates,    \* contents that change ordinary files only
  Tampered,      \* a content in which a protected file differs
  Foreign,       \* a source somebody else has changed
  MaxRounds,     \* max_rounds of a repair
  MaxOperations, MaxMeddling, MaxDeliveryCrashes \* bounds

Trees == Candidates \cup {Base, Tampered}

ASSUME DeliveryAssumption ==
  /\ None \notin Trees \cup {Foreign} /\ Foreign \notin Trees
  /\ None \notin [patch : Trees, passed : BOOLEAN] \* no verification is not one
  /\ Base \notin Candidates /\ Tampered \notin Candidates /\ Base # Tampered
  /\ {MaxRounds, MaxOperations, MaxMeddling, MaxDeliveryCrashes} \subseteq Nat

VARIABLES
  delivery,      \* what the delivery's facts say: DeliveryController.load
  source, checkout, \* contents
  unknownIn,  \* Workspaces with an unknown tool outcome
  web,        \* the admitted Web operation that has not the delivery's lock yet
  op,         \* the operation that holds the delivery's lock
  adopted,    \* what was adopted, and what was known of it then
  used        \* bounds used: [operations, meddling, crashes]

deliveryVars == <<delivery, source, checkout, unknownIn, web, op, adopted, used>>

NoOp == [action |-> None, phase |-> "idle", patch |-> None,
         passed |-> FALSE, rounds |-> 0]

DeliveryInit ==
  /\ delivery = [prepared |-> FALSE, verified |-> None, repair |-> None, applied |-> FALSE]
  /\ source = Base /\ checkout = Base /\ unknownIn = {}
  /\ web = None /\ op = NoOp /\ adopted = {}
  /\ used = [operations |-> 0, meddling |-> 0, crashes |-> 0]

VerificationPassed == delivery.verified # None /\ delivery.verified.passed

\* The Workspace locks the operation holds; a writer holds its checkout as a Run.
DeliveryLocks ==
  CASE op.phase \in {"writing", "checking", "checked"} -> {"checkout"}
    [] op.phase \in {"adopting", "recording"} -> {"checkout", "source"}
    [] OTHER -> {}

Spend(bound)   == used' = [used EXCEPT ![bound] = @ + 1]
Proceed(phase) == op' = [op EXCEPT !.phase = phase]
EndOp          == op' = NoOp
\* An operation that raises: its control Run fails. A repair still emits its end.
FailOp ==
  IF op.action = "repair" /\ delivery.repair = "started"
  THEN op' = [op EXCEPT !.phase = "finishing", !.passed = FALSE]
  ELSE EndOp
DeliveryRest == UNCHANGED <<delivery, source, checkout, unknownIn, web, adopted, used>>

(***************************************************************************)
(* Admission: WebDeliveryController.admit, and DeliveryController.execute. *)
(***************************************************************************)
MayAdmit(action) ==
  /\ (action = "prepare") # delivery.prepared
  /\ ~ delivery.applied
  /\ action = "repair" => delivery.repair = None
  /\ action = "apply" => VerificationPassed

\* The page offers the latest passing patch; the owner Session takes one at a time.
AdmitDelivery(action) ==
  /\ web = None /\ used.operations < MaxOperations /\ MayAdmit(action)
  /\ web' = [action |-> action, phase |-> "admitted",
             reviewed |-> IF action = "apply" THEN delivery.verified.patch ELSE None]
  /\ Spend("operations")
  /\ UNCHANGED <<delivery, source, checkout, unknownIn, op, adopted>>

\* _execute looks once more at the reviewed patch, then asks for the delivery's lock.
ExecuteAdmitted ==
  /\ web # None /\ web.phase = "admitted"
  /\ web' = IF web.action = "apply" /\ delivery.verified.patch # web.reviewed
            THEN None ELSE [web EXCEPT !.phase = "waiting"]
  /\ UNCHANGED <<delivery, source, checkout, unknownIn, op, adopted, used>>

\* What execute refuses once a repair has started.
RefusedByRepair(action) ==
  /\ delivery.repair # None
  /\ \/ action \in {"run", "repair", "verify"}
     \/ action = "apply" /\ delivery.repair # "passed"

\* Under the lock the facts are read again, and the source must still be the captured one.
MayBegin(action) ==
  /\ "source" \notin unknownIn
  /\ action = "prepare" \/ (delivery.prepared /\ ~ delivery.applied)
  /\ source = Base
  /\ ~ RefusedByRepair(action)

FirstPhase(action) ==
  [prepare |-> "preparing", run |-> "writing", verify |-> "candidate",
   repair |-> "starting", apply |-> "applying"][action]

BeginOp(action) ==
  op' = IF MayBegin(action)
        THEN [NoOp EXCEPT !.action = action, !.phase = FirstPhase(action)]
        ELSE NoOp

BeginAdmitted ==
  /\ op = NoOp /\ web # None /\ web.phase = "waiting"
  /\ BeginOp(web.action)
  /\ web' = None
  /\ UNCHANGED <<delivery, source, checkout, unknownIn, adopted, used>>

\* RuntimeHost.manage_delivery: no review, and run and verify on their own.
BeginDirect(action) ==
  /\ op = NoOp /\ used.operations < MaxOperations
  /\ (action = "prepare") # delivery.prepared /\ ~ delivery.applied
  /\ BeginOp(action)
  /\ Spend("operations")
  /\ UNCHANGED <<delivery, source, checkout, unknownIn, web, adopted>>

(***************************************************************************)
(* prepare and run.                                                        *)
(***************************************************************************)
\* validate_delivery_source, WorktreeService.create, capture_delivery.
PrepareCheckout ==
  /\ op.phase = "preparing"
  /\ IF source = Base /\ checkout = Base /\ "source" \notin unknownIn
     THEN delivery' = [delivery EXCEPT !.prepared = TRUE]
     ELSE UNCHANGED delivery
  /\ EndOp
  /\ UNCHANGED <<source, checkout, unknownIn, web, adopted, used>>

\* A writer of a repair is a child of its live control Run; any is an ordinary Run.
WriterAdmissible == "checkout" \notin unknownIn

\* _run_writer: it writes whatever it likes, and may leave an unknown outcome.
RunWriter ==
  /\ op.phase = "writing"
  /\ \/ ~ WriterAdmissible /\ FailOp /\ UNCHANGED <<checkout, unknownIn>>
     \/ /\ WriterAdmissible
        /\ checkout' \in Trees
        /\ \/ op' = (IF op.action = "repair" THEN [op EXCEPT !.phase = "candidate"] ELSE NoOp)
              /\ UNCHANGED unknownIn
           \/ FailOp /\ unknownIn' \in {unknownIn, unknownIn \cup {"checkout"}}
  /\ UNCHANGED <<delivery, source, web, adopted, used>>

(***************************************************************************)
(* Verification: _verify.                                                  *)
(***************************************************************************)
\* delivery_limit_reason: requests and tokens already used, the deadline.
Limits == {"within", "reached"}

\* build_patch: both directories are the delivery's, and nothing protected differs.
Buildable == source = Base /\ checkout # Tampered /\ "source" \notin unknownIn

\* The candidate before the checks. A repair stops when no round changed it.
BuildCandidate ==
  /\ op.phase = "candidate"
  /\ \E limit \in Limits :
       IF /\ Buildable
          /\ IF op.action = "repair" THEN limit = "within" /\ checkout # op.patch
                                    ELSE "checkout" \notin unknownIn
       THEN op' = [op EXCEPT !.phase = "checking", !.patch = checkout]
       ELSE FailOp
  /\ DeliveryRest

\* The checks run one after another; they may write, and one may not answer.
RunChecks ==
  /\ op.phase = "checking"
  /\ \E answered \in BOOLEAN, passed \in BOOLEAN :
       /\ ~ answered => ~ passed
       /\ op' = [op EXCEPT !.phase = "checked", !.passed = passed]
       /\ unknownIn' \in IF answered THEN {unknownIn}
                         ELSE {unknownIn, unknownIn \cup {"checkout"}} \* a container is readonly
  /\ checkout' \in {checkout} \cup Candidates
  /\ UNCHANGED <<delivery, source, web, adopted, used>>

\* The candidate after the checks must be the one before them.
RecordVerified ==
  /\ op.phase = "checked"
  /\ IF Buildable /\ checkout = op.patch
     THEN /\ delivery' = [delivery EXCEPT !.verified = [patch |-> op.patch, passed |-> op.passed]]
          /\ IF op.action = "repair" THEN Proceed("judging") ELSE EndOp
     ELSE UNCHANGED delivery /\ FailOp
  /\ UNCHANGED <<source, checkout, unknownIn, web, adopted, used>>

(***************************************************************************)
(* Repair: run_repair, delivery_limit_reason.                              *)
(***************************************************************************)
StartRepair ==
  /\ op.phase = "starting"
  /\ IF Buildable
     THEN /\ delivery' = [delivery EXCEPT !.repair = "started"]
          /\ op' = [op EXCEPT !.phase = "round", !.patch = checkout]
     ELSE UNCHANGED delivery /\ EndOp
  /\ UNCHANGED <<source, checkout, unknownIn, web, adopted, used>>

\* A limit, or an unknown outcome of the checkout, ends the repair before a round.
StartRound ==
  /\ op.phase = "round"
  /\ \E limit \in Limits :
       IF limit = "reached" \/ "checkout" \in unknownIn THEN FailOp
       ELSE op' = [op EXCEPT !.phase = "writing", !.rounds = @ + 1]
  /\ DeliveryRest

\* After the round's fact: an unknown outcome, a limit, passed, a failure seen before
\* (failure_signature), the last round; else another round.
JudgeRound ==
  /\ op.phase = "judging"
  /\ \E limit \in Limits, repeated \in BOOLEAN :
       IF limit = "reached" \/ "checkout" \in unknownIn THEN FailOp
       ELSE IF op.passed THEN Proceed("finishing")
       ELSE IF repeated \/ op.rounds = MaxRounds THEN FailOp ELSE Proceed("round")
  /\ DeliveryRest

\* Fault: a stopped repair is recorded by its last verification.
FinishByVerification ==
  /\ op.phase = "finishing"
  /\ delivery' = [delivery EXCEPT !.repair = IF VerificationPassed THEN "passed" ELSE "stopped"]
  /\ EndOp
  /\ UNCHANGED <<source, checkout, unknownIn, web, adopted, used>>

\* delivery.repair_finished, emitted whatever ended the rounds.
FinishRepair ==
  /\ op.phase = "finishing"
  /\ delivery' = [delivery EXCEPT !.repair = IF op.passed THEN "passed" ELSE "stopped"]
  /\ EndOp
  /\ UNCHANGED <<source, checkout, unknownIn, web, adopted, used>>

(***************************************************************************)
(* apply: apply_delivery.                                                  *)
(***************************************************************************)
\* The latest verification passed, and source and checkout are what it saw.
Adoptable ==
  /\ VerificationPassed /\ unknownIn = {} /\ source = Base
  /\ checkout = delivery.verified.patch /\ checkout \notin {Base, Tampered}

CheckAdoption ==
  /\ op.phase = "applying"
  /\ IF Adoptable THEN op' = [op EXCEPT !.phase = "adopting", !.patch = checkout] ELSE EndOp
  /\ DeliveryRest

Adoption == [nth |-> Cardinality(adopted), patch |-> op.patch, verified |-> delivery.verified,
             repair |-> delivery.repair, unknownIn |-> unknownIn]

\* git apply, after the last comparison; on a source changed since it may fail.
GitApply ==
  /\ op.phase = "adopting"
  /\ \/ source' = (IF source = Base THEN op.patch ELSE Foreign)
        /\ adopted' = adopted \cup {Adoption}
        /\ Proceed("recording")
     \/ source # Base /\ EndOp /\ UNCHANGED <<source, adopted>>
  /\ UNCHANGED <<delivery, checkout, unknownIn, web, used>>

\* delivery.applied, also when the operation was cancelled meanwhile.
RecordApplied ==
  /\ op.phase = "recording"
  /\ delivery' = [delivery EXCEPT !.applied = TRUE]
  /\ EndOp
  /\ UNCHANGED <<source, checkout, unknownIn, web, adopted, used>>

(***************************************************************************)
(* Cancelling, the deadline of a repair, crashes, and everybody else.      *)
(***************************************************************************)
\* A thread that applies is settled first; a command that runs is stopped, or unknown.
CancelOperation ==
  /\ op # NoOp /\ op.phase \notin {"adopting", "recording"}
  /\ FailOp
  /\ unknownIn' \in {unknownIn} \cup
       (IF op.phase \in {"writing", "checking"} THEN {unknownIn \cup {"checkout"}} ELSE {})
  /\ UNCHANGED <<delivery, source, checkout, web, adopted, used>>

\* Recovery closes the control Runs; a repair without its end stays interrupted.
DeliveryCrash ==
  /\ used.crashes < MaxDeliveryCrashes
  /\ op # NoOp
  /\ web' = None /\ EndOp /\ Spend("crashes")
  /\ UNCHANGED <<delivery, source, checkout, unknownIn, adopted>>

\* An edit of either directory, or a Run of either Workspace whose outcome is unknown.
Meddle ==
  /\ delivery.prepared /\ used.meddling < MaxMeddling
  /\ Spend("meddling")
  /\ \/ source' \in {Base, Foreign} \ {source} /\ UNCHANGED <<checkout, unknownIn>>
     \/ checkout' \in Trees \ {checkout} /\ UNCHANGED <<source, unknownIn>>
     \/ /\ \E w \in {"source", "checkout"} \ DeliveryLocks : unknownIn' = unknownIn \cup {w}
        /\ UNCHANGED <<source, checkout>>
  /\ UNCHANGED <<delivery, web, op, adopted>>

DeliveryNext ==
  \/ \E a \in {"prepare", "repair", "apply"} : AdmitDelivery(a)
  \/ ExecuteAdmitted \/ BeginAdmitted
  \/ \E a \in {"prepare", "run", "verify", "repair", "apply"} : BeginDirect(a)
  \/ PrepareCheckout \/ RunWriter \/ BuildCandidate \/ RunChecks \/ RecordVerified
  \/ StartRepair \/ StartRound \/ JudgeRound \/ FinishRepair
  \/ CheckAdoption \/ GitApply \/ RecordApplied
  \/ CancelOperation \/ DeliveryCrash \/ Meddle

(***************************************************************************)
(* Properties.                                                             *)
(***************************************************************************)
\* What is adopted into the source is the candidate on which the latest verification
\* passed, with no outcome unknown, nothing protected changed and no repair that was
\* started and did not pass; unless the process was lost, it is recorded as applied and
\* not adopted again, also when the operation is cancelled or the source is put back
\* (apply_delivery, DeliveryController.execute).
AdoptionIsSound ==
  /\ \A a \in adopted :
       /\ a.verified = [patch |-> a.patch, passed |-> TRUE]
       /\ a.patch \in Candidates /\ a.unknownIn = {}
       /\ a.repair \in {None, "passed"}
  /\ used.crashes = 0 =>
       /\ Cardinality(adopted) <= 1
       /\ adopted # {} => delivery.applied \/ op.phase = "recording"

\* Once a repair has started it alone verifies, it ends once, and it passes only on a
\* verification that passed with no outcome of the checkout left unknown (run_repair).
RepairOwnsVerdict ==
  [][/\ delivery.repair # None /\ delivery'.verified # delivery.verified => op.action = "repair"
     /\ delivery.repair \notin {None, "started"} => delivery'.repair = delivery.repair
     /\ delivery.repair = "started" /\ delivery'.repair = "passed" =>
          VerificationPassed /\ delivery.verified.patch = op.patch]_deliveryVars

\* Both: a verdict is the repair's own, and what is adopted has one.
DeliveryIsSound == []AdoptionIsSound /\ RepairOwnsVerdict
=============================================================================
