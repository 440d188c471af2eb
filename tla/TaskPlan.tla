------------------------------ MODULE TaskPlan ------------------------------
(***************************************************************************)
(* The plan a model keeps of its own work (task_plan.py): every todo_write *)
(* replaces the whole plan, the Runtime gives each task an identity and    *)
(* refuses what is not a sound plan, and TaskPlanProjection tells which    *)
(* results of tools a task may point at.  A task is known by its number n, *)
(* written "t<n>"; a summary is given or not.  The position of an event is *)
(* the number of results recorded before it.                               *)
(***************************************************************************)
EXTENDS Integers, FiniteSets, Sequences, SequencesExt, Absence

CONSTANTS
  Items,                    \* what a model may write as one item of a plan
  MaxItems,                 \* MAX_TODOS
  LastId,                   \* the greatest number ID_PATTERN reads
  MaxUpdates, MaxResults    \* bounds

Todo == [id : Nat, content : {item.content : item \in Items}, status : {item.status : item \in Items},
         summary : BOOLEAN, depends : SUBSET Nat]

ASSUME PlanAssumption ==
  /\ MaxItems \in Nat /\ LastId \in Nat
  /\ \A item \in Items : item.summary \in BOOLEAN /\ (item.depends # None => item.depends \in SUBSET Nat)
  /\ None \notin [first : Nat, settled : Nat \cup {None}]  \* a task that was planned is one
  /\ None \notin Todo /\ None \notin Nat                  \* what is there is not absent

VARIABLES
  plan,       \* the todos of the newest task.plan_updated
  nextTask,   \* its next_task_seq
  tasks,      \* per task ever planned: [first, settled]
  results,    \* results of tools so far
  updates     \* accepted plans so far

planVars == <<plan, nextTask, tasks, results, updates>>

PlanInit == plan = <<>> /\ nextTask = 1 /\ tasks = <<>> /\ results = 0 /\ updates = 0

Ids(todos) == {todos[n].id : n \in DOMAIN todos}
ById(todos, id) == todos[CHOOSE n \in DOMAIN todos : todos[n].id = id]

(***************************************************************************)
(* One item after another: plan_update, _item.                             *)
(***************************************************************************)
\* The identity an item asks for: the one it names, else that of an unclaimed task of this content.
Identity(item, previous, claimed) ==
  LET same == {n \in DOMAIN previous : previous[n].content = item.content
                                       /\ previous[n].id \notin claimed}
  IN  IF item.id # None THEN item.id
      ELSE IF same = {} THEN None ELSE previous[CHOOSE n \in same : \A m \in same : n <= m].id

\* A completed task keeps what it claimed before; it must claim something.
SummaryOf(item, prior) ==
  item.summary \/ (item.status = "completed" /\ prior # None /\ prior.status = "completed" /\ prior.summary)

SummaryAllowed(item, prior) ==
  CASE item.status = "completed" -> SummaryOf(item, prior)
    [] item.status = "blocked"   -> TRUE
    [] OTHER                     -> ~ item.summary

\* Dependencies that are not given stay.
DependsOf(item, prior) ==
  IF item.depends # None THEN item.depends ELSE IF prior = None THEN {} ELSE prior.depends

Accept(state, item, previous) ==
  LET wanted == Identity(item, previous, Ids(state.todos))
      id     == IF wanted = None THEN state.next ELSE wanted
      prior  == IF wanted \in Ids(previous) THEN ById(previous, wanted) ELSE None
      sound  == /\ item.content \notin {state.todos[n].content : n \in DOMAIN state.todos}
                /\ item.id # None => item.id <= LastId /\ item.id \in Ids(previous)
                /\ wanted \notin Ids(state.todos)
                /\ SummaryAllowed(item, prior)
                /\ \A d \in DependsOf(item, prior) : d <= LastId /\ d # id
  IN  IF ~ state.ok \/ ~ sound THEN [state EXCEPT !.ok = FALSE]
      ELSE [ok    |-> TRUE,
            next  |-> IF wanted = None THEN state.next + 1 ELSE state.next,
            todos |-> Append(state.todos,
                             [id |-> id, content |-> item.content, status |-> item.status,
                              summary |-> SummaryOf(item, prior),
                              depends |-> DependsOf(item, prior)])]

(***************************************************************************)
(* The whole candidate: _validate_dependencies.                            *)
(***************************************************************************)
\* visit: a depth-first search that stops at a task it is still inside of.
Visit(depends) ==
  LET tasksOf == DOMAIN depends
      visit[p \in [cycle : BOOLEAN, visiting : SUBSET tasksOf, visited : SUBSET tasksOf] \X tasksOf] ==
        LET s     == p[1]
            i     == p[2]
            below == FoldLeft(LAMBDA t, d : visit[<<t, d>>], [s EXCEPT !.visiting = @ \cup {i}],
                              SetToSeq(depends[i]))
        IN  IF s.cycle \/ i \in s.visiting THEN [s EXCEPT !.cycle = TRUE]
            ELSE IF i \in s.visited THEN s
            ELSE [below EXCEPT !.visiting = @ \ {i}, !.visited = @ \cup {i}]
  IN  visit

SearchFrom(depends, starts) ==
  FoldLeft(LAMBDA s, id : Visit(depends)[<<s, id>>],
           [cycle |-> FALSE, visiting |-> {}, visited |-> {}], starts)

HasCycle(depends) == SearchFrom(depends, SetToSeq(DOMAIN depends)).cycle

WellFounded(depends) ==
  \A some \in (SUBSET DOMAIN depends) \ {{}} : \E id \in some : depends[id] \cap some = {}

\* Fault: a task may start before what it depends on is done.
DependenciesKnown(todos) ==
  /\ \A n \in DOMAIN todos : todos[n].depends \subseteq Ids(todos)
  /\ ~ HasCycle([id \in Ids(todos) |-> ById(todos, id).depends])

DependenciesHold(todos) ==
  /\ \A n \in DOMAIN todos : todos[n].depends \subseteq Ids(todos)
  /\ ~ HasCycle([id \in Ids(todos) |-> ById(todos, id).depends])
  /\ \A n \in DOMAIN todos : todos[n].status \in {"in_progress", "completed"} =>
       \A d \in todos[n].depends : ById(todos, d).status = "completed"

\* Fault: only the plan that is replaced is looked at.
FirstFreeInPlan(previous, next) ==
  FoldLeft(LAMBDA highest, todo : IF todo.id >= highest THEN todo.id + 1 ELSE highest, 1, previous)

\* An identity is newer than every one in the plan and every one handed out before.
FirstFree(previous, next) ==
  FoldLeft(LAMBDA highest, todo : IF todo.id <= LastId /\ todo.id >= highest THEN todo.id + 1 ELSE highest,
           next, previous)

Candidate(items, previous, next) ==
  FoldLeft(LAMBDA state, item : Accept(state, item, previous),
           [ok |-> Len(items) <= MaxItems, next |-> FirstFree(previous, next), todos |-> <<>>], items)

PlanUpdate(items, previous, next) ==
  LET made   == Candidate(items, previous, next)
      active == {n \in DOMAIN made.todos : made.todos[n].status = "in_progress"}
  IN  IF made.ok /\ Cardinality(active) <= 1 THEN [made EXCEPT !.ok = DependenciesHold(made.todos)]
      ELSE [made EXCEPT !.ok = FALSE]

(***************************************************************************)
(* What happened around it: TaskPlanProjection.project.                    *)
(***************************************************************************)
\* A task is settled at the first plan that says so, until one reopens it.
Settled(todo, known) ==
  IF todo.status \notin {"completed", "blocked"} THEN None
  ELSE IF known = None \/ known.settled = None THEN results ELSE known.settled

Known(id) == IF id \in DOMAIN tasks THEN tasks[id] ELSE None

Planned(todo) ==
  [first   |-> IF Known(todo.id) = None THEN results ELSE Known(todo.id).first,
   settled |-> Settled(todo, Known(todo.id))]

\* What was seen between a task's first plan and its settling.
Evidence(id) == (tasks[id].first + 1)..(IF tasks[id].settled = None THEN results ELSE tasks[id].settled)

(***************************************************************************)
(* Steps: write_task_plan, and any other tool.                             *)
(***************************************************************************)
\* A refused plan changes nothing.
WritePlan(items) ==
  LET accepted == PlanUpdate(items, plan, nextTask) IN
  /\ updates < MaxUpdates /\ accepted.ok
  /\ plan' = accepted.todos /\ nextTask' = accepted.next /\ updates' = updates + 1
  /\ tasks' = [id \in DOMAIN tasks \cup Ids(accepted.todos) |->
                 IF id \in Ids(accepted.todos) THEN Planned(ById(accepted.todos, id)) ELSE tasks[id]]
  /\ UNCHANGED results

RecordResult ==
  /\ results < MaxResults /\ results' = results + 1
  /\ UNCHANGED <<plan, nextTask, tasks, updates>>

PlanNext ==
  \/ \E n \in 0..MaxItems : \E items \in [1..n -> Items] : WritePlan(items)
  \/ RecordResult

(***************************************************************************)
(* Properties.                                                             *)
(***************************************************************************)
\* A number stands for one task for the life of the Session: no plan holds it twice, and one that
\* left the plan is not handed out again, so what refers to it never means another (plan_update).
IdsAreNeverRecycled ==
  [][/\ Cardinality(Ids(plan')) = Len(plan')
     /\ (Ids(plan') \ Ids(plan)) \cap DOMAIN tasks = {}]_planVars

\* The accepted plan can be worked off: its tasks depend on tasks of the plan, in no circle, and
\* what is started or done waits for nothing (_validate_dependencies).
PlansCanBeWorkedOff ==
  LET depends == [id \in Ids(plan) |-> ById(plan, id).depends] IN
  /\ UNION {depends[id] : id \in Ids(plan)} \subseteq Ids(plan)
  /\ WellFounded(depends)
  /\ \A id \in Ids(plan) : ById(plan, id).status \in {"in_progress", "completed"} =>
       \A d \in depends[id] : ById(plan, d).status = "completed"

\* What the model was shown it can write again: the same plan, with or without the identities,
\* the claims of completed tasks and the dependencies, is accepted and
\* changes nothing, as long as ID_PATTERN reads its ids.
Echo(todo, id, summary, depends) ==
  [id |-> IF id THEN todo.id ELSE None, content |-> todo.content, status |-> todo.status,
   summary |-> todo.summary /\ (summary \/ todo.status # "completed"),
   depends |-> IF depends THEN todo.depends ELSE None]

EchoIsAccepted ==
  \A id, summary, depends \in BOOLEAN :
    (id => \A n \in DOMAIN plan : plan[n].id <= LastId) =>
    PlanUpdate([n \in DOMAIN plan |-> Echo(plan[n], id, summary, depends)], plan, nextTask)
      = [ok |-> TRUE, next |-> nextTask, todos |-> plan]

\* What a settled task may point at is fixed: while every plan says it is settled, and after it
\* left the plan, no later result becomes evidence of it (TaskPlanProjection, ADR-035).
SettledEvidenceStays ==
  [][\A id \in DOMAIN tasks :
       tasks[id].settled # None /\ tasks'[id].settled # None => Evidence(id)' = Evidence(id)]_planVars

\* The plan can be worked off, and it can be written again (plan_update).
PlansAreSound == PlansCanBeWorkedOff /\ EchoIsAccepted

\* A number means one task, and what settled it stays, whatever is planned later (plan_update,
\* TaskPlanProjection).
TasksKeepTheirIdentity == IdsAreNeverRecycled /\ SettledEvidenceStays
=============================================================================
