--------------------------- MODULE Context_proofs ---------------------------
(***************************************************************************)
(* Theorems about what is read back from the log of a Session: a number    *)
(* means one task, which rests on what the fold over the items of a        *)
(* candidate gives at every item; summaries are paid for once, which rests *)
(* on the projection's messages being no longer than their events; and a   *)
(* request is whole, which rests on what the projection and the folding    *)
(* keep of a log whose calls are answered.                                 *)
(***************************************************************************)
EXTENDS TaskPlan, ContextView, FiniteInduction, SequenceTheorems

PlanSpec == PlanInit /\ [][PlanNext]_planVars

Distinct(todos) == \A m, n \in DOMAIN todos : todos[m].id = todos[n].id => m = n

PlanInv ==
  /\ plan \in Seq(Todo) /\ Distinct(plan)
  /\ nextTask \in Nat \ {0} /\ results \in Nat
  /\ Ids(plan) \subseteq DOMAIN tasks /\ DOMAIN tasks \subseteq 1..(nextTask - 1)
  /\ \A id \in DOMAIN tasks : tasks[id] \in [first : Nat, settled : Nat \cup {None}]

(***************************************************************************)
(* The first free number.                                                  *)
(***************************************************************************)
Higher(highest, todo) == IF todo.id <= LastId /\ todo.id >= highest THEN todo.id + 1 ELSE highest

HighestIs(previous, next, g) ==
  g = [s \in SUBSET DOMAIN previous |->
         IF s = {} THEN next ELSE Higher(g[s \ {Max(s)}], previous[Max(s)])]

LEMMA FirstFreeIs ==
  \A previous, next :
    FirstFree(previous, next) = (CHOOSE g : HighestIs(previous, next, g))[DOMAIN previous]
  BY Zenon DEF FirstFree, FoldLeft, MapThenFoldSet, HighestIs, Higher

LEMMA FirstFreeIsNew ==
  ASSUME NEW previous \in Seq(Todo), NEW next \in Nat
  PROVE  FirstFree(previous, next) \in Nat /\ FirstFree(previous, next) >= next
<1> DEFINE S == DOMAIN previous
           V == {n \in Nat : n >= next}
           h == [p \in (SUBSET S) \X V |-> IF p[1] = {} THEN next ELSE Higher(p[2], previous[Max(p[1])])]
<1>1. S \in SUBSET Int /\ IsFiniteSet(S) /\ \A n \in S : previous[n] \in Todo
  BY Indices
<1>2. PlanAssumption
  BY PlanAssumption
<1>3. ASSUME NEW v \in V, NEW n \in S PROVE Higher(v, previous[n]) \in V
  <2>1. previous[n].id \in Nat
    BY <1>1 DEF Todo
  <2> QED
    BY <1>2, <2>1 DEF Higher, PlanAssumption
<1>4. next \in V /\ h \in [(SUBSET S) \X V -> V]
  <2>1. next \in V
    OBVIOUS
  <2>2. ASSUME NEW s \in SUBSET S, NEW v \in V, s # {} PROVE Higher(v, previous[Max(s)]) \in V
    <3>1. Max(s) \in S
      BY <1>1, <2>2, LastIndex
    <3> QED
      BY <1>3, <3>1
  <2> HIDE DEF V, S
  <2> QED
    BY <2>1, <2>2
<1>5. \E g : HighestIs(previous, next, g)
  <2>1. PICK g : Folds(h, next, V, S, g)
    <3> HIDE DEF S, V, h
    <3> QED
      BY <1>1, <1>4, FoldsExist
  <2>2. ASSUME NEW s \in SUBSET S
        PROVE  g[s] = IF s = {} THEN next ELSE Higher(g[s \ {Max(s)}], previous[Max(s)])
    <3> HIDE DEF V, S
    <3>1. g[s] = (IF s = {} THEN next ELSE h[<<s, g[s \ {Max(s)}]>>]) /\ g[s \ {Max(s)}] \in V
      <4> HIDE DEF h
      <4> QED
        BY <2>1 DEF Folds
    <3> QED
      BY <3>1
  <2>3. g \in [SUBSET S -> V]
    BY <2>1 DEF Folds
  <2>4. HighestIs(previous, next, g)
    <3> HIDE DEF V
    <3> QED
      BY <2>2, <2>3 DEF HighestIs
  <2> QED
    BY <2>4
<1> DEFINE g == CHOOSE g : HighestIs(previous, next, g)
<1>6. HighestIs(previous, next, g)
  BY <1>5
<1> HIDE DEF g
<1>7. g[{}] \in V
  BY <1>4, <1>6 DEF HighestIs
<1>8. ASSUME NEW s \in (SUBSET S) \ {{}}, g[s \ {Max(s)}] \in V
      PROVE  g[s] \in V
  <2>1. Max(s) \in S
    BY <1>1, LastIndex
  <2>2. g[s] = Higher(g[s \ {Max(s)}], previous[Max(s)])
    BY <1>6 DEF HighestIs
  <2> HIDE DEF V
  <2> QED
    BY <1>3, <1>8, <2>1, <2>2
<1>9. g[S] \in V
  <2> HIDE DEF S, V
  <2> QED
    BY <1>1, <1>7, <1>8, FoldStays
<1> QED
  BY <1>9, FirstFreeIs DEF g

(***************************************************************************)
(* One item, and the candidate.                                            *)
(***************************************************************************)
States == [ok : BOOLEAN, next : Nat, todos : Seq(Todo)]

\* The todos so far are of different numbers, each of the plan before or handed out since.
Kept(previous, first) ==
  {state \in States :
     /\ state.next >= first
     /\ state.ok => /\ Distinct(state.todos)
                    /\ Ids(state.todos) \subseteq Ids(previous) \cup first..(state.next - 1)}

\* A number of the plan has its task in the plan.
LEMMA TaskOf ==
  ASSUME NEW todos \in Seq(Todo), NEW id \in Ids(todos)
  PROVE  ById(todos, id) \in Todo /\ ById(todos, id).id = id
<1>1. \A n \in DOMAIN todos : todos[n] \in Todo
  BY Indices
<1>2. \E n \in DOMAIN todos : todos[n].id = id
  BY DEF Ids
<1> QED
  BY <1>1, <1>2 DEF ById

\* What the proofs need of an item, and of what is written.
Readable(item) ==
  /\ item.content \in {i.content : i \in Items} /\ item.status \in {i.status : i \in Items}
  /\ item.summary \in BOOLEAN
  /\ item.depends # None => item.depends \in SUBSET Nat

Written(items) ==
  /\ Len(items) \in Nat /\ DOMAIN items = 1..Len(items)
  /\ \A n \in DOMAIN items : Readable(items[n])

\* What a model may write is.
LEMMA ItemsAreWritten == ASSUME NEW items \in Seq(Items) PROVE Written(items)
<1>1. \A item \in Items : Readable(item)
  BY PlanAssumption DEF PlanAssumption, Readable
<1> QED
  BY <1>1, Indices DEF Written

\* A refused item ends it; an accepted one adds one task with a number of its own.
LEMMA AcceptKeeps ==
  ASSUME NEW previous \in Seq(Todo), NEW first \in Nat, \A id \in Ids(previous) : id < first,
         NEW state \in Kept(previous, first), NEW item, Readable(item)
  PROVE  Accept(state, item, previous) \in Kept(previous, first)
<1> DEFINE wanted == Identity(item, previous, Ids(state.todos))
           id     == IF wanted = None THEN state.next ELSE wanted
           prior  == IF wanted \in Ids(previous) THEN ById(previous, wanted) ELSE None
           sound  == /\ item.content \notin {state.todos[n].content : n \in DOMAIN state.todos}
                     /\ item.id # None => item.id <= LastId /\ item.id \in Ids(previous)
                     /\ wanted \notin Ids(state.todos)
                     /\ SummaryAllowed(item, prior)
                     /\ \A d \in DependsOf(item, prior) : d <= LastId /\ d # id
           todo   == [id |-> id, content |-> item.content, status |-> item.status,
                      summary |-> SummaryOf(item, prior), depends |-> DependsOf(item, prior)]
           next   == IF wanted = None THEN state.next + 1 ELSE state.next
<1>1. state \in States /\ state.next >= first /\ state.todos \in Seq(Todo) /\ state.next \in Nat
  BY DEF Kept, States
<1>2. Accept(state, item, previous) =
        IF ~ state.ok \/ ~ sound THEN [state EXCEPT !.ok = FALSE]
        ELSE [ok |-> TRUE, next |-> next, todos |-> Append(state.todos, todo)]
  BY DEF Accept
<1>3. CASE ~ state.ok \/ ~ sound
  <2>1. Accept(state, item, previous) = [state EXCEPT !.ok = FALSE]
    BY <1>2, <1>3
  <2> QED
    BY <1>1, <2>1 DEF Kept, States
<1>4. CASE state.ok /\ sound
  <2>1. wanted # None => wanted \in Ids(previous)
    <3>1. CASE item.id # None
      BY <1>4, <3>1 DEF Identity
    <3>2. CASE item.id = None
      <4> DEFINE same == {n \in DOMAIN previous : previous[n].content = item.content
                                                   /\ previous[n].id \notin Ids(state.todos)}
                 least == CHOOSE n \in same : \A m \in same : n <= m
      <4>1. same = {} => wanted = None
        BY <3>2 DEF Identity
      <4>2. ASSUME same # {} PROVE wanted = previous[least].id
        BY <3>2, <4>2 DEF Identity
      <4>3. ASSUME same # {} PROVE least \in same
        <5>1. DOMAIN previous = 1..Len(previous) /\ Len(previous) \in Nat
          BY Indices
        <5>2. same \in SUBSET Int /\ IsFiniteSet(same)
          BY <5>1, Indices, FS_Subset
        <5>3. \E n \in same : \A m \in same : n <= m
          <6> HIDE DEF same
          <6> QED
            BY <4>3, <5>2, MinExists
        <5> HIDE DEF same
        <5> QED
          BY <5>3
      <4> QED
        BY <4>1, <4>2, <4>3 DEF Ids
    <3> QED
      BY <3>1, <3>2
  <2>2. \A i \in Ids(previous) : i \in Nat
    <3>1. \A n \in DOMAIN previous : previous[n] \in Todo
      BY Indices
    <3> QED
      BY <3>1 DEF Ids, Todo
  <2>3. wanted \notin Ids(state.todos)
    BY <1>4
  <2> HIDE DEF wanted
  <2>4. id \in Nat /\ id \notin Ids(state.todos)
    <3>1. Ids(state.todos) \subseteq Ids(previous) \cup first..(state.next - 1)
      BY <1>4 DEF Kept
    <3> QED
      BY <1>1, <2>1, <2>2, <2>3, <3>1
  <2>5. prior = None \/ prior \in Todo
    BY TaskOf
  <2>6. SummaryOf(item, prior) \in BOOLEAN /\ DependsOf(item, prior) \in SUBSET Nat
    <3> HIDE DEF prior
    <3>1. SummaryOf(item, prior) \in BOOLEAN
      BY DEF SummaryOf
    <3>2. item.depends # None => item.depends \in SUBSET Nat
      BY DEF Readable
    <3>3. prior # None => prior.depends \in SUBSET Nat
      BY <2>5 DEF Todo
    <3> QED
      BY <3>1, <3>2, <3>3 DEF DependsOf
  <2>7. todo \in Todo /\ todo.id = id
    BY <2>4, <2>6 DEF Todo, Readable
  <2> DEFINE todos == Append(state.todos, todo)
  <2> HIDE DEF todo, id
  <2>8. /\ todos \in Seq(Todo) /\ Len(todos) = Len(state.todos) + 1
        /\ \A n \in 1..Len(state.todos) : todos[n] = state.todos[n]
        /\ todos[Len(state.todos) + 1] = todo
    BY <1>1, <2>7, AppendProperties
  <2> HIDE DEF todos
  <2>9. /\ DOMAIN todos = 1..(Len(state.todos) + 1) /\ DOMAIN state.todos = 1..Len(state.todos)
        /\ Len(state.todos) \in Nat
    BY <1>1, <2>8, Indices
  <2>10. Distinct(todos)
    <3>1. Distinct(state.todos) /\ \A n \in DOMAIN state.todos : state.todos[n].id # id
      BY <1>4, <2>4 DEF Kept, Ids
    <3>2. SUFFICES ASSUME NEW m \in DOMAIN todos, NEW n \in DOMAIN todos, todos[m].id = todos[n].id
                   PROVE  m = n
      BY DEF Distinct
    <3> DEFINE last == Len(state.todos) + 1
    <3>3. todos[last].id = id /\ \A k \in DOMAIN todos : k # last => k \in DOMAIN state.todos
      BY <2>7, <2>8, <2>9
    <3>4. \A k \in DOMAIN state.todos : todos[k] = state.todos[k]
      BY <2>8, <2>9
    <3>5. CASE m # last /\ n # last
      BY <3>1, <3>2, <3>3, <3>4, <3>5 DEF Distinct
    <3>6. CASE m = last \/ n = last
      BY <3>1, <3>2, <3>3, <3>4, <3>6
    <3> QED
      BY <3>5, <3>6
  <2>11. Ids(todos) \subseteq Ids(state.todos) \cup {id}
    BY <2>7, <2>8, <2>9 DEF Ids
  <2>12. /\ Ids(todos) \subseteq Ids(previous) \cup first..(next - 1)
         /\ next \in Nat /\ next >= first
    <3>1. Ids(state.todos) \subseteq Ids(previous) \cup first..(state.next - 1)
      BY <1>4 DEF Kept
    <3>2. CASE wanted = None
      <4>1. id = state.next /\ next = state.next + 1
        BY <3>2 DEF id
      <4> QED
        BY <1>1, <2>11, <3>1, <4>1
    <3>3. CASE wanted # None
      <4>1. id \in Ids(previous) /\ next = state.next
        BY <2>1, <3>3 DEF id
      <4> QED
        BY <1>1, <2>11, <3>1, <4>1
    <3> QED
      BY <3>2, <3>3
  <2>13. Accept(state, item, previous) = [ok |-> TRUE, next |-> next, todos |-> todos]
    BY <1>2, <1>4 DEF todos, todo, id, wanted
  <2> HIDE DEF next
  <2> QED
    BY <2>8, <2>10, <2>12, <2>13 DEF Kept, States
<1> QED
  BY <1>3, <1>4

Start(items, previous, next) ==
  [ok |-> Len(items) <= MaxItems, next |-> FirstFree(previous, next), todos |-> <<>>]

AcceptedIs(items, previous, next, g) ==
  g = [s \in SUBSET DOMAIN items |->
         IF s = {} THEN Start(items, previous, next) ELSE Accept(g[s \ {Max(s)}], items[Max(s)], previous)]

LEMMA CandidateIs ==
  \A items, previous, next :
    Candidate(items, previous, next) = (CHOOSE g : AcceptedIs(items, previous, next, g))[DOMAIN items]
  BY Zenon DEF Candidate, FoldLeft, MapThenFoldSet, AcceptedIs, Start

\* Accepting one item after the other, and what it has come to after some of them.
Accepting(items, previous, next) == CHOOSE g : AcceptedIs(items, previous, next, g)

\* The recursion has a solution, and every state on the way keeps the numbers, whatever is written.
LEMMA AcceptingIs ==
  ASSUME NEW items, Written(items), NEW previous \in Seq(Todo), NEW next \in Nat,
         \A id \in Ids(previous) : id < next
  PROVE  /\ AcceptedIs(items, previous, next, Accepting(items, previous, next))
         /\ \A s \in SUBSET DOMAIN items : Accepting(items, previous, next)[s] \in Kept(previous, next)
<1> DEFINE S == DOMAIN items
           V == Kept(previous, next)
           b == Start(items, previous, next)
           h == [p \in (SUBSET S) \X V |-> IF p[1] = {} THEN b ELSE Accept(p[2], items[Max(p[1])], previous)]
<1>1. S \in SUBSET Int /\ IsFiniteSet(S) /\ \A n \in S : Readable(items[n])
  BY FS_Interval DEF Written
<1>2. b \in V
  <2>1. FirstFree(previous, next) \in Nat /\ FirstFree(previous, next) >= next
    BY FirstFreeIsNew
  <2>2. <<>> \in Seq(Todo) /\ Distinct(<<>>) /\ Ids(<<>>) = {}
    BY DEF Distinct, Ids
  <2>3. b.ok \in BOOLEAN
    BY PlanAssumption DEF Start, PlanAssumption, Written
  <2> QED
    BY <2>1, <2>2, <2>3 DEF Start, Kept, States
<1>3. ASSUME NEW v \in V, NEW n \in S PROVE Accept(v, items[n], previous) \in V
  BY <1>1, AcceptKeeps
<1> HIDE DEF V, S, b
<1>4. h \in [(SUBSET S) \X V -> V]
  <2>1. ASSUME NEW s \in SUBSET S, NEW v \in V, s # {} PROVE Accept(v, items[Max(s)], previous) \in V
    <3>1. Max(s) \in S
      BY <1>1, <2>1, LastIndex
    <3> QED
      BY <1>3, <3>1
  <2> QED
    BY <1>2, <2>1
<1>5. \E g : AcceptedIs(items, previous, next, g)
  <2>1. PICK g : Folds(h, b, V, S, g)
    <3> HIDE DEF h
    <3> QED
      BY <1>1, <1>2, <1>4, FoldsExist
  <2>2. ASSUME NEW s \in SUBSET S
        PROVE  g[s] = IF s = {} THEN b ELSE Accept(g[s \ {Max(s)}], items[Max(s)], previous)
    <3>1. g[s] = (IF s = {} THEN b ELSE h[<<s, g[s \ {Max(s)}]>>]) /\ g[s \ {Max(s)}] \in V
      <4> HIDE DEF h
      <4> QED
        BY <2>1 DEF Folds
    <3> QED
      BY <3>1
  <2>3. g \in [SUBSET S -> V]
    BY <2>1 DEF Folds
  <2>4. AcceptedIs(items, previous, next, g)
    BY <2>2, <2>3 DEF AcceptedIs, S, b
  <2> QED
    BY <2>4
<1> DEFINE g == Accepting(items, previous, next)
<1>6. AcceptedIs(items, previous, next, g)
  BY <1>5 DEF Accepting
<1> HIDE DEF g
<1>7. g[{}] \in V
  BY <1>2, <1>6 DEF AcceptedIs, b
<1>8. ASSUME NEW s \in (SUBSET S) \ {{}}, g[s \ {Max(s)}] \in V
      PROVE  g[s] \in V
  <2>1. Max(s) \in S
    BY <1>1, LastIndex
  <2>2. g[s] = Accept(g[s \ {Max(s)}], items[Max(s)], previous)
    BY <1>6 DEF AcceptedIs, S
  <2> QED
    BY <1>3, <1>8, <2>1, <2>2
<1>9. ASSUME NEW T \in SUBSET S PROVE g[T] \in V
  <2>1. T \in SUBSET Int /\ IsFiniteSet(T)
    BY <1>1, FS_Subset
  <2>2. \A s \in (SUBSET T) \ {{}} : g[s \ {Max(s)}] \in V => g[s] \in V
    BY <1>8
  <2> QED
    BY <1>7, <2>1, <2>2, FoldStays
<1> QED
  BY <1>6, <1>9 DEF g, V, S

\* The candidate is what it has come to after all.
LEMMA CandidateKeeps ==
  ASSUME NEW items, Written(items), NEW previous \in Seq(Todo), NEW next \in Nat,
         \A id \in Ids(previous) : id < next
  PROVE  Candidate(items, previous, next) \in Kept(previous, next)
<1>1. Candidate(items, previous, next) = Accepting(items, previous, next)[DOMAIN items]
  BY CandidateIs DEF Accepting
<1> QED
  BY <1>1, AcceptingIs

\* R[k] is where k items may lead.
Leads(items, previous, next, R) ==
  /\ Start(items, previous, next) \in R[0]
  /\ \A k \in 1..Len(items) : \A state \in R[k - 1] \cap Kept(previous, next) :
       Accept(state, items[k], previous) \in R[k]

\* Then all of them lead there.
LEMMA CandidateLeads ==
  ASSUME NEW items, Written(items), NEW previous \in Seq(Todo), NEW next \in Nat,
         \A id \in Ids(previous) : id < next, NEW R, Leads(items, previous, next, R)
  PROVE  Candidate(items, previous, next) \in R[Len(items)]
<1> DEFINE S == DOMAIN items
           g == Accepting(items, previous, next)
           Q == {s \in SUBSET S : \A k \in 0..Len(items) : s = 1..k => g[s] \in R[k]}
<1>1. S = 1..Len(items) /\ Len(items) \in Nat /\ IsFiniteSet(S) /\ S \in SUBSET Int
  BY FS_Interval DEF Written
<1>2. /\ AcceptedIs(items, previous, next, g) /\ \A s \in SUBSET S : g[s] \in Kept(previous, next)
      /\ Candidate(items, previous, next) = g[S]
  BY AcceptingIs, CandidateIs DEF Accepting
<1> HIDE DEF g, S
<1>3. ASSUME NEW s \in SUBSET S, \A x \in s : s \ {x} \in Q
      PROVE  s \in Q
  <2>1. ASSUME NEW k \in 0..Len(items), s = 1..k PROVE g[s] \in R[k]
    <3>1. CASE k = 0
      <4>1. s = {}
        BY <2>1, <3>1
      <4>2. g[s] = Start(items, previous, next)
        BY <1>2, <4>1 DEF AcceptedIs, S
      <4> QED
        BY <3>1, <4>2 DEF Leads
    <3>2. CASE k # 0
      <4>1. k \in 1..Len(items) /\ k \in s /\ s # {} /\ s \ {k} = 1..(k - 1) /\ k - 1 \in 0..Len(items)
        <5>1. k \in 1..Len(items) /\ k - 1 \in 0..Len(items)
          BY <1>1, <3>2
        <5>2. k \in 1..k /\ (1..k) \ {k} = 1..(k - 1)
          BY <5>1
        <5> QED
          BY <2>1, <5>1, <5>2
      <4>2. Max(s) = k
        <5>1. s \in SUBSET Int /\ IsFiniteSet(s)
          BY <1>1, FS_Subset
        <5>2. Max(s) \in s /\ \A x \in s : x <= Max(s)
          BY <4>1, <5>1, MaxExists
        <5> QED
          BY <2>1, <4>1, <5>2
      <4>3. g[s] = Accept(g[s \ {k}], items[k], previous)
        BY <1>2, <4>1, <4>2 DEF AcceptedIs, S
      <4>4. g[s \ {k}] \in R[k - 1] \cap Kept(previous, next)
        <5>1. s \ {k} \in Q /\ s \ {k} \in SUBSET S
          BY <1>3, <4>1
        <5> QED
          BY <1>2, <4>1, <5>1
      <4> QED
        BY <4>1, <4>3, <4>4 DEF Leads
    <3> QED
      BY <3>1, <3>2
  <2> QED
    BY <2>1
<1> HIDE DEF Q
<1>4. S \in Q
  BY <1>1, <1>3, SetInduction
<1>5. Len(items) \in 0..Len(items)
  BY <1>1
<1> QED
  BY <1>1, <1>2, <1>4, <1>5 DEF Q

\* An accepted plan is its candidate.
LEMMA UpdateIs ==
  ASSUME NEW items, Written(items), NEW previous \in Seq(Todo), NEW next \in Nat,
         \A id \in Ids(previous) : id < next, PlanUpdate(items, previous, next).ok
  PROVE  LET made == Candidate(items, previous, next) IN
         /\ made.ok /\ DependenciesHold(made.todos)
         /\ Cardinality({n \in DOMAIN made.todos : made.todos[n].status = "in_progress"}) <= 1
         /\ PlanUpdate(items, previous, next).todos = made.todos
         /\ PlanUpdate(items, previous, next).next = made.next
<1> DEFINE made   == Candidate(items, previous, next)
           active == {n \in DOMAIN made.todos : made.todos[n].status = "in_progress"}
<1>1. made \in Kept(previous, next)
  BY CandidateKeeps
<1>2. PlanUpdate(items, previous, next) =
        IF made.ok /\ Cardinality(active) <= 1 THEN [made EXCEPT !.ok = DependenciesHold(made.todos)]
        ELSE [made EXCEPT !.ok = FALSE]
  BY DEF PlanUpdate
<1> HIDE DEF made
<1>3. made \in States
  BY <1>1 DEF Kept
<1> HIDE DEF active
<1>4. made.ok /\ Cardinality(active) <= 1
  <2>1. SUFFICES ASSUME ~ (made.ok /\ Cardinality(active) <= 1) PROVE FALSE
    OBVIOUS
  <2>2. PlanUpdate(items, previous, next) = [made EXCEPT !.ok = FALSE]
    BY <1>2, <2>1
  <2>3. PlanUpdate(items, previous, next).ok = FALSE
    BY <1>3, <2>2 DEF States
  <2> QED
    BY <2>3
<1> DEFINE holds == DependenciesHold(made.todos)
<1>5. PlanUpdate(items, previous, next) = [made EXCEPT !.ok = holds]
  BY <1>2, <1>4
<1>6. holds /\ PlanUpdate(items, previous, next).todos = made.todos /\ PlanUpdate(items, previous, next).next = made.next
  <2> HIDE DEF holds
  <2> QED
    BY <1>3, <1>5 DEF States
<1> QED
  BY <1>4, <1>6 DEF active, made

\* What is accepted keeps the numbers.
LEMMA UpdateKeeps ==
  ASSUME NEW items, Written(items), NEW previous \in Seq(Todo), NEW next \in Nat,
         \A id \in Ids(previous) : id < next, PlanUpdate(items, previous, next).ok
  PROVE  LET accepted == PlanUpdate(items, previous, next) IN
         /\ accepted.todos \in Seq(Todo) /\ accepted.next \in Nat /\ accepted.next >= next
         /\ Distinct(accepted.todos)
         /\ Ids(accepted.todos) \subseteq Ids(previous) \cup next..(accepted.next - 1)
<1> DEFINE made == Candidate(items, previous, next)
<1>1. made \in Kept(previous, next)
  BY CandidateKeeps
<1>2. /\ made.ok /\ PlanUpdate(items, previous, next).todos = made.todos
      /\ PlanUpdate(items, previous, next).next = made.next
  BY UpdateIs
<1> HIDE DEF made
<1> QED
  BY <1>1, <1>2 DEF Kept, States

(***************************************************************************)
(* The steps, and the theorem.                                             *)
(***************************************************************************)
\* Tasks of different numbers are as many as their numbers.
LEMMA CountIds ==
  ASSUME NEW todos \in Seq(Todo), Distinct(todos)
  PROVE  Cardinality(Ids(todos)) = Len(todos)
<1>1. DOMAIN todos = 1..Len(todos) /\ Len(todos) \in Nat
  BY Indices
<1> DEFINE f == [n \in 1..Len(todos) |-> todos[n].id]
<1>2. f \in Bijection(1..Len(todos), Ids(todos))
  <2>1. f \in [1..Len(todos) -> Ids(todos)]
    BY <1>1 DEF Ids
  <2>2. \A m, n \in 1..Len(todos) : f[m] = f[n] => m = n
    BY <1>1 DEF Distinct
  <2>3. \A id \in Ids(todos) : \E n \in 1..Len(todos) : f[n] = id
    BY <1>1 DEF Ids
  <2> HIDE DEF f
  <2> QED
    BY <2>1, <2>2, <2>3 DEF Bijection, Injection, Surjection, IsInjective
<1>3. IsFiniteSet(1..Len(todos)) /\ Cardinality(1..Len(todos)) = Len(todos)
  BY <1>1, FS_Interval
<1> QED
  BY <1>2, <1>3, FS_Bijection DEF ExistsBijection

\* An accepted plan keeps the invariant and every number its meaning.
LEMMA WriteKeeps ==
  ASSUME PlanInv, NEW items \in Seq(Items), WritePlan(items)
  PROVE  /\ PlanInv'
         /\ Cardinality(Ids(plan')) = Len(plan')
         /\ (Ids(plan') \ Ids(plan)) \cap DOMAIN tasks = {}
         /\ \A id \in DOMAIN tasks :
              tasks[id].settled # None /\ tasks'[id].settled # None => Evidence(id)' = Evidence(id)
<1> DEFINE accepted == PlanUpdate(items, plan, nextTask)
<1>1. /\ accepted.ok /\ plan' = accepted.todos /\ nextTask' = accepted.next /\ results' = results
      /\ tasks' = [id \in DOMAIN tasks \cup Ids(plan') |->
                     IF id \in Ids(plan') THEN Planned(ById(plan', id)) ELSE tasks[id]]
  BY DEF WritePlan
<1>2. plan \in Seq(Todo) /\ nextTask \in Nat \ {0} /\ results \in Nat /\ \A id \in Ids(plan) : id < nextTask
  BY DEF PlanInv
<1>3. /\ plan' \in Seq(Todo) /\ nextTask' \in Nat /\ nextTask' >= nextTask /\ Distinct(plan')
      /\ Ids(plan') \subseteq Ids(plan) \cup nextTask..(nextTask' - 1)
  BY <1>1, <1>2, ItemsAreWritten, UpdateKeeps
<1> HIDE DEF accepted
<1>4. /\ Ids(plan)' = Ids(plan') /\ Distinct(plan)' = Distinct(plan')
  BY DEF Ids, Distinct
<1>5. DOMAIN tasks' = DOMAIN tasks \cup Ids(plan') /\ DOMAIN tasks' \subseteq 1..(nextTask' - 1)
  BY <1>1, <1>2, <1>3 DEF PlanInv
<1>6. ASSUME NEW id \in Ids(plan')
      PROVE  LET todo == ById(plan', id) IN
             /\ todo.id = id /\ tasks'[id] = Planned(todo)
             /\ tasks'[id] \in [first : Nat, settled : Nat \cup {None}]
             /\ id \in DOMAIN tasks => /\ tasks'[id].first = tasks[id].first
                                       /\ tasks'[id].settled \in {None, tasks[id].settled} \/ tasks[id].settled = None
  <2> DEFINE todo == ById(plan', id)
  <2>1. todo \in Todo /\ todo.id = id
    BY <1>3, <1>6, TaskOf
  <2>2. tasks'[id] = Planned(todo)
    BY <1>1, <1>6
  <2> HIDE DEF todo
  <2>3. Known(id) = None \/ Known(id) \in [first : Nat, settled : Nat \cup {None}]
    BY DEF Known, PlanInv
  <2>4. ASSUME id \in DOMAIN tasks PROVE Known(id) = tasks[id] /\ Known(id) # None
    <3>1. tasks[id] \in [first : Nat, settled : Nat \cup {None}]
      BY <2>4 DEF PlanInv
    <3> QED
      BY <2>4, <3>1, PlanAssumption DEF Known, PlanAssumption
  <2> DEFINE known == Known(id)
  <2> HIDE DEF known
  <2>5. Planned(todo) = [first |-> IF known = None THEN results ELSE known.first,
                         settled |-> Settled(todo, known)]
    BY <2>1 DEF Planned, known
  <2>6. /\ Settled(todo, known) \in Nat \cup {None}
        /\ known # None => Settled(todo, known) \in {None, known.settled} \/ known.settled = None
    BY <1>2, <2>3 DEF Settled, known
  <2> QED
    BY <1>2, <2>1, <2>2, <2>3, <2>4, <2>5, <2>6 DEF todo, known
<1>7. ASSUME NEW id \in DOMAIN tasks', id \notin Ids(plan')
      PROVE  id \in DOMAIN tasks /\ tasks'[id] = tasks[id]
  BY <1>1, <1>5, <1>7
<1>8. PlanInv'
  <2>1. \A id \in DOMAIN tasks' : tasks'[id] \in [first : Nat, settled : Nat \cup {None}]
    BY <1>6, <1>7 DEF PlanInv
  <2>2. nextTask' \in Nat \ {0} /\ results' \in Nat
    BY <1>1, <1>2, <1>3
  <2>3. Ids(plan)' \subseteq DOMAIN tasks'
    BY <1>4, <1>5
  <2> QED
    BY <1>3, <1>4, <1>5, <2>1, <2>2, <2>3 DEF PlanInv
<1>9. (Ids(plan') \ Ids(plan)) \cap DOMAIN tasks = {}
  BY <1>2, <1>3 DEF PlanInv
<1>10. ASSUME NEW id \in DOMAIN tasks, tasks[id].settled # None, tasks'[id].settled # None
       PROVE  Evidence(id)' = Evidence(id)
  <2>1. tasks'[id].first = tasks[id].first /\ tasks'[id].settled = tasks[id].settled
    BY <1>5, <1>6, <1>7, <1>10
  <2> QED
    BY <1>10, <2>1 DEF Evidence
<1> QED
  BY <1>3, <1>8, <1>9, <1>10, CountIds

LEMMA PlanStarts == PlanInit => PlanInv
<1> SUFFICES ASSUME PlanInit PROVE PlanInv
  OBVIOUS
<1>1. plan = <<>> /\ nextTask = 1 /\ tasks = <<>> /\ results = 0
  BY DEF PlanInit
<1>2. DOMAIN tasks = {} /\ Ids(plan) = {} /\ Distinct(plan) /\ plan \in Seq(Todo)
  BY <1>1 DEF Ids, Distinct
<1> QED
  BY <1>1, <1>2 DEF PlanInv

\* Every step keeps the invariant and is one that TasksKeepTheirIdentity allows.
LEMMA PlanStep ==
  ASSUME PlanInv, [PlanNext]_planVars
  PROVE  /\ PlanInv'
         /\ Cardinality(Ids(plan')) = Len(plan')
         /\ (Ids(plan') \ Ids(plan)) \cap DOMAIN tasks = {}
         /\ \A id \in DOMAIN tasks :
              tasks[id].settled # None /\ tasks'[id].settled # None => Evidence(id)' = Evidence(id)
<1>1. CASE UNCHANGED <<plan, nextTask, tasks>> /\ results' \in Nat
  <2>1. PlanInv'
    BY <1>1 DEF PlanInv, Ids, Distinct
  <2>2. Cardinality(Ids(plan')) = Len(plan')
    BY <1>1, CountIds DEF PlanInv
  <2> QED
    BY <1>1, <2>1, <2>2 DEF Evidence
<1>2. CASE UNCHANGED planVars
  BY <1>1, <1>2 DEF planVars, PlanInv
<1>3. CASE RecordResult
  BY <1>1, <1>3 DEF RecordResult, PlanInv
<1>4. ASSUME NEW n \in 0..MaxItems, NEW items \in [1..n -> Items]
      PROVE  items \in Seq(Items)
  BY PlanAssumption DEF PlanAssumption
<1>5. CASE PlanNext
  BY <1>3, <1>4, <1>5, WriteKeeps DEF PlanNext
<1> QED
  BY <1>2, <1>5

\* The numbers of tasks: what every plan, task and result of the Session satisfies (plan_update).
THEOREM PlanInvariant == PlanSpec => []PlanInv
<1>1. PlanInv /\ [PlanNext]_planVars => PlanInv'
  BY PlanStep
<1> QED
  BY PlanStarts, <1>1, PTL DEF PlanSpec

\* A number means one task for the life of the Session, and what settled a task stays its evidence,
\* whatever is written, for every number of items, plans and results (plan_update,
\* TaskPlanProjection).
THEOREM NumbersStay == PlanSpec => TasksKeepTheirIdentity
<1>1. PlanInv /\ [PlanNext]_planVars =>
        /\ [/\ Cardinality(Ids(plan')) = Len(plan')
            /\ (Ids(plan') \ Ids(plan)) \cap DOMAIN tasks = {}]_planVars
        /\ [\A id \in DOMAIN tasks :
              tasks[id].settled # None /\ tasks'[id].settled # None => Evidence(id)' = Evidence(id)]_planVars
  BY PlanStep
<1> QED
  BY <1>1, PlanInvariant, PTL DEF PlanSpec, TasksKeepTheirIdentity, IdsAreNeverRecycled, SettledEvidenceStays

(***************************************************************************)
(* The depth-first search.                                                 *)
(***************************************************************************)
Searches(N) == [cycle : BOOLEAN, visiting : SUBSET N, visited : SUBSET N]

VisitedIn(v, base, seq, g) ==
  g = [s \in SUBSET DOMAIN seq |-> IF s = {} THEN base ELSE v[<<g[s \ {Max(s)}], seq[Max(s)]>>]]

\* v after one task of seq after another.
VisitAll(v, base, seq) == (CHOOSE g : VisitedIn(v, base, seq, g))[DOMAIN seq]

\* What visit does, given what it does elsewhere.
VisitOnce(depends, v, s, i) ==
  LET below == VisitAll(v, [s EXCEPT !.visiting = @ \cup {i}], SetToSeq(depends[i]))
  IN  IF s.cycle \/ i \in s.visiting THEN [s EXCEPT !.cycle = TRUE]
      ELSE IF i \in s.visited THEN s
      ELSE [below EXCEPT !.visiting = @ \ {i}, !.visited = @ \cup {i}]

Visits(depends, v) ==
  v = [p \in Searches(DOMAIN depends) \X DOMAIN depends |-> VisitOnce(depends, v, p[1], p[2])]

LEMMA VisitIs == \A depends : Visit(depends) = CHOOSE v : Visits(depends, v)
  BY Zenon DEF Visit, Visits, Searches, VisitOnce, VisitAll, VisitedIn, FoldLeft, MapThenFoldSet

LEMMA SearchIs ==
  \A depends, starts :
    SearchFrom(depends, starts)
      = VisitAll(Visit(depends), [cycle |-> FALSE, visiting |-> {}, visited |-> {}], starts)
  BY Zenon DEF SearchFrom, VisitAll, VisitedIn, FoldLeft, MapThenFoldSet

\* A finite set as a sequence has what the set has.
LEMMA SeqOfSet ==
  ASSUME NEW S, IsFiniteSet(S)
  PROVE  /\ SetToSeq(S) \in [1..Cardinality(S) -> S] /\ Cardinality(S) \in Nat
         /\ DOMAIN SetToSeq(S) = 1..Cardinality(S)
         /\ \A x \in S : \E k \in DOMAIN SetToSeq(S) : SetToSeq(S)[k] = x
<1> DEFINE D == 1..Cardinality(S)
           f == SetToSeq(S)
<1>1. Cardinality(S) \in Nat /\ ExistsBijection(D, S)
  BY FS_CardinalityType
<1>2. \E h \in [D -> S] : IsInjective(h)
  BY <1>1 DEF ExistsBijection, Bijection, Injection
<1>3. f \in [D -> S] /\ IsInjective(f)
  BY <1>2 DEF SetToSeq
<1>4. f \in Injection(D, S)
  BY <1>3 DEF Injection
<1>5. Cardinality(D) = Cardinality(S)
  BY <1>1, FS_Interval
<1> HIDE DEF D, f
<1>6. f \in Surjection(D, S)
  BY <1>4, <1>5, FS_Injection
<1> QED
  BY <1>1, <1>3, <1>6 DEF Surjection, D, f

\* While every visit stays in P there are steps from one task to the next, and one way only.
LEMMA VisitedExists ==
  ASSUME NEW v, NEW P, NEW base \in P, NEW seq, NEW n \in Nat, DOMAIN seq = 1..n,
         \A t \in P, k \in DOMAIN seq : v[<<t, seq[k]>>] \in P
  PROVE  \E g : VisitedIn(v, base, seq, g) /\ g \in [SUBSET DOMAIN seq -> P]
<1> DEFINE S == DOMAIN seq
           h == [p \in (SUBSET S) \X P |-> IF p[1] = {} THEN base ELSE v[<<p[2], seq[Max(p[1])]>>]]
<1>1. S \in SUBSET Int /\ IsFiniteSet(S)
  BY FS_Interval
<1>2. h \in [(SUBSET S) \X P -> P]
  <2>1. ASSUME NEW s \in SUBSET S, NEW t \in P, s # {} PROVE v[<<t, seq[Max(s)]>>] \in P
    <3>1. Max(s) \in S
      BY <1>1, <2>1, LastIndex
    <3> QED
      BY <3>1
  <2> HIDE DEF S
  <2> QED
    BY <2>1
<1> HIDE DEF S
<1>3. PICK g : Folds(h, base, P, S, g)
  <2> HIDE DEF h
  <2> QED
    BY <1>1, <1>2, FoldsExist
<1>4. g \in [SUBSET S -> P]
  BY <1>3 DEF Folds
<1>5. ASSUME NEW s \in SUBSET S
      PROVE g[s] = IF s = {} THEN base ELSE v[<<g[s \ {Max(s)}], seq[Max(s)]>>]
  <2>1. g[s] = (IF s = {} THEN base ELSE h[<<s, g[s \ {Max(s)}]>>]) /\ g[s \ {Max(s)}] \in P
    <3> HIDE DEF h
    <3> QED
      BY <1>3 DEF Folds
  <2> QED
    BY <2>1
<1>6. VisitedIn(v, base, seq, g)
  BY <1>4, <1>5 DEF VisitedIn, S
<1> QED
  BY <1>4, <1>6 DEF S

LEMMA VisitedOnce ==
  ASSUME NEW v, NEW base, NEW seq, NEW n \in Nat, DOMAIN seq = 1..n,
         NEW g, VisitedIn(v, base, seq, g), NEW h, VisitedIn(v, base, seq, h)
  PROVE  g = h
<1> DEFINE S == DOMAIN seq
           Q == {s \in SUBSET S : \A t \in SUBSET s : g[t] = h[t]}
<1>1. S \in SUBSET Int /\ IsFiniteSet(S)
  BY FS_Interval
<1>2. ASSUME NEW s \in SUBSET S, \A x \in s : s \ {x} \in Q
      PROVE  s \in Q
  <2>1. ASSUME NEW t \in SUBSET s, t # s PROVE g[t] = h[t]
    <3>1. PICK x \in s : x \notin t
      BY <2>1
    <3> QED
      BY <1>2, <3>1
  <2>2. g[s] = h[s]
    <3>1. s # {} => Max(s) \in s
      BY <1>1, LastIndex
    <3>2. s # {} => g[s \ {Max(s)}] = h[s \ {Max(s)}]
      BY <2>1, <3>1
    <3> QED
      BY <3>2 DEF VisitedIn
  <2> QED
    BY <2>1, <2>2
<1> HIDE DEF Q
<1>3. S \in Q
  BY <1>1, <1>2, SetInduction
<1>4. \A t \in SUBSET S : g[t] = h[t]
  BY <1>3 DEF Q
<1> QED
  BY <1>4 DEF VisitedIn

\* Every visit from P to a task of seq stays in P.
StaysIn(v, seq, n, P) ==
  n \in Nat /\ DOMAIN seq = 1..n /\ \A t \in P, k \in DOMAIN seq : v[<<t, seq[k]>>] \in P

\* g holds, in P, what comes of the tasks of seq so far.
SeenAs(v, base, seq, P, g) ==
  /\ VisitedIn(v, base, seq, g) /\ g \in [SUBSET DOMAIN seq -> P]
  /\ VisitAll(v, base, seq) = g[DOMAIN seq]

\* Where every visit stays in P, so does one after another, and it is that of its steps.
LEMMA VisitAllStays ==
  ASSUME NEW v, NEW P, NEW base \in P, NEW seq, NEW n, StaysIn(v, seq, n, P)
  PROVE  VisitAll(v, base, seq) \in P /\ \E g : SeenAs(v, base, seq, P, g)
<1>0. n \in Nat /\ DOMAIN seq = 1..n /\ \A t \in P, k \in DOMAIN seq : v[<<t, seq[k]>>] \in P
  BY DEF StaysIn
<1>1. PICK g : VisitedIn(v, base, seq, g) /\ g \in [SUBSET DOMAIN seq -> P]
  BY <1>0, VisitedExists
<1> DEFINE h == CHOOSE h : VisitedIn(v, base, seq, h)
<1>2. VisitedIn(v, base, seq, h)
  BY <1>1
<1>3. VisitAll(v, base, seq) = h[DOMAIN seq]
  BY DEF VisitAll
<1> HIDE DEF h
<1>4. g = h
  BY <1>0, <1>1, <1>2, VisitedOnce
<1>5. SeenAs(v, base, seq, P, g) /\ g[DOMAIN seq] \in P
  BY <1>1, <1>3, <1>4 DEF SeenAs
<1> QED
  BY <1>3, <1>4, <1>5

AlikeIn(v, w, seq, P) == \A t \in P, k \in DOMAIN seq : w[<<t, seq[k]>>] = v[<<t, seq[k]>>]

\* Two functions that agree on P visit alike.
LEMMA VisitAllAgrees ==
  ASSUME NEW v, NEW w, NEW P, NEW base \in P, NEW seq, NEW n, StaysIn(v, seq, n, P), AlikeIn(v, w, seq, P)
  PROVE  VisitAll(w, base, seq) = VisitAll(v, base, seq)
<1>0. /\ n \in Nat /\ DOMAIN seq = 1..n
      /\ \A t \in P, k \in DOMAIN seq : v[<<t, seq[k]>>] \in P /\ w[<<t, seq[k]>>] = v[<<t, seq[k]>>]
  BY DEF StaysIn, AlikeIn
<1>1. PICK g : /\ VisitedIn(v, base, seq, g) /\ g \in [SUBSET DOMAIN seq -> P]
               /\ VisitAll(v, base, seq) = g[DOMAIN seq]
  <2>1. StaysIn(v, seq, n, P)
    OBVIOUS
  <2>2. \E g : SeenAs(v, base, seq, P, g)
    BY <2>1, VisitAllStays
  <2> QED
    BY <2>2 DEF SeenAs
<1>2. PICK h : VisitedIn(w, base, seq, h) /\ VisitAll(w, base, seq) = h[DOMAIN seq]
  <2>1. StaysIn(w, seq, n, P)
    BY <1>0 DEF StaysIn
  <2>2. \E h : SeenAs(w, base, seq, P, h)
    BY <2>1, VisitAllStays
  <2> QED
    BY <2>2 DEF SeenAs
<1>3. ASSUME NEW s \in SUBSET DOMAIN seq
      PROVE  g[s] = IF s = {} THEN base ELSE w[<<g[s \ {Max(s)}], seq[Max(s)]>>]
  <2>1. g[s] = IF s = {} THEN base ELSE v[<<g[s \ {Max(s)}], seq[Max(s)]>>]
    BY <1>1 DEF VisitedIn
  <2>2. s # {} => g[s \ {Max(s)}] \in P /\ Max(s) \in DOMAIN seq
    <3>1. DOMAIN seq \in SUBSET Int /\ IsFiniteSet(DOMAIN seq)
      BY <1>0, FS_Interval
    <3>2. g[s \ {Max(s)}] \in P
      BY <1>1
    <3> QED
      BY <3>1, <3>2, LastIndex
  <2> QED
    BY <1>0, <2>1, <2>2
<1>4. VisitedIn(w, base, seq, g)
  BY <1>1, <1>3 DEF VisitedIn
<1>5. g = h
  BY <1>0, <1>2, <1>4, VisitedOnce
<1> QED
  BY <1>1, <1>2, <1>5

\* Nothing that was visited is forgotten, so in the end all are.
LEMMA VisitAllVisits ==
  ASSUME NEW v, NEW P, NEW base \in P, NEW seq, NEW n \in Nat, DOMAIN seq = 1..n,
         \A t \in P, k \in DOMAIN seq :
           LET r == v[<<t, seq[k]>>] IN
           /\ r \in P
           /\ ~ r.cycle => ~ t.cycle /\ t.visited \subseteq r.visited /\ seq[k] \in r.visited
  PROVE  LET r == VisitAll(v, base, seq) IN ~ r.cycle => \A k \in DOMAIN seq : seq[k] \in r.visited
<1> DEFINE S == DOMAIN seq
<1>1. S \in SUBSET Int /\ IsFiniteSet(S)
  BY FS_Interval
<1>2. PICK g : /\ VisitedIn(v, base, seq, g) /\ g \in [SUBSET S -> P]
               /\ VisitAll(v, base, seq) = g[S]
  <2>1. StaysIn(v, seq, n, P)
    BY DEF StaysIn
  <2>2. \E g : SeenAs(v, base, seq, P, g)
    BY <2>1, VisitAllStays
  <2> QED
    BY <2>2 DEF SeenAs
<1> DEFINE Q == {s \in SUBSET S : ~ g[s].cycle => \A k \in s : seq[k] \in g[s].visited}
<1>3. ASSUME NEW s \in SUBSET S, \A x \in s : s \ {x} \in Q
      PROVE  s \in Q
  <2>1. CASE s = {}
    BY <2>1
  <2>2. CASE s # {}
    <3> DEFINE m == Max(s)
               t == g[s \ {m}]
               r == v[<<t, seq[m]>>]
    <3>1. m \in s /\ m \in S
      BY <1>1, <2>2, LastIndex
    <3>2. t \in P /\ g[s] = r
      BY <1>2, <2>2 DEF VisitedIn
    <3>3. ~ r.cycle => ~ t.cycle /\ t.visited \subseteq r.visited /\ seq[m] \in r.visited
      BY <3>1, <3>2
    <3>4. ~ t.cycle => \A k \in s \ {m} : seq[k] \in t.visited
      BY <1>3, <3>1
    <3> HIDE DEF t, r, m
    <3> QED
      BY <3>2, <3>3, <3>4
  <2> QED
    BY <2>1, <2>2
<1> HIDE DEF Q
<1>4. S \in Q
  BY <1>1, <1>3, SetInduction
<1> QED
  BY <1>2, <1>4 DEF Q

(***************************************************************************)
(* The search's recursion has a solution.                                  *)
(***************************************************************************)
\* What a visit may leave: a circle, or the tasks it is inside of as they were.
Back(N, s) == {t \in Searches(N) : ~ t.cycle => ~ s.cycle /\ t.visiting = s.visiting}

\* The visits that can go on only to tasks of F.
Open(N, F) == {p \in Searches(N) \X N : p[1].cycle \/ N \ p[1].visiting \subseteq F}

SolvedOn(depends, F, v) ==
  LET N == DOMAIN depends IN
  /\ v \in [Searches(N) \X N -> Searches(N)]
  /\ \A p \in Open(N, F) : v[p] = VisitOnce(depends, v, p[1], p[2]) /\ v[p] \in Back(N, p[1])

Graphs(N) == {depends \in [N -> SUBSET N] : IsFiniteSet(N)}

\* What a visit goes through below its task.
Inside(s, i) == [s EXCEPT !.visiting = @ \cup {i}]

LEMMA InsideIs ==
  ASSUME NEW N, NEW s \in Searches(N), NEW i \in N
  PROVE  /\ Inside(s, i) \in Searches(N) /\ Inside(s, i).cycle = s.cycle
         /\ Inside(s, i).visiting = s.visiting \cup {i} /\ Inside(s, i).visited = s.visited
  BY DEF Inside, Searches

LEMMA DependsSeq ==
  ASSUME NEW N, NEW depends \in Graphs(N), NEW i \in N
  PROVE  LET seq == SetToSeq(depends[i]) IN
         /\ Cardinality(depends[i]) \in Nat /\ DOMAIN seq = 1..Cardinality(depends[i])
         /\ \A k \in DOMAIN seq : seq[k] \in depends[i] /\ seq[k] \in N
         /\ \A d \in depends[i] : \E k \in DOMAIN seq : seq[k] = d
<1>1. depends[i] \in SUBSET N /\ IsFiniteSet(depends[i])
  BY FS_Subset DEF Graphs
<1> QED
  BY <1>1, SeqOfSet

\* A visit inside of one more task stays inside of it.
LEMMA GoesOn ==
  ASSUME NEW N, NEW F \in SUBSET N, NEW s \in Searches(N), NEW i \in N,
         <<s, i>> \in Open(N, F), ~ s.cycle, i \notin s.visiting
  PROVE  /\ i \in F
         /\ \A t \in Back(N, Inside(s, i)), d \in N : <<t, d>> \in Open(N, F \ {i})
<1>1. N \ s.visiting \subseteq F
  BY DEF Open
<1>2. ASSUME NEW t \in Back(N, Inside(s, i)), NEW d \in N PROVE <<t, d>> \in Open(N, F \ {i})
  <2>1. t \in Searches(N) /\ (t.cycle \/ t.visiting = s.visiting \cup {i})
    BY InsideIs DEF Back
  <2> QED
    BY <1>1, <2>1 DEF Open
<1> QED
  BY <1>1, <1>2

\* A visit goes on.
Deeper(s, i) == ~ s.cycle /\ i \notin s.visiting /\ i \notin s.visited

\* Deeper visits leave what they may, and w gives the same.
AlikeBelow(N, s, i, v, w) ==
  Deeper(s, i) => \A t \in Back(N, Inside(s, i)), d \in N :
                    v[<<t, d>>] \in Back(N, t) /\ w[<<t, d>>] = v[<<t, d>>]

\* Where deeper visits are alike, this one is, and it leaves what it may.
LEMMA OnceAgrees ==
  ASSUME NEW N, NEW depends \in Graphs(N), NEW s \in Searches(N), NEW i \in N, NEW v, NEW w, AlikeBelow(N, s, i, v, w)
  PROVE  /\ VisitOnce(depends, w, s, i) = VisitOnce(depends, v, s, i)
         /\ VisitOnce(depends, v, s, i) \in Back(N, s)
<1> DEFINE P == Back(N, Inside(s, i))
           seq == SetToSeq(depends[i])
           n == Cardinality(depends[i])
           below == VisitAll(v, Inside(s, i), seq)
<1>1. CASE s.cycle \/ i \in s.visiting
  <2>1. /\ VisitOnce(depends, v, s, i) = [s EXCEPT !.cycle = TRUE]
        /\ VisitOnce(depends, w, s, i) = [s EXCEPT !.cycle = TRUE]
    BY <1>1 DEF VisitOnce
  <2> QED
    BY <2>1 DEF Back, Searches
<1>2. CASE ~ (s.cycle \/ i \in s.visiting) /\ i \in s.visited
  <2>1. VisitOnce(depends, v, s, i) = s /\ VisitOnce(depends, w, s, i) = s
    BY <1>2 DEF VisitOnce
  <2> QED
    BY <2>1 DEF Back
<1>3. CASE Deeper(s, i)
  <2>1. Inside(s, i) \in P
    BY InsideIs DEF Back
  <2>2. ASSUME NEW t \in P, NEW d \in N PROVE v[<<t, d>>] \in P /\ w[<<t, d>>] = v[<<t, d>>]
    BY <1>3 DEF Back, AlikeBelow
  <2>3. n \in Nat /\ DOMAIN seq = 1..n /\ \A k \in DOMAIN seq : seq[k] \in N
    BY DependsSeq
  <2> HIDE DEF P, seq, n
  <2>4. StaysIn(v, seq, n, P)
    BY <2>2, <2>3 DEF StaysIn
  <2>5. AlikeIn(v, w, seq, P)
    BY <2>2, <2>3 DEF AlikeIn
  <2>6. VisitAll(v, Inside(s, i), seq) \in P
    BY <2>1, <2>4, VisitAllStays
  <2>7. VisitAll(w, Inside(s, i), seq) = VisitAll(v, Inside(s, i), seq)
    BY <2>1, <2>4, <2>5, VisitAllAgrees
  <2>8. ASSUME NEW u
        PROVE  VisitOnce(depends, u, s, i)
                 = [VisitAll(u, Inside(s, i), seq) EXCEPT !.visiting = @ \ {i}, !.visited = @ \cup {i}]
    BY <1>3 DEF VisitOnce, Deeper, Inside, seq
  <2> HIDE DEF below
  <2>9. /\ VisitOnce(depends, v, s, i) = [below EXCEPT !.visiting = @ \ {i}, !.visited = @ \cup {i}]
        /\ VisitOnce(depends, w, s, i) = VisitOnce(depends, v, s, i)
    BY <2>7, <2>8 DEF below
  <2>10. below \in Searches(N) /\ (~ below.cycle => below.visiting = s.visiting \cup {i})
    BY <2>6, InsideIs DEF P, Back, below
  <2>11. i \notin s.visiting /\ ~ s.cycle
    BY <1>3 DEF Deeper
  <2>12. [below EXCEPT !.visiting = @ \ {i}, !.visited = @ \cup {i}] \in Back(N, s)
    BY <2>10, <2>11 DEF Back, Searches
  <2> QED
    BY <2>9, <2>12
<1> QED
  BY <1>1, <1>2, <1>3 DEF Deeper

LEMMA SolutionsAgree ==
  ASSUME NEW N, NEW depends \in Graphs(N), NEW F \in SUBSET N, NEW G \in SUBSET N,
         NEW v, SolvedOn(depends, F, v), NEW w, SolvedOn(depends, G, w)
  PROVE  \A p \in Open(N, F \cap G) : w[p] = v[p]
<1> DEFINE S == F \cap G
           Q == {T \in SUBSET S : \A p \in Open(N, T) : w[p] = v[p]}
<1>0. DOMAIN depends = N
  BY DEF Graphs
<1>1. ASSUME NEW T \in SUBSET S, \A x \in T : T \ {x} \in Q
      PROVE  T \in Q
  <2>1. ASSUME NEW s \in Searches(N), NEW i \in N, <<s, i>> \in Open(N, T)
        PROVE  w[<<s, i>>] = v[<<s, i>>]
    <3>1. ASSUME Deeper(s, i), NEW t \in Back(N, Inside(s, i)), NEW d \in N
          PROVE  v[<<t, d>>] \in Back(N, t) /\ w[<<t, d>>] = v[<<t, d>>]
      <4>1. i \in T /\ <<t, d>> \in Open(N, T \ {i})
        BY <2>1, <3>1, GoesOn DEF Deeper
      <4>2. w[<<t, d>>] = v[<<t, d>>]
        BY <1>1, <4>1
      <4>3. <<t, d>> \in Open(N, F)
        BY <4>1 DEF Open
      <4>4. v[<<t, d>>] \in Back(N, t)
        BY <1>0, <4>3 DEF SolvedOn
      <4> QED
        BY <4>2, <4>4
    <3>2. VisitOnce(depends, w, s, i) = VisitOnce(depends, v, s, i)
      BY <3>1, OnceAgrees DEF AlikeBelow
    <3>3. <<s, i>> \in Open(N, F) /\ <<s, i>> \in Open(N, G)
      BY <2>1 DEF Open
    <3>4. v[<<s, i>>] = VisitOnce(depends, v, s, i) /\ w[<<s, i>>] = VisitOnce(depends, w, s, i)
      BY <1>0, <3>3 DEF SolvedOn
    <3> QED
      BY <3>2, <3>4
  <2>2. \A p \in Open(N, T) : w[p] = v[p]
    <3>1. \A p \in Open(N, T) : p = <<p[1], p[2]>> /\ p[1] \in Searches(N) /\ p[2] \in N
      BY DEF Open
    <3> QED
      BY <2>1, <3>1
  <2> QED
    BY <2>2
<1> HIDE DEF Q
<1>2. S \in Q
  <2>1. IsFiniteSet(S)
    BY FS_Subset DEF Graphs
  <2> QED
    BY <1>1, <2>1, SetInduction
<1> QED
  BY <1>2 DEF Q

\* Visits that need not go on outside of F have a solution.
LEMMA SolutionExists ==
  ASSUME NEW N, NEW depends \in Graphs(N)
  PROVE  \E v : SolvedOn(depends, N, v)
<1> DEFINE G(F) == CHOOSE v : SolvedOn(depends, F, v)
           Q == {F \in SUBSET N : \E v : SolvedOn(depends, F, v)}
<1>0. DOMAIN depends = N /\ IsFiniteSet(N)
  BY DEF Graphs
<1>1. ASSUME NEW F \in SUBSET N, \A x \in F : F \ {x} \in Q
      PROVE  F \in Q
  <2>1. ASSUME NEW x \in F PROVE SolvedOn(depends, F \ {x}, G(F \ {x}))
    BY <1>1
  <2> HIDE DEF G
  <2> DEFINE Once(s, i) == VisitOnce(depends, G(F \ {i}), s, i)
             Reached(s, i) == <<s, i>> \in Open(N, F)
             v == [p \in Searches(N) \X N |-> IF Reached(p[1], p[2]) THEN Once(p[1], p[2]) ELSE p[1]]
  <2>2. ASSUME NEW s \in Searches(N), NEW i \in N, Reached(s, i), Deeper(s, i),
               NEW t \in Back(N, Inside(s, i)), NEW d \in N
        PROVE  /\ i \in F /\ <<t, d>> \in Open(N, F \ {i}) /\ t \in Searches(N)
               /\ G(F \ {i})[<<t, d>>] \in Back(N, t)
               /\ G(F \ {i})[<<t, d>>] = VisitOnce(depends, G(F \ {i}), t, d)
    <3>1. i \in F /\ <<t, d>> \in Open(N, F \ {i})
      BY <2>2, GoesOn DEF Deeper
    <3>2. SolvedOn(depends, F \ {i}, G(F \ {i}))
      BY <2>1, <3>1
    <3> QED
      BY <1>0, <3>1, <3>2 DEF SolvedOn, Back
  <2>3. ASSUME NEW s \in Searches(N), NEW i \in N, Reached(s, i)
        PROVE  Once(s, i) \in Back(N, s)
    <3>1. AlikeBelow(N, s, i, G(F \ {i}), G(F \ {i}))
      BY <2>2, <2>3 DEF AlikeBelow
    <3> QED
      BY <3>1, OnceAgrees
  <2>4. v \in [Searches(N) \X N -> Searches(N)]
    <3>1. ASSUME NEW p \in Searches(N) \X N
          PROVE  (IF Reached(p[1], p[2]) THEN Once(p[1], p[2]) ELSE p[1]) \in Searches(N)
      <4>1. p[1] \in Searches(N) /\ p[2] \in N
        OBVIOUS
      <4> HIDE DEF Once, Reached
      <4> QED
        BY <2>3, <4>1 DEF Back
    <3> HIDE DEF Once, Reached
    <3> QED
      BY <3>1
  <2>5. ASSUME NEW s \in Searches(N), NEW i \in N, Reached(s, i), Deeper(s, i),
               NEW t \in Back(N, Inside(s, i)), NEW d \in N
        PROVE  v[<<t, d>>] = G(F \ {i})[<<t, d>>]
    <3> DEFINE T == F \ {i}
               w == G(T)
               U == F \ {d}
               z == G(U)
    <3>1. i \in F /\ <<t, d>> \in Open(N, T) /\ t \in Searches(N) /\ w[<<t, d>>] = VisitOnce(depends, w, t, d)
      BY <2>2, <2>5
    <3>2. Reached(t, d)
      BY <3>1 DEF Open
    <3>3. v[<<t, d>>] = VisitOnce(depends, G(F \ {d}), t, d)
      BY <3>1, <3>2
    <3>4. ASSUME Deeper(t, d), NEW u \in Back(N, Inside(t, d)), NEW e \in N
          PROVE  /\ G(F \ {d})[<<u, e>>] \in Back(N, u)
                 /\ w[<<u, e>>] = G(F \ {d})[<<u, e>>]
      <4>1. d \in F /\ G(F \ {d})[<<u, e>>] \in Back(N, u)
        BY <2>2, <3>1, <3>2, <3>4
      <4>2. d \in T /\ <<u, e>> \in Open(N, T \ {d})
        BY <3>1, <3>4, GoesOn DEF Deeper
      <4>3. SolvedOn(depends, F \ {d}, G(F \ {d})) /\ SolvedOn(depends, T, w)
        BY <2>1, <3>1, <4>1
      <4>4. (F \ {d}) \cap T = T \ {d}
        OBVIOUS
      <4>5. T \in SUBSET N /\ F \ {d} \in SUBSET N
        OBVIOUS
      <4>6. \A p \in Open(N, U \cap T) : w[p] = z[p]
        <5>1. SolvedOn(depends, U, z) /\ SolvedOn(depends, T, w) /\ U \in SUBSET N /\ T \in SUBSET N
          BY <4>3, <4>5
        <5> HIDE DEF w, T, U, z
        <5> QED
          BY <5>1, SolutionsAgree
      <4>7. w[<<u, e>>] = G(F \ {d})[<<u, e>>]
        BY <4>2, <4>4, <4>6
      <4> QED
        BY <4>1, <4>7
    <3>5. VisitOnce(depends, w, t, d) = VisitOnce(depends, G(F \ {d}), t, d)
      <4>1. AlikeBelow(N, t, d, z, w)
        BY <3>4 DEF AlikeBelow
      <4> HIDE DEF w, z, U, T
      <4>2. VisitOnce(depends, w, t, d) = VisitOnce(depends, z, t, d)
        BY <3>1, <4>1, OnceAgrees
      <4> QED
        BY <4>2 DEF z, U
    <3> QED
      BY <3>1, <3>3, <3>5
  <2>6. ASSUME NEW s \in Searches(N), NEW i \in N, Reached(s, i)
        PROVE  v[<<s, i>>] = VisitOnce(depends, v, s, i) /\ v[<<s, i>>] \in Back(N, s)
    <3> DEFINE w == G(F \ {i})
    <3>1. v[<<s, i>>] = VisitOnce(depends, w, s, i)
      BY <2>6
    <3>2. ASSUME Deeper(s, i), NEW t \in Back(N, Inside(s, i)), NEW d \in N
          PROVE  w[<<t, d>>] \in Back(N, t) /\ v[<<t, d>>] = w[<<t, d>>]
      <4> HIDE DEF v, Once, Reached
      <4> QED
        BY <2>2, <2>5, <2>6, <3>2
    <3> HIDE DEF v, w
    <3>3. VisitOnce(depends, v, s, i) = VisitOnce(depends, w, s, i) /\ VisitOnce(depends, w, s, i) \in Back(N, s)
      BY <3>2, OnceAgrees DEF AlikeBelow
    <3> QED
      BY <3>1, <3>3
  <2>7. \A p \in Open(N, F) : v[p] = VisitOnce(depends, v, p[1], p[2]) /\ v[p] \in Back(N, p[1])
    <3>1. \A p \in Open(N, F) : p = <<p[1], p[2]>> /\ p[1] \in Searches(N) /\ p[2] \in N
      BY DEF Open
    <3> HIDE DEF v
    <3> QED
      BY <2>6, <3>1
  <2> HIDE DEF v
  <2> QED
    BY <1>0, <2>4, <2>7 DEF SolvedOn
<1> HIDE DEF Q
<1>2. N \in Q
  BY <1>0, <1>1, SetInduction
<1> QED
  BY <1>2 DEF Q

\* The search obeys the equation it is written as.
LEMMA VisitSolves ==
  ASSUME NEW N, NEW depends \in Graphs(N)
  PROVE  \A s \in Searches(N), i \in N :
           Visit(depends)[<<s, i>>] = VisitOnce(depends, Visit(depends), s, i)
<1> DEFINE v == Visit(depends)
<1>1. PICK w : SolvedOn(depends, N, w)
  BY SolutionExists
<1>2. Visits(depends, w)
  <2>1. DOMAIN depends = N
    BY DEF Graphs
  <2>2. \A p \in Searches(N) \X N : p \in Open(N, N)
    BY DEF Open, Searches
  <2> QED
    BY <1>1, <2>1, <2>2 DEF Visits, SolvedOn
<1>3. Visits(depends, v)
  BY <1>2, VisitIs
<1>4. DOMAIN depends = N
  BY DEF Graphs
<1> HIDE DEF v
<1>5. \A s \in Searches(N), i \in N : v[<<s, i>>] = VisitOnce(depends, v, s, i)
  BY <1>3, <1>4 DEF Visits
<1> QED
  BY <1>5 DEF v

(***************************************************************************)
(* What the search finds.                                                  *)
(***************************************************************************)
\* What was visited depends on nothing else, and not on itself in a circle.
Ended(depends, V) ==
  /\ \A x \in V : depends[x] \subseteq V
  /\ \A some \in (SUBSET V) \ {{}} : \E id \in some : depends[id] \cap some = {}

Sound(depends, s) == s.visiting \cap s.visited = {} /\ Ended(depends, s.visited)

\* Every task the search is inside of depends on another one, or on the one it goes to.
Stack(depends, V, i) == \A x \in V : depends[x] \cap (V \cup {i}) # {}

\* No circle was met from s to r.
Passed(depends, s, r) ==
  /\ ~ s.cycle /\ r.visiting = s.visiting /\ s.visited \subseteq r.visited
  /\ Sound(depends, s) => Sound(depends, r)

\* What a visit of i finds.
Right(depends, s, i, r) ==
  /\ r \in Searches(DOMAIN depends)
  /\ ~ r.cycle => Passed(depends, s, r) /\ i \in r.visited
  /\ r.cycle => s.cycle \/ ~ WellFounded(depends) \/ ~ Stack(depends, s.visiting, i)

\* What visits of the tasks of D find.
After(depends, s, D) ==
  {r \in Searches(DOMAIN depends) :
     /\ ~ r.cycle => Passed(depends, s, r)
     /\ r.cycle => s.cycle \/ ~ WellFounded(depends) \/ \E d \in D : ~ Stack(depends, s.visiting, d)}

LEMMA EndedGrows ==
  ASSUME NEW N, NEW depends \in Graphs(N), NEW V \in SUBSET N, NEW i \in N,
         i \notin V, depends[i] \subseteq V, Ended(depends, V)
  PROVE  Ended(depends, V \cup {i})
<1>1. ASSUME NEW some \in (SUBSET (V \cup {i})) \ {{}}
      PROVE  \E id \in some : depends[id] \cap some = {}
  <2>1. CASE some \cap V = {}
    BY <1>1, <2>1
  <2>2. CASE some \cap V # {}
    <3>1. PICK id \in some \cap V : depends[id] \cap (some \cap V) = {}
      BY <2>2 DEF Ended
    <3>2. depends[id] \subseteq V
      BY <3>1 DEF Ended
    <3> QED
      BY <1>1, <3>1, <3>2
  <2> QED
    BY <2>1, <2>2
<1> QED
  BY <1>1 DEF Ended

\* One right visit after another is right.
LEMMA AllRight ==
  ASSUME NEW N, NEW depends \in Graphs(N), NEW base \in Searches(N), NEW v,
         NEW D \in SUBSET N, NEW seq, NEW n \in Nat, DOMAIN seq = 1..n,
         \A k \in DOMAIN seq : seq[k] \in D, \A d \in D : \E k \in DOMAIN seq : seq[k] = d,
         \A t \in After(depends, base, D), d \in D : Right(depends, t, d, v[<<t, d>>])
  PROVE  LET r == VisitAll(v, base, seq) IN
         r \in After(depends, base, D) /\ (~ r.cycle => D \subseteq r.visited)
<1> DEFINE P == After(depends, base, D)
<1>0. DOMAIN depends = N
  BY DEF Graphs
<1>1. base \in P
  BY <1>0 DEF After, Passed
<1>2. ASSUME NEW t \in P, NEW d \in D
      PROVE  LET r == v[<<t, d>>] IN
             r \in P /\ (~ r.cycle => ~ t.cycle /\ t.visited \subseteq r.visited /\ d \in r.visited)
  <2> DEFINE r == v[<<t, d>>]
  <2>1. Right(depends, t, d, r)
    OBVIOUS
  <2> HIDE DEF r
  <2>2. ~ r.cycle => Passed(depends, t, r) /\ d \in r.visited
    BY <2>1 DEF Right
  <2>3. ~ r.cycle => Passed(depends, base, r)
    BY <2>2 DEF After, Passed
  <2>4. r.cycle => base.cycle \/ ~ WellFounded(depends) \/ \E e \in D : ~ Stack(depends, base.visiting, e)
    <3>1. r.cycle => t.cycle \/ ~ WellFounded(depends) \/ ~ Stack(depends, t.visiting, d)
      BY <2>1 DEF Right
    <3>2. ~ t.cycle => t.visiting = base.visiting
      BY DEF After, Passed
    <3>3. t.cycle => base.cycle \/ ~ WellFounded(depends) \/ \E e \in D : ~ Stack(depends, base.visiting, e)
      BY DEF After
    <3> QED
      BY <3>1, <3>2, <3>3
  <2>5. r \in Searches(N)
    BY <1>0, <2>1 DEF Right
  <2>6. r \in P
    BY <1>0, <2>3, <2>4, <2>5 DEF After
  <2>7. ~ r.cycle => ~ t.cycle /\ t.visited \subseteq r.visited /\ d \in r.visited
    BY <2>2 DEF Passed
  <2> QED
    BY <2>6, <2>7 DEF r
<1> HIDE DEF P
<1>3. StaysIn(v, seq, n, P)
  BY <1>2 DEF StaysIn
<1>4. VisitAll(v, base, seq) \in P
  BY <1>1, <1>3, VisitAllStays
<1>5. \A t \in P, k \in DOMAIN seq :
        LET r == v[<<t, seq[k]>>] IN
        /\ r \in P
        /\ ~ r.cycle => ~ t.cycle /\ t.visited \subseteq r.visited /\ seq[k] \in r.visited
  BY <1>2
<1>6. LET r == VisitAll(v, base, seq) IN ~ r.cycle => \A k \in DOMAIN seq : seq[k] \in r.visited
  BY <1>1, <1>5, VisitAllVisits
<1> QED
  BY <1>4, <1>6 DEF P

\* i is left behind.
Finished(t, i) == [t EXCEPT !.visiting = @ \ {i}, !.visited = @ \cup {i}]

LEMMA FinishedIs ==
  ASSUME NEW N, NEW t \in Searches(N), NEW i \in N
  PROVE  /\ Finished(t, i) \in Searches(N) /\ Finished(t, i).cycle = t.cycle
         /\ Finished(t, i).visiting = t.visiting \ {i} /\ Finished(t, i).visited = t.visited \cup {i}
  BY DEF Finished, Searches

\* The search from anywhere.
LEMMA SearchRight ==
  ASSUME NEW N, NEW depends \in Graphs(N)
  PROVE  \A s \in Searches(N), i \in N : Right(depends, s, i, Visit(depends)[<<s, i>>])
<1> DEFINE v == Visit(depends)
           Q == {T \in SUBSET N : \A s \in Searches(N), i \in N :
                   <<s, i>> \in Open(N, T) => Right(depends, s, i, v[<<s, i>>])}
<1>0. DOMAIN depends = N /\ IsFiniteSet(N) /\ \A i \in N : depends[i] \in SUBSET N
  BY DEF Graphs
<1>1. \A s \in Searches(N), i \in N : v[<<s, i>>] = VisitOnce(depends, v, s, i)
  BY VisitSolves
<1> HIDE DEF v
<1>2. ASSUME NEW T \in SUBSET N, \A x \in T : T \ {x} \in Q
      PROVE  T \in Q
  <2>1. ASSUME NEW s \in Searches(N), NEW i \in N, <<s, i>> \in Open(N, T)
        PROVE  Right(depends, s, i, v[<<s, i>>])
    <3> DEFINE r == v[<<s, i>>]
               base == Inside(s, i)
               D == depends[i]
               seq == SetToSeq(D)
               n == Cardinality(D)
               below == VisitAll(v, base, seq)
    <3>0. r = VisitOnce(depends, v, s, i) /\ s.visiting \in SUBSET N /\ s.visited \in SUBSET N /\ s.cycle \in BOOLEAN
      BY <1>1 DEF Searches
    <3>1. CASE s.cycle
      <4>1. r = [s EXCEPT !.cycle = TRUE]
        BY <3>0, <3>1 DEF VisitOnce
      <4> QED
        BY <1>0, <3>0, <3>1, <4>1 DEF Right, Searches
    <3>2. CASE ~ s.cycle /\ i \in s.visiting
      <4>1. r = [s EXCEPT !.cycle = TRUE]
        BY <3>0, <3>2 DEF VisitOnce
      <4>2. Stack(depends, s.visiting, i) => ~ WellFounded(depends)
        <5>1. s.visiting \cup {i} = s.visiting /\ s.visiting \in (SUBSET DOMAIN depends) \ {{}}
          BY <1>0, <3>0, <3>2
        <5> QED
          BY <5>1 DEF Stack, WellFounded
      <4> QED
        BY <1>0, <3>0, <4>1, <4>2 DEF Right, Searches
    <3>3. CASE ~ s.cycle /\ i \notin s.visiting /\ i \in s.visited
      <4>1. r = s
        BY <3>0, <3>3 DEF VisitOnce
      <4> QED
        BY <1>0, <3>3, <4>1 DEF Right, Passed
    <3>4. CASE Deeper(s, i)
      <4>0. ~ s.cycle /\ i \notin s.visiting /\ i \notin s.visited
        BY <3>4 DEF Deeper
      <4>1. /\ base \in Searches(N) /\ base.cycle = s.cycle
            /\ base.visiting = s.visiting \cup {i} /\ base.visited = s.visited
        BY InsideIs
      <4>2. i \in T /\ \A t \in Back(N, base), d \in N : <<t, d>> \in Open(N, T \ {i})
        BY <2>1, <4>0, GoesOn
      <4>3. r = Finished(below, i)
        BY <3>0, <4>0 DEF VisitOnce, Inside, Finished
      <4>4. /\ n \in Nat /\ DOMAIN seq = 1..n /\ D \in SUBSET N
            /\ \A k \in DOMAIN seq : seq[k] \in D
            /\ \A d \in D : \E k \in DOMAIN seq : seq[k] = d
        BY <1>0, DependsSeq
      <4> HIDE DEF base, D, seq, n
      <4>5. ASSUME NEW t \in After(depends, base, D), NEW d \in D
            PROVE  Right(depends, t, d, v[<<t, d>>])
        <5>1. t \in Back(N, base) /\ t \in Searches(N)
          BY <1>0 DEF After, Passed, Back
        <5>2. <<t, d>> \in Open(N, T \ {i}) /\ d \in N
          BY <4>2, <4>4, <5>1
        <5> QED
          BY <1>2, <4>2, <5>1, <5>2
      <4>6. below \in After(depends, base, D) /\ (~ below.cycle => D \subseteq below.visited)
        BY <4>1, <4>4, <4>5, AllRight
      <4> HIDE DEF below
      <4>7. below \in Searches(N)
        BY <1>0, <4>6 DEF After
      <4>8. /\ r \in Searches(N) /\ r.cycle = below.cycle
            /\ r.visiting = below.visiting \ {i} /\ r.visited = below.visited \cup {i}
        <5>1. /\ Finished(below, i) \in Searches(N) /\ Finished(below, i).cycle = below.cycle
              /\ Finished(below, i).visiting = below.visiting \ {i}
              /\ Finished(below, i).visited = below.visited \cup {i}
          BY <4>7, FinishedIs
        <5> HIDE DEF r
        <5> QED
          BY <4>3, <5>1, Zenon
      <4> HIDE DEF r
      <4>9. ASSUME ~ r.cycle PROVE Passed(depends, s, r) /\ i \in r.visited
        <5>1. Passed(depends, base, below) /\ D \subseteq below.visited
          BY <4>6, <4>8, <4>9 DEF After
        <5>2. r.visiting = s.visiting /\ s.visited \subseteq r.visited /\ i \in r.visited
          BY <4>0, <4>1, <4>8, <5>1 DEF Passed
        <5>3. ASSUME Sound(depends, s) PROVE Sound(depends, r)
          <6>1. Sound(depends, base)
            BY <4>0, <4>1, <5>3 DEF Sound
          <6>2. Sound(depends, below)
            BY <5>1, <6>1 DEF Passed
          <6>3. i \notin below.visited /\ Ended(depends, below.visited) /\ below.visited \in SUBSET N
            BY <4>1, <4>7, <5>1, <6>2 DEF Sound, Passed, Searches
          <6>4. Ended(depends, below.visited \cup {i})
            BY <5>1, <6>3, EndedGrows DEF D
          <6>5. r.visiting \cap r.visited = {}
            BY <4>1, <4>8, <5>1, <6>2 DEF Sound, Passed
          <6> QED
            BY <4>8, <6>4, <6>5 DEF Sound
        <5> QED
          BY <4>0, <5>2, <5>3 DEF Passed
      <4>10. ASSUME r.cycle, WellFounded(depends) PROVE ~ Stack(depends, s.visiting, i)
        <5>1. PICK d \in D : ~ Stack(depends, base.visiting, d)
          BY <4>0, <4>1, <4>6, <4>8, <4>10 DEF After
        <5>2. d \in depends[i]
          BY DEF D
        <5> QED
          BY <4>1, <5>1, <5>2 DEF Stack
      <4> QED
        BY <1>0, <4>8, <4>9, <4>10 DEF Right, r
    <3> QED
      BY <3>0, <3>1, <3>2, <3>3, <3>4 DEF Deeper
  <2> QED
    BY <2>1
<1> HIDE DEF Q
<1>3. N \in Q
  BY <1>0, <1>2, SetInduction
<1>4. \A s \in Searches(N), i \in N : <<s, i>> \in Open(N, N)
  BY DEF Open, Searches
<1> QED
  BY <1>3, <1>4 DEF Q, v

\* The depth-first search finds a circle exactly where there is one, whatever depends on what
\* (_validate_dependencies).
THEOREM CirclesAreFound ==
  ASSUME NEW N, NEW depends \in Graphs(N)
  PROVE  HasCycle(depends) <=> ~ WellFounded(depends)
<1> DEFINE base == [cycle |-> FALSE, visiting |-> {}, visited |-> {}]
           seq == SetToSeq(N)
           n == Cardinality(N)
           v == Visit(depends)
           r == VisitAll(v, base, seq)
<1>0. DOMAIN depends = N /\ IsFiniteSet(N)
  BY DEF Graphs
<1>1. base \in Searches(N) /\ ~ base.cycle /\ base.visiting = {} /\ Sound(depends, base)
  BY DEF Searches, Sound, Ended
<1>2. HasCycle(depends) <=> r.cycle
  BY <1>0, SearchIs DEF HasCycle
<1>3. /\ n \in Nat /\ DOMAIN seq = 1..n
      /\ \A k \in DOMAIN seq : seq[k] \in N
      /\ \A d \in N : \E k \in DOMAIN seq : seq[k] = d
  BY <1>0, SeqOfSet
<1> HIDE DEF base, seq, n, v
<1>4. \A t \in After(depends, base, N), d \in N : Right(depends, t, d, v[<<t, d>>])
  <2>1. \A t \in After(depends, base, N) : t \in Searches(N)
    BY <1>0 DEF After
  <2> QED
    BY <2>1, SearchRight DEF v
<1>5. r \in After(depends, base, N) /\ (~ r.cycle => N \subseteq r.visited)
  <2>1. N \in SUBSET N
    OBVIOUS
  <2> QED
    BY <1>1, <1>3, <1>4, <2>1, AllRight
<1> HIDE DEF r
<1>6. ASSUME ~ r.cycle PROVE WellFounded(depends)
  <2>1. Sound(depends, r) /\ N \subseteq r.visited /\ r.visited \subseteq N
    BY <1>0, <1>1, <1>5, <1>6 DEF After, Passed, Searches
  <2>2. r.visited = N
    BY <2>1
  <2> QED
    BY <1>0, <2>1, <2>2 DEF Sound, Ended, WellFounded
<1>7. ASSUME r.cycle PROVE ~ WellFounded(depends)
  <2>1. \A d \in N : Stack(depends, base.visiting, d)
    BY <1>1 DEF Stack
  <2> QED
    BY <1>1, <1>5, <1>7, <2>1 DEF After
<1> QED
  BY <1>2, <1>6, <1>7

(***************************************************************************)
(* A plan that was accepted can be worked off and written again.           *)
(***************************************************************************)
\* What a model may write as a plan: no content twice, what is done says so, and nothing that is
\* still to do does; no task depends on itself or on a number ID_PATTERN does not read.
Fair(todos) ==
  /\ \A m, n \in DOMAIN todos : todos[m].content = todos[n].content => m = n
  /\ \A n \in DOMAIN todos :
       /\ todos[n].status = "completed" => todos[n].summary
       /\ todos[n].status \notin {"completed", "blocked"} => ~ todos[n].summary
       /\ \A d \in todos[n].depends : d <= LastId /\ d # todos[n].id

Active(todos) == {n \in DOMAIN todos : todos[n].status = "in_progress"}

SoundPlan(todos) ==
  /\ Len(todos) <= MaxItems /\ Fair(todos)
  /\ Cardinality(Active(todos)) <= 1 /\ DependenciesHold(todos)

PlanSoundInv == PlanInv /\ SoundPlan(plan)

\* What the claim of an item comes to.
LEMMA SummaryIs ==
  ASSUME NEW item, item.summary \in BOOLEAN, NEW prior, SummaryAllowed(item, prior)
  PROVE  /\ item.status = "completed" => SummaryOf(item, prior)
         /\ item.status \notin {"completed", "blocked"} => ~ SummaryOf(item, prior)
<1>1. CASE item.status = "completed"
  BY <1>1 DEF SummaryAllowed
<1>2. CASE item.status = "blocked"
  BY <1>2
<1>3. CASE item.status \notin {"completed", "blocked"}
  <2>1. ~ item.summary
    BY <1>3 DEF SummaryAllowed
  <2> QED
    BY <1>3, <2>1 DEF SummaryOf
<1> QED
  BY <1>1, <1>2, <1>3

\* An accepted item is one more task, and a fair one.
LEMMA AcceptIsFair ==
  ASSUME NEW previous \in Seq(Todo), NEW first \in Nat, \A id \in Ids(previous) : id < first,
         NEW state \in Kept(previous, first), NEW item, Readable(item), Accept(state, item, previous).ok
  PROVE  LET made == Accept(state, item, previous) IN
         /\ state.ok /\ Len(made.todos) = Len(state.todos) + 1
         /\ Fair(state.todos) => Fair(made.todos)
<1> DEFINE wanted == Identity(item, previous, Ids(state.todos))
           id     == IF wanted = None THEN state.next ELSE wanted
           prior  == IF wanted \in Ids(previous) THEN ById(previous, wanted) ELSE None
           sound  == /\ item.content \notin {state.todos[n].content : n \in DOMAIN state.todos}
                     /\ item.id # None => item.id <= LastId /\ item.id \in Ids(previous)
                     /\ wanted \notin Ids(state.todos)
                     /\ SummaryAllowed(item, prior)
                     /\ \A d \in DependsOf(item, prior) : d <= LastId /\ d # id
           todo   == [id |-> id, content |-> item.content, status |-> item.status,
                      summary |-> SummaryOf(item, prior), depends |-> DependsOf(item, prior)]
           next   == IF wanted = None THEN state.next + 1 ELSE state.next
           made   == Accept(state, item, previous)
<1>1. state \in States /\ state.todos \in Seq(Todo)
  BY DEF Kept, States
<1>2. made = IF ~ state.ok \/ ~ sound THEN [state EXCEPT !.ok = FALSE]
             ELSE [ok |-> TRUE, next |-> next, todos |-> Append(state.todos, todo)]
  BY DEF Accept
<1>3. made \in Kept(previous, first)
  BY AcceptKeeps
<1>4. state.ok /\ sound
  <2> HIDE DEF sound
  <2>1. SUFFICES ASSUME ~ state.ok \/ ~ sound PROVE FALSE
    OBVIOUS
  <2>2. made = [state EXCEPT !.ok = FALSE]
    BY <1>2, <2>1
  <2>3. made.ok = FALSE
    BY <1>1, <2>2 DEF States
  <2> QED
    BY <2>3
<1>5. made.todos = Append(state.todos, todo) /\ made.todos \in Seq(Todo)
  BY <1>2, <1>3, <1>4 DEF Kept, States
<1> DEFINE todos == made.todos
<1>6. /\ todo.content = item.content /\ todo.content \notin {state.todos[n].content : n \in DOMAIN state.todos}
      /\ todo.status = "completed" => todo.summary
      /\ todo.status \notin {"completed", "blocked"} => ~ todo.summary
      /\ \A d \in todo.depends : d <= LastId /\ d # todo.id
  <2>1. item.summary \in BOOLEAN /\ SummaryAllowed(item, prior)
    BY <1>4 DEF Readable
  <2> HIDE DEF prior
  <2>2. /\ item.status = "completed" => SummaryOf(item, prior)
        /\ item.status \notin {"completed", "blocked"} => ~ SummaryOf(item, prior)
    BY <2>1, SummaryIs
  <2> HIDE DEF id
  <2> QED
    BY <1>4, <2>2
<1> HIDE DEF todo, made
<1>7. /\ DOMAIN todos = 1..Len(todos) /\ DOMAIN state.todos = 1..Len(state.todos)
      /\ Len(state.todos) \in Nat /\ Len(todos) = Len(state.todos) + 1
      /\ \A n \in DOMAIN state.todos : todos[n] = state.todos[n]
      /\ todos[Len(state.todos) + 1] = todo
  <2>1. DOMAIN state.todos = 1..Len(state.todos) /\ Len(state.todos) \in Nat
    BY <1>1, Indices
  <2>2. DOMAIN todos = 1..Len(todos)
    BY <1>5, Indices
  <2>3. /\ Len(todos) = Len(state.todos) + 1
        /\ \A n \in 1..Len(state.todos) : todos[n] = state.todos[n]
        /\ todos[Len(state.todos) + 1] = todo
    <3>1. /\ Len(Append(state.todos, todo)) = Len(state.todos) + 1
          /\ \A n \in 1..Len(state.todos) : Append(state.todos, todo)[n] = state.todos[n]
          /\ Append(state.todos, todo)[Len(state.todos) + 1] = todo
      <4> DEFINE T == Todo \cup {todo}
      <4>1. state.todos \in Seq(T) /\ todo \in T
        BY <1>1
      <4> HIDE DEF T
      <4> QED
        BY <4>1, AppendProperties
    <3> QED
      BY <1>5, <3>1
  <2> QED
    BY <2>1, <2>2, <2>3
<1>8. ASSUME Fair(state.todos) PROVE Fair(todos)
  <2> DEFINE last == Len(state.todos) + 1
  <2>1. \A k \in DOMAIN todos : k # last => k \in DOMAIN state.todos
    BY <1>7
  <2> HIDE DEF todos
  <2>2. ASSUME NEW m \in DOMAIN todos, NEW n \in DOMAIN todos, todos[m].content = todos[n].content
        PROVE  m = n
    <3>1. CASE m # last /\ n # last
      BY <1>7, <1>8, <2>1, <2>2, <3>1 DEF Fair
    <3>2. CASE m = last \/ n = last
      BY <1>6, <1>7, <2>1, <2>2, <3>2
    <3> QED
      BY <3>1, <3>2
  <2>3. ASSUME NEW n \in DOMAIN todos
        PROVE  /\ todos[n].status = "completed" => todos[n].summary
               /\ todos[n].status \notin {"completed", "blocked"} => ~ todos[n].summary
               /\ \A d \in todos[n].depends : d <= LastId /\ d # todos[n].id
    <3>1. CASE n # last
      BY <1>7, <1>8, <2>1, <3>1 DEF Fair
    <3>2. CASE n = last
      BY <1>6, <1>7, <3>2
    <3> QED
      BY <3>1, <3>2
  <2> QED
    BY <2>2, <2>3 DEF Fair
<1> QED
  BY <1>4, <1>7, <1>8 DEF made

\* An accepted plan is sound.
LEMMA UpdateIsSound ==
  ASSUME NEW items, Written(items), NEW previous \in Seq(Todo), NEW next \in Nat,
         \A id \in Ids(previous) : id < next, PlanUpdate(items, previous, next).ok
  PROVE  SoundPlan(PlanUpdate(items, previous, next).todos)
<1> DEFINE N    == Len(items)
           made == Candidate(items, previous, next)
           R    == [k \in 0..N |-> {state \in States : state.ok =>
                      N <= MaxItems /\ Len(state.todos) = k /\ Fair(state.todos)}]
<1>1. N \in Nat /\ DOMAIN items = 1..N /\ \A n \in DOMAIN items : Readable(items[n])
  BY DEF Written
<1>2. Start(items, previous, next) \in R[0]
  <2>1. FirstFree(previous, next) \in Nat
    BY FirstFreeIsNew
  <2>2. <<>> \in Seq(Todo) /\ Len(<<>>) = 0 /\ Fair(<<>>)
    BY DEF Fair
  <2>3. Start(items, previous, next) \in States
    BY <1>1, <2>1, <2>2, PlanAssumption DEF Start, States, PlanAssumption
  <2> HIDE DEF N
  <2>4. R[0] = {state \in States : state.ok => N <= MaxItems /\ Len(state.todos) = 0 /\ Fair(state.todos)}
    BY <1>1
  <2> QED
    BY <2>2, <2>3, <2>4 DEF Start, N
<1>3. ASSUME NEW k \in 1..N, NEW state \in R[k - 1] \cap Kept(previous, next)
      PROVE  Accept(state, items[k], previous) \in R[k]
  <2> DEFINE more == Accept(state, items[k], previous)
  <2>1. Readable(items[k])
    BY <1>1
  <2>2. more \in States
    BY <2>1, AcceptKeeps DEF Kept
  <2>3. k \in 0..N /\ k - 1 \in 0..N
    BY <1>1
  <2>4. ASSUME more.ok PROVE N <= MaxItems /\ Len(more.todos) = k /\ Fair(more.todos)
    <3>1. state.ok /\ Len(more.todos) = Len(state.todos) + 1 /\ (Fair(state.todos) => Fair(more.todos))
      BY <2>1, <2>4, AcceptIsFair
    <3> HIDE DEF more, N
    <3>2. N <= MaxItems /\ Len(state.todos) = k - 1 /\ Fair(state.todos)
      BY <2>3, <3>1
    <3> QED
      BY <2>3, <3>1, <3>2
  <2> HIDE DEF more, N
  <2> QED
    BY <2>2, <2>3, <2>4 DEF more
<1> HIDE DEF R
<1>4. made \in R[N]
  BY <1>2, <1>3, CandidateLeads DEF Leads
<1>5. made.ok => N <= MaxItems /\ Len(made.todos) = N /\ Fair(made.todos)
  <2> HIDE DEF N, made
  <2> QED
    BY <1>1, <1>4 DEF R
<1>6. /\ made.ok /\ DependenciesHold(made.todos)
      /\ Cardinality({n \in DOMAIN made.todos : made.todos[n].status = "in_progress"}) <= 1
      /\ PlanUpdate(items, previous, next).todos = made.todos
  BY UpdateIs
<1> HIDE DEF made
<1> QED
  BY <1>5, <1>6 DEF SoundPlan, Active

\* The first number that is free is the next, when every task of the plan has an older one.
LEMMA NextIsFree ==
  ASSUME NEW previous \in Seq(Todo), NEW next \in Nat, \A id \in Ids(previous) : id < next
  PROVE  FirstFree(previous, next) = next
<1> DEFINE S == DOMAIN previous
           g == [s \in SUBSET S |-> next]
<1>1. ASSUME NEW s \in SUBSET S, s # {} PROVE Higher(next, previous[Max(s)]) = next
  <2>1. S \in SUBSET Int /\ IsFiniteSet(S) /\ \A n \in S : previous[n] \in Todo
    BY Indices
  <2>2. Max(s) \in S
    BY <1>1, <2>1, LastIndex
  <2>3. previous[Max(s)].id < next /\ previous[Max(s)].id \in Nat
    BY <2>1, <2>2 DEF Ids, Todo
  <2> QED
    BY <2>3 DEF Higher
<1>2. HighestIs(previous, next, g)
  <2>1. ASSUME NEW s \in SUBSET S
        PROVE  g[s] = IF s = {} THEN next ELSE Higher(g[s \ {Max(s)}], previous[Max(s)])
    <3>1. g[s] = next /\ g[s \ {Max(s)}] = next
      OBVIOUS
    <3> HIDE DEF g
    <3> QED
      BY <1>1, <3>1
  <2> QED
    BY <2>1 DEF HighestIs
<1> DEFINE f == CHOOSE f : HighestIs(previous, next, f)
<1>3. HighestIs(previous, next, f)
  BY <1>2
<1> HIDE DEF f
<1> DEFINE V == {next}
<1>4. f[{}] \in V /\ \A s \in (SUBSET S) \ {{}} : f[s \ {Max(s)}] \in V => f[s] \in V
  <2>1. f[{}] = next
    BY <1>3 DEF HighestIs
  <2>2. ASSUME NEW s \in (SUBSET S) \ {{}}, f[s \ {Max(s)}] = next PROVE f[s] = next
    <3>1. f[s] = Higher(f[s \ {Max(s)}], previous[Max(s)])
      BY <1>3 DEF HighestIs
    <3> QED
      BY <1>1, <2>2, <3>1
  <2> QED
    BY <2>1, <2>2
<1>5. f[S] \in V
  <2>1. S \in SUBSET Int /\ IsFiniteSet(S)
    BY Indices
  <2> HIDE DEF S, V
  <2> QED
    BY <1>4, <2>1, FoldStays
<1> QED
  BY <1>5, FirstFreeIs DEF f

\* What a plan is when it is written as it was shown: all but what the model may leave out.
Echoes(todos, id, summary, depends) == [n \in DOMAIN todos |-> Echo(todos[n], id, summary, depends)]

\* A todo's record is what its fields are.
LEMMA TodoIs ==
  ASSUME NEW todo \in Todo
  PROVE  /\ todo = [id |-> todo.id, content |-> todo.content, status |-> todo.status,
                    summary |-> todo.summary, depends |-> todo.depends]
         /\ todo.id \in Nat /\ todo.summary \in BOOLEAN /\ todo.depends \in SUBSET Nat
         /\ todo.content \in {i.content : i \in Items} /\ todo.status \in {i.status : i \in Items}
         /\ todo # None /\ todo.id # None
  BY PlanAssumption DEF Todo, PlanAssumption

LEMMA EchoesAreWritten ==
  ASSUME NEW todos \in Seq(Todo), NEW id \in BOOLEAN, NEW summary \in BOOLEAN, NEW depends \in BOOLEAN
  PROVE  Written(Echoes(todos, id, summary, depends)) /\ Len(Echoes(todos, id, summary, depends)) = Len(todos)
<1> DEFINE items == Echoes(todos, id, summary, depends)
           E == {items[n] : n \in DOMAIN todos}
<1>1. DOMAIN todos = 1..Len(todos) /\ Len(todos) \in Nat /\ \A n \in DOMAIN todos : todos[n] \in Todo
  BY Indices
<1>2. ASSUME NEW n \in DOMAIN todos PROVE Readable(items[n])
  <2>1. items[n] = Echo(todos[n], id, summary, depends)
    BY <1>2 DEF Echoes
  <2> DEFINE todo == todos[n]
  <2>2. todo \in Todo
    BY <1>1
  <2> HIDE DEF todo
  <2>3. /\ Echo(todo, id, summary, depends).content = todo.content
        /\ Echo(todo, id, summary, depends).status = todo.status
        /\ Echo(todo, id, summary, depends).summary \in BOOLEAN
        /\ Echo(todo, id, summary, depends).depends \in {todo.depends, None}
    BY DEF Echo
  <2>4. Readable(Echo(todo, id, summary, depends))
    BY <2>2, <2>3, TodoIs DEF Readable
  <2> QED
    BY <2>1, <2>4 DEF todo
<1>3. items \in [1..Len(todos) -> E]
  BY <1>1 DEF Echoes
<1> HIDE DEF items, E
<1>4. items \in Seq(E)
  BY <1>1, <1>3
<1>5. Len(items) = Len(todos) /\ DOMAIN items = 1..Len(todos)
  BY <1>1, <1>3, <1>4, LenProperties
<1> QED
  BY <1>1, <1>2, <1>5 DEF Written, items

\* An item that repeats a task of the plan, after those before it, is that task again.
LEMMA EchoIsTheTask ==
  ASSUME NEW todos \in Seq(Todo), Distinct(todos), Fair(todos), NEW next \in Nat,
         NEW k \in DOMAIN todos, NEW state \in States, state.ok, state.next = next,
         Len(state.todos) = k - 1, \A m \in 1..(k - 1) : state.todos[m] = todos[m],
         NEW id \in BOOLEAN, NEW summary \in BOOLEAN, NEW depends \in BOOLEAN,
         id => todos[k].id <= LastId
  PROVE  Accept(state, Echo(todos[k], id, summary, depends), todos)
           = [ok |-> TRUE, next |-> next, todos |-> Append(state.todos, todos[k])]
<1> DEFINE todo   == todos[k]
           item   == Echo(todo, id, summary, depends)
           wanted == Identity(item, todos, Ids(state.todos))
           prior  == IF wanted \in Ids(todos) THEN ById(todos, wanted) ELSE None
           number == IF wanted = None THEN state.next ELSE wanted
           sound  == /\ item.content \notin {state.todos[n].content : n \in DOMAIN state.todos}
                     /\ item.id # None => item.id <= LastId /\ item.id \in Ids(todos)
                     /\ wanted \notin Ids(state.todos)
                     /\ SummaryAllowed(item, prior)
                     /\ \A d \in DependsOf(item, prior) : d <= LastId /\ d # number
<1>1. /\ DOMAIN todos = 1..Len(todos) /\ Len(todos) \in Nat /\ todo \in Todo
      /\ state.todos \in Seq(Todo)
  BY Indices DEF States
<1>2. DOMAIN state.todos = 1..(k - 1) /\ k \in Nat /\ 1..(k - 1) \subseteq DOMAIN todos /\ k \notin 1..(k - 1)
  BY <1>1, Indices
<1>3. /\ item.id = (IF id THEN todo.id ELSE None) /\ item.content = todo.content
      /\ item.status = todo.status /\ item.summary = (todo.summary /\ (summary \/ todo.status # "completed"))
      /\ item.depends = (IF depends THEN todo.depends ELSE None)
  BY DEF Echo
<1>4. /\ todo.id \in Nat /\ todo.id # None /\ todo # None /\ todo.summary \in BOOLEAN
      /\ todo = [id |-> todo.id, content |-> todo.content, status |-> todo.status,
                 summary |-> todo.summary, depends |-> todo.depends]
  BY <1>1, TodoIs
<1>5. todo.id \notin Ids(state.todos) /\ todo.id \in Ids(todos)
  BY <1>2 DEF Ids, Distinct
<1>6. todo.content \notin {state.todos[n].content : n \in DOMAIN state.todos}
  BY <1>2 DEF Fair
<1> HIDE DEF item
<1>7. wanted = todo.id
  <2>1. CASE id
    BY <1>3, <1>4, <2>1 DEF Identity
  <2>2. CASE ~ id
    <3> DEFINE same == {n \in DOMAIN todos : todos[n].content = item.content /\ todos[n].id \notin Ids(state.todos)}
    <3>1. same = {k}
      BY <1>3, <1>5 DEF Fair
    <3>2. wanted = IF same = {} THEN None ELSE todos[CHOOSE n \in same : \A m \in same : n <= m].id
      BY <1>3, <2>2 DEF Identity
    <3> HIDE DEF same
    <3>3. (CHOOSE n \in same : \A m \in same : n <= m) = k
      BY <1>2, <3>1
    <3> QED
      BY <3>1, <3>2, <3>3
  <2> QED
    BY <2>1, <2>2
<1>8. prior = todo
  <2>1. \A n \in DOMAIN todos : todos[n].id = todo.id => n = k
    BY DEF Distinct
  <2>2. ById(todos, todo.id) = todo
    BY <2>1 DEF ById
  <2> QED
    BY <1>5, <1>7, <2>2
<1> HIDE DEF todo
<1>9. SummaryOf(item, todo) = todo.summary /\ SummaryAllowed(item, todo)
  <2>1. /\ todo.status = "completed" => todo.summary
        /\ todo.status \notin {"completed", "blocked"} => ~ todo.summary
    BY DEF Fair, todo
  <2>2. CASE todo.status = "completed"
    BY <1>3, <1>4, <2>1, <2>2 DEF SummaryOf, SummaryAllowed
  <2>3. CASE todo.status # "completed"
    <3>1. SummaryOf(item, todo) = todo.summary /\ item.summary = todo.summary
      BY <1>3, <1>4, <2>3 DEF SummaryOf
    <3> QED
      BY <1>3, <2>1, <2>3, <3>1 DEF SummaryAllowed
  <2> QED
    BY <2>2, <2>3
<1>10. DependsOf(item, todo) = todo.depends /\ \A d \in todo.depends : d <= LastId /\ d # todo.id
  <2>1. \A d \in todo.depends : d <= LastId /\ d # todo.id
    BY DEF Fair, todo
  <2> QED
    BY <1>3, <1>4, <2>1 DEF DependsOf
<1>11. number = todo.id
  BY <1>4, <1>7
<1>12. sound
  <2>1. item.id # None => item.id <= LastId /\ item.id \in Ids(todos)
    BY <1>3, <1>5 DEF todo
  <2> HIDE DEF number, wanted, prior
  <2> QED
    BY <1>3, <1>5, <1>6, <1>7, <1>8, <1>9, <1>10, <1>11, <2>1
<1>13. Accept(state, item, todos) =
         IF ~ state.ok \/ ~ sound THEN [state EXCEPT !.ok = FALSE]
         ELSE [ok   |-> TRUE,
               next |-> IF wanted = None THEN state.next + 1 ELSE state.next,
               todos |-> Append(state.todos, [id |-> number, content |-> item.content, status |-> item.status,
                                              summary |-> SummaryOf(item, prior),
                                              depends |-> DependsOf(item, prior)])]
  BY DEF Accept
<1> HIDE DEF sound, wanted, number, prior
<1>14. [id |-> number, content |-> item.content, status |-> item.status,
        summary |-> SummaryOf(item, prior), depends |-> DependsOf(item, prior)] = todo
  BY <1>3, <1>4, <1>8, <1>9, <1>10, <1>11
<1>15. Accept(state, item, todos) = [ok |-> TRUE, next |-> next, todos |-> Append(state.todos, todo)]
  BY <1>4, <1>7, <1>12, <1>13, <1>14
<1> QED
  BY <1>15 DEF item, todo

\* A sound plan that is written again is accepted and changes nothing.
LEMMA EchoOfSoundPlan ==
  ASSUME NEW todos \in Seq(Todo), Distinct(todos), SoundPlan(todos), NEW next \in Nat,
         \A i \in Ids(todos) : i < next,
         NEW id \in BOOLEAN, NEW summary \in BOOLEAN, NEW depends \in BOOLEAN,
         id => \A n \in DOMAIN todos : todos[n].id <= LastId
  PROVE  PlanUpdate(Echoes(todos, id, summary, depends), todos, next) = [ok |-> TRUE, next |-> next, todos |-> todos]
<1> DEFINE items == Echoes(todos, id, summary, depends)
           N     == Len(todos)
           made  == Candidate(items, todos, next)
           R     == [k \in 0..N |-> {state \in States :
                       /\ state.ok /\ state.next = next /\ Len(state.todos) = k
                       /\ \A m \in 1..k : state.todos[m] = todos[m]}]
<1>1. N \in Nat /\ DOMAIN todos = 1..N /\ Written(items) /\ Len(items) = N
  BY Indices, EchoesAreWritten
<1>2. \A k \in 1..N : items[k] = Echo(todos[k], id, summary, depends)
  BY <1>1 DEF Echoes
<1> HIDE DEF items
<1>3. Start(items, todos, next) \in R[0]
  <2>1. Start(items, todos, next) = [ok |-> N <= MaxItems, next |-> next, todos |-> <<>>]
    BY <1>1, NextIsFree DEF Start
  <2>2. N <= MaxItems
    BY DEF SoundPlan
  <2>3. Start(items, todos, next) = [ok |-> TRUE, next |-> next, todos |-> <<>>]
    BY <2>1, <2>2
  <2>4. <<>> \in Seq(Todo) /\ Len(<<>>) = 0
    OBVIOUS
  <2> HIDE DEF N
  <2>5. R[0] = {state \in States : /\ state.ok /\ state.next = next /\ Len(state.todos) = 0
                                  /\ \A m \in 1..0 : state.todos[m] = todos[m]}
    BY <1>1
  <2> HIDE DEF R
  <2> QED
    BY <2>3, <2>4, <2>5 DEF States
<1>4. ASSUME NEW k \in 1..N, NEW state \in R[k - 1] \cap Kept(todos, next)
      PROVE  Accept(state, items[k], todos) \in R[k]
  <2>1. k \in 0..N /\ k - 1 \in 0..N /\ k \in DOMAIN todos /\ k \in Nat
    BY <1>1
  <2> HIDE DEF N
  <2>2. /\ state \in States /\ state.ok /\ state.next = next /\ Len(state.todos) = k - 1
        /\ \A m \in 1..(k - 1) : state.todos[m] = todos[m]
    BY <2>1
  <2> HIDE DEF R
  <2>3. Accept(state, items[k], todos) = [ok |-> TRUE, next |-> next, todos |-> Append(state.todos, todos[k])]
    <3>1. Fair(todos) /\ (id => todos[k].id <= LastId) /\ items[k] = Echo(todos[k], id, summary, depends)
      BY <1>2, <2>1 DEF SoundPlan
    <3> QED
      BY <2>1, <2>2, <3>1, EchoIsTheTask
  <2> DEFINE more == Append(state.todos, todos[k])
  <2>4. todos[k] \in Todo /\ state.todos \in Seq(Todo)
    BY <2>1, <2>2, Indices DEF States
  <2>5. /\ more \in Seq(Todo) /\ Len(more) = k
        /\ \A m \in 1..(k - 1) : more[m] = todos[m]
        /\ more[k] = todos[k]
    <3>1. /\ more \in Seq(Todo) /\ Len(more) = Len(state.todos) + 1
          /\ \A m \in 1..Len(state.todos) : more[m] = state.todos[m]
          /\ more[Len(state.todos) + 1] = todos[k]
      BY <2>4, AppendProperties
    <3> HIDE DEF more
    <3> QED
      BY <2>1, <2>2, <3>1
  <2> HIDE DEF more
  <2>6. \A m \in 1..k : more[m] = todos[m]
    BY <2>1, <2>5
  <2>7. [ok |-> TRUE, next |-> next, todos |-> more] \in
          {s \in States : /\ s.ok /\ s.next = next /\ Len(s.todos) = k
                          /\ \A m \in 1..k : s.todos[m] = todos[m]}
    BY <2>5, <2>6 DEF States
  <2> QED
    BY <2>1, <2>3, <2>7 DEF R, more
<1> HIDE DEF R
<1>5. made \in R[N]
  BY <1>1, <1>3, <1>4, CandidateLeads DEF Leads
<1>6. made = [ok |-> TRUE, next |-> next, todos |-> todos]
  <2> HIDE DEF made, N
  <2>1. /\ made \in States /\ made.ok /\ made.next = next /\ Len(made.todos) = N
        /\ \A m \in 1..N : made.todos[m] = todos[m]
    BY <1>1, <1>5 DEF R
  <2>2. made.todos = todos
    <3>1. made.todos \in Seq(Todo) /\ Len(made.todos) = Len(todos)
      BY <2>1 DEF States, N
    <3> QED
      BY <1>1, <2>1, <3>1, SeqEqual
  <2> QED
    BY <2>1, <2>2 DEF States
<1> HIDE DEF made
<1>7. PlanUpdate(items, todos, next) =
        IF made.ok /\ Cardinality(Active(made.todos)) <= 1 THEN [made EXCEPT !.ok = DependenciesHold(made.todos)]
        ELSE [made EXCEPT !.ok = FALSE]
  BY DEF PlanUpdate, Active, made
<1>8. made.ok /\ made.todos = todos /\ Cardinality(Active(todos)) <= 1 /\ DependenciesHold(todos)
  BY <1>6 DEF SoundPlan
<1> DEFINE holds == DependenciesHold(made.todos)
<1>9. PlanUpdate(items, todos, next) = [made EXCEPT !.ok = holds] /\ holds
  BY <1>7, <1>8
<1> HIDE DEF holds
<1> QED
  BY <1>6, <1>8, <1>9 DEF items, holds

\* A sound plan can be worked off: where the search finds no circle there is none.
LEMMA SoundPlanEnds ==
  ASSUME NEW todos \in Seq(Todo), DependenciesHold(todos)
  PROVE  LET depends == [id \in Ids(todos) |-> ById(todos, id).depends] IN
         /\ UNION {depends[id] : id \in Ids(todos)} \subseteq Ids(todos)
         /\ WellFounded(depends)
         /\ \A id \in Ids(todos) : ById(todos, id).status \in {"in_progress", "completed"} =>
              \A d \in depends[id] : ById(todos, d).status = "completed"
<1> DEFINE N == Ids(todos)
           depends == [id \in N |-> ById(todos, id).depends]
<1>1. ASSUME NEW id \in N PROVE \E n \in DOMAIN todos : ById(todos, id) = todos[n]
  <2>1. \E n \in DOMAIN todos : todos[n].id = id
    BY DEF Ids
  <2> QED
    BY <2>1 DEF ById
<1>2. ASSUME NEW id \in N PROVE depends[id] \subseteq N
  BY <1>1 DEF DependenciesHold
<1>3. IsFiniteSet(N)
  <2> DEFINE f == [n \in DOMAIN todos |-> todos[n].id]
  <2>1. IsFiniteSet(DOMAIN todos)
    BY Indices
  <2>2. f \in Surjection(DOMAIN todos, N)
    BY DEF Ids, Surjection
  <2> HIDE DEF N, f
  <2> QED
    BY <2>1, <2>2, FS_Surjection
<1>4. depends \in Graphs(N)
  <2>1. depends \in [N -> SUBSET N]
    BY <1>2
  <2> HIDE DEF N, depends
  <2> QED
    BY <1>3, <2>1 DEF Graphs
<1>5. ~ HasCycle(depends)
  BY DEF DependenciesHold
<1>6. WellFounded(depends)
  <2> HIDE DEF N, depends
  <2> QED
    BY <1>4, <1>5, CirclesAreFound
<1>7. ASSUME NEW id \in N, ById(todos, id).status \in {"in_progress", "completed"}, NEW d \in depends[id]
      PROVE  ById(todos, d).status = "completed"
  BY <1>1, <1>7 DEF DependenciesHold
<1>8. UNION {depends[id] : id \in N} \subseteq N
  <2> HIDE DEF N, depends
  <2> QED
    BY <1>2
<1> QED
  BY <1>6, <1>7, <1>8

(***************************************************************************)
(* Every plan is sound.                                                    *)
(***************************************************************************)
LEMMA PlanSoundStep == PlanSoundInv /\ [PlanNext]_planVars => PlanSoundInv'
<1> SUFFICES ASSUME PlanSoundInv, [PlanNext]_planVars PROVE PlanSoundInv'
  OBVIOUS
<1>1. PlanInv /\ PlanInv'
  BY PlanStep DEF PlanSoundInv
<1>2. CASE UNCHANGED plan
  <2>1. SoundPlan(plan)' = SoundPlan(plan)
    BY <1>2 DEF SoundPlan, Fair, Active, DependenciesHold, Ids, ById
  <2> QED
    BY <1>1, <2>1 DEF PlanSoundInv
<1>3. ASSUME NEW n \in 0..MaxItems, NEW items \in [1..n -> Items], WritePlan(items)
      PROVE  PlanSoundInv'
  <2>1. items \in Seq(Items)
    BY PlanAssumption DEF PlanAssumption
  <2>2. Written(items)
    BY <2>1, ItemsAreWritten
  <2>3. plan \in Seq(Todo) /\ nextTask \in Nat /\ \A id \in Ids(plan) : id < nextTask
    BY <1>1 DEF PlanInv
  <2>4. PlanUpdate(items, plan, nextTask).ok /\ plan' = PlanUpdate(items, plan, nextTask).todos
    BY <1>3 DEF WritePlan
  <2>5. SoundPlan(plan')
    BY <2>2, <2>3, <2>4, UpdateIsSound
  <2>6. SoundPlan(plan)' = SoundPlan(plan')
    BY DEF SoundPlan, Fair, Active, DependenciesHold, Ids, ById
  <2> QED
    BY <1>1, <2>5, <2>6 DEF PlanSoundInv
<1> QED
  BY <1>2, <1>3 DEF PlanNext, RecordResult, planVars

\* The empty plan is one.
LEMMA NoPlanIsSound == ASSUME NEW todos, todos = <<>> PROVE SoundPlan(todos)
<1> DEFINE none == [id \in Ids(todos) |-> ById(todos, id).depends]
<1>1. DOMAIN todos = {} /\ Len(todos) = 0
  OBVIOUS
<1>2. Ids(todos) = {} /\ Active(todos) = {} /\ Cardinality(Active(todos)) = 0
  BY <1>1, FS_EmptySet DEF Ids, Active
<1>3. none \in Graphs({}) /\ WellFounded(none)
  BY <1>2, FS_EmptySet DEF Graphs, WellFounded
<1>4. ~ HasCycle(none)
  <2> HIDE DEF none
  <2> QED
    BY <1>3, CirclesAreFound
<1>5. DependenciesHold(todos)
  BY <1>1, <1>4 DEF DependenciesHold
<1>6. Fair(todos)
  BY <1>1 DEF Fair
<1>7. 0 <= MaxItems
  BY PlanAssumption DEF PlanAssumption
<1> QED
  BY <1>1, <1>2, <1>5, <1>6, <1>7 DEF SoundPlan

\* The plan a Session keeps can be worked off, in whatever order its dependencies allow, and written
\* again as the model was shown it, for every number of items and plans (plan_update,
\* _validate_dependencies).
THEOREM PlansStaySound == PlanSpec => []PlansAreSound
<1>1. PlanInit => PlanSoundInv
  BY PlanStarts, NoPlanIsSound DEF PlanSoundInv, PlanInit
<1>2. PlanSoundInv => PlansAreSound
  <2> SUFFICES ASSUME PlanSoundInv PROVE PlansAreSound
    OBVIOUS
  <2>1. plan \in Seq(Todo) /\ Distinct(plan) /\ nextTask \in Nat /\ (\A i \in Ids(plan) : i < nextTask) /\ SoundPlan(plan)
    BY DEF PlanSoundInv, PlanInv
  <2>2. PlansCanBeWorkedOff
    <3>1. DependenciesHold(plan)
      BY <2>1 DEF SoundPlan
    <3> QED
      BY <2>1, <3>1, SoundPlanEnds DEF PlansCanBeWorkedOff
  <2>3. EchoIsAccepted
    <3>1. ASSUME NEW id \in BOOLEAN, NEW summary \in BOOLEAN, NEW depends \in BOOLEAN,
                 id => \A n \in DOMAIN plan : plan[n].id <= LastId
          PROVE  PlanUpdate(Echoes(plan, id, summary, depends), plan, nextTask)
                   = [ok |-> TRUE, next |-> nextTask, todos |-> plan]
      BY <2>1, <3>1, EchoOfSoundPlan
    <3> QED
      BY <3>1 DEF EchoIsAccepted, Echoes
  <2> QED
    BY <2>2, <2>3 DEF PlansAreSound
<1> QED
  BY <1>1, <1>2, PlanSoundStep, PTL DEF PlanSpec

(***************************************************************************)
(* Summaries: sums of sizes.                                               *)
(***************************************************************************)
\* One more number at the end of a sequence.
LEMMA SumAppend ==
  ASSUME NEW s \in Seq(Nat), NEW x \in Nat
  PROVE  /\ SumFunction(s) \in Nat /\ SumFunction(<<>>) = 0 /\ SumFunction(<<x>>) = x
         /\ SumFunction(Append(s, x)) = SumFunction(s) + x
<1>1. ASSUME NEW t \in Seq(Nat)
      PROVE  SumFunction(t) \in Nat /\ SumFunction(Append(t, x)) = SumFunction(t) + x
  <2> DEFINE u == Append(t, x)
             last == Len(t) + 1
  <2>1. /\ Len(t) \in Nat /\ DOMAIN t = 1..Len(t) /\ IsFiniteSet(DOMAIN t) /\ \A k \in DOMAIN t : t[k] \in Nat
    BY Indices
  <2>2. /\ DOMAIN u = 1..last /\ u[last] = x /\ \A k \in DOMAIN t : u[k] = t[k]
    BY <2>1, AppendProperties, Indices
  <2> DEFINE M == 1..last
  <2>3. /\ IsFiniteSet(M) /\ last \in M /\ M \ {last} = DOMAIN t
        /\ \A k \in M : u[k] \in Int
    <3>1. \A k \in M : k = last \/ k \in DOMAIN t
      BY <2>1
    <3>2. last \in M /\ M \ {last} = DOMAIN t /\ last \in Int
      BY <2>1
    <3>3. \A k \in M : u[k] \in Int
      <4> HIDE DEF u, M, last
      <4> QED
        BY <2>1, <2>2, <3>1
    <3>4. IsFiniteSet(M)
      <4> HIDE DEF last
      <4> QED
        BY <3>2, FS_Interval
    <3> QED
      BY <3>2, <3>3, <3>4
  <2>4. SumFunctionOnSet(u, M) = u[last] + SumFunctionOnSet(u, DOMAIN t)
    <3> HIDE DEF u, last, M
    <3>0. IsFiniteSet(M) /\ last \in M /\ \A y \in M : u[y] \in Int
      BY <2>3
    <3>1. SumFunctionOnSet(u, M) = u[last] + SumFunctionOnSet(u, M \ {last})
      BY <3>0, SumOneMore
    <3>2. SumFunctionOnSet(u, M \ {last}) = SumFunctionOnSet(u, DOMAIN t)
      BY <2>3
    <3> QED
      BY <3>1, <3>2
  <2> HIDE DEF u, last
  <2>5. SumFunctionOnSet(u, DOMAIN t) = SumFunctionOnSet(t, DOMAIN t)
    BY <2>1, <2>2, SumAgrees
  <2>6. SumFunctionOnSet(t, DOMAIN t) \in Nat
    BY <2>1, SumNat
  <2> QED
    BY <2>2, <2>4, <2>5, <2>6 DEF SumFunction, u
<1>2. SumFunction(<<>>) = 0
  <2>1. DOMAIN <<>> = {}
    OBVIOUS
  <2> QED
    BY <2>1, SumEmpty DEF SumFunction
<1>3. SumFunction(<<x>>) = x
  <2>1. SumFunction(Append(<<>>, x)) = SumFunction(<<>>) + x
    <3>1. <<>> \in Seq(Nat)
      OBVIOUS
    <3> QED
      BY <1>1, <3>1
  <2>2. Append(<<>>, x) = <<x>>
    OBVIOUS
  <2>3. SumFunction(Append(<<>>, x)) = SumFunction(<<x>>)
    BY <2>2
  <2> QED
    BY <1>2, <2>1, <2>3
<1> QED
  BY <1>1, <1>2, <1>3

(***************************************************************************)
(* What a projection holds.                                                *)
(***************************************************************************)
EventSet   == [kind : {"user", "response", "result", "end"}, calls : Nat, size : Nat]
MessageSet == [kind : {"user", "response", "results", "summary"}, at : Nat, sizes : Seq(Nat)]
ReadStates == [messages : Seq(MessageSet), pending : Nat, results : Seq(Nat)]

\* How long the messages are with the results that wait for others.
Length(state) == SizeOf(state.messages) + SumFunction(state.results)

\* One more message at the end.
LEMMA SizeAppend ==
  ASSUME NEW messages \in Seq(MessageSet), NEW m \in MessageSet
  PROVE  /\ SizeOf(messages) \in Nat /\ SizeOf(<<>>) = 0
         /\ SizeOf(Append(messages, m)) = SizeOf(messages) + SumFunction(m.sizes)
<1> DEFINE sizes(ms) == [k \in DOMAIN ms |-> SumFunction(ms[k].sizes)]
<1>1. ASSUME NEW ms \in Seq(MessageSet) PROVE sizes(ms) \in Seq(Nat) /\ Len(sizes(ms)) = Len(ms)
  <2>1. DOMAIN ms = 1..Len(ms) /\ Len(ms) \in Nat /\ \A k \in DOMAIN ms : ms[k] \in MessageSet
    BY Indices
  <2>2. \A k \in DOMAIN ms : SumFunction(ms[k].sizes) \in Nat
    <3>1. ASSUME NEW k \in DOMAIN ms PROVE ms[k].sizes \in Seq(Nat)
      BY <2>1 DEF MessageSet
    <3> QED
      BY <3>1, SumAppend
  <2> QED
    BY <2>1, <2>2
<1> DEFINE more == Append(messages, m)
<1>2. /\ more \in Seq(MessageSet) /\ Len(more) = Len(messages) + 1 /\ more[Len(messages) + 1] = m
      /\ \A k \in 1..Len(messages) : more[k] = messages[k]
  BY AppendProperties
<1>3. DOMAIN messages = 1..Len(messages) /\ Len(messages) \in Nat /\ DOMAIN more = 1..(Len(messages) + 1)
  BY <1>2, Indices
<1>4. SumFunction(m.sizes) \in Nat
  BY SumAppend DEF MessageSet
<1>5. sizes(more) = Append(sizes(messages), SumFunction(m.sizes))
  <2> DEFINE a == sizes(messages)
             x == SumFunction(m.sizes)
  <2>1. a \in Seq(Nat) /\ Len(a) = Len(messages) /\ x \in Nat
    BY <1>1, <1>4
  <2>2. /\ \A k \in 1..Len(messages) : sizes(more)[k] = a[k]
        /\ sizes(more)[Len(messages) + 1] = x
        /\ sizes(more) \in Seq(Nat) /\ Len(sizes(more)) = Len(messages) + 1
    <3>1. sizes(more) \in Seq(Nat) /\ Len(sizes(more)) = Len(messages) + 1
      <4> HIDE DEF sizes, more
      <4> QED
        BY <1>1, <1>2
    <3>2. sizes(more)[Len(messages) + 1] = x
      <4> HIDE DEF more
      <4> QED
        BY <1>2, <1>3
    <3>3. \A k \in 1..Len(messages) : sizes(more)[k] = a[k]
      <4> HIDE DEF more
      <4> QED
        BY <1>2, <1>3
    <3> QED
      BY <3>1, <3>2, <3>3
  <2> HIDE DEF a, x, sizes, more
  <2>3. /\ Append(a, x) \in Seq(Nat) /\ Len(Append(a, x)) = Len(a) + 1
        /\ \A k \in 1..Len(a) : Append(a, x)[k] = a[k]
        /\ Append(a, x)[Len(a) + 1] = x
    BY <2>1, AppendProperties
  <2>4. \A k \in 1..(Len(messages) + 1) : sizes(more)[k] = Append(a, x)[k]
    BY <1>3, <2>1, <2>2, <2>3
  <2>5. sizes(more) = Append(a, x)
    BY <1>3, <2>1, <2>2, <2>3, <2>4, SeqEqual
  <2> QED
    BY <2>5 DEF a, x
<1>6. /\ SumFunction(sizes(messages)) \in Nat
      /\ SumFunction(Append(sizes(messages), SumFunction(m.sizes)))
           = SumFunction(sizes(messages)) + SumFunction(m.sizes)
  BY <1>1, <1>4, SumAppend
<1>7. SumFunction(sizes(<<>>)) = 0
  <2>1. sizes(<<>>) = <<>>
    OBVIOUS
  <2>2. SumFunction(<<>>) = 0
    BY <1>1, <1>4, SumAppend
  <2> QED
    BY <2>1, <2>2
<1>8. /\ SizeOf(messages) = SumFunction(sizes(messages)) /\ SizeOf(<<>>) = SumFunction(sizes(<<>>))
      /\ SizeOf(more) = SumFunction(sizes(more))
  BY DEF SizeOf
<1>9. SumFunction(sizes(more)) = SumFunction(Append(sizes(messages), SumFunction(m.sizes)))
  BY <1>5
<1> HIDE DEF sizes
<1> QED
  BY <1>6, <1>7, <1>8, <1>9

\* Reading an event adds no more than its size.
LEMMA ReadAdds ==
  ASSUME events \in Seq(EventSet), NEW state \in ReadStates, NEW i \in DOMAIN events
  PROVE  /\ Read(state, i) \in ReadStates
         /\ Length(state) \in Nat /\ Length(Read(state, i)) \in Nat
         /\ Length(Read(state, i)) <= Length(state) + events[i].size
<1> DEFINE e == events[i]
<1>1. e \in EventSet /\ i \in Nat /\ e.size \in Nat /\ e.calls \in Nat
  <2>1. e \in EventSet /\ i \in Nat
    BY Indices
  <2> QED
    BY <2>1 DEF EventSet
<1>2. /\ state.messages \in Seq(MessageSet) /\ state.pending \in Nat /\ state.results \in Seq(Nat)
      /\ state = [messages |-> state.messages, pending |-> state.pending, results |-> state.results]
  BY DEF ReadStates
<1>3. SizeOf(state.messages) \in Nat /\ SumFunction(state.results) \in Nat /\ Length(state) \in Nat
  <2>1. SumFunction(state.results) \in Nat
    BY <1>1, <1>2, SumAppend
  <2>2. ASSUME NEW m \in MessageSet PROVE SizeOf(state.messages) \in Nat
    BY <1>2, SizeAppend
  <2>3. [kind |-> "user", at |-> 0, sizes |-> <<>>] \in MessageSet
    BY DEF MessageSet
  <2> QED
    BY <2>1, <2>2, <2>3 DEF Length
<1>4. ASSUME NEW kind \in {"user", "response", "results"}, NEW sizes \in Seq(Nat)
      PROVE  LET ms == Append(state.messages, Message(kind, i, sizes)) IN
             ms \in Seq(MessageSet) /\ SizeOf(ms) = SizeOf(state.messages) + SumFunction(sizes)
  <2>1. Message(kind, i, sizes) \in MessageSet /\ Message(kind, i, sizes).sizes = sizes
    BY <1>1 DEF Message, MessageSet
  <2>2. SizeOf(Append(state.messages, Message(kind, i, sizes)))
          = SizeOf(state.messages) + SumFunction(Message(kind, i, sizes).sizes)
    BY <1>2, <2>1, SizeAppend
  <2> QED
    BY <1>2, <2>1, <2>2, AppendProperties
<1> HIDE DEF e
<1>5. CASE e.kind \in {"user", "response"}
  <2> DEFINE ms == Append(state.messages, Message(e.kind, i, <<e.size>>))
             new == [messages |-> ms, pending |-> IF e.kind = "response" THEN e.calls ELSE state.pending,
                     results |-> state.results]
  <2>1. Read(state, i) = new
    BY <1>2, <1>5 DEF Read, e
  <2>2. ms \in Seq(MessageSet) /\ SizeOf(ms) = SizeOf(state.messages) + e.size
    <3>1. <<e.size>> \in Seq(Nat) /\ SumFunction(<<e.size>>) = e.size
      BY <1>1, <1>2, SumAppend
    <3> QED
      BY <1>4, <1>5, <3>1
  <2> HIDE DEF ms
  <2>3. new \in ReadStates /\ Length(new) = Length(state) + e.size
    BY <1>1, <1>2, <1>3, <2>2 DEF ReadStates, Length
  <2> QED
    BY <1>1, <1>3, <2>1, <2>3 DEF e
<1>6. CASE e.kind = "result" /\ state.pending = 1
  <2> DEFINE ms == Append(state.messages, Message("results", i, Append(state.results, e.size)))
             new == [messages |-> ms, pending |-> 0, results |-> <<>>]
  <2>1. Read(state, i) = new
    BY <1>6 DEF Read, e
  <2>2. ms \in Seq(MessageSet) /\ SizeOf(ms) = SizeOf(state.messages) + SumFunction(state.results) + e.size
    <3>1. /\ Append(state.results, e.size) \in Seq(Nat)
          /\ SumFunction(Append(state.results, e.size)) = SumFunction(state.results) + e.size
      BY <1>1, <1>2, SumAppend, AppendProperties
    <3>2. SizeOf(ms) = SizeOf(state.messages) + SumFunction(Append(state.results, e.size)) /\ ms \in Seq(MessageSet)
      BY <1>4, <3>1
    <3> HIDE DEF ms
    <3> QED
      BY <1>1, <1>3, <3>1, <3>2
  <2>3. SumFunction(<<>>) = 0
    BY <1>1, <1>2, SumAppend
  <2> HIDE DEF ms
  <2>4. new \in ReadStates /\ Length(new) = Length(state) + e.size
    BY <1>1, <1>2, <1>3, <2>2, <2>3 DEF ReadStates, Length
  <2> QED
    BY <1>1, <1>3, <2>1, <2>4 DEF e
<1>7. CASE e.kind = "result" /\ state.pending > 1
  <2> DEFINE rs == Append(state.results, e.size)
             new == [messages |-> state.messages, pending |-> state.pending - 1, results |-> rs]
  <2>1. Read(state, i) = new
    <3>1. Read(state, i) = [state EXCEPT !.pending = @ - 1, !.results = Append(@, e.size)]
      BY <1>2, <1>7 DEF Read, e
    <3> QED
      BY <1>2, <3>1
  <2>2. rs \in Seq(Nat) /\ SumFunction(rs) = SumFunction(state.results) + e.size
    BY <1>1, <1>2, SumAppend, AppendProperties
  <2> HIDE DEF rs
  <2>3. new \in ReadStates /\ Length(new) = Length(state) + e.size
    BY <1>1, <1>2, <1>3, <1>7, <2>2 DEF ReadStates, Length
  <2> QED
    BY <1>1, <1>3, <2>1, <2>3 DEF e
<1>8. CASE ~ (e.kind \in {"user", "response"}) /\ ~ (e.kind = "result" /\ state.pending = 1)
           /\ ~ (e.kind = "result" /\ state.pending > 1)
  <2>1. Read(state, i) = state
    BY <1>8 DEF Read, e
  <2> QED
    BY <1>1, <1>3, <2>1 DEF e
<1> QED
  BY <1>5, <1>6, <1>7, <1>8

Sizes(log) == [n \in DOMAIN log |-> log[n].size]
Gained(log, a, b) == SumFunctionOnSet(Sizes(log), (a + 1)..b)

Nothing == [messages |-> <<>>, pending |-> 0, results |-> <<>>]
Places(from, to) == [n \in 1..(to - from) |-> from + n]

ProjectedIs(from, to, g) ==
  g = [s \in SUBSET DOMAIN Places(from, to) |->
         IF s = {} THEN Nothing ELSE Read(g[s \ {Max(s)}], Places(from, to)[Max(s)])]

LEMMA ProjectIs ==
  ASSUME NEW from, NEW to
  PROVE  Project(from, to) = (CHOOSE g : ProjectedIs(from, to, g))[DOMAIN Places(from, to)]
  BY Zenon DEF Project, FoldLeft, MapThenFoldSet, ProjectedIs, Nothing, Places

\* The sizes of a part of the log sum to a number.
LEMMA GainedType ==
  ASSUME NEW log \in Seq(EventSet), NEW a \in Nat, NEW b \in Nat, b <= Len(log)
  PROVE  /\ Gained(log, a, b) \in Nat
         /\ IsFiniteSet((a + 1)..b) /\ \A n \in (a + 1)..b : n \in DOMAIN log /\ Sizes(log)[n] \in Nat
<1>1. IsFiniteSet((a + 1)..b)
  BY FS_Interval
<1>2. \A n \in (a + 1)..b : n \in DOMAIN log /\ log[n] \in EventSet
  BY Indices
<1>3. \A n \in (a + 1)..b : Sizes(log)[n] \in Nat
  BY <1>2 DEF Sizes, EventSet
<1> DEFINE S == (a + 1)..b
<1>4. IsFiniteSet(S) /\ \A y \in S : Sizes(log)[y] \in Nat
  BY <1>1, <1>3
<1> HIDE DEF S
<1>5. SumFunctionOnSet(Sizes(log), S) \in Nat
  BY <1>4, SumNat
<1> QED
  BY <1>1, <1>2, <1>3, <1>5 DEF Gained, S

\* The fold over the events has a solution.
LEMMA ProjectSolves ==
  ASSUME events \in Seq(EventSet), NEW from \in Nat, NEW to \in Nat, from <= to, to <= Len(events)
  PROVE  /\ \E g : ProjectedIs(from, to, g)
         /\ LET S == 1..(to - from) IN
            /\ S \in SUBSET Int /\ IsFiniteSet(S) /\ DOMAIN Places(from, to) = S
            /\ \A i \in S : Places(from, to)[i] = from + i /\ from + i \in DOMAIN events
         /\ Nothing \in ReadStates /\ Length(Nothing) = 0
<1> DEFINE S == 1..(to - from)
           h == [p \in (SUBSET S) \X ReadStates |->
                   IF p[1] = {} THEN Nothing ELSE Read(p[2], from + Max(p[1]))]
<1>1. /\ S \in SUBSET Int /\ IsFiniteSet(S) /\ DOMAIN Places(from, to) = S
      /\ \A i \in S : Places(from, to)[i] = from + i /\ from + i \in DOMAIN events
  <2>1. to - from \in Nat /\ DOMAIN events = 1..Len(events) /\ Len(events) \in Nat
    BY Indices
  <2>2. S \in SUBSET Int /\ DOMAIN Places(from, to) = S
    BY <2>1 DEF Places
  <2>3. IsFiniteSet(S)
    <3> DEFINE n == to - from
    <3>1. n \in Int /\ 1 \in Int
      OBVIOUS
    <3> HIDE DEF n
    <3>2. IsFiniteSet(1..n)
      BY <3>1, FS_Interval
    <3> QED
      BY <3>2 DEF n
  <2>4. \A i \in S : Places(from, to)[i] = from + i /\ from + i \in DOMAIN events
    BY <2>1 DEF Places
  <2> QED
    BY <2>2, <2>3, <2>4
<1> HIDE DEF S
<1>3. Nothing \in ReadStates /\ Length(Nothing) = 0
  <2>1. Nothing \in ReadStates
    BY DEF Nothing, ReadStates
  <2>2. SumFunction(<<>>) = 0
    <3>1. <<>> \in Seq(Nat) /\ 0 \in Nat
      OBVIOUS
    <3> QED
      BY <3>1, SumAppend
  <2>3. SizeOf(<<>>) = 0
    <3>1. Message("user", 0, <<>>) \in MessageSet /\ <<>> \in Seq(MessageSet)
      BY DEF Message, MessageSet
    <3> QED
      BY <3>1, SizeAppend
  <2> QED
    BY <2>1, <2>2, <2>3 DEF Nothing, Length
<1>4. ASSUME NEW s \in SUBSET S, s # {}
      PROVE  Max(s) \in s /\ from + Max(s) \in DOMAIN events /\ Places(from, to)[Max(s)] = from + Max(s)
  BY <1>1, <1>4, LastIndex
<1>5. h \in [(SUBSET S) \X ReadStates -> ReadStates]
  <2>1. ASSUME NEW s \in SUBSET S, NEW v \in ReadStates, s # {} PROVE Read(v, from + Max(s)) \in ReadStates
    BY <1>4, <2>1, ReadAdds
  <2> HIDE DEF S
  <2> QED
    BY <1>3, <2>1
<1>6. \E g : ProjectedIs(from, to, g)
  <2>1. PICK g : Folds(h, Nothing, ReadStates, S, g)
    <3> HIDE DEF h
    <3> QED
      BY <1>1, <1>3, <1>5, FoldsExist
  <2>2. ASSUME NEW s \in SUBSET S
        PROVE  g[s] = IF s = {} THEN Nothing ELSE Read(g[s \ {Max(s)}], Places(from, to)[Max(s)])
    <3>1. g[s] = (IF s = {} THEN Nothing ELSE h[<<s, g[s \ {Max(s)}]>>]) /\ g[s \ {Max(s)}] \in ReadStates
      <4> HIDE DEF h
      <4> QED
        BY <2>1 DEF Folds
    <3> QED
      BY <1>4, <3>1
  <2>3. g \in [SUBSET S -> ReadStates]
    BY <2>1 DEF Folds
  <2>4. ProjectedIs(from, to, g)
    BY <1>1, <2>2, <2>3 DEF ProjectedIs
  <2> QED
    BY <2>4
<1> QED
  BY <1>1, <1>3, <1>6 DEF S

\* A projection is well formed, and no longer than the events it was made of.
LEMMA ProjectFits ==
  ASSUME events \in Seq(EventSet), NEW from \in Nat, NEW to \in Nat, from <= to, to <= Len(events)
  PROVE  /\ Project(from, to) \in ReadStates
         /\ SizeOf(Project(from, to).messages) \in Nat
         /\ SizeOf(Project(from, to).messages) <= Gained(events, from, to)
<1> DEFINE S == 1..(to - from)
           w == [i \in S |-> Sizes(events)[from + i]]
<1>1. /\ S \in SUBSET Int /\ IsFiniteSet(S) /\ DOMAIN Places(from, to) = S
      /\ \A i \in S : Places(from, to)[i] = from + i /\ from + i \in DOMAIN events
  BY ProjectSolves
<1>2. \A i \in S : w[i] = events[from + i].size /\ w[i] \in Nat
  <2>1. \A i \in S : events[from + i] \in EventSet
    BY <1>1, Indices
  <2> QED
    BY <1>1, <2>1 DEF Sizes, EventSet
<1> HIDE DEF S, w
<1>3. Nothing \in ReadStates /\ Length(Nothing) = 0
  BY ProjectSolves
<1>4. ASSUME NEW s \in SUBSET S, s # {}
      PROVE  Max(s) \in s /\ from + Max(s) \in DOMAIN events /\ Places(from, to)[Max(s)] = from + Max(s)
  BY <1>1, <1>4, LastIndex
<1>6. \E g : ProjectedIs(from, to, g)
  BY ProjectSolves
<1> DEFINE g == CHOOSE g : ProjectedIs(from, to, g)
<1>7. ProjectedIs(from, to, g)
  BY <1>6
<1> HIDE DEF g
<1> DEFINE Sum(s) == SumFunctionOnSet(w, s)
           Q == {s \in SUBSET S : g[s] \in ReadStates /\ Length(g[s]) \in Nat /\ Length(g[s]) <= Sum(s)}
<1>8. ASSUME NEW s \in SUBSET S, \A x \in s : s \ {x} \in Q
      PROVE  s \in Q
  <2>1. CASE s = {}
    <3>1. g[s] = Nothing
      BY <1>1, <1>7, <2>1 DEF ProjectedIs
    <3> QED
      BY <1>3, <2>1, <3>1, SumEmpty
  <2>2. CASE s # {}
    <3> DEFINE m == Max(s)
               t == s \ {m}
    <3>1. m \in s /\ from + m \in DOMAIN events /\ Places(from, to)[m] = from + m /\ w[m] = events[from + m].size
      BY <1>2, <1>4, <2>2
    <3>2. g[s] = Read(g[t], from + m)
      BY <1>1, <1>7, <2>2, <3>1 DEF ProjectedIs
    <3>3. g[t] \in ReadStates /\ Length(g[t]) \in Nat /\ Length(g[t]) <= Sum(t)
      BY <1>8, <3>1
    <3>4. Sum(s) = w[m] + Sum(t)
      <4>0. IsFiniteSet(s)
        BY <1>1, FS_Subset
      <4>1. IsFiniteSet(s) /\ \A y \in s : w[y] \in Int
        BY <1>2, <4>0
      <4> HIDE DEF m
      <4> QED
        BY <3>1, <4>1, SumOneMore
    <3>5. Sum(t) \in Int /\ w[m] \in Nat
      <4>0. IsFiniteSet(t)
        BY <1>1, FS_Subset
      <4>1. IsFiniteSet(t) /\ \A y \in t : w[y] \in Int
        BY <1>2, <4>0
      <4> HIDE DEF t
      <4> QED
        BY <1>2, <3>1, <4>1, SumType
    <3>6. /\ Read(g[t], from + m) \in ReadStates /\ Length(Read(g[t], from + m)) \in Nat
          /\ Length(Read(g[t], from + m)) <= Length(g[t]) + events[from + m].size
      BY <3>1, <3>3, ReadAdds
    <3>7. Length(g[s]) \in Nat /\ Length(g[s]) <= Sum(s)
      <4> HIDE DEF Sum, m, t
      <4> QED
        BY <3>1, <3>2, <3>3, <3>4, <3>5, <3>6
    <3> QED
      BY <3>2, <3>6, <3>7
  <2> QED
    BY <2>1, <2>2
<1> HIDE DEF Q
<1>9. S \in Q
  BY <1>1, <1>8, SetInduction
<1>10. Project(from, to) = g[S]
  BY <1>1, ProjectIs DEF g
<1>11. Sum(S) = Gained(events, from, to)
  <2>1. \A i \in S : w[i] \in Int /\ w[i] = Sizes(events)[from + i]
    BY <1>2 DEF w
  <2>2. /\ (from + 1)..to \in SUBSET Int
        /\ \A i \in S : from + i \in (from + 1)..to
        /\ \A y \in (from + 1)..to : y - from \in S
    BY DEF S
  <2>3. Shifted(w, S, Sizes(events), (from + 1)..to, from)
    BY <1>1, <2>1, <2>2 DEF Shifted
  <2> QED
    BY <2>3, SumShift DEF Gained
<1>12. g[S] \in ReadStates /\ Length(g[S]) <= Sum(S)
  BY <1>9 DEF Q
<1>13. /\ SizeOf(g[S].messages) \in Nat /\ SumFunction(g[S].results) \in Nat
       /\ Length(g[S]) = SizeOf(g[S].messages) + SumFunction(g[S].results)
  <2>1. g[S].messages \in Seq(MessageSet) /\ g[S].results \in Seq(Nat)
    BY <1>12 DEF ReadStates
  <2>2. Message("user", 0, <<>>) \in MessageSet /\ 0 \in Nat
    BY DEF Message, MessageSet
  <2> QED
    BY <2>1, <2>2, SizeAppend, SumAppend DEF Length
<1>14. Gained(events, from, to) \in Nat
  BY GainedType
<1> HIDE DEF Sum
<1> QED
  BY <1>10, <1>11, <1>12, <1>13, <1>14

(***************************************************************************)
(* What the log gains.                                                     *)
(***************************************************************************)
\* The log only grows.
Grows(log, more) ==
  /\ log \in Seq(EventSet) /\ more \in Seq(EventSet)
  /\ Len(log) <= Len(more) /\ \A n \in DOMAIN log : more[n] = log[n]

\* What a part of the log sums to is never changed again.
LEMMA GainedStays ==
  ASSUME NEW log, NEW more, Grows(log, more), NEW a \in Nat, NEW b \in Nat, b <= Len(log)
  PROVE  Gained(more, a, b) = Gained(log, a, b)
<1> DEFINE S == (a + 1)..b
<1>1. IsFiniteSet(S) /\ \A n \in S : n \in DOMAIN log
  BY GainedType DEF Grows
<1>2. DOMAIN log \subseteq DOMAIN more
  BY Indices DEF Grows
<1>3. \A n \in S : Sizes(more)[n] = Sizes(log)[n]
  BY <1>1, <1>2 DEF Grows, Sizes
<1> HIDE DEF S
<1>4. SumFunctionOnSet(Sizes(more), S) = SumFunctionOnSet(Sizes(log), S)
  BY <1>1, <1>3, SumAgrees
<1> QED
  BY <1>4 DEF Gained, S

\* What two parts that follow each other sum to together.
LEMMA GainedAdds ==
  ASSUME NEW log \in Seq(EventSet), NEW a \in Nat, NEW b \in Nat, NEW c \in Nat,
         a <= b, b <= c, c <= Len(log)
  PROVE  Gained(log, a, c) = Gained(log, a, b) + Gained(log, b, c)
<1> DEFINE S == (a + 1)..b
           T == (b + 1)..c
<1>1. IsFiniteSet(S) /\ \A n \in S : Sizes(log)[n] \in Nat
  <2>1. Len(log) \in Nat /\ b <= Len(log)
    BY Indices
  <2> QED
    BY <2>1, GainedType
<1>2. IsFiniteSet(T) /\ \A n \in T : Sizes(log)[n] \in Nat
  BY GainedType
<1>3. S \cap T = {} /\ S \cup T = (a + 1)..c
  OBVIOUS
<1>4. SumFunctionOnSet(Sizes(log), S \cup T) = SumFunctionOnSet(Sizes(log), (a + 1)..c)
  BY <1>3
<1> HIDE DEF S, T
<1>5. \A y \in S \cup T : Sizes(log)[y] \in Int
  BY <1>1, <1>2
<1>6. SumFunctionOnSet(Sizes(log), S \cup T) = SumFunctionOnSet(Sizes(log), S) + SumFunctionOnSet(Sizes(log), T)
  BY <1>1, <1>2, <1>3, <1>5, SumUnion
<1> QED
  BY <1>4, <1>6 DEF Gained, S, T

\* An event at the end.
LEMMA LogAppends ==
  ASSUME NEW log \in Seq(EventSet), NEW e \in EventSet
  PROVE  Grows(log, Append(log, e))
<1>1. /\ Append(log, e) \in Seq(EventSet) /\ Len(Append(log, e)) = Len(log) + 1
      /\ \A n \in 1..Len(log) : Append(log, e)[n] = log[n]
  BY AppendProperties
<1>2. DOMAIN log = 1..Len(log) /\ Len(log) \in Nat
  BY Indices
<1> QED
  BY <1>1, <1>2 DEF Grows

\* Several.
LEMMA LogConcats ==
  ASSUME NEW log \in Seq(EventSet), NEW tail \in Seq(EventSet)
  PROVE  Grows(log, log \o tail)
<1>1. /\ log \o tail \in Seq(EventSet) /\ Len(log \o tail) = Len(log) + Len(tail)
      /\ \A n \in 1..Len(log) : (log \o tail)[n] = log[n]
  BY ConcatProperties
<1>2. DOMAIN log = 1..Len(log) /\ Len(log) \in Nat /\ Len(tail) \in Nat
  BY Indices
<1> QED
  BY <1>1, <1>2 DEF Grows

(***************************************************************************)
(* Summaries are paid for once.                                            *)
(***************************************************************************)
Asked     == Models \cup {None}
ClaimSet  == [model : Asked, covered : Nat, history : Seq(Nat), at : Nat]
TurnSet   == [pc : {"ended", "parked", "step", "summarizing", "asked", "tools", "answered"},
              model : Asked, force : BOOLEAN]

\* The claims from the i-th to before the j-th that are of the model of the i-th.
Between(cl, i, j) == Cardinality({k \in i..(j - 1) : cl[k].model = cl[i].model})

PaidApart(cl, log, i, j) ==
  /\ cl[i].covered <= cl[j].covered
  /\ cl[i].history # cl[j].history
  /\ cl[j].at - cl[i].at >= Between(cl, i, j) * Cooldown
  /\ Gained(log, cl[i].covered, cl[j].covered) >= Between(cl, i, j) * MinNew

PaidOnce(cl, log) ==
  \A i, j \in DOMAIN cl : i < j /\ cl[i].model = cl[j].model => PaidApart(cl, log, i, j)

\* Made of what there is.
Made(cl, length, now) == \A n \in DOMAIN cl : cl[n].covered <= length /\ cl[n].at <= now

ContextInv ==
  /\ events \in Seq(EventSet) /\ clock \in Nat /\ turn \in TurnSet
  /\ claims \in Seq(ClaimSet)
  /\ Made(claims, Len(events), clock)
  /\ PaidOnce(claims, events)

\* A growing log and a passing clock leave what was claimed as it is.
LEMMA ClaimsStay ==
  ASSUME NEW cl \in Seq(ClaimSet), NEW log, NEW more, Grows(log, more),
         NEW now \in Nat, NEW then \in Nat, now <= then,
         Made(cl, Len(log), now), PaidOnce(cl, log)
  PROVE  Made(cl, Len(more), then) /\ PaidOnce(cl, more)
<1>1. Len(log) \in Nat /\ Len(more) \in Nat /\ Len(log) <= Len(more)
  BY Indices DEF Grows
<1>2. \A n \in DOMAIN cl : cl[n].covered \in Nat /\ cl[n].at \in Nat
  <2>1. \A n \in DOMAIN cl : cl[n] \in ClaimSet
    BY Indices
  <2> QED
    BY <2>1 DEF ClaimSet
<1>3. Made(cl, Len(more), then)
  BY <1>1, <1>2 DEF Made
<1>4. ASSUME NEW i \in DOMAIN cl, NEW j \in DOMAIN cl, i < j, cl[i].model = cl[j].model
      PROVE  PaidApart(cl, more, i, j)
  <2>1. PaidApart(cl, log, i, j)
    BY <1>4 DEF PaidOnce
  <2>2. Gained(more, cl[i].covered, cl[j].covered) = Gained(log, cl[i].covered, cl[j].covered)
    BY <1>2, GainedStays DEF Made
  <2> QED
    BY <2>1, <2>2 DEF PaidApart
<1> QED
  BY <1>3, <1>4 DEF PaidOnce

NoneBetween(cl, p, j, model) == \A k \in (p + 1)..(j - 1) : cl[k].model # model

\* The claims of a model before one more of it: one, or one more than before the newest.
LEMMA BetweenCounts ==
  ASSUME NEW cl \in Seq(ClaimSet), NEW i \in Nat, NEW p \in Nat, NEW j \in Nat,
         i <= p, p < j, cl[p].model = cl[i].model,
         NoneBetween(cl, p, j, cl[i].model)
  PROVE  /\ i = p => Between(cl, i, j) = 1
         /\ i < p => Between(cl, i, p) \in Nat /\ Between(cl, i, j) = Between(cl, i, p) + 1
<1> DEFINE S == {k \in i..(j - 1) : cl[k].model = cl[i].model}
           T == {k \in i..(p - 1) : cl[k].model = cl[i].model}
<1>1. CASE i = p
  <2>1. S = {p}
    BY <1>1 DEF NoneBetween
  <2>2. Cardinality({p}) = 1
    BY FS_Singleton
  <2>3. Cardinality(S) = Cardinality({p})
    BY <2>1
  <2>4. Between(cl, i, j) = 1
    BY <2>2, <2>3 DEF Between
  <2> QED
    BY <1>1, <2>4
<1>2. CASE i < p
  <2>1. S = T \cup {p} /\ p \notin T
    BY <1>2 DEF NoneBetween
  <2>2. IsFiniteSet(T)
    <3> DEFINE n == p - 1
               U == i..n
    <3>1. n \in Int /\ i \in Int
      OBVIOUS
    <3> HIDE DEF n
    <3>2. IsFiniteSet(U)
      BY <3>1, FS_Interval
    <3>3. T \subseteq U
      BY DEF n
    <3> HIDE DEF T, U
    <3> QED
      BY <3>2, <3>3, FS_Subset
  <2> HIDE DEF T, S
  <2>3. Cardinality(T) \in Nat /\ Cardinality(T \cup {p}) = Cardinality(T) + 1
    BY <2>1, <2>2, FS_AddElement, FS_CardinalityType
  <2>4. Cardinality(S) = Cardinality(T \cup {p})
    BY <2>1
  <2> QED
    BY <1>2, <2>3, <2>4 DEF Between, S, T
<1> QED
  BY <1>1, <1>2

\* The claims that are there count the same when one more follows.
LEMMA BetweenStays ==
  ASSUME NEW cl \in Seq(ClaimSet), NEW c \in ClaimSet, NEW i \in 1..Len(cl), NEW j \in 1..Len(cl)
  PROVE  Between(Append(cl, c), i, j) = Between(cl, i, j)
<1>1. /\ Len(cl) \in Nat
      /\ \A k \in 1..Len(cl) : Append(cl, c)[k] = cl[k]
  BY Indices, AppendProperties
<1>2. {k \in i..(j - 1) : Append(cl, c)[k].model = Append(cl, c)[i].model}
        = {k \in i..(j - 1) : cl[k].model = cl[i].model}
  BY <1>1
<1> QED
  BY <1>2 DEF Between

LEMMA OneMoreTime == \A a, b \in Nat : a * b \in Nat /\ (a + 1) * b = a * b + b
  OBVIOUS

\* Two distances in a row.
LEMMA OneAfterTheOther ==
  \A a, b, c, x, y, k \in Int : b - a >= x /\ c - b >= k /\ y = x + k => c - a >= y
  OBVIOUS

\* A claim that the newest of its model allows is one that all of them allow.
LEMMA ClaimKeeps ==
  ASSUME NEW cl \in Seq(ClaimSet), NEW c \in ClaimSet, NEW log \in Seq(EventSet),
         Made(cl, Len(log), c.at), PaidOnce(cl, log), c.covered <= Len(log),
         NEW mine, mine = {n \in DOMAIN cl : cl[n].model = c.model},
         \A n \in mine : cl[n].history # c.history,
         mine # {} => /\ c.covered >= cl[Max(mine)].covered
                      /\ c.at - cl[Max(mine)].at >= Cooldown
                      /\ Gained(log, cl[Max(mine)].covered, c.covered) >= MinNew
  PROVE  /\ Append(cl, c) \in Seq(ClaimSet)
         /\ Made(Append(cl, c), Len(log), c.at) /\ PaidOnce(Append(cl, c), log)
<1> DEFINE new == Append(cl, c)
           last == Len(cl) + 1
<1>0. Cooldown \in Nat /\ MinNew \in Nat
  BY ContextAssumption DEF ContextAssumption
<1>1. /\ DOMAIN cl = 1..Len(cl) /\ Len(cl) \in Nat /\ DOMAIN cl \in SUBSET Int /\ IsFiniteSet(DOMAIN cl)
      /\ \A n \in DOMAIN cl : cl[n].covered \in Nat /\ cl[n].at \in Nat
  <2>1. \A n \in DOMAIN cl : cl[n] \in ClaimSet
    BY Indices
  <2>2. \A n \in DOMAIN cl : cl[n].covered \in Nat /\ cl[n].at \in Nat
    BY <2>1 DEF ClaimSet
  <2> QED
    BY <2>2, Indices
<1>2. /\ new \in Seq(ClaimSet) /\ Len(new) = last /\ new[last] = c /\ \A n \in DOMAIN cl : new[n] = cl[n]
  BY <1>1, AppendProperties
<1>3. DOMAIN new = 1..last
  BY <1>2, Indices
<1>4. c.covered \in Nat /\ c.at \in Nat
  BY DEF ClaimSet
<1> HIDE DEF new
<1>5. Made(new, Len(log), c.at)
  BY <1>1, <1>2, <1>3, <1>4 DEF Made
<1>6. ASSUME NEW i \in DOMAIN new, NEW j \in DOMAIN new, i < j, j \in DOMAIN cl, new[i].model = new[j].model
      PROVE  PaidApart(new, log, i, j)
  <2>1. i \in DOMAIN cl /\ new[i] = cl[i] /\ new[j] = cl[j]
    BY <1>1, <1>2, <1>3, <1>6
  <2>2. PaidApart(cl, log, i, j)
    BY <1>6, <2>1 DEF PaidOnce
  <2>3. Between(new, i, j) = Between(cl, i, j)
    BY <1>1, <1>6, <2>1, BetweenStays DEF new
  <2> QED
    BY <2>1, <2>2, <2>3 DEF PaidApart
<1>7. ASSUME NEW i \in DOMAIN cl, cl[i].model = c.model
      PROVE  PaidApart(new, log, i, last)
  <2> DEFINE p == Max(mine)
  <2>1. p \in mine /\ i \in mine /\ \A n \in mine : n <= p
    <3>1. mine \in SUBSET Int /\ IsFiniteSet(mine) /\ i \in mine /\ mine # {}
      BY <1>1, <1>7, FS_Subset
    <3> QED
      BY <3>1, MaxExists
  <2>2. /\ c.covered >= cl[p].covered /\ c.at - cl[p].at >= Cooldown
        /\ Gained(log, cl[p].covered, c.covered) >= MinNew
    BY <2>1
  <2> HIDE DEF p
  <2>3. /\ i \in Nat /\ p \in Nat /\ p \in DOMAIN cl /\ i <= p /\ p < last /\ last \in Nat
        /\ new[i] = cl[i] /\ new[p] = cl[p] /\ cl[p].model = c.model
    BY <1>1, <1>2, <1>7, <2>1
  <2>4. NoneBetween(new, p, last, new[i].model)
    <3>1. \A k \in (p + 1)..(last - 1) : k \in DOMAIN cl /\ k \notin mine
      BY <1>1, <2>1, <2>3
    <3> QED
      BY <1>2, <1>7, <2>3, <3>1 DEF NoneBetween
  <2>5. /\ i = p => Between(new, i, last) = 1
        /\ i < p => Between(new, i, p) \in Nat /\ Between(new, i, last) = Between(new, i, p) + 1
    <3>1. /\ new[p].model = new[i].model /\ new \in Seq(ClaimSet)
          /\ i \in Nat /\ p \in Nat /\ last \in Nat /\ i <= p /\ p < last
      BY <1>2, <1>7, <2>3
    <3> HIDE DEF last
    <3> QED
      BY ONLY <2>4, <3>1, BetweenCounts
  <2>6. /\ cl[p].covered \in Nat /\ cl[p].covered <= Len(log) /\ cl[i].covered \in Nat
        /\ cl[i].at \in Nat /\ cl[p].at \in Nat
    BY <1>1, <2>3 DEF Made
  <2>7. /\ Gained(log, cl[p].covered, c.covered) \in Nat
    BY <1>4, <2>6, GainedType
  <2>8. cl[i].history # c.history
    BY <2>1
  <2>9. CASE i = p
    <3>1. Between(new, i, last) * Cooldown = Cooldown /\ Between(new, i, last) * MinNew = MinNew
      BY <1>0, <2>5, <2>9
    <3> QED
      BY <1>2, <2>2, <2>3, <2>8, <2>9, <3>1 DEF PaidApart
  <2>10. CASE i < p
    <3> DEFINE b == Between(new, i, p)
    <3>1. b \in Nat /\ Between(new, i, last) = b + 1
      BY <2>5, <2>10
    <3>2. /\ cl[i].covered <= cl[p].covered
          /\ cl[p].at - cl[i].at >= b * Cooldown
          /\ Gained(log, cl[i].covered, cl[p].covered) >= b * MinNew
      <4>1. PaidApart(cl, log, i, p)
        BY <1>7, <2>3, <2>10 DEF PaidOnce
      <4>2. Between(new, i, p) = Between(cl, i, p)
        BY <1>1, <2>3, BetweenStays DEF new
      <4> QED
        BY <4>1, <4>2 DEF PaidApart
    <3> HIDE DEF b
    <3>3. Gained(log, cl[i].covered, c.covered)
            = Gained(log, cl[i].covered, cl[p].covered) + Gained(log, cl[p].covered, c.covered)
      BY <1>4, <2>2, <2>6, <3>2, GainedAdds
    <3>4. Gained(log, cl[i].covered, cl[p].covered) \in Nat
      BY <2>6, <3>2, GainedType
    <3>5. /\ b * Cooldown \in Nat /\ (b + 1) * Cooldown = b * Cooldown + Cooldown
          /\ b * MinNew \in Nat /\ (b + 1) * MinNew = b * MinNew + MinNew
      BY <1>0, <3>1, OneMoreTime
    <3>6. c.at - cl[i].at >= (b + 1) * Cooldown
      <4> DEFINE x == b * Cooldown
                 y == (b + 1) * Cooldown
      <4>1. x \in Nat /\ y = x + Cooldown /\ cl[p].at - cl[i].at >= x
        BY <3>2, <3>5
      <4> HIDE DEF x, y
      <4>2. /\ c.at \in Int /\ cl[p].at \in Int /\ cl[i].at \in Int /\ x \in Int /\ y \in Int
            /\ Cooldown \in Int /\ c.at - cl[p].at >= Cooldown
        BY <1>0, <1>4, <2>2, <2>6, <4>1
      <4>3. c.at - cl[i].at >= y
        BY <4>1, <4>2, OneAfterTheOther
      <4> QED
        BY <4>3 DEF y
    <3>7. Gained(log, cl[i].covered, c.covered) >= (b + 1) * MinNew
      <4> DEFINE x == b * MinNew
                 y == (b + 1) * MinNew
      <4>1. x \in Nat /\ y = x + MinNew /\ Gained(log, cl[i].covered, cl[p].covered) >= x
        BY <3>2, <3>5
      <4> HIDE DEF x, y
      <4>2. Gained(log, cl[i].covered, c.covered) >= y
        BY <1>0, <2>2, <2>7, <3>3, <3>4, <4>1
      <4> QED
        BY <4>2 DEF y
    <3>8. cl[i].covered <= c.covered
      BY <1>4, <2>2, <2>6, <3>2
    <3> QED
      BY <1>2, <2>3, <2>8, <3>1, <3>6, <3>7, <3>8 DEF PaidApart
  <2> QED
    BY <2>3, <2>9, <2>10
<1>8. ASSUME NEW i \in DOMAIN new, NEW j \in DOMAIN new, i < j, new[i].model = new[j].model
      PROVE  PaidApart(new, log, i, j)
  <2>1. CASE j \in DOMAIN cl
    BY <1>6, <1>8, <2>1
  <2>2. CASE j \notin DOMAIN cl
    <3>1. j = last /\ i \in DOMAIN cl /\ cl[i].model = c.model
      BY <1>1, <1>2, <1>3, <1>8, <2>2
    <3> QED
      BY <1>7, <3>1
  <2> QED
    BY <2>1, <2>2
<1>9. PaidOnce(new, log)
  BY <1>8 DEF PaidOnce
<1> QED
  BY <1>2, <1>5, <1>9 DEF new

(***************************************************************************)
(* Every step.                                                             *)
(***************************************************************************)
ContextSpec == ContextInit /\ [][ContextNext]_contextVars

\* The newest ended Run lies within the log.
LEMMA BoundaryIs ==
  ASSUME events \in Seq(EventSet)
  PROVE  Boundary \in Nat /\ Boundary <= Len(events)
<1> DEFINE S == {0} \cup {i \in DOMAIN events : events[i].kind = "end"}
<1>1. DOMAIN events = 1..Len(events) /\ Len(events) \in Nat /\ IsFiniteSet(DOMAIN events)
  BY Indices
<1>2. S \in SUBSET Int /\ S # {} /\ \A n \in S : n \in Nat /\ n <= Len(events)
  BY <1>1
<1>3. IsFiniteSet(S)
  <2>1. IsFiniteSet({i \in DOMAIN events : events[i].kind = "end"})
    BY <1>1, FS_Subset
  <2> QED
    BY <2>1, FS_Singleton, FS_Union
<1> HIDE DEF S
<1>4. Max(S) \in S
  BY <1>2, <1>3, MaxExists
<1> QED
  BY <1>2, <1>4 DEF Boundary, S

\* What a new claim says.
LEMMA ClaimIs ==
  ASSUME events \in Seq(EventSet), clock \in Nat, turn \in TurnSet
  PROVE  [model |-> turn.model, covered |-> Boundary, history |-> History(Boundary), at |-> clock] \in ClaimSet
<1>1. Boundary \in Nat /\ Boundary <= Len(events)
  BY BoundaryIs
<1> DEFINE messages == Project(0, Boundary).messages
           places == [n \in DOMAIN messages |-> messages[n].at]
<1>2. messages \in Seq(MessageSet)
  <2>1. Project(0, Boundary) \in ReadStates
    BY <1>1, ProjectFits
  <2> QED
    BY <2>1 DEF ReadStates
<1> HIDE DEF messages
<1>3. places \in Seq(Nat)
  <2>1. DOMAIN messages = 1..Len(messages) /\ Len(messages) \in Nat /\ \A n \in DOMAIN messages : messages[n].at \in Nat
    <3>1. \A n \in DOMAIN messages : messages[n] \in MessageSet
      BY <1>2, Indices
    <3> QED
      BY <1>2, <3>1, Indices DEF MessageSet
  <2> QED
    BY <2>1
<1>4. History(Boundary) = places
  BY DEF History, messages
<1> QED
  BY <1>1, <1>3, <1>4 DEF ClaimSet, TurnSet

\* A claim is made only when what is there allows it (_claim_summary).
LEMMA ClaimIsPaid ==
  ASSUME ContextInv, MayClaim, Claim
  PROVE  /\ claims' \in Seq(ClaimSet)
         /\ Made(claims', Len(events), clock) /\ PaidOnce(claims', events)
<1> DEFINE c == [model |-> turn.model, covered |-> Boundary, history |-> History(Boundary), at |-> clock]
           mine == {n \in DOMAIN claims : claims[n].model = c.model}
<1>1. c \in ClaimSet /\ Boundary \in Nat /\ Boundary <= Len(events)
  BY ClaimIs, BoundaryIs DEF ContextInv
<1>2. /\ events \in Seq(EventSet) /\ claims \in Seq(ClaimSet)
      /\ Made(claims, Len(events), clock) /\ PaidOnce(claims, events) /\ Len(events) \in Nat
  BY Indices DEF ContextInv
<1>3. mine = Claimed /\ claims' = Append(claims, c)
  BY DEF Claimed, Claim
<1>4. \A n \in mine : claims[n].history # c.history
  BY <1>3 DEF MayClaim
<1>5. ASSUME mine # {}
      PROVE  /\ c.covered >= claims[Max(mine)].covered
             /\ c.at - claims[Max(mine)].at >= Cooldown
             /\ Gained(events, claims[Max(mine)].covered, c.covered) >= MinNew
  <2> DEFINE p == Max(mine)
  <2>1. p \in DOMAIN claims
    <3>1. mine \in SUBSET Int /\ IsFiniteSet(mine)
      BY <1>2, Indices, FS_Subset
    <3> HIDE DEF mine
    <3>2. p \in mine
      BY <1>5, <3>1, MaxExists
    <3> QED
      BY <3>2 DEF mine
  <2>2. /\ Boundary > claims[p].covered /\ clock - claims[p].at >= Cooldown
        /\ SizeOf(Project(claims[p].covered, Boundary).messages) >= MinNew
    BY <1>3, <1>5 DEF MayClaim
  <2> HIDE DEF p, mine
  <2>3. claims[p].covered \in Nat
    <3>1. claims[p] \in ClaimSet
      BY <1>2, <2>1, Indices
    <3> QED
      BY <3>1 DEF ClaimSet
  <2>4. /\ SizeOf(Project(claims[p].covered, Boundary).messages) \in Nat
        /\ SizeOf(Project(claims[p].covered, Boundary).messages) <= Gained(events, claims[p].covered, Boundary)
    BY <1>1, <1>2, <2>2, <2>3, ProjectFits
  <2>5. Gained(events, claims[p].covered, Boundary) \in Nat /\ MinNew \in Nat
    BY <1>1, <1>2, <2>3, GainedType, ContextAssumption DEF ContextAssumption
  <2>6. Gained(events, claims[p].covered, Boundary) >= MinNew
    BY <2>2, <2>4, <2>5
  <2> QED
    BY <1>1, <2>2, <2>3, <2>6 DEF p
<1>6. c.at = clock /\ c.covered = Boundary
  OBVIOUS
<1> HIDE DEF c
<1>7. /\ Append(claims, c) \in Seq(ClaimSet)
      /\ Made(Append(claims, c), Len(events), c.at) /\ PaidOnce(Append(claims, c), events)
  <2> HIDE DEF mine
  <2>1. mine = {n \in DOMAIN claims : claims[n].model = c.model}
    BY DEF mine
  <2>2. Made(claims, Len(events), c.at) /\ c.covered <= Len(events)
    BY <1>1, <1>2, <1>6
  <2> QED
    BY <1>1, <1>2, <1>4, <1>5, <2>1, <2>2, ClaimKeeps
<1> QED
  BY <1>3, <1>6, <1>7

\* A step that only adds to the log, or lets time pass.
LEMMA LogStepKeeps ==
  ASSUME ContextInv, Grows(events, events'), UNCHANGED claims,
         clock' \in Nat, clock' >= clock, turn' \in TurnSet
  PROVE  ContextInv'
<1>1. claims \in Seq(ClaimSet) /\ clock \in Nat /\ Made(claims, Len(events), clock) /\ PaidOnce(claims, events)
  BY DEF ContextInv
<1>2. Made(claims, Len(events'), clock') /\ PaidOnce(claims, events')
  BY <1>1, ClaimsStay
<1>3. claims' = claims /\ events' \in Seq(EventSet)
  BY DEF Grows
<1>4. Made(claims', Len(events'), clock') /\ PaidOnce(claims', events') /\ claims' \in Seq(ClaimSet)
  BY <1>1, <1>2, <1>3
<1> QED
  BY <1>3, <1>4 DEF ContextInv

\* Events of the log.
LEMMA EventIs ==
  \A kind \in {"user", "response", "result", "end"}, calls, size \in Nat : EventOf(kind, calls, size) \in EventSet
  BY DEF EventOf, EventSet

\* Changes of the Run's place.
LEMMA TurnIs ==
  ASSUME NEW t \in TurnSet, NEW p \in {"ended", "parked", "step", "summarizing", "asked", "tools", "answered"},
         NEW b \in BOOLEAN
  PROVE  [t EXCEPT !.pc = p] \in TurnSet /\ [t EXCEPT !.pc = p, !.force = b] \in TurnSet
         /\ [t EXCEPT !.force = b, !.pc = p] \in TurnSet
  BY DEF TurnSet

\* A build that fails logs that the Run ended.
LEMMA FailLogs ==
  ASSUME events \in Seq(EventSet), turn \in TurnSet, NEW kind, NEW messages, Fail(kind, messages)
  PROVE  Grows(events, events') /\ turn' \in TurnSet
<1>1. EventOf("end", 0, 0) \in EventSet
  BY EventIs
<1>2. events' = Append(events, EventOf("end", 0, 0)) /\ turn' = [turn EXCEPT !.pc = "ended", !.force = FALSE]
  BY DEF Fail
<1> QED
  BY <1>1, <1>2, LogAppends, TurnIs

LEMMA NothingLogged == ASSUME events \in Seq(EventSet), UNCHANGED events PROVE Grows(events, events')
<1>1. Len(events) \in Nat
  BY Indices
<1> QED
  BY <1>1 DEF Grows

LEMMA SendLogs ==
  ASSUME events \in Seq(EventSet), turn \in TurnSet, NEW messages, SendMessages(messages)
  PROVE  Grows(events, events') /\ turn' \in TurnSet
<1>1. UNCHANGED events /\ turn' = [turn EXCEPT !.pc = "asked", !.force = FALSE]
  BY DEF SendMessages
<1> QED
  BY <1>1, NothingLogged, TurnIs

LEMMA FinishLogs ==
  ASSUME events \in Seq(EventSet), turn \in TurnSet, NEW messages, Finish(messages)
  PROVE  Grows(events, events') /\ turn' \in TurnSet
<1>1. Fail("overflow", Fold(messages)) \/ SendMessages(Fold(messages))
  BY DEF Finish
<1> QED
  BY <1>1, FailLogs, SendLogs

\* Every step keeps the invariant.
LEMMA ContextStep == ContextInv /\ [ContextNext]_contextVars => ContextInv'
<1> SUFFICES ASSUME ContextInv, [ContextNext]_contextVars PROVE ContextInv'
  OBVIOUS
<1>1. events \in Seq(EventSet) /\ clock \in Nat /\ turn \in TurnSet /\ claims \in Seq(ClaimSet)
  BY DEF ContextInv
<1>2. ASSUME Grows(events, events'), UNCHANGED <<claims, clock>>, turn' \in TurnSet
      PROVE  ContextInv'
  BY <1>1, <1>2, LogStepKeeps
<1>3. ASSUME NEW e \in EventSet, LogEvent(e) PROVE Grows(events, events')
  BY <1>1, <1>3, LogAppends DEF LogEvent
<1>4. EventOf("end", 0, 0) \in EventSet /\ EventOf("user", 0, 1) \in EventSet /\ EventOf("result", 0, 1) \in EventSet
  BY EventIs
<1>5. CASE StartRun
  <2>1. turn' \in TurnSet
    BY <1>5 DEF StartRun, TurnSet, Asked
  <2> QED
    BY <1>2, <1>3, <1>4, <1>5, <2>1 DEF StartRun
<1> DEFINE open == Project(0, Len(events)).pending
           closed == [n \in 1..open |-> EventOf("result", 0, 1)]
<1>6. closed \in Seq(EventSet)
  <2>1. Len(events) \in Nat /\ 0 <= Len(events)
    BY <1>1, Indices
  <2>2. Project(0, Len(events)) \in ReadStates
    BY <1>1, <2>1, ProjectFits
  <2>3. open \in Nat
    BY <2>2 DEF ReadStates
  <2> QED
    BY <1>4, <2>3
<1>7. CASE ContinueRun
  <2>1. events' = events \o closed /\ turn' = [turn EXCEPT !.pc = "step"] /\ UNCHANGED <<claims, clock>>
    BY <1>7 DEF ContinueRun
  <2> HIDE DEF closed
  <2>2. Grows(events, events')
    BY <1>1, <1>6, <2>1, LogConcats
  <2> QED
    BY <1>1, <1>2, <2>1, <2>2, TurnIs
<1>8. CASE AbandonRun
  <2>1. /\ events' = events \o closed \o <<EventOf("end", 0, 0)>>
        /\ turn' = [turn EXCEPT !.pc = "ended"] /\ UNCHANGED <<claims, clock>>
    BY <1>8 DEF AbandonRun
  <2> HIDE DEF closed
  <2>2. closed \o <<EventOf("end", 0, 0)>> \in Seq(EventSet)
        /\ events' = events \o (closed \o <<EventOf("end", 0, 0)>>)
    <3>1. <<EventOf("end", 0, 0)>> \in Seq(EventSet)
      BY <1>4
    <3> QED
      BY <1>1, <1>6, <2>1, <3>1, ConcatProperties, ConcatAssociative
  <2>3. Grows(events, events')
    BY <1>1, <2>2, LogConcats
  <2> QED
    BY <1>1, <1>2, <2>1, <2>3, TurnIs
<1>9. CASE Build
  <2> DEFINE messages == Materialize(Saved)
  <2>1. UNCHANGED clock
    BY <1>9 DEF Build
  <2>2. CASE SendMessages(messages) /\ UNCHANGED claims
    BY <1>1, <1>2, <2>1, <2>2, SendLogs
  <2>3. CASE Finish(messages) /\ UNCHANGED claims
    BY <1>1, <1>2, <2>1, <2>3, FinishLogs
  <2>4. CASE Fail("raised", messages) /\ UNCHANGED claims
    BY <1>1, <1>2, <2>1, <2>4, FailLogs
  <2>5. CASE MayClaim /\ Claim /\ turn' = [turn EXCEPT !.pc = "summarizing"] /\ UNCHANGED events
    <3>1. claims' \in Seq(ClaimSet) /\ Made(claims', Len(events), clock) /\ PaidOnce(claims', events)
      BY <2>5, ClaimIsPaid
    <3>2. turn' \in TurnSet /\ events' = events /\ clock' = clock
      BY <1>1, <2>1, <2>5, TurnIs
    <3> QED
      BY <1>1, <3>1, <3>2 DEF ContextInv
  <2> QED
    BY <1>9, <2>2, <2>3, <2>4, <2>5 DEF Build
<1>10. CASE SummaryReturns
  <2>1. PICK messages : Finish(messages)
    BY <1>10 DEF SummaryReturns
  <2>2. UNCHANGED <<claims, clock>>
    BY <1>10 DEF SummaryReturns
  <2> QED
    BY <1>1, <1>2, <2>1, <2>2, FinishLogs
<1>11. CASE SummaryFails
  BY <1>1, <1>2, <1>11, FinishLogs DEF SummaryFails
<1>12. CASE Respond
  <2>1. PICK calls \in 0..2 :
          /\ LogEvent(EventOf("response", calls, 1))
          /\ turn' = [turn EXCEPT !.pc = IF calls = 0 THEN "answered" ELSE "tools"]
    BY <1>12 DEF Respond
  <2>2. EventOf("response", calls, 1) \in EventSet
    BY EventIs
  <2>3. turn' \in TurnSet
    BY <1>1, <2>1, TurnIs
  <2> QED
    BY <1>2, <1>3, <1>12, <2>1, <2>2, <2>3 DEF Respond
<1>13. CASE ToolCompleted
  <2>1. PICK size \in ResultSizes, compact \in BOOLEAN :
          /\ LogEvent(EventOf("result", 0, size))
          /\ turn' = [turn EXCEPT !.force = @ \/ compact,
                                  !.pc = IF Project(0, Len(events)).pending = 1 THEN "step" ELSE @]
    BY <1>13 DEF ToolCompleted
  <2>2. size \in Nat
    BY ContextAssumption DEF ContextAssumption
  <2>3. EventOf("result", 0, size) \in EventSet
    BY <2>2, EventIs
  <2>4. turn' \in TurnSet
    BY <1>1, <2>1 DEF TurnSet
  <2> QED
    BY <1>2, <1>3, <1>13, <2>1, <2>3, <2>4 DEF ToolCompleted
<1>14. CASE CompleteRun
  BY <1>1, <1>2, <1>3, <1>4, <1>14, TurnIs DEF CompleteRun
<1>15. CASE StopRun
  BY <1>1, <1>2, <1>3, <1>4, <1>15, TurnIs DEF StopRun
<1>16. CASE RequestFails
  BY <1>1, <1>2, <1>3, <1>4, <1>16, TurnIs DEF RequestFails
<1>17. CASE Wait
  <2>1. Grows(events, events')
    BY <1>1, <1>17, NothingLogged DEF Wait
  <2>2. UNCHANGED <<claims, turn>> /\ clock' \in Nat /\ clock' >= clock
    BY <1>1, <1>17 DEF Wait
  <2> QED
    BY <1>1, <2>1, <2>2, LogStepKeeps
<1>18. CASE UNCHANGED contextVars
  <2>1. UNCHANGED <<events, claims, clock, turn>>
    BY <1>18 DEF contextVars
  <2> QED
    BY <1>1, <1>2, <2>1, NothingLogged
<1> QED
  BY <1>5, <1>7, <1>8, <1>9, <1>10, <1>11, <1>12, <1>13, <1>14, <1>15, <1>16, <1>17, <1>18 DEF ContextNext

\* The log, the clock and the claims: what every state of the Session's context satisfies
\* (ContextBuilder.build, _claim_summary).
THEOREM ContextInvariant == ContextSpec => []ContextInv
<1>1. ContextInit => ContextInv
  <2> SUFFICES ASSUME ContextInit PROVE ContextInv
    OBVIOUS
  <2>1. events = <<>> /\ claims = <<>> /\ clock = 0 /\ turn = [pc |-> "ended", model |-> None, force |-> FALSE]
    BY DEF ContextInit
  <2>2. turn \in TurnSet /\ events \in Seq(EventSet) /\ claims \in Seq(ClaimSet) /\ DOMAIN claims = {}
    BY <2>1 DEF TurnSet, Asked
  <2> QED
    BY <2>1, <2>2 DEF ContextInv, Made, PaidOnce
<1> QED
  BY <1>1, ContextStep, PTL DEF ContextSpec

\* A model is asked for summaries no more often than its claims allow, for every number of models,
\* claims and events and every cooldown and minimum (ContextBuilder._claim_summary, ADR-084).
THEOREM SummariesPaidOnce == ContextSpec => []SummariesArePaidOnce
<1>1. ContextInv => SummariesArePaidOnce
  <2> SUFFICES ASSUME ContextInv, NEW i \in DOMAIN claims, NEW j \in DOMAIN claims,
                      i < j, claims[i].model = claims[j].model
               PROVE  /\ claims[i].history # claims[j].history
                      /\ claims[j].at - claims[i].at >= Between(claims, i, j) * Cooldown
                      /\ Gained(events, claims[i].covered, claims[j].covered) >= Between(claims, i, j) * MinNew
    BY Zenon DEF SummariesArePaidOnce, Between, Gained, Sizes
  <2>1. PaidApart(claims, events, i, j)
    BY DEF ContextInv, PaidOnce
  <2> QED
    BY <2>1 DEF PaidApart
<1> QED
  BY <1>1, ContextInvariant, PTL
(***************************************************************************)
(* Calls and results.                                                      *)
(***************************************************************************)
\* Induction up to a number.
LEMMA UpTo ==
  ASSUME NEW n \in Nat, NEW Q, 0 \in Q, \A k \in 1..n : k - 1 \in Q => k \in Q
  PROVE  n \in Q
<1> DEFINE S == {k \in 0..n : k \notin Q}
<1>1. S \in SUBSET Int /\ IsFiniteSet(S)
  <2>1. IsFiniteSet(0..n)
    BY FS_Interval
  <2> QED
    BY <2>1, FS_Subset
<1>2. ASSUME n \notin Q PROVE FALSE
  <2>1. S # {}
    BY <1>2
  <2>2. PICK m \in S : \A y \in S : m <= y
    <3> HIDE DEF S
    <3> QED
      BY <1>1, <2>1, MinExists
  <2>3. m \in 1..n /\ m - 1 \notin S
    BY <2>2
  <2> QED
    BY <2>2, <2>3
<1> QED
  BY <1>2

\* Numbers, apart from where they come from.
LEMMA Within == \A a, n \in Nat : \A x \in (a + 1)..n : x \in (a + 1)..(n + 1)
  OBVIOUS

LEMMA OneOn == \A x, y \in Nat : (x + 1) - 1 = x /\ (x > 0 => x + 1 > 1) /\ (y <= x => y < x + 1)
  OBVIOUS

LEMMA OneBack == \A l \in Nat : \A k \in 1..(l + 1) : k # 1 => k - 1 \in 1..l /\ k = (k - 1) + 1 /\ k > 1
  OBVIOUS

LEMMA SizesOf == \A l \in Nat : \A f \in [1..l -> Nat] : f \in Seq(Nat) /\ Len(f) = l
  OBVIOUS

Kinds(log, kinds, from, to) == {n \in (from + 1)..to : log[n].kind \in kinds}
Results(log, from, to) == Kinds(log, {"result"}, from, to)
CallsTo(log, n) == SumFunctionOnSet([m \in DOMAIN log |-> log[m].calls], (0 + 1)..n)

\* How many calls have no result after n events.
Owed(log, n) == CallsTo(log, n) - Cardinality(Results(log, 0, n))

LEMMA KindsIs ==
  ASSUME NEW log, NEW kinds, NEW from \in Nat, NEW to \in Nat
  PROVE  /\ Kinds(log, kinds, from, to) \in SUBSET Int /\ IsFiniteSet(Kinds(log, kinds, from, to))
         /\ Cardinality(Kinds(log, kinds, from, to)) \in Nat
<1>1. IsFiniteSet((from + 1)..to)
  BY FS_Interval
<1>2. Kinds(log, kinds, from, to) \subseteq (from + 1)..to
  BY DEF Kinds
<1> QED
  BY <1>1, <1>2, FS_Subset, FS_CardinalityType

LEMMA ResultsAre ==
  ASSUME NEW log, NEW from \in Nat, NEW to \in Nat
  PROVE  /\ Results(log, from, to) \in SUBSET Int /\ IsFiniteSet(Results(log, from, to))
         /\ Cardinality(Results(log, from, to)) \in Nat
<1> DEFINE kinds == {"result"}
<1>1. Results(log, from, to) = Kinds(log, kinds, from, to)
  BY DEF Results
<1> HIDE DEF kinds
<1> QED
  BY <1>1, KindsIs

\* One more event.
Spoken == {"user", "response"}

LEMMA SpokenMore ==
  ASSUME NEW log, NEW from \in Nat, NEW n \in Nat, from <= n
  PROVE  /\ log[n + 1].kind \in Spoken => Kinds(log, Spoken, from, n + 1) = Kinds(log, Spoken, from, n) \cup {n + 1}
         /\ log[n + 1].kind \notin Spoken => Kinds(log, Spoken, from, n + 1) = Kinds(log, Spoken, from, n)
  BY DEF Kinds

LEMMA ResultsMore ==
  ASSUME NEW log, NEW from \in Nat, NEW n \in Nat, from <= n
  PROVE  /\ log[n + 1].kind = "result" => Results(log, from, n + 1) = Results(log, from, n) \cup {n + 1}
         /\ log[n + 1].kind # "result" => Results(log, from, n + 1) = Results(log, from, n)
         /\ n + 1 \notin Results(log, from, n)
  BY DEF Results, Kinds

LEMMA OneMoreResult ==
  ASSUME NEW log, NEW from \in Nat, NEW n \in Nat, from <= n, log[n + 1].kind = "result"
  PROVE  Results(log, from, n + 1) = Results(log, from, n) \cup {n + 1}
  BY DEF Results, Kinds

\* The same from the beginning.
LEMMA FirstResults ==
  ASSUME NEW log, NEW n \in Nat
  PROVE  /\ IsFiniteSet(Results(log, 0, n)) /\ Cardinality(Results(log, 0, n)) \in Nat
         /\ log[n + 1].kind = "result" => Results(log, 0, n + 1) = Results(log, 0, n) \cup {n + 1}
         /\ log[n + 1].kind # "result" => Results(log, 0, n + 1) = Results(log, 0, n)
         /\ n + 1 \notin Results(log, 0, n)
<1>1. PICK z \in Nat : z = 0
  OBVIOUS
<1>2. z <= n
  BY <1>1
<1>3. IsFiniteSet(Results(log, z, n)) /\ Cardinality(Results(log, z, n)) \in Nat
  BY ResultsAre
<1>4. /\ log[n + 1].kind = "result" => Results(log, z, n + 1) = Results(log, z, n) \cup {n + 1}
      /\ log[n + 1].kind # "result" => Results(log, z, n + 1) = Results(log, z, n)
      /\ n + 1 \notin Results(log, z, n)
  BY <1>2, ResultsMore
<1> QED
  BY <1>1, <1>3, <1>4

LEMMA OwedStep ==
  ASSUME NEW log \in Seq(EventSet), NEW n \in Nat, n < Len(log)
  PROVE  /\ Owed(log, n) \in Int /\ Owed(log, n + 1) \in Int
         /\ log[n + 1].kind = "result" => Owed(log, n + 1) = Owed(log, n) + log[n + 1].calls - 1
         /\ log[n + 1].kind # "result" => Owed(log, n + 1) = Owed(log, n) + log[n + 1].calls
<1> DEFINE f == [m \in DOMAIN log |-> log[m].calls]
           S == (0 + 1)..(n + 1)
<1>1. /\ Len(log) \in Nat /\ DOMAIN log = 1..Len(log)
      /\ \A m \in DOMAIN log : log[m] \in EventSet
  BY Indices
<1>2. /\ IsFiniteSet(S) /\ \A y \in S : f[y] \in Nat
      /\ n + 1 \in S /\ S \ {n + 1} = (0 + 1)..n /\ f[n + 1] = log[n + 1].calls
  <2>1. IsFiniteSet(S)
    BY FS_Interval
  <2>2. \A y \in S : y \in DOMAIN log
    BY <1>1
  <2>3. \A y \in S : f[y] \in Nat
    BY <1>1, <2>2 DEF EventSet
  <2>4. n + 1 \in S /\ S \ {n + 1} = (0 + 1)..n /\ n + 1 \in DOMAIN log
    BY <1>1
  <2>5. f[n + 1] = log[n + 1].calls
    BY <2>4
  <2> HIDE DEF f, S
  <2> QED
    BY <2>1, <2>3, <2>4, <2>5
<1>3. CallsTo(log, n + 1) = SumFunctionOnSet(f, S) /\ CallsTo(log, n) = SumFunctionOnSet(f, S \ {n + 1})
  BY <1>2 DEF CallsTo
<1>4. /\ SumFunctionOnSet(f, S) = f[n + 1] + SumFunctionOnSet(f, S \ {n + 1})
      /\ SumFunctionOnSet(f, S \ {n + 1}) \in Int
  <2>1. /\ IsFiniteSet(S) /\ n + 1 \in S /\ \A y \in S : f[y] \in Int
        /\ IsFiniteSet(S \ {n + 1}) /\ \A y \in S \ {n + 1} : f[y] \in Int
    BY <1>2, FS_Subset
  <2> HIDE DEF f, S
  <2> DEFINE x == n + 1
             T == S \ {x}
  <2>2. IsFiniteSet(S) /\ x \in S /\ \A y \in S : f[y] \in Int
    BY <2>1
  <2>3. IsFiniteSet(T) /\ \A y \in T : f[y] \in Int
    BY <2>1
  <2>4. SumFunctionOnSet(f, T) \in Int
    <3> HIDE DEF T
    <3> QED
      BY <2>3, SumType
  <2> HIDE DEF x
  <2>5. SumFunctionOnSet(f, S) = f[x] + SumFunctionOnSet(f, S \ {x})
    BY <2>2, SumOneMore
  <2> QED
    BY <2>4, <2>5 DEF x, T
<1>5. /\ Cardinality(Results(log, 0, n)) \in Nat
      /\ log[n + 1].kind = "result" =>
           Cardinality(Results(log, 0, n + 1)) = Cardinality(Results(log, 0, n)) + 1
      /\ log[n + 1].kind # "result" => Results(log, 0, n + 1) = Results(log, 0, n)
  <2> DEFINE R == Results(log, 0, n)
  <2>1. IsFiniteSet(R) /\ Cardinality(R) \in Nat
    BY FirstResults
  <2>2. /\ log[n + 1].kind = "result" => Results(log, 0, n + 1) = R \cup {n + 1}
        /\ log[n + 1].kind # "result" => Results(log, 0, n + 1) = R
        /\ n + 1 \notin R
    BY FirstResults
  <2> HIDE DEF R
  <2>3. Cardinality(R \cup {n + 1}) = Cardinality(R) + 1
    BY <2>1, <2>2, FS_AddElement
  <2> QED
    BY <2>1, <2>2, <2>3 DEF R
<1>6. f[n + 1] \in Nat /\ f[n + 1] = log[n + 1].calls
  BY <1>2
<1> DEFINE before == SumFunctionOnSet(f, S \ {n + 1})
           given  == Cardinality(Results(log, 0, n))
           after  == Cardinality(Results(log, 0, n + 1))
           more   == log[n + 1].calls
<1>7. /\ CallsTo(log, n + 1) = more + before /\ CallsTo(log, n) = before
      /\ before \in Int /\ more \in Nat /\ given \in Nat
  BY <1>3, <1>4, <1>5, <1>6
<1>8. /\ log[n + 1].kind = "result" => after = given + 1
      /\ log[n + 1].kind # "result" => after = given
  BY <1>5
<1>9. /\ Owed(log, n) = CallsTo(log, n) - given
      /\ Owed(log, n + 1) = CallsTo(log, n + 1) - after
  BY DEF Owed
<1> HIDE DEF f, S, before, given, after, more
<1>10. Owed(log, n) = before - given /\ Owed(log, n + 1) = (more + before) - after
  BY <1>7, <1>9
<1> DEFINE was == Owed(log, n)
           is  == Owed(log, n + 1)
<1>11. was = before - given /\ is = (more + before) - after
  BY <1>10
<1> HIDE DEF was, is
<1>12. was \in Int
  BY <1>7, <1>11
<1>13. log[n + 1].kind = "result" => is = was + more - 1 /\ is \in Int
  <2>1. ASSUME after = given + 1 PROVE is = was + more - 1 /\ is \in Int
    BY <1>7, <1>11, <2>1
  <2> QED
    BY <1>8, <2>1
<1>14. log[n + 1].kind # "result" => is = was + more /\ is \in Int
  <2>1. ASSUME after = given PROVE is = was + more /\ is \in Int
    BY <1>7, <1>11, <2>1
  <2> QED
    BY <1>8, <2>1
<1> QED
  BY <1>12, <1>13, <1>14 DEF more, was, is

LEMMA NothingOwed == ASSUME NEW log PROVE Owed(log, 0) = 0
<1>1. (0 + 1)..0 = {} /\ Results(log, 0, 0) = {}
  BY DEF Results, Kinds
<1>2. CallsTo(log, 0) = 0
  BY <1>1, SumEmpty DEF CallsTo
<1>3. Cardinality(Results(log, 0, 0)) = 0
  BY <1>1, FS_EmptySet
<1> QED
  BY <1>2, <1>3 DEF Owed

LEMMA OwedType ==
  ASSUME NEW log \in Seq(EventSet), NEW n \in Nat, n <= Len(log)
  PROVE  Owed(log, n) \in Int
<1>1. CASE n = 0
  BY <1>1, NothingOwed
<1>2. CASE n # 0
  <2>1. n - 1 \in Nat /\ n - 1 < Len(log) /\ (n - 1) + 1 = n /\ Len(log) \in Nat
    BY <1>2, LenProperties
  <2>2. Owed(log, (n - 1) + 1) \in Int
    BY <2>1, OwedStep
  <2> QED
    BY <2>1, <2>2
<1> QED
  BY <1>1, <1>2

\* What the log gains changes nothing of what was owed.
LEMMA KindsStay ==
  ASSUME NEW log, NEW more, Grows(log, more), NEW kinds, NEW from \in Nat, NEW to \in Nat, to <= Len(log)
  PROVE  Kinds(more, kinds, from, to) = Kinds(log, kinds, from, to)
<1>1. Len(log) \in Nat /\ \A n \in (from + 1)..to : n \in DOMAIN log
  BY Indices DEF Grows
<1>2. \A n \in (from + 1)..to : more[n] = log[n]
  BY <1>1 DEF Grows
<1> QED
  BY <1>2 DEF Kinds

LEMMA OwedStays ==
  ASSUME NEW log, NEW more, Grows(log, more), NEW n \in Nat, n <= Len(log)
  PROVE  Owed(more, n) = Owed(log, n)
<1> DEFINE S == (0 + 1)..n
           f == [m \in DOMAIN log |-> log[m].calls]
           g == [m \in DOMAIN more |-> more[m].calls]
<1>1. IsFiniteSet(S)
  BY FS_Interval
<1>2. \A y \in S : y \in DOMAIN log /\ y \in DOMAIN more
  BY Indices DEF Grows
<1>3. \A y \in S : f[y] = g[y]
  BY <1>2 DEF Grows
<1> HIDE DEF f, g, S
<1>4. SumFunctionOnSet(f, S) = SumFunctionOnSet(g, S)
  BY <1>1, <1>3, SumAgrees
<1>5. CallsTo(more, n) = CallsTo(log, n)
  BY <1>4 DEF CallsTo, f, g, S
<1>6. Results(more, 0, n) = Results(log, 0, n)
  BY KindsStay DEF Results
<1> QED
  BY <1>5, <1>6 DEF Owed

\* A prompt and a response come when no result is owed, a result when one is.
AnsweredAt(log, n) ==
  /\ log[n].kind \in {"user", "response"} => Owed(log, n - 1) = 0
  /\ log[n].kind = "result" => Owed(log, n - 1) > 0
  /\ log[n].kind # "response" => log[n].calls = 0

Answered(log) == \A n \in 1..Len(log) : AnsweredAt(log, n)

\* What the log gains is answered if each of it is.
LEMMA AnsweredGrows ==
  ASSUME NEW log, NEW more, Grows(log, more), Answered(log),
         \A n \in (Len(log) + 1)..Len(more) : AnsweredAt(more, n)
  PROVE  Answered(more)
<1>1. log \in Seq(EventSet) /\ Len(log) \in Nat /\ DOMAIN log = 1..Len(log) /\ Len(more) \in Nat
  BY Indices DEF Grows
<1>2. ASSUME NEW n \in 1..Len(log) PROVE AnsweredAt(more, n)
  <2>1. more[n] = log[n] /\ AnsweredAt(log, n) /\ n - 1 \in Nat /\ n - 1 <= Len(log)
    BY <1>1 DEF Grows, Answered
  <2>2. Owed(more, n - 1) = Owed(log, n - 1)
    BY <2>1, OwedStays
  <2> QED
    BY <2>1, <2>2 DEF AnsweredAt
<1> QED
  BY <1>1, <1>2 DEF Answered

\* One event more.
LEMMA AnsweredAppends ==
  ASSUME NEW log \in Seq(EventSet), NEW e \in EventSet, Answered(log),
         e.kind \in {"user", "response"} => Owed(log, Len(log)) = 0,
         e.kind = "result" => Owed(log, Len(log)) > 0,
         e.kind # "response" => e.calls = 0
  PROVE  /\ Grows(log, Append(log, e)) /\ Answered(Append(log, e))
         /\ Len(Append(log, e)) = Len(log) + 1 /\ Append(log, e)[Len(log) + 1] = e
         /\ Owed(log, Len(log)) \in Int
         /\ e.kind = "result" => Owed(Append(log, e), Len(Append(log, e))) = Owed(log, Len(log)) - 1
         /\ e.kind # "result" => Owed(Append(log, e), Len(Append(log, e))) = Owed(log, Len(log)) + e.calls
<1> DEFINE more == Append(log, e)
           k == Len(log)
<1>1. /\ k \in Nat /\ Grows(log, more) /\ Len(more) = k + 1 /\ more[k + 1] = e /\ more \in Seq(EventSet)
  BY LogAppends, AppendProperties
<1> HIDE DEF more, k
<1>2. Owed(more, k) = Owed(log, k) /\ Owed(log, k) \in Int
  BY <1>1, OwedStays, OwedType DEF k
<1>3. AnsweredAt(more, k + 1)
  <2>1. (k + 1) - 1 = k
    BY <1>1
  <2> QED
    BY <1>1, <1>2, <2>1 DEF AnsweredAt, k
<1>4. Answered(more)
  <2>1. \A n \in (Len(log) + 1)..Len(more) : n = k + 1
    BY <1>1 DEF k
  <2>2. \A n \in (Len(log) + 1)..Len(more) : AnsweredAt(more, n)
    BY <1>3, <2>1
  <2> QED
    BY <1>1, <2>2, AnsweredGrows
<1>5. /\ e.kind = "result" => Owed(more, k + 1) = Owed(log, k) + e.calls - 1
      /\ e.kind # "result" => Owed(more, k + 1) = Owed(log, k) + e.calls
  <2>1. k < Len(more)
    BY <1>1
  <2> QED
    BY <1>1, <1>2, <2>1, OwedStep
<1>6. Owed(more, Len(more)) = Owed(more, k + 1) /\ Owed(log, Len(log)) = Owed(log, k)
  BY <1>1 DEF k
<1>7. e.calls \in Nat
  BY DEF EventSet
<1>8. e.kind = "result" => e.calls = 0
  OBVIOUS
<1> QED
  BY <1>1, <1>2, <1>4, <1>5, <1>6, <1>7, <1>8 DEF more, k

\* Results for some of the calls that are open.
Closing(k) == [n \in 1..k |-> EventOf("result", 0, 1)]

LEMMA AnsweredCloses ==
  ASSUME NEW log \in Seq(EventSet), Answered(log), NEW k \in Nat, k <= Owed(log, Len(log))
  PROVE  /\ log \o Closing(k) \in Seq(EventSet) /\ Grows(log, log \o Closing(k)) /\ Answered(log \o Closing(k))
         /\ Owed(log \o Closing(k), Len(log \o Closing(k))) = Owed(log, Len(log)) - k
<1> DEFINE tail == Closing(k)
           more == log \o tail
           l == Len(log)
           open == Owed(log, l)
<1>1. tail \in Seq(EventSet) /\ Len(tail) = k /\ \A n \in 1..k : tail[n] = EventOf("result", 0, 1)
  <2>1. EventOf("result", 0, 1) \in EventSet
    BY DEF EventOf, EventSet
  <2> QED
    BY <2>1 DEF Closing
<1> HIDE DEF tail
<1>2. /\ more \in Seq(EventSet) /\ Len(more) = l + k /\ l \in Nat /\ Grows(log, more)
      /\ \A n \in 1..k : more[l + n] = tail[n]
  <2>1. l \in Nat /\ Grows(log, more)
    BY <1>1, LenProperties, LogConcats
  <2>2. /\ more \in Seq(EventSet) /\ Len(more) = Len(log) + Len(tail)
        /\ \A i \in 1..Len(more) : i > Len(log) => more[i] = tail[i - Len(log)]
    <3>1. /\ more \in Seq(EventSet) /\ Len(more) = Len(log) + Len(tail)
          /\ \A i \in 1..(Len(log) + Len(tail)) : more[i] = IF i <= Len(log) THEN log[i] ELSE tail[i - Len(log)]
      BY <1>1, ConcatProperties
    <3> HIDE DEF more
    <3> QED
      BY <1>1, <2>1, <3>1 DEF l
  <2>3. ASSUME NEW n \in 1..k PROVE more[l + n] = tail[n]
    <3>1. l + n \in 1..Len(more) /\ l + n > Len(log) /\ (l + n) - Len(log) = n
      BY <1>1, <2>1, <2>2
    <3> HIDE DEF more
    <3> QED
      BY <2>2, <3>1
  <2> QED
    BY <1>1, <2>1, <2>2, <2>3
<1>3. open \in Int
  BY <1>2, OwedType
<1> HIDE DEF more, l
<1>4. Owed(more, l) = open
  BY <1>2, OwedStays DEF l
<1> HIDE DEF open
<1>5. ASSUME NEW n \in 1..k PROVE more[l + n].kind = "result" /\ more[l + n].calls = 0
  <2>1. more[l + n] = EventOf("result", 0, 1)
    BY <1>1, <1>2
  <2> HIDE DEF more
  <2> QED
    BY <2>1 DEF EventOf
<1> DEFINE Q == {n \in 0..k : Owed(more, l + n) = open - n}
<1>6. \A n \in 0..k : n \in Q
  <2>1. 0 \in Q
    BY <1>2, <1>3, <1>4
  <2>2. ASSUME NEW n \in 1..k, n - 1 \in Q PROVE n \in Q
    <3> DEFINE i == l + (n - 1)
    <3>1. i \in Nat /\ i < Len(more) /\ i + 1 = l + n /\ Owed(more, i) = open - (n - 1)
      BY <1>2, <2>2
    <3>2. Owed(more, i + 1) = Owed(more, i) + more[i + 1].calls - 1
      <4> HIDE DEF i
      <4> QED
        BY <1>2, <1>5, <3>1, OwedStep
    <3>3. more[i + 1].calls = 0
      BY <1>5, <3>1
    <3> HIDE DEF i
    <3>4. Owed(more, l + n) = open - n
      BY <1>3, <3>1, <3>2, <3>3
    <3> QED
      BY <3>4
  <2> HIDE DEF Q
  <2>3. ASSUME NEW n \in 0..k PROVE n \in Q
    <3>1. n \in Nat /\ \A m \in 1..n : m - 1 \in Q => m \in Q
      BY <2>2
    <3> QED
      BY <2>1, <3>1, UpTo
  <2> QED
    BY <2>3
<1>7. ASSUME NEW n \in (l + 1)..Len(more) PROVE AnsweredAt(more, n)
  <2>1. n - l \in 1..k /\ n = l + (n - l) /\ (n - l) - 1 \in Q /\ n - 1 = l + ((n - l) - 1)
    BY <1>2, <1>6
  <2>2. more[n].kind = "result" /\ more[n].calls = 0
    BY <1>5, <2>1
  <2>3. Owed(more, n - 1) = open - ((n - l) - 1)
    BY <2>1
  <2>4. Owed(more, n - 1) > 0
    <3>1. k <= open
      BY DEF open, l
    <3> QED
      BY <1>2, <1>3, <2>1, <2>3, <3>1
  <2> QED
    BY <2>2, <2>4 DEF AnsweredAt
<1>8. Answered(more)
  BY <1>2, <1>7, AnsweredGrows DEF l
<1>9. Owed(more, Len(more)) = open - k
  BY <1>2, <1>6
<1> QED
  BY <1>2, <1>8, <1>9 DEF more, tail, open, l

(***************************************************************************)
(* Results as they were recorded.                                          *)
(***************************************************************************)
\* How many of R there are up to n.
RankIn(R, n) == Cardinality({i \in R : i <= n})

Recorded(log, R, sizes) ==
  /\ Len(sizes) = Cardinality(R)
  /\ \A n \in R : sizes[RankIn(R, n)] = log[n].size

LEMMA RankIs ==
  ASSUME NEW R \in SUBSET Int, IsFiniteSet(R), NEW n \in R
  PROVE  RankIn(R, n) \in 1..Cardinality(R) /\ Cardinality(R) \in Nat
<1> DEFINE S == {i \in R : i <= n}
<1>1. S \subseteq R /\ n \in S
  OBVIOUS
<1> HIDE DEF S
<1>2. /\ IsFiniteSet(S) /\ Cardinality(S) \in Nat /\ Cardinality(R) \in Nat
      /\ Cardinality(S) <= Cardinality(R)
  BY <1>1, FS_Subset, FS_CardinalityType
<1>3. Cardinality(S) # 0
  BY <1>1, <1>2, FS_EmptySet
<1> QED
  BY <1>2, <1>3 DEF RankIn, S

\* One more after the others.
LEMMA RecordedMore ==
  ASSUME NEW log \in Seq(EventSet), NEW R \in SUBSET Int, IsFiniteSet(R), NEW x \in 1..Len(log), \A y \in R : y < x,
         NEW sizes \in Seq(Nat), Recorded(log, R, sizes)
  PROVE  Recorded(log, R \cup {x}, Append(sizes, log[x].size)) /\ Append(sizes, log[x].size) \in Seq(Nat)
<1> DEFINE more == Append(sizes, log[x].size)
           c == Cardinality(R)
<1>0. x \in Int
  BY LenProperties
<1>1. x \in Int /\ x \notin R /\ c \in Nat /\ Cardinality(R \cup {x}) = c + 1
  <2>1. x \notin R
    BY <1>0
  <2> QED
    BY <1>0, <2>1, FS_AddElement, FS_CardinalityType
<1>2. log[x].size \in Nat /\ Len(sizes) = c
  <2>1. log[x] \in EventSet
    BY Indices
  <2> QED
    BY <2>1 DEF EventSet, Recorded
<1>3. /\ more \in Seq(Nat) /\ Len(more) = c + 1 /\ more[c + 1] = log[x].size
      /\ \A k \in 1..c : more[k] = sizes[k]
  BY <1>2, AppendProperties
<1>4. RankIn(R \cup {x}, x) = c + 1
  <2>1. {i \in R \cup {x} : i <= x} = R \cup {x}
    <3>1. \A i \in R \cup {x} : i <= x
      BY <1>1
    <3> QED
      BY <3>1
  <2> QED
    BY <1>1, <2>1 DEF RankIn
<1>5. ASSUME NEW n \in R PROVE RankIn(R \cup {x}, n) = RankIn(R, n) /\ RankIn(R, n) \in 1..c
  <2>1. {i \in R \cup {x} : i <= n} = {i \in R : i <= n}
    <3>1. n < x /\ n \in Int
      OBVIOUS
    <3>2. \A i \in R \cup {x} : i <= n => i \in R
      BY <1>1, <3>1
    <3> QED
      BY <3>2
  <2>2. RankIn(R, n) \in 1..Cardinality(R)
    BY RankIs
  <2> QED
    BY <2>1, <2>2 DEF RankIn
<1> HIDE DEF more, c
<1>6. ASSUME NEW n \in R PROVE more[RankIn(R \cup {x}, n)] = log[n].size
  BY <1>3, <1>5 DEF Recorded
<1>7. more[RankIn(R \cup {x}, x)] = log[x].size
  BY <1>3, <1>4
<1> QED
  BY <1>1, <1>3, <1>6, <1>7 DEF Recorded, more

LEMMA NothingRecorded == ASSUME NEW log PROVE Recorded(log, {}, <<>>)
  BY FS_EmptySet DEF Recorded

(***************************************************************************)
(* The messages of a projection.                                           *)
(***************************************************************************)
\* What the k-th message says of the log.
Told(log, messages, k) ==
  /\ k > 1 => messages[k - 1].at < messages[k].at
  /\ messages[k].kind \in Spoken =>
       messages[k] = Message(log[messages[k].at].kind, messages[k].at, <<log[messages[k].at].size>>)
  /\ messages[k].kind = "results" =>
       /\ k > 1 /\ messages[k - 1].kind = "response"
       /\ Len(messages[k].sizes) = log[messages[k - 1].at].calls
       /\ Recorded(log, Results(log, messages[k - 1].at, messages[k].at), messages[k].sizes)

\* Its calls have their results.
Followed(log, messages, k) ==
  messages[k].kind = "response" /\ log[messages[k].at].calls > 0 =>
    k < Len(messages) /\ messages[k + 1].kind = "results"

SpokenAt(messages) == {messages[k].at : k \in {j \in DOMAIN messages : messages[j].kind \in Spoken}}

\* The results of the last response that are there, when some are missing.
Waiting(log, n, state) ==
  LET messages == state.messages
      last     == messages[Len(messages)]
  IN  /\ Len(messages) > 0 /\ last.kind = "response" /\ last.at <= n
      /\ Len(state.results) + state.pending = log[last.at].calls
      /\ Recorded(log, Results(log, last.at, n), state.results)

Reading(log, from, n, state) ==
  /\ state \in ReadStates /\ state.pending = Owed(log, n)
  /\ SpokenAt(state.messages) = Kinds(log, Spoken, from, n)
  /\ \A k \in 1..Len(state.messages) :
       /\ Told(log, state.messages, k)
       /\ state.messages[k].at \in (from + 1)..n /\ state.messages[k].kind # "summary"
       /\ k < Len(state.messages) \/ state.pending = 0 => Followed(log, state.messages, k)
  /\ state.pending = 0 => state.results = <<>>
  /\ state.pending > 0 => Waiting(log, n, state)

\* A message that follows the others.
Appended(log, messages, m, more) ==
  /\ more \in Seq(MessageSet) /\ Len(more) = Len(messages) + 1 /\ more[Len(more)] = m
  /\ \A k \in 1..Len(messages) : more[k] = messages[k] /\ (Told(log, messages, k) => Told(log, more, k))
  /\ \A k \in 1..Len(messages) : Followed(log, messages, k) => Followed(log, more, k)
  /\ Len(messages) > 0 /\ m.kind = "results" => Followed(log, more, Len(messages))
  /\ m.kind \in Spoken => SpokenAt(more) = SpokenAt(messages) \cup {m.at}
  /\ m.kind \notin Spoken => SpokenAt(more) = SpokenAt(messages)

LEMMA MessageAppends ==
  ASSUME NEW log, NEW messages \in Seq(MessageSet), NEW m \in MessageSet
  PROVE  Appended(log, messages, m, Append(messages, m))
<1> DEFINE more == Append(messages, m)
           l == Len(messages)
<1>1. /\ more \in Seq(MessageSet) /\ Len(more) = l + 1 /\ l \in Nat /\ more[l + 1] = m
      /\ \A k \in 1..l : more[k] = messages[k]
  BY AppendProperties, LenProperties
<1>2. DOMAIN messages = 1..l /\ DOMAIN more = 1..(l + 1)
  BY <1>1, Indices
<1> HIDE DEF more, l
<1>3. ASSUME NEW k \in 1..l, Told(log, messages, k) PROVE Told(log, more, k)
  <2>1. more[k] = messages[k] /\ (k > 1 => more[k - 1] = messages[k - 1])
    BY <1>1
  <2> QED
    BY <1>3, <2>1 DEF Told
<1>4. ASSUME NEW k \in 1..(l - 1), Followed(log, messages, k) PROVE Followed(log, more, k)
  <2>1. more[k] = messages[k] /\ more[k + 1] = messages[k + 1] /\ k < Len(more)
    BY <1>1
  <2> QED
    BY <1>4, <2>1 DEF Followed
<1>5. l > 0 /\ m.kind = "results" => Followed(log, more, l)
  BY <1>1 DEF Followed
<1>6. l > 0 /\ Followed(log, messages, l) => Followed(log, more, l)
  <2>1. ASSUME l > 0, Followed(log, messages, l) PROVE Followed(log, more, l)
    <3>1. ~ (messages[l].kind = "response" /\ log[messages[l].at].calls > 0) /\ more[l] = messages[l]
      BY <1>1, <2>1 DEF Followed, l
    <3> QED
      BY <3>1 DEF Followed
  <2> QED
    BY <2>1
<1>7. /\ m.kind \in Spoken => SpokenAt(more) = SpokenAt(messages) \cup {m.at}
      /\ m.kind \notin Spoken => SpokenAt(more) = SpokenAt(messages)
  <2>1. SpokenAt(more) = {more[k].at : k \in {j \in 1..(l + 1) : more[j].kind \in Spoken}}
    BY <1>2 DEF SpokenAt
  <2>2. SpokenAt(messages) = {messages[k].at : k \in {j \in 1..l : messages[j].kind \in Spoken}}
    BY <1>2 DEF SpokenAt
  <2>3. ASSUME NEW x PROVE x \in SpokenAt(more) <=> x \in SpokenAt(messages) \/ (m.kind \in Spoken /\ x = m.at)
    <3>1. ASSUME x \in SpokenAt(more) PROVE x \in SpokenAt(messages) \/ (m.kind \in Spoken /\ x = m.at)
      <4>1. PICK k \in 1..(l + 1) : more[k].kind \in Spoken /\ x = more[k].at
        BY <2>1, <3>1
      <4>2. CASE k = l + 1
        BY <1>1, <4>1, <4>2
      <4>3. CASE k # l + 1
        <5>1. k \in 1..l /\ more[k] = messages[k]
          BY <1>1, <4>3
        <5> QED
          BY <2>2, <4>1, <5>1
      <4> QED
        BY <4>2, <4>3
    <3>2. ASSUME x \in SpokenAt(messages) PROVE x \in SpokenAt(more)
      <4>1. PICK k \in 1..l : messages[k].kind \in Spoken /\ x = messages[k].at
        BY <2>2, <3>2
      <4>2. k \in 1..(l + 1) /\ more[k] = messages[k]
        BY <1>1
      <4> QED
        BY <2>1, <4>1, <4>2
    <3>3. ASSUME m.kind \in Spoken, x = m.at PROVE x \in SpokenAt(more)
      <4>1. l + 1 \in 1..(l + 1)
        BY <1>1
      <4> QED
        BY <1>1, <2>1, <3>3, <4>1
    <3> QED
      BY <3>1, <3>2, <3>3
  <2> HIDE DEF SpokenAt
  <2> QED
    BY <2>3
<1> QED
  <2>1. ASSUME NEW k \in 1..l, Followed(log, messages, k) PROVE Followed(log, more, k)
    <3>1. k = l \/ k \in 1..(l - 1)
      BY <1>1
    <3> QED
      BY <1>1, <1>4, <1>6, <2>1, <3>1
  <2> QED
    BY <1>1, <1>3, <1>5, <1>7, <2>1 DEF Appended, more, l

\* One more event read.
LEMMA ReadIs ==
  ASSUME NEW state \in ReadStates, NEW i
  PROVE  LET e == events[i] IN
         /\ e.kind \in Spoken =>
              Read(state, i) = [messages |-> Append(state.messages, Message(e.kind, i, <<e.size>>)),
                                pending |-> IF e.kind = "response" THEN e.calls ELSE state.pending,
                                results |-> state.results]
         /\ e.kind = "result" /\ state.pending = 1 =>
              Read(state, i) = [messages |-> Append(state.messages,
                                                    Message("results", i, Append(state.results, e.size))),
                                pending |-> 0, results |-> <<>>]
         /\ e.kind = "result" /\ state.pending > 1 =>
              Read(state, i) = [messages |-> state.messages, pending |-> state.pending - 1,
                                results |-> Append(state.results, e.size)]
         /\ e.kind = "end" => Read(state, i) = state
<1>1. state = [messages |-> state.messages, pending |-> state.pending, results |-> state.results]
      /\ state.pending \in Nat
  BY DEF ReadStates
<1> DEFINE e == events[i]
<1>2. ASSUME e.kind \in Spoken
      PROVE  Read(state, i) = [messages |-> Append(state.messages, Message(e.kind, i, <<e.size>>)),
                               pending |-> IF e.kind = "response" THEN e.calls ELSE state.pending,
                               results |-> state.results]
  BY <1>1, <1>2 DEF Read, Spoken
<1>3. ASSUME e.kind = "result", state.pending = 1
      PROVE  Read(state, i) = [messages |-> Append(state.messages,
                                                   Message("results", i, Append(state.results, e.size))),
                               pending |-> 0, results |-> <<>>]
  BY <1>3 DEF Read
<1>4. ASSUME e.kind = "result", state.pending > 1
      PROVE  Read(state, i) = [messages |-> state.messages, pending |-> state.pending - 1,
                               results |-> Append(state.results, e.size)]
  <2>1. Read(state, i) = [state EXCEPT !.pending = @ - 1, !.results = Append(@, e.size)]
    BY <1>1, <1>4 DEF Read
  <2> HIDE DEF e
  <2> QED
    BY <1>1, <2>1
<1>5. ASSUME e.kind = "end" PROVE Read(state, i) = state
  BY <1>5 DEF Read
<1> HIDE DEF e
<1> QED
  BY <1>2, <1>3, <1>4, <1>5 DEF e

\* The parts of a state that follows.
LEMMA StateIs ==
  ASSUME NEW messages \in Seq(MessageSet), NEW pending \in Nat, NEW given \in Seq(Nat)
  PROVE  LET state == [messages |-> messages, pending |-> pending, results |-> given] IN
         /\ state \in ReadStates
         /\ state.messages = messages /\ state.pending = pending /\ state.results = given
  BY DEF ReadStates

LEMMA MessageIs ==
  ASSUME NEW kind \in Spoken \cup {"results", "summary"}, NEW at \in Nat, NEW sizes \in Seq(Nat)
  PROVE  LET m == Message(kind, at, sizes) IN
         m \in MessageSet /\ m.kind = kind /\ m.at = at /\ m.sizes = sizes
  BY DEF Message, MessageSet, Spoken

\* A prompt or a response.
LEMMA ReadSpoken ==
  ASSUME NEW log \in Seq(EventSet), Answered(log), NEW from \in Nat, NEW n \in Nat, from <= n, n < Len(log),
         NEW state, Reading(log, from, n, state), log[n + 1].kind \in Spoken
  PROVE  Reading(log, from, n + 1,
                 [messages |-> Append(state.messages, Message(log[n + 1].kind, n + 1, <<log[n + 1].size>>)),
                  pending |-> IF log[n + 1].kind = "response" THEN log[n + 1].calls ELSE state.pending,
                  results |-> state.results])
<1> DEFINE i == n + 1
           e == log[i]
           m == Message(e.kind, i, <<e.size>>)
           messages == state.messages
           more == Append(messages, m)
           l == Len(messages)
           pending == IF e.kind = "response" THEN e.calls ELSE state.pending
           next == [messages |-> more, pending |-> pending, results |-> state.results]
<1>1. /\ i \in Nat /\ i \in 1..Len(log) /\ i - 1 = n /\ e \in EventSet /\ e.size \in Nat /\ e.calls \in Nat
      /\ Len(log) \in Nat /\ AnsweredAt(log, i) /\ e.kind \in Spoken
  <2>1. Len(log) \in Nat /\ i \in 1..Len(log) /\ i - 1 = n
    BY LenProperties
  <2>2. e \in EventSet
    BY <2>1, Indices
  <2> QED
    BY <2>1, <2>2 DEF EventSet, Answered
<1>2. /\ messages \in Seq(MessageSet) /\ state.pending \in Nat /\ state.results \in Seq(Nat) /\ state \in ReadStates
      /\ l \in Nat
  BY LenProperties DEF Reading, ReadStates
<1>3. Owed(log, n) = 0 /\ state.pending = 0 /\ state.results = <<>> /\ pending = Owed(log, i) /\ pending \in Nat
  <2>1. Owed(log, n) = 0 /\ (e.kind # "response" => e.calls = 0)
    BY <1>1 DEF AnsweredAt, Spoken
  <2>2. Owed(log, n + 1) = Owed(log, n) + log[n + 1].calls
    BY <1>1, OwedStep DEF Spoken
  <2> QED
    BY <1>1, <2>1, <2>2 DEF Reading
<1>4. m \in MessageSet /\ m.kind = e.kind /\ m.at = i /\ m.sizes = <<e.size>>
  <2>1. <<e.size>> \in Seq(Nat)
    BY <1>1
  <2> HIDE DEF e, i
  <2> QED
    BY <1>1, <2>1 DEF Message, MessageSet, Spoken
<1> HIDE DEF m, e, more, l, pending, messages
<1>5. /\ more \in Seq(MessageSet) /\ Len(more) = l + 1 /\ more[l + 1] = m
      /\ \A k \in 1..l : /\ more[k] = messages[k] /\ (Told(log, messages, k) => Told(log, more, k))
                         /\ Followed(log, messages, k) => Followed(log, more, k)
      /\ SpokenAt(more) = SpokenAt(messages) \cup {i}
  <2>1. Appended(log, messages, m, more)
    BY <1>2, <1>4, MessageAppends DEF more
  <2> QED
    BY <1>1, <1>4, <2>1 DEF Appended, l
<1>6. /\ SpokenAt(messages) = Kinds(log, Spoken, from, n)
      /\ \A k \in 1..l : /\ Told(log, messages, k) /\ Followed(log, messages, k)
                         /\ messages[k].at \in (from + 1)..n /\ messages[k].kind # "summary"
  BY <1>3 DEF Reading, messages, l
<1>7. SpokenAt(more) = Kinds(log, Spoken, from, i)
  <2>1. Kinds(log, Spoken, from, i) = Kinds(log, Spoken, from, n) \cup {i}
    <3>1. log[n + 1].kind \in Spoken
      BY <1>1 DEF e
    <3> QED
      BY <3>1, SpokenMore
  <2> QED
    BY <1>5, <1>6, <2>1
<1>8. Told(log, more, l + 1)
  <2>1. l + 1 > 1 => more[(l + 1) - 1].at < i
    <3>1. ASSUME l > 0 PROVE more[l].at < i
      <4>1. l \in 1..l /\ more[l] = messages[l] /\ messages[l].at \in (from + 1)..n
        BY <1>2, <1>5, <1>6, <3>1
      <4> QED
        BY <4>1
    <3>2. (l + 1) - 1 = l
      BY <1>2
    <3> QED
      BY <1>2, <3>1, <3>2
  <2>2. m = Message(log[i].kind, i, <<log[i].size>>)
    BY DEF m, e
  <2> QED
    BY <1>1, <1>4, <1>5, <2>1, <2>2 DEF Told, Spoken
<1>9. pending = 0 => Followed(log, more, l + 1)
  <2>1. ASSUME pending = 0, more[l + 1].kind = "response", log[more[l + 1].at].calls > 0 PROVE FALSE
    <3>1. e.kind = "response" /\ e.calls > 0
      BY <1>4, <1>5, <2>1 DEF e
    <3> QED
      BY <1>1, <2>1, <3>1 DEF pending
  <2> QED
    BY <2>1 DEF Followed
<1>10. ASSUME NEW k \in 1..Len(more)
       PROVE  /\ Told(log, more, k) /\ more[k].at \in (from + 1)..i /\ more[k].kind # "summary"
              /\ k < Len(more) \/ pending = 0 => Followed(log, more, k)
  <2>1. CASE k = l + 1
    BY <1>1, <1>4, <1>5, <1>8, <1>9, <2>1 DEF Spoken
  <2>2. CASE k # l + 1
    <3>1. k \in 1..l
      BY <1>2, <1>5, <2>2
    <3>2. more[k].at \in (from + 1)..i
      <4>1. more[k].at \in (from + 1)..n
        BY <1>5, <1>6, <3>1
      <4> QED
        BY <4>1, Within
    <3>3. Followed(log, more, k)
      BY <1>5, <1>6, <3>1
    <3> QED
      BY <1>5, <1>6, <3>1, <3>2, <3>3
  <2> QED
    BY <2>1, <2>2
<1>11. next \in ReadStates /\ next.messages = more /\ next.pending = pending /\ next.results = <<>>
  BY <1>2, <1>3, <1>5, StateIs
<1> HIDE DEF next, i
<1>12. pending > 0 => Waiting(log, i, next)
  <2>1. ASSUME pending > 0 PROVE e.kind = "response" /\ pending = e.calls
    BY <1>3, <2>1 DEF pending
  <2>2. Results(log, i, i) = {}
    BY <1>1 DEF Results, Kinds
  <2>3. Len(<<>>) = 0 /\ Recorded(log, Results(log, i, i), <<>>)
    BY <2>2, NothingRecorded
  <2>4. Len(more) > 0 /\ more[Len(more)] = m
    BY <1>2, <1>5
  <2> QED
    BY <1>1, <1>3, <1>4, <1>11, <2>1, <2>3, <2>4 DEF Waiting, e
<1>13. Reading(log, from, i, next)
  BY <1>3, <1>7, <1>10, <1>11, <1>12 DEF Reading
<1> QED
  BY <1>13 DEF next, i, e, m, more, messages, pending

\* What is known of an event that is no message of its own.
LEMMA NotSpoken ==
  ASSUME NEW log \in Seq(EventSet), Answered(log), NEW n \in Nat, n < Len(log), log[n + 1].kind \notin Spoken
  PROVE  /\ log[n + 1].kind \in {"result", "end"} /\ log[n + 1].size \in Nat /\ n + 1 \in 1..Len(log)
         /\ Owed(log, n) \in Int
         /\ log[n + 1].kind = "result" => Owed(log, n) > 0 /\ Owed(log, n + 1) = Owed(log, n) - 1
         /\ log[n + 1].kind = "end" => Owed(log, n + 1) = Owed(log, n)
<1> DEFINE i == n + 1
           e == log[i]
<1>1. /\ i \in 1..Len(log) /\ i - 1 = n /\ e \in EventSet /\ e.size \in Nat
      /\ AnsweredAt(log, i) /\ e.kind \notin Spoken
  <2>1. Len(log) \in Nat /\ i \in 1..Len(log) /\ i - 1 = n
    BY LenProperties
  <2>2. e \in EventSet
    BY <2>1, Indices
  <2> QED
    BY <2>1, <2>2 DEF EventSet, Answered
<1>2. e.kind \in {"result", "end"}
  BY <1>1 DEF EventSet, Spoken
<1>3. /\ Owed(log, n) \in Int
      /\ e.kind = "result" => Owed(log, i) = Owed(log, n) + e.calls - 1
      /\ e.kind # "result" => Owed(log, i) = Owed(log, n) + e.calls
  BY OwedStep
<1> HIDE DEF e, i
<1>4. e.calls = 0 /\ (e.kind = "result" => Owed(log, n) > 0)
  BY <1>1, <1>2 DEF AnsweredAt, e
<1> QED
  BY <1>1, <1>2, <1>3, <1>4 DEF e, i

\* A result with others missing yet.
LEMMA ReadResult ==
  ASSUME NEW log \in Seq(EventSet), Answered(log), NEW from \in Nat, NEW n \in Nat, from <= n, n < Len(log),
         NEW state, Reading(log, from, n, state), log[n + 1].kind = "result", state.pending > 1
  PROVE  Reading(log, from, n + 1,
                 [messages |-> state.messages, pending |-> state.pending - 1,
                  results |-> Append(state.results, log[n + 1].size)])
<1> DEFINE i == n + 1
           messages == state.messages
           l == Len(messages)
           more == Append(state.results, log[i].size)
           pending == state.pending - 1
           next == [messages |-> messages, pending |-> pending, results |-> more]
           last == messages[l]
<1>1. /\ log[i].size \in Nat /\ i \in 1..Len(log) /\ Owed(log, n) \in Int /\ Owed(log, i) = Owed(log, n) - 1
  BY NotSpoken DEF Spoken
<1>2. /\ messages \in Seq(MessageSet) /\ state.pending \in Nat /\ state.results \in Seq(Nat) /\ l \in Nat
      /\ state.pending = Owed(log, n) /\ Waiting(log, n, state)
  BY LenProperties DEF Reading, ReadStates
<1>3. /\ l > 0 /\ last.kind = "response" /\ last.at <= n /\ last.at \in Nat
      /\ Len(state.results) + state.pending = log[last.at].calls
      /\ Recorded(log, Results(log, last.at, n), state.results)
  <2>1. /\ l > 0 /\ last.kind = "response" /\ last.at <= n
        /\ Len(state.results) + state.pending = log[last.at].calls
        /\ Recorded(log, Results(log, last.at, n), state.results)
    BY <1>2 DEF Waiting
  <2>2. last \in MessageSet
    BY <1>2, <2>1, Indices
  <2>3. last.at \in Nat
    BY <2>2 DEF MessageSet
  <2> HIDE DEF last, l, messages
  <2> QED
    BY <2>1, <2>3
<1> HIDE DEF last, l, messages
<1>4. /\ Results(log, last.at, i) = Results(log, last.at, n) \cup {i}
      /\ Results(log, last.at, n) \in SUBSET Int /\ IsFiniteSet(Results(log, last.at, n))
      /\ \A y \in Results(log, last.at, n) : y < i
  <2>1. Results(log, last.at, n + 1) = Results(log, last.at, n) \cup {n + 1}
    <3> DEFINE x == last.at
    <3>1. x \in Nat /\ x <= n
      BY <1>3
    <3> HIDE DEF x, i, next, more
    <3>2. Results(log, x, n + 1) = Results(log, x, n) \cup {n + 1}
      BY <3>1, OneMoreResult
    <3> QED
      BY <3>2 DEF x
  <2>2. Results(log, last.at, n) \in SUBSET Int /\ IsFiniteSet(Results(log, last.at, n))
    BY <1>3, ResultsAre
  <2>3. \A y \in Results(log, last.at, n) : y < i
    BY <1>3 DEF Results, Kinds
  <2> QED
    BY <2>1, <2>2, <2>3
<1>5. /\ more \in Seq(Nat) /\ Len(more) = Len(state.results) + 1
      /\ Recorded(log, Results(log, last.at, i), more)
  <2> DEFINE R == Results(log, last.at, n)
  <2>1. Recorded(log, R \cup {i}, more) /\ more \in Seq(Nat)
    <3> HIDE DEF R, i
    <3> QED
      BY <1>1, <1>2, <1>3, <1>4, RecordedMore DEF R
  <2>2. Len(more) = Len(state.results) + 1
    BY <1>1, <1>2, AppendProperties
  <2> QED
    BY <1>4, <2>1, <2>2
<1> HIDE DEF more
<1>6. pending \in Nat /\ pending > 0 /\ pending = Owed(log, i)
  <2> DEFINE p == state.pending
             was == Owed(log, n)
             is == Owed(log, i)
  <2>1. p \in Nat /\ p > 1 /\ p = was /\ is = was - 1
    BY <1>1, <1>2
  <2> HIDE DEF p, was, is
  <2>2. p - 1 \in Nat /\ p - 1 > 0 /\ p - 1 = is
    BY <2>1
  <2> QED
    BY <2>2 DEF p, is
<1>7. next \in ReadStates /\ next.messages = messages /\ next.pending = pending /\ next.results = more
  <2> HIDE DEF pending
  <2> QED
    BY <1>2, <1>5, <1>6, StateIs
<1>8. Len(state.results) \in Nat
  BY <1>2, LenProperties
<1>9. Len(more) + pending = log[last.at].calls
  <2> DEFINE p == state.pending
             x == Len(state.results)
             y == Len(more)
             c == log[last.at].calls
  <2>1. p \in Nat /\ x \in Nat /\ x + p = c /\ y = x + 1
    BY <1>2, <1>3, <1>5, <1>8
  <2> HIDE DEF p, x, y, c
  <2>2. y + (p - 1) = c
    BY <2>1
  <2> QED
    BY <2>2 DEF p, y, c
<1> HIDE DEF next, pending
<1>10. Waiting(log, i, next)
  <2>1. next.messages[Len(next.messages)] = last /\ Len(next.messages) = l
    BY <1>7 DEF last, l
  <2>2. last.at <= i
    BY <1>3
  <2> QED
    BY <1>3, <1>5, <1>7, <1>9, <2>1, <2>2 DEF Waiting
<1>11. SpokenAt(messages) = Kinds(log, Spoken, from, i)
  <2>1. log[n + 1].kind \notin Spoken
    BY DEF Spoken
  <2>2. Kinds(log, Spoken, from, n + 1) = Kinds(log, Spoken, from, n)
    BY <2>1, SpokenMore
  <2> QED
    BY <2>2 DEF Reading, messages
<1>12. ASSUME NEW k \in 1..Len(messages)
       PROVE  /\ Told(log, messages, k) /\ messages[k].at \in (from + 1)..i /\ messages[k].kind # "summary"
              /\ k < Len(messages) => Followed(log, messages, k)
  <2>1. \A j \in 1..Len(state.messages) :
          /\ Told(log, state.messages, j) /\ state.messages[j].at \in (from + 1)..n
          /\ state.messages[j].kind # "summary"
          /\ j < Len(state.messages) => Followed(log, state.messages, j)
    BY DEF Reading
  <2> QED
    BY <2>1, Within DEF messages
<1>13. Reading(log, from, i, next)
  BY <1>6, <1>7, <1>10, <1>11, <1>12 DEF Reading
<1> QED
  BY <1>13 DEF next, i, more, messages, pending

\* The last result of a response.
LEMMA ReadLastResult ==
  ASSUME NEW log \in Seq(EventSet), Answered(log), NEW from \in Nat, NEW n \in Nat, from <= n, n < Len(log),
         NEW state, Reading(log, from, n, state), log[n + 1].kind = "result", state.pending = 1
  PROVE  Reading(log, from, n + 1,
                 [messages |-> Append(state.messages,
                                      Message("results", n + 1, Append(state.results, log[n + 1].size))),
                  pending |-> 0, results |-> <<>>])
<1> DEFINE i == n + 1
           messages == state.messages
           l == Len(messages)
           sizes == Append(state.results, log[i].size)
           m == Message("results", i, sizes)
           more == Append(messages, m)
           next == [messages |-> more, pending |-> 0, results |-> <<>>]
           last == messages[l]
<1>1. /\ log[i].size \in Nat /\ i \in 1..Len(log) /\ i \in Nat /\ Owed(log, n) \in Int /\ Owed(log, i) = Owed(log, n) - 1
  BY NotSpoken DEF Spoken
<1>2. /\ messages \in Seq(MessageSet) /\ state.pending \in Nat /\ state.results \in Seq(Nat) /\ l \in Nat
      /\ state.pending = Owed(log, n) /\ Waiting(log, n, state)
  BY LenProperties DEF Reading, ReadStates
<1>3. /\ l > 0 /\ last.kind = "response" /\ last.at <= n /\ last.at \in Nat
      /\ Len(state.results) + state.pending = log[last.at].calls
      /\ Recorded(log, Results(log, last.at, n), state.results)
  <2>1. /\ l > 0 /\ last.kind = "response" /\ last.at <= n
        /\ Len(state.results) + state.pending = log[last.at].calls
        /\ Recorded(log, Results(log, last.at, n), state.results)
    BY <1>2 DEF Waiting
  <2>2. last \in MessageSet
    BY <1>2, <2>1, Indices
  <2>3. last.at \in Nat
    BY <2>2 DEF MessageSet
  <2> HIDE DEF last, l, messages
  <2> QED
    BY <2>1, <2>3
<1> HIDE DEF last, l, messages
<1>4. /\ Results(log, last.at, i) = Results(log, last.at, n) \cup {i}
      /\ Results(log, last.at, n) \in SUBSET Int /\ IsFiniteSet(Results(log, last.at, n))
      /\ \A y \in Results(log, last.at, n) : y < i
  <2>1. Results(log, last.at, n + 1) = Results(log, last.at, n) \cup {n + 1}
    <3> DEFINE x == last.at
    <3>1. x \in Nat /\ x <= n
      BY <1>3
    <3> HIDE DEF x, i, next, more
    <3>2. Results(log, x, n + 1) = Results(log, x, n) \cup {n + 1}
      BY <3>1, OneMoreResult
    <3> QED
      BY <3>2 DEF x
  <2>2. Results(log, last.at, n) \in SUBSET Int /\ IsFiniteSet(Results(log, last.at, n))
    BY <1>3, ResultsAre
  <2>3. \A y \in Results(log, last.at, n) : y < i
    BY <1>3 DEF Results, Kinds
  <2> QED
    BY <2>1, <2>2, <2>3
<1>5. /\ sizes \in Seq(Nat) /\ Len(sizes) = Len(state.results) + 1
      /\ Recorded(log, Results(log, last.at, i), sizes)
  <2> DEFINE R == Results(log, last.at, n)
  <2>1. Recorded(log, R \cup {i}, sizes) /\ sizes \in Seq(Nat)
    <3> HIDE DEF R, i
    <3> QED
      BY <1>1, <1>2, <1>3, <1>4, RecordedMore DEF R
  <2>2. Len(sizes) = Len(state.results) + 1
    BY <1>1, <1>2, AppendProperties
  <2> QED
    BY <1>4, <2>1, <2>2
<1> HIDE DEF sizes
<1>6. m \in MessageSet /\ m.kind = "results" /\ m.at = i /\ m.sizes = sizes
  <2> HIDE DEF i
  <2> QED
    BY <1>1, <1>5 DEF Message, MessageSet
<1> HIDE DEF m, more
<1>7. /\ more \in Seq(MessageSet) /\ Len(more) = l + 1 /\ more[l + 1] = m
      /\ \A k \in 1..l : /\ more[k] = messages[k] /\ (Told(log, messages, k) => Told(log, more, k))
                         /\ Followed(log, messages, k) => Followed(log, more, k)
      /\ Followed(log, more, l) /\ SpokenAt(more) = SpokenAt(messages)
  <2>1. Appended(log, messages, m, more)
    BY <1>2, <1>6, MessageAppends DEF more
  <2> QED
    BY <1>3, <1>6, <2>1 DEF Appended, Spoken, l
<1>8. /\ SpokenAt(messages) = Kinds(log, Spoken, from, n)
      /\ \A k \in 1..l : /\ Told(log, messages, k) /\ (k < l => Followed(log, messages, k))
                         /\ messages[k].at \in (from + 1)..n /\ messages[k].kind # "summary"
  BY DEF Reading, messages, l
<1>9. SpokenAt(more) = Kinds(log, Spoken, from, i)
  <2>1. log[n + 1].kind \notin Spoken
    BY DEF Spoken
  <2>2. Kinds(log, Spoken, from, n + 1) = Kinds(log, Spoken, from, n)
    BY <2>1, SpokenMore
  <2> QED
    BY <1>7, <1>8, <2>2
<1>10. l \in 1..l /\ more[l] = last
  BY <1>2, <1>3, <1>7 DEF last
<1>11. Len(sizes) = log[last.at].calls
  <2>1. Len(state.results) \in Nat
    BY <1>2, LenProperties
  <2> QED
    BY <1>3, <1>5, <2>1
<1>12. Told(log, more, l + 1)
  <2>1. (l + 1) - 1 = l /\ l + 1 > 1
    <3>1. l \in Nat /\ l > 0
      BY <1>2, <1>3
    <3> QED
      BY <3>1, OneOn
  <2>2. more[(l + 1) - 1] = last /\ last.at < i
    <3>1. last.at \in Nat /\ last.at <= n
      BY <1>3
    <3>2. last.at < i
      BY <3>1, OneOn
    <3> QED
      BY <1>10, <2>1, <3>2
  <2> HIDE DEF i
  <2> QED
    BY <1>3, <1>5, <1>6, <1>7, <1>11, <2>1, <2>2 DEF Told, Spoken
<1>13. ASSUME NEW k \in 1..Len(more)
       PROVE  /\ Told(log, more, k) /\ more[k].at \in (from + 1)..i /\ more[k].kind # "summary"
              /\ Followed(log, more, k)
  <2>1. CASE k = l + 1
    <3>1. Followed(log, more, k)
      BY <1>6, <1>7, <2>1 DEF Followed
    <3> QED
      BY <1>1, <1>6, <1>7, <1>12, <2>1, <3>1
  <2>2. CASE k # l + 1
    <3>1. k \in 1..l
      BY <1>2, <1>7, <2>2
    <3>2. more[k].at \in (from + 1)..i
      <4>1. more[k].at \in (from + 1)..n
        BY <1>7, <1>8, <3>1
      <4> QED
        BY <4>1, Within
    <3>3. Followed(log, more, k)
      <4>1. k = l \/ k < l
        BY <1>2, <3>1
      <4> QED
        BY <1>7, <1>8, <3>1, <4>1
    <3> QED
      BY <1>7, <1>8, <3>1, <3>2, <3>3
  <2> QED
    BY <2>1, <2>2
<1>14. next \in ReadStates /\ next.messages = more /\ next.pending = 0 /\ next.results = <<>>
  <2>1. <<>> \in Seq(Nat) /\ 0 \in Nat
    OBVIOUS
  <2> QED
    BY <1>7, <2>1, StateIs
<1>15. Owed(log, i) = 0
  BY <1>1, <1>2
<1> HIDE DEF next, i
<1>16. Reading(log, from, i, next)
  BY <1>9, <1>13, <1>14, <1>15 DEF Reading
<1> QED
  BY <1>16 DEF next, i, more, m, sizes, messages

\* The end of a Run.
LEMMA ReadEnd ==
  ASSUME NEW log \in Seq(EventSet), Answered(log), NEW from \in Nat, NEW n \in Nat, from <= n, n < Len(log),
         NEW state, Reading(log, from, n, state), log[n + 1].kind = "end"
  PROVE  Reading(log, from, n + 1, state)
<1> DEFINE i == n + 1
<1>1. Owed(log, i) = Owed(log, n)
  BY NotSpoken DEF Spoken
<1>2. Kinds(log, Spoken, from, i) = Kinds(log, Spoken, from, n)
  <2>1. log[n + 1].kind \notin Spoken
    BY DEF Spoken
  <2>2. Kinds(log, Spoken, from, n + 1) = Kinds(log, Spoken, from, n)
    BY <2>1, SpokenMore
  <2> QED
    BY <2>2
<1>3. ASSUME NEW k \in 1..Len(state.messages), state.messages[k].at \in (from + 1)..n
      PROVE  state.messages[k].at \in (from + 1)..i
  BY <1>3, Within
<1>4. ASSUME Waiting(log, n, state) PROVE Waiting(log, i, state)
  <2> DEFINE last == state.messages[Len(state.messages)]
  <2>1. last.at \in Nat /\ last.at <= n
    <3>1. Len(state.messages) \in 1..Len(state.messages)
      BY <1>4, LenProperties DEF Waiting, Reading, ReadStates
    <3>2. last \in MessageSet
      BY <3>1, Indices DEF Reading, ReadStates
    <3> QED
      BY <1>4, <3>2 DEF Waiting, MessageSet
  <2>2. Results(log, last.at, n + 1) = Results(log, last.at, n) /\ last.at <= i
    <3> DEFINE r == last.at
    <3>1. r \in Nat /\ n \in Nat /\ r <= n /\ log[n + 1].kind # "result" /\ r <= i
      <4>1. r \in Nat /\ r <= n
        BY <2>1
      <4> HIDE DEF r
      <4>2. r < i
        BY <4>1, OneOn
      <4> QED
        BY <4>1, <4>2
    <3> HIDE DEF r, last
    <3>2. Results(log, r, n + 1) = Results(log, r, n)
      BY <3>1 DEF Results, Kinds
    <3>3. r <= i
      BY <3>1
    <3> QED
      BY <3>2, <3>3 DEF r
  <2> QED
    BY <1>4, <2>2 DEF Waiting
<1> HIDE DEF i
<1>5. Reading(log, from, i, state)
  BY <1>1, <1>2, <1>3, <1>4 DEF Reading
<1> QED
  BY <1>5 DEF i

(***************************************************************************)
(* What a whole projection is.                                             *)
(***************************************************************************)
LEMMA ReadOne ==
  ASSUME events \in Seq(EventSet), Answered(events), NEW from \in Nat, NEW n \in Nat, from <= n, n < Len(events),
         NEW state, Reading(events, from, n, state)
  PROVE  Reading(events, from, n + 1, Read(state, n + 1))
<1>1. state \in ReadStates /\ state.pending = Owed(events, n)
  BY DEF Reading
<1> DEFINE e == events[n + 1]
<1>2. CASE e.kind \in Spoken
  <2>1. Read(state, n + 1) = [messages |-> Append(state.messages, Message(e.kind, n + 1, <<e.size>>)),
                              pending |-> IF e.kind = "response" THEN e.calls ELSE state.pending,
                              results |-> state.results]
    BY <1>1, <1>2, ReadIs
  <2> QED
    BY <1>2, <2>1, ReadSpoken
<1>3. CASE e.kind = "result" /\ state.pending = 1
  <2>1. Read(state, n + 1) = [messages |-> Append(state.messages, Message("results", n + 1, Append(state.results, e.size))),
                              pending |-> 0, results |-> <<>>]
    BY <1>1, <1>3, ReadIs
  <2> QED
    BY <1>3, <2>1, ReadLastResult
<1>4. CASE e.kind = "result" /\ state.pending > 1
  <2>1. Read(state, n + 1) = [messages |-> state.messages, pending |-> state.pending - 1,
                              results |-> Append(state.results, e.size)]
    BY <1>1, <1>4, ReadIs
  <2> QED
    BY <1>4, <2>1, ReadResult
<1>5. CASE e.kind = "end"
  <2>1. Read(state, n + 1) = state
    BY <1>1, <1>5, ReadIs
  <2> QED
    BY <1>5, <2>1, ReadEnd
<1>6. ASSUME e.kind \notin Spoken
      PROVE  e.kind = "end" \/ (e.kind = "result" /\ (state.pending = 1 \/ state.pending > 1))
  <2>1. /\ e.kind \in {"result", "end"} /\ Owed(events, n) \in Int
        /\ e.kind = "result" => Owed(events, n) > 0
    BY <1>6, NotSpoken
  <2> HIDE DEF e
  <2> QED
    BY <1>1, <2>1
<1> QED
  BY <1>2, <1>3, <1>4, <1>5, <1>6

LEMMA UpToK ==
  ASSUME NEW n \in Nat, NEW k \in 1..n
  PROVE  /\ 1..k \in SUBSET (1..n) /\ 1..k # {} /\ Max(1..k) = k /\ (1..k) \ {k} = 1..(k - 1)
         /\ 1..(k - 1) \in SUBSET (1..n)
<1>1. 1..k \in SUBSET Int /\ k \in 1..k /\ \A y \in 1..k : k >= y
  OBVIOUS
<1>2. Max(1..k) = k
  BY <1>1, MaxIs
<1>3. 1..k \in SUBSET (1..n) /\ 1..k # {} /\ (1..k) \ {k} = 1..(k - 1) /\ 1..(k - 1) \in SUBSET (1..n)
  OBVIOUS
<1> QED
  BY <1>2, <1>3

\* A projection from where nothing is owed keeps what Reading says.
LEMMA ProjectReads ==
  ASSUME events \in Seq(EventSet), Answered(events), NEW from \in Nat, NEW to \in Nat, from <= to, to <= Len(events),
         Owed(events, from) = 0
  PROVE  Reading(events, from, to, Project(from, to))
<1> DEFINE n == to - from
           g == CHOOSE g : ProjectedIs(from, to, g)
           Q == {k \in 0..n : Reading(events, from, from + k, g[1..k])}
<1>1. n \in Nat /\ Len(events) \in Nat
  BY LenProperties
<1>2. /\ ProjectedIs(from, to, g) /\ DOMAIN Places(from, to) = 1..n
      /\ \A i \in 1..n : Places(from, to)[i] = from + i
      /\ Nothing \in ReadStates
  BY ProjectSolves
<1> HIDE DEF g
<1>3. ASSUME NEW s \in SUBSET (1..n)
      PROVE  g[s] = IF s = {} THEN Nothing ELSE Read(g[s \ {Max(s)}], Places(from, to)[Max(s)])
  BY <1>2 DEF ProjectedIs
<1>4. 0 \in Q
  <2>1. g[1..0] = Nothing
    <3>1. {} \in SUBSET (1..n) /\ 1..0 = {}
      OBVIOUS
    <3>2. g[{}] = Nothing
      BY <1>3, <3>1
    <3> QED
      BY <3>1, <3>2
  <2>2. Reading(events, from, from, Nothing)
    <3>1. /\ Nothing.messages = <<>> /\ Nothing.pending = 0 /\ Nothing.results = <<>>
          /\ Len(<<>>) = 0 /\ DOMAIN <<>> = {}
      BY DEF Nothing
    <3>2. SpokenAt(<<>>) = {} /\ Kinds(events, Spoken, from, from) = {}
      BY DEF SpokenAt, Kinds
    <3>3. \A k \in 1..0 : FALSE
      OBVIOUS
    <3> QED
      BY <1>2, <3>1, <3>2, <3>3 DEF Reading
  <2>3. from + 0 = from
    OBVIOUS
  <2> QED
    BY <1>1, <2>1, <2>2, <2>3
<1>5. ASSUME NEW k \in 1..n, k - 1 \in Q PROVE k \in Q
  <2>1. g[1..k] = Read(g[1..(k - 1)], from + k)
    <3>1. /\ 1..k \in SUBSET (1..n) /\ 1..k # {} /\ Max(1..k) = k /\ (1..k) \ {k} = 1..(k - 1)
      BY <1>1, UpToK
    <3>2. Places(from, to)[k] = from + k
      BY <1>2
    <3> DEFINE s == 1..k
    <3>3. g[s] = IF s = {} THEN Nothing ELSE Read(g[s \ {Max(s)}], Places(from, to)[Max(s)])
      BY <1>3, <3>1
    <3> HIDE DEF s, n
    <3>4. g[s] = Read(g[s \ {k}], from + k)
      BY <3>1, <3>2, <3>3 DEF s
    <3> QED
      BY <3>1, <3>4 DEF s
  <2> DEFINE i == from + (k - 1)
             before == g[1..(k - 1)]
  <2>2. Reading(events, from, i, before) /\ i \in Nat /\ from <= i /\ i < Len(events) /\ i + 1 = from + k
    <3>1. Reading(events, from, i, before)
      BY <1>5
    <3>2. i \in Nat /\ from <= i /\ i < to /\ i + 1 = from + k
      <4> HIDE DEF Q, before
      <4> QED
        OBVIOUS
    <3> HIDE DEF i
    <3>3. i < Len(events)
      BY <1>1, <3>2
    <3> QED
      BY <3>1, <3>2, <3>3
  <2> HIDE DEF i, before
  <2>3. Reading(events, from, i + 1, Read(before, i + 1))
    BY <2>2, ReadOne
  <2> QED
    BY <1>1, <2>1, <2>2, <2>3 DEF before
<1> HIDE DEF Q
<1>6. n \in Q
  BY <1>1, <1>4, <1>5, UpTo
<1>7. Reading(events, from, from + n, g[1..n]) /\ from + n = to
  BY <1>6 DEF Q
<1>8. Project(from, to) = g[1..n]
  BY <1>2, ProjectIs DEF g
<1> QED
  BY <1>7, <1>8

(***************************************************************************)
(* The newest summary of a model.                                          *)
(***************************************************************************)
\* A step that stays in V can be folded from 1 to n.
StepsTo(n, V, b, h, g) ==
  /\ g \in [SUBSET (1..n) -> V]
  /\ \A s \in SUBSET (1..n) : g[s] = IF s = {} THEN b ELSE h[<<Max(s), g[s \ {Max(s)}]>>]

LEMMA StepsFold ==
  ASSUME NEW n \in Nat, NEW V, NEW b \in V, NEW h \in [(1..n) \X V -> V]
  PROVE  \E g : StepsTo(n, V, b, h, g)
<1> DEFINE S == 1..n
           f == [p \in (SUBSET S) \X V |-> IF p[1] = {} THEN b ELSE h[<<Max(p[1]), p[2]>>]]
<1>1. S \in SUBSET Int /\ IsFiniteSet(S)
  BY FS_Interval
<1>2. ASSUME NEW s \in SUBSET S, s # {} PROVE Max(s) \in S
  <2> HIDE DEF S
  <2> QED
    BY <1>1, <1>2, LastIndex
<1> HIDE DEF S
<1>3. f \in [(SUBSET S) \X V -> V]
  BY <1>2 DEF S
<1>4. PICK g : Folds(f, b, V, S, g)
  <2> HIDE DEF f
  <2> QED
    BY <1>1, <1>3, FoldsExist
<1>5. g \in [SUBSET S -> V] /\ \A s \in SUBSET S : g[s] = IF s = {} THEN b ELSE f[<<s, g[s \ {Max(s)}]>>]
  BY <1>4 DEF Folds
<1>6. ASSUME NEW s \in SUBSET S PROVE g[s] = IF s = {} THEN b ELSE h[<<Max(s), g[s \ {Max(s)}]>>]
  <2>1. g[s \ {Max(s)}] \in V
    BY <1>5
  <2> QED
    BY <1>5, <2>1
<1> HIDE DEF f
<1> QED
  BY <1>5, <1>6 DEF S, StepsTo

CheckpointSet == [model : Asked, covered : Nat, size : Nat]

Newer(model, found, c) == IF c.model = model THEN c ELSE found

SavedAre(cps, model, none, g) ==
  g = [s \in SUBSET DOMAIN cps |-> IF s = {} THEN none ELSE Newer(model, g[s \ {Max(s)}], cps[Max(s)])]

LEMMA SavedFolds ==
  Saved = (CHOOSE g : SavedAre(checkpoints, turn.model, NoCheckpoint, g))[DOMAIN checkpoints]
  BY Zenon DEF Saved, FoldLeft, MapThenFoldSet, SavedAre, Newer

\* Of the first n checkpoints, c is the newest of the model, or there is none.
NewestOf(cps, model, n, c) ==
  IF \E i \in 1..n : cps[i].model = model
  THEN \E i \in 1..n : /\ cps[i].model = model /\ c = cps[i]
                       /\ \A j \in 1..n : cps[j].model = model => j <= i
  ELSE c = [model |-> model, covered |-> 0, size |-> 0]

LEMMA NewestMore ==
  ASSUME NEW cps, NEW model, NEW n \in Nat, NEW c, NewestOf(cps, model, n, c)
  PROVE  NewestOf(cps, model, n + 1, Newer(model, c, cps[n + 1]))
<1>1. \A i \in 1..(n + 1) : i \in 1..n \/ i = n + 1
  OBVIOUS
<1>2. n + 1 \in 1..(n + 1) /\ \A i \in 1..n : i \in 1..(n + 1)
  OBVIOUS
<1>3. CASE cps[n + 1].model = model
  <2>1. Newer(model, c, cps[n + 1]) = cps[n + 1]
    BY <1>3 DEF Newer
  <2>2. \A j \in 1..(n + 1) : j <= n + 1
    OBVIOUS
  <2> QED
    BY <1>2, <1>3, <2>1, <2>2 DEF NewestOf
<1>4. CASE cps[n + 1].model # model
  <2>1. Newer(model, c, cps[n + 1]) = c
    BY <1>4 DEF Newer
  <2>2. CASE \E i \in 1..n : cps[i].model = model
    <3>1. PICK i \in 1..n : /\ cps[i].model = model /\ c = cps[i]
                            /\ \A j \in 1..n : cps[j].model = model => j <= i
      BY <2>2 DEF NewestOf
    <3>2. i \in 1..(n + 1) /\ \A j \in 1..(n + 1) : cps[j].model = model => j <= i
      BY <1>1, <1>2, <1>4, <3>1
    <3> QED
      BY <2>1, <3>1, <3>2 DEF NewestOf
  <2>3. CASE ~ \E i \in 1..n : cps[i].model = model
    <3>1. ~ \E i \in 1..(n + 1) : cps[i].model = model
      BY <1>1, <1>4, <2>3
    <3> QED
      BY <2>1, <2>3, <3>1 DEF NewestOf
  <2> QED
    BY <2>2, <2>3
<1> QED
  BY <1>3, <1>4

LEMMA SavedIs ==
  ASSUME checkpoints \in Seq(CheckpointSet), turn \in TurnSet
  PROVE  Saved \in CheckpointSet /\ NewestOf(checkpoints, turn.model, Len(checkpoints), Saved)
<1> DEFINE n == Len(checkpoints)
           model == turn.model
           V == CheckpointSet
           none == NoCheckpoint
           h == [p \in (1..n) \X V |-> Newer(model, p[2], checkpoints[p[1]])]
<1>1. n \in Nat /\ DOMAIN checkpoints = 1..n /\ \A i \in 1..n : checkpoints[i] \in V
  BY Indices
<1>2. none \in V /\ none = [model |-> model, covered |-> 0, size |-> 0]
  BY DEF NoCheckpoint, CheckpointSet, TurnSet
<1> HIDE DEF n, none, V, model
<1>3. h \in [(1..n) \X V -> V]
  BY <1>1 DEF Newer
<1>4. \E g : SavedAre(checkpoints, model, none, g)
  <2>1. PICK g : StepsTo(n, V, none, h, g)
    <3> HIDE DEF h
    <3> QED
      BY <1>1, <1>2, <1>3, StepsFold
  <2>2. ASSUME NEW s \in SUBSET (1..n)
        PROVE  g[s] = IF s = {} THEN none ELSE Newer(model, g[s \ {Max(s)}], checkpoints[Max(s)])
    <3>1. s # {} => Max(s) \in 1..n
      <4>1. 1..n \in SUBSET Int /\ IsFiniteSet(1..n)
        BY <1>1, FS_Interval
      <4> DEFINE S == 1..n
      <4> HIDE DEF S
      <4> QED
        BY <4>1, LastIndex DEF S
    <3>2. g[s \ {Max(s)}] \in V
      BY <2>1 DEF StepsTo
    <3> QED
      BY <2>1, <3>1, <3>2 DEF StepsTo
  <2> QED
    BY <1>1, <2>1, <2>2 DEF SavedAre, StepsTo
<1> DEFINE g == CHOOSE g : SavedAre(checkpoints, model, none, g)
           Q == {k \in 0..n : g[1..k] \in V /\ NewestOf(checkpoints, model, k, g[1..k])}
<1>5. SavedAre(checkpoints, model, none, g)
  BY <1>4
<1> HIDE DEF g, h
<1>6. ASSUME NEW s \in SUBSET (1..n)
      PROVE  g[s] = IF s = {} THEN none ELSE Newer(model, g[s \ {Max(s)}], checkpoints[Max(s)])
  BY <1>1, <1>5 DEF SavedAre
<1>7. 0 \in Q
  <2>1. {} \in SUBSET (1..n) /\ 1..0 = {}
    OBVIOUS
  <2>2. g[1..0] = none
    BY <1>6, <2>1
  <2>3. NewestOf(checkpoints, model, 0, none)
    BY <1>2, <2>1 DEF NewestOf
  <2> QED
    BY <1>1, <1>2, <2>2, <2>3
<1>8. ASSUME NEW k \in 1..n, k - 1 \in Q PROVE k \in Q
  <2> DEFINE s == 1..k
             before == g[1..(k - 1)]
  <2>1. s \in SUBSET (1..n) /\ s # {} /\ Max(s) = k /\ s \ {k} = 1..(k - 1)
    BY <1>1, UpToK
  <2> HIDE DEF s
  <2>2. g[s] = Newer(model, before, checkpoints[k])
    BY <1>6, <2>1
  <2>3. before \in V /\ NewestOf(checkpoints, model, k - 1, before) /\ k - 1 \in Nat /\ (k - 1) + 1 = k
    BY <1>1, <1>8
  <2> HIDE DEF before
  <2>4. NewestOf(checkpoints, model, k, Newer(model, before, checkpoints[k]))
    <3>1. NewestOf(checkpoints, model, (k - 1) + 1, Newer(model, before, checkpoints[(k - 1) + 1]))
      BY <2>3, NewestMore
    <3> QED
      BY <2>3, <3>1
  <2>5. Newer(model, before, checkpoints[k]) \in V
    BY <1>1, <2>3 DEF Newer
  <2> QED
    BY <1>1, <2>2, <2>4, <2>5 DEF s
<1> HIDE DEF Q
<1>9. n \in Q
  BY <1>1, <1>7, <1>8, UpTo
<1>10. Saved = g[1..n]
  BY <1>1, SavedFolds DEF g, model, none
<1> QED
  BY <1>9, <1>10 DEF Q, V, n, model

(***************************************************************************)
(* Folding.                                                                *)
(***************************************************************************)
\* G is F with the p-th block of the i-th message folded.
BlockFolded(F, i, p, G) ==
  /\ G \in Seq(MessageSet) /\ Len(G) = Len(F)
  /\ \A k \in 1..Len(F) : k # i => G[k] = F[k]
  /\ G[i].kind = F[i].kind /\ G[i].at = F[i].at /\ Len(G[i].sizes) = Len(F[i].sizes)
  /\ \A q \in 1..Len(F[i].sizes) : G[i].sizes[q] = IF q = p THEN Placeholder ELSE F[i].sizes[q]

LEMMA FoldBlockIs ==
  ASSUME NEW F \in Seq(MessageSet), NEW i \in 1..Len(F), NEW p \in 1..Len(F[i].sizes)
  PROVE  BlockFolded(F, i, p, FoldBlock(F, <<i, p>>))
<1> DEFINE m == F[i]
           sizes == [m.sizes EXCEPT ![p] = Placeholder]
           new == [m EXCEPT !.sizes = sizes]
           G == FoldBlock(F, <<i, p>>)
<1>1. Placeholder \in Nat
  BY ContextAssumption DEF ContextAssumption
<1>2. /\ DOMAIN F = 1..Len(F) /\ Len(F) \in Nat /\ m \in MessageSet
      /\ \A k \in 1..Len(F) : F[k] \in MessageSet
  BY Indices
<1>3. m.sizes \in Seq(Nat)
  BY <1>2 DEF MessageSet
<1>4. /\ DOMAIN m.sizes = 1..Len(m.sizes) /\ Len(m.sizes) \in Nat
      /\ \A q \in 1..Len(m.sizes) : m.sizes[q] \in Nat
  BY <1>3, Indices
<1>5. /\ sizes \in Seq(Nat) /\ Len(sizes) = Len(m.sizes)
      /\ \A q \in 1..Len(m.sizes) : sizes[q] = IF q = p THEN Placeholder ELSE m.sizes[q]
  <2> DEFINE l == Len(m.sizes)
             old == m.sizes
  <2>1. l \in Nat /\ old \in [1..l -> Nat] /\ p \in 1..l
    BY <1>3, <1>4, LenProperties
  <2> HIDE DEF l, old, m
  <2>2. [old EXCEPT ![p] = Placeholder] \in [1..l -> Nat]
    BY <1>1, <2>1
  <2>3. \A q \in 1..l : [old EXCEPT ![p] = Placeholder][q] = IF q = p THEN Placeholder ELSE old[q]
    BY <2>1
  <2>4. \A f \in [1..l -> Nat] : f \in Seq(Nat) /\ Len(f) = l
    BY <2>1, SizesOf
  <2> QED
    BY <2>2, <2>3, <2>4 DEF l, old
<1> HIDE DEF sizes
<1>6. new \in MessageSet /\ new.kind = m.kind /\ new.at = m.at /\ new.sizes = sizes
  <2> HIDE DEF m
  <2> QED
    BY <1>2, <1>5 DEF MessageSet
<1>7. G = [F EXCEPT ![i] = new]
  BY DEF FoldBlock, sizes
<1> HIDE DEF new, G
<1>8. /\ G \in Seq(MessageSet) /\ Len(G) = Len(F) /\ G[i] = new
      /\ \A k \in 1..Len(F) : k # i => G[k] = F[k]
  <2> DEFINE l == Len(F)
  <2>1. l \in Nat /\ F \in [1..l -> MessageSet] /\ i \in 1..l
    BY <1>2, LenProperties
  <2> HIDE DEF l
  <2>2. G \in [1..l -> MessageSet] /\ G[i] = new /\ \A k \in 1..l : k # i => G[k] = F[k]
    BY <1>6, <1>7, <2>1
  <2>3. G \in Seq(MessageSet) /\ Len(G) = l
    BY <2>1, <2>2
  <2> QED
    BY <2>2, <2>3 DEF l
<1> QED
  BY <1>5, <1>6, <1>8 DEF BlockFolded, G

\* F is L with blocks of old groups folded, each of which a placeholder makes shorter.
BlockKept(now, before) == now = before \/ (now = Placeholder /\ Placeholder < before)

MessageKept(now, before) ==
  /\ now.kind = before.kind /\ now.at = before.at /\ Len(now.sizes) = Len(before.sizes)
  /\ \A q \in 1..Len(before.sizes) : BlockKept(now.sizes[q], before.sizes[q])

FoldedFrom(L, F) ==
  /\ F \in Seq(MessageSet) /\ Len(F) = Len(L)
  /\ \A k \in 1..Len(L) : MessageKept(F[k], L[k]) /\ (k \notin OldGroups(L) => F[k] = L[k])

Short(sizes, n) == \A q \in 1..n : sizes[q] <= Placeholder

\* What the folding of a request still too long left behind: nothing up to the i-th message.
Done(L, F, i) ==
  RequestSize(F) <= Budget \/ \A k \in 1..i : k \in OldGroups(L) => Short(F[k].sizes, Len(F[k].sizes))

PartDone(L, F, i, p) ==
  \/ RequestSize(F) <= Budget
  \/ /\ \A k \in 1..(i - 1) : k \in OldGroups(L) => Short(F[k].sizes, Len(F[k].sizes))
     /\ Short(F[i].sizes, p)

OneBlock(i, folded, p) ==
  IF RequestSize(folded) <= Budget \/ folded[i].sizes[p] <= Placeholder
  THEN folded ELSE FoldBlock(folded, <<i, p>>)

LEMMA OneBlockKeeps ==
  ASSUME NEW L \in Seq(MessageSet), NEW F, FoldedFrom(L, F), NEW i \in 1..Len(L), i \in OldGroups(L),
         NEW p \in 1..Len(L[i].sizes)
  PROVE  /\ FoldedFrom(L, OneBlock(i, F, p))
         /\ PartDone(L, F, i, p - 1) => PartDone(L, OneBlock(i, F, p), i, p)
<1> DEFINE G == FoldBlock(F, <<i, p>>)
<1>1. /\ F \in Seq(MessageSet) /\ Len(F) = Len(L) /\ Len(L) \in Nat /\ MessageKept(F[i], L[i])
      /\ i \in 1..Len(F) /\ Placeholder \in Nat
  BY LenProperties, ContextAssumption DEF FoldedFrom, ContextAssumption
<1>2. p \in 1..Len(F[i].sizes) /\ F[i].sizes[p] \in Nat /\ L[i].sizes[p] \in Nat
      /\ Len(L[i].sizes) \in Nat /\ Len(F[i].sizes) = Len(L[i].sizes)
  <2>1. F[i] \in MessageSet /\ L[i] \in MessageSet
    BY <1>1, Indices
  <2>2. F[i].sizes \in Seq(Nat) /\ L[i].sizes \in Seq(Nat) /\ Len(F[i].sizes) = Len(L[i].sizes)
    BY <1>1, <2>1 DEF MessageSet, MessageKept
  <2> QED
    BY <2>2, Indices
<1>3. BlockFolded(F, i, p, G)
  BY <1>1, <1>2, FoldBlockIs
<1> HIDE DEF G
<1>4. p \in Nat /\ i \in Nat /\ p - 1 \in Nat
  BY <1>1, <1>2
<1>5. CASE RequestSize(F) <= Budget
  <2>1. OneBlock(i, F, p) = F
    BY <1>5 DEF OneBlock
  <2> QED
    BY <1>5, <2>1 DEF PartDone
<1>6. CASE ~ (RequestSize(F) <= Budget) /\ F[i].sizes[p] <= Placeholder
  <2>1. OneBlock(i, F, p) = F
    BY <1>6 DEF OneBlock
  <2>2. Short(F[i].sizes, p - 1) => Short(F[i].sizes, p)
    <3>1. \A q \in 1..p : q = p \/ q \in 1..(p - 1)
      BY <1>4
    <3> QED
      BY <1>6, <3>1 DEF Short
  <2> QED
    BY <1>6, <2>1, <2>2 DEF PartDone
<1>7. CASE ~ (RequestSize(F) <= Budget) /\ ~ (F[i].sizes[p] <= Placeholder)
  <2>1. OneBlock(i, F, p) = G
    BY <1>7 DEF OneBlock, G
  <2>2. F[i].sizes[p] = L[i].sizes[p] /\ Placeholder < L[i].sizes[p]
    <3>1. BlockKept(F[i].sizes[p], L[i].sizes[p])
      BY <1>1 DEF MessageKept
    <3> QED
      <4> DEFINE a == F[i].sizes[p]
                 b == L[i].sizes[p]
      <4>1. a \in Nat /\ b \in Nat /\ Placeholder \in Nat /\ ~ (a <= Placeholder)
            /\ (a = b \/ (a = Placeholder /\ Placeholder < b))
        BY <1>1, <1>2, <1>7, <3>1 DEF BlockKept
      <4> HIDE DEF a, b
      <4>2. a = b /\ Placeholder < b
        BY <4>1
      <4> QED
        BY <4>2 DEF a, b
  <2>3. MessageKept(G[i], L[i])
    <3>1. ASSUME NEW q \in 1..Len(L[i].sizes) PROVE BlockKept(G[i].sizes[q], L[i].sizes[q])
      <4>1. BlockKept(F[i].sizes[q], L[i].sizes[q]) /\ q \in 1..Len(F[i].sizes)
        BY <1>1, <1>2 DEF MessageKept
      <4>2. G[i].sizes[q] = IF q = p THEN Placeholder ELSE F[i].sizes[q]
        BY <1>3, <4>1 DEF BlockFolded
      <4> QED
        BY <2>2, <4>1, <4>2 DEF BlockKept
    <3> QED
      BY <1>1, <1>3, <3>1 DEF MessageKept, BlockFolded
  <2>4. FoldedFrom(L, G)
    <3>1. G \in Seq(MessageSet) /\ Len(G) = Len(L) /\ \A k \in 1..Len(L) : k # i => G[k] = F[k]
      BY <1>1, <1>3 DEF BlockFolded
    <3>2. ASSUME NEW k \in 1..Len(L) PROVE MessageKept(G[k], L[k]) /\ (k \notin OldGroups(L) => G[k] = L[k])
      <4>1. CASE k = i
        BY <2>3, <4>1
      <4>2. CASE k # i
        BY <3>1, <4>2 DEF FoldedFrom
      <4> QED
        BY <4>1, <4>2
    <3> QED
      BY <3>1, <3>2 DEF FoldedFrom
  <2>5. ASSUME PartDone(L, F, i, p - 1) PROVE PartDone(L, G, i, p)
    <3>1. /\ \A k \in 1..(i - 1) : k \in OldGroups(L) => Short(F[k].sizes, Len(F[k].sizes))
          /\ Short(F[i].sizes, p - 1)
      BY <1>7, <2>5 DEF PartDone
    <3>2. \A k \in 1..(i - 1) : G[k] = F[k]
      <4>1. \A k \in 1..(i - 1) : k \in 1..Len(F) /\ k # i
        BY <1>1
      <4> QED
        BY <1>3, <4>1 DEF BlockFolded
    <3>3. ASSUME NEW q \in 1..p PROVE G[i].sizes[q] <= Placeholder
      <4>1. q \in 1..Len(F[i].sizes)
        BY <1>2
      <4>2. G[i].sizes[q] = IF q = p THEN Placeholder ELSE F[i].sizes[q]
        BY <1>3, <4>1 DEF BlockFolded
      <4>3. CASE q = p
        BY <1>1, <4>2, <4>3
      <4>4. CASE q # p
        <5>1. q \in 1..(p - 1)
          BY <1>4, <4>4
        <5> QED
          BY <3>1, <4>2, <4>4, <5>1 DEF Short
      <4> QED
        BY <4>3, <4>4
    <3>4. Short(G[i].sizes, p)
      BY <3>3 DEF Short
    <3> QED
      BY <3>1, <3>2, <3>4 DEF PartDone
  <2> QED
    BY <2>1, <2>4, <2>5
<1> QED
  BY <1>5, <1>6, <1>7

\* The blocks of one message.
BlocksOf(messages, i) == [p \in DOMAIN messages[i].sizes |-> p]

BlocksAre(F, i, g) ==
  g = [s \in SUBSET DOMAIN BlocksOf(F, i) |->
         IF s = {} THEN F ELSE OneBlock(i, g[s \ {Max(s)}], BlocksOf(F, i)[Max(s)])]

LEMMA BlocksFold ==
  \A F, i : FoldBlocks(F, i) = (CHOOSE g : BlocksAre(F, i, g))[DOMAIN BlocksOf(F, i)]
  BY Zenon DEF FoldBlocks, FoldLeft, MapThenFoldSet, BlocksAre, BlocksOf, OneBlock

LEMMA FoldBlocksKeep ==
  ASSUME NEW L \in Seq(MessageSet), NEW F, FoldedFrom(L, F), NEW i \in 1..Len(L), i \in OldGroups(L)
  PROVE  FoldedFrom(L, FoldBlocks(F, i)) /\ (Done(L, F, i - 1) => Done(L, FoldBlocks(F, i), i))
<1> DEFINE n == Len(F[i].sizes)
           V == {G \in Seq(MessageSet) : FoldedFrom(L, G)}
           h == [x \in (1..n) \X V |-> OneBlock(i, x[2], x[1])]
<1>1. /\ F \in Seq(MessageSet) /\ Len(F) = Len(L) /\ i \in 1..Len(F) /\ MessageKept(F[i], L[i])
  BY DEF FoldedFrom
<1>2. F[i].sizes \in Seq(Nat) /\ n = Len(L[i].sizes)
  <2>1. F[i] \in MessageSet
    BY <1>1, Indices
  <2> QED
    BY <1>1, <2>1 DEF MessageSet, MessageKept
<1>3. n \in Nat /\ DOMAIN BlocksOf(F, i) = 1..n /\ \A p \in 1..n : BlocksOf(F, i)[p] = p
  <2>1. DOMAIN F[i].sizes = 1..n /\ n \in Nat
    BY <1>2, Indices
  <2> QED
    BY <2>1 DEF BlocksOf
<1> HIDE DEF n
<1>4. ASSUME NEW G \in V, NEW p \in 1..n
      PROVE  /\ OneBlock(i, G, p) \in V
             /\ PartDone(L, G, i, p - 1) => PartDone(L, OneBlock(i, G, p), i, p)
  <2>1. FoldedFrom(L, G) /\ p \in 1..Len(L[i].sizes)
    BY <1>2
  <2>2. FoldedFrom(L, OneBlock(i, G, p)) /\ (PartDone(L, G, i, p - 1) => PartDone(L, OneBlock(i, G, p), i, p))
    BY <2>1, OneBlockKeeps
  <2> QED
    BY <2>2 DEF FoldedFrom
<1>5. F \in V
  BY <1>1
<1> HIDE DEF V
<1>6. h \in [(1..n) \X V -> V]
  BY <1>4
<1>7. \E g : BlocksAre(F, i, g)
  <2>1. PICK g : StepsTo(n, V, F, h, g)
    <3> HIDE DEF h
    <3> QED
      BY <1>3, <1>5, <1>6, StepsFold
  <2>2. ASSUME NEW s \in SUBSET (1..n)
        PROVE  g[s] = IF s = {} THEN F ELSE OneBlock(i, g[s \ {Max(s)}], BlocksOf(F, i)[Max(s)])
    <3>1. s # {} => Max(s) \in 1..n
      <4>1. 1..n \in SUBSET Int /\ IsFiniteSet(1..n)
        BY <1>3, FS_Interval
      <4> DEFINE S == 1..n
      <4> HIDE DEF S
      <4> QED
        BY <4>1, LastIndex DEF S
    <3>2. g[s \ {Max(s)}] \in V
      BY <2>1 DEF StepsTo
    <3>3. g[s] = IF s = {} THEN F ELSE h[<<Max(s), g[s \ {Max(s)}]>>]
      BY <2>1 DEF StepsTo
    <3> QED
      BY <1>3, <3>1, <3>2, <3>3
  <2>3. g \in [SUBSET (1..n) -> V]
    BY <2>1 DEF StepsTo
  <2>4. BlocksAre(F, i, g)
    <3> HIDE DEF h
    <3> QED
      BY <1>3, <2>2, <2>3 DEF BlocksAre
  <2> QED
    BY <2>4
<1> DEFINE g == CHOOSE g : BlocksAre(F, i, g)
           Q == {k \in 0..n : g[1..k] \in V /\ (Done(L, F, i - 1) => PartDone(L, g[1..k], i, k))}
<1>8. BlocksAre(F, i, g)
  BY <1>7
<1> HIDE DEF g, h
<1>9. ASSUME NEW s \in SUBSET (1..n)
      PROVE  g[s] = IF s = {} THEN F ELSE OneBlock(i, g[s \ {Max(s)}], BlocksOf(F, i)[Max(s)])
  BY <1>3, <1>8 DEF BlocksAre
<1>10. 0 \in Q
  <2>1. {} \in SUBSET (1..n) /\ 1..0 = {}
    OBVIOUS
  <2>2. g[1..0] = F
    BY <1>9, <2>1
  <2>3. Done(L, F, i - 1) => PartDone(L, F, i, 0)
    BY <2>1 DEF Done, PartDone, Short
  <2> QED
    BY <1>3, <1>5, <2>2, <2>3
<1>11. ASSUME NEW k \in 1..n, k - 1 \in Q PROVE k \in Q
  <2> DEFINE s == 1..k
             before == g[1..(k - 1)]
  <2>1. s \in SUBSET (1..n) /\ s # {} /\ Max(s) = k /\ s \ {k} = 1..(k - 1)
    BY <1>3, UpToK
  <2> HIDE DEF s
  <2>2. g[s] = OneBlock(i, before, k)
    BY <1>3, <1>9, <2>1
  <2>3. before \in V /\ (Done(L, F, i - 1) => PartDone(L, before, i, k - 1))
    BY <1>11
  <2> HIDE DEF before
  <2>4. g[s] \in V /\ (Done(L, F, i - 1) => PartDone(L, g[s], i, k))
    BY <1>4, <2>2, <2>3
  <2> QED
    BY <1>3, <2>4 DEF s
<1> HIDE DEF Q
<1>12. n \in Q
  BY <1>3, <1>10, <1>11, UpTo
<1> DEFINE G == g[1..n]
<1>13. G \in V /\ (Done(L, F, i - 1) => PartDone(L, G, i, n)) /\ FoldBlocks(F, i) = G
  BY <1>3, <1>12, BlocksFold DEF Q, g
<1> HIDE DEF G
<1>14. FoldedFrom(L, G)
  BY <1>13 DEF V
<1>15. PartDone(L, G, i, n) => Done(L, G, i)
  <2>1. Len(G[i].sizes) = n
    BY <1>2, <1>14 DEF FoldedFrom, MessageKept
  <2>2. \A k \in 1..i : k = i \/ k \in 1..(i - 1)
    BY LenProperties
  <2> QED
    BY <2>1, <2>2 DEF PartDone, Done
<1> QED
  BY <1>13, <1>14, <1>15

\* The whole request.
OneMessage(L, folded, i) == IF i \in OldGroups(L) THEN FoldBlocks(folded, i) ELSE folded

Numbers(messages) == [i \in DOMAIN messages |-> i]

FoldIs(L, g) ==
  g = [s \in SUBSET DOMAIN Numbers(L) |->
         IF s = {} THEN L ELSE OneMessage(L, g[s \ {Max(s)}], Numbers(L)[Max(s)])]

LEMMA FoldFolds ==
  \A L : Fold(L) = (CHOOSE g : FoldIs(L, g))[DOMAIN Numbers(L)]
  BY Zenon DEF Fold, FoldLeft, MapThenFoldSet, FoldIs, Numbers, OneMessage

LEMMA NotFolded == ASSUME NEW L \in Seq(MessageSet) PROVE FoldedFrom(L, L)
  BY DEF FoldedFrom, MessageKept, BlockKept

LEMMA FoldKeeps ==
  ASSUME NEW L \in Seq(MessageSet)
  PROVE  FoldedFrom(L, Fold(L)) /\ Done(L, Fold(L), Len(L))
<1> DEFINE n == Len(L)
           V == {G \in Seq(MessageSet) : FoldedFrom(L, G)}
           h == [x \in (1..n) \X V |-> OneMessage(L, x[2], x[1])]
<1>1. n \in Nat /\ DOMAIN Numbers(L) = 1..n /\ \A p \in 1..n : Numbers(L)[p] = p
  <2>1. DOMAIN L = 1..n /\ n \in Nat
    BY Indices
  <2> QED
    BY <2>1 DEF Numbers
<1>2. ASSUME NEW G \in V, NEW p \in 1..n
      PROVE  /\ OneMessage(L, G, p) \in V
             /\ Done(L, G, p - 1) => Done(L, OneMessage(L, G, p), p)
  <2>1. CASE p \in OldGroups(L)
    <3>1. FoldedFrom(L, FoldBlocks(G, p)) /\ (Done(L, G, p - 1) => Done(L, FoldBlocks(G, p), p))
      BY <2>1, FoldBlocksKeep
    <3> QED
      BY <2>1, <3>1 DEF OneMessage, FoldedFrom
  <2>2. CASE p \notin OldGroups(L)
    <3>1. OneMessage(L, G, p) = G
      BY <2>2 DEF OneMessage
    <3>2. \A k \in 1..p : k = p \/ k \in 1..(p - 1)
      BY <1>1
    <3> QED
      BY <2>2, <3>1, <3>2 DEF Done
  <2> QED
    BY <2>1, <2>2
<1>3. L \in V
  BY NotFolded
<1> HIDE DEF V, n
<1>4. h \in [(1..n) \X V -> V]
  BY <1>2
<1>5. \E g : FoldIs(L, g)
  <2>1. PICK g : StepsTo(n, V, L, h, g)
    <3> HIDE DEF h
    <3> QED
      BY <1>1, <1>3, <1>4, StepsFold
  <2>2. ASSUME NEW s \in SUBSET (1..n)
        PROVE  g[s] = IF s = {} THEN L ELSE OneMessage(L, g[s \ {Max(s)}], Numbers(L)[Max(s)])
    <3>1. s # {} => Max(s) \in 1..n
      <4>1. 1..n \in SUBSET Int /\ IsFiniteSet(1..n)
        BY <1>1, FS_Interval
      <4> DEFINE S == 1..n
      <4> HIDE DEF S
      <4> QED
        BY <4>1, LastIndex DEF S
    <3>2. g[s \ {Max(s)}] \in V
      BY <2>1 DEF StepsTo
    <3>3. g[s] = IF s = {} THEN L ELSE h[<<Max(s), g[s \ {Max(s)}]>>]
      BY <2>1 DEF StepsTo
    <3> QED
      BY <1>1, <3>1, <3>2, <3>3
  <2>3. g \in [SUBSET (1..n) -> V]
    BY <2>1 DEF StepsTo
  <2>4. FoldIs(L, g)
    <3> HIDE DEF h
    <3> QED
      BY <1>1, <2>2, <2>3 DEF FoldIs
  <2> QED
    BY <2>4
<1> DEFINE g == CHOOSE g : FoldIs(L, g)
           Q == {k \in 0..n : g[1..k] \in V /\ Done(L, g[1..k], k)}
<1>6. FoldIs(L, g)
  BY <1>5
<1> HIDE DEF g, h
<1>7. ASSUME NEW s \in SUBSET (1..n)
      PROVE  g[s] = IF s = {} THEN L ELSE OneMessage(L, g[s \ {Max(s)}], Numbers(L)[Max(s)])
  BY <1>1, <1>6 DEF FoldIs
<1>8. 0 \in Q
  <2>1. {} \in SUBSET (1..n) /\ 1..0 = {}
    OBVIOUS
  <2>2. g[1..0] = L
    BY <1>7, <2>1
  <2>3. Done(L, L, 0)
    BY <2>1 DEF Done
  <2> QED
    BY <1>1, <1>3, <2>2, <2>3
<1>9. ASSUME NEW k \in 1..n, k - 1 \in Q PROVE k \in Q
  <2> DEFINE s == 1..k
             before == g[1..(k - 1)]
  <2>1. s \in SUBSET (1..n) /\ s # {} /\ Max(s) = k /\ s \ {k} = 1..(k - 1)
    BY <1>1, UpToK
  <2> HIDE DEF s
  <2>2. g[s] = OneMessage(L, before, k)
    BY <1>1, <1>7, <2>1
  <2>3. before \in V /\ Done(L, before, k - 1)
    BY <1>9
  <2> HIDE DEF before
  <2>4. g[s] \in V /\ Done(L, g[s], k)
    BY <1>2, <2>2, <2>3
  <2> QED
    BY <1>1, <2>4 DEF s
<1> HIDE DEF Q
<1>10. n \in Q
  BY <1>1, <1>8, <1>9, UpTo
<1>11. g[1..n] \in V /\ Done(L, g[1..n], n) /\ Fold(L) = g[1..n]
  BY <1>1, <1>10, FoldFolds DEF Q, g
<1> QED
  BY <1>11 DEF V, n

(***************************************************************************)
(* A request that is whole.                                                *)
(***************************************************************************)
\* The messages before any of them is folded.
Whole(log, covered, size, L) ==
  /\ L \in Seq(MessageSet)
  /\ covered > 0 => Len(L) > 0 /\ L[1] = Message("summary", covered, <<size>>)
  /\ SpokenAt(L) = Kinds(log, Spoken, covered, Len(log))
  /\ \A k \in 1..Len(L) : /\ Told(log, L, k) /\ Followed(log, L, k)
                          /\ L[k].kind = "summary" => k = 1 /\ covered > 0

\* A summary before the messages.
ComesBefore(log, s, messages) ==
  \A k \in 1..Len(messages) : /\ Told(log, messages, k) /\ Followed(log, messages, k)
                              /\ messages[k].kind # "summary" /\ s.at < messages[k].at

Preceded(log, s, messages, more) ==
  /\ more \in Seq(MessageSet) /\ Len(more) > 0 /\ more[1] = s
  /\ SpokenAt(more) = SpokenAt(messages)
  /\ \A k \in 1..Len(more) : /\ Told(log, more, k) /\ Followed(log, more, k)
                             /\ more[k].kind = "summary" => k = 1

LEMMA SummaryPrepends ==
  ASSUME NEW log, NEW messages \in Seq(MessageSet), NEW s \in MessageSet, s.kind = "summary",
         ComesBefore(log, s, messages)
  PROVE  Preceded(log, s, messages, <<s>> \o messages)
<1> DEFINE more == <<s>> \o messages
           l == Len(messages)
<1>1. /\ more \in Seq(MessageSet) /\ Len(more) = l + 1 /\ l \in Nat /\ more[1] = s
      /\ \A k \in 1..l : more[k + 1] = messages[k]
  <2>1. <<s>> \in Seq(MessageSet) /\ Len(<<s>>) = 1 /\ <<s>>[1] = s /\ l \in Nat
    BY LenProperties
  <2> DEFINE one == <<s>>
  <2> HIDE DEF one, l
  <2>2. /\ one \o messages \in Seq(MessageSet) /\ Len(one \o messages) = Len(one) + Len(messages)
        /\ \A i \in 1..(Len(one) + Len(messages)) :
             (one \o messages)[i] = IF i <= Len(one) THEN one[i] ELSE messages[i - Len(one)]
    BY <2>1, ConcatProperties DEF one
  <2>3. Len(one) = 1 /\ one[1] = s
    BY <2>1 DEF one
  <2> HIDE DEF more
  <2>4. /\ Len(one \o messages) = l + 1
        /\ \A i \in 1..(l + 1) : (one \o messages)[i] = IF i <= 1 THEN one[i] ELSE messages[i - 1]
    BY <2>1, <2>2, <2>3 DEF l
  <2>5. \A k \in 1..l : k + 1 \in 1..(l + 1) /\ ~ (k + 1 <= 1) /\ (k + 1) - 1 = k
    BY <2>1
  <2>6. 1 \in 1..(l + 1)
    BY <2>1
  <2> QED
    BY <2>1, <2>2, <2>3, <2>4, <2>5, <2>6 DEF one, more
<1> HIDE DEF more
<1>2. /\ \A k \in 1..l : Told(log, messages, k) /\ Followed(log, messages, k) /\ messages[k].kind # "summary"
      /\ \A k \in 1..l : s.at < messages[k].at
  BY DEF ComesBefore
<1>3. ASSUME NEW k \in 1..(l + 1)
      PROVE  Told(log, more, k) /\ Followed(log, more, k) /\ (more[k].kind = "summary" => k = 1)
  <2>1. CASE k = 1
    BY <1>1, <2>1 DEF Told, Followed, Spoken
  <2>2. CASE k # 1
    <3> DEFINE j == k - 1
    <3>1. j \in 1..l /\ k = j + 1 /\ more[k] = messages[j] /\ k > 1
      <4>1. j \in 1..l /\ k = j + 1 /\ k > 1
        BY <1>1, <2>2, OneBack
      <4> QED
        BY <1>1, <4>1
    <3>2. more[k - 1] = IF j = 1 THEN s ELSE messages[j - 1]
      <4>1. CASE j = 1
        BY <1>1, <4>1
      <4>2. CASE j # 1
        <5>1. j - 1 \in 1..l /\ (j - 1) + 1 = k - 1
          BY <1>1, <3>1, <4>2
        <5> QED
          BY <1>1, <4>2, <5>1
      <4> QED
        BY <4>1, <4>2
    <3> HIDE DEF j
    <3>3. Told(log, more, k)
      <4>1. CASE j = 1
        BY <1>2, <3>1, <3>2, <4>1 DEF Told
      <4>2. CASE j # 1
        <5>1. j > 1 /\ more[k - 1] = messages[j - 1] /\ Told(log, messages, j)
          BY <1>1, <1>2, <3>1, <3>2, <4>2
        <5> QED
          BY <3>1, <5>1 DEF Told
      <4> QED
        BY <4>1, <4>2
    <3>4. Followed(log, more, k)
      <4>1. ASSUME more[k].kind = "response", log[more[k].at].calls > 0
            PROVE  k < Len(more) /\ more[k + 1].kind = "results"
        <5>1. j < l /\ messages[j + 1].kind = "results"
          BY <1>2, <3>1, <4>1 DEF Followed, l
        <5>2. j + 1 \in 1..l /\ more[(j + 1) + 1] = messages[j + 1]
          BY <1>1, <3>1, <5>1
        <5> QED
          BY <1>1, <3>1, <5>1, <5>2
      <4> QED
        BY <4>1 DEF Followed
    <3> QED
      BY <1>2, <2>2, <3>1, <3>3, <3>4
  <2> QED
    BY <2>1, <2>2
<1>4. SpokenAt(more) = SpokenAt(messages)
  <2>1. DOMAIN messages = 1..l /\ DOMAIN more = 1..(l + 1)
    BY <1>1, Indices
  <2>2. ASSUME NEW x \in SpokenAt(more) PROVE x \in SpokenAt(messages)
    <3>1. PICK k \in 1..(l + 1) : more[k].kind \in Spoken /\ x = more[k].at
      BY <2>1 DEF SpokenAt
    <3>2. k # 1
      BY <1>1, <3>1 DEF Spoken
    <3>3. k - 1 \in 1..l /\ (k - 1) + 1 = k
      BY <1>1, <3>2
    <3>4. more[k] = messages[k - 1]
      BY <1>1, <3>3
    <3> QED
      BY <2>1, <3>1, <3>3, <3>4 DEF SpokenAt
  <2>3. ASSUME NEW x \in SpokenAt(messages) PROVE x \in SpokenAt(more)
    <3>1. PICK k \in 1..l : messages[k].kind \in Spoken /\ x = messages[k].at
      BY <2>1 DEF SpokenAt
    <3>2. k + 1 \in 1..(l + 1) /\ more[k + 1] = messages[k]
      BY <1>1
    <3> QED
      BY <2>1, <3>1, <3>2 DEF SpokenAt
  <2> QED
    BY <2>2, <2>3
<1> QED
  BY <1>1, <1>3, <1>4 DEF more, Preceded

LEMMA MaterializeIs ==
  ASSUME events \in Seq(EventSet), Answered(events), NEW c \in CheckpointSet, c.covered <= Len(events),
         Owed(events, c.covered) = 0, Owed(events, Len(events)) = 0
  PROVE  Whole(events, c.covered, c.size, Materialize(c))
<1> DEFINE l == Len(events)
           from == c.covered
           state == Project(from, l)
           messages == state.messages
<1>1. l \in Nat /\ from \in Nat /\ from <= l /\ c.size \in Nat
  BY LenProperties DEF CheckpointSet
<1>2. Reading(events, from, l, state)
  BY <1>1, ProjectReads
<1> HIDE DEF state
<1>3. /\ messages \in Seq(MessageSet) /\ state.pending = 0
      /\ SpokenAt(messages) = Kinds(events, Spoken, from, l)
      /\ \A k \in 1..Len(messages) :
           /\ Told(events, messages, k) /\ Followed(events, messages, k)
           /\ messages[k].at \in (from + 1)..l /\ messages[k].kind # "summary"
  BY <1>2 DEF Reading, ReadStates
<1> HIDE DEF messages, l
<1>4. CASE from = 0
  <2>1. Materialize(c) = messages
    <3>1. Materialize(c) = <<>> \o messages
      BY <1>4 DEF Materialize, messages, state, l
    <3> QED
      BY <1>3, <3>1
  <2> QED
    BY <1>3, <1>4, <2>1 DEF Whole, l
<1>5. CASE from # 0
  <2> DEFINE s == Message("summary", from, <<c.size>>)
             more == <<s>> \o messages
  <2>1. Materialize(c) = more
    BY <1>5 DEF Materialize, messages, state, l
  <2>2. s \in MessageSet /\ s.kind = "summary" /\ s.at = from
    BY <1>1 DEF Message, MessageSet
  <2> HIDE DEF s
  <2>3. \A k \in 1..Len(messages) : s.at < messages[k].at
    BY <1>1, <1>3, <2>2
  <2>4. /\ more \in Seq(MessageSet) /\ Len(more) > 0 /\ more[1] = s
        /\ SpokenAt(more) = SpokenAt(messages)
        /\ \A k \in 1..Len(more) : /\ Told(events, more, k) /\ Followed(events, more, k)
                                   /\ more[k].kind = "summary" => k = 1
    <3>1. ComesBefore(events, s, messages)
      BY <1>3, <2>3 DEF ComesBefore
    <3>2. Preceded(events, s, messages, more)
      BY <1>3, <2>2, <3>1, SummaryPrepends
    <3> HIDE DEF more
    <3> QED
      BY <3>2 DEF Preceded
  <2>5. from > 0
    BY <1>1, <1>5
  <2> HIDE DEF more
  <2>6. Whole(events, from, c.size, more)
    BY <1>3, <2>4, <2>5 DEF Whole, l, s
  <2> QED
    BY <2>1, <2>6
<1> QED
  BY <1>4, <1>5

LaterIn(messages, k) == {j \in DOMAIN messages : j > k /\ messages[j].kind = "results"}

\* What SentIsWhole says of one message.
MessageHolds(log, covered, messages, k) ==
  LET m == messages[k]
      R == Results(log, messages[k - 1].at, m.at)
  IN  /\ k > 1 => messages[k - 1].at < m.at
      /\ m.kind = "summary" => k = 1 /\ covered > 0
      /\ m.kind \in Spoken => m = Message(log[m.at].kind, m.at, <<log[m.at].size>>)
      /\ Followed(log, messages, k)
      /\ m.kind = "results" =>
           /\ k > 1 /\ messages[k - 1].kind = "response"
           /\ Len(m.sizes) = log[messages[k - 1].at].calls
           /\ Len(m.sizes) = Cardinality(R)
           /\ \A n \in R :
                \/ m.sizes[RankIn(R, n)] = log[n].size
                \/ /\ m.sizes[RankIn(R, n)] = Placeholder /\ Placeholder < log[n].size
                   /\ Cardinality(LaterIn(messages, k)) >= KeepRecent

\* What it says of all of them.
Holds(log, covered, size, messages) ==
  /\ Fixed + SizeOf(messages) <= Budget
  /\ covered > 0 => messages[1] = Message("summary", covered, <<size>>)
  /\ CallsTo(log, covered) = Cardinality(Results(log, 0, covered))
  /\ SpokenAt(messages) = Kinds(log, Spoken, covered, Len(log))
  /\ \A k \in DOMAIN messages : MessageHolds(log, covered, messages, k)

\* What may be folded does not depend on what is folded.
LEMMA FoldedGroups ==
  ASSUME NEW L \in Seq(MessageSet), NEW F, FoldedFrom(L, F)
  PROVE  /\ DOMAIN F = 1..Len(L) /\ DOMAIN L = 1..Len(L)
         /\ \A k \in 1..Len(L) : /\ F[k].kind = L[k].kind /\ F[k].at = L[k].at
                                 /\ LaterIn(F, k) = LaterIn(L, k)
                                 /\ k \in OldGroups(L) <=> /\ F[k].kind = "results"
                                                           /\ Cardinality(LaterIn(F, k)) >= KeepRecent
<1>1. F \in Seq(MessageSet) /\ Len(F) = Len(L)
  BY DEF FoldedFrom
<1>2. DOMAIN F = 1..Len(L) /\ DOMAIN L = 1..Len(L)
  BY <1>1, Indices
<1>3. ASSUME NEW k \in 1..Len(L) PROVE F[k].kind = L[k].kind /\ F[k].at = L[k].at
  BY DEF FoldedFrom, MessageKept
<1>4. ASSUME NEW k \in 1..Len(L) PROVE LaterIn(F, k) = LaterIn(L, k)
  BY <1>2, <1>3 DEF LaterIn
<1>5. ASSUME NEW k \in 1..Len(L)
      PROVE  k \in OldGroups(L) <=> F[k].kind = "results" /\ Cardinality(LaterIn(F, k)) >= KeepRecent
  <2>1. {j \in Groups(L) : j > k} = LaterIn(L, k)
    BY DEF Groups, LaterIn
  <2>2. k \in OldGroups(L) <=> k \in Groups(L) /\ Cardinality(LaterIn(L, k)) >= KeepRecent
    BY <2>1 DEF OldGroups
  <2>3. k \in Groups(L) <=> F[k].kind = "results"
    BY <1>2, <1>3 DEF Groups
  <2> QED
    BY <1>4, <2>2, <2>3
<1> QED
  BY <1>2, <1>3, <1>4, <1>5

\* A request of whole messages, some of them folded, is whole.
LEMMA FoldedHolds ==
  ASSUME NEW log \in Seq(EventSet), NEW covered \in Nat, covered <= Len(log), Owed(log, covered) = 0,
         NEW size, NEW L, Whole(log, covered, size, L), NEW F, FoldedFrom(L, F), Fixed + SizeOf(F) <= Budget
  PROVE  Holds(log, covered, size, F)
<1> DEFINE l == Len(L)
<1>1. L \in Seq(MessageSet) /\ F \in Seq(MessageSet) /\ Len(F) = l /\ l \in Nat
  BY LenProperties DEF Whole, FoldedFrom
<1>2. /\ DOMAIN F = 1..l /\ DOMAIN L = 1..l
      /\ \A k \in 1..l : /\ F[k].kind = L[k].kind /\ F[k].at = L[k].at
                         /\ k \in OldGroups(L) <=> F[k].kind = "results" /\ Cardinality(LaterIn(F, k)) >= KeepRecent
  BY <1>1, FoldedGroups
<1>3. \A k \in 1..l : k \notin OldGroups(L) => F[k] = L[k]
  BY DEF FoldedFrom
<1>4. /\ covered > 0 => l > 0 /\ L[1] = Message("summary", covered, <<size>>)
      /\ SpokenAt(L) = Kinds(log, Spoken, covered, Len(log))
      /\ \A k \in 1..l : /\ Told(log, L, k) /\ Followed(log, L, k)
                         /\ L[k].kind = "summary" => k = 1 /\ covered > 0
  BY DEF Whole
<1>5. covered > 0 => F[1] = Message("summary", covered, <<size>>)
  <2>1. ASSUME covered > 0 PROVE F[1] = Message("summary", covered, <<size>>)
    <3>1. 1 \in 1..l /\ L[1].kind = "summary"
      BY <1>1, <1>4, <2>1 DEF Message
    <3>2. 1 \notin OldGroups(L)
      BY <1>2, <3>1
    <3> QED
      BY <1>3, <1>4, <2>1, <3>1, <3>2
  <2> QED
    BY <2>1
<1>6. CallsTo(log, covered) = Cardinality(Results(log, 0, covered))
  <2> DEFINE S == (0 + 1)..covered
             f == [m \in DOMAIN log |-> log[m].calls]
  <2>1. IsFiniteSet(S) /\ \A y \in S : f[y] \in Int
    <3>1. IsFiniteSet(S)
      BY FS_Interval
    <3>2. \A y \in S : y \in DOMAIN log /\ log[y] \in EventSet
      BY Indices
    <3> QED
      BY <3>1, <3>2 DEF EventSet
  <2>2. SumFunctionOnSet(f, S) \in Int
    <3> HIDE DEF f, S
    <3> QED
      BY <2>1, SumType
  <2>3. CallsTo(log, covered) \in Int
    BY <2>2 DEF CallsTo
  <2> HIDE DEF f, S
  <2>4. Cardinality(Results(log, 0, covered)) \in Nat
    BY FirstResults
  <2> QED
    BY <2>3, <2>4 DEF Owed
<1>7. SpokenAt(F) = SpokenAt(L)
  BY <1>2 DEF SpokenAt
<1> HIDE DEF l
<1>8. ASSUME NEW k \in 1..l PROVE MessageHolds(log, covered, F, k)
  <2> DEFINE R == Results(log, F[k - 1].at, F[k].at)
  <2>1. Told(log, L, k) /\ Followed(log, L, k) /\ (L[k].kind = "summary" => k = 1 /\ covered > 0)
        /\ F[k].kind = L[k].kind /\ F[k].at = L[k].at
    BY <1>2, <1>4
  <2>2. k > 1 => F[k - 1].kind = L[k - 1].kind /\ F[k - 1].at = L[k - 1].at /\ L[k - 1] \in MessageSet
    <3>1. k > 1 => k - 1 \in 1..l
      BY <1>1
    <3> QED
      BY <1>1, <1>2, <3>1, Indices
  <2>3. F[k].kind \in Spoken => F[k] = L[k]
    <3>1. F[k].kind \in Spoken => k \notin OldGroups(L)
      BY <1>2 DEF Spoken
    <3> QED
      BY <1>3, <3>1
  <2>4. Followed(log, F, k)
    <3>1. ASSUME F[k].kind = "response", log[F[k].at].calls > 0
          PROVE  k < Len(F) /\ F[k + 1].kind = "results"
      <4>1. k < l /\ L[k + 1].kind = "results"
        BY <2>1, <3>1 DEF Followed, l
      <4>2. k + 1 \in 1..l
        BY <1>1, <4>1
      <4> QED
        BY <1>1, <1>2, <4>1, <4>2
    <3> QED
      BY <3>1 DEF Followed
  <2>5. ASSUME F[k].kind = "results"
        PROVE  /\ k > 1 /\ F[k - 1].kind = "response"
               /\ Len(F[k].sizes) = log[F[k - 1].at].calls
               /\ Len(F[k].sizes) = Cardinality(R)
               /\ \A n \in R :
                    \/ F[k].sizes[RankIn(R, n)] = log[n].size
                    \/ /\ F[k].sizes[RankIn(R, n)] = Placeholder /\ Placeholder < log[n].size
                       /\ Cardinality(LaterIn(F, k)) >= KeepRecent
    <3>1. /\ k > 1 /\ L[k - 1].kind = "response"
          /\ Len(L[k].sizes) = log[L[k - 1].at].calls
          /\ Recorded(log, Results(log, L[k - 1].at, L[k].at), L[k].sizes)
      BY <2>1, <2>5 DEF Told
    <3>2. R = Results(log, L[k - 1].at, L[k].at) /\ F[k - 1].kind = "response" /\ F[k - 1].at = L[k - 1].at
      BY <2>1, <2>2, <3>1
    <3>3. R \in SUBSET Int /\ IsFiniteSet(R)
      <4>1. L[k] \in MessageSet /\ L[k - 1] \in MessageSet
        BY <1>1, <2>2, <3>1, Indices DEF l
      <4>2. L[k].at \in Nat /\ L[k - 1].at \in Nat
        BY <4>1 DEF MessageSet
      <4> QED
        BY <3>2, <4>2, ResultsAre
    <3> HIDE DEF R
    <3>4. /\ Len(L[k].sizes) = Cardinality(R) /\ \A n \in R : L[k].sizes[RankIn(R, n)] = log[n].size
      BY <3>1, <3>2 DEF Recorded
    <3>5. MessageKept(F[k], L[k])
      BY DEF FoldedFrom, l
    <3>6. ASSUME NEW n \in R
          PROVE  \/ F[k].sizes[RankIn(R, n)] = log[n].size
                 \/ /\ F[k].sizes[RankIn(R, n)] = Placeholder /\ Placeholder < log[n].size
                    /\ Cardinality(LaterIn(F, k)) >= KeepRecent
      <4> DEFINE p == RankIn(R, n)
      <4>1. p \in 1..Len(L[k].sizes)
        BY <3>3, <3>4, RankIs
      <4>2. BlockKept(F[k].sizes[p], L[k].sizes[p]) /\ L[k].sizes[p] = log[n].size
        BY <3>4, <3>5, <4>1 DEF MessageKept
      <4>3. k \notin OldGroups(L) => F[k].sizes[p] = log[n].size
        BY <1>3, <4>2
      <4>4. k \in OldGroups(L) => Cardinality(LaterIn(F, k)) >= KeepRecent
        BY <1>2
      <4> HIDE DEF p
      <4>5. \/ F[k].sizes[p] = log[n].size
            \/ F[k].sizes[p] = Placeholder /\ Placeholder < log[n].size
        BY <4>2 DEF BlockKept
      <4> QED
        BY <4>3, <4>4, <4>5 DEF p
    <3> QED
      BY <3>1, <3>2, <3>4, <3>5, <3>6 DEF MessageKept
  <2>6. k > 1 => F[k - 1].at < F[k].at
    BY <2>1, <2>2 DEF Told
  <2>7. F[k].kind \in Spoken => F[k] = Message(log[F[k].at].kind, F[k].at, <<log[F[k].at].size>>)
    BY <2>1, <2>3 DEF Told
  <2> HIDE DEF R
  <2>8. F[k].kind = "summary" => k = 1 /\ covered > 0
    BY <2>1
  <2> QED
    BY <2>4, <2>5, <2>6, <2>7, <2>8 DEF MessageHolds, R
<1> QED
  BY <1>2, <1>4, <1>5, <1>6, <1>7, <1>8 DEF Holds

\* What FailuresAreReal says.
OverflowIsReal(messages) ==
  /\ Fixed + SizeOf(messages) > Budget
  /\ \A k \in DOMAIN messages :
       messages[k].kind = "results" /\ Cardinality(LaterIn(messages, k)) >= KeepRecent =>
         \A p \in DOMAIN messages[k].sizes : messages[k].sizes[p] <= Placeholder

RaiseIsReal(log) ==
  \E n \in DOMAIN log :
    log[n].kind = "end" /\ log[n + 1].kind = "result" /\ Kinds(log, {"end"}, n, Len(log)) = {Len(log)}

\* The sizes of messages sum to a number.
LEMMA RequestSizeType == ASSUME NEW messages \in Seq(MessageSet) PROVE RequestSize(messages) \in Nat
<1>1. SizeOf(messages) \in Nat
  <2>1. [kind |-> "user", at |-> 0, sizes |-> <<>>] \in MessageSet
    BY DEF MessageSet
  <2> QED
    BY <2>1, SizeAppend
<1> QED
  BY <1>1, ContextAssumption DEF ContextAssumption, RequestSize

\* A request that is still too long has nothing left to fold.
LEMMA OverflowHolds ==
  ASSUME NEW L \in Seq(MessageSet), RequestSize(Fold(L)) > Budget
  PROVE  OverflowIsReal(Fold(L))
<1> DEFINE F == Fold(L)
<1>1. FoldedFrom(L, F) /\ Done(L, F, Len(L))
  BY FoldKeeps
<1> HIDE DEF F
<1>2. /\ DOMAIN F = 1..Len(L) /\ F \in Seq(MessageSet) /\ Len(F) = Len(L)
      /\ \A k \in 1..Len(L) : k \in OldGroups(L) <=> F[k].kind = "results" /\ Cardinality(LaterIn(F, k)) >= KeepRecent
  BY <1>1, FoldedGroups DEF FoldedFrom
<1>3. \A k \in 1..Len(L) : k \in OldGroups(L) => Short(F[k].sizes, Len(F[k].sizes))
  <2>1. ~ (RequestSize(F) <= Budget)
    <3>1. RequestSize(F) \in Nat /\ RequestSize(F) > Budget /\ Budget \in Nat
      BY <1>2, RequestSizeType, ContextAssumption DEF ContextAssumption, F
    <3> QED
      BY <3>1
  <2> QED
    BY <1>1, <2>1 DEF Done
<1>4. ASSUME NEW k \in DOMAIN F, F[k].kind = "results", Cardinality(LaterIn(F, k)) >= KeepRecent,
             NEW p \in DOMAIN F[k].sizes
      PROVE  F[k].sizes[p] <= Placeholder
  <2>1. k \in 1..Len(F) /\ k \in OldGroups(L) /\ Short(F[k].sizes, Len(F[k].sizes))
    BY <1>2, <1>3, <1>4
  <2>2. F[k].sizes \in Seq(Nat)
    <3>1. F[k] \in MessageSet
      BY <1>2, <2>1, Indices
    <3> QED
      BY <3>1 DEF MessageSet
  <2>3. p \in 1..Len(F[k].sizes)
    BY <2>2, Indices
  <2> QED
    BY <2>1, <2>3 DEF Short
<1> QED
  BY <1>4 DEF OverflowIsReal, RequestSize, F

\* The newest end is where Boundary says.
LEMMA BoundaryEnds ==
  ASSUME events \in Seq(EventSet)
  PROVE  /\ Boundary \in Nat /\ Boundary <= Len(events)
         /\ Boundary > 0 => Boundary \in DOMAIN events /\ events[Boundary].kind = "end"
         /\ \A n \in DOMAIN events : events[n].kind = "end" => n <= Boundary
<1> DEFINE S == {0} \cup {i \in DOMAIN events : events[i].kind = "end"}
<1>1. DOMAIN events = 1..Len(events) /\ Len(events) \in Nat /\ IsFiniteSet(DOMAIN events)
  BY Indices
<1>2. S \in SUBSET Int /\ S # {}
  BY <1>1
<1>3. IsFiniteSet(S)
  <2>1. IsFiniteSet({i \in DOMAIN events : events[i].kind = "end"})
    BY <1>1, FS_Subset
  <2> QED
    BY <2>1, FS_Singleton, FS_Union
<1> HIDE DEF S
<1>4. Boundary = Max(S) /\ Max(S) \in S /\ \A y \in S : Max(S) >= y
  BY <1>2, <1>3, MaxExists DEF Boundary, S
<1>5. Boundary \in S /\ \A y \in S : y <= Boundary
  BY <1>2, <1>4
<1>6. Boundary > 0 => Boundary \in DOMAIN events /\ events[Boundary].kind = "end"
  BY <1>5 DEF S
<1>7. \A n \in DOMAIN events : events[n].kind = "end" => n <= Boundary
  BY <1>5 DEF S
<1> QED
  BY <1>6, <1>7, BoundaryIs

\* A prefix that is not paired, of a log that is, was answered after its end.
LEMMA RaiseHolds ==
  ASSUME events \in Seq(EventSet), Answered(events), Owed(events, Len(events)) = 0,
         Boundary > 0, Owed(events, Boundary) > 0, NEW e \in EventSet, e.kind = "end"
  PROVE  RaiseIsReal(Append(events, e))
<1> DEFINE n == Boundary
           l == Len(events)
           more == Append(events, e)
<1>1. /\ n \in Nat /\ n <= l /\ n \in DOMAIN events /\ events[n].kind = "end" /\ l \in Nat
      /\ \A k \in DOMAIN events : events[k].kind = "end" => k <= n
      /\ DOMAIN events = 1..l
  BY BoundaryEnds, Indices
<1> HIDE DEF n
<1> HIDE DEF l, more
<1>2. n # l
  BY DEF n, l
<1>3. n < l /\ n + 1 \in 1..l /\ (n + 1) - 1 = n
  BY <1>1, <1>2
<1>4. AnsweredAt(events, n + 1) /\ Owed(events, n) # 0 /\ events[n + 1] \in EventSet
  BY <1>1, <1>3, Indices DEF Answered, n
<1>5. events[n + 1].kind = "result"
  <2>1. events[n + 1].kind \notin {"user", "response"}
    BY <1>3, <1>4 DEF AnsweredAt
  <2>2. events[n + 1].kind # "end"
    BY <1>1, <1>3
  <2> QED
    BY <1>4, <2>1, <2>2 DEF EventSet
<1>6. /\ Len(more) = l + 1 /\ more \in Seq(EventSet) /\ more[l + 1] = e
      /\ \A k \in 1..l : more[k] = events[k]
  BY AppendProperties DEF more, l
<1>7. DOMAIN more = 1..(l + 1)
  BY <1>6, Indices
<1>8. more[n].kind = "end" /\ more[n + 1].kind = "result" /\ n \in DOMAIN more
  BY <1>1, <1>3, <1>5, <1>6, <1>7
<1>9. Kinds(more, {"end"}, n, l + 1) = {l + 1}
  <2>1. ASSUME NEW k \in (n + 1)..(l + 1), more[k].kind = "end" PROVE k = l + 1
    <3>1. ASSUME k # l + 1 PROVE FALSE
      <4>1. k \in 1..l /\ more[k] = events[k] /\ k > n
        BY <1>1, <1>6, <2>1, <3>1
      <4> QED
        BY <1>1, <2>1, <4>1
    <3> QED
      BY <3>1
  <2>2. l + 1 \in (n + 1)..(l + 1) /\ more[l + 1].kind = "end"
    BY <1>1, <1>6
  <2> QED
    BY <2>1, <2>2 DEF Kinds
<1> QED
  BY <1>6, <1>8, <1>9 DEF RaiseIsReal, more, l

(***************************************************************************)
(* What every state of the Session keeps.                                  *)
(***************************************************************************)
\* A summary stands for a prefix whose calls all have a result.
Covers(log, cps) ==
  /\ cps \in Seq(CheckpointSet)
  /\ \A n \in DOMAIN cps : cps[n].covered \in 1..Len(log) /\ Owed(log, cps[n].covered) = 0

\* Results are missing while tools run, and may be while a Run is parked; nowhere else.
Paired(log, t) ==
  /\ t.pc \in {"ended", "step", "summarizing", "asked", "answered"} => Owed(log, Len(log)) = 0
  /\ t.pc = "tools" => Owed(log, Len(log)) > 0

Ends(log) == Max({0} \cup {i \in DOMAIN log : log[i].kind = "end"})

\* What is to be summarized is paired.
Summarized(log, t) == t.pc = "summarizing" => Ends(log) > 0 /\ Owed(log, Ends(log)) = 0

IsSent(log, cps, model, messages) ==
  \E c \in CheckpointSet : NewestOf(cps, model, Len(cps), c) /\ Holds(log, c.covered, c.size, messages)

RequestIs(log, cps, t, r) ==
  /\ r.kind \in {"none", "sent", "overflow", "raised"}
  /\ r.kind = "sent" => t.pc = "asked" /\ IsSent(log, cps, t.model, r.messages)
  /\ r.kind = "overflow" => t.pc = "ended" /\ OverflowIsReal(r.messages)
  /\ r.kind = "raised" => t.pc = "ended" /\ RaiseIsReal(log)

SessionIs(log, cps, t, r) ==
  Answered(log) /\ Covers(log, cps) /\ Paired(log, t) /\ Summarized(log, t) /\ RequestIs(log, cps, t, r)

WholeInv == ContextInv /\ SessionIs(events, checkpoints, turn, request)

\* Summaries keep what they cover when the log grows.
LEMMA CoversStay ==
  ASSUME NEW log, NEW more, Grows(log, more), NEW cps, Covers(log, cps)
  PROVE  Covers(more, cps)
<1>1. Len(log) \in Nat /\ Len(more) \in Nat /\ Len(log) <= Len(more)
  BY LenProperties DEF Grows
<1>2. ASSUME NEW n \in DOMAIN cps
      PROVE  cps[n].covered \in 1..Len(more) /\ Owed(more, cps[n].covered) = 0
  <2> DEFINE c == cps[n].covered
  <2>1. c \in 1..Len(log) /\ Owed(log, c) = 0
    BY DEF Covers
  <2> HIDE DEF c
  <2>2. c \in Nat /\ c <= Len(log) /\ c \in 1..Len(more)
    BY <1>1, <2>1
  <2>3. Owed(more, c) = Owed(log, c)
    BY <2>2, OwedStays
  <2> QED
    BY <2>1, <2>2, <2>3 DEF c
<1> QED
  BY <1>2 DEF Covers

\* The log grows, and there is no request.
LEMMA LogsMore ==
  ASSUME NEW log, NEW more, Grows(log, more), Answered(more), NEW cps, Covers(log, cps),
         NEW t, Paired(more, t), t.pc # "summarizing", NEW r, r.kind = "none"
  PROVE  SessionIs(more, cps, t, r)
<1>1. Covers(more, cps)
  BY CoversStay
<1> QED
  BY <1>1 DEF SessionIs, Summarized, RequestIs

\* How many calls are open.
LEMMA OpenIs ==
  ASSUME events \in Seq(EventSet), Answered(events), NEW to \in Nat, to <= Len(events)
  PROVE  Project(0, to).pending = Owed(events, to) /\ Project(0, to).pending \in Nat
<1>1. Reading(events, 0, to, Project(0, to))
  BY ProjectReads, NothingOwed
<1> QED
  BY <1>1 DEF Reading, ReadStates

\* One event more, and no request.
LEMMA LogsOne ==
  ASSUME NEW log \in Seq(EventSet), NEW cps, NEW t, NEW r, SessionIs(log, cps, t, r), NEW e \in EventSet,
         e.kind \in {"user", "response"} => Owed(log, Len(log)) = 0,
         e.kind = "result" => Owed(log, Len(log)) > 0,
         e.kind # "response" => e.calls = 0,
         NEW u, u.pc # "summarizing", NEW s, s.kind = "none",
         LET owed == IF e.kind = "result" THEN Owed(log, Len(log)) - 1 ELSE Owed(log, Len(log)) + e.calls IN
         /\ u.pc \in {"ended", "step", "asked", "answered"} => owed = 0
         /\ u.pc = "tools" => owed > 0
  PROVE  SessionIs(Append(log, e), cps, u, s)
<1> DEFINE more == Append(log, e)
           l == Len(log)
<1>1. Answered(log) /\ Covers(log, cps)
  BY DEF SessionIs
<1>2. /\ Grows(log, more) /\ Answered(more)
      /\ e.kind = "result" => Owed(more, Len(more)) = Owed(log, l) - 1
      /\ e.kind # "result" => Owed(more, Len(more)) = Owed(log, l) + e.calls
  BY <1>1, AnsweredAppends
<1> HIDE DEF more, l
<1>3. Paired(more, u)
  BY <1>2 DEF Paired, l
<1>4. SessionIs(more, cps, u, s)
  BY <1>1, <1>2, <1>3, LogsMore
<1> QED
  BY <1>4 DEF more

\* What the build has to start from.
LEMMA SavedCovers ==
  ASSUME WholeInv
  PROVE  /\ Saved \in CheckpointSet /\ NewestOf(checkpoints, turn.model, Len(checkpoints), Saved)
         /\ Saved.covered \in Nat /\ Saved.covered <= Len(events) /\ Owed(events, Saved.covered) = 0
<1>1. Covers(events, checkpoints) /\ turn \in TurnSet /\ events \in Seq(EventSet)
  BY DEF WholeInv, SessionIs, ContextInv
<1>2. checkpoints \in Seq(CheckpointSet) /\ Len(events) \in Nat
  BY <1>1, LenProperties DEF Covers
<1> DEFINE c == Saved
<1>3. c \in CheckpointSet /\ NewestOf(checkpoints, turn.model, Len(checkpoints), c)
  BY <1>1, <1>2, SavedIs
<1> HIDE DEF c
<1>4. c.covered \in Nat /\ c.covered <= Len(events) /\ Owed(events, c.covered) = 0
  <2>1. CASE \E i \in 1..Len(checkpoints) : checkpoints[i].model = turn.model
    <3>1. PICK i \in 1..Len(checkpoints) : c = checkpoints[i]
      BY <1>3, <2>1 DEF NewestOf
    <3>2. i \in DOMAIN checkpoints
      BY <1>2, Indices
    <3>3. c.covered \in 1..Len(events) /\ Owed(events, c.covered) = 0
      BY <1>1, <3>1, <3>2 DEF Covers
    <3> QED
      BY <1>2, <3>3
  <2>2. CASE ~ \E i \in 1..Len(checkpoints) : checkpoints[i].model = turn.model
    <3>1. c.covered = 0
      BY <1>3, <2>2 DEF NewestOf
    <3> QED
      BY <1>2, <3>1, NothingOwed
  <2> QED
    BY <2>1, <2>2
<1> QED
  BY <1>3, <1>4 DEF c

\* The request as it is before folding.
LEMMA MaterializedIsWhole ==
  ASSUME WholeInv, Owed(events, Len(events)) = 0, NEW c \in CheckpointSet, c.covered <= Len(events),
         Owed(events, c.covered) = 0
  PROVE  Whole(events, c.covered, c.size, Materialize(c))
<1>1. events \in Seq(EventSet) /\ Answered(events)
  BY DEF WholeInv, SessionIs, ContextInv
<1> QED
  BY <1>1, MaterializeIs

(***************************************************************************)
(* The steps of a build.                                                   *)
(***************************************************************************)
\* What is sent, or fails, after folding.
Sending(c, t) ==
  /\ request' = [kind |-> "sent", messages |-> request'.messages]
  /\ UNCHANGED events /\ turn' = [t EXCEPT !.pc = "asked", !.force = FALSE]
  /\ Holds(events, c.covered, c.size, request'.messages)

Failing(t, kind) ==
  /\ request' = [kind |-> kind, messages |-> request'.messages]
  /\ events' = Append(events, EventOf("end", 0, 0)) /\ turn' = [t EXCEPT !.pc = "ended", !.force = FALSE]

LEMMA FinishIs ==
  ASSUME WholeInv, NEW c \in CheckpointSet, c.covered <= Len(events), Owed(events, c.covered) = 0,
         NEW messages, Whole(events, c.covered, c.size, messages), Finish(messages)
  PROVE  \/ Sending(c, turn)
         \/ Failing(turn, "overflow") /\ OverflowIsReal(request'.messages)
<1> DEFINE F == Fold(messages)
<1>1. messages \in Seq(MessageSet) /\ events \in Seq(EventSet) /\ c.covered \in Nat
  BY DEF Whole, WholeInv, ContextInv, CheckpointSet
<1>2. FoldedFrom(messages, F) /\ F \in Seq(MessageSet)
  BY <1>1, FoldKeeps DEF FoldedFrom
<1> HIDE DEF F
<1>3. CASE RequestSize(F) > Budget
  <2>1. OverflowIsReal(F)
    BY <1>1, <1>3, OverflowHolds DEF F
  <2>2. Fail("overflow", F)
    BY <1>3 DEF Finish, F
  <2>3. request' = [kind |-> "overflow", messages |-> F] /\ request'.messages = F
    BY <2>2 DEF Fail
  <2> QED
    BY <2>1, <2>2, <2>3 DEF Fail, Failing
<1>4. CASE ~ (RequestSize(F) > Budget)
  <2>1. Fixed + SizeOf(F) <= Budget
    <3>1. RequestSize(F) \in Nat /\ Budget \in Nat
      BY <1>2, RequestSizeType, ContextAssumption DEF ContextAssumption
    <3>2. RequestSize(F) <= Budget
      BY <1>4, <3>1
    <3> QED
      BY <3>2 DEF RequestSize
  <2>2. Holds(events, c.covered, c.size, F)
    BY <1>1, <1>2, <2>1, FoldedHolds
  <2>3. SendMessages(F)
    BY <1>4 DEF Finish, F
  <2>4. request' = [kind |-> "sent", messages |-> F] /\ request'.messages = F
    BY <2>3 DEF SendMessages
  <2> QED
    BY <2>2, <2>3, <2>4 DEF SendMessages, Sending
<1> QED
  BY <1>3, <1>4

\* A request that is sent from the newest summary.
LEMMA SentKeeps ==
  ASSUME WholeInv, Owed(events, Len(events)) = 0, NEW c \in CheckpointSet,
         NEW cps, Covers(events, cps), NewestOf(cps, turn.model, Len(cps), c), Sending(c, turn),
         checkpoints' = cps
  PROVE  SessionIs(events', checkpoints', turn', request')
<1>1. events' = events /\ turn'.pc = "asked" /\ turn'.model = turn.model
  BY DEF Sending, WholeInv, ContextInv, TurnSet
<1>2. request'.kind = "sent" /\ Holds(events, c.covered, c.size, request'.messages)
  BY DEF Sending
<1> DEFINE t == turn'
           r == request'
<1> HIDE DEF t, r
<1>3. IsSent(events, cps, t.model, r.messages)
  BY <1>1, <1>2 DEF IsSent, t, r
<1>4. RequestIs(events, cps, t, r)
  BY <1>1, <1>2, <1>3 DEF RequestIs, t, r
<1>5. Paired(events, t) /\ Summarized(events, t)
  BY <1>1 DEF Paired, Summarized, t
<1>6. Answered(events)
  BY DEF WholeInv, SessionIs
<1>7. SessionIs(events, cps, t, r)
  BY <1>4, <1>5, <1>6 DEF SessionIs
<1> QED
  BY <1>1, <1>7 DEF t, r

\* A build that fails.
LEMMA FailedKeeps ==
  ASSUME WholeInv, Owed(events, Len(events)) = 0, NEW kind, Failing(turn, kind), UNCHANGED checkpoints,
         \/ kind = "overflow" /\ OverflowIsReal(request'.messages)
         \/ kind = "raised" /\ RaiseIsReal(Append(events, EventOf("end", 0, 0)))
  PROVE  SessionIs(events', checkpoints', turn', request')
<1> DEFINE e == EventOf("end", 0, 0)
           more == Append(events, e)
           t == turn'
           r == request'
<1>1. e \in EventSet /\ e.kind = "end" /\ e.calls = 0
  BY EventIs DEF EventOf
<1> HIDE DEF e
<1>2. events \in Seq(EventSet) /\ Answered(events) /\ Covers(events, checkpoints) /\ Owed(events, Len(events)) = 0
  BY DEF WholeInv, SessionIs, ContextInv
<1>3. /\ Grows(events, more) /\ Answered(more)
      /\ Owed(more, Len(more)) = Owed(events, Len(events)) + e.calls
  BY <1>1, <1>2, AnsweredAppends
<1>4. events' = more /\ t.pc = "ended" /\ r.kind = kind
  BY DEF Failing, WholeInv, ContextInv, TurnSet, e
<1>5. Covers(more, checkpoints)
  BY <1>2, <1>3, CoversStay
<1>6. RequestIs(more, checkpoints, t, r)
  BY <1>4 DEF RequestIs, e
<1> HIDE DEF more, t, r
<1>7. Paired(more, t) /\ Summarized(more, t)
  BY <1>1, <1>2, <1>3, <1>4 DEF Paired, Summarized
<1>8. SessionIs(more, checkpoints, t, r)
  BY <1>3, <1>5, <1>6, <1>7 DEF SessionIs
<1> QED
  BY <1>4, <1>8 DEF t, r

\* One build before a step.
LEMMA BuildKeeps == ASSUME WholeInv, Build PROVE SessionIs(events', checkpoints', turn', request')
<1> DEFINE c == Saved
           messages == Materialize(c)
           l == Len(events)
<1>1. /\ events \in Seq(EventSet) /\ turn \in TurnSet /\ Answered(events)
      /\ Covers(events, checkpoints) /\ Paired(events, turn)
      /\ RequestIs(events, checkpoints, turn, request)
  BY DEF WholeInv, SessionIs, ContextInv
<1>2. turn.pc = "step" /\ UNCHANGED <<checkpoints, clock>>
  BY DEF Build
<1>3. Owed(events, l) = 0
  BY <1>1, <1>2 DEF Paired
<1>4. /\ c \in CheckpointSet /\ NewestOf(checkpoints, turn.model, Len(checkpoints), c)
      /\ c.covered \in Nat /\ c.covered <= l /\ Owed(events, c.covered) = 0
  BY SavedCovers
<1> HIDE DEF c
<1>5. Whole(events, c.covered, c.size, messages)
  BY <1>3, <1>4, MaterializedIsWhole
<1>6. /\ Boundary \in Nat /\ Boundary <= l
      /\ Project(0, Boundary).pending = Owed(events, Boundary) /\ Project(0, Boundary).pending \in Nat
  <2> DEFINE b == Boundary
  <2>1. b \in Nat /\ b <= l
    BY <1>1, BoundaryIs
  <2> HIDE DEF b
  <2>2. Project(0, b).pending = Owed(events, b) /\ Project(0, b).pending \in Nat
    BY <1>1, <2>1, OpenIs
  <2> QED
    BY <2>1, <2>2 DEF b
<1> HIDE DEF messages, l
<1>7. CASE RequestSize(messages) <= Budget /\ SendMessages(messages)
  <2>1. messages \in Seq(MessageSet)
    BY <1>5 DEF Whole
  <2>2. Fixed + SizeOf(messages) <= Budget /\ FoldedFrom(messages, messages)
    BY <1>7, <2>1, NotFolded DEF RequestSize
  <2>3. Holds(events, c.covered, c.size, messages)
    BY <1>1, <1>4, <1>5, <2>2, FoldedHolds DEF l
  <2>4. request' = [kind |-> "sent", messages |-> messages] /\ request'.messages = messages
    BY <1>7 DEF SendMessages
  <2>5. Sending(c, turn)
    BY <1>7, <2>3, <2>4 DEF SendMessages, Sending
  <2> QED
    BY <1>1, <1>2, <1>3, <1>4, <2>5, SentKeeps DEF l
<1>8. CASE Finish(messages)
  <2>1. \/ Sending(c, turn)
        \/ Failing(turn, "overflow") /\ OverflowIsReal(request'.messages)
    BY <1>4, <1>5, <1>8, FinishIs DEF l
  <2>2. CASE Sending(c, turn)
    BY <1>1, <1>2, <1>3, <1>4, <2>2, SentKeeps DEF l
  <2>3. CASE Failing(turn, "overflow") /\ OverflowIsReal(request'.messages)
    BY <1>2, <1>3, <2>3, FailedKeeps DEF l
  <2> QED
    BY <2>1, <2>2, <2>3
<1>9. CASE SummaryDue /\ Project(0, Boundary).pending > 0 /\ Fail("raised", messages)
  <2>1. Boundary > 0 /\ Owed(events, Boundary) > 0
    BY <1>4, <1>6, <1>9 DEF SummaryDue, c
  <2>2. EventOf("end", 0, 0) \in EventSet /\ EventOf("end", 0, 0).kind = "end"
    BY EventIs DEF EventOf
  <2> DEFINE e == EventOf("end", 0, 0)
  <2> HIDE DEF e
  <2>3. RaiseIsReal(Append(events, e))
    BY <1>1, <1>3, <2>1, <2>2, RaiseHolds DEF e, l
  <2>4. request' = [kind |-> "raised", messages |-> messages] /\ request'.messages = messages
    BY <1>9 DEF Fail
  <2>5. Failing(turn, "raised")
    BY <1>9, <2>4 DEF Fail, Failing
  <2> QED
    BY <1>2, <1>3, <2>3, <2>5, FailedKeeps DEF e, l
<1>10. CASE /\ SummaryDue /\ Project(0, Boundary).pending = 0
            /\ turn' = [turn EXCEPT !.pc = "summarizing"] /\ UNCHANGED <<events, request>>
  <2>1. Ends(events) > 0 /\ Owed(events, Ends(events)) = 0
    <3>1. Boundary > 0 /\ Owed(events, Boundary) = 0
      BY <1>4, <1>6, <1>10 DEF SummaryDue, c
    <3> QED
      BY <3>1 DEF Boundary, Ends
  <2>2. request.kind = "none"
    BY <1>1, <1>2 DEF RequestIs
  <2> DEFINE t == turn'
  <2>3. t.pc = "summarizing"
    BY <1>1, <1>10 DEF TurnSet
  <2> HIDE DEF t
  <2>4. SessionIs(events, checkpoints, t, request)
    BY <1>1, <1>3, <2>1, <2>2, <2>3 DEF SessionIs, Paired, Summarized, RequestIs, l
  <2> QED
    BY <1>2, <1>10, <2>4 DEF t
<1> QED
  BY <1>7, <1>8, <1>9, <1>10 DEF Build, messages, c

\* A summary that is adopted is the newest, and covers what is paired.
LEMMA SummaryIsNewest ==
  ASSUME NEW cps, Covers(events, cps), NEW model \in Asked, NEW s \in CheckpointSet, s.model = model,
         s.covered \in 1..Len(events), Owed(events, s.covered) = 0
  PROVE  /\ Covers(events, Append(cps, s))
         /\ NewestOf(Append(cps, s), model, Len(Append(cps, s)), s)
<1> DEFINE more == Append(cps, s)
           n == Len(cps) + 1
<1>1. /\ cps \in Seq(CheckpointSet) /\ Len(cps) \in Nat /\ DOMAIN cps = 1..Len(cps)
      /\ \A i \in DOMAIN cps : cps[i].covered \in 1..Len(events) /\ Owed(events, cps[i].covered) = 0
  BY LenProperties, Indices DEF Covers
<1>2. more \in Seq(CheckpointSet) /\ Len(more) = n /\ more[n] = s /\ \A i \in 1..Len(cps) : more[i] = cps[i]
  BY <1>1, AppendProperties
<1> HIDE DEF more
<1>3. DOMAIN more = 1..n
  BY <1>2, Indices
<1>4. ASSUME NEW i \in DOMAIN more
      PROVE  more[i].covered \in 1..Len(events) /\ Owed(events, more[i].covered) = 0
  <2>1. CASE i = n
    BY <1>2, <2>1
  <2>2. CASE i # n
    <3>1. i \in 1..Len(cps)
      BY <1>1, <1>3, <2>2
    <3> QED
      BY <1>1, <1>2, <3>1
  <2> QED
    BY <2>1, <2>2
<1>5. Covers(events, more)
  BY <1>2, <1>4 DEF Covers
<1>6. NewestOf(more, model, n, s)
  <2>1. n \in 1..n /\ \A j \in 1..n : j <= n
    BY <1>1
  <2> HIDE DEF n
  <2> QED
    BY <1>2, <2>1 DEF NewestOf
<1> QED
  BY <1>2, <1>5, <1>6 DEF more

\* After the summary.
LEMMA FinishKeeps ==
  ASSUME WholeInv, Owed(events, Len(events)) = 0, NEW c \in CheckpointSet, c.covered <= Len(events),
         Owed(events, c.covered) = 0, Finish(Materialize(c)),
         NEW cps, Covers(events, cps), NewestOf(cps, turn.model, Len(cps), c),
         checkpoints' = IF request'.kind = "sent" THEN cps ELSE checkpoints
  PROVE  SessionIs(events', checkpoints', turn', request')
<1> DEFINE messages == Materialize(c)
<1>1. Whole(events, c.covered, c.size, messages)
  BY MaterializedIsWhole
<1> HIDE DEF messages
<1>2. \/ Sending(c, turn)
      \/ Failing(turn, "overflow") /\ OverflowIsReal(request'.messages)
  BY <1>1, FinishIs DEF messages
<1>3. CASE Sending(c, turn)
  <2>1. checkpoints' = cps
    BY <1>3 DEF Sending
  <2> QED
    BY <1>3, <2>1, SentKeeps
<1>4. CASE Failing(turn, "overflow") /\ OverflowIsReal(request'.messages)
  <2>1. UNCHANGED checkpoints
    BY <1>4 DEF Failing
  <2> QED
    BY <1>4, <2>1, FailedKeeps
<1> QED
  BY <1>2, <1>3, <1>4

LEMMA SummaryKeeps ==
  ASSUME WholeInv, SummaryReturns \/ SummaryFails
  PROVE  SessionIs(events', checkpoints', turn', request')
<1>1. /\ events \in Seq(EventSet) /\ turn \in TurnSet /\ Answered(events)
      /\ Covers(events, checkpoints) /\ Paired(events, turn) /\ Summarized(events, turn)
  BY DEF WholeInv, SessionIs, ContextInv
<1>2. turn.pc = "summarizing"
  BY DEF SummaryReturns, SummaryFails
<1>3. Owed(events, Len(events)) = 0
  BY <1>1, <1>2 DEF Paired
<1>4. Boundary \in 1..Len(events) /\ Owed(events, Boundary) = 0
  <2>1. Boundary > 0 /\ Owed(events, Boundary) = 0
    BY <1>1, <1>2 DEF Summarized, Boundary, Ends
  <2> DEFINE b == Boundary
             l == Len(events)
  <2>2. b \in Nat /\ b <= l /\ l \in Nat
    BY <1>1, BoundaryIs, LenProperties
  <2> HIDE DEF b, l
  <2>3. b \in 1..l
    BY <2>1, <2>2 DEF b
  <2> QED
    BY <2>1, <2>3 DEF b, l
<1> DEFINE c == Saved
<1>5. /\ c \in CheckpointSet /\ NewestOf(checkpoints, turn.model, Len(checkpoints), c)
      /\ c.covered \in Nat /\ c.covered <= Len(events) /\ Owed(events, c.covered) = 0
  BY SavedCovers
<1> HIDE DEF c
<1>6. ASSUME Finish(Materialize(c)), UNCHANGED checkpoints
      PROVE  SessionIs(events', checkpoints', turn', request')
  BY <1>1, <1>3, <1>5, <1>6, FinishKeeps
<1>7. ASSUME NEW s \in CheckpointSet, s.model = turn.model, s.covered = Boundary, Finish(Materialize(s)),
             checkpoints' = IF request'.kind = "sent" THEN Append(checkpoints, s) ELSE checkpoints
      PROVE  SessionIs(events', checkpoints', turn', request')
  <2> DEFINE cps == Append(checkpoints, s)
  <2>1. turn.model \in Asked
    BY <1>1 DEF TurnSet
  <2>2. s.covered \in 1..Len(events) /\ Owed(events, s.covered) = 0 /\ s.covered <= Len(events)
    BY <1>4, <1>7
  <2>3. Covers(events, cps) /\ NewestOf(cps, turn.model, Len(cps), s)
    BY <1>1, <1>7, <2>1, <2>2, SummaryIsNewest
  <2>4. checkpoints' = IF request'.kind = "sent" THEN cps ELSE checkpoints
    BY <1>7
  <2> HIDE DEF cps
  <2> QED
    BY <1>3, <1>7, <2>2, <2>3, <2>4, FinishKeeps
<1>8. CASE SummaryReturns
  <2>1. PICK size \in SummarySizes :
          LET summary   == [model |-> turn.model, covered |-> Boundary, size |-> size]
              candidate == Materialize(summary)
              current   == Materialize(Saved)
              adopted   == RequestSize(candidate) < RequestSize(current)
          IN  /\ Finish(IF adopted THEN candidate ELSE current)
              /\ checkpoints' = IF adopted /\ request'.kind = "sent" THEN Append(checkpoints, summary)
                                ELSE checkpoints
    BY <1>8 DEF SummaryReturns
  <2> DEFINE s == [model |-> turn.model, covered |-> Boundary, size |-> size]
             adopted == RequestSize(Materialize(s)) < RequestSize(Materialize(c))
  <2>2. s \in CheckpointSet /\ s.model = turn.model /\ s.covered = Boundary
    <3>1. size \in Nat /\ turn.model \in Asked /\ Boundary \in Nat
      BY <1>1, BoundaryIs, ContextAssumption DEF ContextAssumption, TurnSet
    <3> QED
      BY <3>1 DEF CheckpointSet
  <2>3. /\ Finish(IF adopted THEN Materialize(s) ELSE Materialize(c))
        /\ checkpoints' = IF adopted /\ request'.kind = "sent" THEN Append(checkpoints, s) ELSE checkpoints
    BY <2>1 DEF c
  <2> HIDE DEF s
  <2>4. CASE adopted
    <3>1. /\ Finish(Materialize(s))
          /\ checkpoints' = IF request'.kind = "sent" THEN Append(checkpoints, s) ELSE checkpoints
      BY <2>3, <2>4
    <3> QED
      BY <1>7, <2>2, <3>1
  <2>5. CASE ~ adopted
    <3>1. Finish(Materialize(c)) /\ UNCHANGED checkpoints
      BY <2>3, <2>5
    <3> QED
      BY <1>6, <3>1
  <2> QED
    BY <2>4, <2>5
<1>9. CASE SummaryFails
  BY <1>6, <1>9 DEF SummaryFails, c
<1> QED
  BY <1>8, <1>9

(***************************************************************************)
(* The steps of the Run around it.                                         *)
(***************************************************************************)
\* Every call that is open is closed.
LEMMA ClosesAll ==
  ASSUME WholeInv, turn.pc = "parked"
  PROVE  LET open == Project(0, Len(events)).pending
             more == events \o [n \in 1..open |-> EventOf("result", 0, 1)]
         IN  /\ more \in Seq(EventSet) /\ Grows(events, more) /\ Answered(more)
             /\ Owed(more, Len(more)) = 0 /\ Covers(more, checkpoints) /\ request.kind = "none"
<1> DEFINE open == Project(0, Len(events)).pending
           l == Len(events)
<1>1. /\ events \in Seq(EventSet) /\ Answered(events) /\ Covers(events, checkpoints)
      /\ RequestIs(events, checkpoints, turn, request)
  BY DEF WholeInv, SessionIs, ContextInv
<1>2. l \in Nat /\ l <= l
  BY <1>1, LenProperties
<1>3. open = Owed(events, l) /\ open \in Nat
  <2> HIDE DEF l
  <2>1. Project(0, l).pending = Owed(events, l) /\ Project(0, l).pending \in Nat
    BY <1>1, <1>2, OpenIs DEF l
  <2> QED
    BY <2>1 DEF l
<1> HIDE DEF open, l
<1>4. /\ events \o Closing(open) \in Seq(EventSet) /\ Grows(events, events \o Closing(open))
      /\ Answered(events \o Closing(open))
      /\ Owed(events \o Closing(open), Len(events \o Closing(open))) = Owed(events, l) - open
  <2>1. open <= Owed(events, Len(events))
    BY <1>3 DEF l
  <2> QED
    BY <1>1, <1>3, <2>1, AnsweredCloses DEF l
<1> DEFINE more == events \o Closing(open)
<1> HIDE DEF more
<1>5. Owed(more, Len(more)) = 0
  BY <1>3, <1>4 DEF more
<1>6. Covers(more, checkpoints)
  BY <1>1, <1>4, CoversStay DEF more
<1>7. request.kind = "none"
  BY <1>1 DEF RequestIs
<1> QED
  BY <1>4, <1>5, <1>6, <1>7 DEF more, open, Closing

LEMMA ContinueKeeps == ASSUME WholeInv, ContinueRun PROVE SessionIs(events', checkpoints', turn', request')
<1> DEFINE more == events \o [n \in 1..Project(0, Len(events)).pending |-> EventOf("result", 0, 1)]
           t == turn'
<1>1. turn.pc = "parked" /\ events' = more /\ t.pc = "step" /\ request' = NoRequest /\ UNCHANGED checkpoints
  BY DEF ContinueRun, WholeInv, ContextInv, TurnSet
<1>2. Grows(events, more) /\ Answered(more) /\ Owed(more, Len(more)) = 0
  BY <1>1, ClosesAll
<1>3. Covers(events, checkpoints) /\ NoRequest.kind = "none"
  BY DEF WholeInv, SessionIs, NoRequest
<1> HIDE DEF more, t
<1>4. Paired(more, t)
  BY <1>1, <1>2 DEF Paired
<1>5. SessionIs(more, checkpoints, t, NoRequest)
  BY <1>1, <1>2, <1>3, <1>4, LogsMore
<1> QED
  BY <1>1, <1>5 DEF t

LEMMA AbandonKeeps == ASSUME WholeInv, AbandonRun PROVE SessionIs(events', checkpoints', turn', request')
<1> DEFINE more == events \o [n \in 1..Project(0, Len(events)).pending |-> EventOf("result", 0, 1)]
           e == EventOf("end", 0, 0)
           t == turn'
<1>1. /\ turn.pc = "parked" /\ events' = more \o <<e>> /\ t.pc = "ended"
      /\ UNCHANGED <<checkpoints, request>>
  BY DEF AbandonRun, WholeInv, ContextInv, TurnSet
<1>2. /\ more \in Seq(EventSet) /\ Answered(more) /\ Owed(more, Len(more)) = 0
      /\ Covers(more, checkpoints) /\ request.kind = "none"
  BY <1>1, ClosesAll
<1>3. e \in EventSet /\ e.kind = "end" /\ e.calls = 0
  BY EventIs DEF EventOf
<1> HIDE DEF more, t, e
<1>4. events' = Append(more, e)
  BY <1>1, <1>2, <1>3, AppendIsConcat
<1>5. SessionIs(more, checkpoints, turn, request)
  BY <1>1, <1>2 DEF SessionIs, Paired, Summarized, RequestIs
<1>6. SessionIs(Append(more, e), checkpoints, t, request)
  BY <1>1, <1>2, <1>3, <1>5, LogsOne
<1> QED
  BY <1>1, <1>4, <1>6 DEF t

\* An event of the Run itself, after which there is no request.
LEMMA EventKeeps ==
  ASSUME WholeInv, NEW e \in EventSet, LogEvent(e), turn'.pc # "summarizing", request'.kind = "none",
         UNCHANGED checkpoints,
         e.kind \in {"user", "response"} => Owed(events, Len(events)) = 0,
         e.kind = "result" => Owed(events, Len(events)) > 0,
         e.kind # "response" => e.calls = 0,
         LET owed == IF e.kind = "result" THEN Owed(events, Len(events)) - 1
                     ELSE Owed(events, Len(events)) + e.calls IN
         /\ turn'.pc \in {"ended", "step", "asked", "answered"} => owed = 0
         /\ turn'.pc = "tools" => owed > 0
  PROVE  SessionIs(events', checkpoints', turn', request')
<1> DEFINE t == turn'
           r == request'
<1>1. events \in Seq(EventSet) /\ SessionIs(events, checkpoints, turn, request) /\ events' = Append(events, e)
  BY DEF WholeInv, ContextInv, LogEvent
<1> DEFINE owed == IF e.kind = "result" THEN Owed(events, Len(events)) - 1
                   ELSE Owed(events, Len(events)) + e.calls
<1>2. /\ t.pc \in {"ended", "step", "asked", "answered"} => owed = 0
      /\ t.pc = "tools" => owed > 0
      /\ t.pc # "summarizing" /\ r.kind = "none"
  OBVIOUS
<1> HIDE DEF t, r
<1>3. SessionIs(Append(events, e), checkpoints, t, r)
  BY <1>1, <1>2, LogsOne
<1> QED
  BY <1>1, <1>3 DEF t, r

\* What a step starts from.
LEMMA StartsFrom ==
  ASSUME WholeInv
  PROVE  /\ events \in Seq(EventSet) /\ turn \in TurnSet /\ Owed(events, Len(events)) \in Int
         /\ turn.pc \in {"ended", "step", "summarizing", "asked", "answered"} => Owed(events, Len(events)) = 0
         /\ turn.pc = "tools" => Owed(events, Len(events)) > 0
         /\ turn.pc \notin {"asked", "ended"} => request.kind = "none"
         /\ Project(0, Len(events)).pending = Owed(events, Len(events))
<1> DEFINE l == Len(events)
<1>1. /\ events \in Seq(EventSet) /\ turn \in TurnSet /\ Answered(events) /\ Paired(events, turn)
      /\ RequestIs(events, checkpoints, turn, request)
  BY DEF WholeInv, SessionIs, ContextInv
<1>2. l \in Nat /\ l <= Len(events)
  BY <1>1, LenProperties
<1> HIDE DEF l
<1>3. Project(0, l).pending = Owed(events, l) /\ Owed(events, l) \in Int
  BY <1>1, <1>2, OpenIs, OwedType
<1> QED
  BY <1>1, <1>3 DEF Paired, RequestIs, l

LEMMA RunKeeps ==
  ASSUME WholeInv, StartRun \/ CompleteRun \/ StopRun \/ RequestFails
  PROVE  SessionIs(events', checkpoints', turn', request')
<1>1. NoRequest.kind = "none"
  BY DEF NoRequest
<1> DEFINE e == EventOf("end", 0, 0)
           u == EventOf("user", 0, 1)
<1>2. e \in EventSet /\ e.kind = "end" /\ e.calls = 0 /\ u \in EventSet /\ u.kind = "user" /\ u.calls = 0
  BY EventIs DEF EventOf
<1> DEFINE owed == Owed(events, Len(events))
<1>3. /\ turn \in TurnSet /\ owed \in Int
      /\ turn.pc \in {"ended", "step", "summarizing", "asked", "answered"} => owed = 0
      /\ turn.pc \notin {"asked", "ended"} => request.kind = "none"
  BY StartsFrom
<1>4. CASE StartRun
  <2>1. /\ turn.pc = "ended" /\ LogEvent(u) /\ turn'.pc = "step" /\ request'.kind = "none"
        /\ UNCHANGED checkpoints
    BY <1>1, <1>4 DEF StartRun
  <2>2. owed + u.calls = 0
    BY <1>2, <1>3, <2>1
  <2> HIDE DEF e, u
  <2> QED
    BY <1>2, <1>3, <2>1, <2>2, EventKeeps DEF owed
<1>5. CASE CompleteRun \/ RequestFails
  <2>1. /\ turn.pc \in {"asked", "answered"} /\ LogEvent(e) /\ turn'.pc = "ended" /\ request'.kind = "none"
        /\ UNCHANGED checkpoints
    BY <1>1, <1>3, <1>5 DEF CompleteRun, RequestFails, TurnSet
  <2>2. owed + e.calls = 0
    BY <1>2, <1>3, <2>1
  <2> HIDE DEF e, u
  <2> QED
    BY <1>2, <1>3, <2>1, <2>2, EventKeeps DEF owed
<1>6. CASE StopRun
  <2>1. LogEvent(e) /\ turn'.pc = "parked" /\ request'.kind = "none" /\ UNCHANGED checkpoints
    BY <1>1, <1>3, <1>6 DEF StopRun, TurnSet
  <2> HIDE DEF e, u
  <2> QED
    BY <1>2, <1>3, <2>1, EventKeeps DEF owed
<1> QED
  BY <1>4, <1>5, <1>6

LEMMA RespondKeeps == ASSUME WholeInv, Respond PROVE SessionIs(events', checkpoints', turn', request')
<1>1. PICK calls \in 0..2 :
        /\ LogEvent(EventOf("response", calls, 1))
        /\ turn' = [turn EXCEPT !.pc = IF calls = 0 THEN "answered" ELSE "tools"]
  BY DEF Respond
<1> DEFINE e == EventOf("response", calls, 1)
           owed == Owed(events, Len(events))
<1>2. e \in EventSet /\ e.kind = "response" /\ e.calls = calls
  BY EventIs DEF EventOf
<1>3. turn \in TurnSet /\ owed = 0
  BY StartsFrom DEF Respond
<1>4. request'.kind = "none" /\ UNCHANGED checkpoints /\ LogEvent(e)
  BY <1>1 DEF Respond, NoRequest
<1>5. /\ calls = 0 => turn'.pc = "answered"
      /\ calls # 0 => turn'.pc = "tools"
  BY <1>1, <1>3 DEF TurnSet
<1> HIDE DEF e
<1>6. owed + e.calls = calls
  BY <1>2, <1>3
<1>7. /\ turn'.pc \in {"ended", "step", "asked", "answered"} => owed + e.calls = 0
      /\ turn'.pc = "tools" => owed + e.calls > 0
      /\ turn'.pc # "summarizing"
  BY <1>5, <1>6
<1> QED
  BY <1>2, <1>3, <1>4, <1>7, EventKeeps DEF owed

LEMMA ToolKeeps == ASSUME WholeInv, ToolCompleted PROVE SessionIs(events', checkpoints', turn', request')
<1>1. PICK size \in ResultSizes, compact \in BOOLEAN :
        /\ LogEvent(EventOf("result", 0, size))
        /\ turn' = [turn EXCEPT !.force = @ \/ compact,
                                !.pc = IF Project(0, Len(events)).pending = 1 THEN "step" ELSE @]
  BY Zenon DEF ToolCompleted
<1> DEFINE e == EventOf("result", 0, size)
           owed == Owed(events, Len(events))
<1>2. e \in EventSet /\ e.kind = "result" /\ e.calls = 0
  <2>1. size \in Nat
    BY ContextAssumption DEF ContextAssumption
  <2> QED
    BY <2>1, EventIs DEF EventOf
<1>3. /\ turn.pc = "tools" /\ turn \in TurnSet /\ owed \in Int /\ owed > 0 /\ request.kind = "none"
      /\ Project(0, Len(events)).pending = owed
  BY StartsFrom DEF ToolCompleted
<1>4. request'.kind = "none" /\ UNCHANGED checkpoints /\ LogEvent(e)
  BY <1>1, <1>3 DEF ToolCompleted
<1>5. /\ owed = 1 => turn'.pc = "step"
      /\ owed # 1 => turn'.pc = "tools"
  BY <1>1, <1>3 DEF TurnSet
<1> HIDE DEF e, owed
<1>6. /\ turn'.pc \in {"ended", "step", "asked", "answered"} => owed - 1 = 0
      /\ turn'.pc = "tools" => owed - 1 > 0
      /\ turn'.pc # "summarizing"
  BY <1>3, <1>5
<1> QED
  BY <1>2, <1>3, <1>4, <1>6, EventKeeps DEF owed

LEMMA WholeStep == WholeInv /\ [ContextNext]_contextVars => WholeInv'
<1> SUFFICES ASSUME WholeInv, [ContextNext]_contextVars
             PROVE  SessionIs(events', checkpoints', turn', request')
  <2>1. WholeInv /\ [ContextNext]_contextVars => ContextInv'
    BY ContextStep DEF WholeInv
  <2> QED
    BY <2>1 DEF WholeInv
<1>1. CASE Wait \/ UNCHANGED contextVars
  <2>1. events' = events /\ checkpoints' = checkpoints /\ turn' = turn /\ request' = request
    BY <1>1 DEF Wait, contextVars
  <2>2. SessionIs(events, checkpoints, turn, request)
    BY DEF WholeInv
  <2> QED
    BY <2>1, <2>2
<1> QED
  BY <1>1, BuildKeeps, SummaryKeeps, ContinueKeeps, AbandonKeeps, RunKeeps, RespondKeeps, ToolKeeps DEF ContextNext

\* What every state of the Session keeps: its log is answered, its summaries stand for prefixes
\* whose calls all have results, and its last request is whole or its last failure real
\* (ContextBuilder.build, RuntimeHost._run_reserved).
THEOREM WholeInvariant == ContextSpec => []WholeInv
<1>1. ContextInit => WholeInv
  <2> SUFFICES ASSUME ContextInit PROVE WholeInv
    OBVIOUS
  <2>1. /\ events = <<>> /\ checkpoints = <<>> /\ claims = <<>> /\ clock = 0 /\ request = NoRequest
        /\ turn = [pc |-> "ended", model |-> None, force |-> FALSE]
    BY DEF ContextInit
  <2>2. events \in Seq(EventSet) /\ claims \in Seq(ClaimSet) /\ DOMAIN claims = {} /\ turn \in TurnSet
    BY <2>1 DEF TurnSet, Asked
  <2>3. ContextInv
    BY <2>1, <2>2 DEF ContextInv, Made, PaidOnce
  <2>4. Len(events) = 0 /\ checkpoints \in Seq(CheckpointSet) /\ DOMAIN checkpoints = {}
    BY <2>1
  <2>5. Answered(events) /\ Covers(events, checkpoints) /\ Paired(events, turn) /\ Summarized(events, turn)
    BY <2>1, <2>4, NothingOwed DEF Answered, Covers, Paired, Summarized
  <2>6. RequestIs(events, checkpoints, turn, request)
    BY <2>1 DEF RequestIs, NoRequest
  <2> QED
    BY <2>3, <2>5, <2>6 DEF WholeInv, SessionIs
<1> QED
  BY <1>1, WholeStep, PTL DEF ContextSpec

\* The summary of the model that the property calls the newest.
Mine(cps, model) == {n \in DOMAIN cps : cps[n].model = model}
NewestIn(S) == CHOOSE n \in S : \A m \in S : m <= n

LEMMA NewestIsChosen ==
  ASSUME NEW cps \in Seq(CheckpointSet), NEW model, NEW c, NewestOf(cps, model, Len(cps), c)
  PROVE  /\ Mine(cps, model) = {} => c.covered = 0
         /\ Mine(cps, model) # {} => cps[NewestIn(Mine(cps, model))] = c
<1> DEFINE S == Mine(cps, model)
<1>1. DOMAIN cps = 1..Len(cps) /\ Len(cps) \in Nat
  BY Indices
<1>2. CASE \E i \in 1..Len(cps) : cps[i].model = model
  <2>1. PICK i \in 1..Len(cps) : /\ cps[i].model = model /\ c = cps[i]
                                 /\ \A j \in 1..Len(cps) : cps[j].model = model => j <= i
    BY <1>2 DEF NewestOf
  <2>2. i \in S /\ \A m \in S : m <= i /\ m \in Nat
    BY <1>1, <2>1 DEF Mine
  <2> HIDE DEF S
  <2>3. NewestIn(S) \in S /\ \A m \in S : m <= NewestIn(S)
    BY <2>2 DEF NewestIn
  <2>4. NewestIn(S) = i
    <3> DEFINE n == NewestIn(S)
    <3>1. n <= i /\ i <= n /\ n \in Nat /\ i \in Nat
      BY <2>2, <2>3
    <3> HIDE DEF n
    <3>2. n = i
      BY <3>1
    <3> QED
      BY <3>2 DEF n
  <2>5. S # {} /\ cps[NewestIn(S)] = c
    BY <2>1, <2>2, <2>4
  <2> QED
    BY <2>5 DEF S
<1>3. CASE ~ \E i \in 1..Len(cps) : cps[i].model = model
  <2>1. S = {} /\ c.covered = 0
    BY <1>1, <1>3 DEF NewestOf, Mine
  <2> QED
    BY <2>1
<1> QED
  BY <1>2, <1>3

\* What the property says of a request, from what the invariant says.
LEMMA SentIsSent ==
  ASSUME WholeInv PROVE SentIsWhole
<1> SUFFICES ASSUME request.kind = "sent" PROVE SentIsWhole
  BY Zenon DEF SentIsWhole
<1> DEFINE messages == request.messages
           mine     == {n \in DOMAIN checkpoints : checkpoints[n].model = turn.model}
           newest   == CHOOSE n \in mine : \A m \in mine : m <= n
           covered  == IF mine = {} THEN 0 ELSE checkpoints[newest].covered
           spoken   == {k \in DOMAIN messages : messages[k].kind \in {"user", "response"}}
<1>1. IsSent(events, checkpoints, turn.model, messages) /\ checkpoints \in Seq(CheckpointSet)
  BY DEF WholeInv, SessionIs, RequestIs, Covers
<1>2. PICK c \in CheckpointSet : /\ NewestOf(checkpoints, turn.model, Len(checkpoints), c)
                                 /\ Holds(events, c.covered, c.size, messages)
  BY <1>1 DEF IsSent
<1>3. /\ mine = {} => c.covered = 0
      /\ mine # {} => checkpoints[newest] = c
  <2>1. mine = Mine(checkpoints, turn.model)
    BY DEF Mine
  <2> HIDE DEF messages, mine
  <2>2. newest = NewestIn(mine)
    BY DEF NewestIn
  <2> HIDE DEF newest
  <2> QED
    BY <1>1, <1>2, <2>1, <2>2, NewestIsChosen
<1> HIDE DEF mine, newest, messages
<1>4. covered = c.covered /\ (covered > 0 => checkpoints[newest].size = c.size)
  BY <1>3
<1> HIDE DEF covered
<1>5. /\ Fixed + SizeOf(messages) <= Budget
      /\ covered > 0 => messages[1] = Message("summary", covered, <<checkpoints[newest].size>>)
      /\ CallsTo(events, covered) = Cardinality(Results(events, 0, covered))
      /\ SpokenAt(messages) = Kinds(events, Spoken, covered, Len(events))
      /\ \A k \in DOMAIN messages : MessageHolds(events, covered, messages, k)
  BY <1>2, <1>4 DEF Holds
<1>6. CallsIn(0, covered) = Cardinality(EventsOf({"result"}, 0, covered))
  BY <1>5 DEF CallsIn, CallsTo, EventsOf, Results, Kinds
<1>7. {messages[k].at : k \in spoken} = EventsOf({"user", "response"}, covered, Len(events))
  BY <1>5 DEF SpokenAt, EventsOf, Kinds, Spoken
<1>8. ASSUME NEW k \in DOMAIN messages
      PROVE  LET m     == messages[k]
                 calls == events[m.at].calls
             IN  /\ k > 1 => messages[k - 1].at < m.at
                 /\ m.kind = "summary" => k = 1 /\ covered > 0
                 /\ k \in spoken => m = Message(events[m.at].kind, m.at, <<events[m.at].size>>)
                 /\ m.kind = "response" /\ calls > 0 => k < Len(messages) /\ messages[k + 1].kind = "results"
                 /\ m.kind = "results" =>
                      /\ k > 1 /\ messages[k - 1].kind = "response"
                      /\ Len(m.sizes) = events[messages[k - 1].at].calls
                      /\ Len(m.sizes) = Cardinality(ResultsOf(k))
                      /\ \A n \in ResultsOf(k) :
                           LET p == Cardinality({i \in ResultsOf(k) : i <= n}) IN
                           \/ m.sizes[p] = events[n].size
                           \/ /\ m.sizes[p] = Placeholder /\ Placeholder < events[n].size
                              /\ Cardinality(LaterGroups(k)) >= KeepRecent
  <2> DEFINE R == Results(events, messages[k - 1].at, messages[k].at)
  <2>1. MessageHolds(events, covered, messages, k)
    BY <1>5
  <2>2. ResultsOf(k) = R /\ LaterGroups(k) = LaterIn(messages, k)
    BY DEF ResultsOf, EventsOf, Results, Kinds, LaterGroups, LaterIn, messages
  <2>3. /\ k > 1 => messages[k - 1].at < messages[k].at
        /\ messages[k].kind = "summary" => k = 1 /\ covered > 0
        /\ k \in spoken => messages[k] = Message(events[messages[k].at].kind, messages[k].at,
                                                 <<events[messages[k].at].size>>)
        /\ messages[k].kind = "response" /\ events[messages[k].at].calls > 0 =>
             k < Len(messages) /\ messages[k + 1].kind = "results"
    BY <2>1 DEF MessageHolds, Followed, Spoken
  <2>4. ASSUME messages[k].kind = "results"
        PROVE  /\ k > 1 /\ messages[k - 1].kind = "response"
               /\ Len(messages[k].sizes) = events[messages[k - 1].at].calls
               /\ Len(messages[k].sizes) = Cardinality(ResultsOf(k))
               /\ \A n \in ResultsOf(k) :
                    LET p == Cardinality({i \in ResultsOf(k) : i <= n}) IN
                    \/ messages[k].sizes[p] = events[n].size
                    \/ /\ messages[k].sizes[p] = Placeholder /\ Placeholder < events[n].size
                       /\ Cardinality(LaterGroups(k)) >= KeepRecent
    BY <2>1, <2>2, <2>4 DEF MessageHolds, RankIn
  <2> HIDE DEF R
  <2> QED
    BY <2>3, <2>4
<1> HIDE DEF spoken
<1> QED
  BY Zenon, <1>5, <1>6, <1>7, <1>8 DEF SentIsWhole, messages, mine, newest, covered, spoken

\* What is sent is the whole log and what is not sent could not be, for every number of events and
\* models and all sizes (ContextBuilder.build, MessagesProjection.project, _fold_tool_results).
THEOREM RequestsStayWhole == ContextSpec => []RequestsAreWhole
<1>1. WholeInv => RequestsAreWhole
  <2> SUFFICES ASSUME WholeInv PROVE RequestsAreWhole
    OBVIOUS
  <2>1. RequestIs(events, checkpoints, turn, request)
    BY DEF WholeInv, SessionIs
  <2>2. FailuresAreReal
    BY <2>1 DEF FailuresAreReal, RequestIs, OverflowIsReal, RaiseIsReal, LaterGroups, LaterIn, EventsOf, Kinds
  <2> QED
    BY <2>2, SentIsSent DEF RequestsAreWhole
<1> QED
  BY <1>1, WholeInvariant, PTL

=============================================================================
