------------------------- MODULE RunDispatch_proofs -------------------------
(***************************************************************************)
(* Theorems about RunDispatch, for every number of Runs, Sessions,         *)
(* Workspaces and slots.  The inductive invariant IInv says, for each      *)
(* place an actor's task can stand at, which fact is durable, which slot,  *)
(* admission and locks it has and in which queue it waits.                 *)
(***************************************************************************)
EXTENDS RunDispatch, FiniteSetTheorems, TLAPS

(***************************************************************************)
(* The ledger alone: with the theorem Implements below, what is proved of  *)
(* it holds of the Host too.                                               *)
(***************************************************************************)
\* A nonempty set of positions has a last one: the positions from x on are a
\* finite set, and one with the fewest starts at the last position.
LEMMA LastPosition ==
  ASSUME NEW n \in Nat, NEW rows \in SUBSET (1..n), rows # {}
  PROVE  \E x \in rows : \A y \in rows : y <= x
<1> DEFINE S == 1..n
           From(x) == {y \in rows : y >= x}
           T == {From(x) : x \in rows}
<1>1. IsFiniteSet(S) /\ FiniteSubsetsOf(S) = SUBSET S
  BY FS_Interval, FS_FiniteSubsetsOfFinite
<1>2. IsWellFoundedOn(StrictSubsetOrdering(S), SUBSET S)
  BY <1>1, FS_StrictSubsetOrderingWellFounded
<1>3. T \subseteq SUBSET S /\ T # {}
  OBVIOUS
<1>4. PICK U \in T : \A V \in T : <<V, U>> \notin StrictSubsetOrdering(S)
  <2> HIDE DEF T, S
  <2> QED BY <1>2, <1>3, WFMin
<1>5. PICK x \in rows : U = From(x)
  BY <1>4
<1>6. ASSUME NEW y \in rows, ~ (y <= x)
      PROVE  FALSE
  <2>1. From(y) \in T /\ From(y) \in SUBSET S /\ From(x) \in SUBSET S
    OBVIOUS
  <2>2. From(y) \subseteq From(x)
    <3> SUFFICES ASSUME NEW z \in rows, z >= y PROVE z >= x
      OBVIOUS
    <3> x \in Int /\ y \in Int /\ z \in Int
      OBVIOUS
    <3> QED BY <1>6
  <2>3. x \in From(x) /\ x \notin From(y)
    BY <1>6
  <2>4. <<From(y), From(x)>> \in StrictSubsetOrdering(S)
    BY <2>1, <2>2, <2>3 DEF StrictSubsetOrdering
  <2> QED BY <1>4, <1>5, <2>1, <2>4
<1> QED BY <1>6

\* The latest Run of a Session is the last of its rows in the log.
LEMMA LatestLemma ==
  ASSUME log \in Seq(Turns), NEW s
  PROVE  \/ /\ Latest(s) = None
            /\ \A i \in 1..Len(log) : SessionOf[log[i]] # s
         \/ \E k \in 1..Len(log) : /\ Latest(s) = log[k] /\ SessionOf[log[k]] = s
                                   /\ \A i \in 1..Len(log) : SessionOf[log[i]] = s => i <= k
<1> DEFINE rows == {i \in DOMAIN log : SessionOf[log[i]] = s}
<1>1. CASE rows = {}
  BY <1>1 DEF Latest
<1>2. CASE rows # {}
  <2>1. rows \in SUBSET (1..Len(log)) /\ Len(log) \in Nat
    OBVIOUS
  <2> DEFINE k == CHOOSE i \in rows : \A j \in rows : j <= i
  <2>2. k \in rows /\ \A j \in rows : j <= k
    <3> HIDE DEF rows
    <3> QED BY <1>2, <2>1, LastPosition
  <2>3. Latest(s) = log[k]
    BY <1>2 DEF Latest
  <2> HIDE DEF k
  <2>4. /\ k \in 1..Len(log) /\ SessionOf[log[k]] = s
        /\ \A i \in 1..Len(log) : SessionOf[log[i]] = s => i <= k
    BY <2>1, <2>2
  <2> QED BY <2>3, <2>4
<1> QED BY <1>1, <1>2

LEMMA LatestType ==
  ASSUME log \in Seq(Turns), NEW s
  PROVE  Latest(s) \in Turns \cup {None}
BY LatestLemma

(***************************************************************************)
(* A continued Run is interrupted for good, and its continuation stands    *)
(* after all its rows in the log.                                          *)
(***************************************************************************)
Continued ==
  \A t \in Turns : cont[t] # None =>
    /\ fact[cont[t]] = "interrupted" /\ SessionOf[cont[t]] = SessionOf[t]
    /\ \E j \in 1..Len(log) : log[j] = t /\ \A i \in 1..Len(log) : log[i] = cont[t] => i < j

LInv ==
  /\ fact \in [Turns -> Facts] /\ log \in Seq(Turns) /\ cont \in [Turns -> Turns \cup {None}]
  /\ \A i \in 1..Len(log) : fact[log[i]] # "none"
  /\ Continued /\ NoFork

LEMMA LedgerInvInit == LedgerInit => LInv
<1> SUFFICES ASSUME LedgerInit PROVE LInv
  OBVIOUS
<1>1. fact \in [Turns -> Facts] /\ cont \in [Turns -> Turns \cup {None}]
  BY DEF LedgerInit, Facts, Terminal
<1>2. log \in Seq(Turns) /\ \A i \in 1..Len(log) : log[i] \in Turns /\ fact[log[i]] # "none"
  BY PlacementAssumption DEF LedgerInit, Turns
<1>3. \A t \in Turns : cont[t] = None
  BY DEF LedgerInit
<1> QED BY <1>1, <1>2, <1>3 DEF LInv, Continued, NoFork

\* A new row: t is fresh, and its source is the last row of its Session.
LEMMA RecordKeeps ==
  ASSUME LInv, NEW t \in Turns, NEW first \in Facts \ {"none"}, NEW source,
         Record(t, first, source),
         source # None => source = Latest(SessionOf[t]) /\ fact[source] = "interrupted"
  PROVE  LInv'
<1>1. /\ fact \in [Turns -> Facts] /\ log \in Seq(Turns) /\ cont \in [Turns -> Turns \cup {None}]
      /\ fact[t] = "none" /\ fact' = [fact EXCEPT ![t] = first]
      /\ log' = Append(log, t) /\ cont' = [cont EXCEPT ![t] = source]
  BY DEF LInv, Record
<1>2. /\ Len(log) \in Nat /\ Len(log') = Len(log) + 1 /\ log'[Len(log) + 1] = t
      /\ \A i \in 1..Len(log) : log'[i] = log[i] /\ log[i] \in Turns /\ log[i] # t
  BY <1>1 DEF LInv
<1>3. \A i \in 1..Len(log') : i \in 1..Len(log) \/ i = Len(log) + 1
  BY <1>2
<1>4. source # None =>
        \E k \in 1..Len(log) : /\ source = log[k] /\ SessionOf[source] = SessionOf[t]
                               /\ \A i \in 1..Len(log) : SessionOf[log[i]] = SessionOf[t] => i <= k
  BY <1>1, LatestLemma, IdentityAssumption
<1>5. source \in Turns \cup {None} /\ source # t
  BY <1>2, <1>4, IdentityAssumption DEF Actors
<1>6. /\ fact' \in [Turns -> Facts] /\ log' \in Seq(Turns) /\ cont' \in [Turns -> Turns \cup {None}]
      /\ \A i \in 1..Len(log') : fact'[log'[i]] # "none"
  BY <1>1, <1>2, <1>3, <1>5 DEF LInv
<1>7. ASSUME NEW u \in Turns, u # t, cont[u] # None
      PROVE  /\ cont'[u] = cont[u] /\ cont[u] # source /\ fact'[cont[u]] = "interrupted"
             /\ \E j \in 1..Len(log') :
                  log'[j] = u /\ \A i \in 1..Len(log') : log'[i] = cont[u] => i < j
  <2>1. /\ fact[cont[u]] = "interrupted" /\ SessionOf[cont[u]] = SessionOf[u] /\ cont[u] \in Turns
        /\ cont[u] # t
    BY <1>1, <1>7 DEF LInv, Continued
  <2>2. PICK j \in 1..Len(log) : log[j] = u /\ \A i \in 1..Len(log) : log[i] = cont[u] => i < j
    BY <1>7 DEF LInv, Continued
  <2>3. ASSUME cont[u] = source
        PROVE  FALSE
    <3>1. PICK k \in 1..Len(log) : /\ source = log[k] /\ SessionOf[source] = SessionOf[t]
                                   /\ \A i \in 1..Len(log) : SessionOf[log[i]] = SessionOf[t] => i <= k
      BY <1>4, <1>7, <2>3
    <3>2. SessionOf[log[j]] = SessionOf[t]
      BY <2>1, <2>2, <2>3, <3>1
    <3>3. j <= k /\ k < j
      BY <2>2, <2>3, <3>1, <3>2
    <3> QED BY <3>3
  <2>4. j \in 1..Len(log') /\ log'[j] = u /\ \A i \in 1..Len(log') : log'[i] = cont[u] => i < j
    BY <1>2, <1>3, <2>1, <2>2
  <2> QED BY <1>1, <1>7, <2>1, <2>3, <2>4
<1>8. source # None =>
        /\ fact'[source] = "interrupted"
        /\ \A i \in 1..Len(log') : log'[i] = source => i < Len(log) + 1
  BY <1>1, <1>2, <1>3, <1>5
<1>9. Continued'
  <2> SUFFICES ASSUME NEW u \in Turns, cont'[u] # None
               PROVE  /\ fact'[cont'[u]] = "interrupted" /\ SessionOf[cont'[u]] = SessionOf[u]
                      /\ \E j \in 1..Len(log') :
                           log'[j] = u /\ \A i \in 1..Len(log') : log'[i] = cont'[u] => i < j
    BY DEF Continued
  <2>1. CASE u = t
    <3>1. cont'[u] = source /\ Len(log) + 1 \in 1..Len(log')
      BY <1>1, <1>2, <2>1
    <3> QED BY <1>2, <1>4, <1>8, <2>1, <3>1
  <2>2. CASE u # t
    <3>1. cont'[u] = cont[u]
      BY <1>1, <2>2
    <3>2. SessionOf[cont[u]] = SessionOf[u]
      BY <3>1 DEF LInv, Continued
    <3> QED BY <1>7, <2>2, <3>1, <3>2
  <2> QED BY <2>1, <2>2
<1>10. NoFork'
  <2>1. cont'[t] = source
    BY <1>1
  <2>2. \A u \in Turns \ {t} : cont'[u] = cont[u] /\ (cont[u] # None => cont[u] # source)
    BY <1>1, <1>7
  <2>3. \A u, v \in Turns : cont[u] = cont[v] /\ cont[u] # None => u = v
    BY DEF LInv, NoFork
  <2>4. \A u \in Turns : cont'[u] # None => fact'[cont'[u]] = "interrupted"
    BY <1>9 DEF Continued
  <2> QED BY <2>1, <2>2, <2>3, <2>4 DEF NoFork
<1> QED BY <1>6, <1>9, <1>10 DEF LInv

LEMMA LedgerInvStep == LInv /\ [LedgerNext]_ledger => LInv'
<1> SUFFICES ASSUME LInv, [LedgerNext]_ledger PROVE LInv'
  OBVIOUS
<1>1. ASSUME NEW r \in Runs, Accept(r)
      PROVE  LInv'
  <2>1. r \in Turns /\ "admitted" \in Facts \ {"none"}
    BY DEF Turns, Facts
  <2>2. PICK source : /\ Record(r, "admitted", source)
                      /\ source # None => source = Latest(SessionOf[r]) /\ fact[source] = "interrupted"
    BY <1>1 DEF Accept, Parked
  <2> QED BY <2>1, <2>2, RecordKeeps
<1>2. ASSUME NEW a \in Abandons, AbandonParked(a)
      PROVE  LInv'
  <2>1. a \in Turns /\ "started" \in Facts \ {"none"}
    BY DEF Turns, Facts
  <2>2. Record(a, "started", Latest(SessionOf[a])) /\ fact[Latest(SessionOf[a])] = "interrupted"
    BY <1>2 DEF AbandonParked, Parked
  <2> QED BY <2>1, <2>2, RecordKeeps
<1>3. ASSUME NEW t \in Turns, Unfinished(t), NEW out \in Facts \ {"none"},
             fact' = [fact EXCEPT ![t] = out], UNCHANGED <<log, cont>>
      PROVE  LInv'
  <2>1. /\ fact' \in [Turns -> Facts] /\ fact' = [fact EXCEPT ![t] = out]
        /\ log' = log /\ cont' = cont /\ log \in Seq(Turns) /\ cont \in [Turns -> Turns \cup {None}]
    BY <1>3 DEF LInv
  <2>2. \A u \in Turns : fact[u] = "interrupted" => fact'[u] = "interrupted"
    BY <1>3 DEF LInv, Unfinished
  <2>3. \A i \in 1..Len(log) : fact'[log[i]] # "none"
    BY <1>3, <2>1 DEF LInv
  <2>4. Continued'
    BY <2>1, <2>2 DEF LInv, Continued
  <2>5. NoFork'
    BY <2>1, <2>2 DEF LInv, NoFork
  <2> QED BY <2>1, <2>3, <2>4, <2>5 DEF LInv
<1>4. ASSUME NEW r \in Runs, BeginRun(r)
      PROVE  LInv'
  BY <1>3, <1>4 DEF BeginRun, Unfinished, Turns, Facts
<1>5. ASSUME NEW t \in Turns, EndTurn(t)
      PROVE  LInv'
  BY <1>3, <1>5 DEF EndTurn, Facts, Terminal
<1>6. CASE UNCHANGED ledger
  BY <1>6 DEF ledger, LInv, Continued, NoFork
<1> QED BY <1>1, <1>2, <1>4, <1>5, <1>6 DEF LedgerNext

\* No two Runs continue the same interrupted Run, however admissions, abandons
\* and crashes follow each other.
THEOREM LedgerNoFork == LedgerSpec => []NoFork
<1>1. LInv => NoFork
  BY DEF LInv
<1> QED BY LedgerInvInit, LedgerInvStep, <1>1, PTL DEF LedgerSpec

(***************************************************************************)
(* The parts of the invariant, of the log f and the memory h, while there  *)
(* is a process.                                                           *)
(***************************************************************************)
Asking     == {"idle", "wantPrep", "preparing"}
InAdmit    == {"wantS", "awaitS", "wantW", "awaitW"}
Dispatched == {"go", "checking", "executing"} \cup InAdmit
Accepted   == {"accepted", "pending", "go", "checking", "cancelled"} \cup InAdmit

\* Stage of a Run, its durable fact, its ticket, lease, admission and claim.
RunStage(f, h, r) ==
  /\ h.pc[r] # "inside"
  /\ h.pc[r] \in Asking => f[r] = "none"
  /\ h.pc[r] \in Accepted => f[r] = "admitted"
  /\ h.pc[r] = "executing" => f[r] = "started"
  /\ h.pc[r] \in {"ended", "done"} => f[r] \in Terminal
  /\ (h.ticket[r] # "none") <=> h.pc[r] \in {"wantPrep", "preparing"}
  /\ h.pc[r] \in Dispatched => r \in h.roots
  /\ h.pc[r] \in Dispatched \cup {"preparing", "accepted", "pending"} => r \in h.owned
  /\ f[r] = "admitted" /\ r \notin h.roots => \A w \in Workspaces : h.claim[w] # r

AbandonStage(f, h, a) ==
  /\ h.pc[a] \in {"idle", "inside"} \cup InAdmit => f[a] = "none"
  /\ h.pc[a] = "executing" => f[a] = "started"
  /\ h.pc[a] = "done" => f[a] \in Terminal
  /\ h.pc[a] \in {"idle", "inside", "executing", "done"} \cup InAdmit

ControlStage(h, c) == h.pc[c] \in {"idle", "wantW", "awaitW", "inside"}

\* Which locks a task holds at each stage.
LocksHeld(h, a) ==
  /\ a \in Runs /\ h.pc[a] = "preparing" => h.holder[WorkspaceOf[a]] = a
  /\ a \in Turns /\ h.pc[a] \in {"wantW", "awaitW", "checking", "inside", "executing"} =>
       h.holder[SessionOf[a]] = a
  /\ a \in Turns /\ h.pc[a] \in {"checking", "inside", "executing"} =>
       h.holder[WorkspaceOf[a]] = a

Stage(f, h, a) ==
  /\ a \in Runs => RunStage(f, h, a)
  /\ a \in Abandons => AbandonStage(f, h, a)
  /\ a \in Controls => ControlStage(h, a)
  /\ LocksHeld(h, a)

\* Who waits in a lock's queue waits there once and for nothing else.
WaitsFor(h, l, a) ==
  \/ l \in Sessions /\ a \in Turns /\ l = SessionOf[a] /\ h.pc[a] = "wantS"
  \/ l \in Workspaces /\ l = WorkspaceOf[a] /\ h.pc[a] \in {"wantPrep", "wantW"}

Injective(q) == \A i, j \in 1..Len(q) : q[i] = q[j] => i = j

Waiters(h) ==
  \A l \in Locks : /\ Injective(h.queue[l])
                  /\ \A i \in 1..Len(h.queue[l]) : WaitsFor(h, l, h.queue[l][i])

\* Execution claims are claims of owned admissions.
OwnedClaims(h) == \A w \in Workspaces : h.claim[w] \in h.owned \cup {None}

\* At most one Run of a Session is on its way to a terminal fact.
Pending(f, h, r) == h.ticket[r] # "none" \/ f[r] \in {"admitted", "started"}

OnePending(f, h) ==
  \A q, r \in Runs :
    SessionOf[q] = SessionOf[r] /\ Pending(f, h, q) /\ Pending(f, h, r) => q = r

Bounds(f, h) ==
  /\ Cardinality(ActiveSet(f, h)) <= ActiveRoots
  /\ Cardinality(WaitingSet(f, h)) <= WaitingRoots

Good(f, h) ==
  /\ \A a \in Actors : Stage(f, h, a)
  /\ Waiters(h) /\ OwnedClaims(h) /\ OnePending(f, h) /\ Bounds(f, h)

\* What is unfinished is the latest of its Session, and what a request has read
\* under the Workspace lock is still the latest.
LatestKnown(h) ==
  /\ \A t \in Turns : Unfinished(t) => Latest(SessionOf[t]) = t
  /\ \A r \in Runs : h.pc[r] = "preparing" => h.seen[r] = Latest(SessionOf[r])
  /\ \A i \in DOMAIN log : fact[log[i]] # "none"

IInv ==
  /\ TypeOK
  /\ LatestKnown(host)
  /\ mode = "down" => host = Fresh(fact)
  /\ mode # "down" => Good(fact, host)

FactType == [Turns -> Facts]

\* What is left of a queue that somebody leaves.
LEMMA WithoutLemma ==
  ASSUME NEW q \in Seq(Actors), NEW a
  PROVE  /\ Without(q, a) \in Seq(Actors)
         /\ \A i \in 1..Len(Without(q, a)) : \E j \in 1..Len(q) : Without(q, a)[i] = q[j]
         /\ Injective(q) => /\ Injective(Without(q, a))
                            /\ \A i \in 1..Len(Without(q, a)) : Without(q, a)[i] # a
<1>1. CASE \A i \in 1..Len(q) : q[i] # a
  BY <1>1 DEF Without
<1>2. CASE \E i \in 1..Len(q) : q[i] = a
  <2> DEFINE k == CHOOSE i \in 1..Len(q) : q[i] = a
             at(j) == IF j < k THEN j ELSE j + 1
             w == [j \in 1..(Len(q) - 1) |-> IF j < k THEN q[j] ELSE q[j + 1]]
  <2>1. k \in 1..Len(q) /\ q[k] = a
    BY <1>2
  <2>2. Without(q, a) = w
    BY <1>2 DEF Without
  <2>3. Len(q) \in Nat /\ Len(q) - 1 \in Nat
    BY <2>1
  <2> HIDE DEF k
  <2>4. ASSUME NEW j \in 1..(Len(q) - 1)
        PROVE  at(j) \in 1..Len(q) /\ at(j) # k /\ w[j] = q[at(j)]
    <3>1. CASE j < k
      BY <3>1, <2>1, <2>3
    <3>2. CASE ~ (j < k)
      BY <3>2, <2>1, <2>3
    <3> QED BY <3>1, <3>2
  <2>5. \A j \in 1..(Len(q) - 1) : w[j] \in Actors
    BY <2>4
  <2>6. w \in Seq(Actors) /\ Len(w) = Len(q) - 1
    BY <2>3, <2>5
  <2>7. \A i, j \in 1..(Len(q) - 1) : at(i) = at(j) => i = j
    BY <2>1, <2>3
  <2>8. Injective(q) => Injective(w) /\ \A j \in 1..Len(w) : w[j] # a
    <3> SUFFICES ASSUME Injective(q) PROVE Injective(w) /\ \A j \in 1..Len(w) : w[j] # a
      OBVIOUS
    <3> HIDE DEF w, at
    <3>1. ASSUME NEW i \in 1..Len(w), NEW j \in 1..Len(w), w[i] = w[j]
          PROVE  i = j
      <4>1. q[at(i)] = q[at(j)] /\ at(i) \in 1..Len(q) /\ at(j) \in 1..Len(q)
        BY <3>1, <2>4, <2>6
      <4>2. at(i) = at(j)
        BY <4>1 DEF Injective
      <4> QED BY <4>2, <2>6, <2>7
    <3>2. ASSUME NEW j \in 1..Len(w)
          PROVE  w[j] # a
      BY <2>1, <2>4, <2>6 DEF Injective
    <3> QED BY <3>1, <3>2 DEF Injective
  <2> HIDE DEF w, at
  <2> QED BY <2>2, <2>4, <2>6, <2>8
<1> QED BY <1>1, <1>2

LEMMA LeaveType ==
  ASSUME NEW h \in HostType, NEW a \in Actors
  PROVE  Leave(h, a) \in HostType
  BY WithoutLemma DEF Leave, HostType, Locks

LEMMA ReleaseType ==
  ASSUME NEW h \in HostType, NEW r \in Runs
  PROVE  ReleaseAdmission(h, r) \in HostType
  BY DEF ReleaseAdmission, Unclaimed, HostType

LEMMA DispatchType ==
  ASSUME NEW f, NEW h \in HostType, NEW d \in Dispatch(f, h)
  PROVE  d \in HostType
<1>1. CASE d = h
  BY <1>1
<1>2. ASSUME NEW C \in SUBSET Runs, d = Grant(h, C)
      PROVE  d \in HostType
  BY <1>2 DEF Grant, HostType, PCs
<1> QED BY <1>1, <1>2 DEF Dispatch, ClaimSets

LEMMA EnqueueType ==
  ASSUME NEW h \in HostType, NEW l \in Locks, NEW a \in Actors, NEW at \in PCs
  PROVE  Enqueue(h, l, a, at) \in HostType
<1>1. Append(h.queue[l], a) \in Seq(Actors)
  BY DEF HostType
<1> QED BY <1>1 DEF Enqueue, HostType

LEMMA GotWorkspaceType ==
  ASSUME NEW h \in HostType, NEW a \in Actors
  PROVE  GotWorkspace(h, a) \in HostType
  BY PlacementAssumption DEF GotWorkspace, HostType, Locks, PCs

LEMMA EnterWorkspaceType ==
  ASSUME NEW h \in HostType, NEW a \in Actors
  PROVE  EnterWorkspace(h, a) \in HostType
  BY GotWorkspaceType, EnqueueType, PlacementAssumption DEF EnterWorkspace, Locks, PCs

LEMMA GotSessionType ==
  ASSUME NEW h \in HostType, NEW a \in Turns
  PROVE  GotSession(h, a) \in HostType
<1> DEFINE s == SessionOf[a]
           other == {r \in h.owned : SessionOf[r] = s /\ r # a}
<1>1. s \in Locks /\ a \in Actors
  BY PlacementAssumption DEF Locks, Actors
<1>2. CASE other = {}
  <2>1. [h EXCEPT !.holder[s] = a] \in HostType
    BY <1>1 DEF HostType
  <2> QED BY <1>1, <1>2, <2>1, EnterWorkspaceType DEF GotSession
<1>3. CASE other # {}
  <2>1. (CHOOSE r \in other : TRUE) \in Runs
    BY <1>3 DEF HostType
  <2>2. [h EXCEPT !.awaits[a] = CHOOSE r \in other : TRUE, !.pc[a] = "awaitS"] \in HostType
    BY <1>1, <2>1 DEF HostType, PCs
  <2> QED BY <1>3, <2>2 DEF GotSession
<1> QED BY <1>2, <1>3

LEMMA EnterSessionType ==
  ASSUME NEW h \in HostType, NEW a \in Turns
  PROVE  EnterSession(h, a) \in HostType
<1>1. SessionOf[a] \in Locks /\ a \in Actors /\ "wantS" \in PCs
  BY PlacementAssumption DEF Locks, Actors, PCs
<1> QED BY <1>1, GotSessionType, EnqueueType DEF EnterSession

LEMMA FinishedType ==
  ASSUME NEW f, NEW h \in HostType, NEW r \in Runs, NEW d \in Finished(f, h, r)
  PROVE  d \in HostType
<1>1. [ReleaseAdmission(h, r) EXCEPT !.roots = @ \ {r}, !.pc[r] = "done"] \in HostType
  BY ReleaseType DEF HostType, PCs
<1> QED BY <1>1, DispatchType DEF Finished

LEMMA OwnType ==
  ASSUME log \in Seq(Turns), NEW h \in HostType, NEW r \in Runs
  PROVE  Own(h, r) \in HostType
  BY LatestType, PlacementAssumption DEF Own, HostType, Locks, PCs, Turns, Actors

LEMMA FreshType ==
  ASSUME NEW f
  PROVE  Fresh(f) \in HostType
  BY DEF Fresh, HostType, PCs

LEMMA InterruptType ==
  ASSUME NEW f \in [Turns -> Facts], NEW r \in Runs
  PROVE  Interrupt(f, r) \in [Turns -> Facts]
  BY DEF Interrupt, Facts, Terminal

\* The initial state is well typed.
LEMMA TypeInit == Init => TypeOK
<1> SUFFICES ASSUME Init PROVE TypeOK
  OBVIOUS
<1>1. fact \in [Turns -> Facts]
  BY DEF Init, LedgerInit, Facts, Terminal
<1>2. log \in Seq(Turns)
  BY PlacementAssumption DEF Init, LedgerInit, Turns
<1>3. cont \in [Turns -> Turns \cup {None}]
  BY DEF Init, LedgerInit
<1>4. host \in HostType
  BY FreshType DEF Init
<1>5. restarts \in 0..MaxRestarts /\ mode \in {"up", "closing", "down"}
  BY LimitAssumption DEF Init
<1> QED BY <1>1, <1>2, <1>3, <1>4, <1>5 DEF TypeOK

\* Every step keeps the types.
LEMMA TypeStep == IInv /\ [Next]_vars => TypeOK'
<1> SUFFICES ASSUME IInv, [Next]_vars PROVE TypeOK'
  OBVIOUS
<1> TypeOK
  BY DEF IInv
<1> USE DEF TypeOK
<1>1. ASSUME NEW r \in Runs, Request(r)
      PROVE  TypeOK'
  <2>1. PICK lane \in Lanes(fact, host) :
          LET h == [host EXCEPT !.ticket[r] = lane]
          IN  host' = IF Uncontended(h, WorkspaceOf[r]) THEN Own(h, r)
                      ELSE Enqueue(h, WorkspaceOf[r], r, "wantPrep")
    BY <1>1 DEF Request
  <2> DEFINE h == [host EXCEPT !.ticket[r] = lane]
  <2>2. h \in HostType
    BY DEF Lanes, HostType
  <2>3. r \in Actors /\ WorkspaceOf[r] \in Locks /\ "wantPrep" \in PCs
    BY PlacementAssumption DEF Locks, PCs, Actors, Turns
  <2>4. host' \in {Own(h, r), Enqueue(h, WorkspaceOf[r], r, "wantPrep")}
    BY <2>1
  <2>5. host' \in HostType
    <3> HIDE DEF h
    <3> QED BY <2>2, <2>3, <2>4, OwnType, EnqueueType
  <2> QED BY <1>1, <2>5 DEF Request
<1>2. ASSUME NEW r \in Runs, RequestBusy(r)
      PROVE  TypeOK'
  BY <1>2, DispatchType DEF RequestBusy
<1>3. ASSUME NEW r \in Runs, Admit(r)
      PROVE  TypeOK'
  <2> DEFINE lease == host.ticket[r] = "active"
             h == [host EXCEPT !.holder[WorkspaceOf[r]] = None,
                               !.ticket[r] = "none",
                               !.roots = IF lease THEN @ \cup {r} ELSE @,
                               !.claim = IF lease THEN @ ELSE Unclaimed(@, r),
                               !.pc[r] = "accepted"]
  <2>1. h \in HostType
    BY DEF HostType, PCs, Unclaimed
  <2>2. host' \in Dispatch(fact', h)
    BY <1>3 DEF Admit
  <2>3. host' \in HostType
    <3> HIDE DEF h
    <3> QED BY <2>1, <2>2, DispatchType
  <2>4. r \in Turns /\ "admitted" \in Facts
    BY DEF Turns, Facts
  <2>5. fact' \in [Turns -> Facts] /\ log' \in Seq(Turns)
    BY <1>3, <2>4 DEF Admit
  <2>6. cont' \in [Turns -> Turns \cup {None}]
    BY <1>3, <2>4 DEF Admit, HostType
  <2> QED BY <1>3, <2>3, <2>5, <2>6 DEF Admit
<1>4. ASSUME NEW r \in Runs, Refuse(r)
      PROVE  TypeOK'
  <2>1. r \in Actors
    BY DEF Actors, Turns
  <2>2. ReleaseAdmission(Leave(host, r), r) \in HostType
    BY <2>1, LeaveType, ReleaseType
  <2>3. [ReleaseAdmission(Leave(host, r), r) EXCEPT !.ticket[r] = "none", !.pc[r] = "idle"]
          \in HostType
    BY <2>2 DEF HostType, PCs
  <2> QED BY <1>4, <2>3, DispatchType DEF Refuse
<1>5. ASSUME NEW r \in Runs, Start(r)
      PROVE  TypeOK'
  <2>1. [host EXCEPT !.pc[r] = "go"] \in HostType /\ [host EXCEPT !.pc[r] = "pending"] \in HostType
    BY DEF HostType, PCs
  <2>2. host' \in HostType
    BY <1>5, <2>1, DispatchType DEF Start
  <2> QED BY <1>5, <2>2 DEF Start
<1>6. ASSUME NEW r \in Runs, Begin(r)
      PROVE  TypeOK'
  BY <1>6, EnterSessionType DEF Begin, Turns
<1>7. ASSUME NEW r \in Runs, Execute(r)
      PROVE  TypeOK'
  <2>1. [host EXCEPT !.pc[r] = "executing"] \in HostType
    BY DEF HostType, PCs
  <2> QED BY <1>7, <2>1 DEF Execute, Facts
<1>8. ASSUME NEW r \in Runs, Unwind(r)
      PROVE  TypeOK'
  <2> DEFINE h == [Leave(host, r) EXCEPT !.pc[r] = "ended"]
  <2>1. h \in HostType
    BY LeaveType DEF HostType, PCs, Actors, Turns
  <2>2. \E d \in IF host.holder[SessionOf[r]] = r THEN Dispatch(fact', h) ELSE {h} :
          host' = ReleaseAdmission(d, r)
    BY <1>8 DEF Unwind
  <2>3. host' \in HostType
    <3> HIDE DEF h
    <3> QED BY <2>1, <2>2, DispatchType, ReleaseType
  <2>4. PICK out \in Outcomes(host.pc[r]) : fact' = [fact EXCEPT ![r] = out]
    BY <1>8 DEF Unwind
  <2>5. out \in Facts
    BY <2>4 DEF Outcomes, Facts, Terminal
  <2> QED BY <1>8, <2>3, <2>4, <2>5 DEF Unwind
<1>9. ASSUME NEW r \in Runs, CancelUnstarted(r)
      PROVE  TypeOK'
  <2>1. [host EXCEPT !.pc[r] = "cancelled"] \in HostType
    BY DEF HostType, PCs
  <2> QED BY <1>9, <2>1 DEF CancelUnstarted
<1>10. ASSUME NEW r \in Runs, CancelAccepted(r) \/ DoneCallback(r)
       PROVE  TypeOK'
  BY <1>10, InterruptType, FinishedType DEF CancelAccepted, DoneCallback
<1>11. ASSUME NEW c \in Controls, EnterControl(c) \/ LeaveControl(c)
       PROVE  TypeOK'
  <2>1. c \in Actors
    BY DEF Actors
  <2>2. EnterWorkspace(host, c) \in HostType
    BY <2>1, EnterWorkspaceType
  <2>3. [Leave(host, c) EXCEPT !.pc[c] = "idle"] \in HostType
    BY <2>1, LeaveType DEF HostType, PCs
  <2>4. host' \in HostType
    BY <1>11, <2>2, <2>3, DispatchType DEF EnterControl, LeaveControl
  <2> QED BY <1>11, <2>4 DEF EnterControl, LeaveControl
<1>12. ASSUME NEW a \in Abandons, Abandon(a)
       PROVE  TypeOK'
  <2>1. a \in Turns
    BY DEF Turns
  <2>2. [host EXCEPT !.seen[a] = Latest(SessionOf[a])] \in HostType
    BY <2>1, LatestType DEF HostType
  <2> QED BY <1>12, <2>1, <2>2, EnterSessionType DEF Abandon
<1>13. ASSUME NEW a \in Abandons, AbandonOpen(a)
       PROVE  TypeOK'
  <2>1. a \in Turns /\ a \in Actors
    BY DEF Turns, Actors
  <2>2. [host EXCEPT !.pc[a] = "executing"] \in HostType
    BY <2>1 DEF HostType, PCs
  <2>3. cont' \in [Turns -> Turns \cup {None}]
    BY <1>13, <2>1 DEF AbandonOpen, HostType
  <2> QED BY <1>13, <2>1, <2>2, <2>3 DEF AbandonOpen, Facts
<1>14. ASSUME NEW a \in Abandons, AbandonClose(a) \/ AbandonLeave(a)
       PROVE  TypeOK'
  <2>1. a \in Actors
    BY DEF Turns, Actors
  <2>2. [Leave(host, a) EXCEPT !.pc[a] = "done"] \in HostType
    BY <2>1, LeaveType DEF HostType, PCs
  <2>3. [Leave(host, a) EXCEPT !.pc[a] = "idle"] \in HostType
    BY <2>1, LeaveType DEF HostType, PCs
  <2>4. host' \in HostType
    BY <1>14, <2>2, <2>3, DispatchType DEF AbandonClose, AbandonLeave
  <2> QED BY <1>14, <2>4 DEF AbandonClose, AbandonLeave, Facts, Terminal
<1>15. ASSUME NEW l \in Locks, Resume(l)
       PROVE  TypeOK'
  <2> DEFINE a == Head(host.queue[l])
             h == [host EXCEPT !.queue[l] = Tail(@)]
  <2>1. /\ host.queue[l] \in Seq(Actors) /\ host.queue[l] # <<>>
        /\ a \in Actors /\ Tail(host.queue[l]) \in Seq(Actors)
        /\ 1 \in 1..Len(host.queue[l]) /\ a = host.queue[l][1]
    BY <1>15 DEF Resume, HostType
  <2>2. h \in HostType
    BY <2>1 DEF HostType
  <2>3. mode # "down"
    BY <1>15 DEF Resume
  <2>4. l \in Sessions => a \in Turns
    BY <2>1, <2>3, IdentityAssumption DEF IInv, Good, Waiters, WaitsFor
  <2>5. host.pc[a] = "wantPrep" => a \in Runs
    BY <2>1, <2>3 DEF IInv, Good, Stage, AbandonStage, ControlStage, Actors, Turns, InAdmit
  <2>6. host' = IF l \in Sessions THEN GotSession(h, a)
                ELSE IF host.pc[a] = "wantPrep" THEN Own(h, a)
                ELSE GotWorkspace(h, a)
    BY <1>15 DEF Resume
  <2>7. host' \in HostType
    <3> HIDE DEF h, a
    <3> QED BY <2>1, <2>2, <2>4, <2>5, <2>6, GotSessionType, GotWorkspaceType, OwnType
  <2> QED BY <1>15, <2>7 DEF Resume
<1>16. ASSUME NEW a \in Actors, WakeDone(a)
       PROVE  TypeOK'
  <2> DEFINE h == [host EXCEPT !.awaits[a] = None]
  <2>1. h \in HostType
    BY DEF HostType
  <2>2. host.pc[a] = "awaitS" => a \in Turns
    BY <1>16 DEF WakeDone, IInv, Good, Stage, ControlStage, Actors
  <2>3. host' = IF host.pc[a] = "awaitS" THEN EnterSession(h, a) ELSE EnterWorkspace(h, a)
    BY <1>16 DEF WakeDone
  <2>4. host' \in HostType
    <3> HIDE DEF h
    <3> QED BY <2>1, <2>2, <2>3, EnterSessionType, EnterWorkspaceType
  <2> QED BY <1>16, <2>4 DEF WakeDone
<1>17. ASSUME NEW t \in Turns, RecoverRun(t)
       PROVE  TypeOK'
  BY <1>17, FreshType DEF RecoverRun, Facts, Terminal
<1>18. CASE Close
  BY <1>18, LimitAssumption DEF Close
<1>19. CASE Exit \/ Reopen
  BY <1>19, FreshType DEF Exit, Reopen
<1>20. CASE Crash
  BY <1>20, LimitAssumption, FreshType DEF Crash
<1>21. CASE UNCHANGED vars
  BY <1>21 DEF vars
<1> QED
  BY <1>1, <1>2, <1>3, <1>4, <1>5, <1>6, <1>7, <1>8, <1>9, <1>10, <1>11, <1>12, <1>13,
     <1>14, <1>15, <1>16, <1>17, <1>18, <1>19, <1>20, <1>21 DEF Next

(***************************************************************************)
(* The queues of the locks.                                                *)
(***************************************************************************)
NotWaiting(h, a) == \A l \in Locks : \A i \in 1..Len(h.queue[l]) : h.queue[l][i] # a

LEMMA NotWaitingElsewhere ==
  ASSUME NEW h \in HostType, Waiters(h), NEW a \in Actors,
         h.pc[a] \notin {"wantS", "wantPrep", "wantW"}
  PROVE  NotWaiting(h, a)
  BY DEF NotWaiting, Waiters, WaitsFor

\* Nobody waits in the queues of two locks.
LEMMA OneQueue ==
  ASSUME NEW h, NEW a, NEW l \in Locks, NEW m \in Locks, WaitsFor(h, l, a), WaitsFor(h, m, a)
  PROVE  l = m
  BY DEF WaitsFor

\* The stage of a task that waits in no queue may change.
LEMMA WaitersKeep ==
  ASSUME NEW h \in HostType, NEW d \in HostType, Waiters(h), d.queue = h.queue,
         \A a \in Actors : d.pc[a] = h.pc[a] \/ NotWaiting(h, a)
  PROVE  Waiters(d)
<1>1. ASSUME NEW l \in Locks, NEW i \in 1..Len(h.queue[l])
      PROVE  WaitsFor(d, l, h.queue[l][i])
  <2>1. h.queue[l][i] \in Actors
    BY DEF HostType
  <2>2. d.pc[h.queue[l][i]] = h.pc[h.queue[l][i]]
    BY <2>1 DEF NotWaiting
  <2> QED BY <2>2 DEF Waiters, WaitsFor
<1> QED BY <1>1 DEF Waiters

LEMMA WaitersEnqueue ==
  ASSUME NEW h \in HostType, NEW d \in HostType, Waiters(h),
         NEW l \in Locks, NEW a \in Actors, WaitsFor(d, l, a), NotWaiting(h, a),
         d.queue = [h.queue EXCEPT ![l] = Append(@, a)],
         \A b \in Actors \ {a} : d.pc[b] = h.pc[b]
  PROVE  Waiters(d)
<1> DEFINE q == h.queue[l]
<1>1. q \in Seq(Actors) /\ Len(q) \in Nat
  BY DEF HostType
<1>2. /\ Len(Append(q, a)) = Len(q) + 1
      /\ Append(q, a)[Len(q) + 1] = a
      /\ \A i \in 1..Len(q) : Append(q, a)[i] = q[i]
  BY <1>1
<1>3. d.queue[l] = Append(q, a) /\ \A m \in Locks \ {l} : d.queue[m] = h.queue[m]
  BY DEF HostType
<1>4. ASSUME NEW m \in Locks, NEW i \in 1..Len(h.queue[m])
      PROVE  h.queue[m][i] # a /\ WaitsFor(d, m, h.queue[m][i])
  <2>1. h.queue[m][i] \in Actors \ {a}
    BY DEF HostType, NotWaiting
  <2>2. d.pc[h.queue[m][i]] = h.pc[h.queue[m][i]]
    BY <2>1
  <2> QED BY <2>1, <2>2 DEF Waiters, WaitsFor
<1>5. ASSUME NEW i \in 1..Len(d.queue[l])
      PROVE  WaitsFor(d, l, d.queue[l][i])
  <2>1. CASE i = Len(q) + 1
    BY <1>2, <1>3, <2>1
  <2>2. CASE i \in 1..Len(q)
    BY <1>2, <1>3, <1>4, <2>2
  <2> QED BY <1>1, <1>2, <1>3, <2>1, <2>2
<1>6. Injective(d.queue[l])
  <2>1. \A i \in 1..Len(q) : q[i] # a
    BY <1>4
  <2>2. Injective(q)
    BY DEF Waiters
  <2>3. d.queue[l] = Append(q, a)
    BY <1>3
  <2> HIDE DEF q
  <2>4. ASSUME NEW i \in 1..(Len(q) + 1), NEW j \in 1..(Len(q) + 1),
               Append(q, a)[i] = Append(q, a)[j]
        PROVE  i = j
    <3>1. (i \in 1..Len(q) \/ i = Len(q) + 1) /\ (j \in 1..Len(q) \/ j = Len(q) + 1)
      BY <1>1
    <3> QED BY <1>2, <2>1, <2>2, <2>4, <3>1 DEF Injective
  <2> QED BY <1>2, <2>3, <2>4 DEF Injective
<1> QED BY <1>3, <1>4, <1>5, <1>6 DEF Waiters

LEMMA WaitersLeave ==
  ASSUME NEW h \in HostType, NEW d \in HostType, Waiters(h), NEW a \in Actors,
         \A l \in Locks : d.queue[l] = Without(h.queue[l], a),
         \A b \in Actors \ {a} : d.pc[b] = h.pc[b] \/ NotWaiting(h, b)
  PROVE  Waiters(d) /\ NotWaiting(d, a)
<1>1. ASSUME NEW l \in Locks
      PROVE  /\ \A i \in 1..Len(d.queue[l]) :
                   /\ \E j \in 1..Len(h.queue[l]) : d.queue[l][i] = h.queue[l][j]
                   /\ d.queue[l][i] # a
             /\ Injective(d.queue[l])
  <2>1. h.queue[l] \in Seq(Actors) /\ d.queue[l] = Without(h.queue[l], a)
    BY DEF HostType
  <2>2. Injective(h.queue[l])
    BY DEF Waiters
  <2> QED BY <2>1, <2>2, WithoutLemma
<1>2. ASSUME NEW l \in Locks, NEW i \in 1..Len(d.queue[l])
      PROVE  WaitsFor(d, l, d.queue[l][i])
  <2>1. PICK j \in 1..Len(h.queue[l]) : d.queue[l][i] = h.queue[l][j]
    BY <1>1
  <2>2. d.queue[l][i] # a
    BY <1>1
  <2>3. h.queue[l][j] \in Actors
    BY DEF HostType
  <2>4. d.pc[h.queue[l][j]] = h.pc[h.queue[l][j]]
    BY <2>1, <2>2, <2>3 DEF NotWaiting
  <2> QED BY <2>1, <2>4 DEF Waiters, WaitsFor
<1> QED BY <1>1, <1>2 DEF Waiters, NotWaiting

\* The first waiter of a lock, resumed, waits nowhere.
LEMMA WaitersPop ==
  ASSUME NEW h \in HostType, NEW d \in HostType, Waiters(h), NEW l \in Locks,
         h.queue[l] # <<>>, d.pc = h.pc,
         d.queue = [h.queue EXCEPT ![l] = Tail(@)]
  PROVE  Waiters(d) /\ NotWaiting(d, Head(h.queue[l]))
<1> DEFINE q == h.queue[l]
<1>1. /\ q \in Seq(Actors) /\ Len(q) \in Nat \ {0} /\ Head(q) = q[1]
      /\ Len(Tail(q)) = Len(q) - 1 /\ \A i \in 1..(Len(q) - 1) : Tail(q)[i] = q[i + 1]
  BY DEF HostType
<1>2. d.queue[l] = Tail(q) /\ \A m \in Locks \ {l} : d.queue[m] = h.queue[m]
  BY DEF HostType
<1>3. Injective(q) /\ \A i \in 1..Len(q) : WaitsFor(d, l, q[i])
  BY DEF Waiters, WaitsFor
<1>4. \A i \in 1..(Len(q) - 1) : i + 1 \in 1..Len(q) /\ i + 1 # 1
  BY <1>1
<1>5. 1 \in 1..Len(q)
  BY <1>1
<1>6. /\ Injective(d.queue[l])
      /\ \A i \in 1..Len(d.queue[l]) : d.queue[l][i] # q[1] /\ WaitsFor(d, l, d.queue[l][i])
  <2>1. d.queue[l] = Tail(q)
    BY <1>2
  <2> HIDE DEF q
  <2>2. ASSUME NEW i \in 1..(Len(q) - 1)
        PROVE  Tail(q)[i] # q[1] /\ WaitsFor(d, l, Tail(q)[i])
    BY <1>1, <1>3, <1>4, <1>5 DEF Injective
  <2>3. ASSUME NEW i \in 1..(Len(q) - 1), NEW j \in 1..(Len(q) - 1), Tail(q)[i] = Tail(q)[j]
        PROVE  i = j
    <3>1. q[i + 1] = q[j + 1] /\ i + 1 \in 1..Len(q) /\ j + 1 \in 1..Len(q)
      BY <1>1, <1>4, <2>3
    <3>2. i + 1 = j + 1
      BY <1>3, <3>1 DEF Injective
    <3> QED BY <3>2
  <2> QED BY <1>1, <2>1, <2>2, <2>3 DEF Injective
<1>7. ASSUME NEW m \in Locks \ {l}, NEW i \in 1..Len(h.queue[m])
      PROVE  h.queue[m][i] # q[1] /\ WaitsFor(d, m, h.queue[m][i])
  <2>1. WaitsFor(h, m, h.queue[m][i]) /\ WaitsFor(h, l, q[1])
    BY <1>5 DEF Waiters
  <2>2. WaitsFor(d, m, h.queue[m][i])
    BY <2>1 DEF WaitsFor
  <2> QED BY <2>1, <2>2, OneQueue
<1>8. \A m \in Locks \ {l} : Injective(d.queue[m])
  BY <1>2 DEF Waiters
<1>9. ASSUME NEW m \in Locks
      PROVE  /\ Injective(d.queue[m])
             /\ \A i \in 1..Len(d.queue[m]) :
                  WaitsFor(d, m, d.queue[m][i]) /\ d.queue[m][i] # q[1]
  <2>1. CASE m = l
    BY <2>1, <1>6
  <2>2. CASE m # l
    BY <2>2, <1>2, <1>7, <1>8
  <2> QED BY <2>1, <2>2
<1> QED
  <2> HIDE DEF q
  <2>1. Waiters(d)
    BY <1>9 DEF Waiters
  <2>2. NotWaiting(d, q[1])
    BY <1>9 DEF NotWaiting
  <2> QED BY <1>1, <2>1, <2>2 DEF q


(***************************************************************************)
(* A step of one actor a, from log f and memory h to g and d, keeps the    *)
(* invariant if it respects the others, a's own new stage is a good one,   *)
(* and a takes a slot or a Session only if one is free.                    *)
(***************************************************************************)
OthersKept(f, h, g, d, a) ==
  /\ \A b \in Actors \ {a} : d.pc[b] = h.pc[b]
  /\ \A t \in Turns \ {a} : g[t] = f[t]
  /\ \A r \in Runs \ {a} : /\ d.ticket[r] = h.ticket[r]
                           /\ r \in d.roots <=> r \in h.roots
                           /\ r \in h.owned => r \in d.owned
  /\ \A w \in Workspaces : d.claim[w] \in {None, a, h.claim[w]}
  /\ \A l \in Locks : h.holder[l] \in {None, a} \/ d.holder[l] = h.holder[l]

Conserves(f, h, g, d, a) ==
  a \in Runs =>
    /\ a \in ActiveSet(g, d) => \/ a \in ActiveSet(f, h)
                                \/ Cardinality(ActiveSet(f, h)) < ActiveRoots
    /\ a \in WaitingSet(g, d) => \/ a \in WaitingSet(f, h)
                                 \/ Cardinality(WaitingSet(f, h)) < WaitingRoots
    /\ Pending(g, d, a) => \/ Pending(f, h, a)
                           \/ \A r \in Runs : SessionOf[r] = SessionOf[a] => ~ Pending(f, h, r)

\* One more member is one more at most.
LEMMA OneMore ==
  ASSUME NEW S \in SUBSET Runs, NEW T \in SUBSET Runs, NEW a, NEW n \in Nat, T \ {a} \subseteq S,
         Cardinality(S) <= n, a \in T => a \in S \/ Cardinality(S) < n
  PROVE  Cardinality(T) <= n
<1>1. IsFiniteSet(S) /\ Cardinality(S) \in Nat
  BY FiniteAssumption, FS_Subset, FS_CardinalityType
<1>2. CASE a \in T /\ a \notin S
  <2>1. IsFiniteSet(S \cup {a}) /\ Cardinality(S \cup {a}) = Cardinality(S) + 1
    BY <1>1, <1>2, FS_AddElement
  <2>2. T \subseteq S \cup {a}
    OBVIOUS
  <2>3. Cardinality(T) <= Cardinality(S \cup {a}) /\ Cardinality(T) \in Nat
    BY <2>1, <2>2, FS_Subset, FS_CardinalityType
  <2> QED BY <1>1, <1>2, <2>1, <2>3
<1>3. CASE ~ (a \in T /\ a \notin S)
  <2>1. T \subseteq S
    BY <1>3
  <2>2. Cardinality(T) <= Cardinality(S) /\ Cardinality(T) \in Nat
    BY <1>1, <2>1, FS_Subset, FS_CardinalityType
  <2> QED BY <1>1, <2>2
<1> QED BY <1>2, <1>3

LEMMA OneActor ==
  ASSUME NEW f, NEW h \in HostType, NEW g, NEW d \in HostType, NEW a \in Actors,
         Good(f, h), OthersKept(f, h, g, d, a), Stage(g, d, a), Waiters(d),
         \A w \in Workspaces : d.claim[w] = a => a \in d.owned,
         Conserves(f, h, g, d, a)
  PROVE  Good(g, d)
<1>1. \A b \in Actors : b # None
  BY IdentityAssumption
<1>2. ASSUME NEW b \in Actors \ {a}
      PROVE  Stage(g, d, b)
  <2>1. Stage(f, h, b) /\ d.pc[b] = h.pc[b]
    BY DEF Good, OthersKept
  <2>2. b \in Runs => RunStage(g, d, b)
    BY <1>1, <2>1 DEF Stage, RunStage, OthersKept, Turns
  <2>3. b \in Abandons => AbandonStage(g, d, b)
    BY <2>1 DEF Stage, AbandonStage, OthersKept, Turns
  <2>4. b \in Controls => ControlStage(d, b)
    BY <2>1 DEF Stage, ControlStage
  <2>5. \A l \in Locks : h.holder[l] = b => d.holder[l] = b
    BY <1>1 DEF OthersKept
  <2>6. WorkspaceOf[b] \in Locks /\ (b \in Turns => SessionOf[b] \in Locks)
    BY PlacementAssumption DEF Locks
  <2>7. LocksHeld(d, b)
    BY <2>1, <2>5, <2>6 DEF Stage, LocksHeld
  <2> QED BY <2>2, <2>3, <2>4, <2>7 DEF Stage
<1>3. OwnedClaims(d)
  BY DEF OwnedClaims, OthersKept, Good, HostType
<1>4. OnePending(g, d)
  <2> SUFFICES ASSUME NEW q \in Runs, NEW r \in Runs, SessionOf[q] = SessionOf[r],
                      Pending(g, d, q), Pending(g, d, r)
               PROVE  q = r
    BY DEF OnePending
  <2>1. \A p \in Runs \ {a} : Pending(g, d, p) => Pending(f, h, p)
    BY DEF Pending, OthersKept, Turns
  <2>2. \A p, u \in Runs : SessionOf[p] = SessionOf[u] /\ Pending(f, h, p) /\ Pending(f, h, u) => p = u
    BY DEF Good, OnePending
  <2>3. a \in Runs /\ Pending(g, d, a) =>
          \/ Pending(f, h, a)
          \/ \A p \in Runs : SessionOf[p] = SessionOf[a] => ~ Pending(f, h, p)
    BY DEF Conserves
  <2> QED BY <2>1, <2>2, <2>3
<1>5. Bounds(g, d)
  <2>1. /\ ActiveSet(f, h) \in SUBSET Runs /\ ActiveSet(g, d) \in SUBSET Runs
        /\ WaitingSet(f, h) \in SUBSET Runs /\ WaitingSet(g, d) \in SUBSET Runs
    BY DEF ActiveSet, WaitingSet, HostType
  <2>2. \A r \in Runs \ {a} : g[r] = f[r] /\ d.ticket[r] = h.ticket[r] /\ (r \in d.roots <=> r \in h.roots)
    BY DEF OthersKept, Turns
  <2>3. ActiveSet(g, d) \ {a} \subseteq ActiveSet(f, h)
    BY <2>2 DEF ActiveSet, Held, Ticketed, HostType
  <2>4. WaitingSet(g, d) \ {a} \subseteq WaitingSet(f, h)
    BY <2>2 DEF WaitingSet, Held, Ticketed
  <2>5. Cardinality(ActiveSet(f, h)) <= ActiveRoots /\ Cardinality(WaitingSet(f, h)) <= WaitingRoots
    BY DEF Good, Bounds
  <2>6. Cardinality(ActiveSet(g, d)) <= ActiveRoots
    <3>1. ActiveRoots \in Nat
      BY LimitAssumption
    <3>2. a \in ActiveSet(g, d) => a \in ActiveSet(f, h) \/ Cardinality(ActiveSet(f, h)) < ActiveRoots
      BY <2>1 DEF Conserves
    <3> QED BY <2>1, <2>3, <2>5, <3>1, <3>2, OneMore
  <2>7. Cardinality(WaitingSet(g, d)) <= WaitingRoots
    <3>1. WaitingRoots \in Nat
      BY LimitAssumption
    <3>2. a \in WaitingSet(g, d) => a \in WaitingSet(f, h) \/ Cardinality(WaitingSet(f, h)) < WaitingRoots
      BY <2>1 DEF Conserves
    <3> QED BY <2>1, <2>4, <2>5, <3>1, <3>2, OneMore
  <2> QED BY <2>6, <2>7 DEF Bounds
<1>6. \A b \in Actors : Stage(g, d, b)
  BY <1>2
<1> QED BY <1>3, <1>4, <1>5, <1>6 DEF Good

\* dispatch() hands free capacity to queued Runs and touches nothing else.
DispatchKeeps(h, d) ==
  /\ d.seen = h.seen /\ d.owned = h.owned /\ d.holder = h.holder /\ d.queue = h.queue
  /\ d.ticket = h.ticket /\ h.roots \subseteq d.roots
  /\ \A a \in Actors : d.pc[a] = h.pc[a] \/ (h.pc[a] = "pending" /\ d.pc[a] = "go")

LEMMA DispatchGood ==
  ASSUME NEW f, NEW h \in HostType, Good(f, h), NEW d \in Dispatch(f, h)
  PROVE  Good(f, d) /\ DispatchKeeps(h, d)
<1>1. CASE d = h
  BY <1>1 DEF DispatchKeeps
<1>2. ASSUME NEW C \in ClaimSets(f, h), d = Grant(h, C)
      PROVE  Good(f, d) /\ DispatchKeeps(h, d)
  <2>1. C \subseteq {r \in Runs : Claimable(f, h, r)}
        /\ (C # {} => Cardinality(ActiveSet(f, h)) + Cardinality(C) <= ActiveRoots)
    BY DEF ClaimSets
  <2>2. \A r \in C : r \in Runs /\ r \in Actors /\ h.pc[r] = "pending" /\ f[r] = "admitted"
                     /\ r \in h.owned /\ h.ticket[r] = "none" /\ r \notin h.roots
    BY <2>1 DEF Claimable, Actors, Turns, Good, Stage, RunStage, Held, Ticketed
  <2>3. d \in HostType
    BY <1>2, <2>1 DEF Grant, HostType, PCs
  <2>4. /\ d.seen = h.seen /\ d.owned = h.owned /\ d.holder = h.holder /\ d.queue = h.queue
        /\ d.ticket = h.ticket /\ d.roots = h.roots \cup C
        /\ \A a \in Actors : d.pc[a] = IF a \in C THEN "go" ELSE h.pc[a]
    BY <1>2 DEF Grant, HostType
  <2>5. \A w \in Workspaces : d.claim[w] = h.claim[w] \/ d.claim[w] \in C
    <3> SUFFICES ASSUME NEW w \in Workspaces
                 PROVE  d.claim[w] = h.claim[w] \/ d.claim[w] \in C
      OBVIOUS
    <3>1. d.claim[w] = IF \E r \in C : WorkspaceOf[r] = w
                       THEN CHOOSE r \in C : WorkspaceOf[r] = w ELSE h.claim[w]
      BY <1>2 DEF Grant, HostType
    <3> QED BY <3>1
  <2>6. DispatchKeeps(h, d)
    BY <2>2, <2>4 DEF DispatchKeeps
  <2>7. ASSUME NEW b \in Actors
        PROVE  Stage(f, d, b)
    <3>1. Stage(f, h, b)
      BY DEF Good
    <3>2. CASE b \in C
      <4>1. d.pc[b] = "go" /\ b \in d.roots /\ b \in d.owned /\ d.ticket[b] = "none"
            /\ f[b] = "admitted" /\ b \in Runs
        BY <2>2, <2>4, <3>2
      <4>2. b \notin Abandons /\ b \notin Controls
        BY <4>1, IdentityAssumption DEF Turns
      <4> QED BY <4>1, <4>2 DEF Stage, RunStage, LocksHeld, Asking, Accepted, Dispatched, InAdmit
    <3>3. CASE b \notin C
      <4>1. d.pc[b] = h.pc[b]
        BY <2>4, <3>3
      <4>2. b \in Runs => RunStage(f, d, b)
        BY <2>4, <2>5, <3>1, <3>3, <4>1 DEF Stage, RunStage
      <4>3. b \in Abandons => AbandonStage(f, d, b)
        BY <3>1, <4>1 DEF Stage, AbandonStage
      <4> QED BY <2>4, <3>1, <4>1, <4>2, <4>3 DEF Stage, ControlStage, LocksHeld
    <3> QED BY <3>2, <3>3
  <2>8. Waiters(d)
    <3>1. \A a \in Actors : d.pc[a] = h.pc[a] \/ NotWaiting(h, a)
      BY <2>2, <2>4, NotWaitingElsewhere DEF Good
    <3> QED BY <2>3, <2>4, <3>1, WaitersKeep DEF Good
  <2>9. OwnedClaims(d)
    BY <2>2, <2>4, <2>5 DEF OwnedClaims, Good
  <2>10. OnePending(f, d)
    BY <2>4 DEF OnePending, Pending, Good
  <2>11. Bounds(f, d)
    <3>1. /\ ActiveSet(f, h) \in SUBSET Runs /\ ActiveSet(f, d) \subseteq ActiveSet(f, h) \cup C
          /\ WaitingSet(f, h) \in SUBSET Runs /\ WaitingSet(f, d) \subseteq WaitingSet(f, h)
      BY <2>3, <2>4 DEF ActiveSet, WaitingSet, HostType, Held, Ticketed
    <3>2. IsFiniteSet(ActiveSet(f, h)) /\ IsFiniteSet(C) /\ IsFiniteSet(WaitingSet(f, h))
      BY <2>1, <3>1, FiniteAssumption, FS_Subset
    <3>3. Cardinality(WaitingSet(f, d)) <= Cardinality(WaitingSet(f, h))
          /\ Cardinality(WaitingSet(f, d)) \in Nat /\ Cardinality(WaitingSet(f, h)) \in Nat
      BY <3>1, <3>2, FS_Subset, FS_CardinalityType
    <3>4. /\ IsFiniteSet(ActiveSet(f, h) \cup C)
          /\ Cardinality(ActiveSet(f, h) \cup C) =
               Cardinality(ActiveSet(f, h)) + Cardinality(C) - Cardinality(ActiveSet(f, h) \cap C)
      BY <3>2, FS_Union
    <3>5. IsFiniteSet(ActiveSet(f, h) \cap C) /\ IsFiniteSet(ActiveSet(f, d))
      BY <3>1, <3>2, <3>4, FS_Subset
    <3>6. Cardinality(ActiveSet(f, h) \cap C) \in Nat /\ Cardinality(C) \in Nat
          /\ Cardinality(ActiveSet(f, h)) \in Nat /\ Cardinality(ActiveSet(f, d)) \in Nat
      BY <3>2, <3>5, FS_CardinalityType
    <3>7. Cardinality(ActiveSet(f, d)) <= Cardinality(ActiveSet(f, h) \cup C)
      BY <3>1, <3>4, FS_Subset
    <3>8. Cardinality(ActiveSet(f, h)) <= ActiveRoots /\ Cardinality(WaitingSet(f, h)) <= WaitingRoots
      BY DEF Good, Bounds
    <3>9. C = {} => Cardinality(C) = 0
      BY FS_EmptySet
    <3>10. ActiveRoots \in Nat /\ WaitingRoots \in Nat
      BY LimitAssumption
    <3> QED BY <2>1, <3>3, <3>4, <3>6, <3>7, <3>8, <3>9, <3>10 DEF Bounds
  <2> QED BY <2>6, <2>7, <2>8, <2>9, <2>10, <2>11 DEF Good
<1> QED BY <1>1, <1>2 DEF Dispatch

(***************************************************************************)
(* Taking and giving up locks.  Ready: a is about to ask for a lock, with  *)
(* what a Run has by then.                                                 *)
(***************************************************************************)
Ready(f, h, a) ==
  /\ NotWaiting(h, a)
  /\ a \in Runs => /\ f[a] = "admitted" /\ h.ticket[a] = "none"
                   /\ a \in h.roots /\ a \in h.owned
  /\ a \in Abandons => f[a] = "none"

\* No request comes to prepare an admission, and no lease is given up.
Quiet(h, d) ==
  /\ \A r \in Runs : d.pc[r] = "preparing" => h.pc[r] = "preparing" /\ d.seen[r] = h.seen[r]
  /\ h.roots \subseteq d.roots

\* Only locks, awaited events and the stage of a change.
OnlyLocks(h, d, a) ==
  /\ d.seen = h.seen /\ d.owned = h.owned /\ d.ticket = h.ticket
  /\ d.roots = h.roots /\ d.claim = h.claim
  /\ \A b \in Actors \ {a} : d.pc[b] = h.pc[b]
  /\ \A l \in Locks : h.holder[l] \in {None, a} \/ d.holder[l] = h.holder[l]

\* Where a can stand once it is ready, with the locks it must have there.
Placed(d, a) ==
  /\ a \in Runs => d.pc[a] \in {"checking"} \cup InAdmit
  /\ a \in Abandons => d.pc[a] \in {"inside"} \cup InAdmit
  /\ a \in Controls => d.pc[a] \in {"wantW", "awaitW", "inside"}
  /\ LocksHeld(d, a)

LEMMA LocksGood ==
  ASSUME NEW f, NEW h \in HostType, NEW d \in HostType, NEW a \in Actors, Good(f, h),
         Ready(f, h, a), OnlyLocks(h, d, a), Placed(d, a), Waiters(d)
  PROVE  Good(f, d) /\ Quiet(h, d)
<1>1. OthersKept(f, h, f, d, a)
  BY DEF OthersKept, OnlyLocks
<1>2. Stage(f, d, a)
  <2>1. a \in Runs => RunStage(f, d, a)
    BY DEF Ready, OnlyLocks, Placed, RunStage, Asking, Accepted, Dispatched, InAdmit
  <2>2. a \in Abandons => AbandonStage(f, d, a)
    BY DEF Ready, OnlyLocks, Placed, AbandonStage, InAdmit
  <2>3. a \in Controls => ControlStage(d, a)
    BY DEF Placed, ControlStage
  <2> QED BY <2>1, <2>2, <2>3 DEF Placed, Stage
<1>3. \A w \in Workspaces : d.claim[w] = a => a \in d.owned
  BY IdentityAssumption DEF OnlyLocks, OwnedClaims, Good
<1>4. Conserves(f, h, f, d, a)
  BY DEF Conserves, OnlyLocks, Ready, ActiveSet, WaitingSet, Held, Ticketed, Pending
<1>5. Quiet(h, d)
  BY IdentityAssumption DEF Quiet, OnlyLocks, Placed, InAdmit, Turns, Actors
<1> QED BY <1>1, <1>2, <1>3, <1>4, <1>5, OneActor

LEMMA GotWorkspaceGood ==
  ASSUME NEW f, NEW h \in HostType, Good(f, h), NEW a \in Actors, Ready(f, h, a),
         a \in Turns => h.holder[SessionOf[a]] = a, h.holder[WorkspaceOf[a]] = None
  PROVE  Good(f, GotWorkspace(h, a)) /\ Quiet(h, GotWorkspace(h, a))
<1> DEFINE w == WorkspaceOf[a]
           d == GotWorkspace(h, a)
<1>1. d \in HostType /\ w \in Workspaces /\ w \in Locks /\ w \notin Sessions
  BY GotWorkspaceType, PlacementAssumption, IdentityAssumption DEF Locks
<1>2. \/ d.holder = h.holder /\ d.pc[a] = "awaitW"
      \/ /\ d.holder = [h.holder EXCEPT ![w] = a]
         /\ d.pc[a] = IF a \in Runs THEN "checking" ELSE "inside"
  BY DEF GotWorkspace, HostType
<1>3. OnlyLocks(h, d, a)
  BY <1>1 DEF OnlyLocks, GotWorkspace, HostType
<1>4. Placed(d, a)
  <2>1. LocksHeld(d, a)
    <3>1. a \in Turns => SessionOf[a] \in Locks /\ SessionOf[a] # w
      BY <1>1, PlacementAssumption DEF Locks
    <3>2. a \in Turns => d.holder[SessionOf[a]] = a
      BY <1>2, <3>1 DEF HostType
    <3>3. d.pc[a] # "awaitW" => d.holder[w] = a
      BY <1>1, <1>2 DEF HostType
    <3>4. d.pc[a] \in {"awaitW", "checking", "inside"}
      BY <1>2
    <3> QED BY <3>2, <3>3, <3>4 DEF LocksHeld
  <2> QED BY <1>2, <2>1, IdentityAssumption DEF Placed, InAdmit, Turns
<1>5. d.queue = h.queue
  BY DEF GotWorkspace
<1>6. Waiters(d)
  BY <1>1, <1>3, <1>5, WaitersKeep DEF Good, Ready, OnlyLocks
<1> QED BY <1>1, <1>3, <1>4, <1>6, LocksGood

\* A lock's queue takes a task whose locks are those of its new stage.
LEMMA EnqueueGood ==
  ASSUME NEW f, NEW h \in HostType, Good(f, h), NEW a \in Actors, Ready(f, h, a),
         NEW l \in Locks, NEW at \in InAdmit, WaitsFor(Enqueue(h, l, a, at), l, a),
         Placed(Enqueue(h, l, a, at), a)
  PROVE  Good(f, Enqueue(h, l, a, at)) /\ Quiet(h, Enqueue(h, l, a, at))
<1> DEFINE d == Enqueue(h, l, a, at)
<1>1. d \in HostType
  BY EnqueueType DEF InAdmit, PCs
<1>2. OnlyLocks(h, d, a)
  BY DEF OnlyLocks, Enqueue, HostType
<1>3. d.queue = [h.queue EXCEPT ![l] = Append(@, a)]
  BY DEF Enqueue
<1>4. Waiters(d)
  <2>1. WaitsFor(d, l, a)
    OBVIOUS
  <2> HIDE DEF d
  <2>2. Waiters(h) /\ NotWaiting(h, a) /\ \A b \in Actors \ {a} : d.pc[b] = h.pc[b]
    BY <1>2 DEF Good, Ready, OnlyLocks
  <2> QED BY <1>1, <1>3, <2>1, <2>2, WaitersEnqueue
<1> QED BY <1>1, <1>2, <1>4, LocksGood

LEMMA EnterWorkspaceGood ==
  ASSUME NEW f, NEW h \in HostType, Good(f, h), NEW a \in Actors, Ready(f, h, a),
         a \in Turns => h.holder[SessionOf[a]] = a
  PROVE  Good(f, EnterWorkspace(h, a)) /\ Quiet(h, EnterWorkspace(h, a))
<1> DEFINE w == WorkspaceOf[a]
           d == Enqueue(h, w, a, "wantW")
<1>1. w \in Locks /\ w \in Workspaces
  BY PlacementAssumption DEF Locks
<1>2. CASE Uncontended(h, w)
  BY <1>2, GotWorkspaceGood DEF EnterWorkspace, Uncontended
<1>3. CASE ~ Uncontended(h, w)
  <2>1. d.pc[a] = "wantW" /\ d.holder = h.holder
    BY DEF Enqueue, HostType
  <2>2. WaitsFor(d, w, a)
    BY <1>1, <2>1 DEF WaitsFor
  <2>3. Placed(d, a)
    BY <2>1 DEF Placed, LocksHeld, InAdmit
  <2> QED BY <1>1, <1>3, <2>2, <2>3, EnqueueGood DEF EnterWorkspace, InAdmit
<1> QED BY <1>2, <1>3

\* Holding one lock more disturbs nothing.
LEMMA HoldGood ==
  ASSUME NEW f, NEW h \in HostType, Good(f, h), NEW a \in Actors, NEW l \in Locks,
         h.holder[l] = None, NotWaiting(h, a)
  PROVE  LET d == [h EXCEPT !.holder[l] = a]
         IN  d \in HostType /\ Good(f, d) /\ NotWaiting(d, a)
<1> DEFINE d == [h EXCEPT !.holder[l] = a]
<1>1. d \in HostType
  BY DEF HostType
<1>2. /\ d.pc = h.pc /\ d.ticket = h.ticket /\ d.roots = h.roots /\ d.owned = h.owned
      /\ d.claim = h.claim /\ d.queue = h.queue
      /\ \A m \in Locks : d.holder[m] = IF m = l THEN a ELSE h.holder[m]
  BY DEF HostType
<1> HIDE DEF d
<1>3. OthersKept(f, h, f, d, a)
  BY <1>2 DEF OthersKept
<1>4. Stage(f, d, a)
  <2>1. Stage(f, h, a)
    BY DEF Good
  <2>2. LocksHeld(d, a)
    <3>1. WorkspaceOf[a] \in Locks /\ (a \in Turns => SessionOf[a] \in Locks)
      BY PlacementAssumption DEF Locks
    <3> QED BY <2>1, <1>2, <3>1 DEF Stage, LocksHeld
  <2> QED BY <1>2, <2>1, <2>2 DEF Stage, RunStage, AbandonStage, ControlStage
<1>5. Waiters(d) /\ NotWaiting(d, a)
  BY <1>1, <1>2, WaitersKeep DEF Good, NotWaiting
<1>6. \A w \in Workspaces : d.claim[w] = a => a \in d.owned
  BY <1>2, IdentityAssumption DEF OwnedClaims, Good
<1>7. Conserves(f, h, f, d, a)
  BY <1>2 DEF Conserves, ActiveSet, WaitingSet, Held, Ticketed, Pending
<1>8. Good(f, d)
  BY <1>1, <1>3, <1>4, <1>5, <1>6, <1>7, OneActor
<1> QED BY <1>1, <1>5, <1>8 DEF d

LEMMA GotSessionGood ==
  ASSUME NEW f, NEW h \in HostType, Good(f, h), NEW a \in Turns, Ready(f, h, a),
         h.holder[SessionOf[a]] = None
  PROVE  Good(f, GotSession(h, a)) /\ Quiet(h, GotSession(h, a))
<1> DEFINE s == SessionOf[a]
           other == {r \in h.owned : SessionOf[r] = s /\ r # a}
<1>1. s \in Locks /\ s \in Sessions /\ a \in Actors /\ a \notin Controls
  BY PlacementAssumption, IdentityAssumption DEF Locks, Actors
<1>2. CASE other = {}
  <2> DEFINE d == [h EXCEPT !.holder[s] = a]
  <2>1. d \in HostType /\ Good(f, d) /\ NotWaiting(d, a)
    BY <1>1, HoldGood DEF Ready
  <2>2. d.holder[s] = a /\ d.pc = h.pc /\ d.seen = h.seen /\ d.roots = h.roots /\ d.owned = h.owned
        /\ d.ticket = h.ticket
    BY <1>1 DEF HostType
  <2>3. GotSession(h, a) = EnterWorkspace(d, a)
    BY <1>2 DEF GotSession
  <2> HIDE DEF d
  <2>4. Ready(f, d, a)
    BY <2>1, <2>2 DEF Ready
  <2>5. Good(f, EnterWorkspace(d, a)) /\ Quiet(d, EnterWorkspace(d, a))
    BY <1>1, <2>1, <2>2, <2>4, EnterWorkspaceGood
  <2> QED BY <2>2, <2>3, <2>5 DEF Quiet
<1>3. CASE other # {}
  <2> DEFINE d == [h EXCEPT !.awaits[a] = CHOOSE r \in other : TRUE, !.pc[a] = "awaitS"]
  <2>1. GotSession(h, a) = d
    BY <1>3 DEF GotSession
  <2>2. d \in HostType
    BY <2>1, GotSessionType
  <2>3. OnlyLocks(h, d, a) /\ d.pc[a] = "awaitS" /\ d.queue = h.queue
    BY <1>1 DEF OnlyLocks, HostType
  <2> HIDE DEF d
  <2>4. Placed(d, a)
    BY <1>1, <2>3 DEF Placed, InAdmit, LocksHeld
  <2>5. Waiters(d)
    BY <2>2, <2>3, WaitersKeep DEF Good, OnlyLocks, Ready
  <2> QED BY <1>1, <2>1, <2>2, <2>3, <2>4, <2>5, LocksGood
<1> QED BY <1>2, <1>3

LEMMA EnterSessionGood ==
  ASSUME NEW f, NEW h \in HostType, Good(f, h), NEW a \in Turns, Ready(f, h, a)
  PROVE  Good(f, EnterSession(h, a)) /\ Quiet(h, EnterSession(h, a))
<1> DEFINE s == SessionOf[a]
           d == Enqueue(h, s, a, "wantS")
<1>1. s \in Locks /\ s \in Sessions /\ a \in Actors /\ a \notin Controls
  BY PlacementAssumption, IdentityAssumption DEF Locks, Actors
<1>2. CASE Uncontended(h, s)
  BY <1>2, GotSessionGood DEF EnterSession, Uncontended
<1>3. CASE ~ Uncontended(h, s)
  <2>1. d.pc[a] = "wantS"
    BY <1>1 DEF Enqueue, HostType
  <2>2. WaitsFor(d, s, a)
    BY <1>1, <2>1 DEF WaitsFor
  <2>3. Placed(d, a)
    BY <1>1, <2>1 DEF Placed, LocksHeld, InAdmit
  <2> QED BY <1>1, <1>3, <2>2, <2>3, EnqueueGood DEF EnterSession, InAdmit
<1> QED BY <1>2, <1>3

\* Leaving every lock and queue, on the way to another stage.
LeftTo(h, a, at) == [Leave(h, a) EXCEPT !.pc[a] = at]

HasLeft(h, d, a, at) ==
  /\ d \in HostType /\ Waiters(d) /\ NotWaiting(d, a)
  /\ d.pc[a] = at /\ \A b \in Actors \ {a} : d.pc[b] = h.pc[b]
  /\ \A l \in Locks : h.holder[l] \in {None, a} \/ d.holder[l] = h.holder[l]
  /\ d.ticket = h.ticket /\ d.roots = h.roots /\ d.owned = h.owned
  /\ d.claim = h.claim /\ d.seen = h.seen

LEMMA LeaveTo ==
  ASSUME NEW h \in HostType, Waiters(h), NEW a \in Actors, NEW at \in PCs
  PROVE  HasLeft(h, LeftTo(h, a, at), a, at)
<1> DEFINE d == LeftTo(h, a, at)
<1>1. d \in HostType
  BY LeaveType DEF LeftTo, HostType
<1>2. /\ d.pc[a] = at /\ \A b \in Actors \ {a} : d.pc[b] = h.pc[b]
      /\ \A l \in Locks : h.holder[l] \in {None, a} \/ d.holder[l] = h.holder[l]
      /\ d.ticket = h.ticket /\ d.roots = h.roots /\ d.owned = h.owned
      /\ d.claim = h.claim /\ d.seen = h.seen
      /\ \A l \in Locks : d.queue[l] = Without(h.queue[l], a)
  BY DEF LeftTo, Leave, HostType
<1> HIDE DEF d
<1>3. Waiters(d) /\ NotWaiting(d, a)
  BY <1>1, <1>2, WaitersLeave
<1> QED BY <1>1, <1>2, <1>3 DEF HasLeft, d

\* A Run that is over gives its admission up; nobody else's is touched.
LEMMA ReleaseGood ==
  ASSUME NEW f, NEW h \in HostType, Good(f, h), NEW r \in Runs,
         h.pc[r] \in {"cancelled", "ended", "done"}
  PROVE  Good(f, ReleaseAdmission(h, r)) /\ Quiet(h, ReleaseAdmission(h, r))
<1> DEFINE d == ReleaseAdmission(h, r)
<1>1. d \in HostType /\ r \in Actors
  BY ReleaseType DEF Actors, Turns
<1>2. /\ d.pc = h.pc /\ d.ticket = h.ticket /\ d.roots = h.roots /\ d.holder = h.holder
      /\ d.seen = h.seen /\ d.queue = h.queue /\ d.owned = h.owned \ {r}
      /\ \A w \in Workspaces : d.claim[w] = IF h.claim[w] = r THEN None ELSE h.claim[w]
  BY DEF ReleaseAdmission, Unclaimed, HostType
<1> HIDE DEF d
<1>3. OthersKept(f, h, f, d, r)
  BY <1>2 DEF OthersKept
<1>4. Stage(f, d, r)
  <2>1. Stage(f, h, r) /\ r \notin Abandons /\ r \notin Controls /\ r # None
    BY <1>1, IdentityAssumption DEF Good, Turns
  <2> QED BY <1>2, <2>1 DEF Stage, RunStage, LocksHeld, Dispatched, InAdmit
<1>5. Waiters(d)
  BY <1>1, <1>2, WaitersKeep DEF Good
<1>6. \A w \in Workspaces : d.claim[w] # r
  BY <1>1, <1>2, IdentityAssumption
<1>7. Conserves(f, h, f, d, r)
  BY <1>2 DEF Conserves, ActiveSet, WaitingSet, Held, Ticketed, Pending
<1> QED BY <1>1, <1>2, <1>3, <1>4, <1>5, <1>6, <1>7, OneActor DEF d, Quiet

\* dispatch.finished() of a Run whose fact is, or now becomes, terminal.
LEMMA FinishedGood ==
  ASSUME NEW f, NEW g, NEW h \in HostType, Good(f, h), NEW r \in Runs,
         h.pc[r] \in {"accepted", "cancelled", "ended"}, g[r] \in Terminal,
         \A t \in Turns \ {r} : g[t] = f[t], NEW d \in Finished(g, h, r)
  PROVE  /\ Good(g, d) /\ h.roots \ {r} \subseteq d.roots
         /\ \A q \in Runs : d.pc[q] = "preparing" => h.pc[q] = "preparing" /\ d.seen[q] = h.seen[q]
<1> DEFINE k == [ReleaseAdmission(h, r) EXCEPT !.roots = @ \ {r}, !.pc[r] = "done"]
<1>1. k \in HostType /\ r \in Actors
  BY ReleaseType DEF Actors, Turns, HostType, PCs
<1>2. /\ k.pc = [h.pc EXCEPT ![r] = "done"] /\ k.ticket = h.ticket /\ k.roots = h.roots \ {r}
      /\ k.holder = h.holder /\ k.seen = h.seen /\ k.queue = h.queue /\ k.owned = h.owned \ {r}
      /\ \A w \in Workspaces : k.claim[w] = IF h.claim[w] = r THEN None ELSE h.claim[w]
  BY DEF ReleaseAdmission, Unclaimed, HostType
<1>3. d \in Dispatch(g, k)
  BY DEF Finished
<1> HIDE DEF k
<1>4. r \notin Abandons /\ r \notin Controls /\ r # None
  BY <1>1, IdentityAssumption DEF Turns
<1>5. k.pc[r] = "done" /\ \A b \in Actors \ {r} : k.pc[b] = h.pc[b]
  BY <1>1, <1>2 DEF HostType
<1>6. h.ticket[r] = "none"
  BY <1>1 DEF Good, Stage, RunStage
<1>7. OthersKept(f, h, g, k, r)
  BY <1>2, <1>5 DEF OthersKept
<1>8. Stage(g, k, r)
  BY <1>2, <1>4, <1>5, <1>6
     DEF Stage, RunStage, LocksHeld, Dispatched, InAdmit, Asking, Accepted, Terminal
<1>9. Waiters(k)
  <2>1. Waiters(h) /\ NotWaiting(h, r)
    BY <1>1, NotWaitingElsewhere DEF Good
  <2> QED BY <1>1, <1>2, <1>5, <2>1, WaitersKeep
<1>10. \A w \in Workspaces : k.claim[w] # r
  BY <1>2, <1>4
<1>11. Conserves(f, h, g, k, r)
  <2>1. r \notin ActiveSet(g, k) /\ r \notin WaitingSet(g, k) /\ ~ Pending(g, k, r)
    BY <1>2, <1>6 DEF ActiveSet, WaitingSet, Held, Ticketed, Pending, Terminal
  <2> QED BY <2>1 DEF Conserves
<1>12. Good(g, k)
  BY <1>1, <1>7, <1>8, <1>9, <1>10, <1>11, OneActor
<1>13. Good(g, d) /\ DispatchKeeps(k, d)
  BY <1>1, <1>3, <1>12, DispatchGood
<1>14. \A q \in Runs : d.pc[q] = "preparing" => h.pc[q] = "preparing" /\ d.seen[q] = h.seen[q]
  BY <1>2, <1>5, <1>13 DEF DispatchKeeps, Actors, Turns
<1> QED BY <1>2, <1>13, <1>14 DEF DispatchKeeps

(***************************************************************************)
(* The invariant, action by action.                                        *)
(***************************************************************************)
NextUp ==
  /\ IInv /\ TypeOK' /\ mode # "down" /\ mode' # "down"

\* A step that commits no row keeps the latest Runs known.
LEMMA LogKept ==
  ASSUME IInv, log' = log,
         \A t \in Turns : /\ Unfinished(t)' => Unfinished(t)
                          /\ fact[t] # "none" => fact'[t] # "none",
         \A r \in Runs : host'.pc[r] = "preparing" =>
           \/ host.pc[r] = "preparing" /\ host'.seen[r] = host.seen[r]
           \/ host'.seen[r] = Latest(SessionOf[r])
  PROVE  LatestKnown(host)'
<1>1. \A s : Latest(s)' = Latest(s)
  BY DEF Latest
<1>2. \A i \in DOMAIN log : log[i] \in Turns
  BY DEF IInv, TypeOK
<1> QED BY <1>1, <1>2 DEF LatestKnown, IInv

\* The same, the facts unchanged.
LEMMA QuietStep ==
  ASSUME NextUp, UNCHANGED <<fact, log>>, Good(fact, host'), Quiet(host, host')
  PROVE  IInv'
<1>1. LatestKnown(host)'
  BY LogKept DEF NextUp, Quiet, Unfinished
<1>2. Good(fact, host)'
  OBVIOUS
<1> QED BY <1>1, <1>2 DEF IInv, NextUp

LEMMA RequestStep ==
  ASSUME NextUp, NEW r \in Runs, Request(r)
  PROVE  IInv'
<1> DEFINE w == WorkspaceOf[r]
<1>1. PICK lane \in Lanes(fact, host) :
        LET h == [host EXCEPT !.ticket[r] = lane]
        IN  host' = IF Uncontended(h, w) THEN Own(h, r) ELSE Enqueue(h, w, r, "wantPrep")
  BY DEF Request
<1> DEFINE h == [host EXCEPT !.ticket[r] = lane]
<1>2. /\ host \in HostType /\ host' \in HostType /\ Good(fact, host) /\ fact' = fact /\ log' = log
      /\ host.pc[r] = "idle"
      /\ \A q \in Runs : SessionOf[q] = SessionOf[r] =>
           q \notin Held(host) /\ fact[q] \notin {"admitted", "started"}
  BY DEF NextUp, IInv, TypeOK, Request, RequestGuard, PendingIn
<1>3. /\ r \in Actors /\ r \in Turns /\ r \notin Abandons /\ r \notin Controls /\ r # None
      /\ w \in Locks /\ w \in Workspaces /\ w \notin Sessions
  BY IdentityAssumption, PlacementAssumption DEF Actors, Turns, Locks
<1>4. /\ lane = "active" => Cardinality(ActiveSet(fact, host)) < ActiveRoots
      /\ lane = "waiting" => Cardinality(WaitingSet(fact, host)) < WaitingRoots
      /\ lane \in {"active", "waiting"}
  BY DEF Lanes
<1>5. /\ \A q \in Runs : host'.ticket[q] = IF q = r THEN lane ELSE host.ticket[q]
      /\ host'.roots = host.roots /\ host.owned \subseteq host'.owned
      /\ \A b \in Actors \ {r} : host'.pc[b] = host.pc[b]
      /\ \A q \in Runs \ {r} : host'.seen[q] = host.seen[q]
      /\ \/ /\ host'.pc[r] = "preparing" /\ host'.seen[r] = Latest(SessionOf[r])
            /\ host.holder[w] = None /\ host'.holder[w] = r
            /\ \A l \in Locks \ {w} : host'.holder[l] = host.holder[l]
            /\ \A v \in Workspaces : host'.claim[v] = IF v = w THEN r ELSE host.claim[v]
            /\ r \in host'.owned /\ host'.queue = host.queue
         \/ /\ host'.pc[r] = "wantPrep" /\ host'.seen = host.seen
            /\ host'.holder = host.holder /\ host'.claim = host.claim
            /\ host'.owned = host.owned
            /\ host'.queue = [host.queue EXCEPT ![w] = Append(@, r)]
  <2>1. CASE Uncontended(h, w)
    <3>1. host' = Own(h, r)
      BY <1>1, <2>1
    <3>2. host'.seen = [host.seen EXCEPT ![r] = Latest(SessionOf[r])]
      BY <1>2, <3>1 DEF Own, HostType
    <3>3. \A q \in Runs : q \in Turns
      BY DEF Turns
    <3> QED BY <2>1, <1>2, <1>3, <3>1, <3>2, <3>3 DEF Own, HostType, Uncontended
  <2>2. CASE ~ Uncontended(h, w)
    BY <1>1, <1>2, <1>3, <2>2 DEF Enqueue, HostType
  <2> QED BY <2>1, <2>2
<1> HIDE DEF h
<1>6. OthersKept(fact, host, fact', host', r)
  <2>1. \A v \in Workspaces : host'.claim[v] \in {None, r, host.claim[v]}
    BY <1>5
  <2>2. \A l \in Locks : host.holder[l] \in {None, r} \/ host'.holder[l] = host.holder[l]
    BY <1>5
  <2> QED BY <1>2, <1>5, <2>1, <2>2 DEF OthersKept
<1>7. Stage(fact', host', r)
  <2>1. Stage(fact, host, r)
    BY <1>2, <1>3 DEF Good
  <2> QED BY <1>2, <1>3, <1>4, <1>5, <2>1
          DEF Stage, RunStage, LocksHeld, Asking, Accepted, Dispatched, InAdmit
<1>8. Waiters(host')
  <2>1. Waiters(host) /\ NotWaiting(host, r)
    BY <1>2, <1>3, NotWaitingElsewhere DEF Good
  <2>2. CASE host'.queue = host.queue
    BY <1>2, <1>5, <2>1, <2>2, WaitersKeep
  <2>3. CASE host'.queue = [host.queue EXCEPT ![w] = Append(@, r)] /\ host'.pc[r] = "wantPrep"
    <3>1. WaitsFor(host', w, r)
      BY <1>3, <2>3 DEF WaitsFor
    <3> QED BY <1>2, <1>3, <1>5, <2>1, <2>3, <3>1, WaitersEnqueue
  <2> QED BY <1>5, <2>2, <2>3
<1>9. \A v \in Workspaces : host'.claim[v] = r => r \in host'.owned
  BY <1>2, <1>3, <1>5 DEF Good, OwnedClaims
<1>10. Conserves(fact, host, fact', host', r)
  <2>1. r \notin host.roots /\ fact[r] \notin {"admitted", "started"}
    BY <1>2 DEF Held
  <2>2. \A q \in Runs : SessionOf[q] = SessionOf[r] => ~ Pending(fact, host, q)
    BY <1>2 DEF Pending, Held, Ticketed
  <2> QED BY <1>2, <1>4, <1>5, <2>1, <2>2 DEF Conserves, ActiveSet, WaitingSet
<1>11. Good(fact', host')
  BY <1>2, <1>3, <1>6, <1>7, <1>8, <1>9, <1>10, OneActor
<1>12. LatestKnown(host)'
  <2>1. \A q \in Runs : host'.pc[q] = "preparing" =>
          \/ host.pc[q] = "preparing" /\ host'.seen[q] = host.seen[q]
          \/ host'.seen[q] = Latest(SessionOf[q])
    <3> SUFFICES ASSUME NEW q \in Runs, host'.pc[q] = "preparing"
                 PROVE  \/ host.pc[q] = "preparing" /\ host'.seen[q] = host.seen[q]
                        \/ host'.seen[q] = Latest(SessionOf[q])
      OBVIOUS
    <3>1. CASE q = r
      BY <1>5, <3>1
    <3>2. CASE q # r
      BY <1>5, <3>2 DEF Actors, Turns
    <3> QED BY <3>1, <3>2
  <2> QED BY <1>2, <2>1, LogKept DEF NextUp, Unfinished
<1> QED BY <1>11, <1>12 DEF IInv, NextUp

LEMMA RequestBusyStep ==
  ASSUME NextUp, NEW r \in Runs, RequestBusy(r)
  PROVE  IInv'
<1>1. host \in HostType /\ Good(fact, host) /\ host' \in Dispatch(fact, host)
  BY DEF NextUp, IInv, TypeOK, RequestBusy
<1>2. Good(fact, host') /\ DispatchKeeps(host, host')
  BY <1>1, DispatchGood
<1>3. Quiet(host, host')
  BY <1>2 DEF Quiet, DispatchKeeps, Actors, Turns
<1> QED BY <1>2, <1>3, QuietStep DEF RequestBusy

\* The row of r follows rows of other Sessions and of finished Runs of its own.
LEMMA Appended ==
  ASSUME NextUp, NEW t \in Turns, NEW first, log' = Append(log, t),
         fact' = [fact EXCEPT ![t] = first], first # "none",
         \A u \in Turns : SessionOf[u] = SessionOf[t] => ~ Unfinished(u),
         \A q \in Runs : host'.pc[q] = "preparing" =>
           /\ host.pc[q] = "preparing" /\ host'.seen[q] = host.seen[q]
           /\ SessionOf[q] # SessionOf[t]
  PROVE  LatestKnown(host)'
<1>1. log \in Seq(Turns) /\ log' \in Seq(Turns) /\ fact \in [Turns -> Facts]
      /\ fact' \in [Turns -> Facts]
  BY DEF NextUp, IInv, TypeOK
<1>2. /\ Len(log) \in Nat /\ Len(log') = Len(log) + 1 /\ log'[Len(log) + 1] = t
      /\ \A i \in 1..Len(log) : log'[i] = log[i]
      /\ DOMAIN log = 1..Len(log) /\ DOMAIN log' = 1..Len(log')
  BY <1>1
<1>3. Latest(SessionOf[t])' = t
  <2> DEFINE rows == {i \in DOMAIN log' : SessionOf[log'[i]] = SessionOf[t]}
             top == CHOOSE i \in rows : \A j \in rows : j <= i
  <2>1. Len(log) + 1 \in rows /\ \A j \in rows : j <= Len(log) + 1
    BY <1>2
  <2>2. top \in rows /\ \A j \in rows : j <= top
    <3> HIDE DEF rows
    <3> QED BY <2>1
  <2>3. top = Len(log) + 1
    <3> HIDE DEF top
    <3> QED BY <1>2, <2>1, <2>2
  <2>4. Latest(SessionOf[t])' = log'[top]
    BY <2>1 DEF Latest
  <2> QED BY <1>2, <2>3, <2>4
<1>4. ASSUME NEW s, s # SessionOf[t]
      PROVE  Latest(s)' = Latest(s)
  <2> DEFINE rows == {i \in DOMAIN log : SessionOf[log[i]] = s}
             next == {i \in DOMAIN log' : SessionOf[log'[i]] = s}
             top == CHOOSE i \in rows : \A j \in rows : j <= i
  <2>1. next = rows
    BY <1>2, <1>4
  <2>2. Latest(s)' = IF rows = {} THEN None ELSE log'[top]
    <3>1. Latest(s)' = IF next = {} THEN None
                       ELSE log'[CHOOSE i \in next : \A j \in next : j <= i]
      BY DEF Latest
    <3> HIDE DEF rows, next
    <3> QED BY <2>1, <3>1
  <2>3. Latest(s) = IF rows = {} THEN None ELSE log[top]
    BY DEF Latest
  <2>4. CASE rows = {}
    BY <2>2, <2>3, <2>4
  <2>5. CASE rows # {}
    <3>1. rows \in SUBSET (1..Len(log))
      BY <1>2
    <3>2. top \in rows
      <4> HIDE DEF rows
      <4> QED BY <1>2, <2>5, <3>1, LastPosition
    <3>3. log'[top] = log[top]
      BY <1>2, <3>1, <3>2
    <3> QED BY <2>2, <2>3, <2>5, <3>3
  <2> QED BY <2>4, <2>5
<1>5. ASSUME NEW u \in Turns, Unfinished(u)'
      PROVE  Latest(SessionOf[u])' = u
  <2>1. CASE u = t
    BY <1>3, <2>1
  <2>2. CASE u # t
    <3>1. Unfinished(u)
      BY <1>1, <1>5, <2>2 DEF Unfinished
    <3> QED BY <1>4, <3>1 DEF NextUp, IInv, LatestKnown
  <2> QED BY <2>1, <2>2
<1>6. ASSUME NEW q \in Runs, host'.pc[q] = "preparing"
      PROVE  host'.seen[q] = Latest(SessionOf[q])'
  BY <1>4, <1>6 DEF NextUp, IInv, LatestKnown
<1>7. ASSUME NEW i \in DOMAIN log'
      PROVE  fact'[log'[i]] # "none"
  <2>1. CASE i = Len(log) + 1
    BY <1>1, <1>2, <2>1
  <2>2. CASE i \in 1..Len(log)
    <3>1. log'[i] = log[i] /\ log[i] \in Turns /\ fact[log[i]] # "none"
      BY <1>1, <1>2, <2>2 DEF NextUp, IInv, LatestKnown
    <3> QED BY <1>1, <3>1
  <2> QED BY <1>2, <2>1, <2>2
<1> QED BY <1>5, <1>6, <1>7 DEF LatestKnown

\* An admission in preparation finds its Session without unfinished work.
LEMMA Alone ==
  ASSUME host \in HostType, Good(fact, host), fact \in [Turns -> Facts],
         NEW r \in Runs, host.pc[r] = "preparing"
  PROVE  /\ \A u \in Turns : SessionOf[u] = SessionOf[r] => ~ Unfinished(u)
         /\ \A q \in Runs \ {r} : host.pc[q] = "preparing" => SessionOf[q] # SessionOf[r]
<1>1. r \in Turns /\ r \in Actors /\ r \notin Abandons
  BY IdentityAssumption DEF Turns, Actors
<1>2. /\ host.ticket[r] # "none" /\ fact[r] = "none" /\ host.holder[WorkspaceOf[r]] = r
  BY <1>1 DEF Good, Stage, RunStage, LocksHeld, Asking
<1>3. \A u \in Turns : SessionOf[u] = SessionOf[r] => WorkspaceOf[u] = WorkspaceOf[r]
  BY <1>1, PlacementAssumption
<1>4. ASSUME NEW u \in Turns, SessionOf[u] = SessionOf[r], Unfinished(u)
      PROVE  FALSE
  <2>1. CASE u \in Runs
    <3>1. Pending(fact, host, u) /\ Pending(fact, host, r)
      BY <1>2, <1>4 DEF Pending, Unfinished
    <3>2. u = r
      BY <1>4, <2>1, <3>1 DEF Good, OnePending
    <3> QED BY <1>2, <1>4, <3>2 DEF Unfinished
  <2>2. CASE u \in Abandons
    <3>1. Stage(fact, host, u) /\ u # r
      BY <1>1, <2>2 DEF Good, Actors
    <3>2. host.pc[u] = "executing"
      BY <1>4, <2>2, <3>1 DEF Stage, AbandonStage, Unfinished, Terminal
    <3>3. host.holder[WorkspaceOf[u]] = u
      BY <3>1, <3>2 DEF Stage, LocksHeld
    <3> QED BY <1>2, <1>3, <1>4, <3>1, <3>3
  <2> QED BY <2>1, <2>2 DEF Turns
<1>5. ASSUME NEW q \in Runs \ {r}, host.pc[q] = "preparing", SessionOf[q] = SessionOf[r]
      PROVE  FALSE
  BY <1>2, <1>3, <1>5 DEF Good, Stage, LocksHeld, Actors, Turns
<1> QED BY <1>4, <1>5

LEMMA AdmitStep ==
  ASSUME NextUp, NEW r \in Runs, Admit(r)
  PROVE  IInv'
<1> DEFINE w == WorkspaceOf[r]
           lease == host.ticket[r] = "active"
           h == [host EXCEPT !.holder[w] = None,
                             !.ticket[r] = "none",
                             !.roots = IF lease THEN @ \cup {r} ELSE @,
                             !.claim = IF lease THEN @ ELSE Unclaimed(@, r),
                             !.pc[r] = "accepted"]
<1>1. /\ host \in HostType /\ Good(fact, host) /\ fact \in [Turns -> Facts]
      /\ host.pc[r] = "preparing" /\ fact' = [fact EXCEPT ![r] = "admitted"]
      /\ log' = Append(log, r) /\ host' \in Dispatch(fact', h)
  BY DEF NextUp, IInv, TypeOK, Admit
<1>2. /\ r \in Actors /\ r \in Turns /\ r \notin Abandons /\ r \notin Controls /\ r # None
      /\ w \in Locks
  BY IdentityAssumption, PlacementAssumption DEF Actors, Turns, Locks
<1>3. /\ Stage(fact, host, r) /\ host.ticket[r] \in {"active", "waiting"} /\ r \in host.owned
      /\ host.holder[w] = r /\ fact[r] = "none"
  BY <1>1, <1>2 DEF Good, Stage, RunStage, LocksHeld, Asking, HostType
<1>4. h \in HostType
  BY <1>1 DEF HostType, PCs, Unclaimed
<1>5. /\ h.pc[r] = "accepted" /\ \A b \in Actors \ {r} : h.pc[b] = host.pc[b]
      /\ h.ticket[r] = "none" /\ \A q \in Runs \ {r} : h.ticket[q] = host.ticket[q]
      /\ h.owned = host.owned /\ h.seen = host.seen /\ h.queue = host.queue
      /\ h.roots = IF lease THEN host.roots \cup {r} ELSE host.roots
      /\ \A l \in Locks : host.holder[l] \in {None, r} \/ h.holder[l] = host.holder[l]
      /\ \A v \in Workspaces : h.claim[v] \in {None, host.claim[v]}
      /\ ~ lease => \A v \in Workspaces : h.claim[v] # r
  BY <1>1, <1>2, <1>3 DEF HostType, Unclaimed
<1> HIDE DEF h
<1>6. fact'[r] = "admitted" /\ \A t \in Turns \ {r} : fact'[t] = fact[t]
  BY <1>1, <1>2
<1>7. OthersKept(fact, host, fact', h, r)
  BY <1>5, <1>6 DEF OthersKept
<1>8. Stage(fact', h, r)
  <2>1. ~ lease \/ r \in h.roots
    BY <1>5
  <2> QED BY <1>2, <1>3, <1>5, <1>6, <2>1
     DEF Stage, RunStage, LocksHeld, Dispatched, InAdmit, Asking, Accepted
<1>9. Waiters(h)
  <2>1. Waiters(host) /\ NotWaiting(host, r)
    BY <1>1, <1>2, NotWaitingElsewhere DEF Good
  <2> QED BY <1>1, <1>4, <1>5, <2>1, WaitersKeep
<1>10. Conserves(fact, host, fact', h, r)
  <2>1. Pending(fact, host, r)
    BY <1>3 DEF Pending
  <2>2. r \in ActiveSet(fact', h) => r \in ActiveSet(fact, host)
    BY <1>3, <1>5, <1>6 DEF ActiveSet, Held, Ticketed
  <2>3. r \in WaitingSet(fact', h) => r \in WaitingSet(fact, host)
    BY <1>3, <1>5, <1>6 DEF WaitingSet, Held, Ticketed
  <2> QED BY <2>1, <2>2, <2>3 DEF Conserves
<1>11. Good(fact', h)
  BY <1>1, <1>2, <1>3, <1>4, <1>5, <1>7, <1>8, <1>9, <1>10, OneActor
<1>12. Good(fact', host') /\ DispatchKeeps(h, host')
  BY <1>1, <1>4, <1>11, DispatchGood
<1>13. LatestKnown(host)'
  <2>1. \A u \in Turns : SessionOf[u] = SessionOf[r] => ~ Unfinished(u)
    BY <1>1, Alone
  <2>2. \A q \in Runs \ {r} : host.pc[q] = "preparing" => SessionOf[q] # SessionOf[r]
    BY <1>1, Alone
  <2>3. ASSUME NEW q \in Runs, host'.pc[q] = "preparing"
        PROVE  /\ host.pc[q] = "preparing" /\ host'.seen[q] = host.seen[q]
               /\ SessionOf[q] # SessionOf[r]
    <3>1. h.pc[q] = "preparing" /\ host'.seen[q] = h.seen[q]
      BY <1>12, <2>3 DEF DispatchKeeps, Actors, Turns
    <3>2. q # r /\ q \in Actors
      BY <1>5, <3>1 DEF Actors, Turns
    <3> QED BY <1>5, <2>2, <3>1, <3>2
  <2>4. log' = Append(log, r) /\ fact' = [fact EXCEPT ![r] = "admitted"]
    BY <1>1
  <2> QED BY <1>2, <2>1, <2>3, <2>4, Appended
<1> QED BY <1>12, <1>13 DEF IInv, NextUp

LEMMA RefuseStep ==
  ASSUME NextUp, NEW r \in Runs, Refuse(r)
  PROVE  IInv'
<1> DEFINE h == [ReleaseAdmission(Leave(host, r), r) EXCEPT !.ticket[r] = "none", !.pc[r] = "idle"]
           k == LeftTo(host, r, "idle")
<1>1. /\ host \in HostType /\ Good(fact, host) /\ host.pc[r] \in {"wantPrep", "preparing"}
      /\ host' \in Dispatch(fact, h) /\ fact' = fact /\ log' = log
  BY DEF NextUp, IInv, TypeOK, Refuse
<1>2. r \in Actors /\ r \in Turns /\ r \notin Abandons /\ r \notin Controls /\ r # None
  BY IdentityAssumption DEF Actors, Turns
<1>3. HasLeft(host, k, r, "idle")
  BY <1>1, <1>2, LeaveTo DEF PCs, Good
<1>4. h \in HostType
  <2>1. ReleaseAdmission(Leave(host, r), r) \in HostType
    BY <1>1, <1>2, LeaveType, ReleaseType
  <2> QED BY <2>1 DEF HostType, PCs
<1>5. /\ h.pc = k.pc /\ h.holder = k.holder /\ h.queue = k.queue /\ h.roots = host.roots
      /\ h.seen = host.seen /\ h.owned = host.owned \ {r}
      /\ h.ticket = [host.ticket EXCEPT ![r] = "none"]
      /\ h.claim = Unclaimed(host.claim, r)
  BY DEF ReleaseAdmission, Leave, LeftTo
<1>6. /\ h.pc[r] = "idle" /\ \A b \in Actors \ {r} : h.pc[b] = host.pc[b]
      /\ h.ticket[r] = "none" /\ \A q \in Runs \ {r} : h.ticket[q] = host.ticket[q]
      /\ \A v \in Workspaces : h.claim[v] = IF host.claim[v] = r THEN None ELSE host.claim[v]
  BY <1>1, <1>2, <1>3, <1>5 DEF HasLeft, HostType, Unclaimed
<1> HIDE DEF h, k
<1>7. Stage(fact, host, r)
  BY <1>1, <1>2 DEF Good
<1>8. OthersKept(fact, host, fact, h, r)
  BY <1>3, <1>5, <1>6 DEF OthersKept, HasLeft
<1>9. Stage(fact, h, r)
  BY <1>1, <1>2, <1>5, <1>6, <1>7
     DEF Stage, RunStage, LocksHeld, Dispatched, InAdmit, Asking, Accepted
<1>10. Waiters(h)
  BY <1>3, <1>4, <1>5, WaitersKeep DEF HasLeft
<1>11. Conserves(fact, host, fact, h, r)
  <2>1. fact[r] = "none"
    BY <1>1, <1>7 DEF Stage, RunStage, Asking
  <2>2. r \in ActiveSet(fact, h) => r \in ActiveSet(fact, host)
    BY <1>5, <1>6, <2>1 DEF ActiveSet
  <2>3. r \notin WaitingSet(fact, h) /\ ~ Pending(fact, h, r)
    BY <1>6, <2>1 DEF WaitingSet, Pending
  <2> QED BY <2>2, <2>3 DEF Conserves
<1>12. \A v \in Workspaces : h.claim[v] # r
  BY <1>2, <1>6
<1>13. Good(fact, h)
  BY <1>1, <1>2, <1>4, <1>8, <1>9, <1>10, <1>11, <1>12, OneActor
<1>14. Good(fact, host') /\ DispatchKeeps(h, host')
  BY <1>1, <1>4, <1>13, DispatchGood
<1>15. Quiet(host, host')
  BY <1>5, <1>6, <1>14 DEF Quiet, DispatchKeeps, Actors, Turns
<1> QED BY <1>1, <1>14, <1>15, QuietStep

\* A task that waits in no queue moves on without taking or giving anything.
OnlyStage(h, d, a) ==
  /\ \A b \in Actors \ {a} : d.pc[b] = h.pc[b]
  /\ \A r \in Runs : d.seen[r] = h.seen[r]
  /\ d.ticket = h.ticket /\ d.roots = h.roots /\ d.claim = h.claim
  /\ d.owned = h.owned /\ d.holder = h.holder /\ d.queue = h.queue

LEMMA Moved ==
  ASSUME NEW f, NEW h \in HostType, NEW g, NEW d \in HostType, NEW a \in Actors,
         Good(f, h), OnlyStage(h, d, a), h.pc[a] \notin {"wantS", "wantPrep", "wantW"},
         \A t \in Turns \ {a} : g[t] = f[t], Stage(g, d, a),
         a \in Runs => (g[a] = f[a] \/ (a \in h.roots /\ f[a] = "admitted" /\ g[a] = "started"))
  PROVE  Good(g, d)
<1>1. OthersKept(f, h, g, d, a)
  BY DEF OnlyStage, OthersKept
<1>2. Waiters(d)
  <2>1. Waiters(h) /\ NotWaiting(h, a)
    BY NotWaitingElsewhere DEF Good
  <2> QED BY <2>1, WaitersKeep DEF OnlyStage
<1>3. \A w \in Workspaces : d.claim[w] = a => a \in d.owned
  BY IdentityAssumption DEF OnlyStage, OwnedClaims, Good
<1>4. Conserves(f, h, g, d, a)
  BY DEF OnlyStage, Conserves, ActiveSet, WaitingSet, Held, Ticketed, Pending
<1> QED BY <1>1, <1>2, <1>3, <1>4, OneActor

LEMMA StartStep ==
  ASSUME NextUp, NEW r \in Runs, Start(r)
  PROVE  IInv'
<1>1. /\ host \in HostType /\ Good(fact, host) /\ host.pc[r] = "accepted"
      /\ fact' = fact /\ log' = log
  BY DEF NextUp, IInv, TypeOK, Start
<1>2. r \in Actors /\ r \in Turns /\ r \notin Abandons /\ r \notin Controls
  BY IdentityAssumption DEF Actors, Turns
<1>3. Stage(fact, host, r)
  BY <1>1, <1>2 DEF Good
<1>4. ASSUME NEW at \in {"go", "pending"}, at = "go" => r \in host.roots,
             NEW d, d = [host EXCEPT !.pc[r] = at]
      PROVE  d \in HostType /\ Good(fact, d) /\ Quiet(host, d)
  <2>1. d \in HostType
    BY <1>1, <1>4 DEF HostType, PCs
  <2>2. OnlyStage(host, d, r) /\ d.pc[r] = at
    BY <1>1, <1>2, <1>4 DEF OnlyStage, HostType
  <2>3. Stage(fact, d, r)
    BY <1>1, <1>2, <1>3, <1>4, <2>2
       DEF OnlyStage, Stage, RunStage, LocksHeld, Dispatched, InAdmit, Asking, Accepted
  <2>4. Good(fact, d)
    BY <1>1, <1>2, <2>1, <2>2, <2>3, Moved
  <2>5. Quiet(host, d)
    BY <2>2 DEF Quiet, OnlyStage, Actors, Turns
  <2> QED BY <2>1, <2>4, <2>5
<1>5. CASE r \in host.roots
  <2>1. host' = [host EXCEPT !.pc[r] = "go"]
    BY <1>5 DEF Start
  <2>2. Good(fact, host') /\ Quiet(host, host')
    BY <1>4, <1>5, <2>1
  <2> QED BY <1>1, <2>2, QuietStep
<1>6. CASE r \notin host.roots
  <2> DEFINE h == [host EXCEPT !.pc[r] = "pending"]
  <2>1. host' \in Dispatch(fact, h)
    BY <1>6 DEF Start
  <2>2. h \in HostType /\ Good(fact, h) /\ Quiet(host, h)
    BY <1>4
  <2> HIDE DEF h
  <2>3. Good(fact, host') /\ DispatchKeeps(h, host')
    BY <2>1, <2>2, DispatchGood
  <2>4. Quiet(host, host')
    BY <2>2, <2>3 DEF Quiet, DispatchKeeps, Actors, Turns
  <2> QED BY <1>1, <2>3, <2>4, QuietStep
<1> QED BY <1>5, <1>6

LEMMA BeginStep ==
  ASSUME NextUp, NEW r \in Runs, Begin(r)
  PROVE  IInv'
<1>1. /\ host \in HostType /\ Good(fact, host) /\ host.pc[r] = "go"
      /\ fact' = fact /\ log' = log /\ host' = EnterSession(host, r)
  BY DEF NextUp, IInv, TypeOK, Begin
<1>2. r \in Actors /\ r \in Turns /\ r \notin Abandons
  BY IdentityAssumption DEF Actors, Turns
<1>3. Stage(fact, host, r) /\ NotWaiting(host, r)
  BY <1>1, <1>2, NotWaitingElsewhere DEF Good
<1>4. Ready(fact, host, r)
  BY <1>1, <1>2, <1>3 DEF Ready, Stage, RunStage, Accepted, Dispatched
<1>5. Good(fact, host') /\ Quiet(host, host')
  BY <1>1, <1>2, <1>4, EnterSessionGood
<1> QED BY <1>1, <1>5, QuietStep

LEMMA ExecuteStep ==
  ASSUME NextUp, NEW r \in Runs, Execute(r)
  PROVE  IInv'
<1>1. /\ host \in HostType /\ host' \in HostType /\ Good(fact, host) /\ host.pc[r] = "checking"
      /\ fact \in [Turns -> Facts] /\ fact' = [fact EXCEPT ![r] = "started"] /\ log' = log
      /\ host' = [host EXCEPT !.pc[r] = "executing"]
  BY DEF NextUp, IInv, TypeOK, Execute
<1>2. r \in Actors /\ r \in Turns /\ r \notin Abandons /\ r \notin Controls
  BY IdentityAssumption DEF Actors, Turns
<1>3. OnlyStage(host, host', r) /\ host'.pc[r] = "executing" /\ fact'[r] = "started"
  BY <1>1, <1>2 DEF OnlyStage, HostType
<1>4. Stage(fact, host, r)
  BY <1>1, <1>2 DEF Good
<1>5. fact[r] = "admitted" /\ r \in host.roots
  BY <1>1, <1>4 DEF Stage, RunStage, Accepted, Dispatched
<1>6. Stage(fact', host', r)
  BY <1>1, <1>2, <1>3, <1>4
     DEF OnlyStage, Stage, RunStage, LocksHeld, Dispatched, InAdmit, Asking, Accepted
<1>7. \A t \in Turns \ {r} : fact'[t] = fact[t]
  BY <1>1
<1>8. Good(fact', host')
  BY <1>1, <1>2, <1>3, <1>5, <1>6, <1>7, Moved
<1>9. LatestKnown(host)'
  <2>1. \A t \in Turns : (Unfinished(t)' => Unfinished(t)) /\ (fact[t] # "none" => fact'[t] # "none")
    BY <1>1, <1>5 DEF Unfinished
  <2>2. \A q \in Runs : host'.pc[q] = "preparing" =>
          host.pc[q] = "preparing" /\ host'.seen[q] = host.seen[q]
    BY <1>3 DEF OnlyStage, Actors, Turns
  <2> QED BY <1>1, <2>1, <2>2, LogKept DEF NextUp
<1> QED BY <1>8, <1>9 DEF IInv, NextUp

LEMMA UnwindStep ==
  ASSUME NextUp, NEW r \in Runs, Unwind(r)
  PROVE  IInv'
<1> DEFINE k == LeftTo(host, r, "ended")
<1>1. /\ host \in HostType /\ Good(fact, host) /\ fact \in [Turns -> Facts] /\ log' = log
      /\ host.pc[r] \in {"executing", "checking", "go"} \cup InAdmit
  BY DEF NextUp, IInv, TypeOK, Unwind, Outcomes, InAdmit
<1>2. PICK out \in Terminal : fact' = [fact EXCEPT ![r] = out]
  BY DEF Unwind, Outcomes, Terminal
<1>3. PICK d \in Dispatch(fact', k) \cup {k} : host' = ReleaseAdmission(d, r)
  BY DEF Unwind, LeftTo
<1>4. r \in Actors /\ r \in Turns /\ r \notin Abandons /\ r \notin Controls /\ r # None
  BY IdentityAssumption DEF Actors, Turns
<1>5. HasLeft(host, k, r, "ended")
  BY <1>1, <1>4, LeaveTo DEF PCs, Good
<1> HIDE DEF k
<1>6. Stage(fact, host, r)
  BY <1>1, <1>4 DEF Good
<1>7. host.ticket[r] = "none" /\ r \in host.owned
  BY <1>1, <1>6 DEF Stage, RunStage, Dispatched, InAdmit
<1>8. fact'[r] \in Terminal /\ \A t \in Turns \ {r} : fact'[t] = fact[t]
  BY <1>1, <1>2, <1>4
<1>9. OthersKept(fact, host, fact', k, r)
  BY <1>5, <1>8 DEF OthersKept, HasLeft
<1>10. Stage(fact', k, r)
  BY <1>4, <1>5, <1>7, <1>8
     DEF HasLeft, Stage, RunStage, LocksHeld, Dispatched, InAdmit, Asking, Accepted, Terminal
<1>11. Conserves(fact, host, fact', k, r)
  <2>1. r \in ActiveSet(fact', k) => r \in ActiveSet(fact, host)
    BY <1>5, <1>7, <1>8 DEF ActiveSet, HasLeft, Terminal
  <2>2. r \notin WaitingSet(fact', k) /\ ~ Pending(fact', k, r)
    BY <1>5, <1>7, <1>8 DEF WaitingSet, Pending, HasLeft, Terminal
  <2> QED BY <2>1, <2>2 DEF Conserves
<1>12. Good(fact', k) /\ k \in HostType
  BY <1>1, <1>4, <1>5, <1>7, <1>9, <1>10, <1>11, OneActor DEF HasLeft
<1>13. d \in HostType /\ Good(fact', d) /\ DispatchKeeps(k, d)
  <2>1. CASE d \in Dispatch(fact', k)
    BY <1>12, <2>1, DispatchType, DispatchGood
  <2>2. CASE d = k
    BY <1>12, <2>2 DEF DispatchKeeps
  <2> QED BY <2>1, <2>2
<1>14. d.pc[r] = "ended"
  BY <1>4, <1>5, <1>13 DEF HasLeft, DispatchKeeps
<1>15. Good(fact', host') /\ Quiet(d, host')
  BY <1>3, <1>13, <1>14, ReleaseGood
<1>16. LatestKnown(host)'
  <2>1. \A t \in Turns : (Unfinished(t)' => Unfinished(t)) /\ (fact[t] # "none" => fact'[t] # "none")
    BY <1>8 DEF Unfinished, Terminal
  <2>2. ASSUME NEW q \in Runs, host'.pc[q] = "preparing"
        PROVE  host.pc[q] = "preparing" /\ host'.seen[q] = host.seen[q]
    <3>1. d.pc[q] = "preparing" /\ host'.seen[q] = d.seen[q]
      BY <1>15, <2>2 DEF Quiet
    <3>2. k.pc[q] = "preparing" /\ d.seen[q] = k.seen[q] /\ q \in Actors
      BY <1>13, <3>1 DEF DispatchKeeps, Actors, Turns
    <3> QED BY <1>5, <3>1, <3>2 DEF HasLeft
  <2> QED BY <1>1, <2>1, <2>2, LogKept DEF NextUp
<1> QED BY <1>15, <1>16 DEF IInv, NextUp

LEMMA CancelUnstartedStep ==
  ASSUME NextUp, NEW r \in Runs, CancelUnstarted(r)
  PROVE  IInv'
<1>1. /\ host \in HostType /\ host' \in HostType /\ Good(fact, host)
      /\ host.pc[r] \in {"pending", "go"} /\ fact' = fact /\ log' = log
      /\ host' = [host EXCEPT !.pc[r] = "cancelled"]
  BY DEF NextUp, IInv, TypeOK, CancelUnstarted
<1>2. r \in Actors /\ r \in Turns /\ r \notin Abandons /\ r \notin Controls
  BY IdentityAssumption DEF Actors, Turns
<1>3. OnlyStage(host, host', r) /\ host'.pc[r] = "cancelled"
  BY <1>1, <1>2 DEF OnlyStage, HostType
<1>4. Stage(fact, host, r)
  BY <1>1, <1>2 DEF Good
<1>5. Stage(fact, host', r)
  BY <1>1, <1>2, <1>3, <1>4
     DEF OnlyStage, Stage, RunStage, LocksHeld, Dispatched, InAdmit, Asking, Accepted
<1>6. Good(fact, host')
  BY <1>1, <1>2, <1>3, <1>5, Moved
<1>7. Quiet(host, host')
  BY <1>3 DEF Quiet, OnlyStage, Actors, Turns
<1> QED BY <1>1, <1>6, <1>7, QuietStep

LEMMA FinishStep ==
  ASSUME NextUp, NEW r \in Runs, CancelAccepted(r) \/ DoneCallback(r)
  PROVE  IInv'
<1>1. /\ host \in HostType /\ Good(fact, host) /\ fact \in [Turns -> Facts] /\ log' = log
      /\ host.pc[r] \in {"accepted", "cancelled", "ended"} /\ fact' = Interrupt(fact, r)
      /\ host' \in Finished(fact', host, r)
  BY DEF NextUp, IInv, TypeOK, CancelAccepted, DoneCallback
<1>2. r \in Turns
  BY DEF Turns
<1>3. fact'[r] \in Terminal /\ \A t \in Turns \ {r} : fact'[t] = fact[t]
  BY <1>1, <1>2 DEF Interrupt, Terminal
<1>4. /\ Good(fact', host')
      /\ \A q \in Runs : host'.pc[q] = "preparing" =>
           host.pc[q] = "preparing" /\ host'.seen[q] = host.seen[q]
  BY <1>1, <1>3, FinishedGood
<1>5. LatestKnown(host)'
  <2>1. \A t \in Turns : (Unfinished(t)' => Unfinished(t)) /\ (fact[t] # "none" => fact'[t] # "none")
    BY <1>3 DEF Unfinished, Terminal
  <2> QED BY <1>1, <1>4, <2>1, LogKept DEF NextUp
<1> QED BY <1>4, <1>5 DEF IInv, NextUp

\* A control operation or an abandon leaves its locks, and dispatch() may run.
LEMMA OtherLeaves ==
  ASSUME NEW f, NEW h \in HostType, NEW g, Good(f, h), NEW a \in Actors, a \notin Runs,
         NEW at \in {"idle", "done"}, a \in Controls => at = "idle",
         a \in Abandons => IF at = "idle" THEN g[a] = "none" ELSE g[a] \in Terminal,
         \A t \in Turns \ {a} : g[t] = f[t],
         NEW d \in Dispatch(g, LeftTo(h, a, at)) \cup {LeftTo(h, a, at)}
  PROVE  Good(g, d) /\ Quiet(h, d)
<1> DEFINE k == LeftTo(h, a, at)
<1>1. HasLeft(h, k, a, at)
  BY LeaveTo DEF PCs, Good
<1> HIDE DEF k
<1>2. OthersKept(f, h, g, k, a)
  BY <1>1 DEF OthersKept, HasLeft
<1>3. Stage(g, k, a)
  BY <1>1, IdentityAssumption DEF HasLeft, Stage, AbandonStage, ControlStage, LocksHeld, InAdmit, Turns
<1>4. \A w \in Workspaces : k.claim[w] = a => a \in k.owned
  BY <1>1, IdentityAssumption DEF HasLeft, OwnedClaims, Good
<1>5. Good(g, k) /\ k \in HostType
  BY <1>1, <1>2, <1>3, <1>4, OneActor DEF HasLeft, Conserves
<1>6. Good(g, d) /\ DispatchKeeps(k, d)
  <2>1. CASE d \in Dispatch(g, k)
    BY <1>5, <2>1, DispatchGood
  <2>2. CASE d = k
    BY <1>5, <2>2 DEF DispatchKeeps
  <2> QED BY <2>1, <2>2 DEF k
<1>7. Quiet(h, d)
  BY <1>1, <1>6 DEF Quiet, DispatchKeeps, HasLeft, Actors, Turns
<1> QED BY <1>6, <1>7

LEMMA ControlStep ==
  ASSUME NextUp, NEW c \in Controls, EnterControl(c) \/ LeaveControl(c)
  PROVE  IInv'
<1>1. host \in HostType /\ Good(fact, host) /\ fact' = fact /\ log' = log
  BY DEF NextUp, IInv, TypeOK, EnterControl, LeaveControl
<1>2. c \in Actors /\ c \notin Turns /\ c \notin Runs /\ c \notin Abandons
  BY IdentityAssumption DEF Actors, Turns
<1>3. CASE EnterControl(c)
  <2>1. NotWaiting(host, c)
    BY <1>1, <1>2, <1>3, NotWaitingElsewhere DEF EnterControl, Good
  <2>2. Ready(fact, host, c)
    BY <1>2, <2>1 DEF Ready
  <2>3. Good(fact, host') /\ Quiet(host, host')
    BY <1>1, <1>2, <1>3, <2>2, EnterWorkspaceGood DEF EnterControl
  <2> QED BY <1>1, <2>3, QuietStep
<1>4. CASE LeaveControl(c)
  <2>1. host' \in Dispatch(fact, LeftTo(host, c, "idle")) \cup {LeftTo(host, c, "idle")}
    BY <1>4 DEF LeaveControl, LeftTo
  <2>2. Good(fact, host') /\ Quiet(host, host')
    BY <1>1, <1>2, <2>1, OtherLeaves
  <2> QED BY <1>1, <2>2, QuietStep
<1> QED BY <1>3, <1>4

LEMMA AbandonStep ==
  ASSUME NextUp, NEW a \in Abandons, Abandon(a)
  PROVE  IInv'
<1> DEFINE h == [host EXCEPT !.seen[a] = Latest(SessionOf[a])]
<1>1. /\ host \in HostType /\ Good(fact, host) /\ fact' = fact /\ log' = log
      /\ host.pc[a] = "idle" /\ host' = EnterSession(h, a) /\ log \in Seq(Turns)
  BY DEF NextUp, IInv, TypeOK, Abandon
<1>2. a \in Actors /\ a \in Turns /\ a \notin Runs
  BY IdentityAssumption DEF Actors, Turns
<1>3. h \in HostType
  BY <1>1, <1>2, LatestType DEF HostType
<1>4. OnlyStage(host, h, a) /\ h.pc = host.pc
  BY <1>1, <1>2 DEF OnlyStage, HostType
<1> HIDE DEF h
<1>5. Stage(fact, host, a)
  BY <1>1, <1>2 DEF Good
<1>6. Stage(fact, h, a)
  BY <1>2, <1>4, <1>5 DEF Stage, AbandonStage, ControlStage, LocksHeld, OnlyStage
<1>7. Good(fact, h)
  BY <1>1, <1>2, <1>3, <1>4, <1>6, Moved
<1>8. Ready(fact, h, a)
  <2>1. NotWaiting(h, a)
    BY <1>1, <1>2, <1>3, <1>4, <1>7, NotWaitingElsewhere DEF Good
  <2> QED BY <1>1, <1>2, <1>5, <2>1 DEF Ready, Stage, AbandonStage
<1>9. Good(fact, host') /\ Quiet(h, host')
  BY <1>1, <1>2, <1>3, <1>7, <1>8, EnterSessionGood
<1>10. Quiet(host, host')
  BY <1>4, <1>9 DEF Quiet, OnlyStage
<1> QED BY <1>1, <1>9, <1>10, QuietStep

LEMMA AbandonOpenStep ==
  ASSUME NextUp, NEW a \in Abandons, AbandonOpen(a)
  PROVE  IInv'
<1>1. /\ host \in HostType /\ host' \in HostType /\ Good(fact, host) /\ host.pc[a] = "inside"
      /\ fact \in [Turns -> Facts] /\ fact' = [fact EXCEPT ![a] = "started"]
      /\ log' = Append(log, a) /\ host' = [host EXCEPT !.pc[a] = "executing"]
      /\ Parked(SessionOf[a])
  BY DEF NextUp, IInv, TypeOK, AbandonOpen
<1>2. a \in Actors /\ a \in Turns /\ a \notin Runs /\ a \notin Controls
  BY IdentityAssumption DEF Actors, Turns
<1>3. OnlyStage(host, host', a) /\ host'.pc[a] = "executing" /\ fact'[a] = "started"
  BY <1>1, <1>2 DEF OnlyStage, HostType
<1>4. Stage(fact, host, a)
  BY <1>1, <1>2 DEF Good
<1>5. Stage(fact', host', a)
  BY <1>1, <1>2, <1>3, <1>4 DEF OnlyStage, Stage, AbandonStage, LocksHeld, InAdmit
<1>6. \A t \in Turns \ {a} : fact'[t] = fact[t]
  BY <1>1
<1>7. Good(fact', host')
  BY <1>1, <1>2, <1>3, <1>5, <1>6, Moved
<1>8. \A u \in Turns : SessionOf[u] = SessionOf[a] => ~ Unfinished(u)
  BY <1>1 DEF NextUp, IInv, LatestKnown, Parked, Unfinished
<1>9. ASSUME NEW q \in Runs, host'.pc[q] = "preparing"
      PROVE  /\ host.pc[q] = "preparing" /\ host'.seen[q] = host.seen[q]
             /\ SessionOf[q] # SessionOf[a]
  <2>1. q \in Turns /\ q \in Actors /\ q # a
    BY <1>2 DEF Turns, Actors
  <2>2. host.pc[q] = "preparing" /\ host'.seen[q] = host.seen[q]
    BY <1>3, <1>9, <2>1 DEF OnlyStage
  <2>3. host.holder[WorkspaceOf[q]] = q
    BY <1>1, <2>1, <2>2 DEF Good, Stage, LocksHeld
  <2>4. host.holder[WorkspaceOf[a]] = a
    BY <1>1, <1>2, <1>4 DEF Stage, LocksHeld
  <2>5. SessionOf[q] = SessionOf[a] => WorkspaceOf[q] = WorkspaceOf[a]
    BY <1>2, <2>1, PlacementAssumption
  <2> QED BY <2>1, <2>2, <2>3, <2>4, <2>5
<1>10. LatestKnown(host)'
  <2>1. log' = Append(log, a) /\ fact' = [fact EXCEPT ![a] = "started"]
    BY <1>1
  <2> QED BY <1>2, <1>8, <1>9, <2>1, Appended
<1> QED BY <1>7, <1>10 DEF IInv, NextUp

LEMMA AbandonEnds ==
  ASSUME NextUp, NEW a \in Abandons, AbandonClose(a) \/ AbandonLeave(a)
  PROVE  IInv'
<1>1. /\ host \in HostType /\ Good(fact, host) /\ log' = log /\ fact \in [Turns -> Facts]
  BY DEF NextUp, IInv, TypeOK, AbandonClose, AbandonLeave
<1>2. a \in Actors /\ a \in Turns /\ a \notin Controls /\ a \notin Runs
  BY IdentityAssumption DEF Actors, Turns
<1>3. Stage(fact, host, a)
  BY <1>1, <1>2 DEF Good
<1>4. CASE AbandonClose(a)
  <2>1. /\ host' \in Dispatch(fact', LeftTo(host, a, "done"))
        /\ fact' = [fact EXCEPT ![a] = "completed"]
    BY <1>4 DEF AbandonClose, LeftTo
  <2>2. fact'[a] \in Terminal /\ \A t \in Turns \ {a} : fact'[t] = fact[t]
    BY <1>1, <1>2, <2>1 DEF Terminal
  <2>3. Good(fact', host') /\ Quiet(host, host')
    BY <1>1, <1>2, <2>1, <2>2, OtherLeaves
  <2>4. LatestKnown(host)'
    <3>1. \A t \in Turns : (Unfinished(t)' => Unfinished(t)) /\ (fact[t] # "none" => fact'[t] # "none")
      BY <2>2 DEF Unfinished, Terminal
    <3> QED BY <1>1, <2>3, <3>1, LogKept DEF NextUp, Quiet
  <2> QED BY <2>3, <2>4 DEF IInv, NextUp
<1>5. CASE AbandonLeave(a)
  <2>1. /\ host' \in Dispatch(fact, LeftTo(host, a, "idle")) \cup {LeftTo(host, a, "idle")}
        /\ fact' = fact
    BY <1>5 DEF AbandonLeave, LeftTo
  <2>2. fact[a] = "none"
    BY <1>3, <1>5 DEF AbandonLeave, Stage, AbandonStage, InAdmit
  <2>3. Good(fact, host') /\ Quiet(host, host')
    BY <1>1, <1>2, <2>1, <2>2, OtherLeaves
  <2> QED BY <1>1, <2>1, <2>3, QuietStep
<1> QED BY <1>4, <1>5

\* A woken waiter of a free Workspace lock owns the Workspace for its admission.
LEMMA OwnGood ==
  ASSUME log \in Seq(Turns), NEW f, NEW h \in HostType, Good(f, h), NEW r \in Runs,
         h.pc[r] = "wantPrep", NotWaiting(h, r), h.holder[WorkspaceOf[r]] = None
  PROVE  /\ Good(f, Own(h, r)) /\ Own(h, r).seen[r] = Latest(SessionOf[r])
         /\ \A q \in Runs \ {r} : Own(h, r).pc[q] = h.pc[q] /\ Own(h, r).seen[q] = h.seen[q]
<1> DEFINE w == WorkspaceOf[r]
           d == Own(h, r)
<1>1. /\ r \in Actors /\ r \in Turns /\ r \notin Abandons /\ r \notin Controls /\ r # None
      /\ w \in Locks /\ w \in Workspaces
  BY IdentityAssumption, PlacementAssumption DEF Actors, Turns, Locks
<1>2. d \in HostType
  BY OwnType
<1>3. /\ d.pc[r] = "preparing" /\ \A b \in Actors \ {r} : d.pc[b] = h.pc[b]
      /\ d.ticket = h.ticket /\ d.roots = h.roots /\ d.owned = h.owned \cup {r}
      /\ d.queue = h.queue /\ d.holder[w] = r
      /\ \A l \in Locks \ {w} : d.holder[l] = h.holder[l]
      /\ \A v \in Workspaces : d.claim[v] \in {r, h.claim[v]}
      /\ d.seen = [h.seen EXCEPT ![r] = Latest(SessionOf[r])]
  BY <1>1 DEF Own, HostType
<1> HIDE DEF d
<1>4. Stage(f, h, r)
  BY <1>1 DEF Good
<1>5. OthersKept(f, h, f, d, r)
  <2>1. \A l \in Locks : h.holder[l] \in {None, r} \/ d.holder[l] = h.holder[l]
    BY <1>3
  <2> QED BY <1>3, <2>1 DEF OthersKept
<1>6. Stage(f, d, r)
  BY <1>1, <1>3, <1>4 DEF Stage, RunStage, LocksHeld, Dispatched, InAdmit, Asking, Accepted
<1>7. Waiters(d)
  BY <1>2, <1>3, WaitersKeep DEF Good
<1>8. Conserves(f, h, f, d, r)
  BY <1>3 DEF Conserves, ActiveSet, WaitingSet, Held, Ticketed, Pending
<1>9. Good(f, d)
  <2>1. \A v \in Workspaces : d.claim[v] = r => r \in d.owned
    BY <1>3
  <2> QED BY <1>1, <1>2, <1>5, <1>6, <1>7, <1>8, <2>1, OneActor
<1>10. d.seen[r] = Latest(SessionOf[r])
       /\ \A q \in Runs \ {r} : d.pc[q] = h.pc[q] /\ d.seen[q] = h.seen[q]
  BY <1>1, <1>3 DEF HostType, Actors, Turns
<1> QED BY <1>9, <1>10 DEF d

LEMMA ResumeStep ==
  ASSUME NextUp, NEW l \in Locks, Resume(l)
  PROVE  IInv'
<1> DEFINE a == Head(host.queue[l])
           h == [host EXCEPT !.queue[l] = Tail(@)]
<1>1. /\ host \in HostType /\ Good(fact, host) /\ fact' = fact /\ log' = log
      /\ host.holder[l] = None /\ host.queue[l] # <<>> /\ log \in Seq(Turns)
  BY DEF NextUp, IInv, TypeOK, Resume
<1>2. host' = IF l \in Sessions THEN GotSession(h, a)
              ELSE IF host.pc[a] = "wantPrep" THEN Own(h, a)
              ELSE GotWorkspace(h, a)
  BY DEF Resume
<1>3. /\ host.queue[l] \in Seq(Actors) /\ a \in Actors /\ a = host.queue[l][1]
      /\ 1 \in 1..Len(host.queue[l]) /\ Tail(host.queue[l]) \in Seq(Actors)
  BY <1>1 DEF HostType
<1>4. h \in HostType
  BY <1>1, <1>3 DEF HostType
<1>5. /\ h.pc = host.pc /\ h.seen = host.seen /\ h.ticket = host.ticket /\ h.roots = host.roots
      /\ h.claim = host.claim /\ h.owned = host.owned /\ h.holder = host.holder
      /\ h.queue = [host.queue EXCEPT ![l] = Tail(@)]
  BY <1>1 DEF HostType
<1>6. WaitsFor(host, l, a)
  BY <1>1, <1>3 DEF Good, Waiters
<1>7. Waiters(h) /\ NotWaiting(h, a)
  <2>1. Waiters(host)
    BY <1>1 DEF Good
  <2> HIDE DEF h
  <2> QED BY <1>1, <1>4, <1>5, <2>1, WaitersPop
<1> HIDE DEF h, a
<1>8. Stage(fact, host, a)
  BY <1>1, <1>3 DEF Good
<1>9. Good(fact, h)
  <2>1. OthersKept(fact, host, fact, h, a)
    BY <1>5 DEF OthersKept
  <2>2. Stage(fact, h, a)
    BY <1>5, <1>8 DEF Stage, RunStage, AbandonStage, ControlStage, LocksHeld
  <2>3. Conserves(fact, host, fact, h, a)
    BY <1>5 DEF Conserves, ActiveSet, WaitingSet, Held, Ticketed, Pending
  <2>4. \A w \in Workspaces : h.claim[w] = a => a \in h.owned
    BY <1>1, <1>3, <1>5, IdentityAssumption DEF Good, OwnedClaims
  <2> QED BY <1>1, <1>3, <1>4, <1>7, <2>1, <2>2, <2>3, <2>4, OneActor
<1>10. host.pc[a] \in {"wantS", "wantW"} => Ready(fact, h, a)
  BY <1>5, <1>7, <1>8 DEF Ready, Stage, RunStage, AbandonStage, Accepted, Dispatched, InAdmit
<1>11. CASE l \in Sessions
  <2>1. a \in Turns /\ l = SessionOf[a] /\ host.pc[a] = "wantS"
    BY <1>6, <1>11, IdentityAssumption DEF WaitsFor
  <2>2. Good(fact, host') /\ Quiet(h, host')
    BY <1>1, <1>2, <1>4, <1>5, <1>9, <1>10, <1>11, <2>1, GotSessionGood
  <2>3. Quiet(host, host')
    BY <1>5, <2>2 DEF Quiet
  <2> QED BY <1>1, <2>2, <2>3, QuietStep
<1>12. CASE l \notin Sessions /\ host.pc[a] = "wantPrep"
  <2>1. a \in Runs /\ l = WorkspaceOf[a]
    BY <1>3, <1>6, <1>8, <1>12 DEF WaitsFor, Stage, AbandonStage, ControlStage, Actors, Turns, InAdmit
  <2>2. /\ Good(fact, host') /\ host'.seen[a] = Latest(SessionOf[a])
        /\ \A q \in Runs \ {a} : host'.pc[q] = h.pc[q] /\ host'.seen[q] = h.seen[q]
    BY <1>1, <1>2, <1>4, <1>5, <1>7, <1>9, <1>12, <2>1, OwnGood
  <2>3. LatestKnown(host)'
    BY <1>1, <1>5, <2>2, LogKept DEF NextUp, Unfinished
  <2>4. Good(fact, host)'
    BY <1>1, <2>2
  <2> QED BY <2>3, <2>4 DEF IInv, NextUp
<1>13. CASE l \notin Sessions /\ host.pc[a] # "wantPrep"
  <2>1. l = WorkspaceOf[a] /\ host.pc[a] = "wantW"
    BY <1>6, <1>13 DEF WaitsFor
  <2>2. a \in Turns => h.holder[SessionOf[a]] = a
    BY <1>5, <1>8, <2>1 DEF Stage, LocksHeld
  <2>3. Good(fact, host') /\ Quiet(h, host')
    BY <1>1, <1>2, <1>3, <1>4, <1>5, <1>9, <1>10, <1>13, <2>1, <2>2, GotWorkspaceGood
  <2>4. Quiet(host, host')
    BY <1>5, <2>3 DEF Quiet
  <2> QED BY <1>1, <2>3, <2>4, QuietStep
<1> QED BY <1>11, <1>12, <1>13

LEMMA WakeStep ==
  ASSUME NextUp, NEW a \in Actors, WakeDone(a)
  PROVE  IInv'
<1> DEFINE h == [host EXCEPT !.awaits[a] = None]
<1>1. /\ host \in HostType /\ Good(fact, host) /\ fact' = fact /\ log' = log
      /\ host.pc[a] \in {"awaitS", "awaitW"}
      /\ host' = IF host.pc[a] = "awaitS" THEN EnterSession(h, a) ELSE EnterWorkspace(h, a)
  BY DEF NextUp, IInv, TypeOK, WakeDone
<1>2. h \in HostType
  BY <1>1 DEF HostType
<1>3. OnlyStage(host, h, a) /\ h.pc = host.pc
  BY <1>1 DEF OnlyStage, HostType
<1> HIDE DEF h
<1>4. Stage(fact, host, a)
  BY <1>1 DEF Good
<1>5. Stage(fact, h, a)
  BY <1>3, <1>4 DEF Stage, RunStage, AbandonStage, ControlStage, LocksHeld, OnlyStage
<1>6. Good(fact, h)
  BY <1>1, <1>2, <1>3, <1>5, Moved
<1>7. NotWaiting(h, a)
  BY <1>1, <1>2, <1>3, <1>6, NotWaitingElsewhere DEF Good
<1>8. Ready(fact, h, a)
  BY <1>1, <1>3, <1>5, <1>7
     DEF Ready, Stage, RunStage, AbandonStage, Accepted, Dispatched, InAdmit
<1>9. Good(fact, host') /\ Quiet(h, host')
  <2>1. CASE host.pc[a] = "awaitS"
    <3>1. a \in Turns
      BY <1>4, <2>1 DEF Stage, ControlStage, Actors
    <3> QED BY <1>1, <1>2, <1>6, <1>8, <2>1, <3>1, EnterSessionGood
  <2>2. CASE host.pc[a] = "awaitW"
    <3>1. a \in Turns => h.holder[SessionOf[a]] = a
      BY <1>3, <1>5, <2>2 DEF Stage, LocksHeld
    <3> QED BY <1>1, <1>2, <1>6, <1>8, <2>2, <3>1, EnterWorkspaceGood
  <2> QED BY <1>1, <2>1, <2>2
<1>10. Quiet(host, host')
  BY <1>3, <1>9 DEF Quiet, OnlyStage
<1> QED BY <1>1, <1>9, <1>10, QuietStep

(***************************************************************************)
(* The first state, the end of a process and the next start.               *)
(***************************************************************************)
LEMMA FreshGood ==
  ASSUME NEW f \in [Turns -> Facts], \A t \in Turns : f[t] \notin {"admitted", "started"}
  PROVE  Good(f, Fresh(f))
<1> DEFINE d == Fresh(f)
<1>1. d \in HostType
  BY FreshType
<1>2. /\ \A a \in Actors : d.pc[a] = IF a \in Turns /\ f[a] # "none" THEN "done" ELSE "idle"
      /\ \A r \in Runs : d.ticket[r] = "none"
      /\ \A w \in Workspaces : d.claim[w] = None
      /\ d.roots = {} /\ d.owned = {} /\ \A l \in Locks : d.queue[l] = <<>>
  BY DEF Fresh
<1> HIDE DEF d
<1>3. ASSUME NEW a \in Actors
      PROVE  Stage(f, d, a)
  <2>1. a \in Turns => f[a] \in {"none"} \cup Terminal
    BY DEF Facts
  <2>2. (a \in Runs \cup Abandons => a \in Turns) /\ (a \in Controls => a \notin Turns) /\ a # None
    BY IdentityAssumption DEF Turns
  <2> QED BY <1>2, <2>1, <2>2
     DEF Stage, RunStage, AbandonStage, ControlStage, LocksHeld, Dispatched, InAdmit, Asking, Accepted
<1>4. Waiters(d)
  BY <1>2 DEF Waiters, Injective
<1>5. OwnedClaims(d)
  BY <1>2 DEF OwnedClaims
<1>6. OnePending(f, d)
  BY <1>2 DEF OnePending, Pending, Turns
<1>7. Bounds(f, d)
  <2>1. ActiveSet(f, d) = {} /\ WaitingSet(f, d) = {}
    BY <1>2 DEF ActiveSet, WaitingSet, Turns
  <2> QED BY <2>1, FS_EmptySet, LimitAssumption DEF Bounds
<1> QED BY <1>3, <1>4, <1>5, <1>6, <1>7 DEF Good, d

LEMMA InvariantInit == Init => IInv
<1> SUFFICES ASSUME Init PROVE IInv
  OBVIOUS
<1>1. TypeOK
  BY TypeInit
<1>2. \A t \in Turns : fact[t] \in {"none", "interrupted"}
  BY DEF Init, LedgerInit
<1>3. Good(fact, host)
  BY <1>1, <1>2, FreshGood DEF Init, TypeOK
<1>4. LatestKnown(host)
  <2>1. \A i \in DOMAIN log : log[i] \in Turns /\ fact[log[i]] = "interrupted"
    BY <1>1 DEF Init, LedgerInit, TypeOK
  <2>2. \A r \in Runs : r \in Actors /\ host.pc[r] \in {"idle", "done"}
    BY DEF Init, Fresh, Actors, Turns
  <2> QED BY <1>2, <2>1, <2>2 DEF LatestKnown, Unfinished
<1> QED BY <1>1, <1>3, <1>4 DEF IInv, Init

\* Steps of a Host that is not running, and the steps that stop it.
LEMMA DownStep ==
  ASSUME IInv, TypeOK', (\E t \in Turns : RecoverRun(t)) \/ Exit \/ Crash \/ Reopen
  PROVE  IInv'
<1>1. \A f : \A r \in Runs : Fresh(f).pc[r] # "preparing"
  BY DEF Fresh, Actors, Turns
<1>2. CASE (\E t \in Turns : RecoverRun(t)) \/ Exit \/ Crash
  <2>1. host' = Fresh(fact') /\ mode' = "down" /\ log' = log
    BY <1>2 DEF RecoverRun, Exit, Crash
  <2>2. \A u \in Turns : (Unfinished(u)' => Unfinished(u)) /\ (fact[u] # "none" => fact'[u] # "none")
    <3>1. CASE fact' = fact
      BY <3>1 DEF Unfinished
    <3>2. CASE \E t \in Turns : RecoverRun(t)
      BY <3>2 DEF RecoverRun, Unfinished, IInv, TypeOK
    <3> QED BY <1>2, <3>1, <3>2 DEF Exit, Crash
  <2>3. LatestKnown(host)'
    BY <1>1, <2>1, <2>2, LogKept
  <2> QED BY <2>1, <2>3 DEF IInv
<1>3. CASE Reopen
  <2>1. /\ host' = Fresh(fact) /\ fact' = fact /\ log' = log /\ mode' = "up"
        /\ fact \in [Turns -> Facts] /\ \A t \in Turns : ~ Unfinished(t)
    BY <1>3 DEF Reopen, IInv, TypeOK
  <2>2. Good(fact', host')
    BY <2>1, FreshGood DEF Unfinished
  <2>3. LatestKnown(host)'
    BY <1>1, <2>1, LogKept DEF Unfinished
  <2> QED BY <2>1, <2>2, <2>3 DEF IInv
<1> QED BY <1>2, <1>3

LEMMA InvariantStep == IInv /\ [Next]_vars => IInv'
<1> SUFFICES ASSUME IInv, [Next]_vars PROVE IInv'
  OBVIOUS
<1>1. TypeOK'
  BY TypeStep
<1>2. ASSUME NEW r \in Runs,
             \/ Request(r) \/ RequestBusy(r) \/ Admit(r) \/ Refuse(r)
             \/ Start(r) \/ Begin(r) \/ Execute(r) \/ Unwind(r)
             \/ CancelUnstarted(r) \/ CancelAccepted(r) \/ DoneCallback(r)
      PROVE  IInv'
  <2>1. NextUp
    BY <1>1, <1>2 DEF NextUp, Request, RequestGuard, RequestBusy, Admit, Refuse, Start, Begin,
                      Execute, Unwind, CancelUnstarted, CancelAccepted, DoneCallback
  <2> QED BY <1>2, <2>1, RequestStep, RequestBusyStep, AdmitStep, RefuseStep, StartStep,
             BeginStep, ExecuteStep, UnwindStep, CancelUnstartedStep, FinishStep
<1>3. ASSUME NEW c \in Controls, EnterControl(c) \/ LeaveControl(c)
      PROVE  IInv'
  <2>1. NextUp
    BY <1>1, <1>3 DEF NextUp, EnterControl, LeaveControl
  <2> QED BY <1>3, <2>1, ControlStep
<1>4. ASSUME NEW a \in Abandons, Abandon(a) \/ AbandonOpen(a) \/ AbandonClose(a) \/ AbandonLeave(a)
      PROVE  IInv'
  <2>1. NextUp
    BY <1>1, <1>4 DEF NextUp, Abandon, AbandonOpen, AbandonClose, AbandonLeave
  <2> QED BY <1>4, <2>1, AbandonStep, AbandonOpenStep, AbandonEnds
<1>5. ASSUME NEW l \in Locks, Resume(l)
      PROVE  IInv'
  <2>1. NextUp
    BY <1>1, <1>5 DEF NextUp, Resume
  <2> QED BY <1>5, <2>1, ResumeStep
<1>6. ASSUME NEW a \in Actors, WakeDone(a)
      PROVE  IInv'
  <2>1. NextUp
    BY <1>1, <1>6 DEF NextUp, WakeDone
  <2> QED BY <1>6, <2>1, WakeStep
<1>7. CASE (\E t \in Turns : RecoverRun(t)) \/ Exit \/ Crash \/ Reopen
  BY <1>1, <1>7, DownStep
<1>8. CASE Close
  <2>1. UNCHANGED <<fact, log, host>> /\ mode # "down" /\ mode' # "down"
    BY <1>8 DEF Close
  <2>2. LatestKnown(host)'
    BY <2>1, LogKept DEF Unfinished, IInv, LatestKnown
  <2> QED BY <1>1, <2>1, <2>2 DEF IInv
<1>9. CASE UNCHANGED vars
  <2>1. UNCHANGED <<fact, log, host, mode>>
    BY <1>9 DEF vars
  <2>2. LatestKnown(host)'
    BY <2>1, LogKept DEF Unfinished, IInv, LatestKnown
  <2> QED BY <1>1, <2>1, <2>2 DEF IInv
<1> QED BY <1>2, <1>3, <1>4, <1>5, <1>6, <1>7, <1>8, <1>9 DEF Next

\* The inductive invariant holds in every reachable state.
THEOREM Invariant == Spec => []IInv
  BY InvariantInit, InvariantStep, PTL DEF Spec

(***************************************************************************)
(* What follows from it.                                                   *)
(***************************************************************************)
\* Every variable keeps its type through every step of the Host.
THEOREM TypeCorrect == Spec => []TypeOK
<1>1. IInv => TypeOK
  BY DEF IInv
<1> QED BY Invariant, <1>1, PTL

\* However admissions, dispatches, cancellations and crashes interleave, the
\* active roots stay within the limit that reserve_admission and claim_next read.
THEOREM RootsBounded == Spec => []ActiveBound
<1>1. IInv => ActiveBound
  BY DEF IInv, Good, Bounds, ActiveBound
<1> QED BY Invariant, <1>1, PTL

\* A ticket counted at reservation and the queued Run it becomes several awaits
\* later never let the queue grow beyond its limit.
THEOREM QueueBounded == Spec => []WaitingBound
<1>1. IInv => WaitingBound
  BY DEF IInv, Good, Bounds, WaitingBound
<1> QED BY Invariant, <1>1, PTL

\* The capacity of the Host holds, for every number of slots and Runs.
THEOREM CapacityKept == Spec => []CapacityHolds
<1>1. ActiveBound /\ WaitingBound => CapacityHolds
  BY DEF CapacityHolds
<1> QED BY RootsBounded, QueueBounded, <1>1, PTL

\* What the log calls started has its lease, its admission and both its locks.
THEOREM Covered == Spec => []StartedIsCovered
<1>1. IInv => StartedIsCovered
  <2> SUFFICES ASSUME IInv, mode # "down", NEW r \in Runs, fact[r] = "started"
               PROVE  /\ r \in host.roots \cap host.owned
                      /\ host.holder[SessionOf[r]] = r /\ host.holder[WorkspaceOf[r]] = r
    BY DEF StartedIsCovered
  <2>1. r \in Actors /\ r \in Turns /\ host \in HostType
    BY DEF Actors, Turns, IInv, TypeOK
  <2>2. Stage(fact, host, r)
    BY <2>1 DEF IInv, Good
  <2>3. host.pc[r] = "executing"
    <3>1. host.pc[r] \in PCs
      BY <2>1 DEF HostType
    <3> QED BY <2>2, <3>1 DEF Stage, RunStage, PCs, Asking, Accepted, InAdmit, Terminal
  <2> QED BY <2>1, <2>2, <2>3 DEF Stage, RunStage, LocksHeld, Dispatched
<1> QED BY Invariant, <1>1, PTL

\* Whoever has an execution claim is an admission the Host owns: the lookup of
\* its done event in _workspace_execution cannot fail.
THEOREM ClaimsOwned == Spec => []ClaimsAreOwned
<1>1. IInv => ClaimsAreOwned
  <2>1. mode = "down" /\ host = Fresh(fact) => ClaimsAreOwned
    BY DEF ClaimsAreOwned, Fresh
  <2> QED BY <2>1 DEF IInv, Good, OwnedClaims, ClaimsAreOwned
<1> QED BY Invariant, <1>1, PTL

\* A queued Run has neither a ticket nor an execution claim.
THEOREM QueuedIsBare == Spec => []QueuedHoldsNothing
<1>1. IInv => QueuedHoldsNothing
  <2> SUFFICES ASSUME IInv, NEW r \in Runs, fact[r] = "admitted", r \notin host.roots
               PROVE  host.ticket[r] = "none" /\ \A w \in Workspaces : host.claim[w] # r
    BY DEF QueuedHoldsNothing
  <2>1. r \in Actors /\ r # None
    BY IdentityAssumption DEF Actors, Turns
  <2>2. CASE mode = "down"
    BY <2>1, <2>2 DEF IInv, Fresh
  <2>3. CASE mode # "down"
    BY <2>1, <2>3 DEF IInv, Good, Stage, RunStage, Asking
  <2> QED BY <2>2, <2>3
<1> QED BY Invariant, <1>1, PTL

\* Execution claims are sound, for every number of Workspaces and Runs.
THEOREM ClaimsKept == Spec => []ClaimsAreSound
<1>1. ClaimsAreOwned /\ QueuedHoldsNothing => ClaimsAreSound
  BY DEF ClaimsAreSound
<1> QED BY ClaimsOwned, QueuedIsBare, <1>1, PTL

\* A root lease disappears only with its process or after the terminal fact.
THEOREM LeasesOutliveRuns == Spec => LeaseOutlivesRun
<1> DEFINE Kept == mode' # "down" /\ mode # "down" =>
                     \A r \in host.roots \ host'.roots : fact'[r] \in Terminal
<1>1. ASSUME NEW h \in HostType, NEW a \in Actors
      PROVE  /\ Enqueue(h, WorkspaceOf[a], a, "wantW").roots = h.roots
             /\ GotWorkspace(h, a).roots = h.roots
             /\ EnterWorkspace(h, a).roots = h.roots
  BY DEF HostType, Enqueue, GotWorkspace, EnterWorkspace
<1>2. ASSUME NEW h \in HostType, NEW a \in Turns
      PROVE  GotSession(h, a).roots = h.roots /\ EnterSession(h, a).roots = h.roots
  <2>1. SessionOf[a] \in Locks /\ a \in Actors
    BY PlacementAssumption DEF Locks, Actors
  <2>2. [h EXCEPT !.holder[SessionOf[a]] = a] \in HostType
    BY <2>1 DEF HostType
  <2>3. EnterWorkspace([h EXCEPT !.holder[SessionOf[a]] = a], a).roots = h.roots
    BY <1>1, <2>1, <2>2 DEF HostType
  <2>4. GotSession(h, a).roots = h.roots
    BY <2>3 DEF GotSession, HostType
  <2> QED BY <2>4 DEF EnterSession, Enqueue, HostType
<1>3. ASSUME NEW f, NEW h \in HostType, NEW d \in Dispatch(f, h)
      PROVE  h.roots \subseteq d.roots
  <2>1. ASSUME NEW C, d = Grant(h, C)
        PROVE  h.roots \subseteq d.roots
    BY <2>1 DEF Grant, HostType
  <2> QED BY <2>1 DEF Dispatch
<1>4. ASSUME NEW h \in HostType, NEW a \in Actors, NEW at \in PCs
      PROVE  /\ LeftTo(h, a, at) \in HostType /\ LeftTo(h, a, at).roots = h.roots
             /\ ReleaseAdmission(h, a).roots = h.roots
  <2>1. LeftTo(h, a, at) \in HostType
    BY LeaveType DEF LeftTo, HostType
  <2> QED BY <2>1 DEF LeftTo, Leave, ReleaseAdmission, HostType
<1>5. ASSUME IInv, [Next]_vars
      PROVE  Kept
  <2>1. host \in HostType /\ fact \in [Turns -> Facts]
    BY <1>5 DEF IInv, TypeOK
  <2>2. ASSUME NEW r \in Runs, Request(r)
        PROVE  Kept
    <3>1. host'.roots = host.roots
      BY <2>1, <2>2 DEF Request, Own, Enqueue, HostType
    <3> QED BY <3>1
  <2>3. ASSUME NEW r \in Runs, RequestBusy(r) \/ Start(r) \/ Execute(r) \/ CancelUnstarted(r)
        PROVE  Kept
    <3> DEFINE h == [host EXCEPT !.pc[r] = "pending"]
    <3>1. h \in HostType /\ h.roots = host.roots
      BY <2>1 DEF HostType, PCs
    <3>2. \A at : [host EXCEPT !.pc[r] = at].roots = host.roots
      BY <2>1 DEF HostType
    <3>3. \/ host' \in Dispatch(fact, host) \/ host' \in Dispatch(fact, h)
          \/ \E at : host' = [host EXCEPT !.pc[r] = at]
      <4>1. CASE Start(r)
        BY <4>1 DEF Start
      <4>2. CASE RequestBusy(r) \/ Execute(r) \/ CancelUnstarted(r)
        BY <4>2 DEF RequestBusy, Execute, CancelUnstarted
      <4> QED BY <2>3, <4>1, <4>2
    <3> HIDE DEF h
    <3>4. host.roots \subseteq host'.roots
      BY <1>3, <2>1, <3>1, <3>2, <3>3
    <3> QED BY <3>4
  <2>4. ASSUME NEW r \in Runs, Admit(r)
        PROVE  Kept
    <3> DEFINE lease == host.ticket[r] = "active"
               h == [host EXCEPT !.holder[WorkspaceOf[r]] = None,
                                 !.ticket[r] = "none",
                                 !.roots = IF lease THEN @ \cup {r} ELSE @,
                                 !.claim = IF lease THEN @ ELSE Unclaimed(@, r),
                                 !.pc[r] = "accepted"]
    <3>1. h \in HostType /\ host.roots \subseteq h.roots
      BY <2>1 DEF HostType, PCs, Unclaimed
    <3>2. host' \in Dispatch(fact', h)
      BY <2>4 DEF Admit
    <3> HIDE DEF h
    <3> QED BY <1>3, <3>1, <3>2
  <2>5. ASSUME NEW r \in Runs, Refuse(r)
        PROVE  Kept
    <3> DEFINE h == [ReleaseAdmission(Leave(host, r), r) EXCEPT !.ticket[r] = "none", !.pc[r] = "idle"]
    <3> DEFINE left == Leave(host, r)
               k == ReleaseAdmission(left, r)
    <3>1. left \in HostType /\ left.roots = host.roots /\ r \in Actors
      BY <2>1, LeaveType DEF Leave, HostType, Actors, Turns
    <3> HIDE DEF left
    <3>2. k \in HostType /\ k.roots = host.roots
      BY <3>1, ReleaseType DEF ReleaseAdmission, HostType
    <3> HIDE DEF k
    <3>3. [k EXCEPT !.ticket[r] = "none", !.pc[r] = "idle"] \in HostType
          /\ [k EXCEPT !.ticket[r] = "none", !.pc[r] = "idle"].roots = host.roots
      BY <3>2 DEF HostType, PCs
    <3>4. h \in HostType /\ h.roots = host.roots
      BY <3>3 DEF k, left
    <3>5. host' \in Dispatch(fact, h)
      BY <2>5 DEF Refuse
    <3> HIDE DEF h
    <3> QED BY <1>3, <3>4, <3>5
  <2>6. ASSUME NEW r \in Runs, Begin(r)
        PROVE  Kept
    BY <1>2, <2>1, <2>6 DEF Begin, Turns
  <2>7. ASSUME NEW r \in Runs, Unwind(r)
        PROVE  Kept
    <3> DEFINE h == LeftTo(host, r, "ended")
    <3>1. r \in Actors /\ "ended" \in PCs
      BY DEF Actors, Turns, PCs
    <3>2. h \in HostType /\ h.roots = host.roots
      BY <1>4, <2>1, <3>1
    <3>3. PICK d \in Dispatch(fact', h) \cup {h} : host' = ReleaseAdmission(d, r)
      BY <2>7 DEF Unwind, LeftTo
    <3> HIDE DEF h
    <3>4. d \in HostType /\ h.roots \subseteq d.roots
      BY <1>3, <3>2, DispatchType
    <3> QED BY <1>4, <3>1, <3>2, <3>3, <3>4
  <2>8. ASSUME NEW r \in Runs, CancelAccepted(r) \/ DoneCallback(r)
        PROVE  Kept
    <3> DEFINE h == [ReleaseAdmission(host, r) EXCEPT !.roots = @ \ {r}, !.pc[r] = "done"]
    <3>1. h \in HostType
      BY <2>1, ReleaseType DEF HostType, PCs
    <3>2. h.roots = host.roots \ {r}
      BY <2>1 DEF ReleaseAdmission, HostType
    <3>3. host' \in Dispatch(fact', h) /\ fact' = Interrupt(fact, r)
      BY <2>8 DEF CancelAccepted, DoneCallback, Finished
    <3> HIDE DEF h
    <3>4. host.roots \ {r} \subseteq host'.roots
      BY <1>3, <3>1, <3>2, <3>3
    <3>5. fact'[r] \in Terminal
      BY <2>1, <3>3 DEF Interrupt, Terminal, Turns
    <3> QED BY <3>4, <3>5
  <2>9. ASSUME NEW c \in Controls, EnterControl(c) \/ LeaveControl(c)
        PROVE  Kept
    <3> DEFINE h == LeftTo(host, c, "idle")
    <3>1. c \in Actors /\ "idle" \in PCs
      BY DEF Actors, PCs
    <3>2. h \in HostType /\ h.roots = host.roots
      BY <1>4, <2>1, <3>1
    <3>3. host' = EnterWorkspace(host, c) \/ host' \in Dispatch(fact, h) \cup {h}
      BY <2>9 DEF EnterControl, LeaveControl, LeftTo
    <3> HIDE DEF h
    <3>4. host.roots \subseteq host'.roots
      BY <1>1, <1>3, <2>1, <3>1, <3>2, <3>3
    <3> QED BY <3>4
  <2>10. ASSUME NEW a \in Abandons, Abandon(a)
         PROVE  Kept
    <3>1. a \in Turns /\ log \in Seq(Turns)
      BY <1>5 DEF Turns, IInv, TypeOK
    <3>2. /\ [host EXCEPT !.seen[a] = Latest(SessionOf[a])] \in HostType
          /\ [host EXCEPT !.seen[a] = Latest(SessionOf[a])].roots = host.roots
      BY <2>1, <3>1, LatestType DEF HostType
    <3>3. host'.roots = host.roots
      BY <1>2, <2>10, <3>1, <3>2 DEF Abandon
    <3> QED BY <3>3
  <2>11. ASSUME NEW a \in Abandons, AbandonOpen(a)
         PROVE  Kept
    BY <2>1, <2>11 DEF AbandonOpen, HostType
  <2>12. ASSUME NEW a \in Abandons, AbandonClose(a) \/ AbandonLeave(a)
         PROVE  Kept
    <3>1. a \in Actors /\ "idle" \in PCs /\ "done" \in PCs
      BY DEF Actors, Turns, PCs
    <3>2. PICK at \in {"idle", "done"} :
            host' \in Dispatch(fact', LeftTo(host, a, at)) \cup {LeftTo(host, a, at)}
      BY <2>12 DEF AbandonClose, AbandonLeave, LeftTo
    <3> DEFINE h == LeftTo(host, a, at)
    <3>3. h \in HostType /\ h.roots = host.roots
      BY <1>4, <2>1, <3>1
    <3> HIDE DEF h
    <3>4. host.roots \subseteq host'.roots
      BY <1>3, <3>2, <3>3 DEF h
    <3> QED BY <3>4
  <2>13. ASSUME NEW l \in Locks, Resume(l)
         PROVE  Kept
    <3> DEFINE a == Head(host.queue[l])
               h == [host EXCEPT !.queue[l] = Tail(@)]
    <3>1. /\ host.queue[l] \in Seq(Actors) /\ host.queue[l] # <<>> /\ a \in Actors
          /\ Tail(host.queue[l]) \in Seq(Actors) /\ 1 \in 1..Len(host.queue[l]) /\ a = host.queue[l][1]
      BY <2>1, <2>13 DEF Resume, HostType
    <3>2. h \in HostType /\ h.roots = host.roots
      BY <2>1, <3>1 DEF HostType
    <3>3. l \in Sessions => a \in Turns
      BY <1>5, <2>13, <3>1, IdentityAssumption DEF Resume, IInv, Good, Waiters, WaitsFor
    <3>4. host' \in {Own(h, a), GotWorkspace(h, a)} \/ (l \in Sessions /\ host' = GotSession(h, a))
      BY <2>13 DEF Resume
    <3> HIDE DEF h, a
    <3>5. Own(h, a).roots = h.roots
      BY <3>2 DEF Own, HostType
    <3>6. host'.roots = host.roots
      BY <1>1, <1>2, <3>1, <3>2, <3>3, <3>4, <3>5
    <3> QED BY <3>6
  <2>14. ASSUME NEW a \in Actors, WakeDone(a)
         PROVE  Kept
    <3> DEFINE h == [host EXCEPT !.awaits[a] = None]
    <3>1. h \in HostType /\ h.roots = host.roots
      BY <2>1 DEF HostType
    <3>2. host.pc[a] = "awaitS" => a \in Turns
      BY <1>5, <2>14 DEF WakeDone, IInv, Good, Stage, ControlStage, Actors
    <3>3. host' = IF host.pc[a] = "awaitS" THEN EnterSession(h, a) ELSE EnterWorkspace(h, a)
      BY <2>14 DEF WakeDone
    <3> HIDE DEF h
    <3>4. host'.roots = host.roots
      BY <1>1, <1>2, <3>1, <3>2, <3>3
    <3> QED BY <3>4
  <2>15. CASE (\E t \in Turns : RecoverRun(t)) \/ Exit \/ Crash \/ Reopen
    BY <2>15 DEF RecoverRun, Exit, Crash, Reopen
  <2>16. CASE Close \/ UNCHANGED vars
    BY <2>16 DEF Close, vars
  <2> QED
    BY <1>5, <2>2, <2>3, <2>4, <2>5, <2>6, <2>7, <2>8, <2>9, <2>10, <2>11, <2>12, <2>13,
       <2>14, <2>15, <2>16 DEF Next
<1> QED BY Invariant, <1>5, PTL DEF Spec, LeaseOutlivesRun

(***************************************************************************)
(* The Host implements the ledger.                                         *)
(***************************************************************************)
\* What the log calls started executes under the lock of its Workspace.
LEMMA StartedHolds ==
  ASSUME NEW f, NEW h \in HostType, Good(f, h), NEW t \in Turns, f[t] = "started"
  PROVE  h.pc[t] = "executing" /\ h.holder[WorkspaceOf[t]] = t
<1>1. Stage(f, h, t) /\ h.pc[t] \in PCs
  BY DEF Good, Actors, HostType
<1>2. h.pc[t] = "executing"
  BY <1>1 DEF Stage, RunStage, AbandonStage, PCs, Asking, Accepted, InAdmit, Terminal, Turns
<1> QED BY <1>1, <1>2 DEF Stage, LocksHeld

\* Every step of the Host changes the log by one step of the ledger or not at all.
LEMMA LedgerStep == IInv /\ [Next]_vars => [LedgerNext]_ledger
<1> SUFFICES ASSUME IInv, [Next]_vars, ~ UNCHANGED ledger PROVE LedgerNext
  OBVIOUS
<1>1. host \in HostType /\ fact \in [Turns -> Facts]
  BY DEF IInv, TypeOK
<1>2. ASSUME NEW r \in Runs, Admit(r)
      PROVE  Accept(r)
  <2>1. /\ Good(fact, host) /\ host.pc[r] = "preparing" /\ r \in Actors
        /\ host.seen[r] = Latest(SessionOf[r])
    BY <1>2 DEF Admit, IInv, LatestKnown, Actors, Turns
  <2>2. SessionIdle(SessionOf[r])
    BY <1>1, <2>1, Alone DEF SessionIdle
  <2>3. fact[r] = "none"
    BY <2>1 DEF Good, Stage, RunStage, Asking
  <2> QED BY <1>2, <2>1, <2>2, <2>3 DEF Admit, AdmissionValid, Accept, Parked, Record
<1>3. ASSUME NEW r \in Runs, Execute(r)
      PROVE  BeginRun(r)
  <2>1. Good(fact, host) /\ host.pc[r] = "checking" /\ r \in Actors /\ r \in Turns
    BY <1>3 DEF Execute, IInv, Actors, Turns
  <2>2. fact[r] = "admitted" /\ host.holder[WorkspaceOf[r]] = r
    BY <2>1 DEF Good, Stage, RunStage, LocksHeld, Accepted
  <2>3. \A t \in Turns : fact[t] = "started" => WorkspaceOf[t] # WorkspaceOf[r]
    BY <1>1, <2>1, <2>2, StartedHolds
  <2> QED BY <1>3, <2>2, <2>3 DEF Execute, BeginRun
<1>4. ASSUME NEW r \in Runs, Unwind(r)
      PROVE  EndTurn(r)
  <2>1. Good(fact, host) /\ r \in Actors /\ r \in Turns
    BY <1>4 DEF Unwind, IInv, Actors, Turns
  <2>2. PICK out \in Outcomes(host.pc[r]) : fact' = [fact EXCEPT ![r] = out]
    BY <1>4 DEF Unwind
  <2>3. out \in Terminal /\ host.pc[r] \in {"executing", "checking", "go"} \cup InAdmit
        /\ (out = "completed" => host.pc[r] = "executing")
    BY DEF Outcomes, Terminal, InAdmit
  <2>4. Stage(fact, host, r)
    BY <2>1 DEF Good
  <2>5. Unfinished(r) /\ (out = "completed" => fact[r] = "started")
    BY <2>3, <2>4 DEF Stage, RunStage, Unfinished, Accepted, InAdmit
  <2> QED BY <1>4, <2>2, <2>3, <2>5 DEF Unwind, EndTurn
<1>5. ASSUME NEW r \in Runs, CancelAccepted(r) \/ DoneCallback(r)
      PROVE  EndTurn(r)
  <2>1. Good(fact, host) /\ r \in Actors /\ host.pc[r] \in {"accepted", "cancelled", "ended"}
        /\ fact' = Interrupt(fact, r) /\ log' = log /\ cont' = cont
    BY <1>5 DEF CancelAccepted, DoneCallback, IInv, Actors, Turns
  <2>2. fact[r] \notin Terminal
    BY <2>1 DEF Interrupt, ledger
  <2>3. Unfinished(r)
    BY <2>1, <2>2 DEF Good, Stage, RunStage, Accepted, Unfinished
  <2> QED BY <2>1, <2>2, <2>3 DEF EndTurn, Interrupt, Terminal
<1>6. ASSUME NEW a \in Abandons, AbandonOpen(a)
      PROVE  AbandonParked(a)
  <2>1. Good(fact, host) /\ a \in Actors /\ a \in Turns /\ Parked(SessionOf[a])
        /\ Latest(SessionOf[a]) = host.seen[a] /\ host.pc[a] = "inside"
    BY <1>6 DEF AbandonOpen, IInv, Actors, Turns
  <2>2. SessionIdle(SessionOf[a])
    BY <2>1 DEF IInv, LatestKnown, Parked, Unfinished, SessionIdle
  <2>3. fact[a] = "none"
    BY <2>1 DEF Good, Stage, AbandonStage
  <2> QED BY <1>6, <2>1, <2>2, <2>3 DEF AbandonOpen, AbandonParked, Record
<1>7. ASSUME NEW a \in Abandons, AbandonClose(a)
      PROVE  EndTurn(a)
  <2>1. Good(fact, host) /\ a \in Actors /\ host.pc[a] = "executing"
    BY <1>7 DEF AbandonClose, IInv, Actors, Turns
  <2>2. fact[a] = "started"
    BY <2>1 DEF Good, Stage, AbandonStage
  <2> QED BY <1>7, <2>2 DEF AbandonClose, EndTurn, Unfinished, Terminal
<1>8. ASSUME NEW t \in Turns, RecoverRun(t)
      PROVE  EndTurn(t)
  BY <1>8 DEF RecoverRun, EndTurn, Terminal
<1>9. CASE \E r \in Runs : \/ Request(r) \/ RequestBusy(r) \/ Refuse(r) \/ Start(r) \/ Begin(r)
                           \/ CancelUnstarted(r)
  BY <1>9 DEF Request, RequestBusy, Refuse, Start, Begin, CancelUnstarted, ledger
<1>10. CASE \/ \E c \in Controls : EnterControl(c) \/ LeaveControl(c)
            \/ \E a \in Abandons : Abandon(a) \/ AbandonLeave(a)
            \/ \E l \in Locks : Resume(l)
            \/ \E a \in Actors : WakeDone(a)
            \/ Close \/ Exit \/ Crash \/ Reopen \/ UNCHANGED vars
  BY <1>10 DEF EnterControl, LeaveControl, Abandon, AbandonLeave, Resume, WakeDone,
               Close, Exit, Crash, Reopen, vars, ledger
<1> QED
  BY <1>2, <1>3, <1>4, <1>5, <1>6, <1>7, <1>8, <1>9, <1>10 DEF Next, LedgerNext, Turns

\* Whatever locks, slots, cancellations and crashes do, the event log changes
\* only as RunLedger allows.
THEOREM Implements == Spec => LedgerSpec
<1>1. Init => LedgerInit
  BY DEF Init
<1> QED BY Invariant, LedgerStep, <1>1, PTL DEF Spec, LedgerSpec

\* Hence no step of the Host forks a Session: admission reads the latest Run,
\* waits and commits, and still two Runs never continue the same one.
THEOREM NeverForks == Spec => []NoFork
  BY Implements, LedgerNoFork, PTL

\* Hence a terminal fact is the last one, whatever is cancelled or recovered.
THEOREM TerminalIsFinal == Spec => TerminalIsLast
<1>1. LInv /\ [LedgerNext]_ledger =>
        \A t \in Turns : fact[t] \in Terminal => fact'[t] = fact[t]
  <2> SUFFICES ASSUME LInv, [LedgerNext]_ledger, NEW t \in Turns, fact[t] \in Terminal
               PROVE  fact'[t] = fact[t]
    OBVIOUS
  <2> QED BY DEF LInv, LedgerNext, Accept, AbandonParked, Record, BeginRun, EndTurn, Unfinished,
                 ledger, Terminal, Turns
<1>2. ASSUME LInv, IInv, [Next]_vars
      PROVE  \A t \in Turns : fact[t] \in Terminal => fact'[t] = fact[t]
  BY <1>1, <1>2, LedgerStep
<1>3. LedgerSpec => []LInv
  BY LedgerInvInit, LedgerInvStep, PTL DEF LedgerSpec
<1> QED BY Implements, Invariant, <1>2, <1>3, PTL DEF Spec, TerminalIsLast

\* An orderly close leaves nothing to recover: it waits for every task.
THEOREM CloseIsComplete == Spec => CloseFinishes
<1>1. ASSUME IInv, [Next]_vars, mode = "closing", mode' = "down", restarts' = restarts
      PROVE  \A r \in Runs : ~ Unfinished(r)
  <2>1. restarts \in Nat
    BY <1>1, LimitAssumption DEF IInv, TypeOK
  <2>2. ~ Crash
    BY <1>1, <2>1 DEF Crash
  <2>3. Exit
    BY <1>1, <2>2 DEF Next, vars, Request, RequestBusy, Admit, Refuse, Start, Begin, Execute,
       Unwind, CancelUnstarted, CancelAccepted, DoneCallback, EnterControl, LeaveControl,
       Abandon, AbandonOpen, AbandonClose, AbandonLeave, Resume, WakeDone, RecoverRun, Close, Reopen
  <2>4. ASSUME NEW r \in Runs
        PROVE  fact[r] \notin {"admitted", "started"}
    <3>1. Stage(fact, host, r) /\ host.pc[r] \in {"idle", "done"}
      BY <1>1, <2>3 DEF Exit, IInv, Good, Actors, Turns
    <3> QED BY <3>1 DEF Stage, RunStage, Asking, Terminal
  <2> QED BY <2>4 DEF Unfinished
<1> QED BY Invariant, <1>1, PTL DEF Spec, CloseFinishes
=============================================================================
