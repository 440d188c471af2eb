------------------------ MODULE BudgetLedger_proofs ------------------------
(***************************************************************************)
(* What a model call in flight can rely on, for every number of Runs,      *)
(* requests, buckets and slots.  The inductive invariant BInv says, for    *)
(* each place a request's task can stand, what the ledger holds for its    *)
(* attempt and that its Run is still running.                              *)
(***************************************************************************)
EXTENDS BudgetLedger, FiniteInduction

Entry == [need : Nat, scopes : SUBSET Buckets, seen : Nat, known : Limits,
          by : {"none", "open", "unknown", "reported", "user"}]
Places == {"new", "line", "reserved", "sent", "drain", "backoff", "done", "failed"}

\* The types the proofs need.
BTypes ==
  /\ book \in [Attempts -> Entry]
  /\ req \in [Requests -> [at : Places, try : 1 .. 3]]
  /\ run \in [Runs -> {"new", "running", "ended"}]
  /\ billed \in [Attempts -> Nat]
  /\ day \in 1 .. MaxDay /\ crashes \in Nat

\* A request's task belongs to a running Run of a running process.
LiveRuns ==
  \A q \in Requests : req[q].at \notin {"new", "done", "failed"} =>
    up /\ run[RunOf[q]] = "running"

\* An attempt in a slot is open; one that has not reserved yet has no entry, nor
\* has any later one, and a request that pauses may try again.
OpenInSlot ==
  \A q \in Requests :
    /\ req[q].at \in {"reserved", "sent", "drain"} => book[<<q, req[q].try>>].by = "open"
    /\ req[q].at \in {"new", "line"} => book[<<q, req[q].try>>].by = "none"
    /\ \A n \in 1 .. 3 : n > req[q].try => book[<<q, n>>].by = "none"
    /\ req[q].at = "backoff" => req[q].try < 3

\* An entry without a known amount is open or unknown; an open one reported nothing.
Unsettled ==
  \A a \in Attempts :
    /\ book[a].by \in {"none", "open", "unknown"} => book[a].known = None
    /\ book[a].by \in {"reported", "user"} => book[a].known \in Nat
    /\ book[a].by \in {"none", "open"} => book[a].seen = 0

SlotsHeld == Cardinality(InSlot) <= ModelSlots

BInv == BTypes /\ LiveRuns /\ OpenInSlot /\ Unsettled /\ SlotsHeld


(***************************************************************************)
(* The semaphore.                                                          *)
(***************************************************************************)
LEMMA SlotsFinite == IsFiniteSet(InSlot) /\ IsFiniteSet(InSlot')
<1>1. InSlot \subseteq Requests /\ InSlot' \subseteq Requests
  BY DEF InSlot
<1> QED
  BY <1>1, LedgerAssumption, FS_Subset

\* A step that takes no slot keeps the bound.
LEMMA NoSlotTaken == ASSUME SlotsHeld, InSlot' \subseteq InSlot PROVE SlotsHeld'
<1>1. Cardinality(InSlot') <= Cardinality(InSlot)
  BY SlotsFinite, FS_Subset
<1>2. Cardinality(InSlot) \in Nat /\ Cardinality(InSlot') \in Nat
  BY SlotsFinite, FS_CardinalityType
<1> QED
  BY <1>1, <1>2, LedgerAssumption DEF SlotsHeld

\* So does a step that takes a free one.
LEMMA FreeSlotTaken ==
  ASSUME NEW q \in Requests, Cardinality(InSlot) < ModelSlots, InSlot' \subseteq InSlot \cup {q}
  PROVE  SlotsHeld'
<1>0. IsFiniteSet(InSlot) /\ Cardinality(InSlot) \in Nat
  BY SlotsFinite, FS_CardinalityType
<1>1. IsFiniteSet(InSlot \cup {q}) /\ Cardinality(InSlot \cup {q}) <= Cardinality(InSlot) + 1
  <2>1. CASE q \in InSlot
    <3>1. InSlot \cup {q} = InSlot
      BY <2>1
    <3>2. Cardinality(InSlot) <= Cardinality(InSlot) + 1
      BY <1>0
    <3> QED
      BY <1>0, <3>1, <3>2
  <2>2. CASE q \notin InSlot
    <3>1. IsFiniteSet(InSlot \cup {q}) /\ Cardinality(InSlot \cup {q}) = Cardinality(InSlot) + 1
      BY <1>0, <2>2, FS_AddElement
    <3>2. Cardinality(InSlot) + 1 <= Cardinality(InSlot) + 1
      BY <1>0
    <3> QED
      BY <3>1, <3>2
  <2> QED
    BY <2>1, <2>2
<1>2. Cardinality(InSlot') <= Cardinality(InSlot \cup {q})
  BY <1>1, FS_Subset
<1>3. /\ Cardinality(InSlot) \in Nat /\ Cardinality(InSlot') \in Nat
      /\ Cardinality(InSlot \cup {q}) \in Nat
  BY <1>1, SlotsFinite, FS_CardinalityType
<1> QED
  BY <1>1, <1>2, <1>3, LedgerAssumption DEF SlotsHeld

(***************************************************************************)
(* The initial state.                                                      *)
(***************************************************************************)
LEMMA BInvInit == ASSUME Init PROVE BInv
<1> USE LedgerAssumption DEF Init
<1>1. Nothing \in Entry
  BY DEF Nothing, Entry, Limits
<1>2. BTypes
  BY <1>1 DEF BTypes, Places
<1>3. LiveRuns /\ OpenInSlot
  <2>1. \A a \in Attempts : book[a].by = "none"
    BY DEF Nothing
  <2>2. \A q \in Requests, n \in 1 .. 3 : <<q, n>> \in Attempts
    BY DEF Attempts
  <2> QED
    BY <2>1, <2>2 DEF LiveRuns, OpenInSlot
<1>4. Unsettled
  BY DEF Unsettled, Nothing
<1>5. SlotsHeld
  <2>1. InSlot = {}
    BY DEF InSlot
  <2>2. Cardinality(InSlot) = 0
    BY <2>1, FS_EmptySet
  <2> QED
    BY <2>2 DEF SlotsHeld
<1> QED
  BY <1>2, <1>3, <1>4, <1>5 DEF BInv

(***************************************************************************)
(* The steps.  An attempt is identified by its request and number, so that *)
(* a step of one request leaves every other request's entries alone.       *)
(***************************************************************************)
LEMMA AttemptOf ==
  /\ \A q \in Requests, n \in 1 .. 3 : <<q, n>> \in Attempts
  /\ \A a \in Attempts : a[1] \in Requests /\ a[2] \in 1 .. 3 /\ a = <<a[1], a[2]>>
  BY DEF Attempts

\* A step that moves no request and leaves the ledger alone.
LEMMA Elsewhere ==
  ASSUME BInv, UNCHANGED <<book, req, billed>>, BTypes', LiveRuns'
  PROVE  BInv'
<1>1. OpenInSlot' /\ Unsettled'
  BY DEF BInv, OpenInSlot, Unsettled
<1>2. SlotsHeld'
  BY DEF BInv, SlotsHeld, InSlot
<1> QED
  BY <1>1, <1>2 DEF BInv

LEMMA FinishKeeps ==
  ASSUME BInv, NEW q \in Requests, NEW spent \in Nat, NEW report, NEW next \in Places,
         report = NoReport \/ report \in Reports(spent),
         req[q].at \in {"reserved", "sent", "drain"},
         next \in {"done", "failed", "backoff"},
         next = "backoff" => req[q].try < 3,
         up, Finish(q, spent, report, next)
  PROVE  BInv'
<1> DEFINE a == <<q, req[q].try>>
<1>1. /\ req[q] \in [at : Places, try : 1 .. 3] /\ a \in Attempts
      /\ book[a] \in Entry /\ book[a].by = "open"
  BY AttemptOf DEF BInv, BTypes, OpenInSlot
<1>2. /\ report.seen \in Nat
      /\ \/ report.known \in Nat /\ report.by = "reported"
         \/ report.known = None /\ report.by = "unknown"
  BY LedgerAssumption DEF Reports, NoReport
<1>3. /\ book' = [book EXCEPT ![a].seen = report.seen, ![a].known = report.known,
                              ![a].by = report.by]
      /\ billed' = [billed EXCEPT ![a] = spent]
      /\ req' = [req EXCEPT ![q].at = next]
      /\ UNCHANGED <<run, up, day, crashes>>
  BY DEF Finish, Settled, Current
<1>4. /\ book'[a] = [book[a] EXCEPT !.seen = report.seen, !.known = report.known, !.by = report.by]
      /\ \A b \in Attempts : b # a => book'[b] = book[b]
  BY <1>1, <1>3 DEF BInv, BTypes
<1>5. /\ req'[q].at = next /\ req'[q].try = req[q].try
      /\ \A p \in Requests : p # q => req'[p] = req[p]
  BY <1>1, <1>3 DEF BInv, BTypes
<1>6. BTypes'
  <2>1. book'[a] \in Entry
    BY <1>1, <1>2, <1>4 DEF Entry, Limits
  <2>2. book' \in [Attempts -> Entry]
    BY <1>1, <1>3, <1>4, <2>1 DEF BInv, BTypes
  <2>3. req' \in [Requests -> [at : Places, try : 1 .. 3]]
    BY <1>1, <1>3 DEF BInv, BTypes
  <2> QED
    BY <1>3, <2>2, <2>3 DEF BInv, BTypes
<1>7. LiveRuns'
  BY <1>3, <1>5 DEF BInv, LiveRuns
<1>8. OpenInSlot'
  <2>1. /\ \A p \in Requests, n \in 1 .. 3 :
             p # q \/ n # req[q].try => book'[<<p, n>>] = book[<<p, n>>]
        /\ \A p \in Requests : req[p].try \in 1 .. 3
    BY <1>4, AttemptOf DEF BInv, BTypes
  <2> SUFFICES ASSUME NEW p \in Requests
               PROVE  /\ req'[p].at \in {"reserved", "sent", "drain"} =>
                           book'[<<p, req'[p].try>>].by = "open"
                      /\ req'[p].at \in {"new", "line"} => book'[<<p, req'[p].try>>].by = "none"
                      /\ \A n \in 1 .. 3 : n > req'[p].try => book'[<<p, n>>].by = "none"
                      /\ req'[p].at = "backoff" => req'[p].try < 3
    BY DEF OpenInSlot
  <2>2. CASE p = q
    <3>1. req'[p].at \in {"done", "failed", "backoff"} /\ req'[p].try = req[p].try
      BY <1>5, <2>2
    <3>2. \A n \in 1 .. 3 : n > req'[p].try => book'[<<p, n>>].by = "none"
      <4>1. TAKE n \in 1 .. 3
      <4>2. HAVE n > req'[p].try
      <4>3. n # req[q].try /\ book[<<q, n>>].by = "none"
        BY <2>1, <2>2, <3>1, <4>2 DEF BInv, OpenInSlot
      <4> QED
        BY <2>1, <2>2, <4>3
    <3>3. req'[p].at = "backoff" => req'[p].try < 3
      BY <1>5, <2>2
    <3> QED
      BY <3>1, <3>2, <3>3
  <2>3. CASE p # q
    <3>1. req'[p] = req[p] /\ \A n \in 1 .. 3 : book'[<<p, n>>] = book[<<p, n>>]
      BY <1>5, <2>1, <2>3
    <3> QED
      BY <2>1, <3>1 DEF BInv, OpenInSlot
  <2> QED
    BY <2>2, <2>3
<1>9. Unsettled'
  <2>1. \A b \in Attempts : b # a => book'[b] = book[b]
    BY <1>4
  <2>2. /\ book'[a].by = report.by /\ book'[a].known = report.known
        /\ book'[a].by \notin {"none", "open"}
    BY <1>1, <1>2, <1>4 DEF Entry
  <2>3. /\ book'[a].by \in {"none", "open", "unknown"} => book'[a].known = None
        /\ book'[a].by \in {"reported", "user"} => book'[a].known \in Nat
    BY <1>2, <2>2
  <2> HIDE DEF a
  <2> QED
    BY <2>1, <2>2, <2>3 DEF BInv, Unsettled
<1>10. SlotsHeld'
  <2>1. InSlot' \subseteq InSlot
    BY <1>5 DEF InSlot
  <2> QED
    BY <2>1, NoSlotTaken DEF BInv
<1> QED
  BY <1>6, <1>7, <1>8, <1>9, <1>10 DEF BInv

\* A request moves and its Run stays as it is; the others see no difference.
LEMMA Moves ==
  ASSUME BInv, NEW q \in Requests, BTypes', Unsettled', SlotsHeld',
         UNCHANGED <<run, up>>, up, run[RunOf[q]] = "running",
         \A p \in Requests : p # q => req'[p] = req[p],
         \A p \in Requests, n \in 1 .. 3 : p # q => book'[<<p, n>>] = book[<<p, n>>],
         req'[q].at \in {"reserved", "sent", "drain"} => book'[<<q, req'[q].try>>].by = "open",
         req'[q].at \in {"new", "line"} => book'[<<q, req'[q].try>>].by = "none",
         \A n \in 1 .. 3 : n > req'[q].try => book'[<<q, n>>].by = "none",
         req'[q].at = "backoff" => req'[q].try < 3
  PROVE  BInv'
<1>1. LiveRuns'
  BY DEF BInv, LiveRuns
<1>2. OpenInSlot'
  <2> SUFFICES ASSUME NEW p \in Requests
               PROVE  /\ req'[p].at \in {"reserved", "sent", "drain"} =>
                           book'[<<p, req'[p].try>>].by = "open"
                      /\ req'[p].at \in {"new", "line"} => book'[<<p, req'[p].try>>].by = "none"
                      /\ \A n \in 1 .. 3 : n > req'[p].try => book'[<<p, n>>].by = "none"
                      /\ req'[p].at = "backoff" => req'[p].try < 3
    BY DEF OpenInSlot
  <2>1. CASE p = q
    BY <2>1
  <2>2. CASE p # q
    <3>1. req'[p] = req[p] /\ \A n \in 1 .. 3 : book'[<<p, n>>] = book[<<p, n>>]
      BY <2>2
    <3>2. req[p].try \in 1 .. 3
      BY DEF BInv, BTypes
    <3> QED
      BY <3>1, <3>2 DEF BInv, OpenInSlot
  <2> QED
    BY <2>1, <2>2
<1> QED
  BY <1>1, <1>2 DEF BInv

\* Where a request stands after a step that moves it, and where the others stand.
MovesTo(q, place, n) ==
  /\ req'[q].at = place /\ req'[q].try = n
  /\ \A p \in Requests : p # q => req'[p] = req[p]

LEMMA Moved ==
  ASSUME BInv, NEW q \in Requests, NEW place \in Places, req' = [req EXCEPT ![q].at = place]
  PROVE  req' \in [Requests -> [at : Places, try : 1 .. 3]] /\ MovesTo(q, place, req[q].try)
<1>1. /\ req \in [Requests -> [at : Places, try : 1 .. 3]]
      /\ req[q] \in [at : Places, try : 1 .. 3]
  BY DEF BInv, BTypes
<1> QED
  BY <1>1 DEF MovesTo

\* The slots such a step takes and leaves.
LEMMA MovedSlots ==
  ASSUME NEW q \in Requests, NEW place, NEW n, MovesTo(q, place, n)
  PROVE  /\ InSlot' \subseteq InSlot \cup {q}
         /\ place \notin {"reserved", "sent", "drain"} => InSlot' \subseteq InSlot
         /\ req[q].at \in {"reserved", "sent", "drain"} => InSlot' \subseteq InSlot
  BY DEF MovesTo, InSlot

LEMMA AskKeeps == ASSUME BInv, NEW q \in Requests, Ask(q) PROVE BInv'
<1>1. /\ req' = [req EXCEPT ![q].at = "line"] /\ UNCHANGED <<book, run, up, day, crashes, billed>>
      /\ up /\ run[RunOf[q]] = "running" /\ req[q].at = "new"
  BY DEF Ask, facts
<1>2. req[q].try \in 1 .. 3 /\ "line" \in Places
  BY DEF BInv, BTypes, Places
<1>3. /\ req' \in [Requests -> [at : Places, try : 1 .. 3]]
      /\ MovesTo(q, "line", req[q].try)
  BY <1>1, <1>2, Moved
<1>4. BTypes' /\ Unsettled' /\ SlotsHeld'
  BY <1>1, <1>3, MovedSlots, NoSlotTaken DEF BInv, BTypes, Unsettled
<1>5. /\ book'[<<q, req'[q].try>>].by = "none"
      /\ \A n \in 1 .. 3 : n > req'[q].try => book'[<<q, n>>].by = "none"
  BY <1>1, <1>3 DEF BInv, OpenInSlot, MovesTo
<1> QED
  BY <1>1, <1>3, <1>4, <1>5, Moves DEF MovesTo

LEMMA SendKeeps == ASSUME BInv, NEW q \in Requests, Send(q) \/ Drain(q) PROVE BInv'
<1>1. /\ UNCHANGED <<book, run, up, day, crashes, billed>>
      /\ up /\ req[q].at \in {"reserved", "sent"}
      /\ \E place \in {"sent", "drain"} : req' = [req EXCEPT ![q].at = place]
  BY DEF Send, Drain, facts
<1>2. PICK place \in {"sent", "drain"} : req' = [req EXCEPT ![q].at = place]
  BY <1>1
<1>3. req[q].try \in 1 .. 3 /\ place \in Places
  BY DEF BInv, BTypes, Places
<1>4. /\ req' \in [Requests -> [at : Places, try : 1 .. 3]]
      /\ MovesTo(q, place, req[q].try)
  BY <1>1, <1>2, <1>3, Moved
<1>5. BTypes' /\ Unsettled' /\ SlotsHeld'
  BY <1>1, <1>4, MovedSlots, NoSlotTaken DEF BInv, BTypes, Unsettled
<1>6. /\ book'[<<q, req'[q].try>>].by = "open"
      /\ \A n \in 1 .. 3 : n > req'[q].try => book'[<<q, n>>].by = "none"
      /\ run[RunOf[q]] = "running"
  BY <1>1, <1>4 DEF BInv, OpenInSlot, LiveRuns, MovesTo
<1> QED
  BY <1>1, <1>4, <1>5, <1>6, Moves DEF MovesTo

LEMMA CancelWaitingKeeps == ASSUME BInv, NEW q \in Requests, CancelWaiting(q) PROVE BInv'
<1>1. /\ req' = [req EXCEPT ![q].at = "failed"] /\ UNCHANGED <<book, run, up, day, crashes, billed>>
      /\ up /\ req[q].at \in {"line", "backoff"}
  BY DEF CancelWaiting, facts
<1>2. req[q].try \in 1 .. 3 /\ "failed" \in Places
  BY DEF BInv, BTypes, Places
<1>3. /\ req' \in [Requests -> [at : Places, try : 1 .. 3]]
      /\ MovesTo(q, "failed", req[q].try)
  BY <1>1, <1>2, Moved
<1>4. BTypes' /\ Unsettled' /\ SlotsHeld'
  BY <1>1, <1>3, MovedSlots, NoSlotTaken DEF BInv, BTypes, Unsettled
<1>5. /\ \A n \in 1 .. 3 : n > req'[q].try => book'[<<q, n>>].by = "none"
      /\ run[RunOf[q]] = "running"
  BY <1>1, <1>3 DEF BInv, OpenInSlot, LiveRuns, MovesTo
<1> QED
  BY <1>1, <1>3, <1>4, <1>5, Moves DEF MovesTo

LEMMA RetryKeeps == ASSUME BInv, NEW q \in Requests, Retry(q) PROVE BInv'
<1>1. /\ req' = [req EXCEPT ![q] = [at |-> "line", try |-> req[q].try + 1]]
      /\ UNCHANGED <<book, run, up, day, crashes, billed>>
      /\ up /\ req[q].at = "backoff"
  BY DEF Retry, facts
<1>2. req[q].try \in 1 .. 3 /\ req[q].try < 3
  BY <1>1 DEF BInv, BTypes, OpenInSlot
<1>3. req' \in [Requests -> [at : Places, try : 1 .. 3]] /\ MovesTo(q, "line", req[q].try + 1)
  <2>1. [at |-> "line", try |-> req[q].try + 1] \in [at : Places, try : 1 .. 3]
    BY <1>2 DEF Places
  <2> QED
    BY <1>1, <2>1 DEF BInv, BTypes, MovesTo
<1>4. BTypes' /\ Unsettled' /\ SlotsHeld'
  BY <1>1, <1>3, MovedSlots, NoSlotTaken DEF BInv, BTypes, Unsettled
<1>5. \A n \in 1 .. 3 : n > req[q].try => book'[<<q, n>>].by = "none"
  BY <1>1 DEF BInv, OpenInSlot
<1>6. /\ book'[<<q, req'[q].try>>].by = "none"
      /\ \A n \in 1 .. 3 : n > req'[q].try => book'[<<q, n>>].by = "none"
      /\ run[RunOf[q]] = "running"
  <2>1. req[q].try + 1 > req[q].try /\ req[q].try + 1 \in 1 .. 3 /\ \A n \in 1 .. 3 : n > req[q].try + 1 => n > req[q].try
    BY <1>2
  <2> QED
    BY <1>1, <1>2, <1>3, <1>5, <2>1 DEF BInv, LiveRuns, MovesTo
<1> QED
  BY <1>1, <1>3, <1>4, <1>6, Moves DEF MovesTo

LEMMA BeginKeeps == ASSUME BInv, NEW q \in Requests, Begin(q) PROVE BInv'
<1> DEFINE a == <<q, req[q].try>>
<1>1. /\ up /\ req[q].at = "line" /\ Cardinality(InSlot) < ModelSlots
      /\ UNCHANGED <<run, up, day, crashes, billed>>
  BY DEF Begin
<1>2. PICK n \in Sizes :
        \/ req' = [req EXCEPT ![q].at = "failed"] /\ UNCHANGED book
        \/ /\ req' = [req EXCEPT ![q].at = "reserved"]
           /\ book' = [book EXCEPT ![a] = Reservation(q, n)]
  BY DEF Begin, Current
<1>3. /\ req[q].try \in 1 .. 3 /\ a \in Attempts /\ run[RunOf[q]] = "running"
      /\ \A m \in 1 .. 3 : m > req[q].try => book[<<q, m>>].by = "none"
  BY <1>1, AttemptOf DEF BInv, BTypes, LiveRuns, OpenInSlot
<1>4. "failed" \in Places /\ "reserved" \in Places
  BY DEF Places
<1>5. CASE req' = [req EXCEPT ![q].at = "failed"] /\ UNCHANGED book
  <2>1. req' \in [Requests -> [at : Places, try : 1 .. 3]] /\ MovesTo(q, "failed", req[q].try)
    BY <1>4, <1>5, Moved
  <2>2. BTypes' /\ Unsettled' /\ SlotsHeld'
    BY <1>1, <1>5, <2>1, MovedSlots, NoSlotTaken DEF BInv, BTypes, Unsettled
  <2>3. \A m \in 1 .. 3 : m > req'[q].try => book'[<<q, m>>].by = "none"
    BY <1>3, <1>5, <2>1 DEF MovesTo
  <2> QED
    BY <1>1, <1>3, <1>5, <2>1, <2>2, <2>3, Moves DEF MovesTo
<1>6. CASE /\ req' = [req EXCEPT ![q].at = "reserved"]
           /\ book' = [book EXCEPT ![a] = Reservation(q, n)]
  <2>1. req' \in [Requests -> [at : Places, try : 1 .. 3]] /\ MovesTo(q, "reserved", req[q].try)
    BY <1>4, <1>6, Moved
  <2>2. /\ Reservation(q, n) \in Entry
        /\ Reservation(q, n).by = "open" /\ Reservation(q, n).known = None
        /\ Reservation(q, n).seen = 0
    <3>1. n \in Nat /\ ScopesOf(RunOf[q]) \in SUBSET Buckets
      BY LedgerAssumption DEF ScopesOf, Buckets, Days, BInv, BTypes
    <3> QED
      BY <3>1 DEF Reservation, Entry, Limits
  <2>3. /\ book' \in [Attempts -> Entry] /\ book'[a] = Reservation(q, n)
        /\ \A b \in Attempts : b # a => book'[b] = book[b]
    BY <1>3, <1>6, <2>2 DEF BInv, BTypes
  <2>4. BTypes'
    BY <1>1, <2>1, <2>3 DEF BInv, BTypes
  <2>5. Unsettled'
    <3> HIDE DEF a
    <3> QED
      BY <2>2, <2>3 DEF BInv, Unsettled
  <2>6. SlotsHeld'
    BY <1>1, <2>1, MovedSlots, FreeSlotTaken
  <2>7. \A p \in Requests, m \in 1 .. 3 : p # q \/ m # req[q].try => book'[<<p, m>>] = book[<<p, m>>]
    BY <2>3, AttemptOf
  <2>8. \A m \in 1 .. 3 : m > req'[q].try => book'[<<q, m>>].by = "none"
    <3>1. TAKE m \in 1 .. 3
    <3>2. HAVE m > req'[q].try
    <3>3. m > req[q].try /\ m # req[q].try
      BY <1>3, <2>1, <3>2 DEF MovesTo
    <3> QED
      BY <1>3, <2>7, <3>3
  <2>9. book'[<<q, req'[q].try>>].by = "open"
    BY <2>1, <2>2, <2>3 DEF MovesTo
  <2> QED
    BY <1>1, <1>3, <2>1, <2>4, <2>5, <2>6, <2>7, <2>8, <2>9, Moves DEF MovesTo
<1> QED
  BY <1>2, <1>5, <1>6

\* The five ways a call ends are settlements.
LEMMA EndedKeeps ==
  ASSUME BInv, NEW q \in Requests,
         Answer(q) \/ Fail(q) \/ CancelInSlot(q) \/ Drained(q)
  PROVE  BInv'
<1>1. /\ up /\ req[q].at \in {"reserved", "sent", "drain"}
      /\ \E spent \in {0} \cup Spends, next \in {"done", "failed", "backoff"} :
           \E report \in Reports(spent) \cup {NoReport} :
             /\ Finish(q, spent, report, next)
             /\ next = "backoff" => req[q].try < Tries[q]
  <2>1. CASE Answer(q)
    BY <2>1 DEF Answer
  <2>2. CASE Fail(q)
    BY <2>2 DEF Fail, FailTo, MayBill
  <2>3. CASE CancelInSlot(q)
    BY <2>3 DEF CancelInSlot, MayBill
  <2>4. CASE Drained(q)
    BY <2>4 DEF Drained, MayBill
  <2> QED
    BY <2>1, <2>2, <2>3, <2>4
<1>2. PICK spent \in {0} \cup Spends, next \in {"done", "failed", "backoff"} :
        \E report \in Reports(spent) \cup {NoReport} :
          Finish(q, spent, report, next) /\ (next = "backoff" => req[q].try < Tries[q])
  BY <1>1
<1>3. PICK report \in Reports(spent) \cup {NoReport} :
        Finish(q, spent, report, next) /\ (next = "backoff" => req[q].try < Tries[q])
  BY <1>2
<1>4. spent \in Nat /\ next \in Places
  BY LedgerAssumption DEF Places
<1>5. next = "backoff" => req[q].try < 3
  <2>1. Tries[q] \in 1 .. 3 /\ req[q].try \in 1 .. 3
    BY LedgerAssumption DEF BInv, BTypes
  <2> QED
    BY <1>3, <2>1
<1>6. report = NoReport \/ report \in Reports(spent)
  OBVIOUS
<1> QED
  BY <1>1, <1>3, <1>4, <1>5, <1>6, FinishKeeps

\* A resolved attempt was unknown, or its Run has ended and makes no call.
LEMMA ResolveKeeps == ASSUME BInv, NEW a \in Attempts, Resolve(a) PROVE BInv'
<1>1. PICK n \in {0} \cup Spends :
        Resolvable(a, n) /\ book' = [book EXCEPT ![a].known = n, ![a].by = "user"]
  BY DEF Resolve
<1>2. UNCHANGED <<req, run, up, day, crashes, billed>>
  BY DEF Resolve
<1>3. /\ n \in Nat /\ book[a] \in Entry /\ book[a].by # "none"
      /\ book[a].by = "unknown" \/ run[RunOf[a[1]]] = "ended"
  BY <1>1, LedgerAssumption DEF BInv, BTypes, Resolvable, Reserved
<1>4. /\ book'[a] = [book[a] EXCEPT !.known = n, !.by = "user"]
      /\ \A b \in Attempts : b # a => book'[b] = book[b]
  BY <1>1 DEF BInv, BTypes
<1>5. BTypes'
  <2>1. book'[a] \in Entry
    BY <1>3, <1>4 DEF Entry, Limits
  <2>2. book' \in [Attempts -> Entry]
    BY <1>1, <1>4, <2>1 DEF BInv, BTypes
  <2> QED
    BY <1>2, <2>2 DEF BInv, BTypes
<1>6. LiveRuns' /\ SlotsHeld'
  BY <1>2 DEF BInv, LiveRuns, SlotsHeld, InSlot
<1>7. Unsettled'
  <2>1. book'[a].by = "user" /\ book'[a].known \in Nat
    BY <1>3, <1>4 DEF Entry
  <2> QED
    BY <1>4, <2>1 DEF BInv, Unsettled
<1>8. \A p \in Requests, m \in 1 .. 3 :
        book[<<p, m>>].by = "none" => book'[<<p, m>>].by = "none"
  BY <1>3, <1>4, AttemptOf
<1>9. \A p \in Requests :
        req[p].at \in {"reserved", "sent", "drain"} =>
          book'[<<p, req[p].try>>] = book[<<p, req[p].try>>]
  <2> SUFFICES ASSUME NEW p \in Requests, req[p].at \in {"reserved", "sent", "drain"},
                      a = <<p, req[p].try>>
               PROVE  FALSE
    BY <1>4, AttemptOf DEF BInv, BTypes
  <2>1. book[a].by = "open" /\ run[RunOf[p]] = "running" /\ a[1] = p
    BY DEF BInv, OpenInSlot, LiveRuns
  <2> QED
    BY <1>3, <2>1
<1>10. OpenInSlot'
  <2>1. \A p \in Requests : req[p].try \in 1 .. 3
    BY DEF BInv, BTypes
  <2> QED
    BY <1>2, <1>8, <1>9, <2>1 DEF BInv, OpenInSlot
<1> QED
  BY <1>5, <1>6, <1>7, <1>10 DEF BInv

LEMMA RunsKeep ==
  ASSUME BInv, NEW r \in Runs, StartRun(r) \/ EndRun(r)
  PROVE  BInv'
<1>1. /\ UNCHANGED <<book, req, billed, up, day, crashes>>
      /\ run' \in [Runs -> {"new", "running", "ended"}]
      /\ \A s \in Runs : s # r => run'[s] = run[s]
  BY DEF StartRun, EndRun, facts, BInv, BTypes
<1>2. run'[r] = "running" \/ \A q \in Live : RunOf[q] # r
  BY DEF StartRun, EndRun, BInv, BTypes
<1>3. BTypes'
  BY <1>1 DEF BInv, BTypes
<1>4. LiveRuns'
  <2>1. \A q \in Requests : RunOf[q] \in Runs
    BY LedgerAssumption
  <2> QED
    BY <1>1, <1>2, <2>1 DEF BInv, LiveRuns, Live
<1> QED
  BY <1>1, <1>3, <1>4, Elsewhere

\* Steps of people and of time that no request takes part in.
LEMMA OthersKeep ==
  ASSUME BInv, Midnight \/ CloseDelivery \/ \E c \in Configs : Configure(c)
  PROVE  BInv'
<1>1. UNCHANGED <<book, req, billed, run, up, crashes>> /\ day' \in 1 .. MaxDay
  <2>1. CASE Midnight
    BY <2>1, LedgerAssumption DEF Midnight, facts, BInv, BTypes
  <2>2. CASE CloseDelivery
    BY <2>2 DEF CloseDelivery, BInv, BTypes
  <2>3. CASE \E c \in Configs : Configure(c)
    BY <2>3 DEF Configure, BInv, BTypes
  <2> QED
    BY <2>1, <2>2, <2>3
<1>2. BTypes' /\ LiveRuns'
  BY <1>1 DEF BInv, BTypes, LiveRuns
<1> QED
  BY <1>1, <1>2, Elsewhere

\* With the process goes every request that was under way.
LEMMA LostKeeps ==
  ASSUME BInv, NEW bill \in [AtProvider -> Nat], LoseProcess(bill),
         UNCHANGED <<run, day>>, book' \in [Attempts -> Entry], Unsettled',
         \A b \in Attempts : book[b].by = "none" => book'[b].by = "none"
  PROVE  BInv'
<1>1. /\ req' = [q \in Requests |-> IF q \in Live THEN [req[q] EXCEPT !.at = "failed"] ELSE req[q]]
      /\ crashes' = crashes + 1
      /\ billed' = [a \in Attempts |->
           IF \E q \in AtProvider : a = Current(q) THEN bill[a[1]] ELSE billed[a]]
  BY DEF LoseProcess
<1>2. \A q \in Requests : req[q] \in [at : Places, try : 1 .. 3]
  BY DEF BInv, BTypes
<1>3. \A q \in Requests :
        /\ req'[q] \in [at : Places, try : 1 .. 3] /\ req'[q].try = req[q].try
        /\ req'[q].at \in {"new", "done", "failed"}
        /\ req'[q].at = "new" => req[q].at = "new"
  BY <1>1, <1>2 DEF Live, Places
<1>4. req' \in [Requests -> [at : Places, try : 1 .. 3]]
  BY <1>1, <1>3
<1>5. billed' \in [Attempts -> Nat]
  <2>1. \A a \in Attempts : (\E q \in AtProvider : a = Current(q)) => bill[a[1]] \in Nat
    BY DEF Current
  <2> QED
    BY <1>1, <2>1 DEF BInv, BTypes
<1>6. BTypes'
  BY <1>1, <1>4, <1>5 DEF BInv, BTypes
<1>7. LiveRuns'
  BY <1>3 DEF LiveRuns
<1>8. OpenInSlot'
  <2>1. \A p \in Requests, m \in 1 .. 3 :
          book[<<p, m>>].by = "none" => book'[<<p, m>>].by = "none"
    BY AttemptOf
  <2>2. \A p \in Requests : req[p].try \in 1 .. 3
    BY <1>2
  <2> SUFFICES ASSUME NEW p \in Requests
               PROVE  /\ req'[p].at \in {"reserved", "sent", "drain"} =>
                           book'[<<p, req'[p].try>>].by = "open"
                      /\ req'[p].at \in {"new", "line"} => book'[<<p, req'[p].try>>].by = "none"
                      /\ \A n \in 1 .. 3 : n > req'[p].try => book'[<<p, n>>].by = "none"
                      /\ req'[p].at = "backoff" => req'[p].try < 3
    BY DEF OpenInSlot
  <2>3. \A n \in 1 .. 3 : n > req[p].try => book[<<p, n>>].by = "none"
    BY DEF BInv, OpenInSlot
  <2>4. req[p].at = "new" => book[<<p, req[p].try>>].by = "none"
    BY DEF BInv, OpenInSlot
  <2>5. /\ req'[p].try = req[p].try /\ req'[p].at \in {"new", "done", "failed"}
        /\ req'[p].at = "new" => req[p].at = "new"
    BY <1>3
  <2> QED
    BY <2>1, <2>2, <2>3, <2>4, <2>5
<1>9. SlotsHeld'
  <2>1. InSlot' \subseteq InSlot
    BY <1>3 DEF InSlot
  <2> QED
    BY <2>1, NoSlotTaken DEF BInv
<1> QED
  BY <1>6, <1>7, <1>8, <1>9 DEF BInv

LEMMA CrashKeeps == ASSUME BInv, Crash PROVE BInv'
<1>1. PICK bill \in [AtProvider -> {0} \cup Spends] : LoseProcess(bill)
  BY DEF Crash
<1>2. bill \in [AtProvider -> Nat]
  <2>1. {0} \cup Spends \subseteq Nat
    BY LedgerAssumption
  <2> QED
    BY <2>1
<1>3. UNCHANGED <<book, run, day>>
  BY DEF Crash, facts
<1>4. book' \in [Attempts -> Entry] /\ Unsettled'
  BY <1>3 DEF BInv, BTypes, Unsettled
<1> QED
  BY <1>1, <1>2, <1>3, <1>4, LostKeeps

LEMMA CrashUnpricedKeeps == ASSUME BInv, NEW q \in Requests, CrashUnpriced(q) PROVE BInv'
<1> DEFINE a == <<q, req[q].try>>
<1>1. PICK bill \in [AtProvider -> {0} \cup Spends] : \E report \in Reports(bill[q]) :
        book' = Settled(a, report) /\ LoseProcess(bill)
  BY DEF CrashUnpriced, Current
<1>2. PICK report \in Reports(bill[q]) : book' = Settled(a, report) /\ LoseProcess(bill)
  BY <1>1
<1>3. q \in AtProvider /\ UNCHANGED <<run, day>>
  BY DEF CrashUnpriced
<1>4. bill \in [AtProvider -> Nat] /\ bill[q] \in Nat
  <2>1. {0} \cup Spends \subseteq Nat
    BY LedgerAssumption
  <2> QED
    BY <1>3, <2>1
<1>5. /\ a \in Attempts /\ book[a] \in Entry /\ book[a].by = "open"
  BY <1>3, AttemptOf DEF BInv, BTypes, OpenInSlot, AtProvider
<1>6. /\ report.seen \in Nat
      /\ \/ report.known \in Nat /\ report.by = "reported"
         \/ report.known = None /\ report.by = "unknown"
  BY <1>4, LedgerAssumption DEF Reports
<1>7. /\ book'[a] = [book[a] EXCEPT !.seen = report.seen, !.known = report.known, !.by = report.by]
      /\ \A b \in Attempts : b # a => book'[b] = book[b]
  BY <1>2, <1>5 DEF BInv, BTypes, Settled
<1>8. book' \in [Attempts -> Entry]
  <2>1. book'[a] \in Entry
    BY <1>5, <1>6, <1>7 DEF Entry, Limits
  <2> QED
    BY <1>2, <1>7, <2>1 DEF BInv, BTypes, Settled
<1>9. Unsettled'
  <2>1. book'[a].by = report.by /\ book'[a].known = report.known
    BY <1>5, <1>7 DEF Entry
  <2> HIDE DEF a
  <2> QED
    BY <1>6, <1>7, <2>1 DEF BInv, Unsettled
<1>10. \A b \in Attempts : book[b].by = "none" => book'[b].by = "none"
  BY <1>5, <1>7
<1> QED
  BY <1>2, <1>3, <1>4, <1>8, <1>9, <1>10, LostKeeps

LEMMA RestartKeeps == ASSUME BInv, Restart PROVE BInv'
<1>1. /\ ~ up /\ UNCHANGED <<book, req, billed, day, crashes>>
      /\ run' = [r \in Runs |-> IF run[r] = "running" THEN "ended" ELSE run[r]]
  BY DEF Restart, facts
<1>2. run' \in [Runs -> {"new", "running", "ended"}]
  BY <1>1 DEF BInv, BTypes
<1>3. BTypes' /\ LiveRuns'
  BY <1>1, <1>2 DEF BInv, BTypes, LiveRuns
<1> QED
  BY <1>1, <1>3, Elsewhere

(***************************************************************************)
(* The invariant.                                                          *)
(***************************************************************************)
LEMMA BInvStep == BInv /\ [Next]_vars => BInv'
<1> SUFFICES ASSUME BInv, [Next]_vars PROVE BInv'
  OBVIOUS
<1>1. CASE \E r \in Runs : StartRun(r) \/ EndRun(r)
  BY <1>1, RunsKeep
<1>2. CASE \E q \in Requests :
             \/ Ask(q) \/ Begin(q) \/ Send(q) \/ Answer(q) \/ Fail(q) \/ CancelInSlot(q)
             \/ Drain(q) \/ Drained(q) \/ CancelWaiting(q) \/ Retry(q) \/ CrashUnpriced(q)
  BY <1>2, AskKeeps, BeginKeeps, SendKeeps, EndedKeeps, CancelWaitingKeeps, RetryKeeps,
     CrashUnpricedKeeps
<1>3. CASE (\E c \in Configs : Configure(c)) \/ Midnight \/ CloseDelivery
  BY <1>3, OthersKeep
<1>4. CASE \E a \in Attempts : Resolve(a)
  BY <1>4, ResolveKeeps
<1>5. CASE Crash
  BY <1>5, CrashKeeps
<1>6. CASE Restart
  BY <1>6, RestartKeeps
<1>7. CASE UNCHANGED vars
  <2>1. UNCHANGED <<book, req, billed, run, up, day, crashes>>
    BY <1>7 DEF vars, facts
  <2>2. BTypes' /\ LiveRuns'
    BY <2>1 DEF BInv, BTypes, LiveRuns
  <2> QED
    BY <2>1, <2>2, Elsewhere
<1> QED
  BY <1>1, <1>2, <1>3, <1>4, <1>5, <1>6, <1>7 DEF Next

\* Every reachable state has the ledger entry that each place of a request's
\* task calls for (model_budget.ModelBudget.begin and finish, and recovery).
THEOREM LedgerInvariant == Spec => []BInv
<1>1. Init => BInv
  BY BInvInit
<1> QED
  BY <1>1, BInvStep, PTL DEF Spec

\* A call in a model slot has an open reservation and a running Run: finish()
\* never meets "Conflicting attempt settlement", and the semaphore's bound holds.
THEOREM InFlight == Spec => []InFlightIsOpen
<1>1. BInv => InFlightIsOpen
  BY DEF BInv, OpenInSlot, LiveRuns, SlotsHeld, InFlightIsOpen, InSlot, Current
<1> QED
  BY <1>1, LedgerInvariant, PTL

(***************************************************************************)
(* What becomes of a reservation.                                          *)
(***************************************************************************)
LEMMA MaxPair ==
  ASSUME NEW m \in Nat, NEW n \in Nat
  PROVE  Max({m, n}) \in Nat /\ Max({m, n}) >= m /\ Max({m, n}) >= n /\ Max({m, n}) \in {m, n}
<1>1. \E x \in {m, n} : \A y \in {m, n} : x >= y
  <2>1. m >= m /\ n >= n /\ (m >= n \/ n >= m)
    OBVIOUS
  <2> QED
    BY <2>1
<1>2. Max({m, n}) \in {m, n} /\ \A y \in {m, n} : Max({m, n}) >= y
  BY <1>1 DEF Max
<1> QED
  BY <1>2

\* The entry e of an attempt becomes f by a settlement with what was reported of
\* the bill, or by a person's resolution.
Settles(e, f, bill) ==
  /\ e.by = "open" /\ f.need = e.need /\ f.scopes = e.scopes /\ f.seen \in Nat
  /\ \/ f.by = "reported" /\ f.known = bill
     \/ f.by = "unknown" /\ f.known = None

Resolves(e, f) ==
  /\ e.by # "none" /\ e.known = None /\ f.need = e.need /\ f.scopes = e.scopes
  /\ f.by = "user" /\ f.known >= e.seen

LEMMA FinishSettles ==
  ASSUME BInv, NEW q \in Requests, NEW spent \in Nat, NEW report, NEW next,
         report \in Reports(spent) \cup {NoReport}, Finish(q, spent, report, next)
  PROVE  \A a \in Attempts : book'[a] = book[a] \/ Settles(book[a], book'[a], billed'[a])
<1> DEFINE c == <<q, req[q].try>>
<1>1. c \in Attempts /\ book[c] \in Entry
  BY AttemptOf DEF BInv, BTypes
<1>2. /\ book[c].by = "open"
      /\ book' = [book EXCEPT ![c].seen = report.seen, ![c].known = report.known,
                              ![c].by = report.by]
      /\ billed' = [billed EXCEPT ![c] = spent]
  BY DEF Finish, Settleable, Settled, Current
<1>3. /\ report.seen \in Nat
      /\ \/ report.known = spent /\ report.by = "reported"
         \/ report.known = None /\ report.by = "unknown"
  BY LedgerAssumption DEF Reports, NoReport
<1>4. /\ book'[c] = [book[c] EXCEPT !.seen = report.seen, !.known = report.known, !.by = report.by]
      /\ billed'[c] = spent
      /\ \A a \in Attempts : a # c => book'[a] = book[a]
  BY <1>1, <1>2 DEF BInv, BTypes
<1>5. Settles(book[c], book'[c], billed'[c])
  <2>1. /\ book'[c].need = book[c].need /\ book'[c].scopes = book[c].scopes
        /\ book'[c].seen = report.seen /\ book'[c].known = report.known
        /\ book'[c].by = report.by
    BY <1>1, <1>4 DEF Entry
  <2> QED
    BY <1>2, <1>3, <1>4, <2>1 DEF Settles
<1> HIDE DEF c
<1> QED
  BY <1>4, <1>5

\* Each of the ways a call ends settles its attempt.
LEMMA Finishes ==
  ASSUME NEW q \in Requests, Answer(q) \/ Fail(q) \/ CancelInSlot(q) \/ Drained(q)
  PROVE  \E spent \in Nat, next \in Places : \E report \in Reports(spent) \cup {NoReport} :
           Finish(q, spent, report, next)
<1>0. Spends \subseteq Nat /\ {0} \cup Spends \subseteq Nat
  BY LedgerAssumption
<1>1. CASE Answer(q)
  BY <1>0, <1>1 DEF Answer, Places
<1>2. CASE Fail(q)
  BY <1>0, <1>2 DEF Fail, FailTo, MayBill, Places
<1>3. CASE CancelInSlot(q)
  BY <1>0, <1>3 DEF CancelInSlot, MayBill, Places
<1>4. CASE Drained(q)
  BY <1>0, <1>4 DEF Drained, MayBill, Places
<1> QED
  BY <1>1, <1>2, <1>3, <1>4

\* The actions that write the ledger.
LEMMA Writers ==
  ASSUME [Next]_vars
  PROVE  \/ UNCHANGED book
         \/ \E q \in Requests : \/ Begin(q) \/ CrashUnpriced(q)
                               \/ Answer(q) \/ Fail(q) \/ CancelInSlot(q) \/ Drained(q)
         \/ \E b \in Attempts : Resolve(b)
  BY DEF Next, vars, facts, StartRun, EndRun, Ask, Send, Drain, CancelWaiting, Retry,
     Configure, Midnight, CloseDelivery, Crash, Restart

LEMMA Keeps ==
  ASSUME BInv, [Next]_vars, NEW a \in Attempts, book[a].by # "none"
  PROVE  \/ book'[a] = book[a]
         \/ Settles(book[a], book'[a], billed'[a])
         \/ Resolves(book[a], book'[a])
<1>0. Spends \subseteq Nat /\ {0} \cup Spends \subseteq Nat
  BY LedgerAssumption
<1>1. CASE UNCHANGED book
  BY <1>1
<1>2. ASSUME NEW q \in Requests, Begin(q) PROVE book'[a] = book[a]
  <2>1. book[<<q, req[q].try>>].by = "none"
    BY <1>2 DEF Begin, BInv, OpenInSlot
  <2>2. a # <<q, req[q].try>>
    BY <2>1
  <2> QED
    BY <1>2, <2>2 DEF Begin, Current, BInv, BTypes
<1>3. ASSUME NEW q \in Requests, Answer(q) \/ Fail(q) \/ CancelInSlot(q) \/ Drained(q)
      PROVE  book'[a] = book[a] \/ Settles(book[a], book'[a], billed'[a])
  BY <1>3, Finishes, FinishSettles
<1>4. ASSUME NEW q \in Requests, CrashUnpriced(q)
      PROVE  book'[a] = book[a] \/ Settles(book[a], book'[a], billed'[a])
  <2> DEFINE c == <<q, req[q].try>>
  <2>1. PICK bill \in [AtProvider -> {0} \cup Spends] : \E report \in Reports(bill[q]) :
          Settleable(c) /\ book' = Settled(c, report) /\ LoseProcess(bill)
    BY <1>4 DEF CrashUnpriced, Current
  <2>2. PICK report \in Reports(bill[q]) :
          Settleable(c) /\ book' = Settled(c, report) /\ LoseProcess(bill)
    BY <2>1
  <2>3. c \in Attempts /\ book[c] \in Entry /\ book[c].by = "open" /\ q \in AtProvider
    BY <1>4, <2>2, AttemptOf DEF BInv, BTypes, Settleable, CrashUnpriced
  <2>4. billed'[c] = bill[q]
    <3>1. billed' = [b \in Attempts |->
                      IF \E p \in AtProvider : b = Current(p) THEN bill[b[1]] ELSE billed[b]]
      BY <2>2 DEF LoseProcess
    <3>2. c = Current(q) /\ c[1] = q
      BY DEF Current
    <3> QED
      BY <2>3, <3>1, <3>2
  <2>5. /\ report.seen \in Nat
        /\ \/ report.known = bill[q] /\ report.by = "reported"
           \/ report.known = None /\ report.by = "unknown"
    BY <1>0 DEF Reports
  <2>6. /\ book'[c] = [book[c] EXCEPT !.seen = report.seen, !.known = report.known,
                                      !.by = report.by]
        /\ \A b \in Attempts : b # c => book'[b] = book[b]
    BY <2>2, <2>3 DEF BInv, BTypes, Settled
  <2>7. Settles(book[c], book'[c], billed'[c])
    BY <2>3, <2>4, <2>5, <2>6 DEF Settles, Entry
  <2> HIDE DEF c
  <2> QED
    BY <2>6, <2>7
<1>5. ASSUME NEW b \in Attempts, Resolve(b)
      PROVE  book'[a] = book[a] \/ Resolves(book[a], book'[a])
  <2>1. PICK n \in {0} \cup Spends :
          Resolvable(b, n) /\ book' = [book EXCEPT ![b].known = n, ![b].by = "user"]
    BY <1>5 DEF Resolve
  <2>2. /\ book[b] \in Entry /\ book[b].by # "none"
        /\ book[b].known = None /\ n >= book[b].seen
    BY <2>1 DEF Resolvable, Reserved, BInv, BTypes
  <2>3. /\ book'[b] = [book[b] EXCEPT !.known = n, !.by = "user"]
        /\ a # b => book'[a] = book[a]
    BY <2>1 DEF BInv, BTypes
  <2> QED
    BY <2>2, <2>3 DEF Resolves, Entry
<1> QED
  BY <1>1, <1>2, <1>3, <1>4, <1>5, Writers

LEMMA ChargeShrinks ==
  ASSUME BInv, BInv', NEW a \in Attempts,
         \/ book'[a] = book[a]
         \/ Settles(book[a], book'[a], billed'[a])
         \/ Resolves(book[a], book'[a]),
         Charge(book'[a]) < Charge(book[a])
  PROVE  \/ book'[a].by = "reported" /\ book'[a].known = billed'[a]
         \/ book'[a].by = "user" /\ book'[a].known >= book[a].seen
<1>1. book[a] \in Entry /\ book'[a] \in Entry
  BY DEF BInv, BTypes
<1>2. Charge(book[a]) \in Nat
  <2>1. Max({book[a].need, book[a].seen}) \in Nat
    BY <1>1, MaxPair DEF Entry
  <2> QED
    BY <1>1, <2>1 DEF Charge, Entry, Limits
<1>3. CASE book'[a] = book[a]
  BY <1>2, <1>3
<1>4. CASE Settles(book[a], book'[a], billed'[a])
  <2>1. CASE book'[a].by = "unknown"
    <3>1. book[a].known = None /\ book[a].seen = 0 /\ book'[a].known = None
      BY <1>4, <2>1 DEF Settles, BInv, Unsettled
    <3>2. book[a].need \in Nat /\ book'[a].need = book[a].need /\ book'[a].seen \in Nat
      BY <1>1, <1>4 DEF Settles, Entry
    <3>3. Max({book[a].need, 0}) \in {book[a].need, 0} /\ Max({book[a].need, 0}) >= book[a].need
      BY <3>2, MaxPair
    <3>4. Max({book[a].need, 0}) = book[a].need
      BY <3>2, <3>3
    <3>5. Charge(book[a]) = book[a].need
      BY <3>1, <3>4 DEF Charge
    <3>6. Charge(book'[a]) >= book[a].need /\ Charge(book'[a]) \in Nat
      <4>1. /\ Max({book'[a].need, book'[a].seen}) \in Nat
            /\ Max({book'[a].need, book'[a].seen}) >= book'[a].need
        BY <3>2, MaxPair
      <4> QED
        BY <3>1, <3>2, <4>1 DEF Charge
    <3> QED
      BY <3>2, <3>5, <3>6
  <2> QED
    BY <1>4, <2>1 DEF Settles
<1>5. CASE Resolves(book[a], book'[a])
  BY <1>5 DEF Resolves
<1> QED
  BY <1>3, <1>4, <1>5

\* No reservation is lost or altered, no known amount changes, and a charge only
\* shrinks to the true bill or to a person's figure (budgets.TokenBudget.settle,
\* resolve and _projection).
THEOREM HoldsKept == Spec => HoldsAreKept
<1>1. ASSUME BInv, BInv', [Next]_vars
      PROVE  \A a \in Reserved(book) :
               /\ a \in Reserved(book') /\ book'[a].need = book[a].need /\ book'[a].scopes = book[a].scopes
               /\ book[a].known # None => book'[a] = book[a]
               /\ Charge(book'[a]) < Charge(book[a]) =>
                    \/ book'[a].by = "reported" /\ book'[a].known = billed'[a]
                    \/ book'[a].by = "user" /\ book'[a].known >= book[a].seen
  <2> SUFFICES ASSUME NEW a \in Reserved(book)
      PROVE    /\ a \in Reserved(book') /\ book'[a].need = book[a].need /\ book'[a].scopes = book[a].scopes
               /\ book[a].known # None => book'[a] = book[a]
               /\ Charge(book'[a]) < Charge(book[a]) =>
                    \/ book'[a].by = "reported" /\ book'[a].known = billed'[a]
                    \/ book'[a].by = "user" /\ book'[a].known >= book[a].seen
    OBVIOUS
  <2>1. a \in Attempts /\ book[a].by # "none"
    BY DEF Reserved
  <2>2. \/ book'[a] = book[a]
        \/ Settles(book[a], book'[a], billed'[a])
        \/ Resolves(book[a], book'[a])
    BY <1>1, <2>1, Keeps
  <2>3. /\ book'[a].by # "none"
        /\ book'[a].need = book[a].need /\ book'[a].scopes = book[a].scopes
    BY <2>1, <2>2 DEF Settles, Resolves
  <2>4. book[a].known # None => book'[a] = book[a]
    <3>1. book[a].by = "open" => book[a].known = None
      BY <1>1, <2>1 DEF BInv, Unsettled
    <3> QED
      BY <2>2, <3>1 DEF Settles, Resolves
  <2>5. Charge(book'[a]) < Charge(book[a]) =>
          \/ book'[a].by = "reported" /\ book'[a].known = billed'[a]
          \/ book'[a].by = "user" /\ book'[a].known >= book[a].seen
    BY <1>1, <2>1, <2>2, ChargeShrinks
  <2> QED
    BY <2>1, <2>3, <2>4, <2>5 DEF Reserved
<1> QED
  BY LedgerInvariant, <1>1, PTL DEF Spec, HoldsAreKept

(***************************************************************************)
(* Bills, estimates and limits.  BillInv adds to BInv what the estimates   *)
(* and the providers' bills have to do with the entries, and that the      *)
(* limits in force are the newest.                                         *)
(***************************************************************************)
CTypes ==
  /\ cost \in [Attempts -> [usage : Nat, complete : BOOLEAN] \cup {None}]
  /\ limits \in [Buckets -> Limits] /\ applied \in Seq(Configs)

\* An attempt that was not reserved bills nothing, one that is open has no
\* estimate, a reported amount is the bill, and so is a complete estimate.
Billing ==
  \A a \in Attempts :
    /\ book[a].by = "none" => billed[a] = 0 /\ cost[a] = None
    /\ book[a].by = "open" => cost[a] = None
    /\ book[a].by = "reported" => book[a].known = billed[a]
    /\ cost[a] # None => cost[a].usage \in Nat
    /\ cost[a] # None /\ cost[a].complete => cost[a].usage = billed[a]

InForce == \A s \in Buckets : limits[s] = NewestLimit(s)

BillInv == BInv /\ CTypes /\ Billing /\ InForce

\* What a step may do to the entry, the bill and the estimate of an attempt:
\* nothing, a reservation, a settlement, a resolution, or the bill of a call
\* that was lost with the process.
Bills(a) ==
  \/ book'[a] = book[a] /\ billed'[a] = billed[a] /\ cost'[a] = cost[a]
  \/ /\ \E q \in Requests : Begin(q)
     /\ book[a].by = "none" /\ book'[a].by = "open"
     /\ billed'[a] = billed[a] /\ cost'[a] = cost[a]
  \/ /\ Settles(book[a], book'[a], billed'[a])
     /\ \/ cost'[a] = cost[a]
        \/ cost'[a] = [usage |-> IF book'[a].known # None THEN book'[a].known ELSE book'[a].seen,
                       complete |-> book'[a].known # None]
  \/ Resolves(book[a], book'[a]) /\ billed'[a] = billed[a] /\ cost'[a] = cost[a]
  \/ book[a].by = "open" /\ book'[a] = book[a] /\ cost'[a] = cost[a]

LEMMA FinishBills ==
  ASSUME BInv, CTypes, NEW q \in Requests, NEW spent \in Nat, NEW report, NEW next,
         report \in Reports(spent) \cup {NoReport}, Finish(q, spent, report, next)
  PROVE  CTypes' /\ \A a \in Attempts : Bills(a)
<1> DEFINE c == <<q, req[q].try>>
<1>1. c \in Attempts /\ book[c] \in Entry
  BY AttemptOf DEF BInv, BTypes
<1>2. /\ book[c].by = "open"
      /\ book' = [book EXCEPT ![c].seen = report.seen, ![c].known = report.known,
                              ![c].by = report.by]
      /\ billed' = [billed EXCEPT ![c] = spent]
      /\ cost' = [cost EXCEPT ![c] = Estimate(report)]
      /\ UNCHANGED <<limits, applied>>
  BY DEF Finish, Settleable, Settled, Current
<1>3. /\ report.seen \in Nat
      /\ \/ report.known = spent /\ report.by = "reported"
         \/ report.known = None /\ report.by = "unknown"
  BY LedgerAssumption DEF Reports, NoReport
<1>4. /\ book'[c] = [book[c] EXCEPT !.seen = report.seen, !.known = report.known, !.by = report.by]
      /\ billed'[c] = spent /\ cost'[c] = Estimate(report)
      /\ \A a \in Attempts : a # c => /\ book'[a] = book[a] /\ billed'[a] = billed[a]
                                      /\ cost'[a] = cost[a]
  BY <1>1, <1>2 DEF BInv, BTypes, CTypes
<1>5. Bills(c)
  <2>1. /\ book'[c].need = book[c].need /\ book'[c].scopes = book[c].scopes
        /\ book'[c].seen = report.seen /\ book'[c].known = report.known
        /\ book'[c].by = report.by
    BY <1>1, <1>4 DEF Entry
  <2>2. Settles(book[c], book'[c], billed'[c])
    BY <1>2, <1>3, <1>4, <2>1 DEF Settles
  <2>3. cost'[c] = [usage |-> IF book'[c].known # None THEN book'[c].known ELSE book'[c].seen,
                    complete |-> book'[c].known # None]
    BY <1>4, <2>1 DEF Estimate
  <2> QED
    BY <2>2, <2>3 DEF Bills
<1>6. CTypes'
  <2>1. Estimate(report) \in [usage : Nat, complete : BOOLEAN]
    BY <1>3 DEF Estimate
  <2> QED
    BY <1>1, <1>2, <2>1 DEF CTypes
<1> HIDE DEF c
<1> QED
  BY <1>4, <1>5, <1>6 DEF Bills

\* A call that is lost with the process was open; the bill of no other changes.
LEMMA LostBills ==
  ASSUME BInv, NEW bill \in [AtProvider -> Nat], LoseProcess(bill), NEW a \in Attempts
  PROVE  billed'[a] = billed[a] \/ book[a].by = "open"
<1>1. billed' = [b \in Attempts |->
                  IF \E p \in AtProvider : b = Current(p) THEN bill[b[1]] ELSE billed[b]]
  BY DEF LoseProcess
<1>2. ASSUME NEW p \in AtProvider PROVE book[Current(p)].by = "open"
  BY DEF AtProvider, Current, BInv, OpenInSlot
<1> QED
  BY <1>1, <1>2

LEMMA CrashUnpricedBills ==
  ASSUME BInv, CTypes, NEW q \in Requests, CrashUnpriced(q)
  PROVE  \A a \in Attempts : Bills(a)
<1> DEFINE c == <<q, req[q].try>>
<1>1. PICK bill \in [AtProvider -> {0} \cup Spends] : \E report \in Reports(bill[q]) :
        Settleable(c) /\ book' = Settled(c, report) /\ LoseProcess(bill)
  BY DEF CrashUnpriced, Current
<1>2. PICK report \in Reports(bill[q]) :
        Settleable(c) /\ book' = Settled(c, report) /\ LoseProcess(bill)
  BY <1>1
<1>3. c \in Attempts /\ book[c] \in Entry /\ book[c].by = "open" /\ q \in AtProvider
  BY <1>2, AttemptOf DEF BInv, BTypes, Settleable, CrashUnpriced
<1>4. Spends \subseteq Nat /\ {0} \cup Spends \subseteq Nat
  BY LedgerAssumption
<1>5. bill \in [AtProvider -> Nat]
  BY <1>4
<1>6. billed'[c] = bill[q]
  <2>1. billed' = [b \in Attempts |->
                    IF \E p \in AtProvider : b = Current(p) THEN bill[b[1]] ELSE billed[b]]
    BY <1>2 DEF LoseProcess
  <2>2. c = Current(q) /\ c[1] = q
    BY DEF Current
  <2> QED
    BY <1>3, <2>1, <2>2
<1>7. /\ report.seen \in Nat
      /\ \/ report.known = bill[q] /\ report.by = "reported"
         \/ report.known = None /\ report.by = "unknown"
  BY <1>4 DEF Reports
<1>8. /\ book'[c] = [book[c] EXCEPT !.seen = report.seen, !.known = report.known,
                                    !.by = report.by]
      /\ \A a \in Attempts : a # c => book'[a] = book[a]
  BY <1>2, <1>3 DEF BInv, BTypes, Settled
<1>9. Settles(book[c], book'[c], billed'[c]) /\ UNCHANGED cost
  BY <1>3, <1>6, <1>7, <1>8 DEF Settles, Entry, CrashUnpriced
<1>10. ASSUME NEW a \in Attempts, a # c PROVE Bills(a)
  <2>1. billed'[a] = billed[a] \/ book[a].by = "open"
    BY <1>2, <1>5, LostBills
  <2> QED
    BY <1>8, <1>9, <1>10, <2>1 DEF Bills
<1> HIDE DEF c
<1> QED
  BY <1>9, <1>10 DEF Bills

LEMMA BeginBills ==
  ASSUME BInv, NEW q \in Requests, Begin(q)
  PROVE  \A a \in Attempts : Bills(a)
<1>1. book[<<q, req[q].try>>].by = "none"
  BY DEF Begin, BInv, OpenInSlot
<1>2. UNCHANGED <<billed, cost>>
  BY DEF Begin
<1>3. \/ UNCHANGED book
      \/ \E n \in Sizes : book' = [book EXCEPT ![<<q, req[q].try>>] = Reservation(q, n)]
  BY DEF Begin, Current
<1>4. CASE UNCHANGED book
  BY <1>2, <1>4 DEF Bills
<1>5. ASSUME NEW n \in Sizes, book' = [book EXCEPT ![<<q, req[q].try>>] = Reservation(q, n)]
      PROVE  \A a \in Attempts : Bills(a)
  <2>1. Reservation(q, n).by = "open"
    BY DEF Reservation
  <2>2. <<q, req[q].try>> \in Attempts
    BY AttemptOf DEF BInv, BTypes
  <2> QED
    BY <1>1, <1>2, <1>5, <2>1, <2>2 DEF Bills, BInv, BTypes
<1> QED
  BY <1>3, <1>4, <1>5

LEMMA ResolveBills ==
  ASSUME BInv, NEW b \in Attempts, Resolve(b)
  PROVE  \A a \in Attempts : Bills(a)
<1>1. PICK n \in {0} \cup Spends :
        Resolvable(b, n) /\ book' = [book EXCEPT ![b].known = n, ![b].by = "user"]
  BY DEF Resolve
<1>2. /\ book[b] \in Entry /\ book[b].by # "none"
      /\ book[b].known = None /\ n >= book[b].seen
  BY <1>1 DEF Resolvable, Reserved, BInv, BTypes
<1>3. /\ book'[b] = [book[b] EXCEPT !.known = n, !.by = "user"]
      /\ \A a \in Attempts : a # b => book'[a] = book[a]
  BY <1>1 DEF BInv, BTypes
<1>4. Resolves(book[b], book'[b])
  BY <1>2, <1>3 DEF Resolves, Entry
<1>5. UNCHANGED <<billed, cost>>
  BY DEF Resolve
<1> QED
  BY <1>3, <1>4, <1>5 DEF Bills

\* Configure is the one step that changes a limit.
LEMMA LimitsStep ==
  ASSUME [Next]_vars
  PROVE  \/ UNCHANGED <<limits, applied>>
         \/ \E c \in Configs : Configure(c)
  BY DEF Next, vars, facts, StartRun, EndRun, Ask, Begin, Send, Drain, CancelWaiting, Retry,
     Answer, Fail, CancelInSlot, Drained, Finish, Midnight, CloseDelivery, Crash, CrashUnpriced,
     Restart, Resolve

LEMMA StepBills ==
  ASSUME BInv, CTypes, [Next]_vars
  PROVE  CTypes' /\ \A a \in Attempts : Bills(a)
<1>1. CASE \E q \in Requests : Answer(q) \/ Fail(q) \/ CancelInSlot(q) \/ Drained(q)
  BY <1>1, Finishes, FinishBills
<1>2. CASE \E q \in Requests : Begin(q)
  BY <1>2, BeginBills DEF CTypes, Begin
<1>3. CASE \E q \in Requests : CrashUnpriced(q)
  BY <1>3, CrashUnpricedBills DEF CTypes, CrashUnpriced
<1>4. CASE \E b \in Attempts : Resolve(b)
  BY <1>4, ResolveBills DEF CTypes, Resolve
<1>5. CASE Crash
  <2>1. PICK bill \in [AtProvider -> {0} \cup Spends] : LoseProcess(bill)
    BY <1>5 DEF Crash
  <2>2. {0} \cup Spends \subseteq Nat
    BY LedgerAssumption
  <2>3. bill \in [AtProvider -> Nat]
    BY <2>2
  <2>4. UNCHANGED <<book, cost, limits, applied>>
    BY <1>5 DEF Crash, facts
  <2> QED
    BY <2>1, <2>3, <2>4, LostBills DEF Bills, CTypes
<1>6. CASE \E c \in Configs : Configure(c)
  <2>1. PICK c \in Configs : Configure(c)
    BY <1>6
  <2>2. /\ limits' = [limits EXCEPT ![ConfigOf[c].scope] = ConfigOf[c].limit]
        /\ applied' = Append(applied, c) /\ UNCHANGED <<book, cost, billed>>
    BY <2>1 DEF Configure
  <2>3. ConfigOf[c].limit \in Limits
    BY LedgerAssumption
  <2>4. limits' \in [Buckets -> Limits]
    BY <2>2, <2>3 DEF CTypes
  <2>5. applied' \in Seq(Configs)
    BY <2>2 DEF CTypes
  <2> QED
    BY <2>2, <2>4, <2>5 DEF CTypes, Bills
<1>7. CASE UNCHANGED <<book, cost, limits, applied, billed>>
  BY <1>7 DEF CTypes, Bills
<1> QED
  BY <1>1, <1>2, <1>3, <1>4, <1>5, <1>6, <1>7 DEF Next, vars, facts, StartRun, EndRun, Ask,
     Send, Drain, CancelWaiting, Retry, Midnight, CloseDelivery, Restart

LEMMA BillingStep ==
  ASSUME BInv, BInv', CTypes', Billing, NEW a \in Attempts, Bills(a)
  PROVE  /\ book'[a].by = "none" => billed'[a] = 0 /\ cost'[a] = None
         /\ book'[a].by = "open" => cost'[a] = None
         /\ book'[a].by = "reported" => book'[a].known = billed'[a]
         /\ cost'[a] # None => cost'[a].usage \in Nat
         /\ cost'[a] # None /\ cost'[a].complete => cost'[a].usage = billed'[a]
<1>0. cost'[a] # None => cost'[a].usage \in Nat
  BY DEF CTypes
<1>1. CASE book'[a] = book[a] /\ billed'[a] = billed[a] /\ cost'[a] = cost[a]
  BY <1>0, <1>1 DEF Billing
<1>2. CASE /\ book[a].by = "none" /\ book'[a].by = "open"
           /\ billed'[a] = billed[a] /\ cost'[a] = cost[a]
  BY <1>0, <1>2 DEF Billing
<1>3. CASE /\ Settles(book[a], book'[a], billed'[a])
           /\ \/ cost'[a] = cost[a]
              \/ cost'[a] = [usage |-> IF book'[a].known # None THEN book'[a].known
                                       ELSE book'[a].seen,
                             complete |-> book'[a].known # None]
  <2>1. /\ \/ book'[a].by = "reported" /\ book'[a].known = billed'[a]
           \/ book'[a].by = "unknown" /\ book'[a].known = None
        /\ cost[a] = None
    BY <1>3 DEF Settles, Billing
  <2>2. cost'[a] # None => /\ cost'[a].complete <=> book'[a].known # None
                           /\ book'[a].known # None => cost'[a].usage = book'[a].known
    <3>1. CASE cost'[a] = cost[a]
      BY <2>1, <3>1
    <3>2. CASE cost'[a] = [usage |-> IF book'[a].known # None THEN book'[a].known
                                     ELSE book'[a].seen,
                           complete |-> book'[a].known # None]
      <4>1. cost'[a].complete = (book'[a].known # None)
        BY <3>2
      <4>2. book'[a].known # None => cost'[a].usage = book'[a].known
        BY <3>2
      <4> QED
        BY <4>1, <4>2
    <3> QED
      BY <1>3, <3>1, <3>2
  <2> QED
    BY <1>0, <2>1, <2>2
<1>4. CASE Resolves(book[a], book'[a]) /\ billed'[a] = billed[a] /\ cost'[a] = cost[a]
  BY <1>0, <1>4 DEF Resolves, Billing
<1>5. CASE book[a].by = "open" /\ book'[a] = book[a] /\ cost'[a] = cost[a]
  BY <1>0, <1>5 DEF Billing
<1> QED
  BY <1>1, <1>2, <1>3, <1>4, <1>5 DEF Bills

\* The positions of a bucket's configurations, and the newest of them.
Positions(s) == {i \in 1 .. Len(applied) : ConfigOf[applied[i]].scope = s}

LEMMA NewestPosition ==
  ASSUME CTypes, NEW s, Positions(s) # {}
  PROVE  Max(Positions(s)) \in Positions(s)
<1>1. Len(applied) \in Nat
  BY DEF CTypes
<1>2. IsFiniteSet(1 .. Len(applied))
  BY <1>1, FS_Interval
<1>3. Positions(s) \in SUBSET (1 .. Len(applied))
  BY DEF Positions
<1>4. IsFiniteSet(Positions(s)) /\ Positions(s) \in SUBSET Int
  BY <1>2, <1>3, FS_Subset
<1> QED
  BY <1>4, MaxExists

LEMMA InForceStep == ASSUME CTypes, InForce, [Next]_vars PROVE InForce'
<1>1. CASE UNCHANGED <<limits, applied>>
  BY <1>1 DEF InForce, NewestLimit
<1>2. ASSUME NEW c \in Configs, Configure(c), NEW s \in Buckets
      PROVE  limits'[s] = NewestLimit(s)'
  <2> DEFINE n == Len(applied) + 1
             Of == {i \in 1 .. Len(applied') : ConfigOf[applied'[i]].scope = s}
  <2>1. /\ limits' = [limits EXCEPT ![ConfigOf[c].scope] = ConfigOf[c].limit]
        /\ applied' = Append(applied, c)
    BY <1>2 DEF Configure
  <2>2. /\ Len(applied) \in Nat /\ Len(applied') = n /\ applied'[n] = c
        /\ \A i \in 1 .. Len(applied) : applied'[i] = applied[i]
    BY <2>1 DEF CTypes
  <2>3. NewestLimit(s)' = IF Of = {} THEN StartLimits[s] ELSE ConfigOf[applied'[Max(Of)]].limit
    BY DEF NewestLimit
  <2>4. CASE ConfigOf[c].scope = s
    <3>1. Of \in SUBSET Int /\ n \in Of /\ \A i \in Of : n >= i
      BY <2>2, <2>4
    <3> HIDE DEF Of, n
    <3>2. Max(Of) = n /\ Of # {}
      BY <3>1, MaxIs
    <3> QED
      BY <2>1, <2>2, <2>3, <2>4, <3>2 DEF CTypes
  <2>5. CASE ConfigOf[c].scope # s
    <3>1. Of = Positions(s)
      BY <2>2, <2>5 DEF Positions
    <3>2. Positions(s) # {} => applied'[Max(Positions(s))] = applied[Max(Positions(s))]
      BY <2>2, NewestPosition DEF Positions
    <3>3. NewestLimit(s)' = NewestLimit(s)
      <4> HIDE DEF Of
      <4> QED
        BY <2>3, <3>1, <3>2 DEF NewestLimit, Positions
    <3>4. limits'[s] = limits[s]
      BY <2>1, <2>5 DEF CTypes
    <3> QED
      BY <3>3, <3>4 DEF InForce
  <2> QED
    BY <2>4, <2>5
<1> QED
  BY <1>1, <1>2, LimitsStep DEF InForce

LEMMA BillInvInit == ASSUME Init PROVE BillInv
<1>1. BInv
  BY BInvInit
<1>2. CTypes
  BY LedgerAssumption DEF Init, CTypes
<1>3. Billing
  BY DEF Init, Billing, Nothing
<1>4. InForce
  <2>1. Len(applied) = 0 /\ limits = StartLimits
    BY DEF Init
  <2>2. \A s \in Buckets : NewestLimit(s) = StartLimits[s]
    BY <2>1 DEF NewestLimit
  <2> QED
    BY <2>1, <2>2 DEF InForce
<1> QED
  BY <1>1, <1>2, <1>3, <1>4 DEF BillInv

\* In every reachable state a reported amount and a complete estimate are what
\* the provider billed, and the limits in force are those accepted last.
THEOREM BillsInvariant == Spec => []BillInv
<1>1. ASSUME BillInv, [Next]_vars PROVE BillInv'
  <2>1. BInv /\ CTypes /\ Billing /\ InForce
    BY <1>1 DEF BillInv
  <2>2. BInv' /\ CTypes' /\ InForce' /\ \A a \in Attempts : Bills(a)
    BY <1>1, <2>1, BInvStep, StepBills, InForceStep
  <2>3. Billing'
    BY <2>1, <2>2, BillingStep DEF Billing
  <2> QED
    BY <2>2, <2>3 DEF BillInv
<1> QED
  BY <1>1, BillInvInit, PTL DEF Spec

(***************************************************************************)
(* The ceiling.  What an attempt may still cost its buckets, Claimed, is   *)
(* the whole reservation while it is open and the part of the bill that is *)
(* accounted for after that: it only shrinks, it is never more than what   *)
(* the ledger counts, so the reservation that fits the ledger fits it too. *)
(***************************************************************************)
Claimed(a) == IF book[a].by = "open" THEN book[a].need ELSE Accountable(a)
Claims == [a \in Attempts |-> Claimed(a)]

ClaimsFit ==
  \A s \in Buckets :
    Ceiling(s) # None => SumFunctionOnSet(Claims, Holders(book, s)) <= Ceiling(s)

LEMMA AccountOf ==
  ASSUME NEW e \in Entry, NEW b \in Nat, e.by = "user" => e.known \in Nat,
         NEW m, m = Min({b, e.need} \cup IF e.by = "user" THEN {e.known} ELSE {})
  PROVE  /\ m \in Nat /\ m <= b /\ m <= e.need
         /\ e.by = "user" => m <= e.known
         /\ m \in {b, e.need} \/ (e.by = "user" /\ m = e.known)
<1>1. b \in Nat /\ e.need \in Nat
  BY DEF Entry
<1>2. CASE e.by = "user"
  <2> DEFINE S == {b, e.need, e.known}
  <2>1. e.known \in Nat /\ m = Min(S)
    <3>1. {b, e.need} \cup {e.known} = S
      OBVIOUS
    <3> QED
      BY <1>2, <3>1
  <2>2. \E k \in S : \A y \in S : k <= y
    <3>1. \/ b <= e.need /\ b <= e.known
          \/ e.need <= b /\ e.need <= e.known
          \/ e.known <= b /\ e.known <= e.need
      BY <1>1, <2>1
    <3>2. b <= b /\ e.need <= e.need /\ e.known <= e.known
      BY <1>1, <2>1
    <3> QED
      BY <3>1, <3>2
  <2>3. S \in SUBSET Int
    BY <1>1, <2>1
  <2>4. m \in S /\ \A y \in S : m <= y
    <3>1. PICK k \in S : \A y \in S : k <= y
      BY <2>2
    <3> HIDE DEF S
    <3>2. Min(S) \in S /\ \A y \in S : Min(S) <= y
      BY <2>3, <3>1, MinOf
    <3> QED
      BY <2>1, <3>2
  <2> QED
    BY <1>1, <1>2, <2>1, <2>4
<1>3. CASE e.by # "user"
  <2> DEFINE S == {b, e.need}
  <2>1. m = Min(S)
    BY <1>3
  <2>2. \E k \in S : \A y \in S : k <= y
    <3>1. (b <= e.need \/ e.need <= b) /\ b <= b /\ e.need <= e.need
      BY <1>1
    <3> QED
      BY <3>1
  <2>3. S \in SUBSET Int
    BY <1>1
  <2>4. m \in S /\ \A y \in S : m <= y
    <3>1. PICK k \in S : \A y \in S : k <= y
      BY <2>2
    <3> HIDE DEF S
    <3>2. Min(S) \in S /\ \A y \in S : Min(S) <= y
      BY <2>3, <3>1, MinOf
    <3> QED
      BY <2>1, <3>2
  <2> QED
    BY <1>1, <1>3, <2>4
<1> QED
  BY <1>2, <1>3

LEMMA ChargeType ==
  ASSUME NEW e \in Entry
  PROVE  /\ Charge(e) \in Nat
         /\ e.known = None => Charge(e) >= e.need
         /\ e.known = None /\ e.seen = 0 => Charge(e) = e.need
         /\ e.known # None => Charge(e) = e.known
<1>1. e.need \in Nat /\ e.seen \in Nat /\ (e.known # None => e.known \in Nat)
  BY DEF Entry, Limits
<1>2. /\ Max({e.need, e.seen}) \in Nat /\ Max({e.need, e.seen}) >= e.need
      /\ Max({e.need, e.seen}) \in {e.need, e.seen}
  BY <1>1, MaxPair
<1> QED
  BY <1>1, <1>2 DEF Charge

LEMMA ClaimBounds ==
  ASSUME BillInv, NEW a \in Attempts
  PROVE  /\ Claimed(a) \in Nat /\ Accountable(a) \in Nat /\ Accountable(a) <= Claimed(a)
         /\ book[a].by # "none" => Claimed(a) <= Charge(book[a])
         /\ Charge(book[a]) \in Nat
<1>1. book[a] \in Entry /\ billed[a] \in Nat /\ (book[a].by = "user" => book[a].known \in Nat)
  BY DEF BillInv, BInv, BTypes, Unsettled
<1>2. /\ Accountable(a) \in Nat /\ Accountable(a) <= billed[a] /\ Accountable(a) <= book[a].need
      /\ book[a].by = "user" => Accountable(a) <= book[a].known
  BY <1>1, AccountOf DEF Accountable
<1>3. /\ Charge(book[a]) \in Nat
      /\ book[a].known = None => Charge(book[a]) >= book[a].need
      /\ book[a].known # None => Charge(book[a]) = book[a].known
  BY <1>1, ChargeType
<1>4. /\ book[a].need \in Nat
      /\ book[a].by \in {"none", "open", "unknown", "reported", "user"}
  BY <1>1 DEF Entry
<1>5. Claimed(a) \in Nat /\ Accountable(a) <= Claimed(a) /\ Claimed(a) <= book[a].need
  BY <1>2, <1>4 DEF Claimed
<1>6. ASSUME book[a].by # "none" PROVE Claimed(a) <= Charge(book[a])
  <2>1. CASE book[a].by \in {"open", "unknown"}
    <3>1. book[a].known = None
      BY <2>1 DEF BillInv, BInv, Unsettled
    <3> QED
      BY <1>3, <1>4, <1>5, <3>1
  <2>2. CASE book[a].by = "reported"
    <3>1. book[a].known = billed[a] /\ book[a].known # None
      BY <1>1, <2>2, LedgerAssumption DEF BillInv, Billing
    <3> QED
      BY <1>2, <1>3, <2>2, <3>1 DEF Claimed
  <2>3. CASE book[a].by = "user"
    <3>1. book[a].known # None
      BY <1>1, <2>3, LedgerAssumption
    <3> QED
      BY <1>2, <1>3, <2>3, <3>1 DEF Claimed
  <2> QED
    BY <1>4, <1>6, <2>1, <2>2, <2>3
<1> QED
  BY <1>2, <1>3, <1>5, <1>6

\* The claim after a step.
LEMMA ClaimNext ==
  ASSUME BInv', NEW a \in Attempts
  PROVE  /\ Accountable(a)' = Min({billed'[a], book'[a].need}
                                \cup IF book'[a].by = "user" THEN {book'[a].known} ELSE {})
         /\ Accountable(a)' \in Nat /\ Accountable(a)' <= billed'[a]
         /\ Accountable(a)' <= book'[a].need
         /\ Claimed(a)' = IF book'[a].by = "open" THEN book'[a].need ELSE Accountable(a)'
         /\ Claimed(a)' \in Nat
<1>1. /\ book'[a] \in Entry /\ billed'[a] \in Nat /\ book'[a].need \in Nat
      /\ book'[a].by = "user" => book'[a].known \in Nat
  BY DEF BInv, BTypes, Unsettled, Entry
<1>2. Accountable(a)' = Min({billed'[a], book'[a].need}
                              \cup IF book'[a].by = "user" THEN {book'[a].known} ELSE {})
  BY DEF Accountable
<1>3. /\ Accountable(a)' \in Nat /\ Accountable(a)' <= billed'[a]
      /\ Accountable(a)' <= book'[a].need
  BY <1>1, <1>2, AccountOf
<1> QED
  BY <1>1, <1>2, <1>3 DEF Claimed

\* A claim never grows.
LEMMA ClaimShrinks ==
  ASSUME BillInv, BillInv', NEW a \in Attempts, Bills(a), book[a].by # "none"
  PROVE  /\ Claimed(a)' <= Claimed(a)
         /\ book'[a].by # "none" /\ book'[a].scopes = book[a].scopes
<1>1. book[a] \in Entry /\ billed[a] \in Nat /\ (book[a].by = "user" => book[a].known \in Nat)
  BY DEF BillInv, BInv, BTypes, Unsettled
<1>3. Claimed(a) \in Nat /\ Accountable(a) \in Nat
  BY ClaimBounds
<1>4. Accountable(a)' = Min({billed'[a], book'[a].need}
                              \cup IF book'[a].by = "user" THEN {book'[a].known} ELSE {})
  BY ClaimNext DEF BillInv
<1>5. /\ Accountable(a)' \in Nat /\ Accountable(a)' <= billed'[a]
      /\ Accountable(a)' <= book'[a].need
  BY ClaimNext DEF BillInv
<1>6. Claimed(a)' = IF book'[a].by = "open" THEN book'[a].need ELSE Accountable(a)'
  BY ClaimNext DEF BillInv
<1>7. book[a].need \in Nat
  BY <1>1 DEF Entry
<1>8. CASE book'[a] = book[a] /\ billed'[a] = billed[a]
  <2>1. Claimed(a)' = Claimed(a)
    BY <1>4, <1>6, <1>8 DEF Claimed, Accountable
  <2> QED
    BY <1>3, <1>8, <2>1
<1>9. CASE Settles(book[a], book'[a], billed'[a])
  <2>1. /\ book[a].by = "open" /\ book'[a].need = book[a].need
        /\ book'[a].scopes = book[a].scopes /\ book'[a].by \in {"reported", "unknown"}
    BY <1>9 DEF Settles
  <2> QED
    BY <1>5, <1>6, <1>7, <2>1 DEF Claimed
<1>10. CASE Resolves(book[a], book'[a]) /\ billed'[a] = billed[a]
  <2>1. /\ book[a].known = None /\ book'[a].by = "user" /\ book'[a].need = book[a].need
        /\ book'[a].scopes = book[a].scopes
    BY <1>10 DEF Resolves
  <2>2. book[a].by # "user"
    BY <1>1, <2>1, LedgerAssumption
  <2>3. Accountable(a) \in {billed[a], book[a].need}
    BY <1>1, <2>2, AccountOf DEF Accountable
  <2>4. Claimed(a)' <= billed[a] /\ Claimed(a)' <= book[a].need
    BY <1>5, <1>6, <1>10, <2>1
  <2> QED
    BY <2>1, <2>3, <2>4 DEF Claimed
<1>11. CASE book[a].by = "open" /\ book'[a] = book[a]
  BY <1>6, <1>7, <1>11 DEF Claimed
<1> QED
  BY <1>8, <1>9, <1>10, <1>11 DEF Bills

(***************************************************************************)
(* The limits a bucket ever had, and the highest of them.                  *)
(***************************************************************************)
Ever(log, s) ==
  {StartLimits[s]} \cup {ConfigOf[c].limit : c \in {d \in Range(log) : ConfigOf[d].scope = s}}
Highest(log, s) == IF None \in Ever(log, s) THEN None ELSE Max(Ever(log, s))

LEMMA CeilingIs ==
  \A s : Ceiling(s) = Highest(applied, s) /\ Ceiling(s)' = Highest(applied', s)
  BY DEF Ceiling, Highest, EverLimits, Ever

LEMMA EverFinite ==
  ASSUME NEW log \in Seq(Configs), NEW s \in Buckets
  PROVE  IsFiniteSet(Ever(log, s)) /\ Ever(log, s) \subseteq Limits /\ Ever(log, s) # {}
<1> DEFINE D == 1 .. Len(log)
           h == [i \in D |-> ConfigOf[log[i]].limit]
           T == {ConfigOf[log[i]].limit : i \in D}
<1>1. Len(log) \in Nat /\ DOMAIN log = D /\ \A i \in D : log[i] \in Configs
  OBVIOUS
<1>2. IsFiniteSet(D)
  BY <1>1, FS_Interval
<1>3. h \in Surjection(D, T)
  <2>1. h \in [D -> T]
    OBVIOUS
  <2>2. \A t \in T : \E i \in D : h[i] = t
    OBVIOUS
  <2> HIDE DEF D, h, T
  <2> QED
    BY <2>1, <2>2 DEF Surjection
<1> HIDE DEF h
<1>4. IsFiniteSet(T)
  BY <1>2, <1>3, FS_Surjection
<1>5. Ever(log, s) \subseteq T \cup {StartLimits[s]} /\ Ever(log, s) # {}
  BY <1>1 DEF Ever, Range
<1>6. T \subseteq Limits /\ StartLimits[s] \in Limits
  BY <1>1, LedgerAssumption
<1>7. IsFiniteSet(T \cup {StartLimits[s]})
  BY <1>4, FS_AddElement
<1> QED
  BY <1>5, <1>6, <1>7, FS_Subset

LEMMA HighestBounds ==
  ASSUME NEW log \in Seq(Configs), NEW s \in Buckets
  PROVE  IF None \in Ever(log, s)
         THEN Highest(log, s) = None
         ELSE /\ Highest(log, s) \in Nat /\ Highest(log, s) # None
              /\ \A l \in Ever(log, s) : l \in Nat /\ l <= Highest(log, s)
<1>1. CASE None \in Ever(log, s)
  BY <1>1 DEF Highest
<1>2. CASE None \notin Ever(log, s)
  <2>1. Highest(log, s) = Max(Ever(log, s))
    BY <1>2 DEF Highest
  <2>2. Ever(log, s) \subseteq Nat /\ IsFiniteSet(Ever(log, s)) /\ Ever(log, s) # {}
    BY <1>2, EverFinite DEF Limits
  <2>3. Ever(log, s) \in SUBSET Int
    BY <2>2
  <2>4. /\ Max(Ever(log, s)) \in Ever(log, s)
        /\ \A y \in Ever(log, s) : Max(Ever(log, s)) >= y
    BY <2>2, <2>3, MaxExists
  <2> QED
    BY <1>2, <2>1, <2>2, <2>4
<1> QED
  BY <1>1, <1>2

LEMMA InForceWasEver ==
  ASSUME CTypes, InForce, NEW s \in Buckets
  PROVE  limits[s] \in EverLimits(s)
<1>1. limits[s] = NewestLimit(s)
  BY DEF InForce
<1>2. CASE Positions(s) = {}
  BY <1>1, <1>2 DEF NewestLimit, Positions, EverLimits
<1>3. CASE Positions(s) # {}
  <2>1. PICK i \in Positions(s) : limits[s] = ConfigOf[applied[i]].limit
    BY <1>1, <1>3, NewestPosition DEF NewestLimit, Positions
  <2>2. applied[i] \in Range(applied) /\ ConfigOf[applied[i]].scope = s
    BY DEF Positions, Range, CTypes
  <2> QED
    BY <2>1, <2>2 DEF EverLimits
<1> QED
  BY <1>2, <1>3

LEMMA CeilingGrows ==
  ASSUME CTypes, CTypes', [Next]_vars, NEW s \in Buckets, Ceiling(s)' # None
  PROVE  Ceiling(s) # None /\ Ceiling(s) <= Ceiling(s)' /\ Ceiling(s) \in Nat /\ Ceiling(s)' \in Nat
<1>1. Range(applied) \subseteq Range(applied')
  <2>1. CASE UNCHANGED <<limits, applied>>
    BY <2>1
  <2>2. ASSUME NEW c \in Configs, Configure(c) PROVE Range(applied) \subseteq Range(applied')
    <3>1. applied' = Append(applied, c)
      BY <2>2 DEF Configure
    <3>2. \A i \in 1 .. Len(applied) : i \in 1 .. Len(applied') /\ applied'[i] = applied[i]
      BY <3>1 DEF CTypes
    <3>3. DOMAIN applied = 1 .. Len(applied) /\ DOMAIN applied' = 1 .. Len(applied')
      BY DEF CTypes
    <3> QED
      BY <3>2, <3>3 DEF Range
  <2> QED
    BY <2>1, <2>2, LimitsStep
<1>2. Ever(applied, s) \subseteq Ever(applied', s)
  BY <1>1 DEF Ever
<1>3. applied \in Seq(Configs) /\ applied' \in Seq(Configs)
  BY DEF CTypes
<1>4. /\ IF None \in Ever(applied', s)
         THEN Highest(applied', s) = None
         ELSE /\ Highest(applied', s) \in Nat /\ Highest(applied', s) # None
              /\ \A l \in Ever(applied', s) : l \in Nat /\ l <= Highest(applied', s)
  BY <1>3, HighestBounds
<1>5. None \notin Ever(applied', s)
  BY <1>4, CeilingIs
<1>6. /\ None \notin Ever(applied, s)
      /\ Highest(applied, s) \in Ever(applied, s) /\ Highest(applied, s) # None
  <2>1. None \notin Ever(applied, s)
    BY <1>2, <1>5
  <2>2. Ever(applied, s) \in SUBSET Int /\ IsFiniteSet(Ever(applied, s)) /\ Ever(applied, s) # {}
    BY <1>3, <2>1, EverFinite DEF Limits
  <2>3. Max(Ever(applied, s)) \in Ever(applied, s)
    BY <2>2, MaxExists
  <2> QED
    BY <2>1, <2>3 DEF Highest
<1> QED
  BY <1>2, <1>4, <1>5, <1>6, CeilingIs

\* The limit in force is one of those the ceiling is the highest of.
LEMMA InForceBelowCeiling ==
  ASSUME CTypes, InForce, NEW s \in Buckets, Ceiling(s) # None
  PROVE  limits[s] \in Nat /\ limits[s] # None /\ Ceiling(s) \in Nat /\ limits[s] <= Ceiling(s)
<1>1. limits[s] \in Ever(applied, s)
  BY InForceWasEver DEF EverLimits, Ever
<1>2. applied \in Seq(Configs)
  BY DEF CTypes
<1>3. IF None \in Ever(applied, s)
      THEN Highest(applied, s) = None
      ELSE /\ Highest(applied, s) \in Nat /\ Highest(applied, s) # None
           /\ \A l \in Ever(applied, s) : l \in Nat /\ l <= Highest(applied, s)
  BY <1>2, HighestBounds
<1> QED
  BY <1>1, <1>3, CeilingIs

(***************************************************************************)
(* The sums over the attempts that hold a bucket.                          *)
(***************************************************************************)
LEMMA AttemptsFinite ==
  IsFiniteSet(Attempts) /\ \A T \in SUBSET Attempts : IsFiniteSet(T)
<1>1. Attempts = Requests \X (1 .. 3)
  BY DEF Attempts
<1>2. IsFiniteSet(1 .. 3)
  <2>1. \A m, n \in Int : IsFiniteSet(m .. n)
    BY FS_Interval
  <2>2. 1 \in Int /\ 3 \in Int
    OBVIOUS
  <2> QED
    BY <2>1, <2>2, Zenon
<1>3. IsFiniteSet(Attempts)
  BY <1>1, <1>2, LedgerAssumption, FS_Product
<1> QED
  BY <1>3, FS_Subset

\* A step either adds no reservation or is the reservation of one request.
Reserves(q, n) ==
  /\ q \in Requests /\ n \in Sizes /\ Begin(q) /\ ~ Refusal(q, n)
  /\ book' = [book EXCEPT ![<<q, req[q].try>>] = Reservation(q, n)]
  /\ book[<<q, req[q].try>>].by = "none"

LEMMA OneReservation ==
  ASSUME BInv, CTypes, [Next]_vars
  PROVE  \/ \A a \in Attempts : book[a].by = "none" => book'[a].by = "none"
         \/ \E q, n : Reserves(q, n)
<1>1. SUFFICES ASSUME NEW a \in Attempts, book[a].by = "none", book'[a].by # "none"
               PROVE  \E q, n : Reserves(q, n)
  OBVIOUS
<1>2. Bills(a)
  BY StepBills
<1>3. PICK q \in Requests : Begin(q)
  BY <1>1, <1>2 DEF Bills, Settles, Resolves
<1>4. PICK n \in Sizes : /\ ~ Refusal(q, n)
                         /\ book' = [book EXCEPT ![<<q, req[q].try>>] = Reservation(q, n)]
  BY <1>1, <1>3 DEF Begin, Current
<1>5. book[<<q, req[q].try>>].by = "none"
  BY <1>3 DEF Begin, BInv, OpenInSlot
<1> QED
  BY <1>3, <1>4, <1>5 DEF Reserves

LEMMA ClaimsFitStep ==
  ASSUME BillInv, BillInv', ClaimsFit, [Next]_vars
  PROVE  ClaimsFit'
<1>0. /\ BInv /\ CTypes /\ InForce /\ CTypes'
      /\ book \in [Attempts -> Entry] /\ book' \in [Attempts -> Entry]
  BY DEF BillInv, BInv, BTypes
<1> SUFFICES ASSUME NEW s \in Buckets, Ceiling(s)' # None
             PROVE  SumFunctionOnSet(Claims', Holders(book', s)) <= Ceiling(s)'
  BY DEF ClaimsFit
<1> DEFINE H == Holders(book, s)
<1>1. /\ Ceiling(s) # None /\ Ceiling(s) <= Ceiling(s)'
      /\ Ceiling(s) \in Nat /\ Ceiling(s)' \in Nat
  BY <1>0, CeilingGrows
<1>2. SumFunctionOnSet(Claims, H) <= Ceiling(s)
  BY <1>1 DEF ClaimsFit
<1>3. H \in SUBSET Attempts /\ IsFiniteSet(H) /\ \A a \in H : book[a].by # "none"
  BY AttemptsFinite DEF Holders, Reserved
<1>4. \A a \in Attempts : Bills(a)
  BY <1>0, StepBills
<1>5. \A a \in Attempts : Claims[a] = Claimed(a) /\ Claims'[a] = Claimed(a)'
  BY DEF Claims
<1>6. \A a \in Attempts : Claims[a] \in Nat /\ Claims'[a] \in Nat
  <2>1. \A a \in Attempts : Claimed(a) \in Nat
    BY ClaimBounds
  <2>2. \A a \in Attempts : Claimed(a)' \in Nat
    BY ClaimNext DEF BillInv
  <2> QED
    BY <1>5, <2>1, <2>2
<1>7. /\ SumFunctionOnSet(Claims, H) \in Int /\ SumFunctionOnSet(Claims', H) \in Int
      /\ SumFunctionOnSet(Claims', H) <= SumFunctionOnSet(Claims, H)
  <2>1. \A a \in H : /\ Claims[a] \in Int /\ Claims'[a] \in Int
                     /\ Claims'[a] <= Claims[a]
    BY <1>3, <1>4, <1>5, <1>6, ClaimShrinks
  <2> QED
    BY <1>3, <2>1, SumType, SumMonotone
<1>8. \A a \in Attempts : book[a].by # "none" =>
        book'[a].by # "none" /\ book'[a].scopes = book[a].scopes
  BY <1>4, ClaimShrinks
<1>9. CASE \A a \in Attempts : book[a].by = "none" => book'[a].by = "none"
  <2>1. Holders(book', s) = H
    BY <1>8, <1>9 DEF Holders, Reserved
  <2> QED
    BY <1>1, <1>2, <1>7, <2>1
<1>10. ASSUME NEW q, NEW n, Reserves(q, n)
       PROVE  SumFunctionOnSet(Claims', Holders(book', s)) <= Ceiling(s)'
  <2> DEFINE c == <<q, req[q].try>>
  <2>1. /\ q \in Requests /\ n \in Nat /\ c \in Attempts
        /\ book[c].by = "none" /\ book'[c] = Reservation(q, n)
        /\ \A a \in Attempts : a # c => book'[a] = book[a]
        /\ ~ Refusal(q, n)
    BY <1>0, <1>10, LedgerAssumption DEF Reserves, Attempts, BInv, BTypes
  <2>2. book'[c].by = "open" /\ book'[c].need = n /\ book'[c].scopes = ScopesOf(RunOf[q])
    BY <2>1 DEF Reservation
  <2> HIDE DEF c
  <2>3. CASE s \notin ScopesOf(RunOf[q])
    <3>1. Holders(book', s) = H
      BY <2>1, <2>2, <2>3 DEF Holders, Reserved
    <3> QED
      BY <1>1, <1>2, <1>7, <3>1
  <2>4. CASE s \in ScopesOf(RunOf[q])
    <3>1. Holders(book', s) = H \cup {c} /\ c \notin H
      BY <2>1, <2>2, <2>4 DEF Holders, Reserved
    <3>2. Claims'[c] = n
      BY <1>5, <2>1, <2>2 DEF Claimed
    <3>3. SumFunctionOnSet(Claims', H \cup {c}) = n + SumFunctionOnSet(Claims', H)
      <4>1. /\ IsFiniteSet(H \cup {c}) /\ c \in H \cup {c} /\ (H \cup {c}) \ {c} = H
            /\ \A a \in H \cup {c} : Claims'[a] \in Int
        BY <1>3, <1>6, <2>1, <3>1, FS_AddElement
      <4> QED
        BY <3>2, <4>1, SumOneMore
    <3>4. /\ SumFunctionOnSet(Claims, H) <= Committed(book, s)
          /\ Committed(book, s) \in Int
      <4> DEFINE g == [a \in Attempts |-> Charge(book[a])]
      <4>1. \A a \in H : Claims[a] \in Int /\ g[a] \in Int /\ Claims[a] <= g[a]
        BY <1>3, <1>5, ClaimBounds
      <4>2. Committed(book, s) = SumFunctionOnSet(g, H)
        BY DEF Committed
      <4> HIDE DEF g
      <4> QED
        BY <1>3, <4>1, <4>2, SumType, SumMonotone
    <3>5. limits[s] \in Nat /\ limits[s] # None /\ limits[s] <= Ceiling(s)
      BY <1>0, <1>1, InForceBelowCeiling
    <3>6. Committed(book, s) + n <= limits[s]
      BY <2>1, <2>4, <3>4, <3>5 DEF Refusal, Exceeds
    <3> QED
      BY <1>1, <1>7, <2>1, <3>1, <3>3, <3>4, <3>5, <3>6
  <2> QED
    BY <2>3, <2>4
<1> QED
  BY <1>0, <1>9, <1>10, OneReservation

\* What providers bill within the reserved estimates never exceeds the highest
\* limit a bucket ever had, for every number of Runs, requests, retries, crashes
\* and configurations (budgets.TokenBudget.reserve, settle and resolve_unknown).
THEOREM SpendStaysWithinCeiling == Spec => []SpendWithinCeiling
<1>1. Init => ClaimsFit
  <2> SUFFICES ASSUME Init, NEW s \in Buckets, Ceiling(s) # None
               PROVE  SumFunctionOnSet(Claims, Holders(book, s)) <= Ceiling(s)
    BY DEF ClaimsFit
  <2>1. Holders(book, s) = {}
    BY DEF Init, Holders, Reserved, Nothing
  <2>2. BillInv
    BY BillInvInit
  <2>3. Ceiling(s) \in Nat
    BY <2>2, InForceBelowCeiling DEF BillInv
  <2> QED
    BY <2>1, <2>3, SumEmpty
<1>2. ASSUME BillInv, ClaimsFit PROVE SpendWithinCeiling
  <2> SUFFICES ASSUME NEW s \in Buckets, Ceiling(s) # None
               PROVE  SumFunctionOnSet([a \in Attempts |-> Accountable(a)], Holders(book, s))
                        <= Ceiling(s)
    BY DEF SpendWithinCeiling
  <2> DEFINE H == Holders(book, s)
             f == [a \in Attempts |-> Accountable(a)]
  <2>1. H \in SUBSET Attempts /\ IsFiniteSet(H)
    BY AttemptsFinite DEF Holders, Reserved
  <2>2. \A a \in H : f[a] \in Int /\ Claims[a] \in Int /\ f[a] <= Claims[a]
    BY <1>2, <2>1, ClaimBounds DEF Claims
  <2>3. SumFunctionOnSet(Claims, H) <= Ceiling(s) /\ Ceiling(s) \in Nat
    BY <1>2, InForceBelowCeiling DEF ClaimsFit, BillInv
  <2> HIDE DEF f, H
  <2>4. /\ SumFunctionOnSet(f, H) \in Int /\ SumFunctionOnSet(Claims, H) \in Int
        /\ SumFunctionOnSet(f, H) <= SumFunctionOnSet(Claims, H)
    BY <2>1, <2>2, SumType, SumMonotone
  <2>5. SumFunctionOnSet(f, H) <= Ceiling(s)
    BY <2>3, <2>4
  <2> QED
    BY <2>5 DEF f, H
<1> QED
  BY <1>1, <1>2, BillsInvariant, ClaimsFitStep, PTL DEF Spec

(***************************************************************************)
(* Costs, and what a reservation is checked against.                       *)
(***************************************************************************)
\* A cost that is called complete is the sum of the bills: every attempt has a
\* complete estimate, each of them is its bill, and nothing else was billed
\* (budget_prices.summarize_cost_events).
THEOREM CompleteCostsAreExact == Spec => []CompleteIsExact
<1>1. ASSUME BillInv, CostComplete
      PROVE  SumFunctionOnSet([a \in Attempts |-> cost[a].usage], Estimated)
               = SumFunctionOnSet(billed, Attempts)
  <2> DEFINE f == [a \in Attempts |-> cost[a].usage]
  <2>1. Estimated \in SUBSET Attempts /\ IsFiniteSet(Estimated) /\ IsFiniteSet(Attempts)
    BY AttemptsFinite DEF Estimated
  <2>2. \A a \in Estimated : f[a] = billed[a]
    <3>1. ASSUME NEW a \in Estimated PROVE cost[a].usage = billed[a]
      <4>1. a \in Attempts /\ cost[a] # None
        BY DEF Estimated
      <4>2. a \in Reserved(book)
        BY <1>1, <4>1 DEF BillInv, Billing, Reserved
      <4>3. cost[a].complete
        BY <1>1, <4>2 DEF CostComplete
      <4> QED
        BY <1>1, <4>1, <4>3 DEF BillInv, Billing
    <3> QED
      BY <2>1, <3>1
  <2>3. \A a \in Attempts : billed[a] \in Int
    BY <1>1 DEF BillInv, BInv, BTypes
  <2>4. \A a \in Attempts \ Estimated : billed[a] = 0
    <3>1. ASSUME NEW a \in Attempts, a \notin Estimated PROVE billed[a] = 0
      <4>1. a \notin Reserved(book)
        BY <1>1, <3>1 DEF CostComplete, Estimated
      <4> QED
        BY <1>1, <4>1 DEF Reserved, BillInv, Billing
    <3> QED
      BY <3>1
  <2> HIDE DEF f
  <2>5. SumFunctionOnSet(f, Estimated) = SumFunctionOnSet(billed, Estimated)
    BY <2>1, <2>2, SumAgrees
  <2>6. SumFunctionOnSet(billed, Attempts) = SumFunctionOnSet(billed, Estimated)
    BY <2>1, <2>3, <2>4, SumWhereItCounts
  <2> QED
    BY <2>5, <2>6 DEF f
<1> QED
  BY <1>1, BillsInvariant, PTL DEF CompleteIsExact

\* The delivery's attempt limit holds over all its Runs, because only Begin adds
\* an attempt and it looks at all of them (delivery_limits.delivery_limit_reason).
THEOREM DeliveryStaysCapped == Spec => []DeliveryCapped
<1>1. ASSUME Init PROVE DeliveryCapped
  <2>1. DeliveryCalls = {}
    BY <1>1 DEF Init, DeliveryCalls, DeliveryBook, Reserved, Nothing
  <2>2. Cardinality({}) = 0
    BY FS_EmptySet
  <2> QED
    BY <2>1, <2>2, LedgerAssumption DEF DeliveryCapped
<1>2. ASSUME BillInv, DeliveryCapped, [Next]_vars PROVE DeliveryCapped'
  <2>1. BInv /\ CTypes /\ \A a \in Attempts : Bills(a)
    BY <1>2, StepBills DEF BillInv
  <2>2. \A a \in Attempts : book[a].by # "none" => book'[a].by # "none"
    BY <2>1 DEF Bills, Settles, Resolves
  <2>3. DeliveryCalls \in SUBSET Attempts /\ IsFiniteSet(DeliveryCalls)
    BY AttemptsFinite DEF DeliveryCalls, DeliveryBook, Reserved
  <2>4. CASE \A a \in Attempts : book[a].by = "none" => book'[a].by = "none"
    <3>1. DeliveryCalls' = DeliveryCalls
      BY <2>2, <2>4 DEF DeliveryCalls, DeliveryBook, Reserved
    <3> QED
      BY <1>2, <3>1 DEF DeliveryCapped
  <2>5. ASSUME NEW q, NEW n, Reserves(q, n) PROVE DeliveryCapped'
    <3> DEFINE c == <<q, req[q].try>>
    <3>1. c[1] = q /\ ~ Refusal(q, n) /\ \A a \in Attempts : a # c => book'[a] = book[a]
      BY <2>1, <2>5 DEF Reserves, BInv, BTypes
    <3> HIDE DEF c
    <3>2. DeliveryCalls' \subseteq DeliveryCalls \cup {c}
      BY <3>1 DEF DeliveryCalls, DeliveryBook, Reserved
    <3>3. CASE q \in Embeddings \/ RunOf[q] \notin Delivery
      <4>1. c \notin DeliveryCalls'
        BY <3>1, <3>3 DEF DeliveryCalls, DeliveryBook
      <4>2. DeliveryCalls' \subseteq DeliveryCalls /\ DeliveryCalls \subseteq DeliveryCalls'
        BY <2>2, <3>2, <4>1 DEF DeliveryCalls, DeliveryBook, Reserved
      <4>3. DeliveryCalls' = DeliveryCalls
        BY <4>2
      <4> QED
        BY <1>2, <4>3 DEF DeliveryCapped
    <3>4. CASE q \notin Embeddings /\ RunOf[q] \in Delivery
      <4>1. ~ (Cardinality(DeliveryCalls) >= DeliveryAttempts)
        BY <3>1, <3>4 DEF Refusal, DeliveryRefuses
      <4>2. /\ IsFiniteSet(DeliveryCalls \cup {c})
            /\ Cardinality(DeliveryCalls) \in Nat /\ Cardinality(DeliveryCalls \cup {c}) \in Nat
            /\ Cardinality(DeliveryCalls \cup {c}) <= Cardinality(DeliveryCalls) + 1
        <5>1. /\ IsFiniteSet(DeliveryCalls \cup {c})
              /\ Cardinality(DeliveryCalls \cup {c})
                   = IF c \in DeliveryCalls THEN Cardinality(DeliveryCalls)
                     ELSE Cardinality(DeliveryCalls) + 1
          BY <2>3, FS_AddElement
        <5>2. Cardinality(DeliveryCalls) \in Nat
          BY <2>3, FS_CardinalityType
        <5> QED
          BY <5>1, <5>2
      <4>3. /\ Cardinality(DeliveryCalls') \in Nat
            /\ Cardinality(DeliveryCalls') <= Cardinality(DeliveryCalls \cup {c})
        BY <3>2, <4>2, FS_Subset, FS_CardinalityType
      <4> QED
        BY <4>1, <4>2, <4>3, LedgerAssumption DEF DeliveryCapped
    <3> QED
      BY <3>3, <3>4
  <2> QED
    BY <1>2, <2>1, <2>4, <2>5, OneReservation
<1> QED
  BY <1>1, <1>2, BillsInvariant, PTL DEF Spec

\* A reservation fits the newest limit of every bucket it draws on, the Run's
\* family included, and a configuration that is sent twice restores nothing
\* (budgets.TokenBudget.reserve, configure and BudgetContext.scopes).
THEOREM ReservationsFitLimits == Spec => ReservationsFit
<1>1. ASSUME BillInv, BillInv', [Next]_vars, NEW a \in Reserved(book') \ Reserved(book),
             NEW s \in RunScopes[RunOf[a[1]]] \cup RunScopes[RootOf[RunOf[a[1]]]]
                         \cup {<<"day", day>>}
      PROVE  /\ s \in book'[a].scopes
             /\ NewestLimit(s) # None => Committed(book', s) <= NewestLimit(s)
  <2>1. /\ BInv /\ CTypes /\ InForce /\ a \in Attempts /\ book[a].by = "none"
        /\ book'[a].by # "none"
        /\ book \in [Attempts -> Entry] /\ book' \in [Attempts -> Entry]
        /\ \A b \in Attempts : book[b].by # "none" => book'[b] = book[b] \/ b # a
    BY <1>1 DEF BillInv, Reserved, BInv, BTypes
  <2>2. PICK q, n : Reserves(q, n)
    BY <1>1, <2>1, OneReservation
  <2>3. /\ q \in Requests /\ n \in Nat /\ a = <<q, req[q].try>> /\ a[1] = q
        /\ book'[a] = Reservation(q, n) /\ ~ Refusal(q, n)
        /\ \A b \in Attempts : b # a => book'[b] = book[b]
    BY <2>1, <2>2, LedgerAssumption DEF Reserves
  <2>4. /\ book'[a].by = "open" /\ book'[a].need = n /\ book'[a].scopes = ScopesOf(RunOf[q])
        /\ book'[a].known = None /\ book'[a].seen = 0
    BY <2>3 DEF Reservation
  <2>5. s \in ScopesOf(RunOf[q]) /\ s \in Buckets
    BY <2>1, <2>3, LedgerAssumption DEF ScopesOf, Buckets, Days, BInv, BTypes
  <2>6. ASSUME NewestLimit(s) # None PROVE Committed(book', s) <= NewestLimit(s)
    <3> DEFINE H == Holders(book, s)
               f == [b \in Attempts |-> Charge(book[b])]
               g == [b \in Attempts |-> Charge(book'[b])]
    <3>1. H \in SUBSET Attempts /\ IsFiniteSet(H)
      BY AttemptsFinite DEF Holders, Reserved
    <3>2. Holders(book', s) = H \cup {a} /\ a \notin H
      BY <2>1, <2>3, <2>4, <2>5 DEF Holders, Reserved
    <3>3. /\ \A b \in Attempts : f[b] \in Int /\ g[b] \in Int
          /\ \A b \in H : g[b] = f[b]
          /\ g[a] = n
      <4>1. \A b \in Attempts : Charge(book[b]) \in Nat /\ Charge(book'[b]) \in Nat
        BY <2>1, ChargeType
      <4>2. Charge(book'[a]) = n
        BY <2>1, <2>4, ChargeType
      <4>3. \A b \in H : b \in Attempts /\ book'[b] = book[b]
        BY <2>3, <3>1, <3>2
      <4> QED
        BY <2>1, <4>1, <4>2, <4>3
    <3>4. Committed(book, s) = SumFunctionOnSet(f, H)
      BY DEF Committed
    <3>5. Committed(book', s) = SumFunctionOnSet(g, H \cup {a})
      BY <3>2 DEF Committed
    <3> HIDE DEF f, g, H
    <3>6. SumFunctionOnSet(g, H) = SumFunctionOnSet(f, H)
      BY <3>1, <3>3, SumAgrees
    <3>7. SumFunctionOnSet(g, H \cup {a}) = n + SumFunctionOnSet(g, H)
      <4>1. /\ IsFiniteSet(H \cup {a}) /\ (H \cup {a}) \ {a} = H
            /\ \A b \in H \cup {a} : g[b] \in Int
        BY <2>1, <3>1, <3>2, <3>3, FS_AddElement
      <4> QED
        BY <3>3, <4>1, SumOneMore
    <3>8. Committed(book, s) \in Int
      BY <3>1, <3>3, <3>4, SumType
    <3>9. limits[s] = NewestLimit(s) /\ limits[s] \in Nat
      BY <2>1, <2>5, <2>6 DEF InForce, CTypes, Limits
    <3>10. Committed(book, s) + n <= limits[s]
      BY <2>3, <2>5, <2>6, <3>8, <3>9 DEF Refusal, Exceeds
    <3> QED
      BY <2>3, <3>4, <3>5, <3>6, <3>7, <3>8, <3>9, <3>10
  <2> QED
    BY <2>3, <2>4, <2>5, <2>6
<1>2. ASSUME BillInv, BillInv', [Next]_vars
      PROVE  \A a \in Reserved(book') \ Reserved(book) :
               \A s \in RunScopes[RunOf[a[1]]] \cup RunScopes[RootOf[RunOf[a[1]]]]
                          \cup {<<"day", day>>} :
                 /\ s \in book'[a].scopes
                 /\ NewestLimit(s) # None => Committed(book', s) <= NewestLimit(s)
  BY <1>1, <1>2
<1> QED
  BY <1>2, BillsInvariant, PTL DEF Spec, ReservationsFit
=============================================================================
