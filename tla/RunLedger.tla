----------------------------- MODULE RunLedger -----------------------------
(***************************************************************************)
(* What the event log promises about the Runs of one Host, whatever the    *)
(* Host's memory, locks, tasks and crashes did: the abstract specification *)
(* that RunDispatch implements.  The state is what RuntimeStore keeps of a *)
(* Run: its scheduling facts, the order of the rows and the continuation   *)
(* links of their turns.                                                   *)
(***************************************************************************)
EXTENDS Naturals, FiniteSets, Sequences

CONSTANTS
  Runs,          \* identities a client may use for a root Run
  Abandons,      \* identities of the Runs that close a parked Session
  Controls,      \* tasks that take a Workspace lock without a Run identity
  Sessions,
  Workspaces,    \* execution keys (host.py _execution_key)
  SessionOf,     \* the Session of each Run and each abandon
  WorkspaceOf,   \* the execution key of every actor
  Continues,     \* Runs requested by Continue, not by a new message
  Prior,         \* Runs an earlier process left interrupted, oldest first
  None

Turns  == Runs \cup Abandons
Actors == Turns \cup Controls

ASSUME FiniteAssumption == IsFiniteSet(Runs)
ASSUME IdentityAssumption ==
  /\ Runs \cap Abandons = {} /\ Turns \cap Controls = {}
  /\ Sessions \cap Workspaces = {}
  /\ None \notin Actors
ASSUME PlacementAssumption ==
  /\ SessionOf \in [Turns -> Sessions]
  /\ WorkspaceOf \in [Actors -> Workspaces]
  /\ \A t, u \in Turns : SessionOf[t] = SessionOf[u] => WorkspaceOf[t] = WorkspaceOf[u]
  /\ Continues \subseteq Runs
  /\ Prior \in Seq(Runs)

VARIABLES
  fact,   \* last scheduling fact of each Run in the event log
  log,    \* Runs in the order their rows were committed
  cont    \* turns.continuation_of

ledger == <<fact, log, cont>>

Terminal == {"completed", "failed", "interrupted"}
Facts    == {"none", "admitted", "started"} \cup Terminal

Older(q, r) == \E i, j \in DOMAIN log : i < j /\ log[i] = q /\ log[j] = r

Latest(s) ==
  LET rows == {i \in DOMAIN log : SessionOf[log[i]] = s}
  IN  IF rows = {} THEN None
      ELSE log[CHOOSE i \in rows : \A j \in rows : j <= i]

Parked(s)     == Latest(s) # None /\ fact[Latest(s)] = "interrupted"
Unfinished(t) == fact[t] \in {"admitted", "started"}

LedgerInit ==
  /\ fact = [t \in Turns |-> IF \E i \in DOMAIN Prior : Prior[i] = t
                             THEN "interrupted" ELSE "none"]
  /\ log = Prior
  /\ cont = [t \in Turns |-> None]

\* A row, its turn and its first fact (create_run, admit_run).
Record(t, first, source) ==
  /\ fact[t] = "none"
  /\ fact' = [fact EXCEPT ![t] = first]
  /\ log'  = Append(log, t)
  /\ cont' = [cont EXCEPT ![t] = source]

SessionIdle(s) == \A t \in Turns : SessionOf[t] = s => ~ Unfinished(t)

\* A Session runs one thing at a time; a parked one only what continues it.
Accept(r) ==
  /\ SessionIdle(SessionOf[r])
  /\ (r \in Continues) <=> Parked(SessionOf[r])
  /\ Record(r, "admitted", IF r \in Continues THEN Latest(SessionOf[r]) ELSE None)

AbandonParked(a) ==
  /\ SessionIdle(SessionOf[a]) /\ Parked(SessionOf[a])
  /\ Record(a, "started", Latest(SessionOf[a]))

\* Runs of one Workspace execute one at a time.
BeginRun(r) ==
  /\ fact[r] = "admitted"
  /\ \A t \in Turns : fact[t] = "started" => WorkspaceOf[t] # WorkspaceOf[r]
  /\ fact' = [fact EXCEPT ![r] = "started"]
  /\ UNCHANGED <<log, cont>>

\* Only what was started can complete; a crash or a cancellation interrupts.
EndTurn(t) ==
  /\ Unfinished(t)
  /\ \E out \in Terminal :
       /\ out = "completed" => fact[t] = "started"
       /\ fact' = [fact EXCEPT ![t] = out]
  /\ UNCHANGED <<log, cont>>

LedgerNext ==
  \/ \E r \in Runs : Accept(r) \/ BeginRun(r)
  \/ \E a \in Abandons : AbandonParked(a)
  \/ \E t \in Turns : EndTurn(t)

\* RunDispatch implements this: its steps change the log only in these ways.
LedgerSpec == LedgerInit /\ [][LedgerNext]_ledger

\* Two Runs never continue the same interrupted Run, and what is continued was
\* interrupted: admission reads the latest Run, then awaits, then commits.
NoFork ==
  /\ \A t, u \in Turns : cont[t] = cont[u] /\ cont[t] # None => t = u
  /\ \A t \in Turns : cont[t] # None => fact[cont[t]] = "interrupted"
=============================================================================
