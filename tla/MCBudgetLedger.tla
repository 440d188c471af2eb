--------------------------- MODULE MCBudgetLedger ---------------------------
(***************************************************************************)
(* Instances of BudgetLedger for TLC, over a root Run, its worker and a    *)
(* later Run of the same project.                                          *)
(***************************************************************************)
EXTENDS BudgetLedger

CONSTANTS root, worker, later,            \* Runs
          q1, q2, q3,                     \* requests
          bRoot, bWorker, project,        \* buckets
          lower, raise                    \* configurations

TheRoots  == [r \in Runs |-> IF r = worker THEN root ELSE r]
TheRuns   == [q \in Requests |-> CASE q = q1 -> root [] q = q2 -> later [] q = q3 -> worker]
RetryFirst == [q \in Requests |-> IF q = q1 THEN 2 ELSE 1]
OnlyOnce   == [q \in Requests |-> 1]
TheScopes == [r \in Runs |-> CASE r = root   -> {bRoot, project}
                               [] r = worker -> {bRoot, bWorker, project}
                               [] r = later  -> {project}]
TheConfigs == [c \in Configs |-> [scope |-> project, limit |-> IF c = lower THEN 1 ELSE 3]]
NoConfigs  == [c \in {} |-> None]
TheLimits  == [b \in Buckets |-> IF b = project \/ b = <<"day", 1>> THEN 2 ELSE None]
RunLimits  == [b \in Buckets |-> IF b = project THEN 3
                                 ELSE IF b = bRoot \/ b = <<"day", 1>> THEN 2 ELSE None]
=============================================================================
