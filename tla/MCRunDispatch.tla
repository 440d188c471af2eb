--------------------------- MODULE MCRunDispatch ---------------------------
(* Small instances of RunDispatch: runs r1..r4, abandons a1, control c1.    *)
EXTENDS RunDispatch
CONSTANTS r1, r2, r3, r4, a1, c1, s1, s2, s3, w1, w2

\* Two Sessions share w1: s1 is parked, r2 continues it or a1 abandons it.
SharedSessions == [t \in Turns |-> CASE t \in {r1, r2, a1} -> s1 [] t = r3 -> s2 [] OTHER -> s3]
\* r1, r2 (which continues it) and r4 wait for w1 while r3 runs on w2.
ThreeSessions == [t \in Turns |-> CASE t \in {r1, r2} -> s1 [] t = r3 -> s2 [] OTHER -> s3]
TwoWorkspaces == [a \in Actors |-> IF a = r3 THEN w2 ELSE w1]

OneWorkspace == [a \in Actors |-> w1]
PriorR1  == <<r1>>
NoPrior == <<>>
=============================================================================
