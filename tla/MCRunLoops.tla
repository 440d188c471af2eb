------------------------------ MODULE MCRunLoops ------------------------------
(***************************************************************************)
(* Runs and the stop for repeated failures, which RunRecovery leaves as a  *)
(* choice, side by side: either may move, with a source of its own, which  *)
(* is called source at first: nothing tells contents apart.                *)
(***************************************************************************)
EXTENDS MCRunRecovery, FailureLoops

CONSTANTS notFound, testsFail

VARIABLE moves

RunsAndLoops ==
  /\ moves \in {"runs", "loops"} /\ Init /\ LoopInit
  /\ content = source
  /\ sourceTree \in {source, None} /\ moves = "runs" => sourceTree = source

RunOrLoop ==
  /\ UNCHANGED moves
  /\ \/ moves = "runs"  /\ Next     /\ UNCHANGED loopVars
     \/ moves = "loops" /\ LoopNext /\ UNCHANGED vars

RunsAndLoopsSpec == RunsAndLoops /\ [][RunOrLoop]_<<moves, vars, loopVars>>
=============================================================================
