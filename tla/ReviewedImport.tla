--------------------------- MODULE ReviewedImport ---------------------------
(***************************************************************************)
(* What the import of a reviewed history promises: a content is shown,     *)
(* and what was shown is imported by one Run, which says so in the same    *)
(* step.  HistoryImport implements it.                                     *)
(***************************************************************************)
CONSTANTS Runs, Contents

VARIABLES
  shown,     \* previews a person may review: [preview, content]
  imported,  \* what is in the store: [preview, content, by]
  told       \* Runs of which the log says that they imported

reviewed == <<shown, imported, told>>

ReviewedInit == shown = {} /\ imported = {} /\ told = {}

\* A preview shows one content for ever.
Show(p, content) ==
  /\ \A s \in shown : s.preview # p
  /\ shown' = shown \cup {[preview |-> p, content |-> content]}
  /\ UNCHANGED <<imported, told>>

Import(p, content, run) ==
  /\ [preview |-> p, content |-> content] \in shown
  /\ run \notin told /\ \A i \in imported : i.preview # p /\ i.by # run
  /\ imported' = imported \cup {[preview |-> p, content |-> content, by |-> run]}
  /\ told' = told \cup {run}
  /\ UNCHANGED shown

ReviewedNext ==
  \E p, run \in Runs, content \in Contents : Show(p, content) \/ Import(p, content, run)

ReviewedSpec == ReviewedInit /\ [][ReviewedNext]_reviewed
=============================================================================
