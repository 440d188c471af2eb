------------------------------ MODULE MCServices ------------------------------
(***************************************************************************)
(* Instances of the services for TLC.  They keep no state in common, so    *)
(* one model holds them side by side: part says which of them moves, the   *)
(* others stay as they began.  v1, v2 are contents, x1, x2 interchangeable.*)
(***************************************************************************)
EXTENDS Delivery, Worktrees, CopyRuns, Mutations, Preferences, KnowledgeIndex, SkillPackages,
        Attachments, Workers, HistoryImport, Evaluation, ContextView, TaskPlan, TLC

CONSTANTS v1, v2, x1, x2, base, tampered, foreign, task, guest1, h1, h2, key1, key2, key3, key4, key5

VARIABLE part

Parts == {"delivery", "worktrees", "copies", "mutations", "preferences", "index", "skills",
          "attachments", "workers", "history", "evaluation", "context", "plan"}

\* One model at two addresses.
TwoAddresses == {<<v1, 1>>, <<v1, 2>>}

\* What a model writes of a plan: tasks are named, reworded, rewritten without a name, dropped,
\* settled, reopened and made to depend on each other.
Written(ids, contents, status, summary, depends) ==
  [id : ids, content : contents, status : status, summary : summary, depends : depends]

WhatIsWritten ==
  Written({None, 1, 2}, {v1, v2}, {"pending"}, {FALSE}, {None})
  \cup Written({None, 1}, {v1, v2}, {"completed"}, BOOLEAN, {None})
  \cup Written({None, 2}, {v2}, {"pending", "in_progress"}, {FALSE}, {{}, {1}})
  \cup Written({1}, {v1}, {"pending", "blocked"}, {FALSE}, {{2}})

\* No module tells contents apart, so what a service finds first is v1; where it may begin in
\* several other ways, one that does not move begins in the first of them.
ServicesInit ==
  /\ part \in Parts
  /\ DeliveryInit /\ TreeInit /\ CopyInit /\ MutationInit /\ PreferenceInit /\ IndexInit
  /\ SkillInit /\ FilesInit /\ WorkersInit /\ ImportInit
  /\ EvaluationInit /\ ContextInit /\ PlanInit
  /\ original = v1 /\ corpus[1] = v1 /\ configured = v1 /\ offered = v1 /\ sourceNow = v1 /\ legacy = v1
  /\ settings = <<v1, 1>>
  /\ part # "index" => corpus = [d \in Documents |-> v1]
  /\ part # "skills" => checkedOut = None
  /\ part # "attachments" => kept = [r \in Roots |-> [id \in AttachmentIds |-> None]]

OthersStay ==
  /\ IF part = "delivery"    THEN TRUE ELSE UNCHANGED deliveryVars
  /\ IF part = "worktrees"   THEN TRUE ELSE UNCHANGED treeVars
  /\ IF part = "copies"      THEN TRUE ELSE UNCHANGED copyVars
  /\ IF part = "mutations"   THEN TRUE ELSE UNCHANGED mutationVars
  /\ IF part = "preferences" THEN TRUE ELSE UNCHANGED preferenceVars
  /\ IF part = "index"       THEN TRUE ELSE UNCHANGED indexVars
  /\ IF part = "skills"      THEN TRUE ELSE UNCHANGED skillVars
  /\ IF part = "attachments" THEN TRUE ELSE UNCHANGED fileVars
  /\ IF part = "workers"     THEN TRUE ELSE UNCHANGED workerVars
  /\ IF part = "history"     THEN TRUE ELSE UNCHANGED importVars
  /\ IF part = "evaluation"  THEN TRUE ELSE UNCHANGED evaluationVars
  /\ IF part = "context"     THEN TRUE ELSE UNCHANGED contextVars
  /\ IF part = "plan"        THEN TRUE ELSE UNCHANGED planVars

ServicesNext ==
  /\ \/ part = "delivery"    /\ DeliveryNext
     \/ part = "worktrees"   /\ TreeNext
     \/ part = "copies"      /\ CopyNext
     \/ part = "mutations"   /\ MutationNext
     \/ part = "preferences" /\ PreferenceNext
     \/ part = "index"       /\ IndexNext
     \/ part = "skills"      /\ SkillNext
     \/ part = "attachments" /\ FilesNext
     \/ part = "workers"     /\ WorkersNext
     \/ part = "history"     /\ ImportNext
     \/ part = "evaluation"  /\ EvaluationNext
     \/ part = "context"     /\ ContextNext
     \/ part = "plan"        /\ PlanNext
  /\ OthersStay /\ UNCHANGED part

ServicesVars == <<part, deliveryVars, treeVars, copyVars, mutationVars, preferenceVars, indexVars,
                  skillVars, fileVars, workerVars, importVars, evaluationVars, contextVars,
                  planVars>>

ServicesSpec == ServicesInit /\ [][ServicesNext]_ServicesVars

ReceiptsSpec == part = "mutations" /\ ServicesInit /\ [][ServicesNext]_ServicesVars

Alike == Permutations({x1, x2})
=============================================================================
