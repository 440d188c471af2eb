------------------------------ MODULE Worktrees ------------------------------
(***************************************************************************)
(* The managed worktrees of one project (worktrees.py, worktree_control.py *)
(* and RuntimeHost.manage_worktree): a record file, a Git checkout with    *)
(* its branch and a Workspace row for each name, changed one after the     *)
(* other under the project's locks by the operation that holds them, while *)
(* Sessions are opened, files are edited and the process may be lost.      *)
(* A record file is told from its successors by its incarnation.           *)
(***************************************************************************)
EXTENDS Integers, FiniteSets, Absence

CONSTANTS Names, MaxTreeOps, MaxTreeEdits, MaxTreeCrashes \* names; bounds

VARIABLES
  tree,      \* what there is of each name
  catalog,   \* the catalog the user looked at last
  queuedOp,  \* the admitted operation of the project's control Session
  treeOp,    \* the operation that holds the Workspace and Git locks
  removing,  \* _worktree_removals
  stamp,     \* incarnations given so far
  treeUsed   \* bounds used: [ops, edits, crashes]

treeVars == <<tree, catalog, queuedOp, treeOp, removing, stamp, treeUsed>>

\* disk: "work" stands for changes git status reports, "ignored" and "ahead" for those
\* it does not, "partial" for a checkout that git did not finish.
Untouched == [record |-> 0, disk |-> "none", branch |-> FALSE,
              workspace |-> FALSE, sessions |-> FALSE]
IdleTree == [action |-> None, name |-> None, seen |-> None, phase |-> "idle"]

TreeInit ==
  /\ tree = [n \in Names |-> Untouched]
  /\ catalog = {} /\ queuedOp = None /\ treeOp = IdleTree /\ removing = {} /\ stamp = 0
  /\ treeUsed = [ops |-> 0, edits |-> 0, crashes |-> 0]

TreeSpend(bound) == treeUsed' = [treeUsed EXCEPT ![bound] = @ + 1]
SetTree(n, field, value) == tree' = [tree EXCEPT ![n] = [@ EXCEPT ![field] = value]]

\* WorktreeService.list loads every record, and fails with the first it cannot match.
Listable == \A n \in Names : tree[n].record > 0 => tree[n].disk \notin {"none", "partial"}

\* catalog_hash.
Catalog == {<<n, tree[n].record>> : n \in {m \in Names : tree[m].record > 0}}

LookAtCatalog ==
  /\ Listable /\ catalog # Catalog
  /\ catalog' = Catalog
  /\ UNCHANGED <<tree, queuedOp, treeOp, removing, stamp, treeUsed>>

\* WorktreeController.admit: what was looked at is frozen with the operation.
AdmitTree(action, n) ==
  /\ queuedOp = None /\ treeOp.seen = None /\ treeUsed.ops < MaxTreeOps
  /\ Listable /\ Catalog = catalog
  /\ (action = "create") = (tree[n].record = 0)
  /\ queuedOp' = [action |-> action, name |-> n, seen |-> catalog]
  /\ TreeSpend("ops")
  /\ UNCHANGED <<tree, catalog, treeOp, removing, stamp>>

\* Fault: the catalog of the admission is not compared again.
MayStartAsAdmitted(action, n, seen) ==
  /\ Listable
  /\ action # "create" => tree[n].record > 0
  /\ action = "remove" => ~ tree[n].sessions

\* Under the locks: records, catalog, and for a removal no Session or history.
MayStart(action, n, seen) ==
  /\ Listable
  /\ seen # None => Catalog = seen
  /\ action # "create" => tree[n].record > 0
  /\ action = "remove" => ~ tree[n].sessions

\* _worktree_removals.add, before the next await.
ReserveRemoval(action, n) == removing' = IF action = "remove" THEN {n} ELSE {}

StartTree(action, n, seen) ==
  /\ treeOp = IdleTree
  /\ IF MayStart(action, n, seen)
     THEN /\ treeOp' = [action |-> action, name |-> n, seen |-> seen, phase |-> "begun"]
          /\ ReserveRemoval(action, n)
     ELSE UNCHANGED <<treeOp, removing>>
  /\ UNCHANGED <<tree, catalog, stamp>>

StartQueued ==
  /\ queuedOp # None /\ StartTree(queuedOp.action, queuedOp.name, queuedOp.seen)
  /\ queuedOp' = None
  /\ UNCHANGED treeUsed

\* A host user calls manage_worktree itself.
StartUnqueued(action, n) ==
  /\ treeUsed.ops < MaxTreeOps /\ StartTree(action, n, None)
  /\ TreeSpend("ops")
  /\ UNCHANGED queuedOp

FinishTree == treeOp' = IdleTree /\ removing' = {}
TreeAt(action, phase) == treeOp.action = action /\ treeOp.phase = phase
TreePhase(phase) == treeOp' = [treeOp EXCEPT !.phase = phase] /\ UNCHANGED removing

\* create: the record first, so that a crash leaves evidence.
WriteRecord ==
  /\ TreeAt("create", "begun")
  /\ LET n == treeOp.name IN
       IF tree[n].record > 0 \/ tree[n].disk # "none"
       THEN FinishTree /\ UNCHANGED <<tree, stamp>>
       ELSE /\ stamp' = stamp + 1 /\ SetTree(n, "record", stamp')
            /\ TreePhase("adding")
  /\ UNCHANGED <<catalog, queuedOp, treeUsed>>

\* git worktree add: it fails on a branch an earlier checkout left, and may fail halfway.
AddCheckout ==
  /\ TreeAt("create", "adding")
  /\ LET n == treeOp.name IN
       \/ /\ ~ tree[n].branch
          /\ tree' = [tree EXCEPT ![n] = [@ EXCEPT !.disk = "clean", !.branch = TRUE]]
          /\ TreePhase("registering")
       \/ SetTree(n, "record", 0) /\ FinishTree
       \/ ~ tree[n].branch /\ SetTree(n, "disk", "partial") /\ FinishTree
  /\ UNCHANGED <<catalog, queuedOp, stamp, treeUsed>>

RegisterCheckout ==
  /\ TreeAt("create", "registering")
  /\ SetTree(treeOp.name, "workspace", TRUE) /\ FinishTree
  /\ UNCHANGED <<catalog, queuedOp, stamp, treeUsed>>

\* keep rewrites the record file.
KeepTree ==
  /\ TreeAt("keep", "begun")
  /\ stamp' = stamp + 1 /\ SetTree(treeOp.name, "record", stamp') /\ FinishTree
  /\ UNCHANGED <<catalog, queuedOp, treeUsed>>

\* remove: hidden index entries, git status with ignored files, commits beyond the base.
InspectCheckout ==
  /\ TreeAt("remove", "begun")
  /\ IF tree[treeOp.name].disk = "clean" THEN TreePhase("inspected") ELSE FinishTree
  /\ UNCHANGED <<tree, catalog, queuedOp, stamp, treeUsed>>

\* git worktree remove, unforced: Git looks for changes once more, not for ignored files.
RemoveCheckout ==
  /\ TreeAt("remove", "inspected")
  /\ LET n == treeOp.name IN
       IF tree[n].disk = "work" THEN FinishTree /\ UNCHANGED tree
       ELSE SetTree(n, "disk", "none") /\ TreePhase("unlinking")
  /\ UNCHANGED <<catalog, queuedOp, stamp, treeUsed>>

UnlinkRecord ==
  /\ TreeAt("remove", "unlinking")
  /\ SetTree(treeOp.name, "record", 0) /\ TreePhase("forgetting")
  /\ UNCHANGED <<catalog, queuedOp, stamp, treeUsed>>

\* RuntimeStore.remove_workspace refuses to orphan Sessions.
ForgetWorkspace ==
  /\ TreeAt("remove", "forgetting")
  /\ SetTree(treeOp.name, "workspace", tree[treeOp.name].sessions) /\ FinishTree
  /\ UNCHANGED <<catalog, queuedOp, stamp, treeUsed>>

\* resolve_or_register_workspace, SessionService.create: an existing directory, and no
\* removal under way (_check_worktree_admission).
OpenSession(n) ==
  /\ tree[n].disk # "none" /\ n \notin removing /\ ~ tree[n].sessions
  /\ tree' = [tree EXCEPT ![n] = [@ EXCEPT !.workspace = TRUE, !.sessions = TRUE]]
  /\ UNCHANGED <<catalog, queuedOp, treeOp, removing, stamp, treeUsed>>

\* A queued operation can be cancelled; a running one keeps Git until it is settled.
CancelQueued ==
  /\ queuedOp # None /\ queuedOp' = None
  /\ UNCHANGED <<tree, catalog, treeOp, removing, stamp, treeUsed>>

EditCheckout(n) ==
  /\ treeUsed.edits < MaxTreeEdits /\ TreeSpend("edits")
  /\ \/ tree[n].disk # "none" /\ SetTree(n, "disk", "clean")
     \/ \E work \in {"work", "ignored", "ahead"} : tree[n].disk = "clean" /\ SetTree(n, "disk", work)
     \/ tree[n].disk = "none" /\ tree[n].branch /\ SetTree(n, "branch", FALSE)
  /\ UNCHANGED <<catalog, queuedOp, treeOp, removing, stamp>>

TreeCrash ==
  /\ treeOp # IdleTree /\ treeUsed.crashes < MaxTreeCrashes /\ TreeSpend("crashes")
  /\ FinishTree /\ queuedOp' = None
  /\ UNCHANGED <<tree, catalog, stamp>>

TreeNext ==
  \/ LookAtCatalog \/ StartQueued \/ CancelQueued
  \/ \E a \in {"create", "keep", "remove"}, n \in Names : AdmitTree(a, n) \/ StartUnqueued(a, n)
  \/ WriteRecord \/ AddCheckout \/ RegisterCheckout \/ KeepTree
  \/ InspectCheckout \/ RemoveCheckout \/ UnlinkRecord \/ ForgetWorkspace
  \/ \E n \in Names : OpenSession(n) \/ EditCheckout(n)
  \/ TreeCrash

(***************************************************************************)
(* Properties.                                                             *)
(***************************************************************************)
\* A Session never loses the checkout it was opened on, although it is opened between
\* the steps of a removal or after one that the process died in (_worktree_removals).
SessionKeepsCheckout ==
  \A n \in Names : tree[n].sessions => tree[n].disk # "none"

\* An operation admitted on a catalog changes only the worktree its user saw: not one
\* that was removed and made again, or kept, before it ran (catalog_hash).
ChangedAsSeen ==
  [][\A n \in Names :
       tree[n].record > 0 /\ tree'[n].record # tree[n].record /\ treeOp.seen # None
       /\ treeOp.action # "create" => <<n, tree[n].record>> \in treeOp.seen]_treeVars

\* Both: whoever removes a checkout saw it, and nobody is opened on it.
CheckoutsAreSafe == []SessionKeepsCheckout /\ ChangedAsSeen
=============================================================================
