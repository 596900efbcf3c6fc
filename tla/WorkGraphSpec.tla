--------------------------- MODULE WorkGraphSpec ---------------------------
(***************************************************************************)
(* What the Work Graph promises its writers: every read-modify-write is    *)
(* one atomic step on one graph.  One action per operation that some part  *)
(* of the system applies inside WorkGraph::with_lock.                      *)
(*                                                                         *)
(* WorkGraphStore implements this specification with a lock file, a        *)
(* temporary file and a rename.                                            *)
(***************************************************************************)
EXTENDS WorkGraph

VARIABLE graph          \* the graph that WorkGraph::read would return

graphVars == <<graph>>

\* No file yet: an empty graph, or what todos.json migrates to.
GraphInit ==
  \E todos \in SUBSET Ids : \E done \in SUBSET todos :
     graph = MigratedTodos(todos, done)

\* milestone add, generate_milestones, reason convert.
AddMilestone ==
  /\ NextId(graph) \in Ids                              \* bound
  /\ graph' \in AddOutcomes(graph)

\* poll_and_seed of the autotask thread.
SeedIssues == graph' \in BatchOutcomes(graph)

\* milestone start: no dependency check.
StartMilestone == graph' \in StatusOutcomes(graph, "in_progress")

\* milestone done, drive_workgraph and advance_one_milestone.
FinishMilestone == graph' \in StatusOutcomes(graph, "done")

\* advance_one_milestone after a failed plan turn.
BlockMilestone == graph' \in StatusOutcomes(graph, "blocked")

RemoveMilestone == graph' \in RemoveOutcomes(graph)

\* SessionManager::milestone_reset.
ResetOne == graph' \in ResetOutcomes(graph)

\* run_background_cfg before its loop.
ResetStale == graph' = ResetInProgress(graph)

GraphNext ==
  \/ AddMilestone
  \/ SeedIssues
  \/ StartMilestone
  \/ FinishMilestone
  \/ BlockMilestone
  \/ RemoveMilestone
  \/ ResetOne
  \/ ResetStale

GraphSpec == GraphInit /\ [][GraphNext]_graphVars

-----------------------------------------------------------------------------
(***************************************************************************)
(* The graph is a well-typed value.                                        *)
(***************************************************************************)
GraphTyped == IsGraph(graph)

(***************************************************************************)
(* Removing milestones and handing out ids again (next_id is the maximum   *)
(* plus one, so the id of a removed last milestone is reused) never leaves *)
(* a dependency that names no milestone.                                   *)
(***************************************************************************)
DepsAlwaysResolve == DepsResolve(graph)

(***************************************************************************)
(* No sequence of operations builds a dependency cycle, so the cycle check *)
(* in WorkGraph::add can never be what refuses an addition.                *)
(***************************************************************************)
Acyclic == NoCycle(graph)

(***************************************************************************)
(* A milestone shown as blocked really has a dependency that is not done:  *)
(* no operation, including reopening a dependency or setting the status    *)
(* blocked by hand, leaves the derived status behind.                      *)
(***************************************************************************)
BlockedIsDerived == BlockedJustified(graph)

(***************************************************************************)
(* The scheduler cannot run dry while work is waiting: if some milestone   *)
(* is pending or blocked then next_ready finds one, or one is active.      *)
(***************************************************************************)
NeverWedged == ~Wedged(graph)

-----------------------------------------------------------------------------
(***************************************************************************)
(* The strengthening that makes the four properties inductive: above all,  *)
(* dependencies are older than their dependents, because add accepts only  *)
(* ids that exist and then hands out a larger one.                         *)
(***************************************************************************)
IndInv == Sound(graph)
=============================================================================
