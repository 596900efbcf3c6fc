----------------------------- MODULE WorkGraph -----------------------------
(***************************************************************************)
(* The Work Graph of src/workgraph.rs as a value: a dependency-ordered set *)
(* of milestones and the pure operations the tool, the agent loop, the     *)
(* daemon and the background runner apply to it.                           *)
(*                                                                         *)
(* A graph is a function from milestone ids to milestones.  The code keeps *)
(* a vector, but ids are unique and nothing below depends on the order of  *)
(* the vector.  Titles and the `touched` trail are left out: no operation  *)
(* branches on them, apart from the empty title, which is the parameter    *)
(* `titled` of Add.                                                        *)
(***************************************************************************)
EXTENDS Integers

CONSTANT MaxId          \* the largest id a bounded run may hand out

ASSUME MaxIdAssumption == MaxId \in Nat

Ids == 1 .. MaxId

Statuses ==
  {"pending", "in_progress", "blocked", "done", "hypothesis", "locked"}

Milestone == [deps : SUBSET Ids, status : Statuses]

IsGraph(g) == DOMAIN g \subseteq Ids /\ g \in [DOMAIN g -> Milestone]

-----------------------------------------------------------------------------
\* Queries.

\* A dependency that names no node counts as not done.
DepsDone(g, n) ==
  \A d \in g[n].deps : d \in DOMAIN g /\ g[d].status = "done"

Ready(g) == {n \in DOMAIN g : g[n].status = "pending" /\ DepsDone(g, n)}

\* next_ready: the id is meaningful only when Ready(g) is not empty.
NextReady(g) == CHOOSE n \in Ready(g) : \A m \in Ready(g) : n <= m

NextId(g) ==
  IF DOMAIN g = {} THEN 1
  ELSE 1 + CHOOSE n \in DOMAIN g : \A m \in DOMAIN g : m <= n

\* Some node lists id among its dependencies.
DependedOn(g, id) == \E n \in DOMAIN g : id \in g[n].deps

AllDone(g) == \A n \in DOMAIN g : g[n].status = "done"

-----------------------------------------------------------------------------
\* Updates.  Each returns the new graph; a refused update returns g itself.

\* Mutant: a blocked milestone is never released.
DerivedNeverReleases(g, n) ==
  IF g[n].status \in {"pending", "blocked"} /\ ~DepsDone(g, n)
  THEN "blocked" ELSE g[n].status

\* The derived status of n, computed from the statuses before the pass.
Derived(g, n) ==
  IF g[n].status \in {"pending", "blocked"}
  THEN IF DepsDone(g, n) THEN "pending" ELSE "blocked"
  ELSE g[n].status

RecomputeBlocked(g) ==
  [n \in DOMAIN g |-> [deps |-> g[n].deps, status |-> Derived(g, n)]]

\* Mutant: the ids of the dependencies are not looked up.
AddRefusedUntitledOnly(g, titled, deps) == ~titled

AddRefused(g, titled, deps) == ~titled \/ ~(deps \subseteq DOMAIN g)

Push(g, deps) ==
  LET id == NextId(g)
  IN  [n \in DOMAIN g \cup {id} |->
         IF n = id THEN [deps |-> deps, status |-> "pending"] ELSE g[n]]

Add(g, titled, deps) ==
  IF AddRefused(g, titled, deps) THEN g ELSE RecomputeBlocked(Push(g, deps))

\* Mutant: an inclusive range where the code's is exclusive.
AddBatchOneTooMany(g, k) ==
  RecomputeBlocked(
    [n \in DOMAIN g \cup (NextId(g) .. NextId(g) + k) |->
       IF n \in DOMAIN g THEN g[n] ELSE [deps |-> {}, status |-> "pending"]])

\* seed_issues_as_milestones: k titled, dependency-less additions in a row.
\* The new nodes are ready at once, so one recomputation does for all of them.
AddBatch(g, k) ==
  RecomputeBlocked(
    [n \in DOMAIN g \cup (NextId(g) .. NextId(g) + k - 1) |->
       IF n \in DOMAIN g THEN g[n] ELSE [deps |-> {}, status |-> "pending"]])

\* The assignment set_status makes, before it recomputes.
WithStatus(g, id, status) ==
  [n \in DOMAIN g |->
     IF n = id THEN [deps |-> g[n].deps, status |-> status] ELSE g[n]]

\* Mutant: the dependents are not recomputed.
SetStatusAlone(g, id, status) ==
  IF id \in DOMAIN g THEN WithStatus(g, id, status) ELSE g

SetStatus(g, id, status) ==
  IF id \in DOMAIN g THEN RecomputeBlocked(WithStatus(g, id, status)) ELSE g

\* Mutant: a milestone others depend on can be removed.
RemoveRefusedIfAbsent(g, id) == id \notin DOMAIN g

RemoveRefused(g, id) == DependedOn(g, id) \/ id \notin DOMAIN g

Remove(g, id) ==
  IF RemoveRefused(g, id) THEN g
  ELSE RecomputeBlocked([n \in DOMAIN g \ {id} |-> g[n]])

\* Mutant: a done milestone is reset too.
ResetMilestoneDoneToo(g, id) ==
  IF id \in DOMAIN g THEN SetStatus(g, id, "pending") ELSE g

\* SessionManager::milestone_reset: a done milestone is left alone.
ResetMilestone(g, id) ==
  IF id \in DOMAIN g /\ g[id].status # "done"
  THEN SetStatus(g, id, "pending") ELSE g

\* The cross-run reset of run_background_cfg: in_progress goes back to
\* pending, and the derived statuses are NOT recomputed.
ResetInProgress(g) ==
  [n \in DOMAIN g |->
     IF g[n].status = "in_progress"
     THEN [deps |-> g[n].deps, status |-> "pending"] ELSE g[n]]

\* migrate_todos: one dependency-less milestone per todo, done or pending.
MigratedTodos(todos, done) ==
  [n \in todos |->
     [deps |-> {}, status |-> IF n \in done THEN "done" ELSE "pending"]]

\* What a closure under with_lock can turn g into: one set per caller.
AddOutcomes(g) ==
  {Add(g, titled, deps) : titled \in BOOLEAN, deps \in SUBSET Ids}
BatchOutcomes(g) ==
  {AddBatch(g, k) : k \in {j \in 1 .. MaxId : NextId(g) + j - 1 \in Ids}}
StatusOutcomes(g, status) == {SetStatus(g, id, status) : id \in Ids}
RemoveOutcomes(g) == {Remove(g, id) : id \in Ids}
ResetOutcomes(g) == {ResetMilestone(g, id) : id \in Ids}

Outcomes(g) ==
  (IF NextId(g) \in Ids THEN AddOutcomes(g) ELSE {})    \* bound
    \cup BatchOutcomes(g)
    \cup StatusOutcomes(g, "in_progress")
    \cup StatusOutcomes(g, "done")
    \cup StatusOutcomes(g, "blocked")
    \cup RemoveOutcomes(g)
    \cup ResetOutcomes(g)
    \cup {ResetInProgress(g)}

-----------------------------------------------------------------------------
\* Well-formedness of a graph value.

DepsResolve(g) == \A n \in DOMAIN g : g[n].deps \subseteq DOMAIN g

\* No set of nodes in which every node waits for another of the set.
NoCycle(g) ==
  \A S \in SUBSET DOMAIN g :
     S # {} => \E n \in S : g[n].deps \cap S = {}

BlockedJustified(g) ==
  \A n \in DOMAIN g : g[n].status = "blocked" => ~DepsDone(g, n)

\* Dependencies are older than their dependents.
DepsOlder(g) == \A n \in DOMAIN g : \A d \in g[n].deps : d < n

\* What every graph the system stores satisfies.
Sound(g) ==
  /\ IsGraph(g)
  /\ DepsResolve(g)
  /\ DepsOlder(g)
  /\ BlockedJustified(g)

\* While work is waiting, something can be started or is already active.
Wedged(g) ==
  /\ \E n \in DOMAIN g : g[n].status \in {"pending", "blocked"}
  /\ Ready(g) = {}
  /\ \A n \in DOMAIN g : g[n].status \in {"pending", "blocked", "done"}
=============================================================================
