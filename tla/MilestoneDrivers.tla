-------------------------- MODULE MilestoneDrivers -------------------------
(***************************************************************************)
(* Everything that drives the Work Graph forward, at once:                 *)
(*                                                                         *)
(*   - agent threads, which after a user's turn run drive_workgraph        *)
(*     (src/agent.rs) and mark each milestone done whatever the turn did;  *)
(*   - callers of advance_one_milestone (src/background.rs): the daemon's  *)
(*     workgraph thread and headless background processes, which first     *)
(*     make a plan file for the milestone and then execute it;             *)
(*   - the `milestone` tool, which any running turn may call;              *)
(*   - a client's milestone reset and the issue seeder.                    *)
(*                                                                         *)
(* A driver reads the graph without the lock, runs a turn that lasts for   *)
(* minutes, and writes the outcome back under the lock; nothing claims the *)
(* milestone in between.  Each locked update is one step here, which       *)
(* WorkGraphStore justifies.                                               *)
(***************************************************************************)
EXTENDS WorkGraphSpec

CONSTANTS Sessions,     \* agent threads that run drive_workgraph
          Advancers,    \* threads that call advance_one_milestone
          MaxAuto       \* MAX_AUTO: milestones driven after one user turn

ASSUME DriversAssumption ==
  Sessions \cap Advancers = {} /\ MaxAuto \in Nat

Drivers == Sessions \cup Advancers

\* `graph` of WorkGraphSpec is workgraph.json.
VARIABLES
  plans,    \* the plan file of each milestone id
  pc,       \* where each driver is
  cur,      \* the milestone id each driver works on
  budget,   \* milestones a session may still drive after this user turn
  used      \* history: the disruptive tool calls made so far

vars == <<graph, plans, pc, cur, budget, used>>

PlanStates == {"none", "good", "corrupt"}

SessionPCs == {"idle", "turn", "pick", "reread", "driving", "writeback", "dead"}
AdvancerPCs ==
  {"idle", "check_plan", "planning", "plan_failed", "read_plan", "executing",
   "confirm", "writeback", "dead"}

InTurn(d) == pc[d] \in {"turn", "driving", "planning", "executing"}

Goto(d, l) == pc' = [pc EXCEPT ![d] = l]

Init ==
  /\ \E todos \in SUBSET Ids : \E done \in SUBSET todos :
        graph = MigratedTodos(todos, done)
  /\ plans = [i \in Ids |-> "none"]
  /\ pc = [d \in Drivers |-> "idle"]
  /\ cur = [d \in Drivers |-> 0]
  /\ budget = [s \in Sessions |-> 0]
  /\ used = {}

-----------------------------------------------------------------------------
\* What the model does inside a turn: any number of `milestone` tool calls.

EditAdd(d) ==
  /\ InTurn(d)
  /\ NextId(graph) \in Ids                              \* bound
  /\ graph' \in AddOutcomes(graph)
  /\ UNCHANGED <<plans, pc, cur, budget, used>>

EditStart(d) ==
  /\ InTurn(d)
  /\ graph' \in StatusOutcomes(graph, "in_progress")
  /\ used' = used \cup {"start"}
  /\ UNCHANGED <<plans, pc, cur, budget>>

EditDone(d) ==
  /\ InTurn(d)
  /\ graph' \in StatusOutcomes(graph, "done")
  /\ UNCHANGED <<plans, pc, cur, budget, used>>

EditRemove(d) ==
  /\ InTurn(d)
  /\ graph' \in RemoveOutcomes(graph)
  /\ used' = used \cup {"remove"}
  /\ UNCHANGED <<plans, pc, cur, budget>>

Edit(d) == EditAdd(d) \/ EditStart(d) \/ EditDone(d) \/ EditRemove(d)

-----------------------------------------------------------------------------
\* An agent thread: the user's turn, then drive_workgraph.

StartUserTurn(s) ==
  /\ pc[s] = "idle"
  /\ Goto(s, "turn")
  /\ UNCHANGED <<graph, plans, cur, budget, used>>

EndUserTurn(s) ==
  /\ pc[s] = "turn"
  /\ Goto(s, "pick")
  /\ budget' = [budget EXCEPT ![s] = MaxAuto]
  /\ UNCHANGED <<graph, plans, cur, used>>

\* Mutant: the loop has no MAX_AUTO.
DrivePickUnbounded(s) ==
  /\ pc[s] = "pick"
  /\ IF Ready(graph) # {}
     THEN /\ cur' = [cur EXCEPT ![s] = NextReady(graph)]
          /\ budget' = [budget EXCEPT ![s] = @ - 1]
          /\ Goto(s, "reread")
     ELSE /\ Goto(s, "idle")
          /\ cur' = [cur EXCEPT ![s] = 0]
          /\ budget' = [budget EXCEPT ![s] = 0]
  /\ UNCHANGED <<graph, plans, used>>

\* The head of the loop: read the graph, take the next ready milestone.
DrivePick(s) ==
  /\ pc[s] = "pick"
  /\ IF budget[s] > 0 /\ Ready(graph) # {}
     THEN /\ cur' = [cur EXCEPT ![s] = NextReady(graph)]
          /\ budget' = [budget EXCEPT ![s] = @ - 1]
          /\ Goto(s, "reread")
     ELSE /\ Goto(s, "idle")
          /\ cur' = [cur EXCEPT ![s] = 0]
          /\ budget' = [budget EXCEPT ![s] = 0]
  /\ UNCHANGED <<graph, plans, used>>

\* Mutant: the second read expects the milestone to be still pending.
DriveRereadPending(s) ==
  /\ pc[s] = "reread"
  /\ Goto(s, IF cur[s] \in DOMAIN graph /\ graph[cur[s]].status = "pending"
             THEN "driving" ELSE "dead")
  /\ UNCHANGED <<graph, plans, cur, budget, used>>

\* The second read, with .expect("just read, must exist").
DriveReread(s) ==
  /\ pc[s] = "reread"
  /\ Goto(s, IF cur[s] \in DOMAIN graph THEN "driving" ELSE "dead")
  /\ UNCHANGED <<graph, plans, cur, budget, used>>

\* However the turn ended, cancelled, failed or capped, it is written back.
EndDriveTurn(s) ==
  /\ pc[s] = "driving"
  /\ Goto(s, "writeback")
  /\ UNCHANGED <<graph, plans, cur, budget, used>>

\* Mutant: the status is assigned without recomputing the dependents.
DriveWritebackAlone(s) ==
  /\ s \in Sessions /\ pc[s] = "writeback"
  /\ graph' = IF cur[s] \in DOMAIN graph
              THEN WithStatus(graph, cur[s], "done") ELSE graph
  /\ Goto(s, "pick")
  /\ UNCHANGED <<plans, cur, budget, used>>

DriveWriteback(s) ==
  /\ s \in Sessions /\ pc[s] = "writeback"
  /\ graph' = SetStatus(graph, cur[s], "done")
  /\ Goto(s, "pick")
  /\ UNCHANGED <<plans, cur, budget, used>>

-----------------------------------------------------------------------------
\* advance_one_milestone.

AdvancePick(a) ==
  /\ pc[a] = "idle"
  /\ Ready(graph) # {}
  /\ cur' = [cur EXCEPT ![a] = NextReady(graph)]
  /\ Goto(a, "check_plan")
  /\ UNCHANGED <<graph, plans, budget, used>>

\* plan_exists: a plan file that does not parse still exists.
CheckPlan(a) ==
  /\ pc[a] = "check_plan"
  /\ Goto(a, IF plans[cur[a]] = "none" THEN "planning" ELSE "read_plan")
  /\ UNCHANGED <<graph, plans, cur, budget, used>>

\* The plan turn is asked to write the plan file as JSON by itself.
WritePlan(a) ==
  /\ pc[a] = "planning"
  /\ \E p \in PlanStates \ {"none"} : plans' = [plans EXCEPT ![cur[a]] = p]
  /\ UNCHANGED <<graph, pc, cur, budget, used>>

\* run_plan_turn succeeds only if the file is there and parses.
PlanTurnOk(a) ==
  /\ pc[a] = "planning"
  /\ plans[cur[a]] = "good"
  /\ Goto(a, "read_plan")
  /\ UNCHANGED <<graph, plans, cur, budget, used>>

\* The turn panicked, wrote nothing, or wrote what does not parse.
PlanTurnFails(a) ==
  /\ pc[a] = "planning"
  /\ Goto(a, "plan_failed")
  /\ UNCHANGED <<graph, plans, cur, budget, used>>

MarkBlocked(a) ==
  /\ pc[a] = "plan_failed"
  /\ graph' = SetStatus(graph, cur[a], "blocked")
  /\ Goto(a, "idle")
  /\ UNCHANGED <<plans, cur, budget, used>>

\* read_plan: an unreadable plan ends the call with an error.
ReadPlan(a) ==
  /\ pc[a] = "read_plan"
  /\ Goto(a, IF plans[cur[a]] = "good" THEN "executing" ELSE "idle")
  /\ UNCHANGED <<graph, plans, cur, budget, used>>

ExecTurnOk(a) ==
  /\ pc[a] = "executing"
  /\ Goto(a, "confirm")
  /\ UNCHANGED <<graph, plans, cur, budget, used>>

\* A panic or last_error: the call returns Err and the status stays.
ExecTurnFails(a) ==
  /\ pc[a] = "executing"
  /\ Goto(a, "idle")
  /\ UNCHANGED <<graph, plans, cur, budget, used>>

\* The read after the turn, with .expect("just read").
Confirm(a) ==
  /\ pc[a] = "confirm"
  /\ Goto(a, IF cur[a] \in DOMAIN graph THEN "writeback" ELSE "dead")
  /\ UNCHANGED <<graph, plans, cur, budget, used>>

AdvanceWriteback(a) ==
  /\ a \in Advancers /\ pc[a] = "writeback"
  /\ graph' = SetStatus(graph, cur[a], "done")
  /\ Goto(a, "idle")
  /\ UNCHANGED <<plans, cur, budget, used>>

-----------------------------------------------------------------------------
\* Writers without a turn.

ClientReset ==
  /\ graph' \in ResetOutcomes(graph)
  /\ UNCHANGED <<plans, pc, cur, budget, used>>

\* A background process starts: it takes every active milestone for stale.
BackgroundReset ==
  /\ graph' = ResetInProgress(graph)
  /\ UNCHANGED <<plans, pc, cur, budget, used>>

AutotaskSeed ==
  /\ graph' \in BatchOutcomes(graph)
  /\ UNCHANGED <<plans, pc, cur, budget, used>>

-----------------------------------------------------------------------------
\* The steps a thread takes on its own once it is in the code.
SessionSteps(s) ==
  EndUserTurn(s) \/ DrivePick(s) \/ DriveReread(s) \/ EndDriveTurn(s)
    \/ DriveWriteback(s)

AdvancerSteps(a) ==
  AdvancePick(a) \/ CheckPlan(a) \/ PlanTurnOk(a) \/ PlanTurnFails(a)
    \/ MarkBlocked(a) \/ ReadPlan(a) \/ ExecTurnOk(a) \/ ExecTurnFails(a)
    \/ Confirm(a) \/ AdvanceWriteback(a)

Next ==
  \/ \E s \in Sessions : StartUserTurn(s) \/ SessionSteps(s)
  \/ \E a \in Advancers : WritePlan(a) \/ AdvancerSteps(a)
  \/ \E d \in Drivers : Edit(d)
  \/ ClientReset
  \/ BackgroundReset
  \/ AutotaskSeed

(***************************************************************************)
(* A turn ends (the tool cap bounds it), the tick comes again, and a plan  *)
(* or an execution that is tried again and again succeeds at some point.   *)
(***************************************************************************)
Fairness ==
  /\ \A s \in Sessions : WF_vars(SessionSteps(s))
  /\ \A a \in Advancers :
       /\ WF_vars(AdvancerSteps(a))
       /\ SF_vars(pc[a] = "planning" /\ WritePlan(a) /\ plans'[cur[a]] = "good")
       /\ SF_vars(PlanTurnOk(a))
       /\ SF_vars(ExecTurnOk(a))

Spec == Init /\ [][Next]_vars /\ Fairness

-----------------------------------------------------------------------------
(***************************************************************************)
(* The type invariant.                                                     *)
(***************************************************************************)
TypeOK ==
  /\ IsGraph(graph)
  /\ plans \in [Ids -> PlanStates]
  /\ pc \in [Drivers -> SessionPCs \cup AdvancerPCs]
  /\ \A s \in Sessions : pc[s] \in SessionPCs
  /\ \A a \in Advancers : pc[a] \in AdvancerPCs
  /\ cur \in [Drivers -> Ids \cup {0}]
  /\ \A d \in Drivers : pc[d] \notin {"idle", "turn", "pick"} => cur[d] \in Ids
  /\ budget \in [Sessions -> 0 .. MaxAuto]
  /\ used \subseteq {"start", "remove"}

(***************************************************************************)
(* All the drivers together still only apply operations of the atomic      *)
(* graph, so everything proved of WorkGraphSpec (resolving and acyclic     *)
(* dependencies, justified blocks, a scheduler that is never wedged) holds *)
(* of the composed system.                                                 *)
(***************************************************************************)
ImplementsGraph == GraphSpec

(***************************************************************************)
(* Neither .expect fires, in advance_one_milestone or in drive_workgraph,  *)
(* unless some turn removed a milestone.                                   *)
(***************************************************************************)
DriversSurvive ==
  "remove" \notin used => \A d \in Drivers : pc[d] # "dead"

(***************************************************************************)
(* Completed work is undone only by a `milestone start` on it, or by a     *)
(* driver whose plan turn for that very milestone failed after another     *)
(* driver had completed it.  No reset, seeding or write-back does it.      *)
(***************************************************************************)
CompletionKept ==
  [][\A n \in DOMAIN graph \cap DOMAIN graph' :
       graph[n].status = "done" /\ graph'[n].status # "done" =>
         \/ \E d \in Drivers : EditStart(d) /\ graph'[n].status = "in_progress"
         \/ \E a \in Advancers : pc[a] = "plan_failed" /\ cur[a] = n]_vars

(***************************************************************************)
(* If no turn starts or removes a milestone by hand and no plan file is    *)
(* left unreadable, then every milestone is eventually done and stays so:  *)
(* drivers that race for the same milestone do not starve the others.      *)
(***************************************************************************)
EverythingGetsDone ==
  [](used = {} /\ \A i \in Ids : plans[i] # "corrupt") => <>[]AllDone(graph)

(***************************************************************************)
(* The promise of the comment in advance_one_milestone: after a failed     *)
(* plan turn the milestone is marked blocked.                              *)
(***************************************************************************)
PlanFailureBlocks ==
  [][\A a \in Advancers :
       MarkBlocked(a) /\ cur[a] \in DOMAIN graph =>
         graph'[cur[a]].status = "blocked"]_vars
=============================================================================
