----------------------- MODULE MilestoneDriversProofs ------------------------
(***************************************************************************)
(* The drivers together, for every set of threads, every cap and every     *)
(* MaxId: types, that neither .expect fires, that completed work is kept,  *)
(* and that the composed system implements the atomic graph, the           *)
(* specification WorkGraphSpec, whose own invariants end the module.       *)
(***************************************************************************)
EXTENDS MilestoneDrivers, WorkGraphLemmas

\* A driver past its read works on a milestone of the graph.
Present ==
  "remove" \notin used =>
    \A d \in Drivers : pc[d] \notin {"idle", "turn", "pick"} => cur[d] \in DOMAIN graph

DriversInv == TypeOK /\ Sound(graph) /\ Present /\ DriversSurvive

-----------------------------------------------------------------------------
\* What the operations do to one milestone.

(***************************************************************************)
(* The recomputation touches neither what is done nor what is in progress  *)
(* (src/workgraph.rs recompute_blocked).                                   *)
(***************************************************************************)
LEMMA RecomputeKeeps ==
  ASSUME NEW g
  PROVE  /\ DOMAIN RecomputeBlocked(g) = DOMAIN g
         /\ \A n \in DOMAIN g : g[n].status \in {"done", "in_progress"} =>
              RecomputeBlocked(g)[n].status = g[n].status
BY DEF RecomputeBlocked, Derived

(***************************************************************************)
(* set_status changes the status of one milestone, and no other one that   *)
(* is done (src/workgraph.rs).                                             *)
(***************************************************************************)
LEMMA SetStatusKeeps ==
  ASSUME NEW g, NEW id, NEW status
  PROVE  /\ DOMAIN SetStatus(g, id, status) = DOMAIN g
         /\ \A n \in DOMAIN g :
              /\ n # id /\ g[n].status = "done" => SetStatus(g, id, status)[n].status = "done"
              /\ n = id /\ status \in {"done", "in_progress"} =>
                   SetStatus(g, id, status)[n].status = status
<1>1. CASE id \in DOMAIN g
  <2> DEFINE w == WithStatus(g, id, status)
  <2>1. /\ DOMAIN w = DOMAIN g
        /\ \A n \in DOMAIN g : w[n].status = IF n = id THEN status ELSE g[n].status
    BY DEF WithStatus
  <2> HIDE DEF w
  <2>2. /\ DOMAIN RecomputeBlocked(w) = DOMAIN w
        /\ \A n \in DOMAIN w : w[n].status \in {"done", "in_progress"} =>
             RecomputeBlocked(w)[n].status = w[n].status
    BY RecomputeKeeps
  <2>3. SetStatus(g, id, status) = RecomputeBlocked(w)
    BY <1>1 DEF SetStatus, w
  <2> QED BY <2>1, <2>2, <2>3
<1>2. CASE id \notin DOMAIN g
  BY <1>2 DEF SetStatus
<1> QED BY <1>1, <1>2

(***************************************************************************)
(* The closures that finish, add, seed or reset: no milestone leaves the   *)
(* graph, and what is done stays done.                                     *)
(***************************************************************************)
LEMMA HarmlessOutcomes ==
  ASSUME NEW g, Sound(g),
         NEW h \in AddOutcomes(g) \cup BatchOutcomes(g) \cup StatusOutcomes(g, "done")
                     \cup ResetOutcomes(g) \cup {ResetInProgress(g)}
  PROVE  /\ DOMAIN g \subseteq DOMAIN h
         /\ \A n \in DOMAIN g : g[n].status = "done" => h[n].status = "done"
<1>1. NextId(g) \in Nat /\ \A n \in DOMAIN g : n < NextId(g) /\ n # NextId(g)
  <2>1. NextId(g) \in Nat /\ \A n \in DOMAIN g : n < NextId(g)
    BY NextIdFresh DEF Sound
  <2>2. DOMAIN g \subseteq Nat
    BY MaxIdAssumption DEF Sound, IsGraph, Ids
  <2> QED BY <2>1, <2>2
<1>2. CASE h \in AddOutcomes(g)
  <2>1. PICK titled \in BOOLEAN, deps \in SUBSET Ids : h = Add(g, titled, deps)
    BY <1>2 DEF AddOutcomes
  <2>2. CASE AddRefused(g, titled, deps)
    BY <2>1, <2>2 DEF Add
  <2>3. CASE ~AddRefused(g, titled, deps)
    <3> DEFINE p == Push(g, deps)
    <3>1. DOMAIN g \subseteq DOMAIN p /\ \A n \in DOMAIN g : p[n] = g[n]
      BY <1>1 DEF Push
    <3>2. h = RecomputeBlocked(p)
      BY <2>1, <2>3 DEF Add
    <3> HIDE DEF p
    <3> QED BY <3>1, <3>2, RecomputeKeeps
  <2> QED BY <2>2, <2>3
<1>3. CASE h \in BatchOutcomes(g)
  <2>1. PICK k \in 1 .. MaxId : h = AddBatch(g, k)
    BY <1>3 DEF BatchOutcomes
  <2> DEFINE p == [n \in DOMAIN g \cup (NextId(g) .. NextId(g) + k - 1) |->
                     IF n \in DOMAIN g THEN g[n] ELSE [deps |-> {}, status |-> "pending"]]
  <2>2. DOMAIN g \subseteq DOMAIN p /\ \A n \in DOMAIN g : p[n] = g[n]
    OBVIOUS
  <2>3. h = RecomputeBlocked(p)
    BY <2>1 DEF AddBatch
  <2> HIDE DEF p
  <2> QED BY <2>2, <2>3, RecomputeKeeps
<1>4. CASE h \in StatusOutcomes(g, "done")
  <2>1. PICK id \in Ids : h = SetStatus(g, id, "done")
    BY <1>4 DEF StatusOutcomes
  <2> QED BY <2>1, SetStatusKeeps
<1>5. CASE h \in ResetOutcomes(g)
  <2>1. PICK id \in Ids : h = ResetMilestone(g, id)
    BY <1>5 DEF ResetOutcomes
  <2> QED BY <2>1, SetStatusKeeps DEF ResetMilestone
<1>6. CASE h = ResetInProgress(g)
  BY <1>6 DEF ResetInProgress
<1> QED BY <1>2, <1>3, <1>4, <1>5, <1>6

(***************************************************************************)
(* Removing a milestone undoes no other one (src/workgraph.rs remove).     *)
(***************************************************************************)
LEMMA RemoveKeepsDone ==
  ASSUME NEW g, NEW h \in RemoveOutcomes(g)
  PROVE  \A n \in DOMAIN g \cap DOMAIN h : g[n].status = "done" => h[n].status = "done"
<1>1. PICK id \in Ids : h = Remove(g, id)
  BY DEF RemoveOutcomes
<1>2. CASE RemoveRefused(g, id)
  BY <1>1, <1>2 DEF Remove
<1>3. CASE ~RemoveRefused(g, id)
  <2> DEFINE p == [n \in DOMAIN g \ {id} |-> g[n]]
  <2>1. DOMAIN p = DOMAIN g \ {id} /\ \A n \in DOMAIN p : p[n] = g[n]
    OBVIOUS
  <2>2. h = RecomputeBlocked(p)
    BY <1>1, <1>3 DEF Remove
  <2> HIDE DEF p
  <2> QED BY <2>1, <2>2, RecomputeKeeps
<1> QED BY <1>2, <1>3

(***************************************************************************)
(* The least ready milestone is a milestone (src/workgraph.rs next_ready). *)
(***************************************************************************)
LEMMA NextReadyIsThere ==
  ASSUME NEW g, IsGraph(g), Ready(g) # {}
  PROVE  NextReady(g) \in DOMAIN g /\ NextReady(g) \in Ids
<1>1. Ready(g) \subseteq DOMAIN g /\ DOMAIN g \subseteq Ids
  BY DEF Ready, IsGraph
<1>2. \E n \in Ready(g) : \A m \in Ready(g) : n <= m
  BY <1>1, LeastOf, MaxIdAssumption DEF Ids
<1> QED BY <1>1, <1>2 DEF NextReady

-----------------------------------------------------------------------------
\* What a step does to the graph.

\* The steps of a driver that leave the graph alone.
Quiet(d) ==
  \/ d \in Sessions /\ (\/ StartUserTurn(d) \/ EndUserTurn(d) \/ DrivePick(d)
                        \/ DriveReread(d) \/ EndDriveTurn(d))
  \/ d \in Advancers /\ (\/ WritePlan(d) \/ AdvancePick(d) \/ CheckPlan(d)
                         \/ PlanTurnOk(d) \/ PlanTurnFails(d) \/ ReadPlan(d)
                         \/ ExecTurnOk(d) \/ ExecTurnFails(d) \/ Confirm(d))

Writeback(d) ==
  \/ d \in Sessions /\ DriveWriteback(d)
  \/ d \in Advancers /\ AdvanceWriteback(d)

Outside == ClientReset \/ BackgroundReset \/ AutotaskSeed

(***************************************************************************)
(* The steps of the system, by what they do to the graph.                  *)
(***************************************************************************)
LEMMA NextByKind ==
  ASSUME Next
  PROVE  \/ \E d \in Drivers : Quiet(d) \/ Writeback(d) \/ Edit(d)
         \/ \E a \in Advancers : MarkBlocked(a)
         \/ Outside
BY DEF Next, SessionSteps, AdvancerSteps, Quiet, Writeback, Outside, Drivers

(***************************************************************************)
(* Every step changes the graph by an outcome of one closure, or not.      *)
(***************************************************************************)
LEMMA GraphStep ==
  ASSUME TypeOK, [Next]_vars
  PROVE  graph' \in Outcomes(graph) \/ graph' = graph
<1>1. ASSUME NEW d \in Drivers, Quiet(d) PROVE graph' = graph
  BY <1>1 DEF Quiet, StartUserTurn, EndUserTurn, DrivePick, DriveReread, EndDriveTurn,
     WritePlan, AdvancePick, CheckPlan, PlanTurnOk, PlanTurnFails, ReadPlan, ExecTurnOk,
     ExecTurnFails, Confirm
<1>2. ASSUME NEW d \in Drivers, Writeback(d) PROVE graph' \in StatusOutcomes(graph, "done")
  <2>1. cur[d] \in Ids /\ graph' = SetStatus(graph, cur[d], "done")
    BY <1>2 DEF Writeback, DriveWriteback, AdvanceWriteback, TypeOK
  <2> QED BY <2>1 DEF StatusOutcomes
<1>3. ASSUME NEW a \in Advancers, MarkBlocked(a)
      PROVE  graph' \in StatusOutcomes(graph, "blocked")
  <2>1. cur[a] \in Ids /\ graph' = SetStatus(graph, cur[a], "blocked")
    BY <1>3 DEF MarkBlocked, TypeOK, Drivers
  <2> QED BY <2>1 DEF StatusOutcomes
<1>4. ASSUME NEW d \in Drivers, Edit(d) PROVE graph' \in Outcomes(graph)
  BY <1>4 DEF Edit, EditAdd, EditStart, EditDone, EditRemove, Outcomes
<1>5. CASE Outside
  BY <1>5 DEF Outside, ClientReset, BackgroundReset, AutotaskSeed, Outcomes
<1>6. CASE UNCHANGED vars
  BY <1>6 DEF vars
<1> QED BY <1>1, <1>2, <1>3, <1>4, <1>5, <1>6, NextByKind DEF Outcomes

(***************************************************************************)
(* A milestone leaves the graph only by a tool call that history records.  *)
(***************************************************************************)
LEMMA RemovalSeen ==
  ASSUME DriversInv, [Next]_vars
  PROVE  /\ used \subseteq used'
         /\ "remove" \notin used' => DOMAIN graph \subseteq DOMAIN graph'
<1>0. Sound(graph) /\ TypeOK
  BY DEF DriversInv
<1>1. ASSUME NEW d \in Drivers, Quiet(d) PROVE UNCHANGED <<graph, used>>
  BY <1>1 DEF Quiet, StartUserTurn, EndUserTurn, DrivePick, DriveReread, EndDriveTurn,
     WritePlan, AdvancePick, CheckPlan, PlanTurnOk, PlanTurnFails, ReadPlan, ExecTurnOk,
     ExecTurnFails, Confirm
<1>2. ASSUME NEW d \in Drivers, Writeback(d)
      PROVE  used' = used /\ DOMAIN graph' = DOMAIN graph
  BY <1>2, SetStatusKeeps DEF Writeback, DriveWriteback, AdvanceWriteback
<1>3. ASSUME NEW a \in Advancers, MarkBlocked(a)
      PROVE  used' = used /\ DOMAIN graph' = DOMAIN graph
  BY <1>3, SetStatusKeeps DEF MarkBlocked
<1>4. ASSUME NEW d \in Drivers, Edit(d)
      PROVE  /\ used \subseteq used'
             /\ "remove" \notin used' => DOMAIN graph \subseteq DOMAIN graph'
  <2>1. CASE EditAdd(d) \/ EditDone(d)
    BY <1>0, <2>1, HarmlessOutcomes DEF EditAdd, EditDone
  <2>2. CASE EditStart(d)
    BY <2>2, SetStatusKeeps DEF EditStart, StatusOutcomes
  <2>3. CASE EditRemove(d)
    BY <2>3 DEF EditRemove
  <2> QED BY <1>4, <2>1, <2>2, <2>3 DEF Edit
<1>5. CASE Outside
  BY <1>0, <1>5, HarmlessOutcomes DEF Outside, ClientReset, BackgroundReset, AutotaskSeed
<1>6. CASE UNCHANGED vars
  BY <1>6 DEF vars
<1> QED BY <1>1, <1>2, <1>3, <1>4, <1>5, <1>6, NextByKind

-----------------------------------------------------------------------------
\* Where the drivers are.

\* The types of everything but the graph.
ControlOK ==
  /\ plans \in [Ids -> PlanStates]
  /\ pc \in [Drivers -> SessionPCs \cup AdvancerPCs]
  /\ \A s \in Sessions : pc[s] \in SessionPCs
  /\ \A a \in Advancers : pc[a] \in AdvancerPCs
  /\ cur \in [Drivers -> Ids \cup {0}]
  /\ \A d \in Drivers : pc[d] \notin {"idle", "turn", "pick"} => cur[d] \in Ids
  /\ budget \in [Sessions -> 0 .. MaxAuto]
  /\ used \subseteq {"start", "remove"}

\* A driver goes on, and nothing else moves: from the places without a
\* milestone it picks one of the graph or stays among them, elsewhere it keeps
\* the one it has.
MovesTo(d, l) ==
  /\ Goto(d, l)
  /\ d \in Sessions => l \in SessionPCs
  /\ d \in Advancers => l \in AdvancerPCs
  /\ \/ l \in {"idle", "turn", "pick"}
     \/ cur'[d] \in DOMAIN graph \cap Ids /\ l # "dead"
     \/ /\ pc[d] \notin {"idle", "turn", "pick"} /\ cur' = cur
        /\ l = "dead" => cur[d] \notin DOMAIN graph
  /\ \E i \in Ids \cup {0} : cur' = [cur EXCEPT ![d] = i]

Moves(d) == \E l \in SessionPCs \cup AdvancerPCs : MovesTo(d, l)

(***************************************************************************)
(* The steps of a driver move it alone, and only a driver whose milestone  *)
(* is gone meets an .expect (src/agent.rs drive_workgraph,                 *)
(* src/background.rs advance_one_milestone).                               *)
(***************************************************************************)
LEMMA DriverMoves ==
  ASSUME TypeOK, Sound(graph), NEW d \in Drivers,
         Quiet(d) \/ Writeback(d) \/ (d \in Advancers /\ MarkBlocked(d))
  PROVE  Moves(d) \/ UNCHANGED <<pc, cur>>
<1>0. /\ d \in Sessions => d \notin Advancers
      /\ cur \in [Drivers -> Ids \cup {0}]
      /\ cur = [cur EXCEPT ![d] = cur[d]] /\ cur[d] \in Ids \cup {0}
      /\ pc[d] \notin {"idle", "turn", "pick"} => cur[d] \in Ids
  BY DriversAssumption DEF TypeOK
<1> USE DEF Moves, MovesTo, SessionPCs, AdvancerPCs
<1>1. ASSUME d \in Sessions, StartUserTurn(d) \/ EndUserTurn(d) PROVE Moves(d)
  BY <1>0, <1>1, Zenon DEF StartUserTurn, EndUserTurn
<1>2. ASSUME d \in Sessions, DrivePick(d) PROVE Moves(d)
  <2>1. CASE budget[d] > 0 /\ Ready(graph) # {}
    <3>1. NextReady(graph) \in DOMAIN graph /\ NextReady(graph) \in Ids
      BY <2>1, NextReadyIsThere DEF TypeOK
    <3>2. Goto(d, "reread") /\ cur' = [cur EXCEPT ![d] = NextReady(graph)]
      BY <1>2, <2>1 DEF DrivePick
    <3>3. cur'[d] \in DOMAIN graph \cap Ids
      BY <1>0, <3>1, <3>2
    <3>4. \E i \in Ids \cup {0} : cur' = [cur EXCEPT ![d] = i]
      BY <3>1, <3>2
    <3>5. "reread" \in SessionPCs
      BY DEF SessionPCs
    <3>6. MovesTo(d, "reread")
      BY <1>0, <1>2, <3>2, <3>3, <3>4
    <3> HIDE DEF SessionPCs, AdvancerPCs, MovesTo
    <3> QED BY <3>5, <3>6
  <2>2. CASE ~(budget[d] > 0 /\ Ready(graph) # {})
    <3>1. Goto(d, "idle") /\ cur' = [cur EXCEPT ![d] = 0]
      BY <1>2, <2>2 DEF DrivePick
    <3> QED BY <1>0, <1>2, <3>1
  <2> QED BY <2>1, <2>2
<1>3. ASSUME d \in Sessions, DriveReread(d) PROVE Moves(d)
  <2>1. CASE cur[d] \in DOMAIN graph
    BY <1>0, <1>3, <2>1 DEF DriveReread
  <2>2. CASE cur[d] \notin DOMAIN graph
    BY <1>0, <1>3, <2>2 DEF DriveReread
  <2> QED BY <2>1, <2>2
<1>4. ASSUME d \in Sessions, EndDriveTurn(d) \/ DriveWriteback(d) PROVE Moves(d)
  BY <1>0, <1>4 DEF EndDriveTurn, DriveWriteback
<1>5. ASSUME d \in Advancers, WritePlan(d) PROVE UNCHANGED <<pc, cur>>
  BY <1>5 DEF WritePlan
<1>6. ASSUME d \in Advancers, AdvancePick(d) PROVE Moves(d)
  <2>1. NextReady(graph) \in DOMAIN graph /\ NextReady(graph) \in Ids
    BY <1>6, NextReadyIsThere DEF TypeOK, AdvancePick
  <2>2. Goto(d, "check_plan") /\ cur' = [cur EXCEPT ![d] = NextReady(graph)]
    BY <1>6 DEF AdvancePick
  <2>3. cur'[d] \in DOMAIN graph \cap Ids
    BY <1>0, <2>1, <2>2
  <2>4. \E i \in Ids \cup {0} : cur' = [cur EXCEPT ![d] = i]
    BY <2>1, <2>2
  <2>5. "check_plan" \in AdvancerPCs
    BY DEF AdvancerPCs
  <2>6. MovesTo(d, "check_plan")
    BY <1>0, <1>6, <2>2, <2>3, <2>4
  <2> HIDE DEF SessionPCs, AdvancerPCs, MovesTo
  <2> QED BY <2>5, <2>6
<1>7. ASSUME d \in Advancers,
             \/ CheckPlan(d) \/ PlanTurnOk(d) \/ PlanTurnFails(d) \/ MarkBlocked(d)
             \/ ReadPlan(d) \/ ExecTurnOk(d) \/ ExecTurnFails(d) \/ AdvanceWriteback(d)
      PROVE  Moves(d)
  BY <1>0, <1>7 DEF CheckPlan, PlanTurnOk, PlanTurnFails, MarkBlocked, ReadPlan,
     ExecTurnOk, ExecTurnFails, AdvanceWriteback
<1>8. ASSUME d \in Advancers, Confirm(d) PROVE Moves(d)
  <2>1. CASE cur[d] \in DOMAIN graph
    BY <1>0, <1>8, <2>1 DEF Confirm
  <2>2. CASE cur[d] \notin DOMAIN graph
    BY <1>0, <1>8, <2>2 DEF Confirm
  <2> QED BY <2>1, <2>2
<1> QED
  BY <1>1, <1>2, <1>3, <1>4, <1>5, <1>6, <1>7, <1>8 DEF Quiet, Writeback

(***************************************************************************)
(* A move keeps the types, and leads to an .expect only where the          *)
(* milestone is gone.                                                      *)
(***************************************************************************)
LEMMA MovesAreSafe ==
  ASSUME DriversInv, NEW d \in Drivers, Moves(d) \/ UNCHANGED <<pc, cur>>,
         used \subseteq used', used' \subseteq {"start", "remove"},
         "remove" \notin used' => DOMAIN graph \subseteq DOMAIN graph',
         plans' \in [Ids -> PlanStates], budget' \in [Sessions -> 0 .. MaxAuto]
  PROVE  ControlOK' /\ Present' /\ DriversSurvive'
<1>0. /\ ControlOK /\ Present /\ DriversSurvive
      /\ d \in Sessions => d \notin Advancers
      /\ Sessions \subseteq Drivers /\ Advancers \subseteq Drivers
      /\ pc \in [Drivers -> SessionPCs \cup AdvancerPCs]
      /\ cur \in [Drivers -> Ids \cup {0}]
  BY DriversAssumption DEF DriversInv, TypeOK, ControlOK, Drivers
<1>1. CASE UNCHANGED <<pc, cur>>
  BY <1>0, <1>1 DEF ControlOK, Present, DriversSurvive
<1>2. CASE Moves(d)
  <2>1. PICK l \in SessionPCs \cup AdvancerPCs : MovesTo(d, l)
    BY <1>2 DEF Moves
  <2>a. /\ pc' = [pc EXCEPT ![d] = l]
        /\ d \in Sessions => l \in SessionPCs
        /\ d \in Advancers => l \in AdvancerPCs
        /\ \/ l \in {"idle", "turn", "pick"}
           \/ cur'[d] \in DOMAIN graph \cap Ids /\ l # "dead"
           \/ /\ pc[d] \notin {"idle", "turn", "pick"} /\ cur' = cur
              /\ l = "dead" => cur[d] \notin DOMAIN graph
    BY <2>1 DEF MovesTo, Goto
  <2>2. PICK i \in Ids \cup {0} : cur' = [cur EXCEPT ![d] = i]
    BY <2>1 DEF MovesTo
  <2>3. /\ pc' \in [Drivers -> SessionPCs \cup AdvancerPCs] /\ cur' \in [Drivers -> Ids \cup {0}]
        /\ pc'[d] = l /\ cur'[d] = i
        /\ \A e \in Drivers \ {d} : pc'[e] = pc[e] /\ cur'[e] = cur[e]
    BY <1>0, <2>a, <2>2
  <2>4. ControlOK'
    <3>1. /\ \A s \in Sessions : pc'[s] \in SessionPCs
          /\ \A a \in Advancers : pc'[a] \in AdvancerPCs
      BY <1>0, <2>a, <2>3 DEF ControlOK
    <3>2. pc'[d] \notin {"idle", "turn", "pick"} => cur'[d] \in Ids
      BY <1>0, <2>a, <2>3 DEF ControlOK
    <3>3. \A e \in Drivers : pc'[e] \notin {"idle", "turn", "pick"} => cur'[e] \in Ids
      BY <1>0, <2>3, <3>2 DEF ControlOK
    <3> QED BY <2>3, <3>1, <3>3 DEF ControlOK
  <2>5. ASSUME "remove" \notin used'
        PROVE  /\ \A e \in Drivers : pc'[e] \notin {"idle", "turn", "pick"} =>
                                       cur'[e] \in DOMAIN graph'
               /\ \A e \in Drivers : pc'[e] # "dead"
    <3>1. \A e \in Drivers : /\ pc[e] \notin {"idle", "turn", "pick"} => cur[e] \in DOMAIN graph
                             /\ pc[e] # "dead"
      BY <1>0, <2>5 DEF Present, DriversSurvive
    <3>2. /\ l # "dead"
          /\ l \notin {"idle", "turn", "pick"} => cur'[d] \in DOMAIN graph
      <4>1. CASE l \in {"idle", "turn", "pick"}
        BY <4>1
      <4>2. CASE cur'[d] \in DOMAIN graph \cap Ids /\ l # "dead"
        BY <4>2
      <4>3. CASE /\ pc[d] \notin {"idle", "turn", "pick"} /\ cur' = cur
                 /\ l = "dead" => cur[d] \notin DOMAIN graph
        BY <3>1, <4>3
      <4> QED BY <2>a, <4>1, <4>2, <4>3
    <3> QED BY <2>3, <2>5, <3>1, <3>2
  <2> QED BY <2>4, <2>5 DEF Present, DriversSurvive
<1> QED BY <1>1, <1>2

(***************************************************************************)
(* The plan files, the budgets and the history keep their types.           *)
(***************************************************************************)
LEMMA DataTyped ==
  ASSUME TypeOK, [Next]_vars
  PROVE  /\ plans' \in [Ids -> PlanStates] /\ budget' \in [Sessions -> 0 .. MaxAuto]
         /\ used' \subseteq {"start", "remove"}
<1>0. /\ plans \in [Ids -> PlanStates] /\ budget \in [Sessions -> 0 .. MaxAuto]
      /\ used \subseteq {"start", "remove"} /\ MaxAuto \in Nat
  BY DriversAssumption DEF TypeOK
<1>1. ASSUME NEW s \in Sessions, EndUserTurn(s) \/ DrivePick(s) PROVE budget' \in [Sessions -> 0 .. MaxAuto]
  <2>1. CASE EndUserTurn(s)
    BY <1>0, <2>1 DEF EndUserTurn
  <2>2. CASE DrivePick(s)
    BY <1>0, <2>2 DEF DrivePick
  <2> QED BY <1>1, <2>1, <2>2
<1>2. ASSUME NEW d \in Drivers, Quiet(d)
      PROVE  /\ plans' \in [Ids -> PlanStates] /\ budget' \in [Sessions -> 0 .. MaxAuto]
             /\ used' \subseteq {"start", "remove"}
  <2>1. CASE d \in Sessions /\ (EndUserTurn(d) \/ DrivePick(d))
    BY <1>0, <1>1, <2>1 DEF EndUserTurn, DrivePick
  <2>2. CASE d \in Sessions /\ (StartUserTurn(d) \/ DriveReread(d) \/ EndDriveTurn(d))
    BY <1>0, <2>2 DEF StartUserTurn, DriveReread, EndDriveTurn
  <2>3. CASE d \in Advancers /\ WritePlan(d)
    <3>1. PICK p \in PlanStates : plans' = [plans EXCEPT ![cur[d]] = p]
      BY <2>3 DEF WritePlan
    <3> QED BY <1>0, <2>3, <3>1 DEF WritePlan
  <2>4. CASE /\ d \in Advancers
             /\ \/ AdvancePick(d) \/ CheckPlan(d) \/ PlanTurnOk(d) \/ PlanTurnFails(d)
                \/ ReadPlan(d) \/ ExecTurnOk(d) \/ ExecTurnFails(d) \/ Confirm(d)
    BY <1>0, <2>4 DEF AdvancePick, CheckPlan, PlanTurnOk, PlanTurnFails, ReadPlan,
       ExecTurnOk, ExecTurnFails, Confirm
  <2> QED BY <1>2, <2>1, <2>2, <2>3, <2>4 DEF Quiet
<1>3. ASSUME NEW d \in Drivers, Writeback(d) \/ Edit(d)
      PROVE  UNCHANGED <<plans, budget>> /\ used' \subseteq {"start", "remove"}
  BY <1>0, <1>3 DEF Writeback, DriveWriteback, AdvanceWriteback, Edit, EditAdd, EditStart,
     EditDone, EditRemove
<1>4. ASSUME NEW a \in Advancers, MarkBlocked(a) PROVE UNCHANGED <<plans, budget, used>>
  BY <1>4 DEF MarkBlocked
<1>5. CASE Outside \/ UNCHANGED vars
  BY <1>0, <1>5 DEF Outside, ClientReset, BackgroundReset, AutotaskSeed, vars
<1> QED BY <1>0, <1>2, <1>3, <1>4, <1>5, NextByKind

(***************************************************************************)
(* Every step keeps the invariant.                                         *)
(***************************************************************************)
LEMMA DriversStep ==
  ASSUME DriversInv, [Next]_vars
  PROVE  DriversInv'
<1>0. TypeOK /\ Sound(graph)
  BY DEF DriversInv
<1>1. Sound(graph')
  BY <1>0, GraphStep, OutcomesSound
<1>2. /\ used \subseteq used' /\ used' \subseteq {"start", "remove"}
      /\ "remove" \notin used' => DOMAIN graph \subseteq DOMAIN graph'
      /\ plans' \in [Ids -> PlanStates] /\ budget' \in [Sessions -> 0 .. MaxAuto]
  BY <1>0, RemovalSeen, DataTyped
<1>3. \/ \E d \in Drivers : Moves(d) \/ UNCHANGED <<pc, cur>>
      \/ UNCHANGED <<pc, cur>>
  <2>1. ASSUME NEW d \in Drivers, Quiet(d) \/ Writeback(d) \/ (d \in Advancers /\ MarkBlocked(d))
        PROVE  Moves(d) \/ UNCHANGED <<pc, cur>>
    BY <1>0, <2>1, DriverMoves
  <2>2. ASSUME NEW d \in Drivers, Edit(d) PROVE UNCHANGED <<pc, cur>>
    BY <2>2 DEF Edit, EditAdd, EditStart, EditDone, EditRemove
  <2>3. CASE Outside \/ UNCHANGED vars
    BY <2>3 DEF Outside, ClientReset, BackgroundReset, AutotaskSeed, vars
  <2> QED BY <2>1, <2>2, <2>3, NextByKind DEF Drivers
<1>4. ControlOK' /\ Present' /\ DriversSurvive'
  <2>1. CASE \E d \in Drivers : Moves(d) \/ UNCHANGED <<pc, cur>>
    BY <1>2, <2>1, MovesAreSafe
  <2>2. CASE UNCHANGED <<pc, cur>>
    BY <1>0, <1>2, <2>2 DEF DriversInv, TypeOK, ControlOK, Present, DriversSurvive
  <2> QED BY <1>3, <2>1, <2>2
<1>5. Sound(graph)' /\ TypeOK'
  BY <1>1, <1>4 DEF ControlOK, TypeOK, Sound, IsGraph, DepsResolve, DepsOlder,
     BlockedJustified, DepsDone
<1> QED BY <1>4, <1>5 DEF DriversInv

(***************************************************************************)
(* The inductive invariant holds in every reachable state.                 *)
(***************************************************************************)
THEOREM DriversInvHolds == Spec => []DriversInv
<1>1. Init => DriversInv
  <2> SUFFICES ASSUME Init PROVE DriversInv
    OBVIOUS
  <2>0. PICK todos \in SUBSET Ids : \E done \in SUBSET todos : graph = MigratedTodos(todos, done)
    BY DEF Init
  <2>1. PICK done \in SUBSET todos : graph = MigratedTodos(todos, done)
    BY <2>0
  <2>2. /\ DOMAIN graph = todos /\ graph = [n \in todos |-> graph[n]]
        /\ \A n \in todos : /\ graph[n].deps = {} /\ graph[n].status \in {"pending", "done"}
                            /\ graph[n] \in Milestone
    BY <2>1 DEF MigratedTodos, Milestone, Statuses
  <2>3. IsGraph(graph)
    BY <2>2 DEF IsGraph
  <2>4. Sound(graph)
    BY <2>2, <2>3 DEF Sound, DepsResolve, DepsOlder, BlockedJustified
  <2>5. TypeOK
    BY <2>3, DriversAssumption DEF Init, TypeOK, PlanStates, SessionPCs, AdvancerPCs, Drivers
  <2> QED BY <2>4, <2>5 DEF DriversInv, Init, Present, DriversSurvive
<1> QED BY <1>1, DriversStep, PTL DEF Spec

(***************************************************************************)
(* Types of the drivers' state.                                            *)
(***************************************************************************)
THEOREM DriversTypeCorrect == Spec => []TypeOK
<1>1. DriversInv => TypeOK
  BY DEF DriversInv
<1> QED BY <1>1, DriversInvHolds, PTL

(***************************************************************************)
(* No .expect of drive_workgraph (src/agent.rs) or advance_one_milestone   *)
(* (src/background.rs) fires unless a milestone was removed.               *)
(***************************************************************************)
THEOREM DriversSurviveHolds == Spec => []DriversSurvive
<1>1. DriversInv => DriversSurvive
  BY DEF DriversInv
<1> QED BY <1>1, DriversInvHolds, PTL

(***************************************************************************)
(* Completed work is undone only by a `milestone start` or by a failed     *)
(* plan turn of that very milestone (src/agent.rs, src/background.rs).     *)
(***************************************************************************)
THEOREM CompletionKeptHolds == Spec => CompletionKept
<1> DEFINE Kept == \A n \in DOMAIN graph \cap DOMAIN graph' :
                     graph[n].status = "done" /\ graph'[n].status # "done" =>
                       \/ \E d \in Drivers : EditStart(d) /\ graph'[n].status = "in_progress"
                       \/ \E a \in Advancers : pc[a] = "plan_failed" /\ cur[a] = n
<1>1. DriversInv /\ [Next]_vars => [Kept]_vars
  <2> SUFFICES ASSUME DriversInv, Next PROVE Kept
    OBVIOUS
  <2> SUFFICES ASSUME NEW n \in DOMAIN graph \cap DOMAIN graph',
                      graph[n].status = "done", graph'[n].status # "done"
               PROVE  \/ \E d \in Drivers : EditStart(d) /\ graph'[n].status = "in_progress"
                      \/ \E a \in Advancers : pc[a] = "plan_failed" /\ cur[a] = n
    OBVIOUS
  <2>0. Sound(graph) /\ TypeOK
    BY DEF DriversInv
  <2>1. ASSUME NEW d \in Drivers, Quiet(d) PROVE FALSE
    BY <2>1 DEF Quiet, StartUserTurn, EndUserTurn, DrivePick, DriveReread, EndDriveTurn,
       WritePlan, AdvancePick, CheckPlan, PlanTurnOk, PlanTurnFails, ReadPlan, ExecTurnOk,
       ExecTurnFails, Confirm
  <2>2. ASSUME NEW d \in Drivers, Writeback(d) PROVE FALSE
    <3>1. graph' = SetStatus(graph, cur[d], "done")
      BY <2>2 DEF Writeback, DriveWriteback, AdvanceWriteback
    <3> QED BY <3>1, SetStatusKeeps
  <2>3. ASSUME NEW a \in Advancers, MarkBlocked(a) PROVE pc[a] = "plan_failed" /\ cur[a] = n
    <3>1. pc[a] = "plan_failed" /\ graph' = SetStatus(graph, cur[a], "blocked")
      BY <2>3 DEF MarkBlocked
    <3> QED BY <3>1, SetStatusKeeps
  <2>4. ASSUME NEW d \in Drivers, EditStart(d) PROVE graph'[n].status = "in_progress"
    <3>1. PICK id \in Ids : graph' = SetStatus(graph, id, "in_progress")
      BY <2>4 DEF EditStart, StatusOutcomes
    <3> QED BY <3>1, SetStatusKeeps
  <2>5. ASSUME NEW d \in Drivers, EditAdd(d) \/ EditDone(d) PROVE FALSE
    BY <2>0, <2>5, HarmlessOutcomes DEF EditAdd, EditDone
  <2>6. ASSUME NEW d \in Drivers, EditRemove(d) PROVE FALSE
    BY <2>6, RemoveKeepsDone DEF EditRemove
  <2>7. CASE Outside
    BY <2>0, <2>7, HarmlessOutcomes DEF Outside, ClientReset, BackgroundReset, AutotaskSeed
  <2> QED BY <2>1, <2>2, <2>3, <2>4, <2>5, <2>6, <2>7, NextByKind DEF Edit
<1> QED BY <1>1, DriversInvHolds, PTL DEF Spec, CompletionKept

-----------------------------------------------------------------------------
\* The composed system implements the atomic graph.

(***************************************************************************)
(* Refinement: whichever driver moves, the graph changes by one atomic     *)
(* operation or not at all (src/agent.rs, src/background.rs,               *)
(* src/tool/dev.rs).                                                       *)
(***************************************************************************)
THEOREM DriversRefineGraph == Spec => ImplementsGraph
<1>1. Init => GraphInit
  BY DEF Init, GraphInit
<1>2. DriversInv /\ [Next]_vars => [GraphNext]_graphVars
  <2> SUFFICES ASSUME DriversInv, [Next]_vars PROVE [GraphNext]_graphVars
    OBVIOUS
  <2>1. graph' \in Outcomes(graph) \/ graph' = graph
    BY GraphStep DEF DriversInv
  <2>2. graph' \in Outcomes(graph) => GraphNext
    BY DEF GraphNext, AddMilestone, SeedIssues, StartMilestone, FinishMilestone,
           BlockMilestone, RemoveMilestone, ResetOne, ResetStale, Outcomes
  <2> QED BY <2>1, <2>2 DEF graphVars
<1> QED BY <1>1, <1>2, DriversInvHolds, PTL DEF Spec, ImplementsGraph, GraphSpec

-----------------------------------------------------------------------------
\* What WorkGraphSpec promises, for every MaxId.

(***************************************************************************)
(* What todos.json migrates to is sound (src/workgraph.rs migrate_todos).  *)
(***************************************************************************)
LEMMA MigratedSound ==
  ASSUME NEW todos \in SUBSET Ids, NEW done \in SUBSET todos
  PROVE  Sound(MigratedTodos(todos, done))
<1> DEFINE g == MigratedTodos(todos, done)
<1>1. DOMAIN g = todos /\ g = [n \in todos |-> g[n]]
  BY DEF MigratedTodos
<1>2. \A n \in todos : g[n].deps = {} /\ g[n].status \in {"pending", "done"}
  BY DEF MigratedTodos
<1>3. \A n \in todos : g[n] \in Milestone
  BY DEF MigratedTodos, Milestone, Statuses
<1> HIDE DEF g
<1>4. IsGraph(g)
  BY <1>1, <1>3 DEF IsGraph
<1>5. Sound(g)
  BY <1>1, <1>2, <1>4 DEF Sound, DepsResolve, DepsOlder, BlockedJustified
<1> QED BY <1>5 DEF g

(***************************************************************************)
(* A sound graph has no cycle: dependencies are older than dependents.     *)
(***************************************************************************)
LEMMA SoundHasNoCycle ==
  ASSUME NEW g, Sound(g)
  PROVE  NoCycle(g)
<1> SUFFICES ASSUME NEW S \in SUBSET DOMAIN g, S # {}
             PROVE  \E n \in S : g[n].deps \cap S = {}
  BY DEF NoCycle
<1>1. S \in SUBSET Nat
  BY MaxIdAssumption DEF Sound, IsGraph, Ids
<1>2. PICK n \in S : \A m \in S : n <= m
  BY <1>1, LeastOf
<1>3. \A d \in g[n].deps : d < n
  BY DEF Sound, DepsOlder
<1>4. \A d \in g[n].deps : d \notin S
  BY <1>1, <1>2, <1>3
<1> QED BY <1>4

(***************************************************************************)
(* A sound graph is not wedged: the smallest milestone that is not done    *)
(* has only done dependencies, so it is ready or active.                   *)
(***************************************************************************)
LEMMA SoundIsNotWedged ==
  ASSUME NEW g, Sound(g)
  PROVE  ~Wedged(g)
<1> SUFFICES ASSUME Wedged(g) PROVE FALSE
  OBVIOUS
<1> DEFINE open == {n \in DOMAIN g : g[n].status # "done"}
<1>1. open # {} /\ open \in SUBSET Nat
  BY MaxIdAssumption DEF Wedged, Sound, IsGraph, Ids
<1>2. PICK n \in open : \A m \in open : n <= m
  BY <1>1, LeastOf
<1>3. DepsDone(g, n)
  <2> SUFFICES ASSUME NEW d \in g[n].deps
               PROVE  d \in DOMAIN g /\ g[d].status = "done"
    BY DEF DepsDone
  <2>1. d \in DOMAIN g /\ d < n
    BY <1>2 DEF Sound, DepsResolve, DepsOlder
  <2>2. d \notin open
    BY <1>1, <1>2, <2>1
  <2> QED BY <2>1, <2>2
<1>4. g[n].status # "blocked"
  BY <1>3 DEF Sound, BlockedJustified
<1>5. n \in Ready(g)
  BY <1>2, <1>3, <1>4 DEF Ready, Wedged
<1> QED BY <1>5 DEF Wedged

(***************************************************************************)
(* Every graph that the operations of src/workgraph.rs can build is sound: *)
(* typed, its dependencies exist and are older, what is blocked waits.     *)
(***************************************************************************)
THEOREM GraphInvHolds == GraphSpec => []IndInv
<1>1. GraphInit => Sound(graph)
  BY MigratedSound DEF GraphInit
<1>2. Sound(graph) /\ [GraphNext]_graphVars => Sound(graph)'
  <2> SUFFICES ASSUME Sound(graph), [GraphNext]_graphVars PROVE Sound(graph')
    BY DEF Sound, IsGraph, DepsResolve, DepsOlder, BlockedJustified, DepsDone
  <2>1. GraphNext => graph' \in Outcomes(graph)
    BY DEF GraphNext, AddMilestone, SeedIssues, StartMilestone, FinishMilestone,
           BlockMilestone, RemoveMilestone, ResetOne, ResetStale, Outcomes
  <2>2. graph' \in Outcomes(graph) => Sound(graph')
    BY OutcomesSound
  <2> QED BY <2>1, <2>2 DEF graphVars
<1> QED BY <1>1, <1>2, PTL DEF GraphSpec, IndInv

(***************************************************************************)
(* The graph is always well typed.                                         *)
(***************************************************************************)
THEOREM GraphTypeCorrect == GraphSpec => []GraphTyped
<1>1. IndInv => GraphTyped
  BY DEF IndInv, Sound, GraphTyped
<1> QED BY <1>1, GraphInvHolds, PTL

(***************************************************************************)
(* Dependencies always name milestones that exist.                         *)
(***************************************************************************)
THEOREM DepsResolveHolds == GraphSpec => []DepsAlwaysResolve
<1>1. IndInv => DepsAlwaysResolve
  BY DEF IndInv, Sound, DepsAlwaysResolve
<1> QED BY <1>1, GraphInvHolds, PTL

(***************************************************************************)
(* A blocked milestone always has a dependency that is not done.           *)
(***************************************************************************)
THEOREM BlockedIsDerivedHolds == GraphSpec => []BlockedIsDerived
<1>1. IndInv => BlockedIsDerived
  BY DEF IndInv, Sound, BlockedIsDerived
<1> QED BY <1>1, GraphInvHolds, PTL

(***************************************************************************)
(* The dependency relation never has a cycle.                              *)
(***************************************************************************)
THEOREM AcyclicHolds == GraphSpec => []Acyclic
<1>1. IndInv => Acyclic
  BY SoundHasNoCycle DEF IndInv, Acyclic
<1> QED BY <1>1, GraphInvHolds, PTL

(***************************************************************************)
(* The scheduler never runs dry while work is waiting.                     *)
(***************************************************************************)
THEOREM NeverWedgedHolds == GraphSpec => []NeverWedged
<1>1. IndInv => NeverWedged
  BY SoundIsNotWedged DEF IndInv, NeverWedged
<1> QED BY <1>1, GraphInvHolds, PTL
=============================================================================
