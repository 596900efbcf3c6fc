------------------------ MODULE DaemonComponentProofs ------------------------
(***************************************************************************)
(* What the headless run with its logs and the daemon with its clients     *)
(* promise (DaemonComponents), for every value of the constants: for each  *)
(* component the inductive invariant, that each of its steps preserves it, *)
(* and that it implies the component's property; at the end the properties *)
(* of them together.                                                       *)
(***************************************************************************)
EXTENDS DaemonComponents, Integers, Sequences, FiniteSets,
        FiniteSetTheorems, SequenceTheorems, TLAPS

-----------------------------------------------------------------------------
\* The headless run (BackgroundRun): for every MaxId and every budget.

Graphs == INSTANCE WorkGraphLemmas

\* The limit on cycles is tested at the end of a cycle, so there is always one.
Limit == IF MaxCycles = 0 THEN 1 ELSE MaxCycles

Before == {"start", "task", "load", "seed", "reset"}
Looping == {"pick", "plan", "exec", "done", "cycle", "review"}
Ending == {"report", "alert", "exited"}

RunType ==
  /\ Run!TypeOK
  /\ history.executed \in Nat
  /\ history = [executed |-> history.executed, spoilt |-> history.spoilt,
                ready |-> history.ready, unreadable |-> history.unreadable,
                unrecorded |-> history.unrecorded]
  /\ pc \in {"plan", "exec", "done"} => cur \in Run!Ids

\* What the milestones executed so far have used up.
Spent == cycle * MaxAuto + advanced

BudgetKept ==
  /\ pc \in Before => cycle = 0 /\ advanced = 0 /\ history.executed = 0
  /\ pc \in Looping => cycle + 1 <= Limit
  /\ pc \in {"plan", "exec", "done"} => advanced < MaxAuto
  /\ pc \in Looping \ {"done"} => history.executed <= Spent
  /\ pc = "done" => history.executed <= Spent + 1 /\ history.executed > 0
  /\ Run!WithinBudget

ModeKept ==
  /\ pc = "start" => mode = "undecided"
  /\ pc = "task" => mode = "task"
  /\ pc \in {"load", "seed", "reset"} \cup Looping => mode = "workgraph"
  /\ mode = "undecided" => pc = "start"

\* What is known of the file: whether it parses, and what was done about it.
FileKept ==
  /\ pc \in {"start", "load"} => (history.unreadable <=> ~readable)
  /\ mode = "workgraph" /\ pc # "load" /\ ~history.spoilt => readable
  /\ Run!UnreadableSetAside

\* A run that had something to advance, and a budget, advances it.
Busy ==
  \/ history.executed > 0
  \/ pc = "pick" /\ Run!Ready(graph) # {} /\ advanced = 0
  \/ pc \in {"plan", "exec"} \/ state = "Error"

OutcomeKept ==
  /\ pc \in Before \cup Looping => state = "Running" /\ ledger = {} /\ code = Run!NoCode
  /\ pc = "report" => ledger = {}
  /\ pc \in {"report", "alert"} /\ mode = "workgraph" => state # "Running"
  /\ pc = "alert" => /\ ledger \subseteq {state}
                     /\ ledger = {} => history.unrecorded
  /\ pc \in Before => ~history.ready
  /\ history.ready /\ MaxAuto > 0 /\ ~history.spoilt => Busy
  /\ Run!CompletedMeansDone
  /\ Run!CodeAgreesWithLedger

RunInv == RunType /\ BudgetKept /\ ModeKept /\ FileKept /\ OutcomeKept

(***************************************************************************)
(* The run applies the graph operations of WorkGraph (src/workgraph.rs):   *)
(* their lemmas hold for its instances.                                    *)
(***************************************************************************)
LEMMA RunsGraphs ==
  /\ \A g : Graphs!IsGraph(g) <=> Run!IsGraph(g)
  /\ \A g : Graphs!NextId(g) = Run!NextId(g)
  /\ \A g : Graphs!RecomputeBlocked(g) = Run!RecomputeBlocked(g)
<1>1. \A g : Graphs!IsGraph(g) <=> Run!IsGraph(g)
  BY DEF Graphs!IsGraph, Run!IsGraph, Graphs!Ids, Run!Ids, Graphs!Milestone, Run!Milestone,
         Graphs!Statuses, Run!Statuses
<1>2. \A g : Graphs!NextId(g) = Run!NextId(g)
  BY DEF Graphs!NextId, Run!NextId
<1>3. \A g : Graphs!RecomputeBlocked(g) = Run!RecomputeBlocked(g)
  BY DEF Graphs!RecomputeBlocked, Run!RecomputeBlocked, Graphs!Derived, Run!Derived,
         Graphs!DepsDone, Run!DepsDone
<1>4. QED
  BY <1>1, <1>2, <1>3

(***************************************************************************)
(* A function to milestones that a recomputation completes is a graph.     *)
(***************************************************************************)
LEMMA RecomputedTyped ==
  ASSUME MaxId \in Nat, NEW g, Run!IsGraph(g)
  PROVE  Run!IsGraph(Run!RecomputeBlocked(g))
<1>1. Graphs!IsGraph(Graphs!RecomputeBlocked(g))
  BY RunsGraphs, Graphs!RecomputeBlockedFacts
<1>2. QED
  BY <1>1, RunsGraphs

(***************************************************************************)
(* What a turn or the run itself does to the graph leaves a graph          *)
(* (src/workgraph.rs).                                                     *)
(***************************************************************************)
LEMMA UpdatesTyped ==
  ASSUME MaxId \in Nat, NEW g, Run!IsGraph(g)
  PROVE  /\ Run!IsGraph(Run!NoGraph) /\ Run!IsGraph(Run!ResetInProgress(g))
         /\ \A id \in Run!Ids, s \in Run!Statuses : Run!IsGraph(Run!SetStatus(g, id, s))
         /\ \A h \in Run!BatchOutcomes(g) \cup Run!RemoveOutcomes(g)
                       \cup Run!StatusOutcomes(g, "in_progress") : Run!IsGraph(h)
<1>1. Run!IsGraph(Run!NoGraph)
  BY DEF Run!IsGraph, Run!NoGraph, Run!MigratedTodos, Run!Milestone
<1>2. DOMAIN g \subseteq Run!Ids /\ \A n \in DOMAIN g : g[n] \in Run!Milestone
  BY DEF Run!IsGraph
<1>3. \A n \in DOMAIN g : g[n].deps \in SUBSET Run!Ids /\ g[n].status \in Run!Statuses
  BY <1>2 DEF Run!Milestone
<1>4. \A d \in SUBSET Run!Ids, s \in Run!Statuses : [deps |-> d, status |-> s] \in Run!Milestone
  BY DEF Run!Milestone
<1>5. "in_progress" \in Run!Statuses /\ "pending" \in Run!Statuses
  BY DEF Run!Statuses
<1>6. Run!IsGraph(Run!ResetInProgress(g))
  <2>1. \A n \in DOMAIN g :
          (IF g[n].status = "in_progress" THEN [deps |-> g[n].deps, status |-> "pending"]
           ELSE g[n]) \in Run!Milestone
    BY <1>2, <1>3, <1>4, <1>5
  <2>2. QED
    BY <1>2, <2>1 DEF Run!IsGraph, Run!ResetInProgress
<1>7. ASSUME NEW id \in Run!Ids, NEW s \in Run!Statuses
      PROVE  Run!IsGraph(Run!SetStatus(g, id, s))
  <2>1. \A n \in DOMAIN g :
          (IF n = id THEN [deps |-> g[n].deps, status |-> s] ELSE g[n]) \in Run!Milestone
    BY <1>2, <1>3, <1>4
  <2>2. Run!IsGraph(Run!WithStatus(g, id, s))
    BY <1>2, <2>1 DEF Run!IsGraph, Run!WithStatus
  <2>3. QED
    BY <2>2, RecomputedTyped DEF Run!SetStatus
<1>8. ASSUME NEW h \in Run!BatchOutcomes(g) PROVE Run!IsGraph(h)
  <2>1. PICK k \in 1 .. MaxId : h = Run!AddBatch(g, k) /\ Run!NextId(g) + k - 1 \in Run!Ids
    BY <1>8 DEF Run!BatchOutcomes
  <2>2. Run!NextId(g) \in Nat
    BY RunsGraphs, Graphs!NextIdFresh
  <2> DEFINE new == Run!NextId(g) .. Run!NextId(g) + k - 1
  <2>3. Run!NextId(g) # 0
    <3>1. CASE DOMAIN g = {}
      BY <3>1 DEF Run!NextId
    <3>2. CASE DOMAIN g # {}
      <4>1. PICK n \in DOMAIN g : TRUE
        BY <3>2
      <4>2. n \in Nat /\ n >= 1 /\ n < Run!NextId(g)
        BY <1>2, <4>1, RunsGraphs, Graphs!NextIdFresh DEF Run!Ids
      <4>3. QED
        BY <2>2, <4>2
    <3>3. QED
      BY <3>1, <3>2
  <2>4. new \subseteq Run!Ids
    BY <2>1, <2>2, <2>3 DEF Run!Ids
  <2>5. {} \in SUBSET Run!Ids
    OBVIOUS
  <2>6. [n \in DOMAIN g \cup new |->
           IF n \in DOMAIN g THEN g[n] ELSE [deps |-> {}, status |-> "pending"]]
          \in [DOMAIN g \cup new -> Run!Milestone]
    BY <1>2, <1>4, <1>5, <2>5
  <2>7. Run!IsGraph([n \in DOMAIN g \cup new |->
           IF n \in DOMAIN g THEN g[n] ELSE [deps |-> {}, status |-> "pending"]])
    BY <1>2, <2>4, <2>6 DEF Run!IsGraph
  <2>8. QED
    BY <2>1, <2>7, RecomputedTyped DEF Run!AddBatch
<1>9. ASSUME NEW h \in Run!RemoveOutcomes(g) PROVE Run!IsGraph(h)
  <2>1. PICK id \in Run!Ids : h = Run!Remove(g, id)
    BY <1>9 DEF Run!RemoveOutcomes
  <2>2. Run!IsGraph([n \in DOMAIN g \ {id} |-> g[n]])
    BY <1>2 DEF Run!IsGraph
  <2>3. QED
    BY <2>1, <2>2, RecomputedTyped DEF Run!Remove
<1>10. QED
  BY <1>1, <1>5, <1>6, <1>7, <1>8, <1>9 DEF Run!StatusOutcomes

(***************************************************************************)
(* next_ready is an id of the graph (src/workgraph.rs).                    *)
(***************************************************************************)
LEMMA ReadyIsId ==
  ASSUME MaxId \in Nat, NEW g, Run!IsGraph(g), Run!Ready(g) # {}
  PROVE  Run!NextReady(g) \in Run!Ids
<1>1. Run!Ready(g) \subseteq Run!Ids /\ Run!Ids \subseteq Nat
  BY DEF Run!Ready, Run!IsGraph, Run!Ids
<1>2. \E n \in Run!Ready(g) : \A m \in Run!Ready(g) : n <= m
  BY <1>1, Graphs!LeastOf
<1>3. QED
  BY <1>1, <1>2 DEF Run!NextReady

(***************************************************************************)
(* A turn leaves a graph, and never makes a readable file unreadable       *)
(* (src/tool/milestone.rs, under with_lock).                               *)
(***************************************************************************)
LEMMA TurnTyped ==
  ASSUME MaxId \in Nat, Run!IsGraph(graph), readable \in BOOLEAN, Run!TurnEffect
  PROVE  Run!IsGraph(graph') /\ readable' \in BOOLEAN /\ (readable => readable')
<1>1. Run!IsGraph(Run!NoGraph) /\ Run!IsGraph(Run!LenientRead(graph))
  BY UpdatesTyped DEF Run!LenientRead
<1>2. CASE UNCHANGED <<graph, readable>>
  BY <1>2
<1>3. CASE Run!Update({Run!LenientRead(graph)} \cup Run!BatchOutcomes(Run!LenientRead(graph)))
  BY <1>1, <1>3, UpdatesTyped DEF Run!Update
<1>4. CASE readable /\ Run!Update(Run!RemoveOutcomes(graph))
  BY <1>4, UpdatesTyped DEF Run!Update
<1>5. CASE readable /\ Run!Update(Run!StatusOutcomes(graph, "in_progress"))
  BY <1>5, UpdatesTyped DEF Run!Update
<1>6. QED
  BY <1>2, <1>3, <1>4, <1>5 DEF Run!TurnEffect

(***************************************************************************)
(* Every action of the run keeps the types, and leaves the id it advances  *)
(* in place (src/background.rs).                                           *)
(***************************************************************************)
LEMMA RunTyped ==
  ASSUME MaxId \in Nat, Run!BackgroundAssumption, RunInv, Run!Next
  PROVE  RunType'
<1>0. /\ RunType /\ BudgetKept /\ MaxAuto \in Nat /\ MaxCycles \in Nat
      /\ Run!IsGraph(graph) /\ readable \in BOOLEAN
  BY DEF RunInv, RunType, Run!TypeOK, Run!BackgroundAssumption
<1>1. ASSUME Run!Start \/ Run!CycleEnd \/ Run!PlanThere \/ Run!Ledger \/ Run!Alert \/ Run!Spoil
      PROVE  RunType'
  <2>1. CASE Run!Start
    BY <1>0, <2>1 DEF Run!Start, Run!Goto, Run!disk, RunType, Run!TypeOK
  <2>2. CASE Run!CycleEnd
    <3>1. cycle' \in 0 .. MaxCycles + 1 /\ advanced' \in 0 .. MaxAuto
      BY <1>0, <2>2 DEF Run!CycleEnd, RunType, Run!TypeOK, BudgetKept, Looping, Limit
    <3>2. QED
      BY <1>0, <2>2, <3>1
         DEF Run!CycleEnd, Run!Goto, Run!Finish, Run!disk, RunType, Run!TypeOK,
             Run!MissionStates
  <2>3. CASE Run!PlanThere
    BY <1>0, <2>3
       DEF Run!PlanThere, Run!Goto, Run!Finish, Run!disk, RunType, Run!TypeOK,
           Run!MissionStates
  <2>4. CASE Run!Ledger
    <3>1. PICK ok \in BOOLEAN :
            /\ ledger' = IF ok THEN ledger \cup {state} ELSE ledger
            /\ history' = [history EXCEPT !.unrecorded = ~ok]
      BY <2>4 DEF Run!Ledger
    <3>2. history' = [executed |-> history.executed, spoilt |-> history.spoilt,
                      ready |-> history.ready, unreadable |-> history.unreadable,
                      unrecorded |-> ~ok]
      BY <1>0, <3>1 DEF RunType
    <3>3. QED
      BY <1>0, <2>4, <3>1, <3>2 DEF Run!Ledger, Run!Goto, Run!disk, RunType, Run!TypeOK
  <2>5. CASE Run!Alert
    <3>1. alerted' \in BOOLEAN /\ code' \in {Run!NoCode, 0, 3, 4, 5, Run!PanicCode}
      BY <1>0, <2>5 DEF Run!Alert, Run!ExitCode, RunType, Run!TypeOK, Run!MissionStates
    <3>2. QED
      BY <1>0, <2>5, <3>1 DEF Run!Alert, Run!Goto, Run!disk, RunType, Run!TypeOK
  <2>6. CASE Run!Spoil
    <3>1. history' = [executed |-> history.executed, spoilt |-> TRUE,
                      ready |-> history.ready, unreadable |-> history.unreadable,
                      unrecorded |-> history.unrecorded]
      BY <1>0, <2>6 DEF Run!Spoil, RunType
    <3>2. QED
      BY <1>0, <2>6, <3>1 DEF Run!Spoil, Run!run, RunType, Run!TypeOK
  <2>7. QED
    BY <1>1, <2>1, <2>2, <2>3, <2>4, <2>5, <2>6
<1>2. ASSUME Run!TaskTurn \/ Run!Seed \/ Run!Review \/ Run!ExecTurn PROVE RunType'
  <2>1. Run!IsGraph(graph') /\ readable' \in BOOLEAN
    BY <1>0, <1>2, TurnTyped DEF Run!TaskTurn, Run!Seed, Run!Review, Run!ExecTurn
  <2>2. CASE Run!TaskTurn
    BY <1>0, <2>1, <2>2
       DEF Run!TaskTurn, Run!Finish, Run!Goto, RunType, Run!TypeOK, Run!MissionStates
  <2>3. CASE Run!Seed
    BY <1>0, <2>1, <2>3
       DEF Run!Seed, Run!Finish, Run!Goto, RunType, Run!TypeOK, Run!MissionStates
  <2>4. CASE Run!Review
    BY <1>0, <2>1, <2>4
       DEF Run!Review, Run!Finish, Run!Goto, RunType, Run!TypeOK, Run!MissionStates
  <2>5. CASE Run!ExecTurn
    <3>1. history' = [executed |-> history.executed + 1, spoilt |-> history.spoilt,
                      ready |-> history.ready, unreadable |-> history.unreadable,
                      unrecorded |-> history.unrecorded]
      BY <1>0, <2>5 DEF Run!ExecTurn, RunType
    <3>2. QED
      BY <1>0, <2>1, <2>5, <3>1
         DEF Run!ExecTurn, Run!Finish, Run!Goto, RunType, Run!TypeOK, Run!MissionStates
  <2>6. QED
    BY <1>2, <2>2, <2>3, <2>4, <2>5
<1>3. ASSUME Run!Load \/ Run!Reset \/ Run!Pick \/ Run!PlanTurn \/ Run!MarkDone PROVE RunType'
  <2>1. Run!IsGraph(Run!NoGraph) /\ Run!IsGraph(Run!LenientRead(graph))
    BY <1>0, UpdatesTyped DEF Run!LenientRead
  <2>2. CASE Run!Load
    BY <1>0, <2>1, <2>2
       DEF Run!Load, Run!Finish, Run!Goto, RunType, Run!TypeOK, Run!MissionStates
  <2>3. CASE Run!Reset
    <3>1. Run!IsGraph(graph') /\ readable' = TRUE
      BY <2>1, <2>3, UpdatesTyped DEF Run!Reset, Run!Update
    <3>2. PICK r \in BOOLEAN : history' = [history EXCEPT !.ready = r]
      <4>1. (Run!Ready(graph') # {}) \in BOOLEAN
        OBVIOUS
      <4>2. QED
        BY <2>3, <4>1 DEF Run!Reset
    <3>3. history' = [executed |-> history.executed, spoilt |-> history.spoilt,
                      ready |-> r, unreadable |-> history.unreadable,
                      unrecorded |-> history.unrecorded]
      BY <1>0, <3>2 DEF RunType
    <3>4. QED
      BY <1>0, <2>3, <3>1, <3>3 DEF Run!Reset, Run!Goto, RunType, Run!TypeOK
  <2>4. CASE Run!Pick
    <3>1. Run!Ready(graph) # {} => Run!NextReady(graph) \in Run!Ids
      BY <1>0, ReadyIsId
    <3>2. cur' \in Run!Ids \cup {0} /\ (pc' = "plan" => cur' \in Run!Ids)
      BY <1>0, <2>4, <3>1 DEF Run!Pick, Run!Finish, Run!Goto, RunType, Run!TypeOK
    <3>3. QED
      BY <1>0, <2>4, <3>2
         DEF Run!Pick, Run!Finish, Run!Goto, Run!disk, RunType, Run!TypeOK, Run!MissionStates
  <2>5. CASE Run!PlanTurn
    <3>1. cur \in Run!Ids /\ "blocked" \in Run!Statuses
      BY <1>0, <2>5 DEF Run!PlanTurn, RunType, Run!Statuses
    <3>2. Run!IsGraph(Run!SetStatus(Run!LenientRead(graph), cur, "blocked"))
      BY <2>1, <3>1, UpdatesTyped
    <3>3. PICK p \in {"none", "good", "corrupt"}, panicked \in BOOLEAN :
            /\ plans' = [plans EXCEPT ![cur] = p]
            /\ IF p = "good" /\ ~panicked
               THEN Run!Goto("exec") /\ UNCHANGED <<graph, readable, state>>
               ELSE /\ Run!Update({Run!SetStatus(Run!LenientRead(graph), cur, "blocked")})
                    /\ Run!Finish("Error")
      BY <2>5 DEF Run!PlanTurn
    <3>4. Run!IsGraph(graph') /\ readable' \in BOOLEAN
      BY <1>0, <3>2, <3>3 DEF Run!Update
    <3>5. plans' \in [Run!Ids -> {"none", "good", "corrupt"}]
      BY <1>0, <3>3 DEF RunType, Run!TypeOK
    <3>6. QED
      BY <1>0, <2>5, <3>1, <3>3, <3>4, <3>5
         DEF Run!PlanTurn, Run!Finish, Run!Goto, RunType, Run!TypeOK, Run!MissionStates
  <2>6. CASE Run!MarkDone
    <3>1. cur \in Run!Ids /\ "done" \in Run!Statuses /\ advanced < MaxAuto
      BY <1>0, <2>6 DEF Run!MarkDone, RunType, Run!Statuses, BudgetKept
    <3>2. Run!IsGraph(graph') /\ checkpoint' \subseteq Run!Ids
      BY <1>0, <2>6, <3>1, UpdatesTyped DEF Run!MarkDone, RunType, Run!TypeOK
    <3>3. advanced' \in 0 .. MaxAuto
      BY <1>0, <2>6, <3>1 DEF Run!MarkDone, RunType, Run!TypeOK
    <3>4. QED
      BY <1>0, <2>6, <3>2, <3>3
         DEF Run!MarkDone, Run!Goto, RunType, Run!TypeOK
  <2>7. QED
    BY <1>3, <2>2, <2>3, <2>4, <2>5, <2>6
<1>4. QED
  BY <1>1, <1>2, <1>3 DEF Run!Next, Run!Steps

(***************************************************************************)
(* A number of milestones within the cycles run so far is within the       *)
(* budget.                                                                 *)
(***************************************************************************)
LEMMA CyclesAddUp ==
  ASSUME NEW c \in Nat, NEW m \in Nat, NEW l \in Nat, c + 1 <= l
  PROVE  (c + 1) * m = c * m + m /\ c * m + m <= m * l /\ c * m \in Nat /\ m * l \in Nat
<1>1. PICK k \in Nat : l = c + 1 + k
  <2>1. l - (c + 1) \in Nat /\ l = c + 1 + (l - (c + 1))
    OBVIOUS
  <2>2. QED
    BY <2>1
<1>2. m * (c + 1 + k) = c * m + m + k * m /\ k * m \in Nat /\ c * m \in Nat
  OBVIOUS
<1>3. (c + 1) * m = c * m + m
  OBVIOUS
<1>4. m * l \in Nat
  OBVIOUS
<1>5. c * m + m <= m * l
  <2>1. \A a, b \in Nat : a <= a + b
    OBVIOUS
  <2>2. c * m + m \in Nat
    BY <1>2
  <2>3. QED
    BY <1>1, <1>2, <2>1, <2>2
<1>6. QED
  BY <1>2, <1>3, <1>4, <1>5

(***************************************************************************)
(* The budgets hold over every action (src/background.rs                   *)
(* run_background_cfg).                                                    *)
(***************************************************************************)
LEMMA RunBudget ==
  ASSUME MaxId \in Nat, Run!BackgroundAssumption, RunInv, Run!Next
  PROVE  BudgetKept'
<1>0. /\ RunType /\ BudgetKept /\ MaxAuto \in Nat /\ MaxCycles \in Nat /\ Limit \in Nat
      /\ cycle \in Nat /\ advanced \in 0 .. MaxAuto /\ history.executed \in Nat
      /\ Run!WithinBudget <=> history.executed <= MaxAuto * Limit
      /\ cycle * MaxAuto \in Nat /\ MaxAuto * Limit \in Nat
  BY DEF RunInv, RunType, Run!TypeOK, Run!BackgroundAssumption, Limit, Run!WithinBudget
<1>1. CASE Run!Start \/ Run!TaskTurn \/ Run!Load \/ Run!Seed \/ Run!PlanTurn \/ Run!PlanThere
           \/ Run!Review
  <2>1. UNCHANGED <<cycle, advanced, history>>
    BY <1>1 DEF Run!Start, Run!TaskTurn, Run!Load, Run!Seed, Run!PlanTurn, Run!PlanThere,
                Run!Review
  <2>2. /\ pc \in Before => pc' \in Before \cup {"pick", "report"}
        /\ pc \in Looping => pc' \in Looping \cup {"report"}
        /\ pc' \in {"plan", "exec", "done"} => pc \in {"plan", "exec"}
        /\ pc' \in Before => pc \in Before
        /\ pc' \in Looping => pc \in Looping
        /\ pc # "done" /\ pc' # "done"
    BY <1>1 DEF Run!Start, Run!TaskTurn, Run!Load, Run!Seed, Run!PlanTurn, Run!PlanThere,
                Run!Review, Run!Goto, Run!Finish, Before, Looping
  <2>3. QED
    BY <1>0, <2>1, <2>2 DEF BudgetKept, Spent, Run!WithinBudget
<1>2. CASE Run!Reset
  <2>1. /\ UNCHANGED <<cycle, advanced>> /\ history'.executed = history.executed
        /\ pc = "reset" /\ pc' = "pick"
    BY <1>0, <1>2 DEF Run!Reset, Run!Goto, RunType
  <2>2. cycle = 0 /\ advanced = 0 /\ history.executed = 0
    BY <1>0, <2>1 DEF BudgetKept, Before
  <2>3. cycle' + 1 <= Limit /\ Spent' = 0 + Spent
    BY <1>0, <2>1, <2>2 DEF Limit, Spent
  <2>4. QED
    BY <1>0, <2>1, <2>2, <2>3 DEF BudgetKept, Before, Looping, Spent, Run!WithinBudget
<1>3. CASE Run!Pick
  <2>1. /\ UNCHANGED <<cycle, advanced, history>>
        /\ pc = "pick" /\ pc' \in {"cycle", "plan", "report"}
        /\ pc' = "plan" => ~(advanced >= MaxAuto)
    BY <1>3 DEF Run!Pick, Run!Goto, Run!Finish
  <2>2. QED
    BY <1>0, <2>1 DEF BudgetKept, Before, Looping, Spent, Run!WithinBudget
<1>4. CASE Run!ExecTurn
  <2>1. /\ UNCHANGED <<cycle, advanced>> /\ history'.executed = history.executed + 1
        /\ pc = "exec" /\ pc' \in {"done", "report"}
    BY <1>0, <1>4 DEF Run!ExecTurn, Run!Goto, Run!Finish, RunType
  <2>2. history.executed <= Spent /\ cycle + 1 <= Limit /\ advanced < MaxAuto
    BY <1>0, <2>1 DEF BudgetKept, Looping
  <2>3. cycle * MaxAuto + MaxAuto <= MaxAuto * Limit
    BY <1>0, <2>2, CyclesAddUp
  <2>4. history.executed + 1 <= MaxAuto * Limit /\ history.executed + 1 > 0
    BY <1>0, <2>2, <2>3 DEF Spent
  <2>5. history.executed + 1 <= Spent + 1 /\ Spent' = Spent
    BY <1>0, <2>1, <2>2 DEF Spent
  <2>6. QED
    BY <1>0, <2>1, <2>2, <2>4, <2>5
       DEF BudgetKept, Before, Looping, Run!WithinBudget, Limit
<1>5. CASE Run!MarkDone
  <2>1. /\ UNCHANGED <<cycle, history>> /\ pc = "done"
        /\ \/ pc' = "pick" /\ advanced' = advanced + 1
           \/ pc' = "exited" /\ advanced' = advanced
    BY <1>5 DEF Run!MarkDone, Run!Goto
  <2>2. history.executed <= Spent + 1 /\ cycle + 1 <= Limit /\ advanced < MaxAuto
    BY <1>0, <2>1 DEF BudgetKept, Looping
  <2>3. advanced' = advanced + 1 => Spent' = Spent + 1
    BY <1>0, <2>1 DEF Spent
  <2>4. QED
    BY <1>0, <2>1, <2>2, <2>3 DEF BudgetKept, Before, Looping, Run!WithinBudget
<1>6. CASE Run!CycleEnd
  <2>1. /\ UNCHANGED history /\ cycle' = cycle + 1 /\ advanced' = 0 /\ pc = "cycle"
        /\ pc' \in {"review", "report"}
        /\ pc' = "review" => ~(cycle + 1 >= MaxCycles)
    BY <1>6 DEF Run!CycleEnd, Run!Goto, Run!Finish
  <2>2. history.executed <= Spent /\ cycle + 1 <= Limit
    BY <1>0, <2>1 DEF BudgetKept, Looping
  <2>3. pc' = "review" => cycle' + 1 <= Limit
    BY <1>0, <2>1 DEF Limit
  <2>4. (cycle + 1) * MaxAuto = cycle * MaxAuto + MaxAuto
    BY <1>0, <2>2, CyclesAddUp
  <2>5. Spent' = cycle * MaxAuto + MaxAuto + 0
    BY <2>1, <2>4 DEF Spent
  <2>6. history.executed <= Spent'
    BY <1>0, <2>2, <2>5 DEF Spent
  <2>7. QED
    BY <1>0, <2>1, <2>3, <2>6 DEF BudgetKept, Before, Looping, Run!WithinBudget
<1>7. CASE Run!Ledger \/ Run!Alert \/ Run!Spoil
  <2>1. /\ UNCHANGED <<cycle, advanced>> /\ history'.executed = history.executed
        /\ pc' = pc \/ pc' \in Ending
    BY <1>0, <1>7 DEF Run!Ledger, Run!Alert, Run!Spoil, Run!Goto, Run!run, RunType, Ending
  <2>2. QED
    BY <1>0, <2>1 DEF BudgetKept, Before, Looping, Ending, Spent, Run!WithinBudget
<1>8. QED
  BY <1>1, <1>2, <1>3, <1>4, <1>5, <1>6, <1>7 DEF Run!Next, Run!Steps

(***************************************************************************)
(* Every action keeps to the mode the environment chose, and an unreadable *)
(* file is set aside (src/background.rs, src/workgraph.rs read_checked).   *)
(***************************************************************************)
LEMMA RunFile ==
  ASSUME MaxId \in Nat, RunInv, Run!Next
  PROVE  ModeKept' /\ FileKept'
<1>0. /\ RunType /\ ModeKept /\ FileKept /\ OutcomeKept /\ readable \in BOOLEAN
      /\ Run!IsGraph(graph)
  BY DEF RunInv, RunType, Run!TypeOK
<1>1. ModeKept'
  BY <1>0 DEF ModeKept, Looping, Run!Next, Run!Steps, Run!Start, Run!TaskTurn, Run!Load,
              Run!Seed, Run!Reset, Run!Pick, Run!PlanTurn, Run!PlanThere, Run!ExecTurn,
              Run!MarkDone, Run!CycleEnd, Run!Review, Run!Ledger, Run!Alert, Run!Spoil,
              Run!run, Run!Goto, Run!Finish
<1>2. Run!TurnEffect => readable' \in BOOLEAN /\ (readable => readable')
  BY <1>0, TurnTyped
<1>3. FileKept'
  <2>1. CASE Run!Load
    BY <1>0, <2>1 DEF Run!Load, Run!Goto, Run!Finish, FileKept, Run!UnreadableSetAside, ModeKept
  <2>2. CASE Run!Start \/ Run!TaskTurn
    BY <1>0, <1>2, <2>2
       DEF Run!Start, Run!TaskTurn, Run!disk, Run!Goto, Run!Finish, FileKept,
           Run!UnreadableSetAside, ModeKept
  <2>3. CASE \/ Run!Seed \/ Run!Reset \/ Run!PlanTurn \/ Run!ExecTurn \/ Run!Review
             \/ Run!Pick \/ Run!PlanThere \/ Run!MarkDone \/ Run!CycleEnd
    <3>1. /\ pc \in {"seed", "reset"} \cup Looping /\ mode = "workgraph" /\ state = "Running"
          /\ pc' \notin {"start", "load"} /\ mode' = mode
      BY <1>0, <2>3
         DEF Run!Seed, Run!Reset, Run!PlanTurn, Run!ExecTurn, Run!Review, Run!Pick,
             Run!PlanThere, Run!MarkDone, Run!CycleEnd, Run!Goto, Run!Finish, ModeKept,
             OutcomeKept, Looping, Before
    <3>2. ~history.unreadable
      BY <1>0, <3>1 DEF FileKept, Run!UnreadableSetAside, Looping
    <3>3. history'.unreadable = history.unreadable /\ history'.spoilt = history.spoilt
      BY <1>0, <2>3
         DEF Run!Seed, Run!Reset, Run!PlanTurn, Run!ExecTurn, Run!Review, Run!Pick,
             Run!PlanThere, Run!MarkDone, Run!CycleEnd, RunType
    <3>4. readable => readable'
      BY <1>0, <1>2, <2>3
         DEF Run!Seed, Run!Reset, Run!PlanTurn, Run!ExecTurn, Run!Review, Run!Pick,
             Run!PlanThere, Run!MarkDone, Run!CycleEnd, Run!Update, Run!disk
    <3>5. QED
      BY <1>0, <3>1, <3>2, <3>3, <3>4 DEF FileKept, Run!UnreadableSetAside, Looping
  <2>4. CASE Run!Ledger \/ Run!Alert
    BY <1>0, <2>4
       DEF Run!Ledger, Run!Alert, Run!disk, Run!Goto, FileKept, Run!UnreadableSetAside, RunType
  <2>5. CASE Run!Spoil
    BY <1>0, <2>5
       DEF Run!Spoil, Run!run, FileKept, Run!UnreadableSetAside, RunType
  <2>6. QED
    BY <2>1, <2>2, <2>3, <2>4, <2>5 DEF Run!Next, Run!Steps
<1>4. QED
  BY <1>1, <1>3

(***************************************************************************)
(* Every action agrees with the outcome: state, record, alert, exit code   *)
(* (src/background.rs, src/lib.rs run_background).                         *)
(***************************************************************************)
LEMMA RunOutcome ==
  ASSUME MaxId \in Nat, Run!BackgroundAssumption, RunInv, Run!Next
  PROVE  OutcomeKept'
<1>0. /\ RunType /\ BudgetKept /\ ModeKept /\ FileKept /\ OutcomeKept /\ readable \in BOOLEAN
      /\ MaxAuto \in Nat /\ advanced \in Nat /\ history.executed \in Nat
      /\ state \in Run!MissionStates /\ pc \in Before \cup Looping \cup Ending
  BY DEF RunInv, RunType, Run!TypeOK, Run!BackgroundAssumption, Before, Looping, Ending
<1>1. CASE Run!Start \/ Run!Load \/ Run!Seed \/ Run!TaskTurn
  <2>1. /\ pc \in Before /\ pc' \in Before \cup {"report"}
        /\ UNCHANGED <<ledger, code, history>>
        /\ pc' \in Before => state' = state
        /\ state' \in {"Running", "Error", "EmptyGraph"}
        /\ pc' = "report" /\ mode' = "workgraph" => state' # "Running"
    BY <1>0, <1>1
       DEF Run!Start, Run!Load, Run!Seed, Run!TaskTurn, Run!Goto, Run!Finish, Before,
           OutcomeKept, ModeKept
  <2>2. state = "Running" /\ ledger = {} /\ code = Run!NoCode /\ ~history.ready
    BY <1>0, <2>1 DEF OutcomeKept
  <2>3. QED
    BY <2>1, <2>2
       DEF OutcomeKept, Before, Looping, Run!CompletedMeansDone, Run!CodeAgreesWithLedger
<1>2. CASE Run!Reset
  <2>1. /\ pc = "reset" /\ pc' = "pick" /\ UNCHANGED <<ledger, code, state, advanced>>
        /\ history'.ready = (Run!Ready(graph') # {})
    BY <1>0, <1>2 DEF Run!Reset, Run!Goto, RunType
  <2>2. state = "Running" /\ ledger = {} /\ code = Run!NoCode /\ advanced = 0
    BY <1>0, <2>1 DEF OutcomeKept, BudgetKept, Before
  <2>3. history'.ready => Busy'
    BY <2>1, <2>2 DEF Busy
  <2>4. QED
    BY <2>1, <2>2, <2>3
       DEF OutcomeKept, Before, Looping, Run!CompletedMeansDone, Run!CodeAgreesWithLedger
<1>3. CASE Run!Pick
  <2>1. /\ pc = "pick" /\ UNCHANGED <<graph, readable, ledger, code, history, advanced, mode>>
        /\ \/ pc' = "cycle" /\ state' = state /\ (advanced >= MaxAuto \/ Run!Ready(graph) = {})
           \/ pc' = "report" /\ state' = "Error"
           \/ pc' = "plan" /\ state' = state
    BY <1>3 DEF Run!Pick, Run!Goto, Run!Finish, Run!disk
  <2>2. state = "Running" /\ ledger = {} /\ code = Run!NoCode
    BY <1>0, <2>1 DEF OutcomeKept, Looping
  <2>3. history.ready /\ MaxAuto > 0 /\ ~history.spoilt => Busy'
    BY <1>0, <2>1, <2>2 DEF OutcomeKept, Busy
  <2>4. QED
    BY <2>1, <2>2, <2>3
       DEF OutcomeKept, Before, Looping, Run!CompletedMeansDone, Run!CodeAgreesWithLedger
<1>4. CASE Run!PlanTurn \/ Run!PlanThere \/ Run!ExecTurn
  <2>1. /\ pc \in {"plan", "exec"} /\ UNCHANGED <<ledger, code>>
        /\ \/ pc' \in {"exec", "done"} /\ state' = state
           \/ pc' = "report" /\ state' = "Error"
        /\ history'.ready = history.ready /\ history'.spoilt = history.spoilt
        /\ pc' = "done" => history'.executed = history.executed + 1
    BY <1>0, <1>4 DEF Run!PlanTurn, Run!PlanThere, Run!ExecTurn, Run!Goto, Run!Finish, RunType
  <2>2. state = "Running" /\ ledger = {} /\ code = Run!NoCode
    BY <1>0, <2>1 DEF OutcomeKept, Looping
  <2>3. Busy'
    BY <1>0, <2>1 DEF Busy
  <2>4. QED
    BY <2>1, <2>2, <2>3
       DEF OutcomeKept, Before, Looping, Run!CompletedMeansDone, Run!CodeAgreesWithLedger
<1>5. CASE Run!MarkDone
  <2>1. /\ pc = "done" /\ UNCHANGED <<ledger, state, history, mode>>
        /\ \/ pc' = "pick" /\ code' = code
           \/ pc' = "exited" /\ code' = Run!PanicCode
    BY <1>5 DEF Run!MarkDone, Run!Goto
  <2>2. state = "Running" /\ ledger = {} /\ code = Run!NoCode /\ history.executed > 0
    BY <1>0, <2>1 DEF OutcomeKept, Looping, BudgetKept
  <2>3. Busy'
    BY <1>0, <2>1, <2>2 DEF Busy
  <2>4. QED
    BY <2>1, <2>2, <2>3
       DEF OutcomeKept, Before, Looping, Run!CompletedMeansDone, Run!CodeAgreesWithLedger,
           Run!PanicCode
<1>6. CASE Run!CycleEnd \/ Run!Review
  <2>1. /\ pc \in {"cycle", "review"} /\ UNCHANGED <<ledger, code, history, mode>>
        /\ \/ pc' \in {"pick", "review"} /\ state' = state
           \/ pc' = "report" /\ state' \in {"NeedsReview", "Error"}
           \/ /\ pc' = "report" /\ state' = "Completed"
              /\ ~Run!NeedsRework(IF readable' THEN graph' ELSE Run!NoGraph, Run!PlanCount)
              /\ Run!TurnEffect
    BY <1>6 DEF Run!CycleEnd, Run!Review, Run!Goto, Run!Finish
  <2>2. state = "Running" /\ ledger = {} /\ code = Run!NoCode /\ mode = "workgraph"
    BY <1>0, <2>1 DEF OutcomeKept, Looping, ModeKept
  <2>3. history.ready /\ MaxAuto > 0 /\ ~history.spoilt => Busy'
    BY <1>0, <2>1, <2>2 DEF OutcomeKept, Busy
  <2>4. state' = "Completed" /\ ~history.spoilt => Run!AllDone(graph')
    <3>1. state' = "Completed" /\ ~history.spoilt => readable
      BY <1>0, <2>1, <2>2 DEF FileKept
    <3>2. state' = "Completed" /\ ~history.spoilt => readable'
      <4>1. Run!IsGraph(graph)
        BY <1>0 DEF RunType, Run!TypeOK
      <4>2. QED
        BY <1>0, <2>1, <2>2, <3>1, <4>1, TurnTyped
    <3>3. QED
      BY <2>1, <2>2, <3>2 DEF Run!NeedsRework
  <2>5. QED
    BY <2>1, <2>2, <2>3, <2>4
       DEF OutcomeKept, Before, Looping, Run!CompletedMeansDone, Run!CodeAgreesWithLedger
<1>7. CASE Run!Spoil
  <2>1. /\ pc \in {"seed", "reset"} \cup Looping /\ UNCHANGED <<graph, Run!run>>
        /\ history'.spoilt = TRUE /\ history'.ready = history.ready
    BY <1>0, <1>7 DEF Run!Spoil, RunType, Looping
  <2>2. UNCHANGED <<pc, mode, state, ledger, code>>
    BY <2>1 DEF Run!run
  <2>3. QED
    BY <1>0, <2>1, <2>2
       DEF OutcomeKept, Before, Looping, Run!CompletedMeansDone, Run!CodeAgreesWithLedger
<1>8. CASE Run!Ledger
  <2>1. /\ pc = "report" /\ pc' = "alert" /\ UNCHANGED <<graph, mode, state, code>>
        /\ \E ok \in BOOLEAN : /\ ledger' = IF ok THEN ledger \cup {state} ELSE ledger
                               /\ history'.unrecorded = ~ok
        /\ history'.ready = history.ready /\ history'.spoilt = history.spoilt
        /\ history'.executed = history.executed
    BY <1>0, <1>8 DEF Run!Ledger, Run!Goto, Run!disk, RunType
  <2>2. ledger = {} /\ (mode = "workgraph" => state # "Running")
    BY <1>0, <2>1 DEF OutcomeKept
  <2>3. history.ready /\ MaxAuto > 0 /\ ~history.spoilt => Busy'
    BY <1>0, <2>1 DEF OutcomeKept, Busy
  <2>4. QED
    BY <1>0, <2>1, <2>2, <2>3
       DEF OutcomeKept, Before, Looping, Run!CompletedMeansDone, Run!CodeAgreesWithLedger
<1>9. CASE Run!Alert
  <2>1. /\ pc = "alert" /\ pc' = "exited" /\ UNCHANGED <<graph, mode, state, ledger, history>>
        /\ \/ code' = Run!ExitCode(state)
           \/ /\ code' = Run!PanicCode /\ Webhook
              /\ FailureOnly => Run!ExitCode(state) # 0
    BY <1>9 DEF Run!Alert, Run!Goto, Run!disk
  <2>2. /\ ledger \subseteq {state} /\ (ledger = {} => history.unrecorded)
        /\ mode = "workgraph" => state # "Running"
    BY <1>0, <2>1 DEF OutcomeKept
  <2>3. history.ready /\ MaxAuto > 0 /\ ~history.spoilt => Busy'
    BY <1>0, <2>1 DEF OutcomeKept, Busy
  <2>4. mode \in {"task", "workgraph"}
    BY <1>0, <2>1 DEF RunType, Run!TypeOK, ModeKept
  <2>5. code' = 0 => state \in {"Completed", "Running"}
    BY <1>0, <2>1 DEF Run!ExitCode, Run!PanicCode, Run!MissionStates
  <2>6. Run!CodeAgreesWithLedger'
    BY <2>1, <2>2, <2>4, <2>5 DEF Run!CodeAgreesWithLedger
  <2>7. QED
    BY <1>0, <2>1, <2>2, <2>3, <2>6
       DEF OutcomeKept, Before, Looping, Run!CompletedMeansDone
<1>10. QED
  BY <1>1, <1>2, <1>3, <1>4, <1>5, <1>6, <1>7, <1>8, <1>9 DEF Run!Next, Run!Steps

(***************************************************************************)
(* Over every headless run: what it reports is what it did                 *)
(* (src/background.rs, src/lib.rs).                                        *)
(***************************************************************************)
THEOREM RunHonestHolds ==
  ASSUME MaxId \in Nat, Run!BackgroundAssumption
  PROVE  Run!Spec => []RunHonest
<1>1. Run!Init => RunInv
  <2> SUFFICES ASSUME Run!Init PROVE RunInv
    OBVIOUS
  <2>1. PICK todos \in SUBSET Run!Ids : \E done \in SUBSET todos :
          \E active \in SUBSET (todos \ done) :
            graph = [n \in todos |->
                       [deps |-> {},
                        status |-> IF n \in done THEN "done"
                                   ELSE IF n \in active THEN "in_progress"
                                   ELSE "pending"]]
    BY DEF Run!Init
  <2>2. Run!IsGraph(graph)
    BY <2>1 DEF Run!IsGraph, Run!Milestone, Run!Statuses
  <2>3. RunType
    <3>1. advanced \in 0 .. MaxAuto /\ cycle \in 0 .. MaxCycles + 1
      BY DEF Run!Init, Run!BackgroundAssumption
    <3>2. /\ history.executed \in Nat /\ readable \in BOOLEAN
          /\ history = [executed |-> history.executed, spoilt |-> history.spoilt,
                        ready |-> history.ready, unreadable |-> history.unreadable,
                        unrecorded |-> history.unrecorded]
      BY DEF Run!Init
    <3>3. QED
      BY <2>2, <3>1, <3>2 DEF Run!Init, RunType, Run!TypeOK, Run!MissionStates
  <2>4. BudgetKept
    <3>1. 0 * MaxAuto = 0 /\ MaxAuto * Limit \in Nat
      BY DEF Run!BackgroundAssumption, Limit
    <3>2. 0 <= MaxAuto * Limit
      BY <3>1
    <3>3. QED
      BY <3>2 DEF Run!Init, BudgetKept, Before, Looping, Run!WithinBudget, Limit
  <2>5. ModeKept /\ FileKept
    BY DEF Run!Init, ModeKept, FileKept, Looping, Run!UnreadableSetAside
  <2>6. OutcomeKept
    BY DEF Run!Init, OutcomeKept, Before, Looping, Run!CompletedMeansDone,
           Run!CodeAgreesWithLedger
  <2>7. QED
    BY <2>3, <2>4, <2>5, <2>6 DEF RunInv
<1>2. RunInv /\ [Run!Next]_(Run!vars) => RunInv'
  <2>1. ASSUME RunInv, Run!Next PROVE RunInv'
    BY <2>1, RunTyped, RunBudget, RunFile, RunOutcome DEF RunInv
  <2>2. ASSUME RunInv, UNCHANGED Run!vars PROVE RunInv'
    BY <2>2
       DEF Run!vars, Run!disk, Run!run, RunInv, RunType, Run!TypeOK, BudgetKept, ModeKept,
           FileKept, OutcomeKept, Busy, Spent, Run!WithinBudget, Run!CompletedMeansDone,
           Run!CodeAgreesWithLedger, Run!UnreadableSetAside
  <2>3. QED
    BY <2>1, <2>2
<1>3. RunInv => RunHonest
  BY DEF RunInv, RunType, BudgetKept, FileKept, OutcomeKept, RunHonest, Run!RunHonest,
         Run!WorkgraphRunDecides, Busy
<1>4. QED
  BY <1>1, <1>2, <1>3, PTL DEF Run!Spec

-----------------------------------------------------------------------------
\* The run ledger (BgLedger): any processes, any limit, any number of records.

\* A file of records up to w in the order of the runs, each on a line of its
\* own but for the spoiled ones.
Orderly(s, w, sp) ==
  /\ s \in Seq(Nat)
  /\ \A i \in 1 .. Len(s) : s[i] <= w
  /\ \A i, j \in 1 .. Len(s) : i < j /\ s[i] # 0 /\ s[j] # 0 => s[i] < s[j]
  /\ \A i \in 1 .. Len(s) :
       s[i] # 0 /\ s[i] \notin sp =>
         (i = 1 \/ s[i - 1] = 0) /\ (i = Len(s) \/ s[i + 1] = 0)

\* An unfinished last line has a cause: a missing newline, or one to come.
TailKnown ==
  Len(ledgerFile) > 0 /\ ledgerFile[Len(ledgerFile)] # 0 => bare \/ Ledger!Unended # {}

LedgerInv ==
  /\ Ledger!TypeOK
  /\ Orderly(ledgerFile, written, spoiled) /\ TailKnown
  /\ 1 .. written \subseteq Ledger!On(ledgerFile) \cup exposed
  /\ cleaner = "rename" =>
       /\ Orderly(kept, written, spoiled)
       /\ 1 .. written \subseteq Ledger!On(kept) \cup exposed

(***************************************************************************)
(* A record or a newline at the end of the file (src/bg_ledger.rs append). *)
(***************************************************************************)
LEMMA TokenWritten ==
  ASSUME NEW s \in Seq(Nat), NEW x \in Nat, NEW w \in Nat, NEW v \in Nat,
         NEW sp, NEW sq, Orderly(s, w, sp), sp \subseteq sq,
         \/ x = 0 /\ v = w
         \/ /\ x = w + 1 /\ v = w + 1
            /\ Len(s) > 0 /\ s[Len(s)] # 0 => s[Len(s)] \in sq /\ x \in sq
  PROVE  /\ Orderly(Append(s, x), v, sq)
         /\ Ledger!On(s) \cup ({x} \ {0}) \subseteq Ledger!On(Append(s, x))
<1> DEFINE t == Append(s, x)
           n == Len(s)
<1>1. /\ t \in Seq(Nat) /\ Len(t) = n + 1 /\ n \in Nat /\ t[n + 1] = x
      /\ \A i \in 1 .. n : t[i] = s[i]
      /\ DOMAIN t = 1 .. n + 1 /\ DOMAIN s = 1 .. n
  OBVIOUS
<1>2. \A i \in 1 .. n : s[i] \in Nat
  OBVIOUS
<1> HIDE DEF t, n
<1>3. /\ \A i \in 1 .. n : s[i] <= w
      /\ \A i, j \in 1 .. n : i < j /\ s[i] # 0 /\ s[j] # 0 => s[i] < s[j]
      /\ \A i \in 1 .. n :
           s[i] # 0 /\ s[i] \notin sp =>
             (i = 1 \/ s[i - 1] = 0) /\ (i = n \/ s[i + 1] = 0)
  BY DEF Orderly, n
<1>4. \A i \in 1 .. n + 1 : t[i] <= v
  BY <1>1, <1>2, <1>3
<1>5. ASSUME NEW i \in 1 .. n + 1, NEW j \in 1 .. n + 1, i < j, t[i] # 0, t[j] # 0
      PROVE  t[i] < t[j]
  <2>1. i \in 1 .. n /\ t[i] = s[i] /\ s[i] <= w
    BY <1>1, <1>3, <1>5
  <2>2. CASE j \in 1 .. n
    BY <1>1, <1>3, <1>5, <2>1, <2>2
  <2>3. CASE j = n + 1
    BY <1>1, <1>2, <1>5, <2>1, <2>3
  <2> QED BY <1>1, <2>2, <2>3
<1>6. ASSUME NEW i \in 1 .. n + 1, t[i] # 0, t[i] \notin sq
      PROVE  (i = 1 \/ t[i - 1] = 0) /\ (i = n + 1 \/ t[i + 1] = 0)
  <2>1. CASE i = n + 1
    <3>1. x = w + 1 /\ x \notin sq /\ (n > 0 => s[n] = 0)
      BY <1>1, <1>6, <2>1 DEF n
    <3>2. n > 0 => t[i - 1] = s[n]
      BY <1>1, <2>1
    <3>3. QED
      BY <1>1, <2>1, <3>1, <3>2
  <2>2. CASE i \in 1 .. n
    <3>1. /\ t[i] = s[i] /\ (i > 1 => t[i - 1] = s[i - 1])
          /\ i < n => t[i + 1] = s[i + 1]
          /\ i = n => t[i + 1] = x
      BY <1>1, <2>2
    <3>2. /\ i = 1 \/ s[i - 1] = 0
          /\ i = n \/ s[i + 1] = 0
      BY <1>3, <1>6, <2>2, <3>1
    <3>3. i = n => x = 0
      <4>1. i = n => n > 0
        BY <2>2
      <4>2. QED
        BY <1>6, <3>1, <4>1 DEF n
    <3>4. QED
      BY <1>1, <2>2, <3>1, <3>2, <3>3
  <2>3. QED
    BY <1>1, <2>1, <2>2
<1>7. Ledger!On(s) \cup ({x} \ {0}) \subseteq Ledger!On(t)
  <2>1. \A i \in DOMAIN s : i \in DOMAIN t /\ t[i] = s[i]
    BY <1>1
  <2>2. n + 1 \in DOMAIN t /\ t[n + 1] = x
    BY <1>1
  <2>3. QED
    BY <2>1, <2>2 DEF Ledger!On, Ledger!NL
<1>8. QED
  BY <1>1, <1>4, <1>5, <1>6, <1>7 DEF Orderly, t

(***************************************************************************)
(* What a truncation keeps is in order too (src/bg_ledger.rs truncate).    *)
(***************************************************************************)
LEMMA LinesKept ==
  ASSUME NEW s \in Seq(Nat), NEW w \in Nat, NEW sp, Orderly(s, w, sp),
         NEW first \in Ledger!LineStarts(s)
  PROVE  Orderly(Ledger!From(s, first), w, sp)
<1> DEFINE e == IF Ledger!Ends(s) THEN Len(s) - 1 ELSE Len(s)
           t == SubSeq(s, first, e)
<1>1. /\ Len(s) \in Nat /\ first \in 1 .. Len(s) /\ e \in Nat /\ e <= Len(s)
      /\ e # Len(s) => e + 1 = Len(s)
  BY DEF Ledger!LineStarts, Ledger!Ends
<1>2. e # Len(s) => s[Len(s)] = 0
  BY <1>1 DEF Ledger!Ends, Ledger!NL
<1> HIDE DEF e
<1>3. /\ t \in Seq(Nat)
      /\ Len(t) = IF first <= e THEN e - first + 1 ELSE 0
      /\ \A i \in 1 .. Len(t) : t[i] = s[first + i - 1]
  BY <1>1
<1> HIDE DEF t
<1>4. \A i \in 1 .. Len(t) : first + i - 1 \in 1 .. Len(s) /\ first + i - 1 <= e
  BY <1>1, <1>3
<1>5. /\ \A i \in 1 .. Len(s) : s[i] <= w
      /\ \A i, j \in 1 .. Len(s) : i < j /\ s[i] # 0 /\ s[j] # 0 => s[i] < s[j]
      /\ \A i \in 1 .. Len(s) :
           s[i] # 0 /\ s[i] \notin sp =>
             (i = 1 \/ s[i - 1] = 0) /\ (i = Len(s) \/ s[i + 1] = 0)
  BY DEF Orderly
<1>6. \A i \in 1 .. Len(t) : t[i] <= w
  BY <1>3, <1>4, <1>5
<1>7. \A i, j \in 1 .. Len(t) : i < j /\ t[i] # 0 /\ t[j] # 0 => t[i] < t[j]
  <2>1. \A i, j \in 1 .. Len(t) : i < j => first + i - 1 < first + j - 1
    BY <1>1, <1>3
  <2>2. QED
    BY <1>3, <1>4, <1>5, <2>1
<1>8. ASSUME NEW i \in 1 .. Len(t), t[i] # 0, t[i] \notin sp
      PROVE  (i = 1 \/ t[i - 1] = 0) /\ (i = Len(t) \/ t[i + 1] = 0)
  <2> DEFINE k == first + i - 1
  <2>1. k \in 1 .. Len(s) /\ k <= e /\ t[i] = s[k] /\ Len(t) \in Nat
    BY <1>3, <1>4
  <2>2. (k = 1 \/ s[k - 1] = 0) /\ (k = Len(s) \/ s[k + 1] = 0)
    BY <1>5, <1>8, <2>1
  <2>3. i # 1 => t[i - 1] = s[k - 1] /\ k # 1
    <3>1. i # 1 => i - 1 \in 1 .. Len(t) /\ first + (i - 1) - 1 = k - 1 /\ k # 1
      BY <1>1, <2>1
    <3>2. QED
      BY <1>3, <3>1
  <2>4. i # Len(t) => t[i + 1] = s[k + 1] /\ k # Len(s)
    <3>1. i # Len(t) => i + 1 \in 1 .. Len(t) /\ first + (i + 1) - 1 = k + 1
      <4>1. i \in Nat /\ first \in Nat /\ Len(t) \in Nat /\ i <= Len(t)
        BY <1>1, <2>1
      <4>2. QED
        BY <4>1
    <3>2. i # Len(t) => t[i + 1] = s[k + 1] /\ k + 1 <= e
      BY <1>3, <1>4, <3>1
    <3>3. QED
      BY <1>1, <2>1, <3>2
  <2>5. QED
    BY <2>2, <2>3, <2>4
<1>9. QED
  BY <1>3, <1>6, <1>7, <1>8 DEF Orderly, Ledger!From, t, e

(***************************************************************************)
(* Every step of the appenders and of the truncating thread keeps what is  *)
(* known of the file and of the copy (src/bg_ledger.rs).                   *)
(***************************************************************************)
LEMMA LedgerStep ==
  ASSUME Ledger!LedgerAssumption, LedgerInv, Ledger!Next
  PROVE  LedgerInv'
<1>0. /\ Ledger!TypeOK /\ MaxLines \in Nat /\ MaxRecords \in Nat /\ written \in Nat
      /\ Orderly(ledgerFile, written, spoiled) /\ ledgerFile \in Seq(Nat)
      /\ Len(ledgerFile) \in Nat
      /\ 1 .. written \subseteq Ledger!On(ledgerFile) \cup exposed
  <2>1. MaxLines \in Nat /\ MaxRecords \in Nat /\ written \in Nat
    BY DEF LedgerInv, Ledger!TypeOK, Ledger!LedgerAssumption, Ledger!Records
  <2>2. QED
    BY <2>1 DEF LedgerInv, Orderly
<1>1. ASSUME NEW a \in Appenders, Ledger!Open(a)
      PROVE  LedgerInv'
  <2>1. /\ appending[a] = "idle" /\ appending' = [appending EXCEPT ![a] = "opened"]
        /\ UNCHANGED <<ledgerFile, stray, written, cleaner, kept, memo, bare, exposed, spoiled>>
    BY <1>1 DEF Ledger!Open
  <2>2. Ledger!TypeOK'
    BY <1>0, <2>1 DEF Ledger!TypeOK, Ledger!Records
  <2>3. Ledger!Unended \subseteq Ledger!Unended'
    BY <1>0, <2>1 DEF Ledger!Unended, Ledger!TypeOK
  <2>4. TailKnown'
    BY <2>1, <2>3 DEF LedgerInv, TailKnown
  <2>5. QED
    BY <1>0, <2>1, <2>2, <2>4 DEF LedgerInv
<1>2. ASSUME NEW a \in Appenders, Ledger!WriteRecord(a)
      PROVE  LedgerInv'
  <2>1. /\ appending[a] = "opened" /\ appending' = [appending EXCEPT ![a] = "newline"]
        /\ written' = written + 1 /\ written + 1 \in Ledger!Records
        /\ exposed' = IF a \in stray \/ cleaner = "rename"
                      THEN exposed \cup {written + 1} ELSE exposed
        /\ UNCHANGED <<stray, cleaner, kept, memo>>
    BY <1>0, <1>2 DEF Ledger!WriteRecord, Ledger!Records
  <2>2. /\ a \in stray => UNCHANGED <<ledgerFile, bare, spoiled>>
        /\ a \notin stray =>
             /\ ledgerFile' = Append(ledgerFile, written + 1) /\ bare' = FALSE
             /\ spoiled' = IF bare \/ Ledger!Unended # {}
                           THEN spoiled \cup {written + 1} \cup Ledger!OnLast ELSE spoiled
    BY <1>2, <2>1 DEF Ledger!WriteRecord
  <2>3. spoiled \subseteq spoiled'
    BY <2>2
  <2>4. Ledger!Unended \subseteq Ledger!Unended'
    BY <1>0, <2>1 DEF Ledger!Unended, Ledger!TypeOK
  <2>5. 1 .. written' \subseteq 1 .. written \cup {written + 1}
    BY <1>0, <2>1
  <2>6. ASSUME NEW s, Orderly(s, written, spoiled)
        PROVE  Orderly(s, written', spoiled')
    <3>1. \A i \in 1 .. Len(s) : s[i] \in Nat
      BY <2>6 DEF Orderly
    <3>2. QED
      BY <1>0, <2>1, <2>3, <2>6, <3>1 DEF Orderly
  <2>7. /\ Orderly(ledgerFile', written', spoiled') /\ TailKnown'
        /\ 1 .. written' \subseteq Ledger!On(ledgerFile') \cup exposed'
        /\ ledgerFile' \in Seq(Ledger!Records \cup {0}) /\ bare' \in BOOLEAN
        /\ spoiled' \subseteq Ledger!Records
    <3>1. CASE a \in stray
      <4>1. UNCHANGED <<ledgerFile, bare, spoiled>> /\ exposed' = exposed \cup {written + 1}
        BY <2>1, <2>2, <3>1
      <4>2. TailKnown'
        BY <2>4, <4>1 DEF LedgerInv, TailKnown
      <4>3. QED
        BY <1>0, <2>5, <2>6, <4>1, <4>2 DEF Ledger!TypeOK, Ledger!NL
    <3>2. CASE a \notin stray
      <4>1. /\ ledgerFile' = Append(ledgerFile, written + 1) /\ bare' = FALSE
            /\ spoiled' = IF bare \/ Ledger!Unended # {}
                          THEN spoiled \cup {written + 1} \cup Ledger!OnLast ELSE spoiled
        BY <2>2, <3>2
      <4>2. Len(ledgerFile) > 0 /\ ledgerFile[Len(ledgerFile)] # 0
              => ledgerFile[Len(ledgerFile)] \in spoiled' /\ written + 1 \in spoiled'
        <5> SUFFICES ASSUME Len(ledgerFile) > 0, ledgerFile[Len(ledgerFile)] # 0
                     PROVE  ledgerFile[Len(ledgerFile)] \in spoiled' /\ written + 1 \in spoiled'
          OBVIOUS
        <5>1. bare \/ Ledger!Unended # {}
          BY DEF LedgerInv, TailKnown
        <5>2. Len(ledgerFile) \in DOMAIN ledgerFile
          BY <1>0
        <5>3. ledgerFile[Len(ledgerFile)] \in Ledger!OnLast
          BY <5>2 DEF Ledger!OnLast, Ledger!NL
        <5>4. QED
          BY <4>1, <5>1, <5>3
      <4>3. /\ Orderly(ledgerFile', written + 1, spoiled')
            /\ Ledger!On(ledgerFile) \cup ({written + 1} \ {0}) \subseteq Ledger!On(ledgerFile')
        <5>1. written + 1 \in Nat
          BY <1>0
        <5>2. QED
          BY ONLY <1>0, <2>3, <4>1, <4>2, <5>1, TokenWritten
      <4>4. a \in Ledger!Unended'
        BY <1>0, <2>1, <3>2 DEF Ledger!Unended, Ledger!TypeOK
      <4>5. TailKnown'
        BY <4>4 DEF TailKnown
      <4>6. 1 .. written' \subseteq Ledger!On(ledgerFile') \cup exposed'
        <5>1. written + 1 # 0
          BY <1>0
        <5>2. QED
          BY <1>0, <2>1, <2>5, <4>3, <5>1
      <4>7. /\ Ledger!OnLast \subseteq Ledger!Records
            /\ ledgerFile' \in Seq(Ledger!Records \cup {0})
        <5>1. ledgerFile \in Seq(Ledger!Records \cup {0})
          BY <1>0 DEF Ledger!TypeOK, Ledger!NL
        <5>2. Ledger!OnLast \subseteq Ledger!Records
          BY <5>1 DEF Ledger!OnLast, Ledger!NL
        <5>3. QED
          BY <2>1, <4>1, <5>1, <5>2
      <4>8. spoiled' \subseteq Ledger!Records
        BY <1>0, <2>1, <4>1, <4>7 DEF Ledger!TypeOK
      <4>9. QED
        BY <2>1, <4>1, <4>3, <4>5, <4>6, <4>7, <4>8
    <3>3. QED
      BY <3>1, <3>2
  <2>8. Ledger!TypeOK'
    BY <1>0, <2>1, <2>7 DEF Ledger!TypeOK, Ledger!Records, Ledger!NL
  <2>9. cleaner' = "rename" =>
          /\ Orderly(kept', written', spoiled')
          /\ 1 .. written' \subseteq Ledger!On(kept') \cup exposed'
    BY <2>1, <2>5, <2>6 DEF LedgerInv
  <2>10. QED
    BY <2>7, <2>8, <2>9 DEF LedgerInv
<1>3. ASSUME NEW a \in Appenders, Ledger!WriteNewline(a)
      PROVE  LedgerInv'
  <2>1. /\ appending[a] = "newline" /\ appending' = [appending EXCEPT ![a] = "idle"]
        /\ stray' = stray \ {a}
        /\ UNCHANGED <<written, cleaner, kept, memo, exposed, spoiled>>
        /\ a \in stray => UNCHANGED <<ledgerFile, bare>>
        /\ a \notin stray => ledgerFile' = Append(ledgerFile, 0) /\ bare' = FALSE
    BY <1>3 DEF Ledger!WriteNewline, Ledger!NL
  <2>2. /\ Orderly(ledgerFile', written, spoiled) /\ TailKnown'
        /\ 1 .. written \subseteq Ledger!On(ledgerFile') \cup exposed
        /\ ledgerFile' \in Seq(Ledger!Records \cup {0}) /\ bare' \in BOOLEAN
    <3>1. CASE a \in stray
      <4>1. Ledger!Unended' = Ledger!Unended
        BY <1>0, <2>1, <3>1 DEF Ledger!Unended, Ledger!TypeOK
      <4>2. TailKnown'
        BY <2>1, <3>1, <4>1 DEF LedgerInv, TailKnown
      <4>3. QED
        BY <1>0, <2>1, <3>1, <4>2 DEF Ledger!TypeOK, Ledger!NL
    <3>2. CASE a \notin stray
      <4>1. /\ Orderly(ledgerFile', written, spoiled)
            /\ Ledger!On(ledgerFile) \subseteq Ledger!On(ledgerFile')
        BY <1>0, <2>1, <3>2, TokenWritten
      <4>2. ledgerFile'[Len(ledgerFile')] = 0
        BY <1>0, <2>1, <3>2
      <4>3. ledgerFile' \in Seq(Ledger!Records \cup {0})
        <5>1. ledgerFile \in Seq(Ledger!Records \cup {0})
          BY <1>0 DEF Ledger!TypeOK, Ledger!NL
        <5>2. QED
          BY <2>1, <3>2, <5>1
      <4>4. QED
        BY <1>0, <2>1, <3>2, <4>1, <4>2, <4>3 DEF TailKnown
    <3>3. QED
      BY <3>1, <3>2
  <2>3. Ledger!TypeOK'
    BY <1>0, <2>1, <2>2 DEF Ledger!TypeOK, Ledger!Records, Ledger!NL
  <2>4. QED
    BY <2>1, <2>2, <2>3 DEF LedgerInv
<1>4. ASSUME NEW a \in Appenders, Ledger!AppendDies(a)
      PROVE  LedgerInv'
  <2>1. /\ appending' = [appending EXCEPT ![a] = "idle"] /\ stray' = stray \ {a}
        /\ bare' = (bare \/ a \in Ledger!Unended)
        /\ UNCHANGED <<ledgerFile, written, cleaner, kept, memo, exposed, spoiled>>
    BY <1>4 DEF Ledger!AppendDies
  <2>2. Ledger!Unended \subseteq Ledger!Unended' \cup {a}
    BY <1>0, <2>1 DEF Ledger!Unended, Ledger!TypeOK
  <2>3. bare' \/ Ledger!Unended' # {} \/ ~(bare \/ Ledger!Unended # {})
    BY <2>1, <2>2
  <2>4. TailKnown'
    BY <2>1, <2>3 DEF LedgerInv, TailKnown
  <2>5. bare' \in BOOLEAN
    BY <2>1
  <2>6. Ledger!TypeOK'
    BY <1>0, <2>1, <2>5 DEF Ledger!TypeOK, Ledger!Records
  <2>7. QED
    BY <1>0, <2>1, <2>4, <2>6 DEF LedgerInv
<1>5. CASE Ledger!TruncateRead
  <2>1. PICK first \in Ledger!LineStarts(ledgerFile) : kept' = Ledger!From(ledgerFile, first)
    BY <1>5 DEF Ledger!TruncateRead
  <2>2. /\ cleaner' = "rename"
        /\ exposed' = exposed \cup (Ledger!On(ledgerFile) \ Ledger!On(kept'))
        /\ UNCHANGED <<ledgerFile, appending, stray, written, memo, bare, spoiled>>
    BY <1>5 DEF Ledger!TruncateRead
  <2>3. Orderly(kept', written, spoiled)
    BY <1>0, <2>1, LinesKept
  <2>4. /\ kept' \in Seq(Ledger!Records \cup {0})
        /\ Ledger!On(ledgerFile) \subseteq Ledger!Records
    <3>1. ledgerFile \in Seq(Ledger!Records \cup {0})
      BY <1>0 DEF Ledger!TypeOK, Ledger!NL
    <3>2. Ledger!On(ledgerFile) \subseteq Ledger!Records
      BY <3>1 DEF Ledger!On, Ledger!NL
    <3>3. first \in 1 .. Len(ledgerFile)
      BY <1>0 DEF Ledger!LineStarts
    <3>4. \A e \in {Len(ledgerFile), Len(ledgerFile) - 1} :
            SubSeq(ledgerFile, first, e) \in Seq(Ledger!Records \cup {0})
      BY <1>0, <3>1, <3>3
    <3>5. QED
      BY <2>1, <3>2, <3>4 DEF Ledger!From
  <2>5. Ledger!TypeOK'
    BY <1>0, <2>2, <2>4 DEF Ledger!TypeOK, Ledger!Records, Ledger!NL
  <2>6. TailKnown'
    BY <2>2 DEF LedgerInv, TailKnown, Ledger!Unended
  <2>7. QED
    BY <1>0, <2>2, <2>3, <2>5, <2>6 DEF LedgerInv
<1>6. CASE Ledger!TruncateRename
  <2>1. /\ cleaner = "rename" /\ ledgerFile' = kept /\ bare' = TRUE
        /\ stray' \subseteq Appenders /\ cleaner' = "idle" /\ kept' = <<>>
        /\ UNCHANGED <<appending, written, memo, exposed, spoiled>>
    BY <1>6 DEF Ledger!TruncateRename
  <2>2. Ledger!TypeOK'
    BY <1>0, <2>1 DEF Ledger!TypeOK, Ledger!Records
  <2>3. TailKnown'
    BY <2>1 DEF TailKnown
  <2>4. QED
    BY <2>1, <2>2, <2>3 DEF LedgerInv
<1>7. CASE Ledger!TruncateFails
  <2>1. /\ cleaner' = "idle" /\ kept' = <<>>
        /\ UNCHANGED <<ledgerFile, appending, stray, written, memo, bare, exposed, spoiled>>
    BY <1>7 DEF Ledger!TruncateFails
  <2>2. Ledger!TypeOK'
    BY <1>0, <2>1 DEF Ledger!TypeOK, Ledger!Records
  <2>3. TailKnown'
    BY <2>1 DEF LedgerInv, TailKnown, Ledger!Unended
  <2>4. QED
    BY <1>0, <2>1, <2>2, <2>3 DEF LedgerInv
<1>8. CASE Ledger!ReviewLast
  <2>1. /\ UNCHANGED <<ledgerFile, appending, stray, written, cleaner, kept, bare, exposed, spoiled>>
        /\ ledgerFile # <<>>
        /\ \/ memo' = memo
           \/ \E last \in {Len(ledgerFile) - 1, Len(ledgerFile)} :
                last > 0 /\ ledgerFile[last] # 0 /\ memo' = ledgerFile[last]
    BY <1>8 DEF Ledger!ReviewLast, Ledger!NL
  <2>2. memo' \in Ledger!Records \cup {0}
    <3>1. ledgerFile \in Seq(Ledger!Records \cup {0})
      BY <1>0 DEF Ledger!TypeOK, Ledger!NL
    <3>2. \A i \in 1 .. Len(ledgerFile) : ledgerFile[i] \in Ledger!Records \cup {0}
      BY <3>1
    <3>3. QED
      BY <1>0, <2>1, <3>2 DEF Ledger!TypeOK
  <2>3. Ledger!TypeOK'
    BY <1>0, <2>1, <2>2 DEF Ledger!TypeOK, Ledger!Records
  <2>4. TailKnown'
    BY <2>1 DEF LedgerInv, TailKnown, Ledger!Unended
  <2>5. QED
    BY <1>0, <2>1, <2>3, <2>4 DEF LedgerInv
<1>9. QED
  BY <1>1, <1>2, <1>3, <1>4, <1>5, <1>6, <1>7, <1>8 DEF Ledger!Next

(***************************************************************************)
(* Over every interleaving of the processes that append, in two writes,    *)
(* and the thread that truncates: RecordsSurvive (src/bg_ledger.rs).       *)
(***************************************************************************)
THEOREM RecordsSurviveHolds ==
  ASSUME Ledger!LedgerAssumption
  PROVE  Ledger!Spec => [](Ledger!TypeOK /\ Ledger!RecordsSurvive)
<1>1. Ledger!Init => LedgerInv
  <2> SUFFICES ASSUME Ledger!Init PROVE LedgerInv
    OBVIOUS
  <2>1. /\ <<>> \in Seq(Ledger!Records \cup {0}) /\ <<>> \in Seq(Nat) /\ Len(<<>>) = 0
        /\ 1 .. 0 = {}
    OBVIOUS
  <2>2. Ledger!TypeOK
    BY <2>1 DEF Ledger!Init, Ledger!TypeOK, Ledger!NL
  <2>3. Orderly(ledgerFile, written, spoiled)
    BY <2>1 DEF Ledger!Init, Orderly
  <2>4. QED
    BY <2>1, <2>2, <2>3 DEF Ledger!Init, LedgerInv, TailKnown
<1>2. LedgerInv /\ [Ledger!Next]_(Ledger!ledgerVars) => LedgerInv'
  <2>1. ASSUME LedgerInv, UNCHANGED Ledger!ledgerVars PROVE LedgerInv'
    <3>1. UNCHANGED <<ledgerFile, appending, stray, written, cleaner, kept, memo, bare,
                      exposed, spoiled>>
      BY <2>1 DEF Ledger!ledgerVars
    <3>2. QED
      BY <2>1, <3>1
         DEF LedgerInv, TailKnown, Ledger!TypeOK, Ledger!Unended, Ledger!Records
  <2>2. QED
    BY <2>1, LedgerStep
<1>3. LedgerInv => Ledger!TypeOK /\ Ledger!RecordsSurvive
  <2> SUFFICES ASSUME LedgerInv PROVE Ledger!TypeOK /\ Ledger!RecordsSurvive
    OBVIOUS
  <2>1. DOMAIN ledgerFile = 1 .. Len(ledgerFile)
    BY DEF LedgerInv, Orderly
  <2>2. QED
    BY <2>1 DEF LedgerInv, Orderly, Ledger!RecordsSurvive, Ledger!Alone, Ledger!NL
<1>4. QED
  BY <1>1, <1>2, <1>3, PTL DEF Ledger!Spec

-----------------------------------------------------------------------------
\* The event stream (EventStream): for any size, any number of rotated files.

Numbers == 1 .. MaxStream

\* The events of one file, and whether they are in the order of emission.
InOneFile(l) == {l[i] : i \in DOMAIN l}
InOrder(l) == \A i, j \in DOMAIN l : i < j => l[i] < l[j]
InFiles(s) == UNION {InOneFile(s[f]) : f \in Stream!Files}

StreamType ==
  /\ stream \in [Stream!Files -> Seq(Numbers)]
  /\ outer \in [file : Stream!Files, pos : Nat, append : BOOLEAN]
  /\ inner \in Stream!Files
  /\ emitted \in 0 .. MaxStream
  /\ dropped \subseteq Numbers /\ torn \subseteq Numbers

\* Nothing is kept under the name past the oldest file.
StreamInv ==
  /\ StreamType /\ stream[Stream!Gone] = <<>>
  /\ 1 .. emitted = InFiles(stream) \cup dropped \cup torn
  /\ torn = {} => \A f \in Stream!Files : InOrder(stream[f])

\* What an observer finds (Found) accounts for the same events.
FoundOK(found) ==
  /\ found.stream \in [Stream!Files -> Seq(Numbers)]
  /\ found.stream[Stream!Gone] = <<>>
  /\ found.outer \in [file : Stream!Files, pos : Nat, append : BOOLEAN]
  /\ found.inner \in Stream!Files /\ found.dropped \subseteq Numbers
  /\ InFiles(stream) \cup dropped = InFiles(found.stream) \cup found.dropped
  /\ torn = {} => \A f \in Stream!Files : InOrder(found.stream[f])

(***************************************************************************)
(* One file: an event at its end, or over another one                      *)
(* (src/bg_observer.rs emit).                                              *)
(***************************************************************************)
LEMMA FileWritten ==
  ASSUME NEW l \in Seq(Numbers), NEW e \in Numbers
  PROVE  /\ Append(l, e) \in Seq(Numbers)
         /\ InOneFile(Append(l, e)) = InOneFile(l) \cup {e}
         /\ InOrder(l) /\ (\A x \in InOneFile(l) : x < e) => InOrder(Append(l, e))
         /\ \A at \in Nat : at < Len(l) =>
              /\ [l EXCEPT ![at + 1] = e] \in Seq(Numbers) /\ at + 1 \in DOMAIN l
              /\ InOneFile([l EXCEPT ![at + 1] = e]) \subseteq InOneFile(l) \cup {e}
              /\ InOneFile(l) \cup {e} \subseteq InOneFile([l EXCEPT ![at + 1] = e]) \cup
                   {l[at + 1]}
<1> DEFINE k == Append(l, e)
<1>1. /\ k \in Seq(Numbers) /\ Len(l) \in Nat
      /\ DOMAIN l = 1 .. Len(l) /\ DOMAIN k = 1 .. Len(l) + 1 /\ k[Len(l) + 1] = e
      /\ \A i \in 1 .. Len(l) : k[i] = l[i]
  OBVIOUS
<1> HIDE DEF k
<1>2. InOneFile(k) = InOneFile(l) \cup {e}
  <2>1. \A i \in DOMAIN k : k[i] \in InOneFile(l) \cup {e}
    BY <1>1 DEF InOneFile
  <2>2. \A i \in DOMAIN l : i \in DOMAIN k /\ k[i] = l[i]
    BY <1>1
  <2>3. Len(l) + 1 \in DOMAIN k
    BY <1>1
  <2>4. QED
    BY <1>1, <2>1, <2>2, <2>3 DEF InOneFile
<1>3. InOrder(l) /\ (\A x \in InOneFile(l) : x < e) => InOrder(k)
  BY <1>1 DEF InOrder, InOneFile
<1>4. ASSUME NEW at \in Nat, at < Len(l)
      PROVE  /\ [l EXCEPT ![at + 1] = e] \in Seq(Numbers) /\ at + 1 \in DOMAIN l
             /\ InOneFile([l EXCEPT ![at + 1] = e]) \subseteq InOneFile(l) \cup {e}
             /\ InOneFile(l) \cup {e} \subseteq InOneFile([l EXCEPT ![at + 1] = e]) \cup {l[at + 1]}
  <2> DEFINE m == [l EXCEPT ![at + 1] = e]
  <2>1. at + 1 \in DOMAIN l
    BY <1>1, <1>4
  <2>2. /\ DOMAIN m = DOMAIN l /\ m[at + 1] = e
        /\ \A i \in DOMAIN l : i # at + 1 => m[i] = l[i]
    BY <2>1
  <2>3. m \in Seq(Numbers)
    BY <1>1, <2>1
  <2> HIDE DEF m
  <2>4. InOneFile(m) \subseteq InOneFile(l) \cup {e}
    BY <2>1, <2>2 DEF InOneFile
  <2>5. InOneFile(l) \cup {e} \subseteq InOneFile(m) \cup {l[at + 1]}
    BY <2>1, <2>2 DEF InOneFile
  <2>6. QED
    BY <2>1, <2>3, <2>4, <2>5 DEF m
<1>5. QED
  BY <1>1, <1>2, <1>3, <1>4 DEF k

(***************************************************************************)
(* A rotation moves every file up, and drops the oldest                    *)
(* (src/bg_observer.rs rotate_ndjson).                                     *)
(***************************************************************************)
LEMMA FoundAccounts ==
  ASSUME Stream!StreamAssumption, StreamInv, NEW who \in {"inner", "outer"}
  PROVE  FoundOK(Stream!Found(who))
<1> DEFINE found == Stream!Found(who)
<1>0. StreamType /\ stream[Stream!Gone] = <<>> /\ MaxRotated \in Nat \ {0} /\ MaxStream \in Nat
  BY DEF StreamInv, Stream!StreamAssumption
<1>1. CASE ~(Len(stream[1]) > RotateSize)
  <2>1. /\ found.stream = stream /\ found.outer = outer /\ found.inner = inner
        /\ found.dropped = dropped
    BY <1>1 DEF Stream!Found
  <2>2. QED
    BY <1>0, <2>1 DEF FoundOK, StreamInv, StreamType
<1>2. CASE Len(stream[1]) > RotateSize
  <2>0. /\ Stream!Gone \in Nat /\ Stream!Gone > 2 /\ Stream!Gone = MaxRotated + 2
        /\ 1 \in Stream!Files /\ Stream!Gone \in Stream!Files /\ Stream!Gone - 1 \in Stream!Files
        /\ MaxRotated + 1 = Stream!Gone - 1
        /\ \A f \in Stream!Files : f \notin {1, Stream!Gone} => f - 1 \in Stream!Files
        /\ \A f \in Stream!Files : f \notin {Stream!Gone, Stream!Gone - 1} =>
             f + 1 \in Stream!Files /\ f + 1 \notin {1, Stream!Gone} /\ f + 1 - 1 = f
        /\ \A f \in Stream!Files : f # Stream!Gone => f + 1 \in Stream!Files
    BY <1>0 DEF Stream!Gone, Stream!Files
  <2>1. /\ found.stream = [f \in Stream!Files |->
                             IF f \in {1, Stream!Gone} THEN <<>> ELSE stream[f - 1]]
        /\ found.outer = IF who = "outer" THEN [file |-> 1, pos |-> 0, append |-> TRUE]
                         ELSE [outer EXCEPT !.file =
                                 IF outer.file = Stream!Gone THEN Stream!Gone ELSE outer.file + 1]
        /\ found.inner = IF who = "inner" THEN 1
                         ELSE IF inner = Stream!Gone THEN Stream!Gone ELSE inner + 1
        /\ found.dropped = dropped \cup InOneFile(stream[MaxRotated + 1])
    BY <1>2 DEF Stream!Found, Stream!Rotated, Stream!OnFile, InOneFile
  <2> HIDE DEF found
  <2>2. /\ \A f \in Stream!Files : stream[f] \in Seq(Numbers)
        /\ outer = [file |-> outer.file, pos |-> outer.pos, append |-> outer.append]
        /\ outer.file \in Stream!Files /\ outer.pos \in Nat /\ outer.append \in BOOLEAN
        /\ inner \in Stream!Files
    BY <1>0 DEF StreamType
  <2>3. found.stream \in [Stream!Files -> Seq(Numbers)]
    <3>1. <<>> \in Seq(Numbers)
      OBVIOUS
    <3>2. QED
      BY <2>0, <2>1, <2>2, <3>1
  <2>4. /\ found.stream[1] = <<>> /\ found.stream[Stream!Gone] = <<>>
        /\ \A f \in Stream!Files : f \notin {1, Stream!Gone} => found.stream[f] = stream[f - 1]
        /\ \A f \in Stream!Files : f \notin {Stream!Gone, Stream!Gone - 1} =>
             found.stream[f + 1] = stream[f]
    <3>1. \A f \in Stream!Files :
            found.stream[f] = IF f \in {1, Stream!Gone} THEN <<>> ELSE stream[f - 1]
      BY <2>1
    <3>2. ASSUME NEW f \in Stream!Files, f \notin {Stream!Gone, Stream!Gone - 1}
          PROVE  found.stream[f + 1] = stream[f]
      <4>1. f + 1 \in Stream!Files /\ f + 1 \notin {1, Stream!Gone} /\ f + 1 - 1 = f
        BY <2>0, <3>2
      <4>2. PICK g \in Stream!Files : g = f + 1 /\ g \notin {1, Stream!Gone} /\ g - 1 = f
        BY <2>0, <3>2, <4>1 DEF Stream!Files
      <4>3. found.stream[g] = stream[g - 1]
        BY <3>1, <4>2
      <4>4. QED
        BY <4>2, <4>3
    <3>3. QED
      BY <2>0, <3>1, <3>2
  <2>5. found.outer \in [file : Stream!Files, pos : Nat, append : BOOLEAN]
    <3>1. [file |-> 1, pos |-> 0, append |-> TRUE]
            \in [file : Stream!Files, pos : Nat, append : BOOLEAN]
      BY <2>0
    <3>2. PICK g \in Stream!Files :
            g = IF outer.file = Stream!Gone THEN Stream!Gone ELSE outer.file + 1
      BY <2>0, <2>2
    <3>3. [outer EXCEPT !.file = g] = [file |-> g, pos |-> outer.pos, append |-> outer.append]
      BY <2>2
    <3>4. [outer EXCEPT !.file = g] \in [file : Stream!Files, pos : Nat, append : BOOLEAN]
      BY <2>2, <3>3
    <3>5. QED
      BY <2>1, <3>1, <3>2, <3>4
  <2>6. found.inner \in Stream!Files
    BY <2>0, <2>1, <2>2
  <2>7. InOneFile(stream[MaxRotated + 1]) \subseteq Numbers /\ InOneFile(<<>>) = {}
    <3>1. stream[MaxRotated + 1] \in Seq(Numbers)
      BY <2>0, <2>2
    <3>2. \A l \in Seq(Numbers) : InOneFile(l) \subseteq Numbers
      BY DEF InOneFile
    <3>3. QED
      BY <3>1, <3>2 DEF InOneFile
  <2>8. InFiles(stream) \subseteq InFiles(found.stream) \cup InOneFile(stream[MaxRotated + 1])
    <3>1. ASSUME NEW f \in Stream!Files, NEW x \in InOneFile(stream[f])
          PROVE  x \in InFiles(found.stream) \cup InOneFile(stream[MaxRotated + 1])
      <4>1. f # Stream!Gone
        BY <1>0, <2>7, <3>1
      <4>2. CASE f = MaxRotated + 1
        BY <3>1, <4>2
      <4>3. CASE f # MaxRotated + 1
        BY <2>0, <2>4, <3>1, <4>1, <4>3 DEF InFiles
      <4>4. QED
        BY <4>2, <4>3
    <3>2. QED
      BY <3>1 DEF InFiles
  <2>9. InFiles(found.stream) \subseteq InFiles(stream)
    <3>1. ASSUME NEW f \in Stream!Files, NEW x \in InOneFile(found.stream[f])
          PROVE  x \in InFiles(stream)
      <4>1. f \notin {1, Stream!Gone}
        BY <2>4, <2>7, <3>1
      <4>2. QED
        BY <2>0, <2>4, <3>1, <4>1 DEF InFiles
    <3>2. QED
      BY <3>1 DEF InFiles
  <2>10. InOneFile(stream[MaxRotated + 1]) \subseteq InFiles(stream)
    BY <2>0 DEF InFiles
  <2>11. torn = {} => \A f \in Stream!Files : InOrder(found.stream[f])
    <3>1. InOrder(<<>>)
      BY DEF InOrder
    <3>2. QED
      BY <2>0, <2>4, <3>1 DEF StreamInv
  <2>12. InFiles(stream) \cup dropped = InFiles(found.stream) \cup found.dropped
    BY <2>1, <2>8, <2>9, <2>10
  <2>13. found.dropped \subseteq Numbers
    BY <1>0, <2>1, <2>7 DEF StreamType
  <2>14. FoundOK(found)
    BY <2>3, <2>4, <2>5, <2>6, <2>11, <2>12, <2>13 DEF FoundOK
  <2>15. QED
    BY <2>14 DEF found
<1>3. QED
  BY <1>1, <1>2

(***************************************************************************)
(* The next event goes into its file, over the event that was there, or is *)
(* lost with the file a rotation removed (src/bg_observer.rs emit).        *)
(***************************************************************************)
LEMMA PutAccounts ==
  ASSUME Stream!StreamAssumption, StreamInv, NEW found, FoundOK(found), NEW f \in Stream!Files,
         NEW at \in Nat, NEW e \in Numbers, e = emitted + 1, Stream!Put(found, f, at, e),
         emitted' = e, NEW over, torn' = torn \cup over, over \subseteq Numbers,
         at < Len(found.stream[f]) => over = {found.stream[f][at + 1]},
         over \subseteq InOneFile(found.stream[f]),
         outer' \in [file : Stream!Files, pos : Nat, append : BOOLEAN],
         inner' \in Stream!Files
  PROVE  StreamInv'
<1> DEFINE l == found.stream[f]
<1>0. /\ StreamType /\ MaxStream \in Nat /\ emitted \in Nat /\ MaxRotated \in Nat
      /\ found.stream \in [Stream!Files -> Seq(Numbers)] /\ l \in Seq(Numbers)
      /\ found.stream[Stream!Gone] = <<>> /\ found.dropped \subseteq Numbers
      /\ 1 .. emitted = InFiles(found.stream) \cup found.dropped \cup torn
      /\ torn = {} => \A g \in Stream!Files : InOrder(found.stream[g])
  <2>1. /\ StreamType /\ MaxStream \in Nat /\ emitted \in Nat /\ MaxRotated \in Nat
        /\ found.stream \in [Stream!Files -> Seq(Numbers)]
        /\ found.stream[Stream!Gone] = <<>> /\ found.dropped \subseteq Numbers
    <3>1. StreamType /\ MaxStream \in Nat /\ MaxRotated \in Nat
      BY DEF StreamInv, Stream!StreamAssumption
    <3>2. emitted \in Nat
      BY <3>1 DEF StreamType
    <3>3. /\ found.stream \in [Stream!Files -> Seq(Numbers)]
          /\ found.stream[Stream!Gone] = <<>> /\ found.dropped \subseteq Numbers
      BY DEF FoundOK
    <3>4. QED
      BY <3>1, <3>2, <3>3
  <2>2. /\ 1 .. emitted = InFiles(found.stream) \cup found.dropped \cup torn
        /\ torn = {} => \A g \in Stream!Files : InOrder(found.stream[g])
    BY DEF StreamInv, FoundOK
  <2>3. QED
    BY <2>1, <2>2
<1>1. \A x \in InFiles(found.stream) : x \in 1 .. emitted
  BY <1>0
<1>2. 1 .. e = 1 .. emitted \cup {e}
  BY <1>0
<1>3. emitted' \in 0 .. MaxStream /\ torn' \subseteq Numbers
  <2>1. e \in 1 .. MaxStream
    BY DEF Numbers
  <2>2. emitted' \in 0 .. MaxStream
    BY <1>0, <2>1
  <2>3. torn \subseteq Numbers
    BY <1>0 DEF StreamType
  <2>4. torn' \subseteq Numbers
    BY <2>3
  <2>5. QED
    BY <2>2, <2>4
<1>4. CASE f = Stream!Gone
  <2>1. stream' = found.stream /\ dropped' = found.dropped \cup {e}
    BY <1>4 DEF Stream!Put
  <2>2. over = {}
    BY <1>0, <1>4 DEF InOneFile
  <2>3. StreamType'
    BY <1>0, <1>3, <2>1 DEF StreamType
  <2>4. 1 .. emitted' = InFiles(stream') \cup dropped' \cup torn'
    BY <1>0, <1>2, <2>1, <2>2
  <2>5. torn' = {} => \A g \in Stream!Files : InOrder(stream'[g])
    BY <1>0, <2>1
  <2>6. QED
    BY <1>0, <2>1, <2>3, <2>4, <2>5 DEF StreamInv, Stream!Files, Stream!Gone
<1>5. CASE f # Stream!Gone
  <2>0. dropped' = found.dropped
    BY <1>5 DEF Stream!Put
  <2>1. PICK k \in Seq(Numbers) :
          /\ stream' = [found.stream EXCEPT ![f] = k]
          /\ InOneFile(k) \subseteq InOneFile(l) \cup {e}
          /\ InOneFile(l) \cup {e} \subseteq InOneFile(k) \cup over
          /\ over = {} /\ InOrder(l) => InOrder(k)
    <3>1. CASE at < Len(l)
      <4>1. stream' = [found.stream EXCEPT ![f] = [l EXCEPT ![at + 1] = e]]
        BY <1>0, <1>5, <3>1 DEF Stream!Put
      <4>2. /\ [l EXCEPT ![at + 1] = e] \in Seq(Numbers) /\ over = {l[at + 1]}
            /\ InOneFile([l EXCEPT ![at + 1] = e]) \subseteq InOneFile(l) \cup {e}
            /\ InOneFile(l) \cup {e} \subseteq InOneFile([l EXCEPT ![at + 1] = e]) \cup over
        BY <1>0, <3>1, FileWritten
      <4>3. QED
        BY <4>1, <4>2
    <3>2. CASE ~(at < Len(l))
      <4>1. stream' = [found.stream EXCEPT ![f] = Append(l, e)]
        BY <1>0, <1>5, <3>2 DEF Stream!Put
      <4>2. \A x \in InOneFile(l) : x < e
        <5>1. InOneFile(l) \subseteq InFiles(found.stream)
          BY DEF InFiles
        <5>2. \A x \in 1 .. emitted : x < emitted + 1
          BY <1>0
        <5>3. QED
          BY <1>1, <5>1, <5>2
      <4>3. /\ Append(l, e) \in Seq(Numbers) /\ InOneFile(Append(l, e)) = InOneFile(l) \cup {e}
            /\ InOrder(l) => InOrder(Append(l, e))
        BY <1>0, <4>2, FileWritten
      <4>4. QED
        BY <4>1, <4>3
    <3>3. QED
      BY <3>1, <3>2
  <2>2. /\ stream' \in [Stream!Files -> Seq(Numbers)] /\ stream'[f] = k
        /\ \A g \in Stream!Files : g # f => stream'[g] = found.stream[g]
    BY <1>0, <2>1
  <2>3. StreamType'
    BY <1>0, <1>3, <2>0, <2>2 DEF StreamType
  <2>4. InFiles(stream') \subseteq InFiles(found.stream) \cup {e}
    BY <2>1, <2>2 DEF InFiles
  <2>5. InFiles(found.stream) \cup {e} \subseteq InFiles(stream') \cup over
    BY <2>1, <2>2 DEF InFiles
  <2>6. over \subseteq InFiles(found.stream)
    BY DEF InFiles
  <2>7. 1 .. emitted' = InFiles(stream') \cup dropped' \cup torn'
    BY <1>0, <1>2, <2>0, <2>4, <2>5, <2>6
  <2>8. torn' = {} => \A g \in Stream!Files : InOrder(stream'[g])
    BY <1>0, <2>1, <2>2
  <2>9. stream'[Stream!Gone] = <<>>
    <3>1. Stream!Gone \in Stream!Files
      BY <1>0 DEF Stream!Gone, Stream!Files
    <3>2. QED
      BY <1>0, <1>5, <2>2, <3>1
  <2>10. QED
    BY <2>3, <2>7, <2>8, <2>9 DEF StreamInv, Stream!Files, Stream!Gone
<1>6. QED
  BY <1>4, <1>5

(***************************************************************************)
(* Over every interleaving of the run's observer with those of its turns:  *)
(* EventsAccounted (src/bg_observer.rs).                                   *)
(***************************************************************************)
THEOREM EventsAccountedHolds ==
  ASSUME Stream!StreamAssumption
  PROVE  Stream!Spec => [](Stream!TypeOK /\ Stream!EventsAccounted)
<1>0. /\ MaxStream \in Nat /\ MaxRotated \in Nat \ {0}
      /\ 1 \in Stream!Files /\ Stream!Gone \in Stream!Files
  BY DEF Stream!StreamAssumption, Stream!Files, Stream!Gone
<1>1. Stream!Init => StreamInv
  <2> SUFFICES ASSUME Stream!Init PROVE StreamInv
    OBVIOUS
  <2>1. <<>> \in Seq(Numbers) /\ InOneFile(<<>>) = {} /\ InOrder(<<>>)
    BY DEF InOneFile, InOrder
  <2>2. stream = [f \in Stream!Files |-> <<>>]
    BY DEF Stream!Init
  <2>3. \A f \in Stream!Files : stream[f] = <<>>
    BY <2>2
  <2>4. StreamType
    BY <1>0, <2>1, <2>2 DEF Stream!Init, StreamType
  <2>5. InFiles(stream) = {}
    BY <2>1, <2>3 DEF InFiles
  <2>6. emitted = 0 /\ dropped = {} /\ torn = {} /\ 1 .. 0 = {}
    BY DEF Stream!Init
  <2>7. QED
    BY <1>0, <2>1, <2>3, <2>4, <2>5, <2>6 DEF StreamInv
<1>2. StreamInv /\ [Stream!Next]_(Stream!streamVars) => StreamInv'
  <2>1. ASSUME StreamInv, UNCHANGED Stream!streamVars PROVE StreamInv'
    BY <2>1 DEF Stream!streamVars, StreamInv, StreamType
  <2>2. ASSUME StreamInv, Stream!NewObserver PROVE StreamInv'
    BY <1>0, <2>2 DEF Stream!NewObserver, StreamInv, StreamType
  <2>3. ASSUME StreamInv, Stream!EmitInner PROVE StreamInv'
    <3>1. PICK found : found = Stream!Found("inner")
      OBVIOUS
    <3>2. FoundOK(found)
      BY <2>3, <3>1, FoundAccounts
    <3>3. /\ emitted < MaxStream /\ emitted' = emitted + 1 /\ torn' = torn
          /\ Stream!Put(found, found.inner, Len(found.stream[found.inner]), emitted')
          /\ outer' = found.outer /\ inner' = found.inner
      BY <2>3, <3>1 DEF Stream!EmitInner
    <3>4. /\ emitted \in Nat /\ emitted + 1 \in Numbers
          /\ found.inner \in Stream!Files
          /\ found.outer \in [file : Stream!Files, pos : Nat, append : BOOLEAN]
          /\ found.stream[found.inner] \in Seq(Numbers)
      BY <1>0, <2>3, <3>2, <3>3 DEF StreamInv, StreamType, FoundOK, Numbers
    <3>5. /\ Len(found.stream[found.inner]) \in Nat
          /\ ~(Len(found.stream[found.inner]) < Len(found.stream[found.inner]))
      BY <3>4
    <3>6. torn' = torn \cup {} /\ {} \subseteq Numbers
      BY <3>3
    <3>7. PICK f \in Stream!Files, at \in Nat, e \in Numbers :
            /\ e = emitted + 1 /\ at = Len(found.stream[f]) /\ emitted' = e
            /\ Stream!Put(found, f, at, e) /\ ~(at < Len(found.stream[f]))
      BY <3>3, <3>4, <3>5
    <3>8. outer' \in [file : Stream!Files, pos : Nat, append : BOOLEAN] /\ inner' \in Stream!Files
      BY <3>3, <3>4
    <3>9. PICK over \in SUBSET Numbers : over = {}
      OBVIOUS
    <3>10. torn' = torn \cup over /\ over \subseteq InOneFile(found.stream[f])
      BY <3>6, <3>9
    <3>11. QED
      BY <2>3, <3>2, <3>7, <3>8, <3>10, PutAccounts
  <2>4. ASSUME StreamInv, Stream!EmitOuter PROVE StreamInv'
    <3>1. PICK found : found = Stream!Found("outer")
      OBVIOUS
    <3>2. FoundOK(found)
      BY <2>4, <3>1, FoundAccounts
    <3>3. PICK f : f = found.outer.file
      OBVIOUS
    <3>4. PICK at : at = IF found.outer.append THEN Len(found.stream[f]) ELSE found.outer.pos
      OBVIOUS
    <3> DEFINE over == {found.stream[f][i] : i \in {at + 1} \cap DOMAIN found.stream[f]}
    <3>5. /\ emitted < MaxStream /\ emitted' = emitted + 1
          /\ Stream!Put(found, f, at, emitted')
          /\ outer' = [found.outer EXCEPT !.pos = at + 1] /\ inner' = found.inner
          /\ torn' = torn \cup over
      BY <2>4, <3>1, <3>3, <3>4 DEF Stream!EmitOuter
    <3>13. emitted \in Nat /\ emitted + 1 \in Numbers
      BY <1>0, <2>4, <3>5 DEF StreamInv, StreamType, Numbers
    <3>6. /\ f \in Stream!Files
          /\ found.inner \in Stream!Files
          /\ found.outer = [file |-> found.outer.file, pos |-> found.outer.pos,
                            append |-> found.outer.append]
          /\ found.outer.pos \in Nat /\ found.outer.append \in BOOLEAN
      BY <3>2, <3>3 DEF FoundOK
    <3>7. found.stream[f] \in Seq(Numbers)
      BY <3>2, <3>6 DEF FoundOK
    <3>8. at \in Nat
      BY <3>4, <3>6, <3>7
    <3>9. outer' \in [file : Stream!Files, pos : Nat, append : BOOLEAN]
      <4>1. outer' = [file |-> f, pos |-> at + 1, append |-> found.outer.append]
        BY <3>3, <3>5, <3>6
      <4>2. QED
        BY <3>6, <3>8, <4>1
    <3>10. /\ over \subseteq InOneFile(found.stream[f])
           /\ InOneFile(found.stream[f]) \subseteq Numbers
      BY <3>7 DEF InOneFile
    <3>11. at < Len(found.stream[f]) => over = {found.stream[f][at + 1]}
      <4>1. at < Len(found.stream[f]) => at + 1 \in DOMAIN found.stream[f]
        BY <3>7, <3>8
      <4>2. QED
        BY <4>1
    <3> HIDE DEF over
    <3>12. QED
      BY <2>4, <3>2, <3>5, <3>6, <3>8, <3>9, <3>10, <3>11, <3>13, PutAccounts
  <2>5. QED
    BY <2>1, <2>2, <2>3, <2>4 DEF Stream!Next
<1>3. StreamInv => Stream!TypeOK /\ Stream!EventsAccounted
  <2> SUFFICES ASSUME StreamInv PROVE Stream!TypeOK /\ Stream!EventsAccounted
    OBVIOUS
  <2>1. Stream!TypeOK
    BY DEF StreamInv, StreamType, Stream!TypeOK, Numbers
  <2>2. Stream!Kept = InFiles(stream)
    BY DEF Stream!Kept, InFiles, Stream!OnFile, InOneFile
  <2>3. QED
    BY <2>1, <2>2 DEF StreamInv, Stream!EventsAccounted, InOrder
<1>4. QED
  BY <1>1, <1>2, <1>3, PTL DEF Stream!Spec

-----------------------------------------------------------------------------
\* The trace (Traces): for any agents, any size and number of files.

TurnIds == {<<"turn", n>> : n \in Nat}
CallIds == {<<"llm", n>> : n \in Nat}
SpanIds == TurnIds \cup CallIds
TraceLine == [type : {"s", "e", "meta"}, id : SpanIds \cup {Tracing!None}]
EndOf(id) == Tracing!Line("e", id)

LinesOf(s) == {s[i] : i \in DOMAIN s}
Known(x, u) == x \in TraceLine /\ (x.type # "meta" => x.id \in u)

\* Every span that starts in s is one of I or ends later in s.
Settled(s, I) ==
  \A i \in DOMAIN s : s[i].type = "s" =>
    s[i].id \in I \/ \E j \in DOMAIN s : i < j /\ s[j] = EndOf(s[i].id)

Excused(L) == {id \in SpanIds : EndOf(id) \in L}
InFeeds == UNION {LinesOf(feed[a]) : a \in Traced}
Away(tr, lo) == lo \cup UNION {LinesOf(tr[f]) : f \in Tracing!TraceFiles \ {1}}

TraceType ==
  /\ second \in Nat /\ spans \in Nat /\ writers \in Nat \ {0}
  /\ turn \in [Traced -> TurnIds \cup {Tracing!None}]
  /\ call \in [Traced -> CallIds \cup {Tracing!None}]
  /\ feed \in [Traced -> Seq(TraceLine)]
  /\ header \in [Traced -> BOOLEAN]
  /\ used \subseteq SpanIds /\ collided \in BOOLEAN

\* Ids are handed out once, but for turns of the same second.
SpansKnown ==
  /\ \A n \in Nat : <<"llm", n>> \in used => n <= spans
  /\ \A a \in Traced : {turn[a], call[a]} \subseteq used \cup {Tracing!None}
  /\ \A x \in InFeeds : Known(x, used)

SpansApart ==
  /\ ~collided => \A a, b \in Traced : a # b /\ turn[a] = turn[b] => turn[a] = Tracing!None
  /\ \A a, b \in Traced : a # b /\ call[a] = call[b] => call[a] = Tracing!None

OpenSpans == IF collided THEN {} ELSE Tracing!Open
EndsAreOver == \A x \in InFeeds : x.type = "e" => x.id \notin OpenSpans
FeedsSettled == \A a \in Traced : Settled(feed[a], {turn[a], call[a]} \cup crashed)

\* The files: I holds the spans that need no end in the live one, u the ids
\* handed out, o the ids that cannot have ended.
FilesOK(tr, lo, I, u, o) ==
  /\ tr \in [Tracing!TraceFiles -> Seq(TraceLine)] /\ tr[Tracing!Removed] = <<>>
  /\ lo \subseteq TraceLine
  /\ \A x \in LinesOf(tr[1]) : Known(x, u) /\ (x.type = "e" => x.id \notin o)
  /\ Settled(tr[1], I \cup Excused(Away(tr, lo)))

HandlesOK(ha, by) ==
  /\ ha \in [Traced -> 0 .. Tracing!Removed] /\ by \in [Traced -> 0 .. TraceSize]
  /\ \A a \in Traced : ha[a] = 0 => by[a] = 0

\* What a writer with handle h and b lines since its rotation has put into f,
\* at most.
Allowed(h, b, f) == IF h = 0 \/ f < h THEN 0 ELSE IF f = h THEN b ELSE TraceSize
Room(ha, by, f) ==
  {p \in Traced \X (1 .. TraceSize) : p[2] <= Allowed(ha[p[1]], by[p[1]], f)}
SizeOK(tr, ha, by, w) ==
  \A f \in Tracing!TraceFiles :
    Len(tr[f]) <= TraceSize * (Cardinality(Traced) * (w - 1)) + Cardinality(Room(ha, by, f))

Unended == Tracing!Open \cup crashed \cup Excused(InFeeds)

TraceInv ==
  /\ TraceType /\ SpansKnown /\ SpansApart /\ EndsAreOver /\ FeedsSettled
  /\ FilesOK(trace, lost, Unended, used, OpenSpans)
  /\ HandlesOK(handle, bytes) /\ SizeOK(trace, handle, bytes, writers)
  /\ \A a \in Traced : header[a] <=> handle[a] # 0

(***************************************************************************)
(* The ids of turns, of other spans and "none" are different.              *)
(***************************************************************************)
LEMMA IdsApart ==
  /\ TurnIds \cap CallIds = {} /\ Tracing!None \notin SpanIds
  /\ \A n \in Nat : <<"turn", n>> \in TurnIds /\ <<"llm", n>> \in CallIds
  /\ \A m, n \in Nat : <<"llm", m>> = <<"llm", n>> => m = n
  /\ \A m, n \in Nat : <<"turn", m>> = <<"turn", n>> => m = n
BY DEF TurnIds, CallIds, SpanIds, Tracing!None

(***************************************************************************)
(* Lines at the end of a file and at the head of a feed.                   *)
(***************************************************************************)
LEMMA LinesAppended ==
  ASSUME NEW s \in Seq(TraceLine), NEW x \in TraceLine
  PROVE  /\ Append(s, x) \in Seq(TraceLine) /\ Len(Append(s, x)) = Len(s) + 1
         /\ LinesOf(Append(s, x)) = LinesOf(s) \cup {x}
<1> DEFINE t == Append(s, x)
<1>1. /\ t \in Seq(TraceLine) /\ Len(s) \in Nat /\ Len(t) = Len(s) + 1
      /\ DOMAIN s = 1 .. Len(s) /\ DOMAIN t = 1 .. Len(s) + 1 /\ t[Len(s) + 1] = x
      /\ \A i \in 1 .. Len(s) : t[i] = s[i]
  OBVIOUS
<1> HIDE DEF t
<1>2. \A i \in DOMAIN t : t[i] \in LinesOf(s) \cup {x}
  BY <1>1 DEF LinesOf
<1>3. \A i \in DOMAIN s : i \in DOMAIN t /\ t[i] = s[i]
  BY <1>1
<1>4. Len(s) + 1 \in DOMAIN t
  BY <1>1
<1>5. LinesOf(t) = LinesOf(s) \cup {x}
  BY <1>1, <1>2, <1>3, <1>4 DEF LinesOf
<1>6. QED
  BY <1>1, <1>5 DEF t

(***************************************************************************)
(* A queue of lines is its head and what is left.                          *)
(***************************************************************************)
LEMMA LinesTaken ==
  ASSUME NEW s \in Seq(TraceLine), s # <<>>
  PROVE  /\ Tail(s) \in Seq(TraceLine) /\ Head(s) \in TraceLine
         /\ LinesOf(s) = {Head(s)} \cup LinesOf(Tail(s))
<1> DEFINE t == Tail(s)
<1>1. /\ t \in Seq(TraceLine) /\ Len(s) \in Nat /\ Len(s) >= 1 /\ Len(t) = Len(s) - 1
      /\ DOMAIN s = 1 .. Len(s) /\ DOMAIN t = 1 .. Len(s) - 1 /\ Head(s) = s[1]
      /\ \A i \in 1 .. Len(s) - 1 : t[i] = s[i + 1]
  OBVIOUS
<1> HIDE DEF t
<1>2. Head(s) \in TraceLine
  BY <1>1
<1>3. \A i \in DOMAIN t : t[i] \in LinesOf(s)
  BY <1>1 DEF LinesOf
<1>4. \A i \in DOMAIN s : i # 1 => i - 1 \in DOMAIN t /\ t[i - 1] = s[i]
  BY <1>1
<1>5. 1 \in DOMAIN s
  BY <1>1
<1>6. LinesOf(s) = {Head(s)} \cup LinesOf(t)
  BY <1>1, <1>3, <1>4, <1>5 DEF LinesOf
<1>7. QED
  BY <1>1, <1>2, <1>6 DEF t

(***************************************************************************)
(* What stays settled when the spans that need no end change, when a line  *)
(* is added and when the first one is taken.                               *)
(***************************************************************************)
LEMMA SettledStays ==
  ASSUME NEW s, NEW I, NEW J, Settled(s, I),
         \A x \in LinesOf(s) : x.type = "s" /\ x.id \in I => x.id \in J
  PROVE  Settled(s, J)
<1>1. \A i \in DOMAIN s : s[i] \in LinesOf(s)
  BY DEF LinesOf
<1>2. QED
  BY <1>1 DEF Settled

(***************************************************************************)
(* A start may be queued when its span is open, and a span may be closed   *)
(* when its end is queued.                                                 *)
(***************************************************************************)
LEMMA SettledAppend ==
  ASSUME NEW s \in Seq(TraceLine), NEW x \in TraceLine, NEW I, NEW J, Settled(s, I),
         \A y \in LinesOf(s) : y.type = "s" /\ y.id \in I => y.id \in J \/ x = EndOf(y.id),
         x.type = "s" => x.id \in J
  PROVE  Settled(Append(s, x), J)
<1> DEFINE t == Append(s, x)
<1>1. /\ Len(s) \in Nat /\ DOMAIN s = 1 .. Len(s) /\ DOMAIN t = 1 .. Len(s) + 1
      /\ t[Len(s) + 1] = x /\ \A i \in 1 .. Len(s) : t[i] = s[i]
  OBVIOUS
<1> HIDE DEF t
<1>2. ASSUME NEW i \in DOMAIN t, t[i].type = "s"
      PROVE  t[i].id \in J \/ \E j \in DOMAIN t : i < j /\ t[j] = EndOf(t[i].id)
  <2>1. CASE i = Len(s) + 1
    BY <1>1, <1>2, <2>1
  <2>2. CASE i # Len(s) + 1
    <3>1. i \in DOMAIN s /\ t[i] = s[i] /\ i < Len(s) + 1 /\ Len(s) + 1 \in DOMAIN t
      BY <1>1, <2>2
    <3>2. CASE s[i].id \in I
      <4>1. s[i] \in LinesOf(s)
        BY <3>1 DEF LinesOf
      <4>2. s[i].id \in J \/ x = EndOf(s[i].id)
        BY <1>2, <3>1, <3>2, <4>1
      <4>3. QED
        BY <1>1, <3>1, <4>2
    <3>3. CASE \E j \in DOMAIN s : i < j /\ s[j] = EndOf(s[i].id)
      <4>1. PICK j \in DOMAIN s : i < j /\ s[j] = EndOf(s[i].id)
        BY <3>3
      <4>2. j \in DOMAIN t /\ t[j] = s[j]
        BY <1>1, <4>1
      <4>3. QED
        BY <3>1, <4>1, <4>2
    <3>4. QED
      BY <1>2, <3>1, <3>2, <3>3 DEF Settled
  <2>3. QED
    BY <2>1, <2>2
<1>3. Settled(t, J)
  BY <1>2 DEF Settled
<1>4. QED
  BY <1>3 DEF t

(***************************************************************************)
(* A start that is taken has its end in the queue, or its span is still    *)
(* open.                                                                   *)
(***************************************************************************)
LEMMA SettledTail ==
  ASSUME NEW s \in Seq(TraceLine), s # <<>>, NEW I, Settled(s, I)
  PROVE  /\ Settled(Tail(s), I)
         /\ Head(s).type = "s" => Head(s).id \in I \/ EndOf(Head(s).id) \in LinesOf(Tail(s))
<1> DEFINE t == Tail(s)
<1>1. /\ Len(s) \in Nat /\ Len(s) >= 1 /\ DOMAIN s = 1 .. Len(s) /\ DOMAIN t = 1 .. Len(s) - 1
      /\ Head(s) = s[1] /\ \A i \in 1 .. Len(s) - 1 : t[i] = s[i + 1]
  OBVIOUS
<1> HIDE DEF t
<1>2. ASSUME NEW i \in DOMAIN t, t[i].type = "s"
      PROVE  t[i].id \in I \/ \E j \in DOMAIN t : i < j /\ t[j] = EndOf(t[i].id)
  <2>1. i + 1 \in DOMAIN s /\ t[i] = s[i + 1]
    BY <1>1
  <2>2. CASE s[i + 1].id \in I
    BY <2>1, <2>2
  <2>3. CASE \E j \in DOMAIN s : i + 1 < j /\ s[j] = EndOf(s[i + 1].id)
    <3>1. PICK j \in DOMAIN s : i + 1 < j /\ s[j] = EndOf(s[i + 1].id)
      BY <2>3
    <3>2. j - 1 \in DOMAIN t /\ i < j - 1 /\ t[j - 1] = s[j]
      BY <1>1, <3>1
    <3>3. QED
      BY <2>1, <3>1, <3>2
  <2>4. QED
    BY <1>2, <2>1, <2>2, <2>3 DEF Settled
<1>3. ASSUME Head(s).type = "s", Head(s).id \notin I
      PROVE  EndOf(Head(s).id) \in LinesOf(t)
  <2>1. PICK j \in DOMAIN s : 1 < j /\ s[j] = EndOf(s[1].id)
    BY <1>1, <1>3 DEF Settled
  <2>2. j - 1 \in DOMAIN t /\ t[j - 1] = s[j]
    BY <1>1, <2>1
  <2>3. QED
    BY <1>1, <2>1, <2>2 DEF LinesOf
<1>4. Settled(t, I)
  BY <1>2 DEF Settled
<1>5. QED
  BY <1>3, <1>4 DEF t


(***************************************************************************)
(* What the writers may have put into a file is finite, grows with what    *)
(* one of them writes and is bounded by their number.                      *)
(***************************************************************************)
LEMMA RoomFacts ==
  ASSUME Tracing!TracesAssumption, NEW ha, NEW by, NEW f
  PROVE  /\ IsFiniteSet(Room(ha, by, f)) /\ Cardinality(Room(ha, by, f)) \in Nat
         /\ Cardinality(Traced) \in Nat
         /\ Cardinality(Room(ha, by, f)) <= Cardinality(Traced) * TraceSize
<1>1. IsFiniteSet(Traced) /\ TraceSize \in Nat
  BY DEF Tracing!TracesAssumption, Tracing!IsFiniteSet, IsFiniteSet
<1>2. IsFiniteSet(1 .. TraceSize) /\ Cardinality(1 .. TraceSize) = TraceSize
  <2>1. 1 \in Int /\ TraceSize \in Int
    BY <1>1
  <2>2. /\ IsFiniteSet(1 .. TraceSize)
        /\ Cardinality(1 .. TraceSize) = IF 1 > TraceSize THEN 0 ELSE TraceSize - 1 + 1
    BY <2>1, FS_Interval
  <2>3. QED
    BY <1>1, <2>2
<1>3. /\ IsFiniteSet(Traced \X (1 .. TraceSize))
      /\ Cardinality(Traced \X (1 .. TraceSize)) = Cardinality(Traced) * TraceSize
  BY <1>1, <1>2, FS_Product
<1>4. Room(ha, by, f) \in SUBSET (Traced \X (1 .. TraceSize))
  BY DEF Room
<1>5. /\ IsFiniteSet(Room(ha, by, f))
      /\ Cardinality(Room(ha, by, f)) <= Cardinality(Traced \X (1 .. TraceSize))
  BY <1>3, <1>4, FS_Subset
<1>6. Cardinality(Room(ha, by, f)) \in Nat /\ Cardinality(Traced) \in Nat
  BY <1>1, <1>5, FS_CardinalityType
<1>7. QED
  BY <1>3, <1>5, <1>6

(***************************************************************************)
(* The more a writer may write, the more room a file has.                  *)
(***************************************************************************)
LEMMA RoomGrows ==
  ASSUME Tracing!TracesAssumption, NEW ha, NEW by, NEW f, NEW hb, NEW bz, NEW g,
         \A a \in Traced : \A n \in 1 .. TraceSize :
           n <= Allowed(ha[a], by[a], f) => n <= Allowed(hb[a], bz[a], g)
  PROVE  /\ Room(ha, by, f) \subseteq Room(hb, bz, g)
         /\ Cardinality(Room(ha, by, f)) <= Cardinality(Room(hb, bz, g))
<1>1. Room(ha, by, f) \in SUBSET Room(hb, bz, g)
  <2>1. ASSUME NEW p \in Room(ha, by, f) PROVE p \in Room(hb, bz, g)
    <3>1. p \in Traced \X (1 .. TraceSize) /\ p[2] <= Allowed(ha[p[1]], by[p[1]], f)
      BY <2>1 DEF Room
    <3>2. p[1] \in Traced /\ p[2] \in 1 .. TraceSize
      BY <3>1
    <3>3. p[2] <= Allowed(hb[p[1]], bz[p[1]], g)
      BY <3>1, <3>2
    <3>4. QED
      BY <3>1, <3>3 DEF Room
  <2>2. QED
    BY <2>1
<1>2. IsFiniteSet(Room(hb, bz, g))
  BY RoomFacts
<1>3. QED
  BY <1>1, <1>2, FS_Subset

(***************************************************************************)
(* One line more is one place more.                                        *)
(***************************************************************************)
LEMMA RoomForLine ==
  ASSUME Tracing!TracesAssumption, NEW ha, NEW by, NEW f, NEW hb, NEW bz,
         \A a \in Traced : \A n \in 1 .. TraceSize :
           n <= Allowed(ha[a], by[a], f) => n <= Allowed(hb[a], bz[a], f),
         NEW c \in Traced, NEW m \in 1 .. TraceSize,
         ~(m <= Allowed(ha[c], by[c], f)), m <= Allowed(hb[c], bz[c], f)
  PROVE  Cardinality(Room(ha, by, f)) + 1 <= Cardinality(Room(hb, bz, f))
<1> DEFINE R == Room(ha, by, f)
           S == Room(hb, bz, f)
           p == <<c, m>>
<1>1. R \subseteq S /\ IsFiniteSet(R) /\ IsFiniteSet(S)
  BY RoomGrows, RoomFacts
<1>2. p \in S /\ p \notin R
  BY DEF Room
<1> HIDE DEF R, S, p
<1>3. Cardinality(R \cup {p}) = Cardinality(R) + 1
  BY <1>1, <1>2, FS_AddElement
<1>4. R \cup {p} \in SUBSET S
  BY <1>1, <1>2
<1>5. Cardinality(R \cup {p}) <= Cardinality(S)
  BY <1>1, <1>4, FS_Subset
<1>6. QED
  BY <1>3, <1>5 DEF R, S

(***************************************************************************)
(* The files, their names and what Put and Rotate make of them             *)
(* (src/trace/writer.rs).                                                  *)
(***************************************************************************)
LEMMA FileNames ==
  ASSUME Tracing!TracesAssumption
  PROVE  /\ TraceSize \in Nat \ {0} /\ Tracing!Removed \in Nat /\ Tracing!Removed > 2
         /\ Tracing!TraceFiles = 1 .. Tracing!Removed
         /\ 1 \in Tracing!TraceFiles /\ Tracing!Removed \in Tracing!TraceFiles
         /\ TraceRotated + 1 = Tracing!Removed - 1
BY DEF Tracing!TracesAssumption, Tracing!Removed, Tracing!TraceFiles

WrittenTo(ha, a) == IF ha[a] = 0 THEN 1 ELSE ha[a]

IsPut(s, f, tr, ha, lo, a, x) ==
  /\ s = [trace |-> s.trace, handle |-> s.handle, lost |-> s.lost]
  /\ f = Tracing!Removed =>
       s.trace = tr /\ s.handle = ha /\ s.lost = lo \cup {x} /\ ha[a] = f
  /\ f # Tracing!Removed =>
       /\ s.trace = [tr EXCEPT ![f] = Append(tr[f], x)]
       /\ s.handle = [ha EXCEPT ![a] = f] /\ s.lost = lo

(***************************************************************************)
(* What one line put to a log does: it is appended, or lost with a removed *)
(* file.                                                                   *)
(***************************************************************************)
LEMMA PutPutsLine ==
  ASSUME Tracing!TracesAssumption, NEW tr, NEW ha, NEW lo, NEW a \in Traced,
         NEW x \in TraceLine, tr \in [Tracing!TraceFiles -> Seq(TraceLine)],
         ha \in [Traced -> 0 .. Tracing!Removed]
  PROVE  IsPut(Tracing!Put([trace |-> tr, handle |-> ha, lost |-> lo], a, <<x>>),
               WrittenTo(ha, a), tr, ha, lo, a, x)
<1>0. PICK f, s : /\ f = WrittenTo(ha, a)
                  /\ s = Tracing!Put([trace |-> tr, handle |-> ha, lost |-> lo], a, <<x>>)
  OBVIOUS
<1>1. Tracing!Removed > 2 /\ Tracing!Removed \in Nat
      /\ Tracing!TraceFiles = 1 .. Tracing!Removed
  BY FileNames
<1>2. f \in Tracing!TraceFiles /\ tr[f] \in Seq(TraceLine)
  BY <1>0, <1>1 DEF WrittenTo
<1>3. tr[f] \o <<x>> = Append(tr[f], x)
  BY <1>2
<1>4. Tracing!ToSet(<<x>>) = {x}
  BY DEF Tracing!ToSet
<1>5. ASSUME f = Tracing!Removed PROVE IsPut(s, f, tr, ha, lo, a, x)
  <2>1. s = [trace |-> tr, handle |-> ha, lost |-> lo \cup {x}]
    BY <1>0, <1>4, <1>5 DEF Tracing!Put, WrittenTo
  <2>2. ha[a] = f
    BY <1>0, <1>1, <1>5 DEF WrittenTo
  <2>3. s.trace = tr /\ s.handle = ha /\ s.lost = lo \cup {x}
    BY <2>1
  <2>4. QED
    BY <1>5, <2>1, <2>2, <2>3 DEF IsPut
<1>6. ASSUME f # Tracing!Removed PROVE IsPut(s, f, tr, ha, lo, a, x)
  <2>1. s = [trace |-> [tr EXCEPT ![f] = tr[f] \o <<x>>],
             handle |-> [ha EXCEPT ![a] = f], lost |-> lo]
    BY <1>0, <1>6 DEF Tracing!Put, WrittenTo
  <2> DEFINE T == [tr EXCEPT ![f] = tr[f] \o <<x>>]
             H == [ha EXCEPT ![a] = f]
  <2>2. T = [tr EXCEPT ![f] = Append(tr[f], x)]
    BY <1>3
  <2>3. s = [trace |-> T, handle |-> H, lost |-> lo]
    BY <2>1
  <2> HIDE DEF T, H
  <2>4. s.trace = T /\ s.handle = H /\ s.lost = lo
    BY <2>3
  <2>5. s = [trace |-> s.trace, handle |-> s.handle, lost |-> s.lost]
    BY <2>3, <2>4
  <2>6. QED
    BY <1>6, <2>2, <2>4, <2>5 DEF H, IsPut
<1>7. QED
  BY <1>0, <1>5, <1>6

Good(tr, ha, lo, by, w, I, u, o) ==
  /\ FilesOK(tr, lo, I, u, o) /\ HandlesOK(ha, by) /\ SizeOK(tr, ha, by, w)
  /\ w \in Nat \ {0} /\ u \subseteq SpanIds

\* The writer of a put something, the others have opened the same files.
GoodAfter(s, ha, by, w, I, u, o, a) ==
  /\ s = [trace |-> s.trace, handle |-> s.handle, lost |-> s.lost]
  /\ Good(s.trace, s.handle, s.lost, by, w, I, u, o)
  /\ s.handle[a] # 0 /\ \A b \in Traced \ {a} : s.handle[b] = 0 <=> ha[b] = 0

Counted(by, a, n) == [by EXCEPT ![a] = n]

CanPut(tr, ha, lo, by, w, I, J, u, o, a, x) ==
  /\ Good(tr, ha, lo, by, w, I, u, o) /\ a \in Traced /\ by[a] < TraceSize /\ Known(x, u)
  /\ x.type = "e" => x.id \notin o
  /\ x.type = "s" => x.id \in J
  /\ \A id \in SpanIds : id \in I => id \in J \/ x = EndOf(id)

(***************************************************************************)
(* A line put to a log leaves the spans paired and the sizes in bound.     *)
(***************************************************************************)
LEMMA PutKeeps ==
  ASSUME Tracing!TracesAssumption, NEW tr, NEW ha, NEW lo, NEW by, NEW w,
         NEW I, NEW J, NEW u, NEW o, NEW a, NEW x,
         CanPut(tr, ha, lo, by, w, I, J, u, o, a, x)
  PROVE  GoodAfter(Tracing!Put([trace |-> tr, handle |-> ha, lost |-> lo], a, <<x>>), ha,
                   Counted(by, a, by[a] + 1), w, J, u, o, a)
<1>00. PICK bz, s : /\ bz = [by EXCEPT ![a] = by[a] + 1]
                    /\ s = Tracing!Put([trace |-> tr, handle |-> ha, lost |-> lo], a, <<x>>)
  OBVIOUS
<1>01. /\ FilesOK(tr, lo, I, u, o) /\ HandlesOK(ha, by) /\ SizeOK(tr, ha, by, w)
       /\ w \in Nat \ {0} /\ u \subseteq SpanIds
       /\ a \in Traced /\ by[a] < TraceSize /\ Known(x, u)
       /\ (x.type = "e" => x.id \notin o) /\ (x.type = "s" => x.id \in J)
       /\ \A id \in SpanIds : id \in I => id \in J \/ x = EndOf(id)
  BY DEF CanPut, Good
<1> USE <1>00, <1>01
<1>0. PICK f : f = WrittenTo(ha, a)
  OBVIOUS
<1>1. /\ TraceSize \in Nat \ {0} /\ Tracing!Removed \in Nat /\ Tracing!Removed > 2
      /\ Tracing!TraceFiles = 1 .. Tracing!Removed /\ 1 \in Tracing!TraceFiles
      /\ Tracing!Removed \in Tracing!TraceFiles
  BY FileNames
<1>2. /\ tr \in [Tracing!TraceFiles -> Seq(TraceLine)] /\ tr[Tracing!Removed] = <<>>
      /\ lo \subseteq TraceLine /\ Settled(tr[1], I \cup Excused(Away(tr, lo)))
      /\ \A y \in LinesOf(tr[1]) : Known(y, u) /\ (y.type = "e" => y.id \notin o)
  BY DEF FilesOK
<1>3. /\ ha \in [Traced -> 0 .. Tracing!Removed] /\ by \in [Traced -> 0 .. TraceSize]
      /\ \A b \in Traced : ha[b] = 0 => by[b] = 0
  BY DEF HandlesOK
<1>4. x \in TraceLine
  BY DEF Known
<1>5. /\ s = [trace |-> s.trace, handle |-> s.handle, lost |-> s.lost]
      /\ f = Tracing!Removed =>
           s.trace = tr /\ s.handle = ha /\ s.lost = lo \cup {x} /\ ha[a] = f
      /\ f # Tracing!Removed =>
           /\ s.trace = [tr EXCEPT ![f] = Append(tr[f], x)]
           /\ s.handle = [ha EXCEPT ![a] = f] /\ s.lost = lo
  <2>1. /\ tr \in [Tracing!TraceFiles -> Seq(TraceLine)]
        /\ ha \in [Traced -> 0 .. Tracing!Removed]
    BY <1>2, <1>3
  <2>2. IsPut(s, f, tr, ha, lo, a, x)
    BY <1>0, <1>4, <2>1, PutPutsLine
  <2>3. QED
    BY <2>2 DEF IsPut
<1>6. f \in 1 .. Tracing!Removed /\ tr[f] \in Seq(TraceLine) /\ tr[1] \in Seq(TraceLine)
  <2>1. ha[a] \in 0 .. Tracing!Removed
    BY <1>3
  <2>2. f \in 1 .. Tracing!Removed
    BY <1>0, <1>1, <2>1 DEF WrittenTo
  <2>3. QED
    BY <1>1, <1>2, <2>2
<1>7. /\ Append(tr[f], x) \in Seq(TraceLine) /\ Len(Append(tr[f], x)) = Len(tr[f]) + 1
      /\ LinesOf(Append(tr[f], x)) = LinesOf(tr[f]) \cup {x}
  BY <1>4, <1>6, LinesAppended
<1> DEFINE t == s.trace
           h == s.handle
           l == s.lost
<1>8. /\ DOMAIN t = Tracing!TraceFiles /\ t \in [Tracing!TraceFiles -> Seq(TraceLine)]
      /\ t[Tracing!Removed] = <<>> /\ l \subseteq TraceLine
      /\ \A g \in Tracing!TraceFiles : g # f => t[g] = tr[g]
  BY <1>1, <1>2, <1>4, <1>5, <1>6, <1>7
<1>9. f # Tracing!Removed => t[f] = Append(tr[f], x) /\ l = lo
  BY <1>1, <1>2, <1>5, <1>6
<1>10. f = Tracing!Removed => t = tr /\ h = ha /\ l = lo \cup {x}
  BY <1>5
<1>11. /\ h \in [Traced -> 0 .. Tracing!Removed] /\ h[a] = f
       /\ \A b \in Traced \ {a} : h[b] = ha[b]
  <2>1. CASE f = Tracing!Removed
    BY <1>3, <1>5, <1>6, <2>1
  <2>2. CASE f # Tracing!Removed
    <3>1. h = [ha EXCEPT ![a] = f] /\ f \in 0 .. Tracing!Removed
      BY <1>1, <1>5, <1>6, <2>2
    <3>2. QED
      BY <1>3, <3>1
  <2>3. QED
    BY <2>1, <2>2
<1>12. /\ bz \in [Traced -> 0 .. TraceSize] /\ bz[a] = by[a] + 1 /\ by[a] \in Nat
       /\ \A b \in Traced \ {a} : bz[b] = by[b]
  BY <1>1, <1>3
<1> HIDE DEF t, h, l
<1> DEFINE I1 == I \cup Excused(Away(tr, lo))
           J1 == J \cup Excused(Away(t, l))
<1>13. Away(tr, lo) \subseteq Away(t, l)
  <2>1. lo \subseteq l
    BY <1>9, <1>10
  <2>2. \A g \in Tracing!TraceFiles \ {1} : LinesOf(tr[g]) \subseteq LinesOf(t[g])
    BY <1>1, <1>7, <1>8, <1>9, <1>10
  <2>3. QED
    BY <2>1, <2>2 DEF Away
<1>14. f # 1 => x \in Away(t, l)
  <2>1. CASE f = Tracing!Removed
    BY <1>10, <2>1 DEF Away
  <2>2. CASE f # Tracing!Removed /\ f # 1
    <3>1. x \in LinesOf(t[f]) /\ f \in Tracing!TraceFiles \ {1}
      BY <1>1, <1>6, <1>7, <1>9, <2>2
    <3>2. QED
      BY <3>1 DEF Away
  <2>3. QED
    BY <2>1, <2>2
<1>15. \A id \in SpanIds : id \in I1 =>
         id \in J1 \/ (f = 1 /\ x = EndOf(id))
  BY <1>13, <1>14 DEF Excused
<1> HIDE DEF I1, J1
<1>16. \A y \in LinesOf(tr[1]) : y.type = "s" => y.id \in SpanIds
  BY <1>2 DEF Known
<1>17. /\ Settled(t[1], J1)
       /\ \A y \in LinesOf(t[1]) : Known(y, u) /\ (y.type = "e" => y.id \notin o)
  <2>1. CASE f = 1
    <3>1. t[1] = Append(tr[1], x)
      BY <1>1, <1>9, <2>1
    <3>2. \A y \in LinesOf(tr[1]) : y.type = "s" /\ y.id \in I1 =>
            y.id \in J1 \/ x = EndOf(y.id)
      BY <1>15, <1>16
    <3>3. Settled(t[1], J1)
      <4>1. Settled(tr[1], I1) /\ (x.type = "s" => x.id \in J1)
        BY <1>2 DEF I1, J1
      <4>2. Settled(Append(tr[1], x), J1)
        BY <1>4, <1>6, <3>2, <4>1, SettledAppend
      <4>3. QED
        BY <3>1, <4>2
    <3>4. LinesOf(t[1]) = LinesOf(tr[1]) \cup {x}
      BY <1>7, <2>1, <3>1
    <3>5. QED
      BY <1>2, <3>3, <3>4
  <2>2. CASE f # 1
    <3>1. t[1] = tr[1]
      BY <1>1, <1>8, <2>2
    <3>2. \A y \in LinesOf(tr[1]) : y.type = "s" /\ y.id \in I1 =>
            y.id \in J1
      BY <1>15, <1>16, <2>2
    <3>3. Settled(t[1], J1)
      <4>1. Settled(tr[1], I1)
        BY <1>2 DEF I1
      <4>2. Settled(tr[1], J1)
        BY <3>2, <4>1, SettledStays
      <4>3. QED
        BY <3>1, <4>2
    <3>4. QED
      BY <1>2, <3>1, <3>3
  <2>3. QED
    BY <2>1, <2>2
<1>18. FilesOK(t, l, J, u, o)
  BY <1>8, <1>17 DEF FilesOK, J1
<1>19. h[a] # 0
  BY <1>6, <1>11
<1>20. HandlesOK(h, bz)
  BY <1>3, <1>11, <1>12, <1>19 DEF HandlesOK
<1>21. \A b \in Traced : \A g \in Tracing!TraceFiles : \A n \in 1 .. TraceSize :
         n <= Allowed(ha[b], by[b], g) => n <= Allowed(h[b], bz[b], g)
  <2> SUFFICES ASSUME NEW b \in Traced, NEW g \in Tracing!TraceFiles, NEW n \in 1 .. TraceSize
               PROVE  n <= Allowed(ha[b], by[b], g) => n <= Allowed(h[b], bz[b], g)
    OBVIOUS
  <2>1. CASE b # a
    BY <1>11, <1>12, <2>1
  <2>2. CASE b = a /\ ha[a] = 0
    BY <1>1, <2>2 DEF Allowed
  <2>3. CASE b = a /\ ha[a] # 0
    <3>1. h[a] = ha[a] /\ ha[a] \in Nat /\ g \in Nat
      BY <1>0, <1>1, <1>3, <1>11, <2>3 DEF WrittenTo
    <3>2. QED
      BY <1>1, <1>12, <2>3, <3>1 DEF Allowed
  <2>4. QED
    BY <2>1, <2>2, <2>3
<1>22. SizeOK(t, h, bz, w)
  <2> DEFINE base == TraceSize * (Cardinality(Traced) * (w - 1))
  <2>1. ASSUME NEW g \in Tracing!TraceFiles
        PROVE  Len(t[g]) <= base + Cardinality(Room(h, bz, g))
    <3>1. /\ Len(tr[g]) <= base + Cardinality(Room(ha, by, g))
          /\ Len(tr[g]) \in Nat /\ tr[g] \in Seq(TraceLine)
      BY <1>2 DEF SizeOK
    <3>2. /\ Cardinality(Room(h, bz, g)) \in Nat /\ Cardinality(Room(ha, by, g)) \in Nat
          /\ base \in Int
      <4>1. /\ Cardinality(Room(h, bz, g)) \in Nat /\ Cardinality(Room(ha, by, g)) \in Nat
            /\ Cardinality(Traced) \in Nat
        BY RoomFacts
      <4>2. QED
        BY <1>1, <4>1
    <3> HIDE DEF base
    <3>3. CASE t[g] = tr[g]
      <4>1. Cardinality(Room(ha, by, g)) <= Cardinality(Room(h, bz, g))
        BY <1>21, RoomGrows
      <4>2. QED
        BY <3>1, <3>2, <3>3, <4>1
    <3>4. CASE t[g] # tr[g]
      <4>1. g = f /\ f # Tracing!Removed /\ Len(t[g]) = Len(tr[g]) + 1
        BY <1>7, <1>8, <1>9, <1>10, <3>4
      <4>2. ~(by[a] + 1 <= Allowed(ha[a], by[a], g))
        BY <1>0, <1>1, <1>3, <1>6, <1>12, <4>1 DEF Allowed, WrittenTo
      <4>3. by[a] + 1 <= Allowed(h[a], bz[a], g)
        BY <1>1, <1>6, <1>11, <1>12, <4>1 DEF Allowed
      <4>4. by[a] + 1 \in 1 .. TraceSize
        BY <1>1, <1>12
      <4>5. Cardinality(Room(ha, by, g)) + 1 <= Cardinality(Room(h, bz, g))
        BY <1>21, <4>2, <4>3, <4>4, RoomForLine
      <4>6. QED
        BY <3>1, <3>2, <4>1, <4>5
    <3>5. QED
      BY <3>3, <3>4
  <2>2. QED
    BY <2>1 DEF SizeOK
<1>23. Good(t, h, l, bz, w, J, u, o)
  BY <1>18, <1>20, <1>22 DEF Good
<1>24. \A b \in Traced \ {a} : h[b] = 0 <=> ha[b] = 0
  BY <1>11
<1>25. GoodAfter(s, ha, bz, w, J, u, o, a)
  BY <1>5, <1>19, <1>23, <1>24 DEF GoodAfter, t, h, l
<1>26. QED
  BY <1>25 DEF Counted

IsRotated(s, tr, ha, lo, a) ==
  /\ s = [trace |-> s.trace, handle |-> s.handle, lost |-> s.lost]
  /\ s.trace = [f \in Tracing!TraceFiles |-> IF f \in {1, Tracing!Removed} THEN <<>>
                                             ELSE tr[f - 1]]
  /\ s.lost = lo \cup LinesOf(tr[TraceRotated + 1])
  /\ s.handle \in [Traced -> 0 .. Tracing!Removed] /\ s.handle[a] = 1
  /\ \A b \in Traced \ {a} :
       s.handle[b] = IF ha[b] \in {0, Tracing!Removed} THEN ha[b] ELSE ha[b] + 1

(***************************************************************************)
(* What a rotation does to the files: each becomes the next older one, the *)
(* oldest is removed.                                                      *)
(***************************************************************************)
LEMMA RotateRotates ==
  ASSUME Tracing!TracesAssumption, NEW tr, NEW ha, NEW lo, NEW a \in Traced,
         ha \in [Traced -> 0 .. Tracing!Removed]
  PROVE  IsRotated(Tracing!Rotate([trace |-> tr, handle |-> ha, lost |-> lo], a),
                   tr, ha, lo, a)
<1>1. PICK T, H, L, s :
        /\ T = [f \in Tracing!TraceFiles |-> IF f \in {1, Tracing!Removed} THEN <<>>
                                             ELSE tr[f - 1]]
        /\ H = [b \in Traced |-> IF b = a THEN 1
                                 ELSE IF ha[b] \in {0, Tracing!Removed} THEN ha[b]
                                 ELSE ha[b] + 1]
        /\ L = lo \cup LinesOf(tr[TraceRotated + 1])
        /\ s = Tracing!Rotate([trace |-> tr, handle |-> ha, lost |-> lo], a)
  OBVIOUS
<1>2. Tracing!ToSet(tr[TraceRotated + 1]) = LinesOf(tr[TraceRotated + 1])
  BY DEF Tracing!ToSet, LinesOf
<1>3. s = [trace |-> T, handle |-> H, lost |-> L]
  BY <1>1, <1>2 DEF Tracing!Rotate
<1>4. s.trace = T /\ s.handle = H /\ s.lost = L
  BY <1>3
<1>5. s = [trace |-> s.trace, handle |-> s.handle, lost |-> s.lost]
  BY <1>3, <1>4
<1>6. Tracing!Removed \in Nat /\ Tracing!Removed > 2
  BY FileNames
<1>7. H \in [Traced -> 0 .. Tracing!Removed]
  <2>1. ASSUME NEW b \in Traced
        PROVE  (IF b = a THEN 1 ELSE IF ha[b] \in {0, Tracing!Removed} THEN ha[b]
                ELSE ha[b] + 1) \in 0 .. Tracing!Removed
    <3>1. ha[b] \in 0 .. Tracing!Removed
      OBVIOUS
    <3>2. QED
      BY <1>6, <3>1
  <2>2. QED
    BY <1>1, <2>1
<1>8. H[a] = 1
  BY <1>1
<1>9. \A b \in Traced \ {a} :
        H[b] = IF ha[b] \in {0, Tracing!Removed} THEN ha[b] ELSE ha[b] + 1
  BY <1>1
<1>10. IsRotated(s, tr, ha, lo, a)
  BY <1>1, <1>4, <1>5, <1>7, <1>8, <1>9 DEF IsRotated
<1>11. QED
  BY <1>1, <1>10

(***************************************************************************)
(* A rotation leaves the spans paired and the sizes in bound.              *)
(***************************************************************************)
LEMMA RotateKeeps ==
  ASSUME Tracing!TracesAssumption, NEW tr, NEW ha, NEW lo, NEW by, NEW w,
         NEW I, NEW u, NEW o, NEW a \in Traced, Good(tr, ha, lo, by, w, I, u, o)
  PROVE  GoodAfter(Tracing!Rotate([trace |-> tr, handle |-> ha, lost |-> lo], a), ha,
                   Counted(by, a, 0), w, I, u, o, a)
<1>00. PICK bz, s : /\ bz = [by EXCEPT ![a] = 0]
                    /\ s = Tracing!Rotate([trace |-> tr, handle |-> ha, lost |-> lo], a)
  OBVIOUS
<1>01. /\ FilesOK(tr, lo, I, u, o) /\ HandlesOK(ha, by) /\ SizeOK(tr, ha, by, w)
       /\ w \in Nat \ {0} /\ u \subseteq SpanIds
  BY DEF Good
<1> USE <1>00, <1>01
<1>1. /\ TraceSize \in Nat \ {0} /\ Tracing!Removed \in Nat /\ Tracing!Removed > 2
      /\ Tracing!TraceFiles = 1 .. Tracing!Removed /\ 1 \in Tracing!TraceFiles
      /\ Tracing!Removed \in Tracing!TraceFiles /\ TraceRotated + 1 = Tracing!Removed - 1
  BY FileNames
<1>2. /\ tr \in [Tracing!TraceFiles -> Seq(TraceLine)] /\ lo \subseteq TraceLine
  BY DEF FilesOK
<1>3. /\ ha \in [Traced -> 0 .. Tracing!Removed] /\ by \in [Traced -> 0 .. TraceSize]
      /\ \A b \in Traced : ha[b] = 0 => by[b] = 0
  BY DEF HandlesOK
<1>4. PICK t, h, l : t = s.trace /\ h = s.handle /\ l = s.lost
  OBVIOUS
<1>5. /\ s = [trace |-> s.trace, handle |-> s.handle, lost |-> s.lost]
      /\ t = [f \in Tracing!TraceFiles |-> IF f \in {1, Tracing!Removed} THEN <<>>
                                           ELSE tr[f - 1]]
      /\ l = lo \cup LinesOf(tr[TraceRotated + 1])
      /\ h \in [Traced -> 0 .. Tracing!Removed] /\ h[a] = 1
      /\ \A b \in Traced \ {a} :
           h[b] = IF ha[b] \in {0, Tracing!Removed} THEN ha[b] ELSE ha[b] + 1
  <2>1. IsRotated(s, tr, ha, lo, a)
    BY <1>3, RotateRotates
  <2>2. QED
    BY <1>4, <2>1 DEF IsRotated
<1>6. /\ bz \in [Traced -> 0 .. TraceSize] /\ bz[a] = 0
      /\ \A b \in Traced \ {a} : bz[b] = by[b]
  BY <1>1, <1>3
<1>7. \A f \in Tracing!TraceFiles : f \notin {1, Tracing!Removed} =>
        /\ f - 1 \in Tracing!TraceFiles /\ f - 1 # Tracing!Removed /\ f - 1 + 1 = f
        /\ t[f] = tr[f - 1] /\ tr[f - 1] \in Seq(TraceLine)
  <2>1. ASSUME NEW f \in Tracing!TraceFiles, f \notin {1, Tracing!Removed}
        PROVE  f - 1 \in Tracing!TraceFiles /\ f - 1 # Tracing!Removed /\ f - 1 + 1 = f
    BY <1>1, <2>1
  <2>2. \A f \in Tracing!TraceFiles : f \notin {1, Tracing!Removed} => t[f] = tr[f - 1]
    BY <1>5
  <2>3. QED
    BY <1>2, <2>1, <2>2
<1>8. t[1] = <<>> /\ t[Tracing!Removed] = <<>>
  BY <1>1, <1>5
<1>9. FilesOK(t, l, I, u, o)
  <2>1. <<>> \in Seq(TraceLine)
    OBVIOUS
  <2>2. t \in [Tracing!TraceFiles -> Seq(TraceLine)]
    <3>1. ASSUME NEW f \in Tracing!TraceFiles
          PROVE  (IF f \in {1, Tracing!Removed} THEN <<>> ELSE tr[f - 1]) \in Seq(TraceLine)
      BY <1>7, <2>1
    <3>2. QED
      BY <1>5, <3>1
  <2>3. l \subseteq TraceLine
    <3>1. TraceRotated + 1 \in Tracing!TraceFiles
      BY <1>1
    <3>2. tr[TraceRotated + 1] \in Seq(TraceLine)
      BY <1>2, <3>1
    <3>3. LinesOf(tr[TraceRotated + 1]) \subseteq TraceLine
      BY <3>2 DEF LinesOf
    <3>4. QED
      BY <1>2, <1>5, <3>3
  <2>4. LinesOf(t[1]) = {} /\ \A J : Settled(t[1], J)
    BY <1>8 DEF LinesOf, Settled
  <2>5. QED
    BY <1>8, <2>2, <2>3, <2>4 DEF FilesOK
<1>10. HandlesOK(h, bz)
  <2>1. \A b \in Traced : h[b] = 0 => bz[b] = 0
    BY <1>1, <1>3, <1>5, <1>6
  <2>2. QED
    BY <1>5, <1>6, <2>1 DEF HandlesOK
<1>11. ASSUME NEW f \in Tracing!TraceFiles, f \notin {1, Tracing!Removed}
       PROVE  Cardinality(Room(ha, by, f - 1)) <= Cardinality(Room(h, bz, f))
  <2>1. f \in Nat /\ f > 1 /\ f < Tracing!Removed
    BY <1>1, <1>11
  <2>2. ASSUME NEW b \in Traced, NEW n \in 1 .. TraceSize
        PROVE  n <= Allowed(ha[b], by[b], f - 1) => n <= Allowed(h[b], bz[b], f)
    <3>1. CASE b = a
      BY <1>1, <1>5, <2>1, <3>1 DEF Allowed
    <3>2. CASE b # a
      <4>1. /\ h[b] = IF ha[b] \in {0, Tracing!Removed} THEN ha[b] ELSE ha[b] + 1
            /\ bz[b] = by[b] /\ by[b] \in Nat /\ ha[b] \in 0 .. Tracing!Removed
        BY <1>1, <1>3, <1>5, <1>6, <3>2
      <4>2. QED
        BY <1>1, <2>1, <4>1 DEF Allowed
    <3>3. QED
      BY <3>1, <3>2
  <2>3. QED
    BY <2>2, RoomGrows
<1>12. SizeOK(t, h, bz, w)
  <2> DEFINE base == TraceSize * (Cardinality(Traced) * (w - 1))
  <2>1. base \in Nat /\ \A f : Cardinality(Room(h, bz, f)) \in Nat
    <3>1. \A f : Cardinality(Room(h, bz, f)) \in Nat /\ Cardinality(Traced) \in Nat
      BY RoomFacts
    <3>2. \A m, n, k \in Nat : m * (n * k) \in Nat
      OBVIOUS
    <3>3. w - 1 \in Nat
      OBVIOUS
    <3>4. QED
      BY <1>1, <3>1, <3>2, <3>3
  <2>2. \A f \in Tracing!TraceFiles : Len(tr[f]) <= base + Cardinality(Room(ha, by, f))
    BY DEF SizeOK
  <2>3. \A f : Cardinality(Room(ha, by, f)) \in Nat
    BY RoomFacts
  <2> HIDE DEF base
  <2>4. ASSUME NEW f \in Tracing!TraceFiles
        PROVE  Len(t[f]) <= base + Cardinality(Room(h, bz, f))
    <3>1. CASE f \in {1, Tracing!Removed}
      <4>1. Len(t[f]) = 0
        BY <1>8, <3>1
      <4>2. base \in Nat /\ Cardinality(Room(h, bz, f)) \in Nat
        BY <2>1
      <4>3. QED
        BY <4>1, <4>2
    <3>2. CASE f \notin {1, Tracing!Removed}
      <4>1. /\ Len(t[f]) = Len(tr[f - 1]) /\ Len(tr[f - 1]) \in Nat
            /\ f - 1 \in Tracing!TraceFiles
        BY <1>7, <3>2
      <4>2. Len(tr[f - 1]) <= base + Cardinality(Room(ha, by, f - 1))
        BY <2>2, <4>1
      <4>3. Cardinality(Room(ha, by, f - 1)) <= Cardinality(Room(h, bz, f))
        BY <1>11, <3>2
      <4>4. /\ base \in Nat /\ Cardinality(Room(h, bz, f)) \in Nat
            /\ Cardinality(Room(ha, by, f - 1)) \in Nat
        BY <2>1, <2>3
      <4>5. QED
        BY <4>1, <4>2, <4>3, <4>4
    <3>3. QED
      BY <3>1, <3>2
  <2>5. QED
    BY <2>4 DEF SizeOK, base
<1>13. \A b \in Traced \ {a} : h[b] = 0 <=> ha[b] = 0
  BY <1>1, <1>3, <1>5
<1>14. Good(t, h, l, bz, w, I, u, o)
  BY <1>9, <1>10, <1>12 DEF Good
<1>15. h[a] # 0
  BY <1>5
<1>16. GoodAfter(s, ha, bz, w, I, u, o, a)
  BY <1>4, <1>5, <1>13, <1>14, <1>15 DEF GoodAfter
<1>17. QED
  BY <1>16 DEF Counted

(***************************************************************************)
(* Files that nobody writes stay good when the spans that need no end      *)
(* change, and room for every writer there was is left to the new ones.    *)
(***************************************************************************)
LEMMA FilesStay ==
  ASSUME NEW tr, NEW lo, NEW I, NEW J, NEW u, NEW v, NEW o, NEW p,
         FilesOK(tr, lo, I, u, o), u \subseteq v,
         \A id \in u : (id \in p => id \in o) /\ (id \in I => id \in J)
  PROVE  FilesOK(tr, lo, J, v, p)
<1>1. /\ tr \in [Tracing!TraceFiles -> Seq(TraceLine)] /\ tr[Tracing!Removed] = <<>>
      /\ lo \subseteq TraceLine
      /\ \A x \in LinesOf(tr[1]) : Known(x, u) /\ (x.type = "e" => x.id \notin o)
      /\ Settled(tr[1], I \cup Excused(Away(tr, lo)))
  BY DEF FilesOK
<1>2. PICK I1, J1 : I1 = I \cup Excused(Away(tr, lo)) /\ J1 = J \cup Excused(Away(tr, lo))
  OBVIOUS
<1>3. \A x \in LinesOf(tr[1]) : x.type = "e" => x.id \in u
  BY <1>1 DEF Known
<1>4. \A x \in LinesOf(tr[1]) : x.type = "s" => x.id \in u
  BY <1>1 DEF Known
<1>5. \A x \in LinesOf(tr[1]) : Known(x, v) /\ (x.type = "e" => x.id \notin p)
  BY <1>1, <1>3 DEF Known
<1>6. \A x \in LinesOf(tr[1]) : x.type = "s" /\ x.id \in I1 => x.id \in J1
  BY <1>2, <1>4
<1>7. Settled(tr[1], I1)
  BY <1>1, <1>2
<1>8. Settled(tr[1], J1)
  BY <1>6, <1>7, SettledStays
<1>9. QED
  BY <1>1, <1>2, <1>5, <1>8 DEF FilesOK

(***************************************************************************)
(* No file is larger than all its writers could have made it.              *)
(***************************************************************************)
LEMMA SizeInAll ==
  ASSUME Tracing!TracesAssumption, NEW tr, NEW ha, NEW by, NEW w \in Nat \ {0},
         tr \in [Tracing!TraceFiles -> Seq(TraceLine)], SizeOK(tr, ha, by, w)
  PROVE  \A f \in Tracing!TraceFiles : Len(tr[f]) <= TraceSize * (Cardinality(Traced) * w)
<1>1. TraceSize \in Nat
  BY FileNames
<1>2. PICK n : n = Cardinality(Traced)
  OBVIOUS
<1>3. \A r, m, k \in Int : r * (m * (k - 1)) + m * r = r * (m * k)
  <2> SUFFICES ASSUME NEW r \in Int, NEW m \in Int, NEW k \in Int
               PROVE  r * (m * (k - 1)) + m * r = r * (m * k)
    OBVIOUS
  <2>1. m * (k - 1) = m * k - m
    OBVIOUS
  <2>2. \A q \in Int : r * (q - m) = r * q - r * m
    OBVIOUS
  <2>3. m * k \in Int /\ r * m = m * r
    OBVIOUS
  <2>4. r * (m * k - m) = r * (m * k) - r * m
    BY <2>2, <2>3
  <2>5. r * (m * k) \in Int /\ r * m \in Int
    BY <2>3
  <2>6. QED
    BY <2>1, <2>3, <2>4, <2>5
<1>4. ASSUME NEW f \in Tracing!TraceFiles PROVE Len(tr[f]) <= TraceSize * (n * w)
  <2>1. PICK c : c = Cardinality(Room(ha, by, f))
    OBVIOUS
  <2>2. c \in Nat /\ n \in Nat /\ c <= n * TraceSize
    BY <1>2, <2>1, RoomFacts
  <2>3. Len(tr[f]) <= TraceSize * (n * (w - 1)) + c
    BY <1>2, <2>1 DEF SizeOK
  <2>4. TraceSize * (n * (w - 1)) + n * TraceSize = TraceSize * (n * w)
    BY <1>1, <1>3, <2>2
  <2>5. Len(tr[f]) \in Nat
    OBVIOUS
  <2>6. /\ TraceSize * (n * (w - 1)) \in Int /\ n * TraceSize \in Int
        /\ TraceSize * (n * w) \in Int
    <3>1. \A r, m, k \in Int : r * (m * (k - 1)) \in Int /\ m * r \in Int /\ r * (m * k) \in Int
      OBVIOUS
    <3>2. QED
      BY <1>1, <2>2, <3>1
  <2>7. \A p, q, r, t \in Int : p <= q + r /\ r <= t => p <= q + t
    OBVIOUS
  <2>8. Len(tr[f]) <= TraceSize * (n * (w - 1)) + n * TraceSize
    BY <2>2, <2>3, <2>5, <2>6, <2>7
  <2>9. QED
    BY <2>4, <2>8
<1>5. QED
  BY <1>2, <1>4

(***************************************************************************)
(* A new set of writers has its own share of the bound.                    *)
(***************************************************************************)
LEMMA SizeAnew ==
  ASSUME Tracing!TracesAssumption, NEW tr, NEW ha, NEW by, NEW w \in Nat \ {0},
         tr \in [Tracing!TraceFiles -> Seq(TraceLine)], SizeOK(tr, ha, by, w),
         NEW hb, NEW bz
  PROVE  SizeOK(tr, hb, bz, w + 1)
<1>1. w + 1 - 1 = w
  OBVIOUS
<1>2. PICK top : top = TraceSize * (Cardinality(Traced) * w)
  OBVIOUS
<1>3. \A f \in Tracing!TraceFiles : Len(tr[f]) <= top
  BY <1>2, SizeInAll
<1>4. top \in Int
  <2>1. TraceSize \in Int
    BY FileNames
  <2>2. Cardinality(Traced) \in Int
    BY RoomFacts
  <2>3. \A r, m, k \in Int : r * (m * k) \in Int
    OBVIOUS
  <2>4. QED
    BY <1>2, <2>1, <2>2, <2>3
<1>5. ASSUME NEW f \in Tracing!TraceFiles
      PROVE  Len(tr[f]) <= top + Cardinality(Room(hb, bz, f))
  <2>1. Cardinality(Room(hb, bz, f)) \in Nat
    BY RoomFacts
  <2>2. Len(tr[f]) \in Nat
    OBVIOUS
  <2>3. QED
    BY <1>3, <1>4, <2>1, <2>2
<1>6. QED
  BY <1>1, <1>2, <1>5 DEF SizeOK

(***************************************************************************)
(* An agent's observer sends a line: what the writers have written is as   *)
(* good as before.                                                         *)
(***************************************************************************)
LEMMA InFeedsAre ==
  /\ \A x : x \in InFeeds <=> \E a \in Traced : x \in LinesOf(feed[a])
  /\ (\A x : x \in InFeeds <=> \E a \in Traced : x \in LinesOf(feed[a]))'
BY DEF InFeeds

(***************************************************************************)
(* An event that is queued leaves the spans paired.                        *)
(***************************************************************************)
LEMMA ObserveKeeps ==
  ASSUME TraceInv, NEW a \in Traced, NEW x, Tracing!Observe(a, x),
         UNCHANGED <<handle, bytes, header, trace, lost, writers, crashed>>,
         used \subseteq used', used' \subseteq SpanIds, Known(x, used'),
         \A id \in used : id \in OpenSpans' => id \in OpenSpans,
         x.type = "e" => x.id \notin OpenSpans',
         x.type = "s" => x.id \in {turn'[a], call'[a]},
         \A id \in used : id \in {turn[a], call[a]} =>
           id \in {turn'[a], call'[a]} \/ x = EndOf(id),
         \A b \in Traced \ {a} : turn'[b] = turn[b] /\ call'[b] = call[b]
  PROVE  /\ feed' \in [Traced -> Seq(TraceLine)] /\ \A y \in InFeeds' : Known(y, used')
         /\ EndsAreOver' /\ FeedsSettled'
         /\ FilesOK(trace, lost, Unended, used, OpenSpans)'
         /\ HandlesOK(handle, bytes)' /\ SizeOK(trace, handle, bytes, writers)'
         /\ (\A b \in Traced : header[b] <=> handle[b] # 0)'
<1>1. feed \in [Traced -> Seq(TraceLine)] /\ used \subseteq SpanIds /\ x \in TraceLine
  BY DEF TraceInv, TraceType, Known
<1>2. feed' = [feed EXCEPT ![a] = Append(feed[a], x)]
  BY DEF Tracing!Observe
<1>3. /\ Append(feed[a], x) \in Seq(TraceLine)
      /\ LinesOf(Append(feed[a], x)) = LinesOf(feed[a]) \cup {x}
  BY <1>1, LinesAppended
<1>4. /\ feed' \in [Traced -> Seq(TraceLine)] /\ feed'[a] = Append(feed[a], x)
      /\ \A b \in Traced \ {a} : feed'[b] = feed[b]
  BY <1>1, <1>2, <1>3
<1>5. \A y : y \in InFeeds' <=> y \in InFeeds \/ y = x
  BY <1>3, <1>4, InFeedsAre
<1>6. \A y \in InFeeds : Known(y, used) /\ (y.type = "e" => y.id \notin OpenSpans)
  BY DEF TraceInv, SpansKnown, EndsAreOver
<1>7. \A y \in InFeeds' : Known(y, used')
  BY <1>5, <1>6 DEF Known
<1>8. EndsAreOver'
  <2>1. ASSUME NEW y \in InFeeds', y.type = "e" PROVE y.id \notin OpenSpans'
    <3>1. CASE y = x
      BY <2>1, <3>1
    <3>2. CASE y # x
      BY <1>5, <1>6, <2>1, <3>2 DEF Known
    <3>3. QED
      BY <3>1, <3>2
  <2>2. QED
    BY <2>1 DEF EndsAreOver
<1>9. FeedsSettled'
  <2>1. ASSUME NEW b \in Traced PROVE Settled(feed'[b], {turn'[b], call'[b]} \cup crashed')
    <3>1. Settled(feed[b], {turn[b], call[b]} \cup crashed)
      BY DEF TraceInv, FeedsSettled
    <3>2. CASE b = a
      <4>1. PICK I, J : I = {turn[a], call[a]} \cup crashed /\ J = {turn'[a], call'[a]} \cup crashed
        OBVIOUS
      <4>2. \A y \in LinesOf(feed[a]) : Known(y, used)
        BY <1>6, InFeedsAre
      <4>3. \A y \in LinesOf(feed[a]) : y.type = "s" /\ y.id \in I =>
              y.id \in J \/ x = EndOf(y.id)
        BY <4>1, <4>2 DEF Known
      <4>4. x.type = "s" => x.id \in J
        BY <4>1
      <4>5. Settled(feed[a], I)
        BY <3>1, <3>2, <4>1
      <4>6. Settled(Append(feed[a], x), J)
        BY <1>1, <4>3, <4>4, <4>5, SettledAppend
      <4>7. QED
        BY <1>4, <3>2, <4>1, <4>6
    <3>3. CASE b # a
      BY <1>4, <3>1, <3>3
    <3>4. QED
      BY <3>2, <3>3
  <2>2. QED
    BY <2>1 DEF FeedsSettled
<1>10. FilesOK(trace, lost, Unended', used', OpenSpans')
  <2>1. PICK I, J, o, p : I = Unended /\ J = Unended' /\ o = OpenSpans /\ p = OpenSpans'
    OBVIOUS
  <2>2. ASSUME NEW id \in used, id \in I PROVE id \in J
    <3>1. CASE id \in Tracing!Open
      <4>1. PICK b \in Traced : id \in {turn[b], call[b]}
        BY <3>1 DEF Tracing!Open
      <4>2. CASE id \in {turn'[b], call'[b]}
        BY <2>1, <4>2 DEF Unended, Tracing!Open
      <4>3. CASE id \notin {turn'[b], call'[b]}
        <5>1. x = EndOf(id)
          BY <4>1, <4>3
        <5>2. EndOf(id) \in InFeeds' /\ id \in SpanIds
          BY <1>1, <1>5, <5>1
        <5>3. id \in Excused(InFeeds)'
          BY <5>2 DEF Excused, EndOf
        <5>4. QED
          BY <2>1, <5>3 DEF Unended
      <4>4. QED
        BY <4>2, <4>3
    <3>2. CASE id \in crashed
      BY <2>1, <3>2 DEF Unended
    <3>3. CASE id \in Excused(InFeeds)
      <4>1. EndOf(id) \in InFeeds /\ id \in SpanIds
        BY <3>3 DEF Excused
      <4>2. EndOf(id) \in InFeeds'
        BY <1>5, <4>1
      <4>3. id \in Excused(InFeeds)'
        BY <4>1, <4>2 DEF Excused, EndOf
      <4>4. QED
        BY <2>1, <4>3 DEF Unended
    <3>4. QED
      BY <2>1, <2>2, <3>1, <3>2, <3>3 DEF Unended
  <2>3. \A id \in used : (id \in p => id \in o) /\ (id \in I => id \in J)
    BY <2>1, <2>2
  <2>4. FilesOK(trace, lost, I, used, o)
    BY <2>1 DEF TraceInv
  <2>5. FilesOK(trace, lost, J, used', p)
    BY <2>3, <2>4, FilesStay
  <2>6. QED
    BY <2>1, <2>5
<1>11. /\ HandlesOK(handle, bytes) /\ SizeOK(trace, handle, bytes, writers)
       /\ \A b \in Traced : header[b] <=> handle[b] # 0
  BY DEF TraceInv
<1>12. /\ HandlesOK(handle, bytes)' /\ SizeOK(trace, handle, bytes, writers)'
       /\ (\A b \in Traced : header[b] <=> handle[b] # 0)'
  <2>1. HandlesOK(handle, bytes)'
    BY <1>11 DEF HandlesOK
  <2>2. SizeOK(trace, handle, bytes, writers)'
    BY <1>11 DEF SizeOK, Room
  <2>3. QED
    BY <1>11, <2>1, <2>2
<1>13. FilesOK(trace, lost, Unended, used, OpenSpans)'
  BY <1>10 DEF FilesOK, Away
<1>14. QED
  BY <1>4, <1>7, <1>8, <1>9, <1>12, <1>13

(***************************************************************************)
(* A turn opens a span under a new id.                                     *)
(***************************************************************************)
LEMMA StartTurnStep ==
  ASSUME TraceInv, NEW a \in Traced, Tracing!StartTurn(a)
  PROVE  TraceInv'
<1>1. TraceType /\ SpansKnown /\ SpansApart
  BY DEF TraceInv
<1>2. PICK id, x : id = <<"turn", second>> /\ x = Tracing!Line("s", id)
  OBVIOUS
<1>3. /\ turn[a] = Tracing!None /\ turn' = [turn EXCEPT ![a] = id] /\ spans' = spans + 1
      /\ collided' = (collided \/ id \in used) /\ used' = used \cup {id}
      /\ Tracing!Observe(a, x) /\ call' = call /\ second' = second
      /\ UNCHANGED <<handle, bytes, header, trace, lost, writers, crashed>>
  BY <1>2 DEF Tracing!StartTurn, Tracing!writerVars
<1>4. /\ id \in TurnIds /\ id \in SpanIds /\ id # Tracing!None /\ id \notin CallIds
      /\ x.type = "s" /\ x.id = id /\ x \in TraceLine
  <2>1. second \in Nat
    BY <1>1 DEF TraceType
  <2>2. id \in TurnIds
    BY <1>2, <2>1 DEF TurnIds
  <2>3. x = [type |-> "s", id |-> id]
    BY <1>2 DEF Tracing!Line
  <2>4. QED
    BY <2>2, <2>3, IdsApart DEF SpanIds, TraceLine
<1>5. /\ turn' \in [Traced -> TurnIds \cup {Tracing!None}] /\ turn'[a] = id
      /\ \A b \in Traced \ {a} : turn'[b] = turn[b]
  BY <1>1, <1>3, <1>4 DEF TraceType
<1>6. used' \subseteq SpanIds /\ used \subseteq used' /\ Known(x, used')
  BY <1>1, <1>3, <1>4 DEF TraceType, Known
<1>7. \A b \in Traced : turn[b] \in used \cup {Tracing!None} /\ call[b] \in used \cup {Tracing!None}
  BY <1>1 DEF SpansKnown
<1>8. SpansApart'
  BY <1>1, <1>3, <1>4, <1>5, <1>7 DEF SpansApart
<1>9. \A i \in used : i \in OpenSpans' => i \in OpenSpans
  BY <1>3, <1>5 DEF OpenSpans, Tracing!Open
<1>10. \A i \in used : i \in {turn[a], call[a]} => i \in {turn'[a], call'[a]}
  BY <1>1, <1>3, IdsApart DEF TraceType
<1>11. /\ feed' \in [Traced -> Seq(TraceLine)] /\ \A y \in InFeeds' : Known(y, used')
       /\ EndsAreOver' /\ FeedsSettled'
       /\ FilesOK(trace, lost, Unended, used, OpenSpans)'
       /\ HandlesOK(handle, bytes)' /\ SizeOK(trace, handle, bytes, writers)'
       /\ (\A b \in Traced : header[b] <=> handle[b] # 0)'
  BY <1>3, <1>4, <1>5, <1>6, <1>9, <1>10, ObserveKeeps
<1>12. TraceType'
  BY <1>1, <1>3, <1>5, <1>6, <1>11 DEF TraceType
<1>13. SpansKnown'
  <2>1. (\A n \in Nat : <<"llm", n>> \in used => n <= spans)'
    <3>1. \A n \in Nat : <<"llm", n>> \in used' => <<"llm", n>> \in used
      BY <1>3, <1>4, IdsApart
    <3>2. spans \in Nat
      BY <1>1 DEF TraceType
    <3>3. QED
      BY <1>1, <1>3, <3>1, <3>2 DEF SpansKnown
  <2>2. \A b \in Traced : {turn'[b], call'[b]} \subseteq used' \cup {Tracing!None}
    BY <1>3, <1>5, <1>7
  <2>3. QED
    BY <1>11, <2>1, <2>2 DEF SpansKnown
<1>14. QED
  BY <1>8, <1>11, <1>12, <1>13 DEF TraceInv

(***************************************************************************)
(* So does a provider call, inside the turn.                               *)
(***************************************************************************)
LEMMA StartCallStep ==
  ASSUME TraceInv, NEW a \in Traced, Tracing!StartCall(a)
  PROVE  TraceInv'
<1>1. TraceType /\ SpansKnown /\ SpansApart
  BY DEF TraceInv
<1>2. PICK id, x : id = <<"llm", spans + 1>> /\ x = Tracing!Line("s", id)
  OBVIOUS
<1>3. /\ call[a] = Tracing!None /\ call' = [call EXCEPT ![a] = id] /\ spans' = spans + 1
      /\ collided' = collided /\ used' = used \cup {id}
      /\ Tracing!Observe(a, x) /\ turn' = turn /\ second' = second
      /\ UNCHANGED <<handle, bytes, header, trace, lost, writers, crashed>>
  BY <1>2 DEF Tracing!StartCall, Tracing!writerVars
<1>4. /\ id \in CallIds /\ id \in SpanIds /\ id # Tracing!None /\ id \notin TurnIds
      /\ id \notin used /\ x.type = "s" /\ x.id = id /\ x \in TraceLine
      /\ \A n \in Nat : id = <<"llm", n>> => n = spans + 1
  <2>1. spans \in Nat /\ spans + 1 \in Nat
    BY <1>1 DEF TraceType
  <2>2. id \in CallIds
    BY <1>2, <2>1 DEF CallIds
  <2>3. x = [type |-> "s", id |-> id]
    BY <1>2 DEF Tracing!Line
  <2>4. id \notin used
    BY <1>1, <1>2, <2>1 DEF SpansKnown
  <2>5. \A n \in Nat : id = <<"llm", n>> => n = spans + 1
    BY <1>2, <2>1, IdsApart
  <2>6. QED
    BY <2>2, <2>3, <2>4, <2>5, IdsApart DEF SpanIds, TraceLine
<1>5. /\ call' \in [Traced -> CallIds \cup {Tracing!None}] /\ call'[a] = id
      /\ \A b \in Traced \ {a} : call'[b] = call[b]
  BY <1>1, <1>3, <1>4 DEF TraceType
<1>6. used' \subseteq SpanIds /\ used \subseteq used' /\ Known(x, used')
  BY <1>1, <1>3, <1>4 DEF TraceType, Known
<1>7. \A b \in Traced : turn[b] \in used \cup {Tracing!None} /\ call[b] \in used \cup {Tracing!None}
  BY <1>1 DEF SpansKnown
<1>8. SpansApart'
  BY <1>1, <1>3, <1>4, <1>5, <1>7 DEF SpansApart
<1>9. \A i \in used : i \in OpenSpans' => i \in OpenSpans
  BY <1>3, <1>4, <1>5 DEF OpenSpans, Tracing!Open
<1>10. \A i \in used : i \in {turn[a], call[a]} => i \in {turn'[a], call'[a]}
  BY <1>1, <1>3, IdsApart DEF TraceType
<1>11. /\ feed' \in [Traced -> Seq(TraceLine)] /\ \A y \in InFeeds' : Known(y, used')
       /\ EndsAreOver' /\ FeedsSettled'
       /\ FilesOK(trace, lost, Unended, used, OpenSpans)'
       /\ HandlesOK(handle, bytes)' /\ SizeOK(trace, handle, bytes, writers)'
       /\ (\A b \in Traced : header[b] <=> handle[b] # 0)'
  BY <1>3, <1>4, <1>5, <1>6, <1>9, <1>10, ObserveKeeps
<1>12. TraceType'
  BY <1>1, <1>3, <1>5, <1>6, <1>11 DEF TraceType
<1>13. SpansKnown'
  <2>1. (\A n \in Nat : <<"llm", n>> \in used => n <= spans)'
    <3>1. spans \in Nat
      BY <1>1 DEF TraceType
    <3>2. \A n \in Nat : <<"llm", n>> \in used' => <<"llm", n>> \in used \/ n = spans + 1
      BY <1>3, <1>4
    <3>3. QED
      BY <1>1, <1>3, <3>1, <3>2 DEF SpansKnown
  <2>2. \A b \in Traced : {turn'[b], call'[b]} \subseteq used' \cup {Tracing!None}
    BY <1>3, <1>5, <1>7
  <2>3. QED
    BY <1>11, <2>1, <2>2 DEF SpansKnown
<1>14. QED
  BY <1>8, <1>11, <1>12, <1>13 DEF TraceInv

(***************************************************************************)
(* A call's span ends once.                                                *)
(***************************************************************************)
LEMMA EndCallStep ==
  ASSUME TraceInv, NEW a \in Traced, Tracing!EndCall(a)
  PROVE  TraceInv'
<1>1. TraceType /\ SpansKnown /\ SpansApart
  BY DEF TraceInv
<1>2. PICK id, x : id = call[a] /\ x = EndOf(id)
  OBVIOUS
<1>3. /\ id # Tracing!None /\ call' = [call EXCEPT ![a] = Tracing!None]
      /\ Tracing!Observe(a, x) /\ UNCHANGED <<second, spans, turn, used, collided>>
      /\ UNCHANGED <<handle, bytes, header, trace, lost, writers, crashed>>
  BY <1>2 DEF Tracing!EndCall, Tracing!writerVars, EndOf
<1>4. \A b \in Traced : turn[b] \in used \cup {Tracing!None} /\ call[b] \in used \cup {Tracing!None}
  BY <1>1 DEF SpansKnown
<1>5. id \in used /\ id \in CallIds /\ used \subseteq SpanIds
  BY <1>1, <1>2, <1>3, <1>4 DEF TraceType
<1>6. x.type = "e" /\ x.id = id /\ x \in TraceLine /\ Known(x, used')
  BY <1>2, <1>3, <1>5 DEF EndOf, Tracing!Line, TraceLine, Known
<1>7. /\ call' \in [Traced -> CallIds \cup {Tracing!None}] /\ call'[a] = Tracing!None
      /\ \A b \in Traced \ {a} : call'[b] = call[b]
  BY <1>1, <1>3 DEF TraceType
<1>8. SpansApart'
  BY <1>1, <1>3, <1>7 DEF SpansApart
<1>9. \A i \in used : i \in OpenSpans' => i \in OpenSpans
  <2>1. Tracing!None \notin used
    BY <1>5, IdsApart
  <2>2. QED
    BY <1>3, <1>7, <2>1 DEF OpenSpans, Tracing!Open
<1>10. x.id \notin OpenSpans'
  <2>1. \A b \in Traced : turn'[b] # id
    BY <1>1, <1>3, <1>5, IdsApart DEF TraceType
  <2>2. \A b \in Traced : call'[b] # id
    BY <1>1, <1>2, <1>3, <1>7 DEF SpansApart
  <2>3. QED
    BY <1>6, <2>1, <2>2 DEF OpenSpans, Tracing!Open
<1>11. \A i \in used : i \in {turn[a], call[a]} => i \in {turn'[a], call'[a]} \/ x = EndOf(i)
  BY <1>2, <1>3
<1>12. /\ feed' \in [Traced -> Seq(TraceLine)] /\ \A y \in InFeeds' : Known(y, used')
       /\ EndsAreOver' /\ FeedsSettled'
       /\ FilesOK(trace, lost, Unended, used, OpenSpans)'
       /\ HandlesOK(handle, bytes)' /\ SizeOK(trace, handle, bytes, writers)'
       /\ (\A b \in Traced : header[b] <=> handle[b] # 0)'
  BY <1>3, <1>5, <1>6, <1>7, <1>9, <1>10, <1>11, ObserveKeeps
<1>13. TraceType'
  BY <1>1, <1>3, <1>7, <1>12 DEF TraceType
<1>14. SpansKnown'
  BY <1>1, <1>3, <1>4, <1>7, <1>12 DEF SpansKnown
<1>15. QED
  BY <1>8, <1>12, <1>13, <1>14 DEF TraceInv

(***************************************************************************)
(* So does a turn's, once its calls have ended.                            *)
(***************************************************************************)
LEMMA EndTurnStep ==
  ASSUME TraceInv, NEW a \in Traced, Tracing!EndTurn(a)
  PROVE  TraceInv'
<1>1. TraceType /\ SpansKnown /\ SpansApart
  BY DEF TraceInv
<1>2. PICK id, x : id = turn[a] /\ x = EndOf(id)
  OBVIOUS
<1>3. /\ id # Tracing!None /\ turn' = [turn EXCEPT ![a] = Tracing!None]
      /\ Tracing!Observe(a, x) /\ UNCHANGED <<second, spans, call, used, collided>>
      /\ UNCHANGED <<handle, bytes, header, trace, lost, writers, crashed>>
  BY <1>2 DEF Tracing!EndTurn, Tracing!writerVars, EndOf
<1>4. \A b \in Traced : turn[b] \in used \cup {Tracing!None} /\ call[b] \in used \cup {Tracing!None}
  BY <1>1 DEF SpansKnown
<1>5. id \in used /\ id \in TurnIds /\ used \subseteq SpanIds
  BY <1>1, <1>2, <1>3, <1>4 DEF TraceType
<1>6. x.type = "e" /\ x.id = id /\ x \in TraceLine /\ Known(x, used')
  BY <1>2, <1>3, <1>5 DEF EndOf, Tracing!Line, TraceLine, Known
<1>7. /\ turn' \in [Traced -> TurnIds \cup {Tracing!None}] /\ turn'[a] = Tracing!None
      /\ \A b \in Traced \ {a} : turn'[b] = turn[b]
  BY <1>1, <1>3 DEF TraceType
<1>8. SpansApart'
  BY <1>1, <1>3, <1>7 DEF SpansApart
<1>9. \A i \in used : i \in OpenSpans' => i \in OpenSpans
  <2>1. Tracing!None \notin used
    BY <1>5, IdsApart
  <2>2. QED
    BY <1>3, <1>7, <2>1 DEF OpenSpans, Tracing!Open
<1>10. x.id \notin OpenSpans'
  <2>1. \A b \in Traced : call'[b] # id
    BY <1>1, <1>3, <1>5, IdsApart DEF TraceType
  <2>2. ~collided => \A b \in Traced : turn'[b] # id
    BY <1>1, <1>2, <1>3, <1>7 DEF SpansApart
  <2>3. QED
    BY <1>3, <1>6, <2>1, <2>2 DEF OpenSpans, Tracing!Open
<1>11. \A i \in used : i \in {turn[a], call[a]} => i \in {turn'[a], call'[a]} \/ x = EndOf(i)
  BY <1>2, <1>3
<1>12. /\ feed' \in [Traced -> Seq(TraceLine)] /\ \A y \in InFeeds' : Known(y, used')
       /\ EndsAreOver' /\ FeedsSettled'
       /\ FilesOK(trace, lost, Unended, used, OpenSpans)'
       /\ HandlesOK(handle, bytes)' /\ SizeOK(trace, handle, bytes, writers)'
       /\ (\A b \in Traced : header[b] <=> handle[b] # 0)'
  BY <1>3, <1>5, <1>6, <1>7, <1>9, <1>10, <1>11, ObserveKeeps
<1>13. TraceType'
  BY <1>1, <1>3, <1>7, <1>12 DEF TraceType
<1>14. SpansKnown'
  BY <1>1, <1>3, <1>4, <1>7, <1>12 DEF SpansKnown
<1>15. QED
  BY <1>8, <1>12, <1>13, <1>14 DEF TraceInv

(***************************************************************************)
(* The writers: one puts a line, after its header if it is the first and   *)
(* after a rotation if it has written its share.                           *)
(***************************************************************************)
Kept(s, by, I, a) == GoodAfter(s, handle, by, writers, I, used, OpenSpans, a)

Files == [trace |-> trace, handle |-> handle, lost |-> lost]

(***************************************************************************)
(* The files of a writer that has written something are good as they are.  *)
(***************************************************************************)
LEMMA FilesKept ==
  ASSUME TraceInv, NEW a \in Traced, header[a]
  PROVE  Kept(Files, bytes, Unended, a)
<1>1. /\ FilesOK(trace, lost, Unended, used, OpenSpans) /\ HandlesOK(handle, bytes)
      /\ SizeOK(trace, handle, bytes, writers) /\ (header[a] <=> handle[a] # 0)
      /\ writers \in Nat \ {0} /\ used \subseteq SpanIds
  BY DEF TraceInv, TraceType
<1>2. Files.trace = trace /\ Files.handle = handle /\ Files.lost = lost
  BY DEF Files
<1>3. Files = [trace |-> Files.trace, handle |-> Files.handle, lost |-> Files.lost]
  BY DEF Files
<1>4. Good(Files.trace, Files.handle, Files.lost, bytes, writers, Unended, used, OpenSpans)
  BY <1>1, <1>2 DEF Good
<1>5. Files.handle[a] # 0 /\ \A b \in Traced \ {a} : Files.handle[b] = 0 <=> handle[b] = 0
  BY <1>1, <1>2
<1>6. QED
  BY <1>3, <1>4, <1>5 DEF Kept, GoodAfter

(***************************************************************************)
(* The header is the first line a writer puts (src/trace/writer.rs run).   *)
(***************************************************************************)
LEMMA HeaderKept ==
  ASSUME Tracing!TracesAssumption, TraceInv, NEW a \in Traced, ~header[a],
         NEW s, s = Tracing!Put(Files, a, <<Tracing!Line("meta", Tracing!None)>>),
         NEW by, by = [bytes EXCEPT ![a] = bytes[a] + 1]
  PROVE  Kept(s, by, Unended, a)
<1>1. /\ FilesOK(trace, lost, Unended, used, OpenSpans) /\ HandlesOK(handle, bytes)
      /\ SizeOK(trace, handle, bytes, writers) /\ (header[a] <=> handle[a] # 0)
      /\ header[a] \in BOOLEAN /\ writers \in Nat \ {0} /\ used \subseteq SpanIds
  BY DEF TraceInv, TraceType
<1>2. bytes \in [Traced -> 0 .. TraceSize] /\ (handle[a] = 0 => bytes[a] = 0)
  BY <1>1 DEF HandlesOK
<1>3. TraceSize \in Nat \ {0}
  BY FileNames
<1>4. PICK x, I, u, o, w : /\ x = Tracing!Line("meta", Tracing!None) /\ I = Unended /\ u = used
                           /\ o = OpenSpans /\ w = writers
  OBVIOUS
<1>5. x.type = "meta" /\ x \in TraceLine /\ Known(x, u)
  BY <1>4 DEF Tracing!Line, TraceLine, Known
<1>6. bytes[a] < TraceSize
  BY <1>1, <1>2, <1>3
<1>7. s = Tracing!Put([trace |-> trace, handle |-> handle, lost |-> lost], a, <<x>>)
  BY <1>4 DEF Files
<1>8. /\ FilesOK(trace, lost, I, u, o) /\ SizeOK(trace, handle, bytes, w)
      /\ w \in Nat \ {0} /\ u \subseteq SpanIds /\ HandlesOK(handle, bytes)
  BY <1>1, <1>4
<1>9. CanPut(trace, handle, lost, bytes, w, I, I, u, o, a, x)
  BY <1>5, <1>6, <1>8 DEF CanPut, Good
<1>10. GoodAfter(s, handle, Counted(bytes, a, bytes[a] + 1), w, I, u, o, a)
  BY <1>7, <1>9, PutKeeps
<1>11. Counted(bytes, a, bytes[a] + 1) = by
  BY DEF Counted
<1>12. QED
  BY <1>4, <1>10, <1>11 DEF Kept

(***************************************************************************)
(* A writer at the size limit rotates and has written nothing yet.         *)
(***************************************************************************)
LEMMA RotationKept ==
  ASSUME Tracing!TracesAssumption, TraceInv, NEW a \in Traced, NEW s, NEW by, NEW I,
         Kept(s, by, I, a),
         NEW r, r = (IF by[a] < TraceSize THEN s ELSE Tracing!Rotate(s, a)),
         NEW bz, bz = [by EXCEPT ![a] = IF by[a] < TraceSize THEN by[a] ELSE 0]
  PROVE  Kept(r, bz, I, a) /\ bz[a] < TraceSize
<1>1. /\ s = [trace |-> s.trace, handle |-> s.handle, lost |-> s.lost]
      /\ Good(s.trace, s.handle, s.lost, by, writers, I, used, OpenSpans)
      /\ s.handle[a] # 0 /\ \A b \in Traced \ {a} : s.handle[b] = 0 <=> handle[b] = 0
  BY DEF Kept, GoodAfter
<1>2. by \in [Traced -> 0 .. TraceSize]
  BY <1>1 DEF Good, HandlesOK
<1>3. TraceSize \in Nat \ {0}
  BY FileNames
<1>5. CASE by[a] < TraceSize
  <2>1. bz = by /\ r = s
    BY <1>2, <1>5
  <2>2. QED
    BY <1>5, <2>1
<1>6. CASE ~(by[a] < TraceSize)
  <2>1. PICK tr, ha, lo, u, o, w : /\ tr = s.trace /\ ha = s.handle /\ lo = s.lost /\ u = used
                                   /\ o = OpenSpans /\ w = writers
    OBVIOUS
  <2>2. s = [trace |-> tr, handle |-> ha, lost |-> lo]
    BY <1>1, <2>1
  <2>3. r = Tracing!Rotate([trace |-> tr, handle |-> ha, lost |-> lo], a)
    BY <1>6, <2>2
  <2>4. bz = [by EXCEPT ![a] = 0] /\ bz[a] = 0
    BY <1>2, <1>6
  <2>5. Good(tr, ha, lo, by, w, I, u, o)
    BY <1>1, <2>1
  <2>6. GoodAfter(r, ha, bz, w, I, u, o, a)
    <3>1. GoodAfter(r, ha, Counted(by, a, 0), w, I, u, o, a)
      BY <2>3, <2>5, RotateKeeps
    <3>2. Counted(by, a, 0) = bz
      BY <2>4 DEF Counted
    <3>3. QED
      BY <3>1, <3>2
  <2>7. GoodAfter(r, handle, bz, w, I, u, o, a)
    BY <1>1, <2>1, <2>6 DEF GoodAfter
  <2>8. QED
    BY <1>3, <2>1, <2>4, <2>7 DEF Kept
<1>7. QED
  BY <1>5, <1>6

(***************************************************************************)
(* The line itself is put after header and rotation.                       *)
(***************************************************************************)
LEMMA LineKept ==
  ASSUME Tracing!TracesAssumption, TraceInv, NEW a \in Traced, NEW s, NEW by, NEW I, NEW J,
         Kept(s, by, I, a), by[a] < TraceSize, NEW x, Known(x, used),
         x.type = "e" => x.id \notin OpenSpans, x.type = "s" => x.id \in J,
         \A id \in SpanIds : id \in I => id \in J \/ x = EndOf(id),
         NEW r, r = Tracing!Put(s, a, <<x>>),
         NEW bz, bz = [by EXCEPT ![a] = by[a] + 1]
  PROVE  Kept(r, bz, J, a)
<1>1. /\ s = [trace |-> s.trace, handle |-> s.handle, lost |-> s.lost]
      /\ Good(s.trace, s.handle, s.lost, by, writers, I, used, OpenSpans)
      /\ s.handle[a] # 0 /\ \A b \in Traced \ {a} : s.handle[b] = 0 <=> handle[b] = 0
  BY DEF Kept, GoodAfter
<1>2. PICK tr, ha, lo, u, o, w : /\ tr = s.trace /\ ha = s.handle /\ lo = s.lost /\ u = used
                                 /\ o = OpenSpans /\ w = writers
  OBVIOUS
<1>3. r = Tracing!Put([trace |-> tr, handle |-> ha, lost |-> lo], a, <<x>>)
  BY <1>1, <1>2
<1>4. Good(tr, ha, lo, by, w, I, u, o) /\ Known(x, u) /\ (x.type = "e" => x.id \notin o)
  BY <1>1, <1>2
<1>5. CanPut(tr, ha, lo, by, w, I, J, u, o, a, x)
  BY <1>4 DEF CanPut
<1>6. GoodAfter(r, ha, bz, w, J, u, o, a)
  <2>1. GoodAfter(r, ha, Counted(by, a, by[a] + 1), w, J, u, o, a)
    BY <1>3, <1>5, PutKeeps
  <2>2. Counted(by, a, by[a] + 1) = bz
    BY DEF Counted
  <2>3. QED
    BY <2>1, <2>2
<1>7. GoodAfter(r, handle, bz, w, J, u, o, a)
  BY <1>1, <1>2, <1>6 DEF GoodAfter
<1>8. QED
  BY <1>2, <1>7 DEF Kept

(***************************************************************************)
(* What a writer that has put something leaves to the others.              *)
(***************************************************************************)
LEMMA WritersAfter ==
  ASSUME TraceInv, NEW a \in Traced, NEW s, NEW by, Kept(s, by, Unended', a),
         trace' = s.trace, handle' = s.handle, lost' = s.lost, bytes' = by,
         header' = [header EXCEPT ![a] = TRUE],
         UNCHANGED <<turn, call, used, collided, writers>>
  PROVE  /\ OpenSpans' = OpenSpans /\ FilesOK(trace, lost, Unended, used, OpenSpans)'
         /\ HandlesOK(handle, bytes)' /\ SizeOK(trace, handle, bytes, writers)'
         /\ (\A b \in Traced : header[b] <=> handle[b] # 0)'
         /\ header' \in [Traced -> BOOLEAN]
<1>1. OpenSpans' = OpenSpans
  BY DEF OpenSpans, Tracing!Open
<1>2. FilesOK(trace', lost', Unended', used', OpenSpans')
  BY <1>1 DEF Kept, GoodAfter, Good
<1>3. FilesOK(trace, lost, Unended, used, OpenSpans)'
  BY <1>2 DEF FilesOK, Away
<1>4. HandlesOK(handle, bytes)'
  <2>1. HandlesOK(handle', bytes')
    BY DEF Kept, GoodAfter, Good
  <2>2. QED
    BY <2>1 DEF HandlesOK
<1>5. SizeOK(trace, handle, bytes, writers)'
  <2>1. SizeOK(trace', handle', bytes', writers')
    BY DEF Kept, GoodAfter, Good
  <2>2. QED
    BY <2>1 DEF SizeOK, Room
<1>6. (\A b \in Traced : header[b] <=> handle[b] # 0)' /\ header' \in [Traced -> BOOLEAN]
  <2>1. header \in [Traced -> BOOLEAN] /\ \A b \in Traced : header[b] <=> handle[b] # 0
    BY DEF TraceInv, TraceType
  <2>2. header'[a] = TRUE /\ \A b \in Traced \ {a} : header'[b] = header[b]
    BY <2>1
  <2>3. handle'[a] # 0 /\ \A b \in Traced \ {a} : handle'[b] = 0 <=> handle[b] = 0
    BY DEF Kept, GoodAfter
  <2>4. ASSUME NEW b \in Traced PROVE header'[b] <=> handle'[b] # 0
    BY <2>1, <2>2, <2>3
  <2>5. header' \in [Traced -> BOOLEAN]
    BY <2>1
  <2>6. QED
    BY <2>4, <2>5
<1>7. QED
  BY <1>1, <1>3, <1>4, <1>5, <1>6

(***************************************************************************)
(* A writer starts with its header.                                        *)
(***************************************************************************)
LEMMA HeaderStep ==
  ASSUME Tracing!TracesAssumption, TraceInv, NEW a \in Traced, Tracing!PutHeader(a)
  PROVE  TraceInv'
<1>1. PICK done, by : /\ done = Tracing!Put(Files, a, <<Tracing!Line("meta", Tracing!None)>>)
                      /\ by = [bytes EXCEPT ![a] = bytes[a] + 1]
  OBVIOUS
<1>2. /\ ~header[a] /\ header' = [header EXCEPT ![a] = TRUE]
      /\ trace' = done.trace /\ handle' = done.handle /\ lost' = done.lost /\ bytes' = by
      /\ UNCHANGED <<second, spans, turn, call, used, collided, feed, writers, crashed>>
  BY <1>1 DEF Tracing!PutHeader, Tracing!agentVars, Files
<1>3. Unended' = Unended /\ InFeeds' = InFeeds
  BY <1>2 DEF Unended, Tracing!Open, Excused, InFeeds
<1>4. Kept(done, by, Unended', a)
  <2>1. Kept(done, by, Unended, a)
    BY <1>1, <1>2, HeaderKept
  <2>2. QED
    BY <1>3, <2>1
<1>5. /\ OpenSpans' = OpenSpans /\ FilesOK(trace, lost, Unended, used, OpenSpans)'
      /\ HandlesOK(handle, bytes)' /\ SizeOK(trace, handle, bytes, writers)'
      /\ (\A b \in Traced : header[b] <=> handle[b] # 0)'
      /\ header' \in [Traced -> BOOLEAN]
  BY <1>2, <1>4, WritersAfter
<1>6. TraceType' /\ SpansKnown' /\ SpansApart'
  BY <1>2, <1>3, <1>5 DEF TraceInv, TraceType, SpansKnown, SpansApart
<1>7. EndsAreOver' /\ FeedsSettled'
  BY <1>2, <1>3, <1>5 DEF TraceInv, EndsAreOver, FeedsSettled
<1>8. QED
  BY <1>5, <1>6, <1>7 DEF TraceInv

(***************************************************************************)
(* One line taken from the queue is written to the log.                    *)
(***************************************************************************)
LEMMA EventStep ==
  ASSUME Tracing!TracesAssumption, TraceInv, NEW a \in Traced, Tracing!PutEvent(a)
  PROVE  TraceInv'
<1>1. PICK ready, done, x :
        /\ ready = (IF bytes[a] < TraceSize THEN Files ELSE Tracing!Rotate(Files, a))
        /\ x = Head(feed[a])
        /\ done = Tracing!Put(ready, a, <<x>>)
  OBVIOUS
<1>2. /\ feed[a] # <<>> /\ header[a] /\ feed' = [feed EXCEPT ![a] = Tail(@)]
      /\ header' = header
      /\ trace' = done.trace /\ handle' = done.handle /\ lost' = done.lost
      /\ bytes' = [bytes EXCEPT ![a] = (IF bytes[a] < TraceSize THEN bytes[a] ELSE 0) + 1]
      /\ UNCHANGED <<second, spans, turn, call, used, collided, writers, crashed>>
  BY <1>1 DEF Tracing!PutEvent, Tracing!agentVars, Files
<1>3. PICK I, J : I = Unended /\ J = Unended'
  OBVIOUS
<1>4. TraceType /\ SpansKnown /\ SpansApart /\ EndsAreOver /\ FeedsSettled
  BY DEF TraceInv
<1>5. feed \in [Traced -> Seq(TraceLine)] /\ bytes \in [Traced -> 0 .. TraceSize]
  BY DEF TraceInv, TraceType, HandlesOK
<1>6. /\ Tail(feed[a]) \in Seq(TraceLine) /\ x \in TraceLine
      /\ LinesOf(feed[a]) = {x} \cup LinesOf(Tail(feed[a]))
  BY <1>1, <1>2, <1>5, LinesTaken
<1>7. /\ feed' \in [Traced -> Seq(TraceLine)] /\ feed'[a] = Tail(feed[a])
      /\ \A b \in Traced \ {a} : feed'[b] = feed[b]
  BY <1>2, <1>5, <1>6
<1>8. x \in InFeeds /\ \A y : y \in InFeeds <=> y \in InFeeds' \/ y = x
  BY <1>6, <1>7, InFeedsAre
<1>9. Known(x, used) /\ (x.type = "e" => x.id \notin OpenSpans)
  BY <1>4, <1>8 DEF SpansKnown, EndsAreOver
<1>10. /\ Settled(Tail(feed[a]), {turn[a], call[a]} \cup crashed)
       /\ x.type = "s" => \/ x.id \in {turn[a], call[a]} \cup crashed
                          \/ EndOf(x.id) \in LinesOf(Tail(feed[a]))
  <2>1. Settled(feed[a], {turn[a], call[a]} \cup crashed)
    BY <1>4 DEF FeedsSettled
  <2>2. QED
    BY <1>1, <1>2, <1>5, <2>1, SettledTail
<1>11. x.type = "s" => x.id \in J
  <2>1. ASSUME x.type = "s" PROVE x.id \in J
    <3>1. CASE x.id \in {turn[a], call[a]} \cup crashed
      BY <1>2, <1>3, <3>1 DEF Unended, Tracing!Open
    <3>2. CASE EndOf(x.id) \in LinesOf(Tail(feed[a]))
      <4>1. EndOf(x.id) \in InFeeds' /\ x.id \in SpanIds
        BY <1>4, <1>7, <1>9, <2>1, <3>2, InFeedsAre DEF Known, TraceType
      <4>2. x.id \in Excused(InFeeds)'
        BY <4>1 DEF Excused, EndOf
      <4>3. QED
        BY <1>3, <4>2 DEF Unended
    <3>3. QED
      BY <1>10, <2>1, <3>1, <3>2
  <2>2. QED
    BY <2>1
<1>12. \A id \in SpanIds : id \in I => id \in J \/ x = EndOf(id)
  <2>1. ASSUME NEW id \in SpanIds, id \in I PROVE id \in J \/ x = EndOf(id)
    <3>1. CASE id \in Tracing!Open \cup crashed
      BY <1>2, <1>3, <3>1 DEF Unended, Tracing!Open
    <3>2. CASE id \in Excused(InFeeds)
      <4>1. EndOf(id) \in InFeeds
        BY <3>2 DEF Excused
      <4>2. EndOf(id) \in InFeeds' => id \in Excused(InFeeds)'
        BY DEF Excused, EndOf
      <4>3. QED
        BY <1>3, <1>8, <4>1, <4>2 DEF Unended
    <3>3. QED
      BY <1>3, <2>1, <3>1, <3>2 DEF Unended
  <2>2. QED
    BY <2>1
<1>13. PICK b2, b3 :
         /\ b2 = [bytes EXCEPT ![a] = IF bytes[a] < TraceSize THEN bytes[a] ELSE 0]
         /\ b3 = [b2 EXCEPT ![a] = b2[a] + 1]
  OBVIOUS
<1>14. Kept(Files, bytes, I, a)
  BY <1>2, <1>3, FilesKept
<1>15. Kept(ready, b2, I, a) /\ b2[a] < TraceSize
  BY <1>1, <1>13, <1>14, RotationKept
<1>16. Kept(done, b3, J, a)
  <2>1. done = Tracing!Put(ready, a, <<x>>) /\ b3 = [b2 EXCEPT ![a] = b2[a] + 1]
    BY <1>1, <1>13
  <2>2. QED
    BY <1>9, <1>11, <1>12, <1>15, <2>1, LineKept
<1>17. b3 = bytes'
  <2>1. b3 = [bytes EXCEPT ![a] = b2[a] + 1]
    BY <1>5, <1>13
  <2>2. b2[a] = IF bytes[a] < TraceSize THEN bytes[a] ELSE 0
    BY <1>5, <1>13
  <2>3. QED
    BY <1>2, <2>1, <2>2
<1>18. header' = [header EXCEPT ![a] = TRUE]
  <2>1. header \in [Traced -> BOOLEAN] /\ header[a] = TRUE
    BY <1>2, <1>4 DEF TraceType
  <2>2. QED
    BY <1>2, <2>1
<1>19. Kept(done, b3, Unended', a)
  BY <1>3, <1>16
<1>20. /\ OpenSpans' = OpenSpans /\ FilesOK(trace, lost, Unended, used, OpenSpans)'
       /\ HandlesOK(handle, bytes)' /\ SizeOK(trace, handle, bytes, writers)'
       /\ (\A b \in Traced : header[b] <=> handle[b] # 0)'
       /\ header' \in [Traced -> BOOLEAN]
  BY <1>2, <1>17, <1>18, <1>19, WritersAfter
<1>24. TraceType'
  BY <1>2, <1>4, <1>7, <1>20 DEF TraceType
<1>25. SpansKnown' /\ SpansApart'
  BY <1>2, <1>4, <1>8 DEF SpansKnown, SpansApart
<1>26. EndsAreOver'
  BY <1>4, <1>8, <1>20 DEF EndsAreOver
<1>27. FeedsSettled'
  <2>1. ASSUME NEW b \in Traced PROVE Settled(feed'[b], {turn'[b], call'[b]} \cup crashed')
    <3>1. CASE b = a
      BY <1>2, <1>7, <1>10, <3>1
    <3>2. CASE b # a
      <4>1. Settled(feed[b], {turn[b], call[b]} \cup crashed)
        BY <1>4 DEF FeedsSettled
      <4>2. feed'[b] = feed[b]
        BY <1>7, <3>2
      <4>3. QED
        BY <1>2, <4>1, <4>2
    <3>3. QED
      BY <3>1, <3>2
  <2>2. QED
    BY <2>1 DEF FeedsSettled
<1>28. QED
  BY <1>20, <1>24, <1>25, <1>26, <1>27 DEF TraceInv

(***************************************************************************)
(* Time passes, an agent is followed by another, the process starts anew.  *)
(***************************************************************************)
LEMMA SecondStep == TraceInv /\ UNCHANGED <<spans, turn, call, used, collided, feed, handle, bytes,
                                          header, trace, lost, writers, crashed>>
                  /\ second' \in Nat => TraceInv'
<1> SUFFICES ASSUME TraceInv, second' \in Nat,
                    UNCHANGED <<spans, turn, call, used, collided, feed, handle, bytes,
                                header, trace, lost, writers, crashed>>
             PROVE  TraceInv'
  OBVIOUS
<1>1. TraceType' /\ SpansKnown' /\ SpansApart'
  BY DEF TraceInv, TraceType, SpansKnown, SpansApart, InFeeds
<1>2. OpenSpans' = OpenSpans /\ Unended' = Unended /\ InFeeds' = InFeeds
  BY DEF OpenSpans, Unended, Tracing!Open, Excused, InFeeds
<1>3. EndsAreOver' /\ FeedsSettled'
  BY <1>2 DEF TraceInv, EndsAreOver, FeedsSettled
<1>4. FilesOK(trace, lost, Unended, used, OpenSpans)'
  <2>1. FilesOK(trace, lost, Unended', used, OpenSpans')
    BY <1>2 DEF TraceInv
  <2>2. QED
    BY <2>1 DEF FilesOK, Away
<1>5. /\ HandlesOK(handle, bytes)' /\ SizeOK(trace, handle, bytes, writers)'
      /\ (\A a \in Traced : header[a] <=> handle[a] # 0)'
  BY DEF TraceInv, HandlesOK, SizeOK, Room
<1>6. QED
  BY <1>1, <1>3, <1>4, <1>5 DEF TraceInv

(***************************************************************************)
(* A process that makes a new agent opens the log anew.                    *)
(***************************************************************************)
LEMMA NextAgentStep ==
  ASSUME Tracing!TracesAssumption, TraceInv, NEW a \in Traced, Tracing!NextAgent(a)
  PROVE  TraceInv'
<1>1. /\ handle' = [handle EXCEPT ![a] = 0] /\ bytes' = [bytes EXCEPT ![a] = 0]
      /\ header' = [header EXCEPT ![a] = FALSE] /\ writers' = writers + 1
      /\ UNCHANGED <<second, spans, turn, call, used, collided, feed, trace, lost, crashed>>
  BY DEF Tracing!NextAgent, Tracing!agentVars
<1>2. /\ TraceType /\ FilesOK(trace, lost, Unended, used, OpenSpans) /\ HandlesOK(handle, bytes)
      /\ SizeOK(trace, handle, bytes, writers) /\ \A b \in Traced : header[b] <=> handle[b] # 0
  BY DEF TraceInv
<1>3. writers \in Nat \ {0} /\ header \in [Traced -> BOOLEAN]
  BY <1>2 DEF TraceType
<1>4. TraceType'
  <2>1. writers' \in Nat \ {0} /\ header' \in [Traced -> BOOLEAN]
    BY <1>1, <1>3
  <2>2. QED
    BY <1>1, <1>2, <2>1 DEF TraceType
<1>5. SpansKnown' /\ SpansApart' /\ OpenSpans' = OpenSpans /\ Unended' = Unended
      /\ InFeeds' = InFeeds
  BY <1>1 DEF TraceInv, SpansKnown, SpansApart, OpenSpans, Unended, Tracing!Open, Excused, InFeeds
<1>6. EndsAreOver' /\ FeedsSettled'
  BY <1>1, <1>5 DEF TraceInv, EndsAreOver, FeedsSettled
<1>7. FilesOK(trace, lost, Unended, used, OpenSpans)'
  <2>1. FilesOK(trace, lost, Unended', used, OpenSpans')
    BY <1>2, <1>5
  <2>2. QED
    BY <1>1, <2>1 DEF FilesOK, Away
<1>8. /\ handle' \in [Traced -> 0 .. Tracing!Removed] /\ bytes' \in [Traced -> 0 .. TraceSize]
      /\ \A b \in Traced : handle'[b] = 0 => bytes'[b] = 0
      /\ \A b \in Traced : header'[b] <=> handle'[b] # 0
  <2>1. TraceSize \in Nat /\ Tracing!Removed \in Nat
    BY FileNames
  <2>2. /\ handle \in [Traced -> 0 .. Tracing!Removed] /\ bytes \in [Traced -> 0 .. TraceSize]
        /\ \A b \in Traced : handle[b] = 0 => bytes[b] = 0
    BY <1>2 DEF HandlesOK
  <2>3. 0 \in 0 .. Tracing!Removed /\ 0 \in 0 .. TraceSize
    BY <2>1
  <2>4. /\ handle' \in [Traced -> 0 .. Tracing!Removed] /\ bytes' \in [Traced -> 0 .. TraceSize]
    BY <1>1, <2>2, <2>3
  <2>5. /\ handle'[a] = 0 /\ bytes'[a] = 0 /\ header'[a] = FALSE
        /\ \A b \in Traced \ {a} : /\ handle'[b] = handle[b] /\ bytes'[b] = bytes[b]
                                   /\ header'[b] = header[b]
    BY <1>1, <1>3, <2>2
  <2>6. QED
    BY <1>2, <2>2, <2>4, <2>5
<1>9. HandlesOK(handle, bytes)' /\ (\A b \in Traced : header[b] <=> handle[b] # 0)'
  BY <1>8 DEF HandlesOK
<1>10. SizeOK(trace, handle, bytes, writers)'
  <2>1. trace \in [Tracing!TraceFiles -> Seq(TraceLine)]
    BY <1>2 DEF FilesOK
  <2>2. SizeOK(trace, handle', bytes', writers + 1)
    BY <1>2, <1>3, <2>1, SizeAnew
  <2>3. QED
    BY <1>1, <2>2 DEF SizeOK, Room
<1>11. QED
  BY <1>4, <1>5, <1>6, <1>7, <1>9, <1>10 DEF TraceInv

(***************************************************************************)
(* A newline, or one that cannot be written, changes no line.              *)
(***************************************************************************)
LEMMA NewlineStep ==
  ASSUME TraceInv, NEW a \in Traced, Tracing!PutNewline(a)
  PROVE  TraceInv'
<1>1. second \in Nat
  BY DEF TraceInv, TraceType
<1>2. UNCHANGED <<second, spans, turn, call, used, collided, feed, handle, bytes, header, trace,
                  lost, writers, crashed>>
  BY DEF Tracing!PutNewline, Tracing!agentVars
<1>3. QED
  BY <1>1, <1>2, SecondStep

(***************************************************************************)
(* A crash loses the queues and the handles, the files stay.               *)
(***************************************************************************)
LEMMA CrashStep ==
  ASSUME Tracing!TracesAssumption, TraceInv, Tracing!Crash
  PROVE  TraceInv'
<1>1. /\ writers' = writers + 1
      /\ crashed' = crashed \cup {turn[a] : a \in Traced} \cup {call[a] : a \in Traced}
                    \cup (UNION {{feed[a][i].id : i \in DOMAIN feed[a]} : a \in Traced})
      /\ turn' = [a \in Traced |-> Tracing!None] /\ call' = [a \in Traced |-> Tracing!None]
      /\ feed' = [a \in Traced |-> <<>>]
      /\ handle' = [a \in Traced |-> 0] /\ bytes' = [a \in Traced |-> 0]
      /\ header' = [a \in Traced |-> FALSE]
      /\ UNCHANGED <<second, spans, used, collided, trace, lost>>
  BY DEF Tracing!Crash
<1>2. /\ TraceType /\ SpansKnown /\ FilesOK(trace, lost, Unended, used, OpenSpans)
      /\ SizeOK(trace, handle, bytes, writers)
  BY DEF TraceInv
<1>3. writers \in Nat \ {0} /\ used \subseteq SpanIds
  BY <1>2 DEF TraceType
<1>4. /\ \A a \in Traced : /\ turn'[a] = Tracing!None /\ call'[a] = Tracing!None
                           /\ feed'[a] = <<>> /\ handle'[a] = 0 /\ bytes'[a] = 0
                           /\ header'[a] = FALSE
  BY <1>1
<1>5. TraceType'
  <2>1. <<>> \in Seq(TraceLine)
    OBVIOUS
  <2>2. feed' \in [Traced -> Seq(TraceLine)]
    BY <1>1, <2>1
  <2>3. writers' \in Nat \ {0}
    BY <1>1, <1>3
  <2>4. /\ turn' \in [Traced -> TurnIds \cup {Tracing!None}]
        /\ call' \in [Traced -> CallIds \cup {Tracing!None}]
        /\ header' \in [Traced -> BOOLEAN]
    BY <1>1
  <2>5. QED
    BY <1>1, <1>2, <2>2, <2>3, <2>4 DEF TraceType
<1>6. \A x : x \notin InFeeds'
  <2>1. LinesOf(<<>>) = {}
    BY DEF LinesOf
  <2>2. QED
    BY <1>4, <2>1, InFeedsAre
<1>7. SpansKnown'
  BY <1>1, <1>2, <1>4, <1>6 DEF SpansKnown
<1>8. SpansApart'
  BY <1>4 DEF SpansApart
<1>9. EndsAreOver'
  BY <1>6 DEF EndsAreOver
<1>10. FeedsSettled'
  <2>1. \A I : Settled(<<>>, I)
    BY DEF Settled
  <2>2. ASSUME NEW a \in Traced PROVE Settled(feed'[a], {turn'[a], call'[a]} \cup crashed')
    <3>1. PICK I : I = {turn'[a], call'[a]} \cup crashed'
      OBVIOUS
    <3>2. QED
      BY <1>4, <2>1, <3>1
  <2>3. QED
    BY <2>2 DEF FeedsSettled
<1>11. FilesOK(trace, lost, Unended, used, OpenSpans)'
  <2>1. PICK I, J, o, p : I = Unended /\ J = Unended' /\ o = OpenSpans /\ p = OpenSpans'
    OBVIOUS
  <2>2. ASSUME NEW id \in used, id \in I PROVE id \in J
    <3>1. CASE id \in Tracing!Open \cup crashed
      <4>1. id \in crashed'
        BY <1>1, <3>1 DEF Tracing!Open
      <4>2. QED
        BY <2>1, <4>1 DEF Unended
    <3>2. CASE id \in Excused(InFeeds)
      <4>1. EndOf(id) \in InFeeds
        BY <3>2 DEF Excused
      <4>2. PICK a \in Traced : EndOf(id) \in LinesOf(feed[a])
        BY <4>1, InFeedsAre
      <4>3. PICK i \in DOMAIN feed[a] : feed[a][i] = EndOf(id)
        BY <4>2 DEF LinesOf
      <4>4. EndOf(id).id = id
        BY DEF EndOf, Tracing!Line
      <4>5. id \in {feed[a][k].id : k \in DOMAIN feed[a]}
        BY <4>3, <4>4
      <4>6. id \in crashed'
        BY <1>1, <4>5
      <4>7. QED
        BY <2>1, <4>6 DEF Unended
    <3>3. QED
      BY <2>1, <2>2, <3>1, <3>2 DEF Unended
  <2>3. ASSUME NEW id \in used PROVE id \notin p
    <3>1. id # Tracing!None
      BY <1>3, IdsApart
    <3>2. QED
      BY <1>4, <2>1, <3>1 DEF OpenSpans, Tracing!Open
  <2>4. \A id \in used : (id \in p => id \in o) /\ (id \in I => id \in J)
    BY <2>2, <2>3
  <2>5. FilesOK(trace, lost, I, used, o)
    BY <1>2, <2>1
  <2>6. FilesOK(trace, lost, J, used, p)
    BY <2>4, <2>5, FilesStay
  <2>7. FilesOK(trace, lost, Unended', used, OpenSpans')
    BY <2>1, <2>6
  <2>8. QED
    BY <1>1, <2>7 DEF FilesOK, Away
<1>12. HandlesOK(handle, bytes)' /\ (\A a \in Traced : header[a] <=> handle[a] # 0)'
  <2>1. TraceSize \in Nat /\ Tracing!Removed \in Nat
    BY FileNames
  <2>2. /\ handle' \in [Traced -> 0 .. Tracing!Removed] /\ bytes' \in [Traced -> 0 .. TraceSize]
    BY <1>1, <2>1
  <2>3. QED
    BY <1>4, <2>2 DEF HandlesOK
<1>13. SizeOK(trace, handle, bytes, writers)'
  <2>1. trace \in [Tracing!TraceFiles -> Seq(TraceLine)]
    BY <1>2 DEF FilesOK
  <2>2. SizeOK(trace, handle', bytes', writers + 1)
    BY <1>2, <1>3, <2>1, SizeAnew
  <2>3. QED
    BY <1>1, <2>2 DEF SizeOK, Room
<1>14. QED
  BY <1>5, <1>7, <1>8, <1>9, <1>10, <1>11, <1>12, <1>13 DEF TraceInv

(***************************************************************************)
(* No log, no span: the invariant holds at first.                          *)
(***************************************************************************)
LEMMA TraceStarts == Tracing!TracesAssumption /\ Tracing!Init => TraceInv
<1> SUFFICES ASSUME Tracing!TracesAssumption, Tracing!Init PROVE TraceInv
  OBVIOUS
<1>1. /\ second = 1 /\ spans = 0 /\ writers = 1
      /\ used = {} /\ collided = FALSE /\ crashed = {} /\ lost = {}
      /\ turn = [a \in Traced |-> Tracing!None] /\ call = [a \in Traced |-> Tracing!None]
      /\ feed = [a \in Traced |-> <<>>]
      /\ handle = [a \in Traced |-> 0] /\ bytes = [a \in Traced |-> 0]
      /\ header = [a \in Traced |-> FALSE]
      /\ trace = [f \in Tracing!TraceFiles |-> <<>>]
  BY DEF Tracing!Init
<1>2. <<>> \in Seq(TraceLine) /\ LinesOf(<<>>) = {} /\ \A I : Settled(<<>>, I)
  BY DEF LinesOf, Settled
<1>3. /\ \A a \in Traced : /\ turn[a] = Tracing!None /\ call[a] = Tracing!None /\ feed[a] = <<>>
                           /\ handle[a] = 0 /\ bytes[a] = 0 /\ header[a] = FALSE
      /\ \A f \in Tracing!TraceFiles : trace[f] = <<>>
  BY <1>1
<1>4. TraceType
  <2>1. feed \in [Traced -> Seq(TraceLine)]
    BY <1>1, <1>2
  <2>2. /\ turn \in [Traced -> TurnIds \cup {Tracing!None}]
        /\ call \in [Traced -> CallIds \cup {Tracing!None}] /\ header \in [Traced -> BOOLEAN]
    BY <1>1
  <2>3. /\ second \in Nat /\ spans \in Nat /\ writers \in Nat \ {0}
        /\ used \subseteq SpanIds /\ collided \in BOOLEAN
    <3>1. second = 1 /\ spans = 0 /\ writers = 1
      BY <1>1
    <3>2. used = {} /\ collided = FALSE
      BY <1>1
    <3>3. second \in Nat /\ spans \in Nat /\ writers \in Nat \ {0}
      BY <3>1
    <3>4. used \subseteq SpanIds /\ collided \in BOOLEAN
      BY <3>2
    <3>5. QED
      BY <3>3, <3>4
  <2>4. QED
    BY <2>1, <2>2, <2>3 DEF TraceType
<1>5. \A x : x \notin InFeeds
  BY <1>2, <1>3, InFeedsAre
<1>6. SpansKnown /\ SpansApart /\ EndsAreOver
  BY <1>1, <1>3, <1>5 DEF SpansKnown, SpansApart, EndsAreOver
<1>7. FeedsSettled
  <2>1. ASSUME NEW a \in Traced PROVE Settled(feed[a], {turn[a], call[a]} \cup crashed)
    <3>1. PICK I : I = {turn[a], call[a]} \cup crashed
      OBVIOUS
    <3>2. QED
      BY <1>2, <1>3, <3>1
  <2>2. QED
    BY <2>1 DEF FeedsSettled
<1>8. FilesOK(trace, lost, Unended, used, OpenSpans)
  <2>1. PICK I : I = Unended \cup Excused(Away(trace, lost))
    OBVIOUS
  <2>2. Settled(trace[1], I) /\ LinesOf(trace[1]) = {} /\ trace[Tracing!Removed] = <<>>
    BY <1>2, <1>3, FileNames
  <2>3. trace \in [Tracing!TraceFiles -> Seq(TraceLine)]
    BY <1>1, <1>2
  <2>4. QED
    BY <1>1, <2>1, <2>2, <2>3 DEF FilesOK
<1>9. HandlesOK(handle, bytes)
  <2>1. TraceSize \in Nat /\ Tracing!Removed \in Nat
    BY FileNames
  <2>2. QED
    BY <1>1, <1>3, <2>1 DEF HandlesOK
<1>10. SizeOK(trace, handle, bytes, writers)
  <2>1. ASSUME NEW f \in Tracing!TraceFiles
        PROVE  Len(trace[f]) <= TraceSize * (Cardinality(Traced) * (writers - 1))
                                + Cardinality(Room(handle, bytes, f))
    <3>1. Len(trace[f]) = 0
      BY <1>3
    <3>2. PICK n, c : n = Cardinality(Traced) /\ c = Cardinality(Room(handle, bytes, f))
      OBVIOUS
    <3>3. n \in Nat /\ c \in Nat /\ TraceSize \in Nat
      BY <3>2, RoomFacts, FileNames
    <3>4. writers - 1 = 0 /\ n * 0 = 0 /\ TraceSize * 0 = 0
      BY <1>1, <3>3
    <3>5. TraceSize * (n * (writers - 1)) = 0
      BY <3>4
    <3>6. QED
      BY <3>1, <3>2, <3>3, <3>5
  <2>2. QED
    BY <2>1 DEF SizeOK
<1>11. QED
  BY <1>3, <1>4, <1>6, <1>7, <1>8, <1>9, <1>10 DEF TraceInv

(***************************************************************************)
(* Paired spans and bounded files are what the invariant is for.           *)
(***************************************************************************)
LEMMA TraceInvSound == Tracing!TracesAssumption /\ TraceInv => Tracing!TraceSound
<1> SUFFICES ASSUME Tracing!TracesAssumption, TraceInv PROVE Tracing!TraceSound
  OBVIOUS
<1>1. /\ TraceType /\ FilesOK(trace, lost, Unended, used, OpenSpans)
      /\ SizeOK(trace, handle, bytes, writers)
  BY DEF TraceInv
<1>2. PICK I : I = Unended \cup Excused(Away(trace, lost))
  OBVIOUS
<1>3. /\ trace \in [Tracing!TraceFiles -> Seq(TraceLine)]
      /\ \A x \in LinesOf(trace[1]) : Known(x, used) /\ (x.type = "e" => x.id \notin OpenSpans)
      /\ Settled(trace[1], I)
  BY <1>1, <1>2 DEF FilesOK
<1>4. \A i \in DOMAIN trace[1] : trace[1][i] \in LinesOf(trace[1]) /\ trace[1][i] \in TraceLine
  BY <1>3 DEF LinesOf, Known
<1>5. \A id : Tracing!Line("e", id).type = "e" /\ Tracing!Line("e", id).id = id
  BY DEF Tracing!Line
<1>6. ASSUME ~collided PROVE Tracing!Ended \cap Tracing!Open = {}
  <2>1. OpenSpans = Tracing!Open
    BY <1>6 DEF OpenSpans
  <2>2. ASSUME NEW id \in Tracing!Ended PROVE id \notin Tracing!Open
    <3>1. PICK j \in DOMAIN trace[1] : trace[1][j] = Tracing!Line("e", id)
      BY <2>2 DEF Tracing!Ended, Tracing!Live
    <3>2. QED
      BY <1>3, <1>4, <1>5, <2>1, <3>1
  <2>3. QED
    BY <2>2
<1>7. ASSUME NEW id \in Tracing!Shown \ Tracing!Ended
      PROVE  \/ id \in Tracing!Open \cup crashed
             \/ Tracing!Pending(Tracing!Line("e", id)) \/ Tracing!Elsewhere(Tracing!Line("e", id))
             \/ Tracing!Line("e", id) \in glued
  <2>0. SUFFICES ASSUME Tracing!Line("e", id) \notin glued
                 PROVE  \/ id \in Tracing!Open \cup crashed
                        \/ Tracing!Pending(Tracing!Line("e", id))
                        \/ Tracing!Elsewhere(Tracing!Line("e", id))
    OBVIOUS
  <2>1. PICK i \in DOMAIN trace[1] : trace[1][i].type = "s" /\ trace[1][i].id = id
    BY DEF Tracing!Shown, Tracing!Live
  <2>2. trace[1][i] = Tracing!Line("s", id)
    BY <1>4, <2>1 DEF TraceLine, Tracing!Line
  <2>3. ASSUME NEW j \in DOMAIN trace[1], i < j, trace[1][j] = EndOf(id) PROVE FALSE
    BY <2>0, <2>2, <2>3 DEF Tracing!Ended, Tracing!Live, EndOf
  <2>4. id \in I
    BY <1>3, <2>1, <2>3 DEF Settled
  <2>5. CASE id \in Excused(InFeeds)
    <3>1. EndOf(id) \in InFeeds
      BY <2>5 DEF Excused
    <3>2. PICK a \in Traced : EndOf(id) \in LinesOf(feed[a])
      BY <3>1, InFeedsAre
    <3>3. QED
      BY <3>2 DEF LinesOf, Tracing!Pending, EndOf
  <2>6. CASE id \in Excused(Away(trace, lost))
    <3>1. EndOf(id) \in Away(trace, lost)
      BY <2>6 DEF Excused
    <3>2. CASE EndOf(id) \in lost
      BY <3>2 DEF Tracing!Elsewhere, EndOf
    <3>3. CASE EndOf(id) \notin lost
      <4>1. PICK f \in Tracing!TraceFiles \ {1} : EndOf(id) \in LinesOf(trace[f])
        BY <3>1, <3>3 DEF Away
      <4>2. LinesOf(trace[f]) = Tracing!ToSet(trace[f])
        BY DEF LinesOf, Tracing!ToSet
      <4>3. QED
        BY <4>1, <4>2 DEF Tracing!Elsewhere, EndOf
    <3>4. QED
      BY <3>2, <3>3
  <2>7. QED
    BY <1>2, <2>4, <2>5, <2>6 DEF Unended
<1>8. \A f \in Tracing!TraceFiles :
        Len(trace[f]) <= TraceSize * (Tracing!Cardinality(Traced) * writers)
  <2>1. writers \in Nat \ {0}
    BY <1>1 DEF TraceType
  <2>2. Tracing!Cardinality(Traced) = Cardinality(Traced)
    BY DEF Tracing!Cardinality, Cardinality
  <2>3. QED
    BY <1>1, <1>3, <2>1, <2>2, SizeInAll
<1>9. QED
  BY <1>6, <1>7, <1>8 DEF Tracing!TraceSound

(***************************************************************************)
(* What the reader shows of the live trace is true of the agents, unless   *)
(* two turns shared an id, and no file outgrows the limits of the writers  *)
(* together (src/trace/observer_set.rs, writer.rs, reader.rs).             *)
(***************************************************************************)
THEOREM TraceSoundHolds ==
  ASSUME Tracing!TracesAssumption
  PROVE  Tracing!Spec => []Tracing!TraceSound
<1>1. Tracing!Init => TraceInv
  BY TraceStarts
<1>2. TraceInv /\ [Tracing!Next]_Tracing!traceVars => TraceInv'
  <2> SUFFICES ASSUME TraceInv, [Tracing!Next]_Tracing!traceVars PROVE TraceInv'
    OBVIOUS
  <2>1. second \in Nat
    BY DEF TraceInv, TraceType
  <2>2. CASE UNCHANGED Tracing!traceVars
    BY <2>1, <2>2, SecondStep DEF Tracing!traceVars, Tracing!agentVars, Tracing!writerVars
  <2>3. CASE Tracing!Tick
    BY <2>1, <2>3, SecondStep DEF Tracing!Tick, Tracing!writerVars
  <2>4. CASE Tracing!Crash
    BY <2>4, CrashStep
  <2>5. ASSUME NEW a \in Traced,
               \/ Tracing!StartTurn(a) \/ Tracing!StartCall(a) \/ Tracing!EndCall(a)
               \/ Tracing!EndTurn(a) \/ Tracing!PutHeader(a) \/ Tracing!PutEvent(a)
               \/ Tracing!PutNewline(a) \/ Tracing!NextAgent(a)
        PROVE  TraceInv'
    BY <2>5, StartTurnStep, StartCallStep, EndCallStep, EndTurnStep, HeaderStep, EventStep,
       NewlineStep, NextAgentStep
  <2>6. QED
    BY <2>2, <2>3, <2>4, <2>5 DEF Tracing!Next
<1>3. TraceInv => Tracing!TraceSound
  BY TraceInvSound
<1>4. QED
  BY <1>1, <1>2, <1>3, PTL DEF Tracing!Spec

-----------------------------------------------------------------------------
\* The cron thread (CronJobs): for every length of a minute and range.

MinuteAt(t) == Cron!MinuteOf(t)

CronType ==
  /\ now \in Nat /\ nextId \in Nat /\ session \in BOOLEAN
  /\ setBack \in BOOLEAN /\ twice \in BOOLEAN
  /\ \A j \in jobs :
       /\ j.id \in Nat /\ j.once \in BOOLEAN /\ j.last \in Int
       /\ j.last = Cron!Never \/ j.last \in Nat
       /\ j = [id |-> j.id, when |-> j.when, once |-> j.once, last |-> j.last]

\* An id belongs to one job, and is not given again.
IdsUnique ==
  /\ \A j, k \in jobs : j.id = k.id => j = k
  /\ \A j \in jobs : j.id < nextId
  /\ \A f \in fired : f[1] \in Nat /\ f[1] < nextId

\* What a job remembers is its last firing, and every firing is remembered.
LastRemembered ==
  /\ \A j \in jobs : \A f \in fired :
       f[1] = j.id => j.last \in Nat /\ ~j.once /\ f[2] \in Int /\ f[2] <= MinuteAt(j.last)
  /\ \A j \in jobs : j.last # Cron!Never => <<j.id, MinuteAt(j.last)>> \in fired
  /\ ~setBack => \A j \in jobs : j.last <= now

CronInv == CronType /\ IdsUnique /\ LastRemembered /\ Cron!CronSound

(***************************************************************************)
(* Minutes of times less, and not less, than a minute apart.               *)
(***************************************************************************)
LEMMA MinutesApart ==
  ASSUME Cron!CronAssumption, NEW s \in Nat, NEW t \in Nat
  PROVE  /\ MinuteAt(s) \in Nat /\ MinuteAt(t) \in Nat
         /\ t - s >= Minute => MinuteAt(s) < MinuteAt(t)
         /\ s <= t /\ t - s < Minute => MinuteAt(s) \in {MinuteAt(t), MinuteAt(t) - 1}
<1> DEFINE a == s \div Minute
           b == t \div Minute
<1>0. Minute \in Nat \ {0}
  BY DEF Cron!CronAssumption
<1>1. /\ a \in Nat /\ Minute * a <= s /\ s < Minute * a + Minute
      /\ b \in Nat /\ Minute * b <= t /\ t < Minute * b + Minute
  BY <1>0
<1>2. MinuteAt(s) = a /\ MinuteAt(t) = b
  BY DEF MinuteAt, Cron!MinuteOf
<1> HIDE DEF a, b
<1>3. ASSUME t - s >= Minute PROVE a < b
  <2>1. SUFFICES ASSUME b <= a PROVE FALSE
    BY <1>1
  <2>2. Minute * b <= Minute * a
    BY <1>0, <1>1, <2>1
  <2>3. Minute * a \in Nat /\ Minute * b \in Nat
    BY <1>0, <1>1
  <2>4. QED
    BY <1>0, <1>1, <1>3, <2>2, <2>3
<1>4. ASSUME s <= t, t - s < Minute PROVE a \in {b, b - 1}
  <2>1. CASE b < a
    <3>1. Minute * (b + 1) <= Minute * a /\ Minute * (b + 1) = Minute * b + Minute
      BY <1>0, <1>1, <2>1
    <3>2. Minute * a \in Nat /\ Minute * b \in Nat
      BY <1>0, <1>1
    <3>3. QED
      BY <1>0, <1>1, <1>4, <3>1, <3>2
  <2>2. CASE a < b - 1
    <3>1. Minute * (a + 2) <= Minute * b /\ Minute * (a + 2) = Minute * a + Minute + Minute
      BY <1>0, <1>1, <2>2
    <3>2. Minute * a \in Nat /\ Minute * b \in Nat
      BY <1>0, <1>1
    <3>3. QED
      BY <1>0, <1>1, <1>4, <3>1, <3>2
  <2>3. QED
    BY <1>1, <2>1, <2>2
<1>5. QED
  BY <1>1, <1>2, <1>3, <1>4

(***************************************************************************)
(* A job that is due has not fired in this minute; one that matches and is *)
(* not due has fired in this minute or the one before, unless the clock    *)
(* was set back (src/tool/cron.rs poll_cron_due).                          *)
(***************************************************************************)
LEMMA DueOrFired ==
  ASSUME Cron!CronAssumption, CronInv, NEW j \in jobs
  PROVE  /\ MinuteAt(now) \in Nat
         /\ ~Cron!AlreadyFired(j) =>
              \A f \in fired : f[1] = j.id => f[2] \in Int /\ f[2] < MinuteAt(now)
         /\ Cron!AlreadyFired(j) =>
              \/ <<j.id, MinuteAt(now)>> \in fired
              \/ <<j.id, MinuteAt(now) - 1>> \in fired
              \/ setBack
<1>1. /\ now \in Nat /\ j.last \in Int /\ (j.last = Cron!Never \/ j.last \in Nat)
      /\ MinuteAt(now) \in Nat
  BY MinutesApart DEF CronInv, CronType
<1>2. ASSUME ~Cron!AlreadyFired(j), NEW f \in fired, f[1] = j.id
      PROVE  f[2] \in Int /\ f[2] < MinuteAt(now)
  <2>1. j.last \in Nat /\ f[2] \in Int /\ f[2] <= MinuteAt(j.last)
    BY <1>2 DEF CronInv, LastRemembered
  <2>2. now - j.last >= Minute
    BY <1>1, <1>2, <2>1 DEF Cron!AlreadyFired, Cron!Never, Cron!CronAssumption
  <2>3. MinuteAt(j.last) < MinuteAt(now) /\ MinuteAt(j.last) \in Nat
    BY <1>1, <2>1, <2>2, MinutesApart
  <2>4. QED
    BY <1>1, <2>1, <2>3
<1>3. ASSUME Cron!AlreadyFired(j), ~setBack
      PROVE  \/ <<j.id, MinuteAt(now)>> \in fired
             \/ <<j.id, MinuteAt(now) - 1>> \in fired
  <2>1. j.last \in Nat /\ now - j.last < Minute /\ j.last <= now /\ j.last # Cron!Never
    BY <1>1, <1>3 DEF Cron!AlreadyFired, CronInv, LastRemembered
  <2>2. MinuteAt(j.last) \in {MinuteAt(now), MinuteAt(now) - 1}
    BY <1>1, <2>1, MinutesApart
  <2>3. <<j.id, MinuteAt(j.last)>> \in fired
    BY <2>1 DEF CronInv, LastRemembered
  <2>4. QED
    BY <2>2, <2>3
<1>4. QED
  BY <1>1, <1>2, <1>3

(***************************************************************************)
(* A round of the thread keeps the invariant (src/daemon/mod.rs, the cron  *)
(* thread).                                                                *)
(***************************************************************************)
LEMMA PollStep ==
  ASSUME Cron!CronAssumption, CronInv, Cron!Tick
  PROVE  CronInv'
<1> DEFINE here(j) == <<j.id, MinuteAt(now)>>
           after(j) == [j EXCEPT !.last = now]
<1>1. /\ jobs' = (jobs \ Cron!Due) \cup {after(j) : j \in {k \in Cron!Due : ~k.once}}
      /\ polled' = polled \cup {here(j) : j \in Cron!Matching}
      /\ fired' = fired \cup {here(j) : j \in Cron!Due}
      /\ twice' = (twice \/ \E j \in Cron!Due : here(j) \in fired)
      /\ taken' = IF session THEN taken \cup {j.id : j \in Cron!Due} ELSE taken
      /\ UNCHANGED <<nextId, session, setBack>>
      /\ now' = now + 1 /\ now < MaxTime
  BY DEF Cron!Tick, Cron!Poll, MinuteAt
<1>2. /\ Cron!Matching \subseteq jobs /\ Cron!Due \subseteq Cron!Matching
      /\ \A j \in Cron!Due : ~Cron!AlreadyFired(j)
      /\ \A j \in Cron!Matching : j \in Cron!Due \/ Cron!AlreadyFired(j)
  BY DEF Cron!Matching, Cron!Due
<1>3. /\ now \in Nat /\ MinuteAt(now) \in Nat /\ MaxTime \in Nat /\ now \in 0 .. MaxTime
      /\ twice = FALSE
  BY MinutesApart DEF CronInv, CronType, Cron!CronAssumption, Cron!CronSound
<1>4. \A j \in jobs : /\ j.id \in Nat /\ j.once \in BOOLEAN /\ j.last \in Int
                      /\ j.last = Cron!Never \/ j.last \in Nat
                      /\ j = [id |-> j.id, when |-> j.when, once |-> j.once, last |-> j.last]
  BY DEF CronInv, CronType
<1>5. \A j \in jobs : after(j) = [id |-> j.id, when |-> j.when, once |-> j.once, last |-> now]
  <2> TAKE j \in jobs
  <2>1. j = [id |-> j.id, when |-> j.when, once |-> j.once, last |-> j.last]
    BY <1>4
  <2>2. QED
    BY <2>1
<1>6. \A j \in jobs : /\ after(j).id = j.id /\ after(j).when = j.when
                      /\ after(j).once = j.once /\ after(j).last = now
  BY <1>5
<1> HIDE DEF after
\* A job after the round stems from one before it, that has not fired now or
\* whose last firing is now.
<1>7. \A k \in jobs' : \E j \in jobs :
        /\ k.id = j.id /\ k.when = j.when /\ k.once = j.once
        /\ k = [id |-> k.id, when |-> k.when, once |-> k.once, last |-> k.last]
        /\ \/ k = j /\ j \notin Cron!Due
           \/ k = after(j) /\ j \in Cron!Due /\ ~j.once /\ k.last = now
  <2> TAKE k \in jobs'
  <2>1. CASE k \in jobs \ Cron!Due
    BY <1>4, <2>1
  <2>2. CASE \E j \in Cron!Due : ~j.once /\ k = after(j)
    <3>1. PICK j \in Cron!Due : ~j.once /\ k = after(j)
      BY <2>2
    <3>2. j \in jobs
      BY <1>2
    <3>3. /\ k = [id |-> j.id, when |-> j.when, once |-> j.once, last |-> now]
          /\ k.id = j.id /\ k.when = j.when /\ k.once = j.once /\ k.last = now
      BY <1>5, <1>6, <3>1, <3>2
    <3>4. QED
      BY <3>1, <3>2, <3>3
  <2>3. QED
    BY <1>1, <2>1, <2>2
<1>8. \A j \in jobs : \A f \in fired : f[1] = j.id /\ j \in Cron!Due =>
        f[2] \in Int /\ f[2] < MinuteAt(now)
  BY <1>2, DueOrFired
<1>9. CronType'
  <2>1. \A k \in jobs' : /\ k.id \in Nat /\ k.once \in BOOLEAN /\ k.last \in Int
                         /\ k.last = Cron!Never \/ k.last \in Nat
                         /\ k = [id |-> k.id, when |-> k.when, once |-> k.once, last |-> k.last]
    <3> TAKE k \in jobs'
    <3>1. PICK j \in jobs :
            /\ k.id = j.id /\ k.when = j.when /\ k.once = j.once
            /\ k = [id |-> k.id, when |-> k.when, once |-> k.once, last |-> k.last]
            /\ k = j \/ k.last = now
      BY <1>7
    <3>2. QED
      BY <1>3, <1>4, <3>1
  <2>2. twice' \in BOOLEAN
    BY <1>1
  <2>3. QED
    BY <1>1, <1>3, <2>1, <2>2 DEF CronInv, CronType
<1>10. IdsUnique'
  <2>1. \A j, k \in jobs : j.id = k.id => j = k
    BY DEF CronInv, IdsUnique
  <2>2. ASSUME NEW k \in jobs', NEW l \in jobs', k.id = l.id PROVE k = l
    <3>1. PICK j \in jobs :
            /\ k.id = j.id
            /\ \/ k = j /\ j \notin Cron!Due
               \/ k = after(j) /\ j \in Cron!Due
      BY <1>7
    <3>2. PICK i \in jobs :
            /\ l.id = i.id
            /\ \/ l = i /\ i \notin Cron!Due
               \/ l = after(i) /\ i \in Cron!Due
      BY <1>7
    <3>3. i = j
      BY <2>1, <2>2, <3>1, <3>2
    <3>4. QED
      BY <3>1, <3>2, <3>3
  <2>3. \A k \in jobs' : k.id < nextId
    BY <1>7 DEF CronInv, IdsUnique
  <2>4. \A f \in fired' : f[1] \in Nat /\ f[1] < nextId
    BY <1>1, <1>2, <1>4 DEF CronInv, IdsUnique
  <2>5. QED
    BY <1>1, <2>2, <2>3, <2>4 DEF IdsUnique
<1>11. ASSUME NEW k \in jobs', NEW f \in fired', f[1] = k.id
       PROVE  k.last \in Nat /\ ~k.once /\ f[2] \in Int /\ f[2] <= MinuteAt(k.last)
  <2>1. PICK j \in jobs :
          /\ k.id = j.id /\ k.once = j.once
          /\ \/ k = j /\ j \notin Cron!Due
             \/ j \in Cron!Due /\ ~j.once /\ k.last = now
    BY <1>7
  <2>2. CASE f \in fired
    <3>1. j.last \in Nat /\ ~j.once /\ f[2] \in Int /\ f[2] <= MinuteAt(j.last)
      BY <1>11, <2>1, <2>2 DEF CronInv, LastRemembered
    <3>2. CASE k = j
      BY <3>1, <3>2
    <3>3. CASE j \in Cron!Due /\ ~j.once /\ k.last = now
      BY <1>3, <1>8, <1>11, <2>1, <2>2, <3>3
    <3>4. QED
      BY <2>1, <3>2, <3>3
  <2>3. CASE f \notin fired
    <3>1. PICK i \in Cron!Due : f = here(i)
      BY <1>1, <2>3
    <3>2. i \in jobs /\ i.id = j.id
      BY <1>2, <1>11, <2>1, <3>1
    <3>3. i = j
      BY <3>2 DEF CronInv, IdsUnique
    <3>4. QED
      BY <1>3, <2>1, <3>1, <3>3
  <2>4. QED
    BY <2>2, <2>3
<1>12. LastRemembered'
  <2>1. \A k \in jobs' : k.last # Cron!Never => <<k.id, MinuteAt(k.last)>> \in fired'
    <3> TAKE k \in jobs'
    <3>1. PICK j \in jobs :
            /\ k.id = j.id
            /\ \/ k = j /\ j \notin Cron!Due
               \/ j \in Cron!Due /\ k.last = now
      BY <1>7
    <3>2. j.last # Cron!Never => <<j.id, MinuteAt(j.last)>> \in fired
      BY DEF CronInv, LastRemembered
    <3>3. QED
      BY <1>1, <3>1, <3>2
  <2>2. ~setBack => \A k \in jobs' : k.last <= now'
    <3>1. ~setBack => \A j \in jobs : j.last <= now
      BY DEF CronInv, LastRemembered
    <3>2. ASSUME ~setBack, NEW k \in jobs' PROVE k.last <= now'
      <4>1. PICK j \in jobs : k = j \/ k.last = now
        BY <1>7
      <4>2. QED
        BY <1>1, <1>3, <1>4, <3>1, <3>2, <4>1
    <3>3. QED
      BY <3>2
  <2>3. QED
    BY <1>1, <1>11, <2>1, <2>2 DEF LastRemembered, MinuteAt, Cron!MinuteOf
<1>13. Cron!CronSound'
  <2>1. now' \in 0 .. MaxTime /\ nextId' \in 1 .. MaxJobs + 1
    BY <1>1, <1>3 DEF CronInv, Cron!CronSound
  <2>2. \A k \in jobs' : k.id < nextId' /\ k.when \in Cron!Parts /\ Cron!ValidField(k.when)
    BY <1>1, <1>7 DEF CronInv, Cron!CronSound
  <2>3. ~twice'
    <3>1. ASSUME NEW j \in Cron!Due, here(j) \in fired PROVE FALSE
      BY <1>2, <1>3, <1>8, <3>1
    <3>2. QED
      BY <1>1, <1>3, <3>1
  <2>4. \A k \in jobs' : k.once => \A f \in fired' : f[1] # k.id
    BY <1>11
  <2>5. \A p \in polled' : p \in fired' \/ <<p[1], p[2] - 1>> \in fired' \/ setBack'
    <3> TAKE p \in polled'
    <3>1. CASE p \in polled
      BY <1>1, <3>1 DEF CronInv, Cron!CronSound
    <3>2. CASE p \notin polled
      <4>1. PICK j \in Cron!Matching : p = here(j)
        BY <1>1, <3>2
      <4>2. CASE j \in Cron!Due
        BY <1>1, <4>1, <4>2
      <4>3. CASE j \notin Cron!Due
        <5>1. j \in jobs /\ Cron!AlreadyFired(j)
          BY <1>2, <4>1, <4>3
        <5>2. \/ <<j.id, MinuteAt(now)>> \in fired
              \/ <<j.id, MinuteAt(now) - 1>> \in fired
              \/ setBack
          BY <5>1, DueOrFired
        <5>3. QED
          BY <1>1, <4>1, <5>2
      <4>4. QED
        BY <4>2, <4>3
    <3>3. QED
      BY <3>1, <3>2
  <2>6. taken' \subseteq {f[1] : f \in fired'}
    <3>1. taken \subseteq {f[1] : f \in fired}
      BY DEF CronInv, Cron!CronSound
    <3>2. \A j \in Cron!Due : here(j) \in fired' /\ here(j)[1] = j.id
      BY <1>1
    <3>3. QED
      BY <1>1, <3>1, <3>2
  <2>7. QED
    BY <2>1, <2>2, <2>3, <2>4, <2>5, <2>6 DEF Cron!CronSound
<1>14. QED
  BY <1>9, <1>10, <1>12, <1>13 DEF CronInv

(***************************************************************************)
(* A job that is made or deleted, a late round, a clock set back and a     *)
(* session that comes or goes keep the invariant (src/tool/cron.rs).       *)
(***************************************************************************)
LEMMA CronStep ==
  ASSUME Cron!CronAssumption, CronInv, [Cron!Next]_(Cron!cronVars)
  PROVE  CronInv'
<1>1. CASE Cron!CronCreate
  <2>1. PICK p \in Cron!Texts, once0 \in BOOLEAN :
          /\ Cron!ValidField(p)
          /\ jobs' = jobs \cup {[id |-> nextId, when |-> p, once |-> once0, last |-> Cron!Never]}
    BY <1>1 DEF Cron!CronCreate
  <2> DEFINE new == [id |-> nextId, when |-> p, once |-> once0, last |-> Cron!Never]
  <2>2. /\ new.id = nextId /\ new.when = p /\ new.once = once0 /\ new.last = Cron!Never
        /\ new = [id |-> new.id, when |-> new.when, once |-> new.once, last |-> new.last]
        /\ jobs' = jobs \cup {new} /\ Cron!Never = -1
    BY <2>1 DEF Cron!Never
  <2> HIDE DEF new
  <2>3. /\ nextId <= MaxJobs /\ nextId' = nextId + 1
        /\ UNCHANGED <<now, session, fired, twice, polled, setBack, taken>>
    BY <1>1 DEF Cron!CronCreate
  <2>4. nextId \in Nat /\ nextId \in 1 .. MaxJobs + 1 /\ MaxJobs \in Nat /\ now \in Nat
    BY DEF CronInv, CronType, Cron!CronSound, Cron!CronAssumption
  <2>5. p \in Cron!Parts
    <3> DEFINE part(s, r, a, b) ==
                 {[star |-> s, range |-> r, a |-> a, b |-> b, step |-> n] : n \in {0, 2}}
    <3>1. Lo \in Nat /\ Lo + 1 \in Nat /\ Hi + 1 \in Nat /\ {0, 2} \subseteq Nat /\ 0 \in Nat
      BY DEF Cron!CronAssumption
    <3>2. \A s, r \in BOOLEAN : \A a, b \in Nat : part(s, r, a, b) \subseteq Cron!Parts
      BY <3>1 DEF Cron!Parts
    <3>3. Cron!Texts = part(TRUE, FALSE, 0, 0) \cup part(FALSE, FALSE, Lo + 1, Lo + 1)
                       \cup part(FALSE, TRUE, Lo, Lo + 1) \cup part(FALSE, TRUE, Lo, Hi + 1)
      BY DEF Cron!Texts
    <3> HIDE DEF part
    <3>4. QED
      BY <3>1, <3>2, <3>3
  <2>6. CronType'
    BY <2>2, <2>3, <2>4 DEF CronInv, CronType
  <2>7. \A f \in fired : f[1] # nextId
    BY <2>4 DEF CronInv, IdsUnique
  <2>8. IdsUnique'
    <3>1. \A j \in jobs : j.id \in Nat /\ j.id < nextId
      BY DEF CronInv, CronType, IdsUnique
    <3>2. \A f \in fired : f[1] \in Nat /\ f[1] < nextId + 1
      BY <2>4 DEF CronInv, IdsUnique
    <3>3. QED
      BY <2>2, <2>3, <2>4, <3>1, <3>2 DEF CronInv, IdsUnique
  <2>9. LastRemembered'
    BY <2>2, <2>3, <2>4, <2>7 DEF CronInv, LastRemembered, MinuteAt, Cron!MinuteOf
  <2>10. Cron!CronSound'
    <3>1. \A j \in jobs' : j.id < nextId' /\ j.when \in Cron!Parts /\ Cron!ValidField(j.when)
      BY <2>1, <2>2, <2>5, <2>8 DEF CronInv, IdsUnique, Cron!CronSound
    <3>2. QED
      BY <2>2, <2>3, <2>4, <2>7, <3>1 DEF CronInv, Cron!CronSound
  <2>11. QED
    BY <2>6, <2>8, <2>9, <2>10 DEF CronInv
<1>2. CASE Cron!CronDelete \/ Cron!SessionChanges \/ UNCHANGED Cron!cronVars
  <2>1. /\ jobs' \subseteq jobs /\ session' \in BOOLEAN
        /\ UNCHANGED <<now, nextId, fired, twice, polled, setBack, taken>>
    BY <1>2 DEF Cron!CronDelete, Cron!SessionChanges, Cron!cronVars, CronInv, CronType
  <2>2. QED
    BY <2>1
       DEF CronInv, CronType, IdsUnique, LastRemembered, Cron!CronSound, MinuteAt, Cron!MinuteOf
<1>3. CASE Cron!Late \/ Cron!ClockSetBack
  <2>0. now \in 0 .. MaxTime /\ MaxTime \in Nat /\ setBack \in BOOLEAN
    BY DEF CronInv, CronType, Cron!CronSound, Cron!CronAssumption
  <2>1. /\ now' \in 0 .. MaxTime /\ setBack' \in BOOLEAN
        /\ setBack => setBack'
        /\ ~setBack' => now' = now + 1
        /\ UNCHANGED <<jobs, nextId, session, fired, twice, polled, taken>>
    <3>1. CASE Cron!Late
      BY <2>0, <3>1 DEF Cron!Late
    <3>2. CASE Cron!ClockSetBack
      <4>1. now' \in 0 .. MaxTime /\ setBack' = TRUE
        BY <2>0, <3>2 DEF Cron!ClockSetBack
      <4>2. QED
        BY <3>2, <4>1 DEF Cron!ClockSetBack
    <3>3. QED
      BY <1>3, <3>1, <3>2
  <2>2. /\ now' \in Nat /\ now \in Nat /\ \A j \in jobs : j.last \in Int
    BY <2>1 DEF CronInv, CronType, Cron!CronAssumption
  <2>3. CronType'
    BY <2>1, <2>2 DEF CronInv, CronType
  <2>4. IdsUnique'
    BY <2>1 DEF CronInv, IdsUnique
  <2>5. LastRemembered'
    <3>1. ~setBack' => \A j \in jobs : j.last <= now'
      BY <2>1, <2>2 DEF CronInv, LastRemembered
    <3>2. QED
      BY <2>1, <3>1 DEF CronInv, LastRemembered, MinuteAt, Cron!MinuteOf
  <2>6. Cron!CronSound'
    BY <2>1 DEF CronInv, Cron!CronSound
  <2>7. QED
    BY <2>3, <2>4, <2>5, <2>6 DEF CronInv
<1>4. QED
  BY <1>1, <1>2, <1>3, PollStep DEF Cron!Next

(***************************************************************************)
(* Over every run of the cron thread: CronSound (src/tool/cron.rs,         *)
(* src/daemon/mod.rs).                                                     *)
(***************************************************************************)
THEOREM CronSoundHolds ==
  ASSUME Cron!CronAssumption
  PROVE  Cron!Spec => []Cron!CronSound
<1>1. Cron!Init => CronInv
  <2> SUFFICES ASSUME Cron!Init PROVE CronInv
    OBVIOUS
  <2>1. now \in 0 .. MaxTime /\ nextId \in 1 .. MaxJobs + 1
    BY DEF Cron!Init, Cron!CronAssumption
  <2>2. CronType /\ IdsUnique /\ LastRemembered
    BY DEF Cron!Init, CronType, IdsUnique, LastRemembered
  <2>3. QED
    BY <2>1, <2>2 DEF CronInv, Cron!Init, Cron!CronSound
<1>2. CronInv /\ [Cron!Next]_(Cron!cronVars) => CronInv'
  BY CronStep
<1>3. CronInv => Cron!CronSound
  BY DEF CronInv
<1>4. QED
  BY <1>1, <1>2, <1>3, PTL DEF Cron!Spec

-----------------------------------------------------------------------------
\* Long-lived services (Services): for any capabilities and any budget.

CrashRecord == [gaveUp : BOOLEAN, crashes : Nat, version : Nat]
Starters == {"table", "codecoder", "ondemand", "supervisor", "stray"}

ServiceType ==
  /\ manifest \in [Caps -> [life : {"persistent", "on_demand"}, env : {"shell", "docker"},
                            version : Nat, written : Nat]]
  /\ live \subseteq Caps \X Starters
  /\ table \in [Caps -> {"none", "process", "container", "warm"}]
  /\ serviceChild \in [Caps -> {"none", "started", "failed"}]
  /\ entry \in [Caps -> CrashRecord] /\ saved \in [Caps -> CrashRecord]
  /\ noticed \in [Caps -> [version : Nat, crashes : Nat]]
  /\ {daemonUp, unclean, unsaved, uncounted} \subseteq BOOLEAN

\* A record of c, in memory or on disk, forgets crashes but invents none.
Truthful(e, c) ==
  /\ e.version <= noticed[c].version
  /\ e.version = noticed[c].version => e.crashes <= noticed[c].crashes
  /\ Budget > 0 => e.crashes <= Budget
Matches(e, c) == e.version = noticed[c].version /\ e.crashes = noticed[c].crashes

\* What holds of one capability's records and of its supervision, and of one
\* running instance.
Recorded(c) ==
  /\ noticed[c].version <= manifest[c].version
  /\ Truthful(entry[c], c) /\ Truthful(saved[c], c)
  /\ ~uncounted => Matches(entry[c], c)
Tended(c) ==
  /\ serviceChild[c] # "none" /\ Service!ShouldSkip(entry[c]) => serviceChild[c] = "failed"
  /\ serviceChild[c] = "failed" => <<c, "supervisor">> \notin live
InstanceKnown(i) ==
  \/ \E c \in Caps : i = <<c, Service!HandleOf(table[c])>>
  \/ i \in forgotten
  \/ i[2] = "supervisor" /\ serviceChild[i[1]] = "started"
  \/ unclean /\ i[2] \in {"stray", "codecoder", "ondemand"}

ServiceInv ==
  /\ ServiceType
  /\ ~daemonUp => ~unsaved /\ \A c \in Caps : serviceChild[c] = "none"
  /\ ~unsaved => saved = entry
  /\ \A c \in Caps : Recorded(c) /\ Tended(c)
  /\ \A i \in live : InstanceKnown(i)

(***************************************************************************)
(* A handle never stands for the supervisor's instance, and a free slot of *)
(* the table for none at all.                                              *)
(***************************************************************************)
LEMMA HandleKinds ==
  /\ \A kind \in {"process", "container", "warm"} :
       Service!HandleOf(kind) \in {"table", "codecoder", "ondemand"}
  /\ Service!HandleOf("none") = "nobody"
  BY DEF Service!HandleOf

(***************************************************************************)
(* A crash within the budget leaves the record within it                   *)
(* (src/supervisor_state.rs record_crash).                                 *)
(***************************************************************************)
LEMMA CrashCounted ==
  ASSUME Service!ServicesAssumption, NEW e \in CrashRecord, ~Service!ShouldSkip(e)
  PROVE  /\ Service!RecordCrash(e) \in CrashRecord
         /\ Service!RecordCrash(e).crashes = e.crashes + 1
         /\ Service!RecordCrash(e).version = e.version
         /\ Budget > 0 => Service!RecordCrash(e).crashes <= Budget
<1>0. Budget \in Nat /\ e.crashes \in Nat /\ e.gaveUp \in BOOLEAN
  BY DEF Service!ServicesAssumption, CrashRecord
<1>1. /\ Service!RecordCrash(e) \in CrashRecord
      /\ Service!RecordCrash(e).crashes = e.crashes + 1
      /\ Service!RecordCrash(e).version = e.version
  <2> DEFINE past == e.gaveUp \/ (Budget > 0 /\ e.crashes + 1 >= Budget)
  <2>1. /\ e = [gaveUp |-> e.gaveUp, crashes |-> e.crashes, version |-> e.version]
        /\ e.version \in Nat /\ e.crashes + 1 \in Nat
    BY <1>0 DEF CrashRecord
  <2>2. past \in BOOLEAN
    OBVIOUS
  <2>3. Service!RecordCrash(e) = [[e EXCEPT !.crashes = e.crashes + 1] EXCEPT !.gaveUp = past]
    BY DEF Service!RecordCrash
  <2> HIDE DEF past
  <2>4. Service!RecordCrash(e) = [gaveUp |-> past, crashes |-> e.crashes + 1, version |-> e.version]
    BY <2>1, <2>3
  <2>5. QED
    BY <2>1, <2>2, <2>4 DEF CrashRecord
<1>2. Budget > 0 => e.crashes < Budget
  BY <1>0 DEF Service!ShouldSkip
<1>3. QED
  BY <1>0, <1>1, <1>2

(***************************************************************************)
(* A save leaves on disk what memory has or what was there before          *)
(* (src/supervisor_state.rs save).                                         *)
(***************************************************************************)
LEMMA SaveKeeps ==
  ASSUME Service!Save
  PROVE  /\ unsaved' \in BOOLEAN /\ (~unsaved' => saved' = entry')
         /\ saved' = saved \/ saved' = entry'
  BY DEF Service!Save

(***************************************************************************)
(* The daemon's supervisor starts its services (src/capability.rs          *)
(* start_all).                                                             *)
(***************************************************************************)
LEMMA StartAllStep ==
  ASSUME Service!ServicesAssumption, ServiceInv, Service!StartAll
  PROVE  ServiceInv'
<1>1. /\ ServiceType /\ ~daemonUp /\ ~unsaved /\ saved = entry
      /\ \A c \in Caps : Recorded(c)
  BY DEF ServiceInv, Service!StartAll
<1>2. PICK begun \in SUBSET {c \in Caps : Service!Supervisable(c) /\ ~Service!ShouldSkip(entry'[c])} :
        /\ serviceChild' = [c \in Caps |-> IF c \in begun THEN "started" ELSE "none"]
        /\ live' = live \cup {<<c, "supervisor">> : c \in begun}
  BY DEF Service!StartAll
<1>3. /\ daemonUp' = TRUE
      /\ entry' = [c \in Caps |-> IF Service!Supervisable(c) THEN Service!Refreshed(c) ELSE saved[c]]
      /\ noticed' = [c \in Caps |->
           IF Service!Supervisable(c) /\ noticed[c].version # manifest[c].version
           THEN [version |-> manifest[c].version, crashes |-> 0] ELSE noticed[c]]
      /\ UNCHANGED <<manifest, table, uncounted, forgotten, unclean>>
  BY DEF Service!StartAll
<1>4. /\ unsaved' \in BOOLEAN /\ (~unsaved' => saved' = entry')
      /\ saved' = saved \/ saved' = entry'
  BY SaveKeeps DEF Service!StartAll
\* One capability: its record is refreshed, or is the one the file had.
<1>5. \A c \in Caps :
        /\ entry'[c] \in CrashRecord /\ noticed'[c] \in [version : Nat, crashes : Nat]
        /\ noticed'[c].version <= manifest[c].version
        /\ Truthful(entry[c], c)' /\ Truthful(saved[c], c)'
        /\ ~uncounted => Matches(entry[c], c)'
  <2> TAKE c \in Caps
  <2> DEFINE fresh == [gaveUp |-> FALSE, crashes |-> 0, version |-> manifest[c].version]
             reset == [version |-> manifest[c].version, crashes |-> 0]
  <2>1. /\ saved[c] \in CrashRecord /\ manifest[c].version \in Nat /\ Budget \in Nat
        /\ noticed[c] \in [version : Nat, crashes : Nat]
        /\ noticed[c].version <= manifest[c].version
        /\ Truthful(saved[c], c) /\ (~uncounted => Matches(saved[c], c))
    BY <1>1 DEF ServiceType, Recorded, Service!ServicesAssumption
  <2>2. entry'[c] = IF Service!Supervisable(c) /\ saved[c].version # manifest[c].version
                    THEN fresh ELSE saved[c]
    <3> HIDE DEF fresh
    <3>1. \A e \in CrashRecord, v \in Nat :
            [e EXCEPT !.version = v] = [gaveUp |-> e.gaveUp, crashes |-> e.crashes, version |-> v]
      BY DEF CrashRecord
    <3>2. entry'[c] = IF Service!Supervisable(c) THEN Service!Refreshed(c) ELSE saved[c]
      BY <1>3
    <3>3. Service!Refreshed(c) = IF saved[c].version # manifest[c].version THEN fresh ELSE saved[c]
      <4>1. /\ Service!NoEntry \in CrashRecord /\ Service!NoEntry.gaveUp = FALSE
            /\ Service!NoEntry.crashes = 0
        BY DEF Service!NoEntry, CrashRecord
      <4>2. [Service!NoEntry EXCEPT !.version = manifest[c].version] = fresh
        BY <2>1, <3>1, <4>1 DEF fresh
      <4>3. QED
        BY <4>2 DEF Service!Refreshed
    <3>4. QED
      BY <3>2, <3>3
  <2>3. noticed'[c] = IF Service!Supervisable(c) /\ noticed[c].version # manifest[c].version
                      THEN reset ELSE noticed[c]
    BY <1>3
  <2>4. /\ fresh \in CrashRecord /\ fresh.version = manifest[c].version /\ fresh.crashes = 0
        /\ reset \in [version : Nat, crashes : Nat]
        /\ reset.version = manifest[c].version /\ reset.crashes = 0
    BY <2>1 DEF CrashRecord
  <2>5. /\ saved[c].version \in Nat /\ saved[c].crashes \in Nat
        /\ noticed[c].version \in Nat /\ noticed[c].crashes \in Nat
    BY <2>1 DEF CrashRecord
  <2>6. saved'[c] = saved[c] \/ saved'[c] = entry'[c]
    BY <1>4
  <2> HIDE DEF fresh, reset
  <2>7. entry'[c] \in CrashRecord /\ noticed'[c] \in [version : Nat, crashes : Nat]
    BY <2>1, <2>2, <2>3, <2>4
  <2>8. noticed'[c].version <= manifest[c].version
    BY <2>1, <2>3, <2>4
  <2>9. Truthful(entry[c], c)'
    BY <2>1, <2>2, <2>3, <2>4, <2>5 DEF Truthful
  <2>10. Truthful(saved[c], c)'
    <3>1. CASE saved'[c] = saved[c]
      BY <2>1, <2>3, <2>4, <2>5, <3>1 DEF Truthful
    <3>2. QED
      BY <2>6, <2>9, <3>1 DEF Truthful
  <2>11. ~uncounted => Matches(entry[c], c)'
    BY <2>1, <2>2, <2>3, <2>4, <2>5 DEF Matches
  <2>12. QED
    BY <2>7, <2>8, <2>9, <2>10, <2>11
<1>6. ServiceType'
  <2>1. entry' \in [Caps -> CrashRecord] /\ noticed' \in [Caps -> [version : Nat, crashes : Nat]]
    BY <1>3, <1>5
  <2>2. /\ serviceChild' \in [Caps -> {"none", "started", "failed"}]
        /\ live' \subseteq Caps \X Starters
    BY <1>1, <1>2 DEF ServiceType, Starters
  <2>3. saved' \in [Caps -> CrashRecord]
    BY <1>1, <1>4, <2>1 DEF ServiceType
  <2>4. QED
    BY <1>1, <1>3, <1>4, <2>1, <2>2, <2>3 DEF ServiceType
<1>7. \A c \in Caps : Recorded(c)'
  BY <1>3, <1>5 DEF Recorded, Matches
<1>8. \A c \in Caps : Tended(c)'
  BY <1>2 DEF Tended, Service!ShouldSkip
<1>9. \A i \in live' : InstanceKnown(i)'
  <2> TAKE i \in live'
  <2>1. CASE i \in live
    <3>1. InstanceKnown(i) /\ i[1] \in Caps /\ serviceChild[i[1]] = "none"
      BY <1>1, <2>1 DEF ServiceInv, ServiceType
    <3>2. QED
      BY <1>3, <3>1 DEF InstanceKnown
  <2>2. CASE i \notin live
    <3>1. PICK c \in begun : i = <<c, "supervisor">>
      BY <1>2, <2>2
    <3>2. serviceChild'[c] = "started"
      BY <1>2, <3>1
    <3>3. QED
      BY <3>1, <3>2 DEF InstanceKnown
  <2>3. QED
    BY <2>1, <2>2
<1>10. QED
  BY <1>3, <1>4, <1>6, <1>7, <1>8, <1>9 DEF ServiceInv

(***************************************************************************)
(* The supervisor notices a crash (src/capability.rs supervise).           *)
(***************************************************************************)
LEMMA SuperviseStep ==
  ASSUME Service!ServicesAssumption, ServiceInv, NEW c \in Caps, Service!Supervise(c)
  PROVE  ServiceInv'
<1>1. /\ daemonUp /\ serviceChild[c] = "started" /\ <<c, "supervisor">> \notin live
      /\ serviceChild' = [serviceChild EXCEPT ![c] = "failed"]
      /\ entry' = [entry EXCEPT ![c] = Service!RecordCrash(entry[c])]
      /\ noticed' = [noticed EXCEPT ![c].crashes = noticed[c].crashes + 1]
      /\ UNCHANGED <<manifest, live, table, daemonUp, uncounted, forgotten, unclean>>
  BY DEF Service!Supervise, Service!Failed
<1>2. /\ unsaved' \in BOOLEAN /\ (~unsaved' => saved' = entry')
      /\ saved' = saved \/ saved' = entry'
  BY SaveKeeps DEF Service!Supervise
<1>3. ServiceType /\ Budget \in Nat /\ Recorded(c) /\ entry[c] \in CrashRecord
  BY DEF ServiceInv, ServiceType, Service!ServicesAssumption
<1>4. ~Service!ShouldSkip(entry[c])
  BY <1>1 DEF ServiceInv, Tended
<1>5. /\ Service!RecordCrash(entry[c]) \in CrashRecord
      /\ Service!RecordCrash(entry[c]).crashes = entry[c].crashes + 1
      /\ Service!RecordCrash(entry[c]).version = entry[c].version
      /\ Budget > 0 => Service!RecordCrash(entry[c]).crashes <= Budget
  BY <1>3, <1>4, CrashCounted
<1>6. /\ noticed' \in [Caps -> [version : Nat, crashes : Nat]]
      /\ noticed'[c].version = noticed[c].version
      /\ noticed'[c].crashes = noticed[c].crashes + 1
      /\ \A d \in Caps : d # c => noticed'[d] = noticed[d]
  <2>1. /\ noticed \in [Caps -> [version : Nat, crashes : Nat]]
        /\ noticed[c] \in [version : Nat, crashes : Nat]
    BY <1>3 DEF ServiceType
  <2>2. noticed[c].crashes + 1 \in Nat
    BY <2>1
  <2>3. QED
    BY <1>1, <2>1, <2>2
<1>7. ServiceType'
  <2>1. entry' \in [Caps -> CrashRecord]
    BY <1>1, <1>3, <1>5 DEF ServiceType
  <2>2. saved' \in [Caps -> CrashRecord]
    BY <1>2, <1>3, <2>1 DEF ServiceType
  <2>3. serviceChild' \in [Caps -> {"none", "started", "failed"}]
    BY <1>1, <1>3 DEF ServiceType
  <2>4. QED
    BY <1>1, <1>2, <1>3, <1>6, <2>1, <2>2, <2>3 DEF ServiceType
<1>8. \A d \in Caps : Recorded(d)'
  <2> TAKE d \in Caps
  <2>1. Recorded(d) /\ entry[d] \in CrashRecord /\ saved[d] \in CrashRecord
    BY <1>3 DEF ServiceInv, ServiceType
  <2>2. saved'[d] = saved[d] \/ saved'[d] = entry'[d]
    BY <1>2
  <2>3. CASE d # c
    <3>1. entry'[d] = entry[d] /\ noticed'[d] = noticed[d] /\ manifest' = manifest
      BY <1>1, <1>3, <1>6, <2>3 DEF ServiceType
    <3>2. QED
      BY <1>1, <2>1, <2>2, <3>1 DEF Recorded, Truthful, Matches
  <2>4. CASE d = c
    <3>1. entry'[c] = Service!RecordCrash(entry[c])
      BY <1>1, <1>3 DEF ServiceType
    <3>2. /\ entry[c].crashes \in Nat /\ entry[c].version \in Nat
          /\ saved[c].crashes \in Nat /\ saved[c].version \in Nat
          /\ noticed[c].version \in Nat /\ noticed[c].crashes \in Nat
      BY <1>3, <2>1, <2>4 DEF CrashRecord, ServiceType
    <3>3. /\ entry'[c].crashes = entry[c].crashes + 1 /\ entry'[c].version = entry[c].version
          /\ Budget > 0 => entry'[c].crashes <= Budget
      BY <1>5, <3>1
    <3>4. Truthful(entry[c], c)' /\ (~uncounted => Matches(entry[c], c)')
      BY <1>3, <1>6, <3>2, <3>3 DEF Recorded, Truthful, Matches
    <3>5. Truthful(saved[c], c)'
      <4>1. CASE saved'[c] = saved[c]
        BY <1>3, <1>6, <3>2, <4>1 DEF Recorded, Truthful
      <4>2. QED
        BY <2>2, <2>4, <3>4, <4>1 DEF Truthful
    <3>6. noticed'[c].version <= manifest'[c].version
      BY <1>1, <1>3, <1>6 DEF Recorded
    <3>7. QED
      BY <1>1, <2>4, <3>4, <3>5, <3>6 DEF Recorded, Matches
  <2>5. QED
    BY <2>3, <2>4
<1>9. \A d \in Caps : Tended(d)'
  <2> TAKE d \in Caps
  <2>1. CASE d = c
    <3>1. serviceChild'[d] = "failed"
      BY <1>1, <1>3, <2>1 DEF ServiceType
    <3>2. QED
      BY <1>1, <2>1, <3>1 DEF Tended
  <2>2. CASE d # c
    <3>1. entry'[d] = entry[d] /\ serviceChild'[d] = serviceChild[d]
      BY <1>1, <1>3, <2>2 DEF ServiceType
    <3>2. Tended(d)
      BY DEF ServiceInv
    <3>3. QED
      BY <1>1, <3>1, <3>2 DEF Tended, Service!ShouldSkip
  <2>3. QED
    BY <2>1, <2>2
<1>10. \A i \in live : InstanceKnown(i)'
  <2> TAKE i \in live
  <2>1. InstanceKnown(i)
    BY DEF ServiceInv
  <2>2. i[1] \in Caps /\ i = <<i[1], i[2]>>
    BY <1>3 DEF ServiceType
  <2>3. i[2] = "supervisor" => serviceChild'[i[1]] = serviceChild[i[1]]
    <3>1. i[2] = "supervisor" => i[1] # c
      BY <1>1, <2>2
    <3>2. \A d \in Caps : d # c => serviceChild'[d] = serviceChild[d]
      BY <1>1, <1>3 DEF ServiceType
    <3>3. QED
      BY <2>2, <3>1, <3>2
  <2>4. QED
    BY <1>1, <2>1, <2>3 DEF InstanceKnown
<1>11. QED
  BY <1>1, <1>2, <1>7, <1>8, <1>9, <1>10 DEF ServiceInv

(***************************************************************************)
(* The record is lost from the disk: what it says is less than what was    *)
(* noticed (src/supervisor_state.rs load).                                 *)
(***************************************************************************)
LEMMA SpoilStep ==
  ASSUME Service!ServicesAssumption, ServiceInv, Service!SpoilRecord
  PROVE  ServiceInv'
<1>1. /\ saved' = [c \in Caps |-> Service!NoEntry]
      /\ \/ daemonUp /\ unsaved' = TRUE /\ UNCHANGED <<entry, uncounted>>
         \/ ~daemonUp /\ entry' = saved' /\ uncounted' = TRUE /\ UNCHANGED unsaved
      /\ UNCHANGED <<manifest, live, table, serviceChild, daemonUp, noticed, forgotten, unclean>>
  BY DEF Service!SpoilRecord
<1>2. /\ Service!NoEntry \in CrashRecord /\ Service!NoEntry.crashes = 0
      /\ Service!NoEntry.version = 0 /\ Budget \in Nat
  BY DEF Service!NoEntry, CrashRecord, Service!ServicesAssumption
<1>3. ServiceType /\ saved' \in [Caps -> CrashRecord] /\ entry' \in [Caps -> CrashRecord]
  BY <1>1, <1>2 DEF ServiceInv, ServiceType
<1>4. ServiceType'
  BY <1>1, <1>3 DEF ServiceType
<1>5. \A c \in Caps : Recorded(c)'
  <2> TAKE c \in Caps
  <2>1. Recorded(c) /\ noticed[c].version \in Nat /\ noticed[c].crashes \in Nat
    BY <1>3 DEF ServiceInv, ServiceType
  <2>2. saved'[c] = Service!NoEntry /\ Truthful(saved[c], c)'
    BY <1>1, <1>2, <2>1 DEF Truthful
  <2>3. CASE entry' = entry /\ uncounted' = uncounted
    BY <1>1, <2>1, <2>2, <2>3 DEF Recorded, Truthful, Matches
  <2>4. CASE entry' = saved' /\ uncounted' = TRUE
    BY <1>1, <2>1, <2>2, <2>4 DEF Recorded, Truthful
  <2>5. QED
    BY <1>1, <2>3, <2>4
<1>6. \A c \in Caps : Tended(c)'
  BY <1>1 DEF ServiceInv, Tended, Service!ShouldSkip
<1>7. \A i \in live : InstanceKnown(i)'
  BY <1>1 DEF ServiceInv, InstanceKnown
<1>8. QED
  BY <1>1, <1>4, <1>5, <1>6, <1>7 DEF ServiceInv

(***************************************************************************)
(* A tool call starts a service, forgets one that has ended or leaves the  *)
(* table as it is (src/tool/builtin.rs run_persistent, run_ondemand).      *)
(***************************************************************************)
LEMMA TableStep ==
  ASSUME Service!ServicesAssumption, ServiceInv,
         NEW c \in Caps, Service!RunPersistent(c) \/ Service!RunOnDemand(c)
  PROVE  ServiceInv'
<1>0. /\ ServiceType
      /\ UNCHANGED <<manifest, serviceChild, entry, saved, daemonUp, noticed, unsaved, uncounted,
                     unclean>>
  BY DEF ServiceInv, Service!RunPersistent, Service!RunOnDemand
<1>1. \A i \in live : i[1] \in Caps /\ i[2] \in Starters /\ i = <<i[1], i[2]>>
  BY <1>0 DEF ServiceType
<1>2. <<c, "nobody">> \notin live /\ (table[c] = "none" => Service!Tracked(c) \notin live)
  BY <1>1, HandleKinds DEF Service!Tracked, Starters
\* The table and the instances: as they are, or the slot of c is freed or filled.
<1>3. \/ UNCHANGED <<table, live>>
      \/ table' = [table EXCEPT ![c] = "none"] /\ live' = live
      \/ \E kind \in {"process", "container", "warm"} :
           /\ table' = [table EXCEPT ![c] = kind]
           /\ live' = live \cup {<<c, Service!HandleOf(kind)>>}
  <2>1. ASSUME NEW kind \in {"process", "container", "warm"}, Service!StartService(c, kind)
        PROVE  \/ table' = [table EXCEPT ![c] = "none"] /\ live' = live
               \/ /\ table' = [table EXCEPT ![c] = kind]
                  /\ live' = live \cup {<<c, Service!HandleOf(kind)>>}
    BY <2>1 DEF Service!StartService
  <2>2. CASE Service!RunPersistent(c)
    <3>1. \/ Service!Tracked(c) \in live /\ UNCHANGED <<table, live>>
          \/ table' = [table EXCEPT ![c] = "none"] /\ UNCHANGED live
          \/ Service!StartService(c, IF manifest[c].env = "shell" THEN "process" ELSE "container")
      BY <1>0, <1>2, <2>2 DEF Service!RunPersistent, ServiceType
    <3>2. QED
      BY <2>1, <3>1
  <2>3. CASE Service!RunOnDemand(c)
    <3>1. \/ UNCHANGED <<table, live>>
          \/ Service!StartService(c, IF manifest[c].env = "shell" THEN "process" ELSE "warm")
      BY <2>3 DEF Service!RunOnDemand
    <3>2. QED
      BY <2>1, <3>1
  <2>4. QED
    BY <2>2, <2>3
\* Whatever runs and was in the slot is still there, or is forgotten.
<1>4. /\ forgotten \subseteq forgotten'
      /\ Service!Tracked(c) \in live =>
           table' = table \/ Service!Tracked(c) \in forgotten'
  <2>1. CASE Service!RunPersistent(c)
    <3>1. Service!Tracked(c) \in live => table' = table
      BY <1>0, <1>2, <2>1 DEF Service!RunPersistent, ServiceType
    <3>2. QED
      BY <2>1, <3>1 DEF Service!RunPersistent
  <2>2. CASE Service!RunOnDemand(c)
    BY <2>2 DEF Service!RunOnDemand
  <2>3. QED
    BY <2>1, <2>2
<1>5. ServiceType'
  <2>1. \A kind \in {"process", "container", "warm"} :
          <<c, Service!HandleOf(kind)>> \in Caps \X Starters
    BY HandleKinds DEF Starters
  <2>2. live' \subseteq Caps \X Starters
    BY <1>0, <1>3, <2>1 DEF ServiceType
  <2>3. table' \in [Caps -> {"none", "process", "container", "warm"}]
    BY <1>0, <1>3 DEF ServiceType
  <2>4. QED
    BY <1>0, <2>2, <2>3 DEF ServiceType
<1>6. \A d \in Caps : Recorded(d)' /\ Tended(d)'
  <2>1. \A d \in Caps : <<d, "supervisor">> \in live' => <<d, "supervisor">> \in live
    BY <1>3, HandleKinds
  <2>2. \A d \in Caps : Recorded(d)'
    BY <1>0 DEF ServiceInv, Recorded, Truthful, Matches
  <2>3. QED
    BY <1>0, <2>1, <2>2 DEF ServiceInv, Tended, Service!ShouldSkip
<1>7. \A i \in live' : InstanceKnown(i)'
  <2> TAKE i \in live'
  <2>1. CASE i \in live
    <3>1. CASE \E d \in Caps : i = <<d, Service!HandleOf(table[d])>>
      <4>1. PICK d \in Caps : i = <<d, Service!HandleOf(table[d])>>
        BY <3>1
      <4>2. CASE d # c
        <5>1. table'[d] = table[d]
          BY <1>0, <1>3, <4>2 DEF ServiceType
        <5>2. QED
          BY <4>1, <5>1 DEF InstanceKnown
      <4>3. CASE d = c
        BY <1>4, <2>1, <4>1, <4>3 DEF InstanceKnown, Service!Tracked
      <4>4. QED
        BY <4>2, <4>3
    <3>2. CASE ~\E d \in Caps : i = <<d, Service!HandleOf(table[d])>>
      <4>1. InstanceKnown(i)
        BY <2>1 DEF ServiceInv
      <4>2. QED
        BY <1>0, <1>4, <3>2, <4>1 DEF InstanceKnown
    <3>3. QED
      BY <3>1, <3>2
  <2>2. CASE i \notin live
    <3>1. PICK kind \in {"process", "container", "warm"} :
            table' = [table EXCEPT ![c] = kind] /\ i = <<c, Service!HandleOf(kind)>>
      BY <1>3, <2>2
    <3>2. table'[c] = kind
      BY <1>0, <3>1 DEF ServiceType
    <3>3. QED
      BY <3>1, <3>2 DEF InstanceKnown
  <2>3. QED
    BY <2>1, <2>2
<1>8. QED
  BY <1>0, <1>5, <1>6, <1>7 DEF ServiceInv

(***************************************************************************)
(* When the daemon ends, what still runs of its table or its supervisor is *)
(* known to have been left behind (src/daemon/mod.rs, src/capability.rs).  *)
(***************************************************************************)
LEMMA EndsStep ==
  ASSUME ServiceInv, NEW halted, NEW crashed0 \in BOOLEAN,
         Service!Ends(halted, crashed0),
         crashed0 \/ Service!InTable \subseteq halted
  PROVE  ServiceInv'
<1> DEFINE rest == live \ halted
           left(i) == IF i[2] \in {"table", "supervisor"} THEN <<i[1], "stray">> ELSE i
<1>1. /\ daemonUp' = FALSE /\ live' = {left(i) : i \in rest}
      /\ unclean' = (unclean \/ crashed0 \/ live' # rest)
      /\ table' = [c \in Caps |-> "none"] /\ serviceChild' = [c \in Caps |-> "none"]
      /\ entry' = saved /\ uncounted' = (uncounted \/ unsaved) /\ unsaved' = FALSE
      /\ UNCHANGED <<manifest, saved, noticed, forgotten>>
  BY DEF Service!Ends
<1>2. ServiceType /\ (~unsaved => saved = entry)
  BY DEF ServiceInv
<1>3. \A i \in rest : i \in live /\ i[1] \in Caps /\ i[2] \in Starters /\ i = <<i[1], i[2]>>
  BY <1>2 DEF ServiceType
<1>4. \A i \in rest : /\ left(i) \in Caps \X Starters
                      /\ left(i)[2] \notin {"table", "supervisor"}
                      /\ \/ left(i) = i
                         \/ left(i)[2] = "stray" /\ i[2] \in {"table", "supervisor"}
  <2> TAKE i \in rest
  <2>1. i \in Caps \X Starters /\ i[1] \in Caps
    BY <1>2, <1>3 DEF ServiceType
  <2>2. CASE i[2] \in {"table", "supervisor"}
    <3>1. left(i) = <<i[1], "stray">>
      BY <2>2
    <3>2. QED
      BY <2>1, <2>2, <3>1 DEF Starters
  <2>3. CASE i[2] \notin {"table", "supervisor"}
    <3>1. left(i) = i
      BY <2>3
    <3>2. QED
      BY <2>1, <2>3, <3>1
  <2>4. QED
    BY <2>2, <2>3
<1> HIDE DEF left
<1>5. live' \subseteq Caps \X Starters /\ \A i \in live' : i[2] \notin {"table", "supervisor"}
  BY <1>1, <1>4
<1>6. unclean' \in BOOLEAN
  BY <1>1
<1>7. ServiceType'
  BY <1>1, <1>2, <1>5, <1>6 DEF ServiceType
<1>8. \A c \in Caps : Recorded(c)' /\ Tended(c)'
  BY <1>1, <1>2 DEF ServiceInv, Recorded, Truthful, Matches, Tended
<1>9. \A i \in live' : InstanceKnown(i)'
  <2> TAKE i \in live'
  <2>1. PICK j \in rest : i = left(j)
    BY <1>1
  <2>2. CASE j[2] \in {"table", "supervisor"}
    <3>1. j \notin live' /\ unclean'
      BY <1>1, <1>5, <2>2
    <3>2. i[2] = "stray"
      BY <1>4, <1>5, <2>1, <2>2
    <3>3. QED
      BY <3>1, <3>2 DEF InstanceKnown
  <2>3. CASE j[2] \notin {"table", "supervisor"}
    <3>1. i = j /\ j \in live /\ InstanceKnown(j) /\ j[2] \in Starters
      BY <1>3, <1>4, <2>1, <2>3 DEF ServiceInv
    <3>2. CASE \E c \in Caps : j = <<c, Service!HandleOf(table[c])>>
      <4>1. j \in Service!InTable
        BY <3>2 DEF Service!InTable, Service!Tracked
      <4>2. unclean'
        BY <1>1, <4>1
      <4>3. QED
        BY <2>3, <3>1, <4>2 DEF InstanceKnown, Starters
    <3>3. CASE ~\E c \in Caps : j = <<c, Service!HandleOf(table[c])>>
      <4>1. \/ j \in forgotten
            \/ unclean /\ j[2] \in {"stray", "codecoder", "ondemand"}
        BY <2>3, <3>1, <3>3 DEF InstanceKnown
      <4>2. QED
        BY <1>1, <3>1, <4>1 DEF InstanceKnown
    <3>4. QED
      BY <3>2, <3>3
  <2>4. QED
    BY <2>2, <2>3
<1>10. QED
  BY <1>1, <1>2, <1>7, <1>8, <1>9 DEF ServiceInv

(***************************************************************************)
(* Every step keeps the invariant.                                         *)
(***************************************************************************)
LEMMA ServiceStep ==
  ASSUME Service!ServicesAssumption, ServiceInv, [Service!Next]_(Service!serviceVars)
  PROVE  ServiceInv'
<1>1. CASE Service!Shutdown \/ Service!Crash
  <2>1. Service!InTable \subseteq Service!InTable \cup Service!Supervised
    OBVIOUS
  <2>2. QED
    BY <1>1, <2>1, EndsStep DEF Service!Shutdown, Service!Crash
<1>2. ASSUME NEW c \in Caps, Service!GenerateCapability(c) PROVE ServiceInv'
  <2>1. PICK life \in {"persistent", "on_demand"}, env \in {"shell", "docker"}, later \in {0, 1} :
          manifest' = [manifest EXCEPT ![c] =
                         [life |-> life, env |-> env, version |-> manifest[c].version + later,
                          written |-> manifest[c].written + 1]]
    BY <1>2 DEF Service!GenerateCapability
  <2>2. UNCHANGED <<live, table, serviceChild, entry, saved, daemonUp, noticed, unsaved, uncounted,
                    forgotten, unclean>>
    BY <1>2 DEF Service!GenerateCapability
  <2>3. /\ ServiceType /\ manifest[c].version \in Nat
        /\ manifest[c].version + later \in Nat /\ manifest[c].written + 1 \in Nat
        /\ manifest[c].version <= manifest[c].version + later
    BY DEF ServiceInv, ServiceType
  <2>4. manifest' \in [Caps -> [life : {"persistent", "on_demand"}, env : {"shell", "docker"},
                                version : Nat, written : Nat]]
    BY <2>1, <2>3 DEF ServiceType
  <2>5. \A d \in Caps : noticed[d].version <= manifest'[d].version
    <3> TAKE d \in Caps
    <3>1. /\ noticed[d].version \in Nat /\ manifest[d].version \in Nat
          /\ noticed[d].version <= manifest[d].version
      BY <2>3 DEF ServiceInv, ServiceType, Recorded
    <3>2. manifest'[d].version = IF d = c THEN manifest[c].version + later ELSE manifest[d].version
      BY <2>1, <2>3 DEF ServiceType
    <3>3. QED
      BY <2>3, <3>1, <3>2
  <2>6. \A d \in Caps : Recorded(d)' /\ Tended(d)'
    BY <2>2, <2>5 DEF ServiceInv, Recorded, Truthful, Matches, Tended, Service!ShouldSkip
  <2>7. \A i \in live : InstanceKnown(i)'
    BY <2>2 DEF ServiceInv, InstanceKnown
  <2>8. QED
    BY <2>2, <2>3, <2>4, <2>6, <2>7 DEF ServiceInv, ServiceType
<1>3. ASSUME NEW i \in live, Service!Exits(i) PROVE ServiceInv'
  <2>1. /\ live' \subseteq live
        /\ UNCHANGED <<manifest, table, serviceChild, entry, saved, daemonUp, noticed, unsaved,
                       uncounted, forgotten, unclean>>
    BY <1>3 DEF Service!Exits
  <2>2. QED
    BY <2>1 DEF ServiceInv, ServiceType, Recorded, Truthful, Matches, Tended, InstanceKnown,
                Service!ShouldSkip
<1>4. CASE UNCHANGED Service!serviceVars
  BY <1>4
     DEF Service!serviceVars, ServiceInv, ServiceType, Recorded, Truthful, Matches, Tended,
         InstanceKnown, Service!ShouldSkip
<1>5. QED
  BY <1>1, <1>2, <1>3, <1>4, StartAllStep, SuperviseStep, SpoilStep, TableStep DEF Service!Next

(***************************************************************************)
(* Over every run of the daemon's services: ServicesSound                  *)
(* (src/capability.rs, src/supervisor_state.rs, src/tool/builtin.rs).      *)
(***************************************************************************)
THEOREM ServicesSoundHolds ==
  ASSUME Service!ServicesAssumption
  PROVE  Service!Spec => []Service!ServicesSound
<1>1. Service!Init => ServiceInv
  <2> SUFFICES ASSUME Service!Init PROVE ServiceInv
    OBVIOUS
  <2>1. /\ Service!NoEntry \in CrashRecord /\ Service!NoEntry.crashes = 0
        /\ Service!NoEntry.version = 0 /\ Budget \in Nat
    BY DEF Service!NoEntry, CrashRecord, Service!ServicesAssumption
  <2>2. ServiceType
    BY <2>1 DEF Service!Init, ServiceType
  <2>3. \A c \in Caps : Recorded(c) /\ Tended(c)
    BY <2>1 DEF Service!Init, Recorded, Truthful, Matches, Tended
  <2>4. QED
    BY <2>2, <2>3 DEF Service!Init, ServiceInv
<1>2. ServiceInv /\ [Service!Next]_(Service!serviceVars) => ServiceInv'
  BY ServiceStep
<1>3. ServiceInv => Service!ServicesSound
  <2> SUFFICES ASSUME ServiceInv PROVE Service!ServicesSound
    OBVIOUS
  <2>1. \A i \in live : \/ i \in Service!InTable \cup forgotten
                        \/ i[2] = "supervisor" /\ serviceChild[i[1]] = "started"
                        \/ unclean /\ i[2] \in {"stray", "codecoder", "ondemand"}
    BY DEF ServiceInv, InstanceKnown, Service!InTable, Service!Tracked
  <2>2. QED
    BY <2>1 DEF ServiceInv, Recorded, Truthful, Matches, Tended, Service!ServicesSound
<1>4. QED
  BY <1>1, <1>2, <1>3, PTL DEF Service!Spec

-----------------------------------------------------------------------------
\* The daemons of one project root (Daemons): for any number of them.

Connections == {"wake", "request", "shutdown"}

LifeType ==
  /\ path \in Daemons \cup {"none"}
  /\ daemonAt \in [Daemons -> {"down", "binding", "loop", "accept", "leaving", "gone",
                               "failed", "crashed"}]
  /\ flag \in [Daemons -> BOOLEAN]
  /\ monitor \in [Daemons -> {"off", "watching", "done"}]
  /\ backlog \in [Daemons -> Seq(Connections)]
  /\ handling \in [Daemons -> {"none", "read", "stored"}]

\* A daemon that runs is watched by its monitor until the flag is set.
Monitored(d) ==
  Life!Alive(d) => monitor[d] = "watching" \/ (monitor[d] = "done" /\ flag[d])

\* What DaemonsSound says of one daemon, and of the socket file.
WakesUp(d) ==
  d \notin displaced /\ daemonAt[d] = "accept" /\ flag[d] =>
    backlog[d] # <<>> \/ monitor[d] = "watching" \/ handling[d] = "stored"
Owned(d) == Life!Alive(d) /\ path # d => d \in displaced
FileLeads == path # "none" => Life!Alive(path) \/ daemonAt[path] = "crashed"

LifeInv ==
  /\ LifeType /\ FileLeads
  /\ \A d \in Daemons : Monitored(d) /\ WakesUp(d) /\ Owned(d)

(***************************************************************************)
(* A connection lengthens the backlog of the daemon it reaches, and no     *)
(* other's (src/daemon/socket.rs).                                         *)
(***************************************************************************)
LEMMA ConnectionReaches ==
  ASSUME LifeType, NEW kind \in Connections
  PROVE  /\ Life!Connected(kind) \in [Daemons -> Seq(Connections)]
         /\ \A d \in Daemons : backlog[d] # <<>> => Life!Connected(kind)[d] # <<>>
         /\ \A d \in Daemons : Life!Alive(d) /\ path = d /\ d # "none" =>
              Life!Connected(kind)[d] # <<>>
<1>1. CASE path # "none" /\ Life!Alive(path)
  <2>1. path \in Daemons /\ backlog \in [Daemons -> Seq(Connections)]
    BY <1>1 DEF LifeType
  <2>2. Life!Connected(kind) = [backlog EXCEPT ![path] = Append(backlog[path], kind)]
    BY <1>1 DEF Life!Connected
  <2>3. Append(backlog[path], kind) \in Seq(Connections) /\ Append(backlog[path], kind) # <<>>
    BY <2>1
  <2>4. QED
    BY <2>1, <2>2, <2>3
<1>2. CASE ~(path # "none" /\ Life!Alive(path))
  BY <1>2 DEF Life!Connected, LifeType
<1>3. QED
  BY <1>1, <1>2

(***************************************************************************)
(* Whoever removes the socket file of another daemon displaces it          *)
(* (src/daemon/socket.rs bind, src/daemon/mod.rs, the end of run).         *)
(***************************************************************************)
LEMMA FileStep ==
  ASSUME Life!DaemonsAssumption, LifeInv, NEW d \in Daemons,
         \/ Life!Unlink(d) \/ Life!Bind(d) \/ Life!BindFails(d) \/ Life!Leave(d)
         \/ Life!Crash(d)
  PROVE  LifeInv'
<1>0. LifeType /\ FileLeads /\ "none" \notin Daemons
  BY DEF LifeInv, Life!DaemonsAssumption
<1>1. /\ \A e \in Daemons \ {d} : /\ daemonAt'[e] = daemonAt[e] /\ flag'[e] = flag[e]
                                  /\ monitor'[e] = monitor[e] /\ backlog'[e] = backlog[e]
                                  /\ handling'[e] = handling[e]
      /\ displaced \subseteq displaced'
      /\ LifeType'
  <2>1. CASE Life!Unlink(d)
    BY <1>0, <2>1 DEF Life!Unlink, Life!RemoveFile, LifeType
  <2>2. CASE Life!Bind(d)
    BY <1>0, <2>2 DEF Life!Bind, LifeType
  <2>3. CASE Life!BindFails(d)
    <3>1. /\ daemonAt' \in [Daemons -> {"down", "binding", "loop", "accept", "leaving", "gone",
                                        "failed", "crashed"}]
          /\ \A e \in Daemons \ {d} : daemonAt'[e] = daemonAt[e]
      BY <1>0, <2>3 DEF Life!BindFails, LifeType
    <3>2. QED
      BY <1>0, <2>3, <3>1 DEF Life!BindFails, LifeType
  <2>4. ASSUME Life!Forget(d)
        PROVE  /\ flag' \in [Daemons -> BOOLEAN]
               /\ monitor' \in [Daemons -> {"off", "watching", "done"}]
               /\ backlog' \in [Daemons -> Seq(Connections)]
               /\ handling' \in [Daemons -> {"none", "read", "stored"}]
               /\ \A e \in Daemons \ {d} : /\ flag'[e] = flag[e] /\ monitor'[e] = monitor[e]
                                           /\ backlog'[e] = backlog[e]
                                           /\ handling'[e] = handling[e]
    <3>1. <<>> \in Seq(Connections)
      OBVIOUS
    <3>2. QED
      BY <1>0, <2>4, <3>1 DEF Life!Forget, LifeType
  <2>5. CASE Life!Leave(d)
    BY <1>0, <2>4, <2>5 DEF Life!Leave, Life!RemoveFile, LifeType
  <2>6. CASE Life!Crash(d)
    BY <1>0, <2>4, <2>6 DEF Life!Crash, LifeType
  <2>7. QED
    BY <2>1, <2>2, <2>3, <2>5, <2>6
\* What d itself becomes, and where the file leads.
<1>2. \/ Life!Alive(d) /\ daemonAt'[d] = "crashed" /\ path' = path
      \/ ~Life!Alive(d) /\ daemonAt'[d] \in {"down", "failed"} /\ path' = path /\ path # d
      \/ /\ daemonAt'[d] \in {"binding", "gone"} /\ path' = "none"
         /\ displaced' = displaced \cup ({path} \ {d, "none"})
      \/ daemonAt'[d] = "loop" /\ monitor'[d] = "watching" /\ path = "none" /\ path' = d
  <2>1. CASE Life!Unlink(d)
    BY <1>0, <2>1 DEF Life!Unlink, Life!RemoveFile, LifeType
  <2>2. CASE Life!Bind(d)
    BY <1>0, <2>2 DEF Life!Bind, LifeType
  <2>3. CASE Life!BindFails(d)
    <3>1. daemonAt[d] = "binding" /\ ~Life!Alive(d)
      BY <2>3 DEF Life!BindFails, Life!Alive, Life!Running
    <3>2. path # d
      BY <1>0, <2>3, <3>1 DEF FileLeads
    <3>3. daemonAt'[d] \in {"down", "failed"} /\ path' = path
      BY <1>0, <2>3 DEF Life!BindFails, LifeType
    <3>4. QED
      BY <3>1, <3>2, <3>3
  <2>4. CASE Life!Leave(d)
    BY <1>0, <2>4 DEF Life!Leave, Life!RemoveFile, LifeType
  <2>5. CASE Life!Crash(d)
    BY <1>0, <2>5 DEF Life!Crash, LifeType
  <2>6. QED
    BY <2>1, <2>2, <2>3, <2>4, <2>5
<1>3. \A e \in Daemons \ {d} : Life!Alive(e)' <=> Life!Alive(e)
  BY <1>1 DEF Life!Alive
<1>4. FileLeads'
  BY <1>0, <1>1, <1>2, <1>3 DEF FileLeads, LifeType, Life!Alive, Life!Running
<1>5. ASSUME NEW e \in Daemons, e # d PROVE (Monitored(e) /\ WakesUp(e) /\ Owned(e))'
  <2>1. Monitored(e) /\ WakesUp(e) /\ Owned(e)
    BY DEF LifeInv
  <2>2. Monitored(e)' /\ WakesUp(e)'
    BY <1>1, <1>3, <1>5, <2>1 DEF Monitored, WakesUp
  <2>3. Owned(e)'
    BY <1>0, <1>1, <1>2, <1>3, <1>5, <2>1 DEF Owned
  <2>4. QED
    BY <2>2, <2>3
<1>6. (Monitored(d) /\ WakesUp(d) /\ Owned(d))'
  <2>1. CASE Life!Alive(d)'
    <3>1. daemonAt'[d] = "loop" /\ monitor'[d] = "watching" /\ path' = d
      BY <1>2, <2>1 DEF Life!Alive, Life!Running
    <3>2. QED
      BY <3>1 DEF Monitored, WakesUp, Owned
  <2>2. CASE ~Life!Alive(d)'
    BY <2>2 DEF Monitored, WakesUp, Owned, Life!Alive, Life!Running
  <2>3. QED
    BY <2>1, <2>2
<1>7. QED
  BY <1>1, <1>4, <1>5, <1>6 DEF LifeInv

(***************************************************************************)
(* A step that moves no file: the accept loop, its handlers, the monitor,  *)
(* a signal and a client (src/daemon/mod.rs, src/recovery.rs).             *)
(***************************************************************************)
LEMMA LoopStep ==
  ASSUME Life!DaemonsAssumption, LifeInv,
         \/ \E d \in Daemons :
              \/ Life!Loop(d) \/ Life!Accept(d) \/ Life!StoreFlag(d) \/ Life!HandlerConnects(d)
              \/ Life!Monitor(d) \/ Life!Signal(d)
         \/ \E kind \in {"request", "shutdown"} : Life!Client(kind)
  PROVE  LifeInv'
<1>0. /\ LifeType /\ FileLeads /\ "none" \notin Daemons
      /\ \A d \in Daemons : Monitored(d) /\ WakesUp(d) /\ Owned(d)
  BY DEF LifeInv, Life!DaemonsAssumption
\* Owned and FileLeads depend on what these steps keep: who runs.
<1>1. ASSUME UNCHANGED <<path, displaced>>, \A e \in Daemons : Life!Alive(e)' <=> Life!Alive(e),
             \A e \in Daemons : daemonAt[e] = "crashed" => daemonAt'[e] = "crashed"
      PROVE  FileLeads' /\ \A e \in Daemons : Owned(e)'
  <2>1. FileLeads'
    BY <1>0, <1>1 DEF FileLeads, LifeType
  <2>2. QED
    BY <1>0, <1>1, <2>1 DEF Owned
<1>2. ASSUME NEW d \in Daemons, Life!Loop(d) PROVE LifeInv'
  <2>1. /\ daemonAt[d] = "loop" /\ UNCHANGED <<path, flag, monitor, backlog, handling, displaced>>
        /\ daemonAt' = [daemonAt EXCEPT ![d] = IF flag[d] THEN "leaving" ELSE "accept"]
    BY <1>2 DEF Life!Loop
  <2>2. LifeType'
    BY <1>0, <2>1 DEF LifeType
  <2>3. \A e \in Daemons \ {d} : daemonAt'[e] = daemonAt[e]
    BY <1>0, <2>1 DEF LifeType
  <2>4. daemonAt'[d] = IF flag[d] THEN "leaving" ELSE "accept"
    BY <1>0, <2>1 DEF LifeType
  <2>5. \A e \in Daemons : Life!Alive(e)' <=> Life!Alive(e)
    BY <2>1, <2>3, <2>4 DEF Life!Alive, Life!Running
  <2>6. \A e \in Daemons : Monitored(e)' /\ WakesUp(e)'
    BY <1>0, <2>1, <2>3, <2>4, <2>5 DEF Monitored, WakesUp
  <2>7. QED
    BY <1>1, <2>1, <2>2, <2>3, <2>5, <2>6 DEF LifeInv
<1>3. ASSUME NEW d \in Daemons, Life!Accept(d) PROVE LifeInv'
  <2>1. /\ daemonAt[d] = "accept" /\ backlog[d] # <<>>
        /\ backlog' = [backlog EXCEPT ![d] = Tail(backlog[d])]
        /\ UNCHANGED <<path, flag, monitor, displaced>>
        /\ daemonAt' = [daemonAt EXCEPT ![d] = IF flag[d] THEN "leaving" ELSE "loop"]
        /\ handling' = handling \/ handling' = [handling EXCEPT ![d] = "read"]
    BY <1>3 DEF Life!Accept
  <2>2. Tail(backlog[d]) \in Seq(Connections)
    BY <1>0, <2>1 DEF LifeType
  <2>3. LifeType'
    BY <1>0, <2>1, <2>2 DEF LifeType
  <2>4. /\ \A e \in Daemons \ {d} : /\ daemonAt'[e] = daemonAt[e] /\ backlog'[e] = backlog[e]
                                    /\ handling'[e] = handling[e]
        /\ daemonAt'[d] \in {"leaving", "loop"}
    BY <1>0, <2>1 DEF LifeType
  <2>5. \A e \in Daemons : Life!Alive(e)' <=> Life!Alive(e)
    BY <2>1, <2>4 DEF Life!Alive, Life!Running
  <2>6. \A e \in Daemons : Monitored(e)' /\ WakesUp(e)'
    BY <1>0, <2>1, <2>4, <2>5 DEF Monitored, WakesUp
  <2>7. QED
    BY <1>1, <2>1, <2>3, <2>4, <2>5, <2>6 DEF LifeInv
<1>4. ASSUME NEW d \in Daemons, Life!Signal(d) \/ Life!StoreFlag(d) PROVE LifeInv'
  <2>1. /\ Life!Alive(d) /\ flag' = [flag EXCEPT ![d] = TRUE]
        /\ UNCHANGED <<path, daemonAt, monitor, backlog, displaced>>
        /\ \/ Life!Signal(d) /\ ~flag[d] /\ handling' = handling
           \/ handling' = [handling EXCEPT ![d] = "stored"]
    BY <1>4 DEF Life!Signal, Life!StoreFlag
  <2>2. LifeType'
    BY <1>0, <2>1 DEF LifeType
  <2>3. /\ \A e \in Daemons \ {d} : flag'[e] = flag[e] /\ handling'[e] = handling[e]
        /\ flag'[d] = TRUE
        /\ monitor[d] = "watching" \/ handling'[d] = "stored"
    BY <1>0, <2>1 DEF LifeType, Monitored
  <2>4. \A e \in Daemons : Life!Alive(e)' <=> Life!Alive(e)
    BY <2>1 DEF Life!Alive
  <2>5. \A e \in Daemons : Monitored(e)' /\ WakesUp(e)'
    BY <1>0, <2>1, <2>3, <2>4 DEF Monitored, WakesUp
  <2>6. QED
    BY <1>1, <2>1, <2>2, <2>4, <2>5 DEF LifeInv
<1>5. ASSUME NEW d \in Daemons, Life!HandlerConnects(d) \/ Life!Monitor(d) PROVE LifeInv'
  <2>1. /\ Life!Alive(d) /\ backlog' = Life!Connected("wake")
        /\ UNCHANGED <<path, daemonAt, flag, displaced>>
        /\ \/ handling' = [handling EXCEPT ![d] = "none"] /\ monitor' = monitor
           \/ /\ monitor' = [monitor EXCEPT ![d] = "done"] /\ flag[d]
              /\ handling' = handling
    BY <1>5 DEF Life!HandlerConnects, Life!Monitor
  <2>2. /\ backlog' \in [Daemons -> Seq(Connections)]
        /\ \A e \in Daemons : backlog[e] # <<>> => backlog'[e] # <<>>
        /\ path = d => backlog'[d] # <<>>
    BY <1>0, <2>1, ConnectionReaches DEF Connections
  <2>3. LifeType'
    BY <1>0, <2>1, <2>2 DEF LifeType
  <2>4. /\ \A e \in Daemons \ {d} : monitor'[e] = monitor[e] /\ handling'[e] = handling[e]
        /\ monitor'[d] = monitor[d] \/ (monitor'[d] = "done" /\ flag[d])
    <3>1. CASE handling' = [handling EXCEPT ![d] = "none"] /\ monitor' = monitor
      BY <1>0, <3>1 DEF LifeType
    <3>2. CASE /\ monitor' = [monitor EXCEPT ![d] = "done"] /\ flag[d]
               /\ handling' = handling
      <4>1. monitor'[d] = "done" /\ \A e \in Daemons \ {d} : monitor'[e] = monitor[e]
        BY <1>0, <3>2 DEF LifeType
      <4>2. QED
        BY <3>2, <4>1
    <3>3. QED
      BY <2>1, <3>1, <3>2
  <2>5. \A e \in Daemons : Life!Alive(e)' <=> Life!Alive(e)
    BY <2>1 DEF Life!Alive
  <2>6. d \notin displaced => backlog'[d] # <<>>
    BY <1>0, <2>1, <2>2 DEF Owned
  <2>7. \A e \in Daemons : Monitored(e)' /\ WakesUp(e)'
    BY <1>0, <2>1, <2>2, <2>4, <2>5, <2>6 DEF Monitored, WakesUp
  <2>8. QED
    BY <1>1, <2>1, <2>3, <2>5, <2>7 DEF LifeInv
<1>6. ASSUME NEW kind \in {"request", "shutdown"}, Life!Client(kind) PROVE LifeInv'
  <2>1. /\ backlog' = Life!Connected(kind)
        /\ UNCHANGED <<path, daemonAt, flag, monitor, handling, displaced>>
    BY <1>6 DEF Life!Client
  <2>2. /\ backlog' \in [Daemons -> Seq(Connections)]
        /\ \A e \in Daemons : backlog[e] # <<>> => backlog'[e] # <<>>
    BY <1>0, <2>1, ConnectionReaches DEF Connections
  <2>3. LifeType'
    BY <1>0, <2>1, <2>2 DEF LifeType
  <2>4. \A e \in Daemons : Life!Alive(e)' <=> Life!Alive(e)
    BY <2>1 DEF Life!Alive
  <2>5. \A e \in Daemons : Monitored(e)' /\ WakesUp(e)'
    BY <1>0, <2>1, <2>2, <2>4 DEF Monitored, WakesUp
  <2>6. QED
    BY <1>1, <2>1, <2>3, <2>4, <2>5 DEF LifeInv
<1>7. QED
  BY <1>2, <1>3, <1>4, <1>5, <1>6

(***************************************************************************)
(* Over every run of the daemons of one root: DaemonsSound                 *)
(* (src/daemon/mod.rs, src/daemon/socket.rs).                              *)
(***************************************************************************)
THEOREM DaemonsSoundHolds ==
  ASSUME Life!DaemonsAssumption
  PROVE  Life!Spec => []Life!DaemonsSound
<1>1. Life!Init => LifeInv
  <2> SUFFICES ASSUME Life!Init PROVE LifeInv
    OBVIOUS
  <2>1. /\ path = "none" /\ daemonAt = [d \in Daemons |-> "down"]
        /\ flag = [d \in Daemons |-> FALSE] /\ monitor = [d \in Daemons |-> "off"]
        /\ backlog = [d \in Daemons |-> <<>>] /\ handling = [d \in Daemons |-> "none"]
    BY DEF Life!Init
  <2>2. <<>> \in Seq(Connections) /\ \A d \in Daemons : ~Life!Alive(d)
    BY <2>1 DEF Life!Alive, Life!Running
  <2>3. LifeType
    BY <2>1, <2>2 DEF LifeType
  <2>4. \A d \in Daemons : Monitored(d) /\ WakesUp(d) /\ Owned(d)
    BY <2>1, <2>2 DEF Monitored, WakesUp, Owned
  <2>5. QED
    BY <2>1, <2>3, <2>4 DEF LifeInv, FileLeads
<1>2. LifeInv /\ [Life!Next]_(Life!daemonVars) => LifeInv'
  <2>1. ASSUME LifeInv, UNCHANGED Life!daemonVars PROVE LifeInv'
    BY <2>1
       DEF Life!daemonVars, LifeInv, LifeType, FileLeads, Monitored, WakesUp, Owned, Life!Alive
  <2>2. QED
    BY <2>1, FileStep, LoopStep DEF Life!Next, Life!Steps
<1>3. LifeInv => Life!DaemonsSound
  BY DEF LifeInv, FileLeads, WakesUp, Owned, Life!DaemonsSound
<1>4. QED
  BY <1>1, <1>2, <1>3, PTL DEF Life!Spec

-----------------------------------------------------------------------------
\* The stamp and its watchdog (Stamps): for any threads and any maximal age.

StampType ==
  /\ clock \in Nat \ {0} /\ newest \in 0 .. clock
  /\ stampDoing \in [Threads -> {"idle", "taken", "open", "full"}]
  /\ stampTaken \in [Threads -> Nat] /\ \A t \in Threads : stampTaken[t] <= clock
  /\ stampHandle \in [Threads -> {"none", "tmp", "stamp", "gone"}]

\* What a thread that is idle has written, and that it has let its file go.
Rests(t) ==
  stampDoing[t] = "idle" => stampTaken[t] <= newest /\ stampHandle[t] = "none"

\* A thread that writes alone: where its file is, what is in it, and that its
\* time is the newest.
Writes(t) ==
  t \notin stopped \cup mixed /\ stampDoing[t] # "idle" =>
    /\ \A u \in Threads \ stopped : u # t => stampDoing[u] = "idle"
    /\ stampTaken[t] > 0 /\ newest <= stampTaken[t]
    /\ stampHandle[t] = IF stampDoing[t] \in {"open", "full"} THEN "tmp" ELSE "none"
    /\ stampDoing[t] = "full" => stampTmp = Stamp!Tick(stampTaken[t])

\* After a write that was alone the stamp is the newest, and nobody has it open.
StampTrue ==
  ~doubtful =>
    /\ stamp = IF newest = 0 THEN Stamp!Missing ELSE Stamp!Tick(newest)
    /\ \A t \in Threads \ stopped : stampHandle[t] \in {"none", "tmp"}

StampKept == StampTrue /\ \A t \in Threads : Rests(t) /\ Writes(t)
StampInv == StampType /\ StampKept /\ Stamp!StampSound

(***************************************************************************)
(* The type of what a thread's step changes (src/recovery.rs).             *)
(***************************************************************************)
LEMMA StampTyped ==
  ASSUME StampType, NEW t \in Threads,
         Stamp!Take(t) \/ Stamp!Open(t) \/ Stamp!Fill(t) \/ Stamp!Rename(t) \/ Stamp!Stop(t)
  PROVE  StampType' /\ clock' = clock
<1>1. CASE Stamp!Take(t)
  BY <1>1 DEF Stamp!Take, StampType
<1>2. CASE Stamp!Open(t)
  BY <1>2 DEF Stamp!Open, StampType
<1>3. CASE Stamp!Fill(t)
  BY <1>3 DEF Stamp!Fill, StampType
<1>4. CASE Stamp!Rename(t)
  <2>1. stampHandle' \in [Threads -> {"none", "tmp", "stamp", "gone"}]
    BY <1>4 DEF Stamp!Rename, StampType
  <2>2. newest' \in 0 .. clock
    BY <1>4 DEF Stamp!Rename, StampType
  <2>3. QED
    BY <1>4, <2>1, <2>2 DEF Stamp!Rename, StampType
<1>5. CASE Stamp!Stop(t)
  BY <1>5 DEF Stamp!Stop, StampType
<1>6. QED
  BY <1>1, <1>2, <1>3, <1>4, <1>5

(***************************************************************************)
(* A time is taken: alone, or in the midst of another's write, and then    *)
(* neither is alone.                                                       *)
(***************************************************************************)
LEMMA StampTakeStep ==
  ASSUME StampType, StampKept, NEW t \in Threads, Stamp!Take(t)
  PROVE  StampKept'
<1> DEFINE busy == {u \in Threads \ stopped : stampDoing[u] # "idle"}
<1>1. /\ stampDoing[t] = "idle" /\ t \notin stopped
      /\ stampDoing' = [stampDoing EXCEPT ![t] = "taken"]
      /\ stampTaken' = [stampTaken EXCEPT ![t] = clock]
      /\ mixed' = IF busy = {} THEN mixed ELSE mixed \cup busy \cup {t}
      /\ UNCHANGED <<clock, stampHandle, stampTmp, stamp, stopped, newest, doubtful, verdict>>
  BY DEF Stamp!Take
<1>2. /\ stampDoing'[t] = "taken" /\ stampTaken'[t] = clock /\ clock > 0 /\ newest <= clock
      /\ \A u \in Threads : u # t => stampDoing'[u] = stampDoing[u] /\ stampTaken'[u] = stampTaken[u]
      /\ stampHandle[t] = "none"
  BY <1>1 DEF StampType, StampKept, Rests
<1>3. StampTrue' /\ \A u \in Threads : Rests(u)'
  BY <1>1, <1>2 DEF StampKept, StampTrue, Rests, Stamp!Missing, Stamp!Tick
<1>4. ASSUME NEW u \in Threads PROVE Writes(u)'
  <2>1. CASE busy = {}
    BY <1>1, <1>2, <2>1 DEF Writes
  <2>2. CASE busy # {}
    BY <1>1, <1>2, <2>2 DEF Writes
  <2>3. QED
    BY <2>1, <2>2
<1>5. QED
  BY <1>3, <1>4 DEF StampKept

(***************************************************************************)
(* The temporary file is opened and filled, or the thread stops: nobody    *)
(* else who writes alone is touched, and the stamp only by a thread that   *)
(* has it open.                                                            *)
(***************************************************************************)
LEMMA StampWriteStep ==
  ASSUME StampType, StampKept, NEW t \in Threads,
         Stamp!Open(t) \/ Stamp!Fill(t) \/ Stamp!Stop(t)
  PROVE  StampKept' /\ UNCHANGED <<stampTaken, newest, doubtful, verdict>>
         /\ (~doubtful => stamp' = stamp)
         /\ \A u \in Threads : stampDoing'[u] = "idle" <=> stampDoing[u] = "idle"
<1>1. CASE Stamp!Open(t)
  <2>1. /\ t \notin stopped /\ stampDoing[t] = "taken"
        /\ stampDoing'[t] = "open" /\ stampHandle'[t] = "tmp"
        /\ \A u \in Threads : u # t =>
             stampDoing'[u] = stampDoing[u] /\ stampHandle'[u] = stampHandle[u]
        /\ UNCHANGED <<stampTaken, stamp, stopped, newest, mixed, doubtful, verdict>>
    BY <1>1 DEF Stamp!Open, StampType
  <2>2. StampTrue' /\ \A u \in Threads : Rests(u)'
    BY <2>1 DEF StampKept, StampTrue, Rests, Stamp!Missing, Stamp!Tick
  <2>3. \A u \in Threads : Writes(u)'
    BY <2>1 DEF StampKept, Writes
  <2>4. QED
    BY <2>1, <2>2, <2>3 DEF StampKept
<1>2. CASE Stamp!Fill(t)
  <2>1. /\ t \notin stopped /\ stampDoing[t] = "open" /\ stampDoing'[t] = "full"
        /\ \A u \in Threads : u # t => stampDoing'[u] = stampDoing[u]
        /\ stampTmp' = IF stampHandle[t] = "tmp" THEN Stamp!Tick(stampTaken[t]) ELSE stampTmp
        /\ stamp' = IF stampHandle[t] = "stamp" THEN Stamp!Tick(stampTaken[t]) ELSE stamp
        /\ UNCHANGED <<stampTaken, stampHandle, stopped, newest, mixed, doubtful, verdict>>
    BY <1>2 DEF Stamp!Fill, StampType
  <2>2. ~doubtful => stamp' = stamp
    BY <2>1 DEF StampKept, StampTrue
  <2>3. StampTrue' /\ \A u \in Threads : Rests(u)'
    BY <2>1, <2>2 DEF StampKept, StampTrue, Rests, Stamp!Missing, Stamp!Tick
  <2>4. ASSUME NEW u \in Threads, u \notin stopped \cup mixed, stampDoing'[u] # "idle"
        PROVE  Writes(u)'
    <3>1. CASE u = t
      BY <2>1, <2>4, <3>1 DEF StampKept, Writes, Stamp!Tick
    <3>2. CASE u # t
      BY <2>1, <2>4, <3>2 DEF StampKept, Writes
    <3>3. QED
      BY <3>1, <3>2
  <2>5. \A u \in Threads : Writes(u)'
    BY <2>1, <2>4 DEF Writes
  <2>6. QED
    BY <2>1, <2>2, <2>3, <2>5 DEF StampKept
<1>3. CASE Stamp!Stop(t)
  <2>1. /\ stopped' = stopped \cup {t}
        /\ UNCHANGED <<stampDoing, stampTaken, stampHandle, stampTmp, stamp, newest, mixed,
                       doubtful, verdict>>
    BY <1>3 DEF Stamp!Stop
  <2>2. StampTrue' /\ \A u \in Threads : Rests(u)'
    BY <2>1 DEF StampKept, StampTrue, Rests, Stamp!Missing, Stamp!Tick
  <2>3. \A u \in Threads : Writes(u)'
    BY <2>1 DEF StampKept, Writes, Stamp!Tick
  <2>4. QED
    BY <2>1, <2>2, <2>3 DEF StampKept
<1>4. QED
  BY <1>1, <1>2, <1>3

(***************************************************************************)
(* The rename: of a write that was alone the stamp becomes the newest; of  *)
(* another it is doubtful, until one that is.                              *)
(***************************************************************************)
LEMMA StampRenameStep ==
  ASSUME StampType, StampKept, NEW t \in Threads, Stamp!Rename(t)
  PROVE  StampKept'
<1>1. /\ t \notin stopped /\ stampDoing[t] = "full"
      /\ stampDoing' = [stampDoing EXCEPT ![t] = "idle"]
      /\ newest' = IF stampTaken[t] > newest THEN stampTaken[t] ELSE newest
      /\ mixed' = mixed \ {t} /\ doubtful' = (t \in mixed)
      /\ UNCHANGED <<clock, stampTaken, stopped>>
  BY DEF Stamp!Rename
<1>2. /\ stampHandle'[t] = "none"
      /\ \A u \in Threads : u # t /\ stampHandle[u] = "none" => stampHandle'[u] = "none"
  <2>1. CASE stampTmp = Stamp!Missing
    BY <2>1 DEF Stamp!Rename, StampType
  <2>2. CASE stampTmp # Stamp!Missing
    <3>1. stampHandle' = [u \in Threads |->
                            IF u = t THEN "none"
                            ELSE CASE stampHandle[u] = "tmp" -> "stamp"
                                   [] stampHandle[u] = "stamp" -> "gone"
                                   [] OTHER -> stampHandle[u]]
      BY <2>2 DEF Stamp!Rename
    <3>2. QED
      BY <3>1
  <2>3. QED
    BY <2>1, <2>2
<1>3. /\ newest \in Nat /\ stampTaken[t] \in Nat /\ newest' \in Nat
      /\ newest <= newest' /\ stampTaken[t] <= newest'
      /\ stampDoing'[t] = "idle" /\ \A u \in Threads : u # t => stampDoing'[u] = stampDoing[u]
  BY <1>1 DEF StampType
<1>4. ASSUME NEW u \in Threads PROVE Rests(u)'
  <2>1. stampTaken[u] \in Nat
    BY DEF StampType
  <2>2. QED
    BY <1>1, <1>2, <1>3, <2>1 DEF StampKept, Rests
<1>5. ASSUME NEW u \in Threads PROVE Writes(u)'
  <2>1. CASE u = t
    BY <1>3, <2>1 DEF Writes
  <2>2. CASE u # t
    BY <1>1, <1>3, <2>2 DEF StampKept, Writes
  <2>3. QED
    BY <2>1, <2>2
<1>6. ASSUME ~doubtful' PROVE StampTrue'
  <2>1. /\ stampTmp = Stamp!Tick(stampTaken[t]) /\ newest' = stampTaken[t] /\ newest' # 0
        /\ \A u \in Threads \ stopped : u # t => stampHandle[u] = "none"
    <3>1. t \notin stopped \cup mixed /\ stampDoing[t] # "idle" /\ Writes(t)
      BY <1>1, <1>6 DEF StampKept
    <3>2. /\ stampTmp = Stamp!Tick(stampTaken[t]) /\ stampTaken[t] > 0 /\ newest <= stampTaken[t]
          /\ \A u \in Threads \ stopped : u # t => stampDoing[u] = "idle"
      BY <1>1, <3>1 DEF Writes
    <3>3. QED
      BY <1>1, <1>3, <3>2 DEF StampKept, Rests
  <2>2. stamp' = stampTmp
    BY <2>1 DEF Stamp!Rename, Stamp!Tick, Stamp!Missing
  <2>3. QED
    BY <1>1, <1>2, <2>1, <2>2 DEF StampTrue, Stamp!Tick, Stamp!Missing
<1>7. QED
  BY <1>4, <1>5, <1>6 DEF StampKept, StampTrue

(***************************************************************************)
(* The watchdog's verdict on a stamp that is the newest (capabilities/     *)
(* daemon-watchdog/run.sh), and a tick of the clock.                       *)
(***************************************************************************)
LEMMA WatchdogStep ==
  ASSUME Stamp!StampsAssumption, StampInv, Stamp!Watch \/ Stamp!Clock
  PROVE  StampInv'
<1>0. /\ StampType /\ StampKept /\ MaxAge \in Nat \ {0} /\ clock \in Nat \ {0}
      /\ newest \in 0 .. clock /\ stampTaken \in [Threads -> Nat]
  BY DEF StampInv, StampType, Stamp!StampsAssumption
<1>1. /\ UNCHANGED <<stampDoing, stampTaken, stampHandle, stampTmp, stamp, stopped, newest,
                     mixed, doubtful>>
      /\ clock' \in {clock, clock + 1}
  BY DEF Stamp!Watch, Stamp!Clock
<1>2. StampType'
  BY <1>0, <1>1 DEF StampType
<1>3. StampKept'
  BY <1>0, <1>1 DEF StampKept, StampTrue, Rests, Writes, Stamp!Missing, Stamp!Tick
<1>4. ASSUME ~doubtful, verdict' = "stale", NEW t \in Threads, stampDoing[t] = "idle"
      PROVE  clock' - stampTaken[t] >= MaxAge
  <2>1. Stamp!Watch /\ clock' = clock
    BY <1>4 DEF Stamp!Watch, Stamp!Clock
  <2>2. newest # 0 /\ stamp = Stamp!Tick(newest) /\ stamp[2] = newest
    <3>1. stamp # Stamp!Missing
      BY <1>4, <2>1 DEF Stamp!Watch
    <3>2. QED
      BY <1>0, <1>4, <3>1 DEF StampKept, StampTrue, Stamp!Tick
  <2>3. stamp # Stamp!Missing /\ stamp # Stamp!Empty
    BY <2>2 DEF Stamp!Tick, Stamp!Missing, Stamp!Empty
  <2>4. verdict' = IF clock - stamp[2] < MaxAge THEN "ok" ELSE "stale"
    BY <2>1, <2>3 DEF Stamp!Watch
  <2>5. clock - newest >= MaxAge /\ stampTaken[t] <= newest /\ stampTaken[t] \in Nat
    BY <1>0, <1>4, <2>2, <2>4 DEF StampKept, Rests
  <2>6. QED
    BY <1>0, <2>1, <2>5
<1>5. Stamp!StampSound'
  <2>1. ~doubtful => stamp' = IF newest' = 0 THEN Stamp!Missing ELSE Stamp!Tick(newest')
    BY <1>0, <1>1 DEF StampKept, StampTrue, Stamp!Missing, Stamp!Tick
  <2>2. QED
    BY <1>1, <1>4, <2>1 DEF Stamp!StampSound, Stamp!Missing, Stamp!Tick
<1>6. QED
  BY <1>2, <1>3, <1>5 DEF StampInv

(***************************************************************************)
(* Over every run of the threads and the watchdog: StampSound              *)
(* (src/recovery.rs, capabilities/daemon-watchdog).                        *)
(***************************************************************************)
THEOREM StampSoundHolds ==
  ASSUME Stamp!StampsAssumption
  PROVE  Stamp!Spec => []Stamp!StampSound
<1>1. Stamp!Init => StampInv
  <2> SUFFICES ASSUME Stamp!Init PROVE StampInv
    OBVIOUS
  <2>1. StampType
    <3>1. /\ clock = 1 /\ newest = 0
          /\ stampDoing = [t \in Threads |-> "idle"] /\ stampTaken = [t \in Threads |-> 0]
          /\ stampHandle = [t \in Threads |-> "none"]
      BY DEF Stamp!Init
    <3>2. clock \in Nat \ {0} /\ newest \in 0 .. clock
      BY <3>1
    <3>3. QED
      BY <3>1, <3>2 DEF StampType
  <2>2. StampKept
    BY DEF Stamp!Init, StampKept, StampTrue, Rests, Writes
  <2>3. Stamp!StampSound
    BY DEF Stamp!Init, Stamp!StampSound
  <2>4. QED
    BY <2>1, <2>2, <2>3 DEF StampInv
<1>2. StampInv /\ [Stamp!Next]_(Stamp!stampVars) => StampInv'
  <2> SUFFICES ASSUME StampInv, [Stamp!Next]_(Stamp!stampVars) PROVE StampInv'
    OBVIOUS
  <2>1. ASSUME NEW t \in Threads,
               \/ Stamp!Take(t) \/ Stamp!Open(t) \/ Stamp!Fill(t) \/ Stamp!Rename(t)
               \/ Stamp!Stop(t)
        PROVE  StampInv'
    <3>1. StampType' /\ clock' = clock /\ StampType /\ StampKept
      BY <2>1, StampTyped DEF StampInv
    <3>2. StampKept'
      BY <2>1, <3>1, StampTakeStep, StampWriteStep, StampRenameStep
    <3>3. ASSUME ~doubtful', verdict' = "stale", NEW u \in Threads, stampDoing'[u] = "idle"
          PROVE  clock' - stampTaken'[u] >= MaxAge
      <4>1. CASE Stamp!Take(t)
        <5>1. u # t /\ stampTaken'[u] = stampTaken[u] /\ stampDoing[u] = "idle"
          BY <3>1, <3>3, <4>1 DEF Stamp!Take, StampType
        <5>2. verdict = "stale" /\ ~doubtful
          BY <3>3, <4>1 DEF Stamp!Take
        <5>3. QED
          BY <3>1, <5>1, <5>2 DEF StampInv, Stamp!StampSound
      <4>2. CASE Stamp!Open(t) \/ Stamp!Fill(t) \/ Stamp!Stop(t)
        BY <3>1, <3>3, <4>2, StampWriteStep DEF StampInv, Stamp!StampSound
      <4>3. CASE Stamp!Rename(t)
        BY <3>3, <4>3 DEF Stamp!Rename
      <4>4. QED
        BY <2>1, <4>1, <4>2, <4>3
    <3>4. Stamp!StampSound'
      BY <3>2, <3>3 DEF StampKept, StampTrue, Stamp!StampSound, Stamp!Missing, Stamp!Tick
    <3>5. QED
      BY <3>1, <3>2, <3>4 DEF StampInv
  <2>2. CASE UNCHANGED Stamp!stampVars
    BY <2>2
       DEF Stamp!stampVars, StampInv, StampType, StampKept, StampTrue, Rests, Writes,
           Stamp!StampSound, Stamp!Missing, Stamp!Tick
  <2>3. QED
    BY <2>1, <2>2, WatchdogStep DEF Stamp!Next
<1>3. StampInv => Stamp!StampSound
  BY DEF StampInv
<1>4. QED
  BY <1>1, <1>2, <1>3, PTL DEF Stamp!Spec

-----------------------------------------------------------------------------
\* The daemon's tick (WorkgraphTick): for every threshold and cooldown.

TickType ==
  /\ ticks \in Nat /\ failures \in Nat /\ lastSeed \in Nat
  /\ alerts \in Seq({"down", "up"})
  /\ renewals \subseteq Nat

\* The stamp is the last renewal: what the cooldown is measured from.
SeedIsLast == \A r \in renewals : r <= lastSeed

TickInv == TickType /\ SeedIsLast /\ Ticks!TickSound

(***************************************************************************)
(* An alert is sent exactly when the health changes sides, so they         *)
(* alternate (src/provider_health.rs probe_and_update, src/daemon/mod.rs). *)
(***************************************************************************)
LEMMA ProbeAlternates ==
  ASSUME Ticks!WorkgraphTickAssumption, Threshold > 0, NEW healthy \in BOOLEAN,
         TickType, Ticks!Probe(healthy),
         \A i \in DOMAIN alerts : alerts[i] = IF i % 2 = 1 THEN "down" ELSE "up",
         Ticks!Unhealthy(failures) <=> Len(alerts) % 2 = 1
  PROVE  /\ failures' \in Nat /\ alerts' \in Seq({"down", "up"})
         /\ (\A i \in DOMAIN alerts : alerts[i] = IF i % 2 = 1 THEN "down" ELSE "up")'
         /\ (Ticks!Unhealthy(failures) <=> Len(alerts) % 2 = 1)'
         /\ ~healthy \/ ~Ticks!Unhealthy(failures')
<1>0. Threshold \in Nat /\ failures \in Nat /\ alerts \in Seq({"down", "up"})
  BY DEF Ticks!WorkgraphTickAssumption, TickType
<1>1. Len(alerts) \in Nat /\ (Len(alerts) + 1) % 2 = 1 - (Len(alerts) % 2)
  BY <1>0
<1>2. failures' \in Nat /\ (~healthy \/ ~Ticks!Unhealthy(failures'))
  BY <1>0 DEF Ticks!Probe, Ticks!Unhealthy
<1>3. CASE alerts' = alerts /\ (Ticks!Unhealthy(failures') <=> Ticks!Unhealthy(failures))
  BY <1>0, <1>2, <1>3
<1>4. CASE alerts' = Append(alerts, "up") /\ Ticks!Unhealthy(failures) /\ ~Ticks!Unhealthy(failures')
  BY <1>0, <1>1, <1>2, <1>4
<1>5. CASE alerts' = Append(alerts, "down") /\ ~Ticks!Unhealthy(failures) /\ Ticks!Unhealthy(failures')
  BY <1>0, <1>1, <1>2, <1>5
<1>6. CASE healthy
  <2>1. failures' = 0 /\ ~Ticks!Unhealthy(failures')
    BY <1>0, <1>6 DEF Ticks!Probe, Ticks!Unhealthy
  <2>2. QED
    BY <1>3, <1>4, <1>6, <2>1 DEF Ticks!Probe
<1>7. CASE ~healthy
  <2>1. failures' = failures + 1
    BY <1>7 DEF Ticks!Probe
  <2>2. CASE failures + 1 = Threshold
    BY <1>0, <1>5, <1>7, <2>1, <2>2 DEF Ticks!Probe, Ticks!Unhealthy
  <2>3. CASE failures + 1 # Threshold
    BY <1>0, <1>3, <1>7, <2>1, <2>3 DEF Ticks!Probe, Ticks!Unhealthy
  <2>4. QED
    BY <2>2, <2>3
<1>8. QED
  BY <1>6, <1>7

(***************************************************************************)
(* Whatever the rest of the tick does, a renewal comes a cooldown after    *)
(* the stamp, which is the last one (src/daemon/mod.rs).                   *)
(***************************************************************************)
LEMMA RenewalsApart ==
  ASSUME Ticks!WorkgraphTickAssumption, TickInv, ticks' = ticks + 1,
         \/ Ticks!Advance
         \/ UNCHANGED <<lastSeed, renewals>>
  PROVE  /\ lastSeed' \in Nat /\ renewals' \subseteq Nat /\ SeedIsLast'
         /\ (\A i, j \in renewals : i < j => j - i >= Cooldown)'
<1>0. Cooldown \in Nat \ {0} /\ ticks \in Nat /\ lastSeed \in Nat /\ renewals \subseteq Nat
  BY DEF Ticks!WorkgraphTickAssumption, TickInv, TickType
<1>1. /\ \A r \in renewals : r <= lastSeed
      /\ \A i, j \in renewals : i < j => j - i >= Cooldown
  BY DEF TickInv, SeedIsLast, Ticks!TickSound
<1>2. CASE UNCHANGED <<lastSeed, renewals>>
  BY <1>0, <1>1, <1>2 DEF SeedIsLast
<1>3. CASE /\ renewals = {} \/ ticks + 1 - lastSeed >= Cooldown
           /\ lastSeed' = ticks + 1 /\ renewals' = renewals \cup {ticks + 1}
  <2>1. \A r \in renewals : ticks + 1 - r >= Cooldown
    BY <1>0, <1>1, <1>3
  <2>2. QED
    BY <1>0, <1>1, <1>3, <2>1 DEF SeedIsLast
<1>4. QED
  BY <1>2, <1>3 DEF Ticks!Advance

(***************************************************************************)
(* A tick, a pause and a turn keep the invariant (src/daemon/mod.rs).      *)
(***************************************************************************)
LEMMA TickStep ==
  ASSUME Ticks!WorkgraphTickAssumption, TickInv, [Ticks!Next]_(Ticks!tickVars)
  PROVE  TickInv'
<1>0. Threshold \in Nat /\ TickType
  BY DEF Ticks!WorkgraphTickAssumption, TickInv
<1>1. CASE Ticks!WgTick
  <2>0. ticks' = ticks + 1 /\ ticks' \in Nat
    BY <1>0, <1>1 DEF Ticks!WgTick, TickType
  <2>1. CASE \E why \in {"paused", "busy"} : Ticks!Skip(why) /\ UNCHANGED <<failures, alerts>>
    <3>1. /\ lastSeed' \in Nat /\ renewals' \subseteq Nat /\ SeedIsLast'
          /\ (\A i, j \in renewals : i < j => j - i >= Cooldown)'
      BY <2>0, <2>1, RenewalsApart DEF Ticks!Skip
    <3>2. QED
      BY <1>0, <2>0, <2>1, <3>1 DEF Ticks!Skip, TickInv, TickType, Ticks!TickSound, Ticks!Unhealthy
  <2>2. ASSUME NEW healthy \in BOOLEAN,
               IF Threshold > 0 THEN Ticks!Probe(healthy) ELSE UNCHANGED <<failures, alerts>>,
               IF ~healthy /\ Ticks!Unhealthy(failures') THEN Ticks!Skip("unhealthy") ELSE Ticks!Advance
        PROVE  TickInv'
    <3>1. /\ lastSeed' \in Nat /\ renewals' \subseteq Nat /\ SeedIsLast'
          /\ (\A i, j \in renewals : i < j => j - i >= Cooldown)'
      BY <2>0, <2>2, RenewalsApart DEF Ticks!Skip
    <3>2. /\ failures' \in Nat /\ alerts' \in Seq({"down", "up"})
          /\ (\A i \in DOMAIN alerts : alerts[i] = IF i % 2 = 1 THEN "down" ELSE "up")'
          /\ (Ticks!Unhealthy(failures) <=> Len(alerts) % 2 = 1)'
          /\ ~healthy \/ ~Ticks!Unhealthy(failures')
      <4>1. CASE Threshold > 0
        BY <1>0, <2>2, <4>1, ProbeAlternates DEF TickInv, Ticks!TickSound
      <4>2. CASE ~(Threshold > 0)
        BY <1>0, <2>2, <4>2 DEF TickInv, TickType, Ticks!TickSound, Ticks!Unhealthy
      <4>3. QED
        BY <4>1, <4>2
    <3>3. Ticks!Unhealthy(failures') => outcome' = "unhealthy"
      BY <2>2, <3>2 DEF Ticks!Skip
    <3>4. QED
      BY <2>0, <3>1, <3>2, <3>3 DEF TickInv, TickType, Ticks!TickSound, Ticks!Unhealthy
  <2>3. QED
    BY <1>1, <2>1, <2>2 DEF Ticks!WgTick
<1>2. CASE Ticks!Pause \/ Ticks!Turn \/ UNCHANGED Ticks!tickVars
  <2>1. UNCHANGED <<ticks, failures, alerts, lastSeed, renewals, outcome>>
    BY <1>2 DEF Ticks!Pause, Ticks!Turn, Ticks!tickVars
  <2>2. QED
    BY <2>1 DEF TickInv, TickType, SeedIsLast, Ticks!TickSound, Ticks!Unhealthy
<1>3. QED
  BY <1>1, <1>2 DEF Ticks!Next

(***************************************************************************)
(* Over every run of the workgraph thread: TickSound (src/daemon/mod.rs,   *)
(* src/provider_health.rs).                                                *)
(***************************************************************************)
THEOREM TickSoundHolds ==
  ASSUME Ticks!WorkgraphTickAssumption
  PROVE  Ticks!Spec => []Ticks!TickSound
<1>1. Ticks!Init => TickInv
  BY DEF Ticks!Init, TickInv, TickType, SeedIsLast, Ticks!TickSound, Ticks!Unhealthy, Ticks!WorkgraphTickAssumption
<1>2. TickInv /\ [Ticks!Next]_(Ticks!tickVars) => TickInv'
  BY TickStep
<1>3. TickInv => Ticks!TickSound
  BY DEF TickInv
<1>4. QED
  BY <1>1, <1>2, <1>3, PTL DEF Ticks!Spec

-----------------------------------------------------------------------------
\* One connection (Connections): for any number of requests and events.

Sent == {"event", "prompt", "notice", "error", "complete"}

LinkType ==
  /\ up \in Seq({"message", "query", "tree", "reply"})
  /\ channel \in Seq(Sent) /\ down \in Seq(Sent)
  /\ signals \in Nat

\* What the daemon has sent and the client has not read, in order.
Pipe == down \o channel

Flowing(evs) == \A i \in 1 .. Len(evs) : evs[i] \in {"event", "notice"}
EndsIn(evs, last) ==
  \E i \in 1 .. Len(evs) :
    /\ evs[i] \in last
    /\ \A j \in 1 .. Len(evs) : j < i => evs[j] \in {"event", "notice"}
    /\ \A j \in 1 .. Len(evs) : j > i => evs[j] = "notice"

\* The stages of a request, from the client's prompt to its answer.
Idle ==
  /\ handler = "read" /\ up = <<>> /\ signals = 0 /\ reader = "read"
  /\ Link!OnlyNotices(Pipe)
Asked ==
  /\ handler = "read" /\ up \in {<<"message">>, <<"query">>, <<"tree">>}
  /\ signals = 0 /\ reader = "read" /\ Link!OnlyNotices(Pipe)
Working ==
  /\ handler = "turn" /\ up = <<>> /\ signals = 0 /\ reader = "read"
  /\ Flowing(Pipe)
Prompting ==
  /\ handler = "prompt" /\ signals = 0
  /\ \/ up = <<>> /\ reader = "read" /\ EndsIn(Pipe, {"prompt"})
     \/ up = <<>> /\ reader = "prompt" /\ Link!OnlyNotices(Pipe)
     \/ up = <<"reply">> /\ reader = "read" /\ Link!OnlyNotices(Pipe)
Answered ==
  /\ handler = "read" /\ up = <<>> /\ reader = "read"
  /\ \/ signals = 0 /\ EndsIn(Pipe, Link!Terminal)
     \/ signals = 1 /\ Link!OnlyNotices(Pipe)

Live ==
  /\ handler # "gone" /\ ~subscribedTwice /\ main \in {"prompt", "waiting"}
InStep ==
  \/ main = "prompt" /\ Idle
  \/ main = "waiting" /\ (Asked \/ Working \/ Prompting \/ Answered)

\* Whose sender is dropped before the join, and what is gone afterwards.
Released ==
  /\ handler \notin {"joining", "gone"} => "body" \in senders
  /\ handler = "joining" => senders = {}
  /\ handler = "gone" => writer = "ended" /\ senders = {}

LinkInv ==
  /\ LinkType /\ Released
  /\ Live => ~shut /\ writer = "on" /\ InStep

(***************************************************************************)
(* What the writer moves from the channel to the socket stays in order     *)
(* (src/daemon/socket.rs, the writer thread).                              *)
(***************************************************************************)
LEMMA PipeWritten ==
  ASSUME NEW d \in Seq(Sent), NEW c \in Seq(Sent), c # <<>>
  PROVE  Append(d, Head(c)) \o Tail(c) = d \o c
<1>1. /\ Len(c) \in Nat \ {0} /\ Len(d) \in Nat /\ Head(c) = c[1] /\ Head(c) \in Sent
      /\ Tail(c) \in Seq(Sent) /\ Len(Tail(c)) = Len(c) - 1
      /\ \A i \in 1 .. Len(c) - 1 : Tail(c)[i] = c[i + 1]
  OBVIOUS
<1> DEFINE u == Append(d, Head(c))
           v == Tail(c)
<1>2. /\ u \in Seq(Sent) /\ Len(u) = Len(d) + 1 /\ u[Len(d) + 1] = c[1]
      /\ \A i \in 1 .. Len(d) : u[i] = d[i]
  BY <1>1
<1>3. v \in Seq(Sent) /\ Len(v) = Len(c) - 1 /\ \A i \in 1 .. Len(c) - 1 : v[i] = c[i + 1]
  BY <1>1
<1> HIDE DEF u, v
<1>4. /\ u \o v \in Seq(Sent) /\ Len(u \o v) = Len(u) + Len(v)
      /\ \A i \in 1 .. Len(u) + Len(v) :
           (u \o v)[i] = IF i <= Len(u) THEN u[i] ELSE v[i - Len(u)]
  BY <1>2, <1>3, ConcatProperties
<1>5. /\ d \o c \in Seq(Sent) /\ Len(d \o c) = Len(d) + Len(c)
      /\ \A i \in 1 .. Len(d) + Len(c) :
           (d \o c)[i] = IF i <= Len(d) THEN d[i] ELSE c[i - Len(d)]
  BY ConcatProperties
<1>6. Len(u \o v) = Len(d \o c)
  BY <1>1, <1>2, <1>3, <1>4, <1>5
<1>7. \A i \in 1 .. Len(d) + Len(c) : (u \o v)[i] = (d \o c)[i]
  <2> TAKE i \in 1 .. Len(d) + Len(c)
  <2>1. CASE i <= Len(d)
    BY <1>1, <1>2, <1>3, <1>4, <1>5, <2>1
  <2>2. CASE i = Len(d) + 1
    BY <1>1, <1>2, <1>3, <1>4, <1>5, <2>2
  <2>3. CASE i > Len(d) + 1
    <3>1. /\ ~(i <= Len(u)) /\ ~(i <= Len(d)) /\ i \in 1 .. Len(u) + Len(v)
          /\ i - Len(u) \in 1 .. Len(c) - 1 /\ i - Len(u) + 1 = i - Len(d)
      BY <1>1, <1>2, <1>3, <2>3
    <3>2. QED
      BY <1>3, <1>4, <1>5, <3>1
  <2>4. i <= Len(d) \/ i = Len(d) + 1 \/ i > Len(d) + 1
    BY <1>1
  <2>5. QED
    BY <2>1, <2>2, <2>3, <2>4
<1>8. u \o v = d \o c
  <2> DEFINE p == u \o v
             q == d \o c
  <2>1. p \in Seq(Sent) /\ q \in Seq(Sent) /\ Len(p) = Len(q)
        /\ \A i \in 1 .. Len(q) : p[i] = q[i]
    BY <1>4, <1>5, <1>6, <1>7
  <2> HIDE DEF p, q
  <2>2. p = q
    BY <2>1, SeqEqual
  <2> QED BY <2>2 DEF p, q
<1>9. QED
  BY <1>8 DEF u, v

(***************************************************************************)
(* The client reads the first of what is under way (src/client/mod.rs).    *)
(***************************************************************************)
LEMMA PipeRead ==
  ASSUME NEW d \in Seq(Sent), NEW c \in Seq(Sent), d # <<>>
  PROVE  /\ d \o c \in Seq(Sent) /\ d \o c # <<>>
         /\ Head(d) = Head(d \o c) /\ Tail(d) \o c = Tail(d \o c)
<1>1. /\ Len(d) \in Nat \ {0} /\ Len(c) \in Nat /\ Head(d) = d[1]
      /\ Tail(d) \in Seq(Sent) /\ Len(Tail(d)) = Len(d) - 1
      /\ \A i \in 1 .. Len(d) - 1 : Tail(d)[i] = d[i + 1]
  OBVIOUS
<1> DEFINE w == d \o c
           u == Tail(d) \o c
<1>2. /\ w \in Seq(Sent) /\ Len(w) = Len(d) + Len(c)
      /\ \A i \in 1 .. Len(d) : w[i] = d[i]
      /\ \A i \in Len(d) + 1 .. Len(d) + Len(c) : w[i] = c[i - Len(d)]
  BY <1>1
<1>3. /\ u \in Seq(Sent) /\ Len(u) = Len(d) - 1 + Len(c)
      /\ \A i \in 1 .. Len(d) - 1 : u[i] = d[i + 1]
      /\ \A i \in Len(d) .. Len(d) + Len(c) - 1 : u[i] = c[i - Len(d) + 1]
  BY <1>1
<1> HIDE DEF w, u
<1>4. w # <<>> /\ Head(w) = d[1]
  BY <1>1, <1>2
<1>5. /\ Tail(w) \in Seq(Sent) /\ Len(Tail(w)) = Len(w) - 1
      /\ \A i \in 1 .. Len(w) - 1 : Tail(w)[i] = w[i + 1]
  BY <1>2, <1>4
<1>6. \A i \in 1 .. Len(d) - 1 + Len(c) : u[i] = w[i + 1]
  <2> TAKE i \in 1 .. Len(d) - 1 + Len(c)
  <2>1. CASE i <= Len(d) - 1
    BY <1>1, <1>2, <1>3, <2>1
  <2>2. CASE i >= Len(d)
    BY <1>1, <1>2, <1>3, <2>2
  <2>3. QED
    BY <1>1, <2>1, <2>2
<1>7. u = Tail(w)
  BY <1>1, <1>2, <1>3, <1>5, <1>6
<1>8. QED
  BY <1>1, <1>2, <1>4, <1>7 DEF w, u

(***************************************************************************)
(* One event more at the end of what is under way, or one fewer at its     *)
(* front.                                                                  *)
(***************************************************************************)
LEMMA OneMore ==
  ASSUME NEW p \in Seq(Sent), NEW e \in Sent, NEW last
  PROVE  /\ Flowing(p) /\ e \in {"event", "notice"} => Flowing(Append(p, e))
         /\ Flowing(p) /\ e \in last => EndsIn(Append(p, e), last)
         /\ EndsIn(p, last) /\ e = "notice" => EndsIn(Append(p, e), last)
         /\ Link!OnlyNotices(p) /\ e = "notice" => Link!OnlyNotices(Append(p, e))
         /\ Link!OnlyNotices(p) => Flowing(p)
<1> DEFINE q == Append(p, e)
           n == Len(p) + 1
<1>1. /\ q \in Seq(Sent) /\ Len(q) = n /\ q[n] = e /\ n \in Nat \ {0}
      /\ \A i \in 1 .. Len(p) : q[i] = p[i]
  OBVIOUS
<1>2. Len(p) \in Nat /\ \A i \in 1 .. n : i = n \/ i \in 1 .. Len(p)
  OBVIOUS
<1> HIDE DEF q, n
<1>3. Flowing(p) /\ e \in {"event", "notice"} => Flowing(q)
  BY <1>1, <1>2 DEF Flowing
<1>4. ASSUME Flowing(p), e \in last PROVE EndsIn(q, last)
  <2>1. n \in 1 .. Len(q) /\ \A j \in 1 .. Len(q) : j <= n
    BY <1>1
  <2>2. \A j \in 1 .. Len(q) : j < n => q[j] \in {"event", "notice"}
    BY <1>1, <1>2, <1>4 DEF Flowing
  <2>3. QED
    BY <1>1, <1>4, <2>1, <2>2 DEF EndsIn
<1>5. ASSUME EndsIn(p, last), e = "notice" PROVE EndsIn(q, last)
  <2>1. PICK i \in 1 .. Len(p) :
          /\ p[i] \in last
          /\ \A j \in 1 .. Len(p) : j < i => p[j] \in {"event", "notice"}
          /\ \A j \in 1 .. Len(p) : j > i => p[j] = "notice"
    BY <1>5 DEF EndsIn
  <2>2. i \in 1 .. Len(q) /\ i < n /\ q[i] \in last
    BY <1>1, <2>1 DEF n
  <2>3. \A j \in 1 .. Len(q) : j < i => q[j] \in {"event", "notice"}
    BY <1>1, <1>2, <2>1, <2>2
  <2>4. \A j \in 1 .. Len(q) : j > i => q[j] = "notice"
    BY <1>1, <1>2, <1>5, <2>1, <2>2
  <2>5. QED
    BY <2>2, <2>3, <2>4 DEF EndsIn
<1>6. Link!OnlyNotices(p) /\ e = "notice" => Link!OnlyNotices(q)
  BY <1>1, <1>2 DEF Link!OnlyNotices
<1>7. Link!OnlyNotices(p) => Flowing(p)
  BY DEF Link!OnlyNotices, Flowing
<1>8. QED
  BY <1>3, <1>4, <1>5, <1>6, <1>7 DEF q

(***************************************************************************)
(* Reading the first event: what follows, and what it can be.              *)
(***************************************************************************)
LEMMA OneFewer ==
  ASSUME NEW p \in Seq(Sent), p # <<>>, NEW last
  PROVE  /\ Flowing(p) => Head(p) \in {"event", "notice"} /\ Flowing(Tail(p))
         /\ Link!OnlyNotices(p) => Head(p) = "notice" /\ Link!OnlyNotices(Tail(p))
         /\ EndsIn(p, last) => \/ Head(p) \in last /\ Link!OnlyNotices(Tail(p))
                               \/ Head(p) \in {"event", "notice"} /\ EndsIn(Tail(p), last)
<1> DEFINE q == Tail(p)
           h == Head(p)
<1>1. /\ q \in Seq(Sent) /\ Len(p) \in Nat \ {0} /\ Len(q) = Len(p) - 1
      /\ h = p[1] /\ \A i \in 1 .. Len(q) : q[i] = p[i + 1]
  OBVIOUS
<1>2. 1 \in 1 .. Len(p) /\ \A i \in 1 .. Len(q) : i + 1 \in 1 .. Len(p)
  BY <1>1
<1> HIDE DEF q, h
<1>3. Flowing(p) => h \in {"event", "notice"} /\ Flowing(q)
  BY <1>1, <1>2 DEF Flowing
<1>4. Link!OnlyNotices(p) => h = "notice" /\ Link!OnlyNotices(q)
  BY <1>1, <1>2 DEF Link!OnlyNotices
<1>5. ASSUME EndsIn(p, last)
      PROVE  \/ h \in last /\ Link!OnlyNotices(q)
             \/ h \in {"event", "notice"} /\ EndsIn(q, last)
  <2>1. PICK i \in 1 .. Len(p) :
          /\ p[i] \in last
          /\ \A j \in 1 .. Len(p) : j < i => p[j] \in {"event", "notice"}
          /\ \A j \in 1 .. Len(p) : j > i => p[j] = "notice"
    BY <1>5 DEF EndsIn
  <2>2. CASE i = 1
    <3>1. \A j \in 1 .. Len(q) : j + 1 > i
      BY <1>1, <2>2
    <3>2. QED
      BY <1>1, <1>2, <2>1, <2>2, <3>1 DEF Link!OnlyNotices
  <2>3. CASE i # 1
    <3>1. i - 1 \in 1 .. Len(q) /\ q[i - 1] = p[i] /\ 1 < i
      BY <1>1, <2>3
    <3>2. \A j \in 1 .. Len(q) : /\ j < i - 1 => q[j] \in {"event", "notice"}
                                 /\ j > i - 1 => q[j] = "notice"
      BY <1>1, <1>2, <2>1, <3>1
    <3>3. h \in {"event", "notice"}
      BY <1>1, <1>2, <2>1, <3>1
    <3>4. EndsIn(q, last)
      BY <2>1, <3>1, <3>2 DEF EndsIn
    <3>5. QED
      BY <3>3, <3>4
  <2>4. QED
    BY <2>2, <2>3
<1>6. QED
  BY <1>3, <1>4, <1>5 DEF q, h

(***************************************************************************)
(* A send appends to what is under way (src/daemon/socket.rs, every        *)
(* tx.send).                                                               *)
(***************************************************************************)
LEMMA PipeSent ==
  ASSUME LinkType, writer = "on", UNCHANGED down
  PROVE  /\ \A e \in Sent : Link!Tell(<<e>>) =>
              channel' \in Seq(Sent) /\ Pipe' = Append(Pipe, e)
         /\ \A e, f \in Sent : Link!Tell(<<e, f>>) =>
              channel' \in Seq(Sent) /\ Pipe' = Append(Append(Pipe, e), f)
         /\ Pipe \in Seq(Sent)
<1>1. channel \in Seq(Sent) /\ down \in Seq(Sent) /\ Pipe \in Seq(Sent)
  BY DEF LinkType, Pipe
<1>2. ASSUME NEW c \in Seq(Sent), NEW e \in Sent
      PROVE  c \o <<e>> = Append(c, e) /\ down \o Append(c, e) = Append(down \o c, e)
  BY <1>1
<1>3. ASSUME NEW e \in Sent, NEW f \in Sent
      PROVE  /\ channel \o <<e, f>> = Append(Append(channel, e), f)
             /\ Append(channel, e) \in Seq(Sent)
  BY <1>1
<1>4. ASSUME NEW e \in Sent, Link!Tell(<<e>>)
      PROVE  channel' \in Seq(Sent) /\ Pipe' = Append(Pipe, e)
  <2>1. channel' = Append(channel, e)
    BY <1>1, <1>2, <1>4 DEF Link!Tell
  <2>2. QED
    BY <1>1, <1>2, <2>1 DEF Pipe
<1>5. ASSUME NEW e \in Sent, NEW f \in Sent, Link!Tell(<<e, f>>)
      PROVE  channel' \in Seq(Sent) /\ Pipe' = Append(Append(Pipe, e), f)
  <2>1. channel' = Append(Append(channel, e), f)
    BY <1>3, <1>5 DEF Link!Tell
  <2>2. channel' \in Seq(Sent)
    BY <1>1, <1>3, <2>1
  <2>3. down \o channel' = Append(Append(down \o channel, e), f)
    <3>1. /\ down \o Append(Append(channel, e), f)
               = Append(down \o Append(channel, e), f)
          /\ down \o Append(channel, e) = Append(down \o channel, e)
      BY <1>1, <1>2, <1>3
    <3>2. QED
      BY <2>1, <3>1
  <2>4. QED
    BY <1>1, <1>2, <2>2, <2>3 DEF Pipe
<1>6. QED
  BY <1>1, <1>4, <1>5

(***************************************************************************)
(* While the client is in step, a step of the daemon keeps it so           *)
(* (src/daemon/socket.rs).                                                 *)
(***************************************************************************)
LEMMA DaemonInStep ==
  ASSUME LinkInv, Live',
         Link!DaemonSteps \/ Link!WriterSteps \/ Link!Broadcast
  PROVE  LinkType' /\ (~shut /\ writer = "on" /\ InStep)'
<1>0. Live /\ main' = main /\ shut' = shut /\ subscribedTwice' = subscribedTwice
  BY DEF Live, LinkInv, Link!DaemonSteps, Link!WriterSteps, Link!Broadcast, Link!ReadRequest,
         Link!ReadEof, Link!TurnEvent, Link!TurnEnds, Link!ReadReply, Link!DropGuard,
         Link!JoinWriter, Link!Write, Link!WriterEnds, Link!clientVars
<1>1. /\ LinkType /\ Released /\ ~shut /\ writer = "on" /\ InStep
      /\ ~subscribedTwice /\ main \in {"prompt", "waiting"}
      /\ Pipe \in Seq(Sent)
  BY <1>0 DEF LinkInv, Live, LinkType, Pipe
<1>2. handler \in {"read", "turn", "prompt"}
  BY <1>1 DEF InStep, Idle, Asked, Working, Prompting, Answered
<1>3. CASE Link!ReadRequest
  <2>1. main = "waiting" /\ Asked /\ up' = <<>>
    <3>1. main = "waiting" /\ Asked
      BY <1>1, <1>3 DEF Link!ReadRequest, InStep, Idle, Working, Prompting, Answered
    <3>2. up' = Tail(up) /\ \A r : Tail(<<r>>) = <<>>
      BY <1>3 DEF Link!ReadRequest
    <3>3. PICK r \in {"message", "query", "tree"} : up = <<r>>
      BY <3>1 DEF Asked
    <3>4. QED
      BY <3>1, <3>2, <3>3
  <2>2. UNCHANGED <<main, signals, reader, shut, down, writer>>
    BY <1>3 DEF Link!ReadRequest, Link!clientVars
  <2>3. CASE handler' = "turn" /\ channel' = channel
    <3>1. Flowing(Pipe)
      BY <1>1, <2>1, OneMore DEF Asked, Sent
    <3>2. LinkType' /\ Working'
      BY <1>1, <2>1, <2>2, <2>3, <3>1 DEF LinkType, Working, Asked, Pipe
    <3>3. QED
      BY <1>1, <2>1, <2>2, <3>2 DEF InStep
  <2>4. CASE handler' = "read" /\ Link!Tell(<<"event", "complete">>)
    <3>1. channel' \in Seq(Sent) /\ Pipe' = Append(Append(Pipe, "event"), "complete")
      BY <1>1, <2>2, <2>4, PipeSent DEF Sent
    <3>2. Append(Pipe, "event") \in Seq(Sent) /\ Flowing(Append(Pipe, "event"))
      BY <1>1, <2>1, OneMore DEF Asked, Sent
    <3>3. "complete" \in Sent /\ "complete" \in Link!Terminal
      BY DEF Sent, Link!Terminal
    <3>4. EndsIn(Append(Append(Pipe, "event"), "complete"), Link!Terminal)
      BY <3>2, <3>3, OneMore
    <3>5. LinkType' /\ Answered'
      BY <1>1, <2>1, <2>2, <2>4, <3>1, <3>4 DEF LinkType, Answered, Asked
    <3>6. QED
      BY <1>1, <2>1, <2>2, <3>5 DEF InStep
  <2>5. QED
    BY <1>0, <1>1, <1>3, <2>1, <2>3, <2>4 DEF Link!ReadRequest, Asked
<1>4. CASE Link!ReadEof \/ Link!DropGuard \/ Link!JoinWriter \/ Link!WriterEnds
  BY <1>1, <1>2, <1>4
     DEF Link!ReadEof, Link!DropGuard, Link!JoinWriter, Link!WriterEnds, Released
<1>5. CASE Link!TurnEvent
  <2>1. main = "waiting" /\ Working
    BY <1>1, <1>5 DEF Link!TurnEvent, InStep, Idle, Asked, Prompting, Answered
  <2>2. UNCHANGED <<main, signals, reader, shut, up, down, writer>>
    BY <1>5 DEF Link!TurnEvent, Link!clientVars
  <2>3. CASE Link!Tell(<<"event">>) /\ handler' = handler
    <3>1. channel' \in Seq(Sent) /\ Pipe' = Append(Pipe, "event")
      BY <1>1, <2>2, <2>3, PipeSent DEF Sent
    <3>2. Flowing(Pipe')
      BY <1>1, <2>1, <3>1, OneMore DEF Working, Sent
    <3>3. LinkType' /\ Working'
      BY <1>1, <2>1, <2>2, <2>3, <3>1, <3>2 DEF LinkType, Working
    <3>4. QED
      BY <1>1, <2>1, <2>2, <3>3 DEF InStep
  <2>4. CASE Link!Tell(<<"prompt">>) /\ handler' = "prompt"
    <3>1. channel' \in Seq(Sent) /\ Pipe' = Append(Pipe, "prompt")
      BY <1>1, <2>2, <2>4, PipeSent DEF Sent
    <3>2. "prompt" \in Sent /\ "prompt" \in {"prompt"}
      BY DEF Sent
    <3>3. EndsIn(Append(Pipe, "prompt"), {"prompt"})
      BY <1>1, <2>1, <3>2, OneMore DEF Working
    <3>4. LinkType' /\ Prompting'
      BY <1>1, <2>1, <2>2, <2>4, <3>1, <3>3 DEF LinkType, Working, Prompting
    <3>5. QED
      BY <1>1, <2>1, <2>2, <3>4 DEF InStep
  <2>5. QED
    BY <1>5, <2>3, <2>4 DEF Link!TurnEvent
<1>6. CASE Link!TurnEnds
  <2>1. main = "waiting" /\ Working
    BY <1>1, <1>6 DEF Link!TurnEnds, InStep, Idle, Asked, Prompting, Answered
  <2>2. /\ UNCHANGED <<main, signals, reader, shut, up, down, writer>>
        /\ handler' = "read"
    BY <1>6 DEF Link!TurnEnds, Link!clientVars
  <2>3. PICK e \in Link!Terminal : Link!Tell(<<e>>)
    BY <1>6 DEF Link!TurnEnds
  <2>4. e \in Sent
    BY DEF Sent, Link!Terminal
  <2>5. channel' \in Seq(Sent) /\ Pipe' = Append(Pipe, e)
    BY <1>1, <2>2, <2>3, <2>4, PipeSent
  <2>6. EndsIn(Append(Pipe, e), Link!Terminal)
    BY <1>1, <2>1, <2>4, OneMore DEF Working
  <2>7. LinkType' /\ Answered'
    BY <1>1, <2>1, <2>2, <2>5, <2>6 DEF LinkType, Working, Answered
  <2>8. QED
    BY <1>1, <2>1, <2>2, <2>7 DEF InStep
<1>7. CASE Link!ReadReply
  <2>1. main = "waiting" /\ Prompting
    BY <1>1, <1>7 DEF Link!ReadReply, InStep, Idle, Asked, Working, Answered
  <2>2. up = <<"reply">> /\ reader = "read" /\ Link!OnlyNotices(Pipe)
    BY <1>7, <2>1 DEF Link!ReadReply, Prompting
  <2>3. /\ UNCHANGED <<main, signals, reader, shut, channel, down, writer>>
        /\ handler' = "turn" /\ up' = <<>>
    BY <1>7, <2>2 DEF Link!ReadReply, Link!clientVars
  <2>4. Flowing(Pipe)
    BY <1>1, <2>2, OneMore DEF Sent
  <2>5. LinkType' /\ Working'
    BY <1>1, <2>1, <2>2, <2>3, <2>4 DEF LinkType, Working, Prompting, Pipe
  <2>6. QED
    BY <1>1, <2>1, <2>3, <2>5 DEF InStep
<1>8. CASE Link!Write
  <2>1. /\ UNCHANGED <<main, signals, reader, shut, up, handler, writer>> /\ channel # <<>>
        /\ down' = Append(down, Head(channel)) /\ channel' = Tail(channel)
    BY <1>1, <1>8 DEF Link!Write, Link!clientVars
  <2>2. Pipe' = Pipe
    BY <1>1, <2>1, PipeWritten DEF LinkType, Pipe
  <2>3. LinkType'
    BY <1>1, <2>1 DEF LinkType
  <2>4. InStep'
    BY <1>1, <2>1, <2>2 DEF InStep, Idle, Asked, Working, Prompting, Answered
  <2>5. QED
    BY <1>1, <2>1, <2>3, <2>4
<1>9. CASE Link!Broadcast
  <2>1. /\ UNCHANGED <<main, signals, reader, shut, up, handler, writer, down>>
        /\ Link!Tell(<<"notice">>)
    BY <1>1, <1>9 DEF Link!Broadcast, Link!clientVars
  <2>2. "notice" \in Sent
    BY DEF Sent
  <2>3. channel' \in Seq(Sent) /\ Pipe' = Append(Pipe, "notice")
    BY <1>1, <2>1, <2>2, PipeSent
  <2>4. /\ Flowing(Pipe) => Flowing(Pipe')
        /\ \A last : EndsIn(Pipe, last) => EndsIn(Pipe', last)
        /\ Link!OnlyNotices(Pipe) => Link!OnlyNotices(Pipe')
    BY <1>1, <2>2, <2>3, OneMore
  <2>5. LinkType'
    BY <1>1, <2>1, <2>3 DEF LinkType
  <2>6. InStep'
    BY <1>1, <2>1, <2>4 DEF InStep, Idle, Asked, Working, Prompting, Answered
  <2>7. QED
    BY <1>1, <2>1, <2>5, <2>6
<1>10. QED
  BY <1>3, <1>4, <1>5, <1>6, <1>7, <1>8, <1>9
     DEF Link!DaemonSteps, Link!WriterSteps

(***************************************************************************)
(* While the client is in step, a step of its own keeps it so              *)
(* (src/client/mod.rs, src/bin/ccli.rs).                                   *)
(***************************************************************************)
LEMMA ClientInStep ==
  ASSUME LinkInv, Live',
         \/ Link!ClientSteps \/ Link!ReaderSteps
         \/ Link!Ask \/ Link!Exit \/ Link!Answer \/ Link!Killed
  PROVE  LinkType' /\ (~shut /\ writer = "on" /\ InStep)'
<1>0. Live /\ handler' = handler /\ subscribedTwice' = subscribedTwice /\ writer' = writer
  BY DEF Live, LinkInv, Link!ClientSteps, Link!ReaderSteps, Link!Ask, Link!Exit, Link!Answer,
         Link!Killed, Link!Wake, Link!JoinReader, Link!ReadEvent, Link!ReadEnd, Link!Leave
<1>1. /\ LinkType /\ Released /\ ~shut /\ writer = "on" /\ InStep
      /\ handler # "gone" /\ main \in {"prompt", "waiting"}
      /\ Pipe \in Seq(Sent)
  BY <1>0 DEF LinkInv, Live, LinkType, Pipe
<1>2. CASE Link!Killed \/ Link!JoinReader \/ Link!Exit \/ Link!ReadEnd
  BY <1>1, <1>2 DEF Live, Link!Killed, Link!JoinReader, Link!Exit, Link!Leave, Link!ReadEnd
<1>3. CASE Link!Ask
  <2>1. Idle
    BY <1>1, <1>3 DEF InStep, Link!Ask
  <2>2. PICK r \in {"message", "query", "tree"} : up' = Append(up, r)
    BY <1>1, <1>3 DEF Link!Ask
  <2>3. /\ UNCHANGED <<signals, reader, shut, channel, down, handler, writer>>
        /\ main' = "waiting"
    BY <1>1, <1>3 DEF Link!Ask
  <2>4. up' = <<r>>
    BY <2>1, <2>2 DEF Idle
  <2>5. LinkType' /\ Asked'
    BY <1>1, <2>1, <2>3, <2>4 DEF LinkType, Idle, Asked, Pipe
  <2>6. QED
    BY <1>1, <2>3, <2>5 DEF InStep
<1>4. CASE Link!Wake
  <2>1. main = "waiting" /\ Answered /\ signals = 1 /\ Link!OnlyNotices(Pipe)
    BY <1>1, <1>4 DEF InStep, Idle, Asked, Working, Prompting, Answered, Link!Wake
  <2>2. /\ UNCHANGED <<reader, shut, up, channel, down, handler, writer>>
        /\ main' = "prompt" /\ signals' = 0
    BY <1>4, <2>1 DEF Link!Wake, Link!Leave, Live
  <2>3. LinkType' /\ Idle'
    BY <1>1, <2>1, <2>2 DEF LinkType, Idle, Answered, Pipe
  <2>4. QED
    BY <1>1, <2>2, <2>3 DEF InStep
<1>5. CASE Link!Answer
  <2>1. main = "waiting" /\ Prompting /\ up = <<>> /\ Link!OnlyNotices(Pipe)
    BY <1>1, <1>5 DEF InStep, Idle, Asked, Working, Prompting, Answered, Link!Answer
  <2>2. /\ UNCHANGED <<main, signals, shut, channel, down, handler, writer>>
        /\ reader' = "read" /\ up' = <<"reply">>
    BY <1>1, <1>5, <2>1 DEF Link!Answer
  <2>3. LinkType' /\ Prompting'
    BY <1>1, <2>1, <2>2 DEF LinkType, Prompting, Pipe
  <2>4. QED
    BY <1>1, <2>1, <2>2, <2>3 DEF InStep
<1>6. CASE Link!ReadEvent
  <2>1. /\ UNCHANGED <<main, shut, up, channel, handler, writer>>
        /\ reader = "read" /\ down # <<>> /\ down' = Tail(down)
        /\ signals' = signals + (IF Head(down) \in Link!Terminal THEN 1 ELSE 0)
        /\ reader' = IF Head(down) = "prompt" THEN "prompt" ELSE "read"
    BY <1>6 DEF Link!ReadEvent
  <2>2. Pipe # <<>> /\ Head(down) = Head(Pipe) /\ Pipe' = Tail(Pipe)
    BY <1>1, <2>1, PipeRead DEF LinkType, Pipe
  <2>3. LinkType'
    BY <1>1, <2>1 DEF LinkType
  <2>4. /\ Flowing(Pipe) => Head(Pipe) \in {"event", "notice"} /\ Flowing(Pipe')
        /\ Link!OnlyNotices(Pipe) => Head(Pipe) = "notice" /\ Link!OnlyNotices(Pipe')
        /\ \A last : EndsIn(Pipe, last) =>
             \/ Head(Pipe) \in last /\ Link!OnlyNotices(Pipe')
             \/ Head(Pipe) \in {"event", "notice"} /\ EndsIn(Pipe', last)
    BY <1>1, <2>2, OneFewer
  <2>5. CASE Head(Pipe) \in {"event", "notice"}
    <3>1. reader' = reader /\ signals' = signals
      BY <1>1, <2>1, <2>2, <2>5 DEF Link!Terminal, LinkType
    <3>2. \A last : EndsIn(Pipe, last) =>
            \/ Head(Pipe) \in last \/ EndsIn(Pipe', last)
      BY <2>4
    <3>3. "event" \notin Link!Terminal /\ "notice" \notin Link!Terminal
      BY DEF Link!Terminal
    <3>4. /\ EndsIn(Pipe, {"prompt"}) => EndsIn(Pipe', {"prompt"})
          /\ EndsIn(Pipe, Link!Terminal) => EndsIn(Pipe', Link!Terminal)
      BY <2>5, <3>2, <3>3
    <3>5. InStep'
      BY <1>1, <2>1, <2>4, <3>1, <3>4
         DEF InStep, Idle, Asked, Working, Prompting, Answered
    <3>6. QED
      BY <1>1, <2>1, <2>3, <3>5
  <2>6. CASE Head(Pipe) \notin {"event", "notice"}
    <3>1. /\ ~Flowing(Pipe) /\ ~Link!OnlyNotices(Pipe)
      BY <2>4, <2>6
    <3>2. main = "waiting" /\ (Prompting \/ Answered) /\ signals = 0 /\ up = <<>>
      BY <1>1, <2>1, <3>1 DEF InStep, Idle, Asked, Working, Prompting, Answered
    <3>3. CASE Prompting
      <4>1. Head(Pipe) = "prompt" /\ Link!OnlyNotices(Pipe')
        BY <2>1, <2>4, <2>6, <3>1, <3>3 DEF Prompting
      <4>2. reader' = "prompt" /\ signals' = 0
        BY <2>1, <2>2, <3>2, <4>1 DEF Link!Terminal
      <4>3. Prompting'
        BY <2>1, <3>2, <3>3, <4>1, <4>2 DEF Prompting
      <4>4. QED
        BY <1>1, <2>1, <2>3, <3>2, <4>3 DEF InStep
    <3>4. CASE Answered
      <4>1. Head(Pipe) \in Link!Terminal /\ Link!OnlyNotices(Pipe')
        BY <2>4, <2>6, <3>1, <3>4 DEF Answered
      <4>2. reader' = "read" /\ signals' = 1
        BY <2>1, <2>2, <3>2, <4>1 DEF Link!Terminal
      <4>3. Answered'
        BY <2>1, <3>2, <3>4, <4>1, <4>2 DEF Answered
      <4>4. QED
        BY <1>1, <2>1, <2>3, <3>2, <4>3 DEF InStep
    <3>5. QED
      BY <3>2, <3>3, <3>4
  <2>7. QED
    BY <2>5, <2>6
<1>7. QED
  BY <1>2, <1>3, <1>4, <1>5, <1>6 DEF Link!ClientSteps, Link!ReaderSteps

(***************************************************************************)
(* Every step keeps the types, and drops the senders before the handler    *)
(* joins its writer (src/daemon/bus.rs ConnGuard).                         *)
(***************************************************************************)
LEMMA LinkTyped ==
  ASSUME LinkType, Released, Link!Next
  PROVE  LinkType' /\ Released'
<1>0. /\ up \in Seq({"message", "query", "tree", "reply"})
      /\ channel \in Seq(Sent) /\ down \in Seq(Sent) /\ signals \in Nat
      /\ <<>> \in Seq({"message", "query", "tree", "reply"}) /\ <<>> \in Seq(Sent)
  BY DEF LinkType
<1>1. /\ \A e \in Sent : Link!Tell(<<e>>) => channel' \in Seq(Sent)
      /\ \A e, f \in Sent : Link!Tell(<<e, f>>) => channel' \in Seq(Sent)
  <2>1. /\ \A e \in Sent : <<e>> \in Seq(Sent)
        /\ \A e, f \in Sent : <<e, f>> \in Seq(Sent)
        /\ \A s \in Seq(Sent) : channel \o s \in Seq(Sent)
    BY <1>0
  <2>2. QED
    BY <1>0, <2>1 DEF Link!Tell
<1>2. {"event", "prompt", "notice", "error", "complete"} \subseteq Sent
  BY DEF Sent
<1>3. Link!Leave => down' \in Seq(Sent) /\ (up' = <<>> \/ up' = up)
  BY <1>0 DEF Link!Leave
<1> DEFINE Requests == {"message", "query", "tree", "reply"}
<1>4. /\ up # <<>> => Tail(up) \in Seq(Requests)
      /\ channel # <<>> => (Tail(channel) \in Seq(Sent) /\ Head(channel) \in Sent)
      /\ down # <<>> => Tail(down) \in Seq(Sent)
  BY <1>0
<1>5. /\ \A r \in Requests : Append(up, r) \in Seq(Requests)
      /\ \A e \in Sent : Append(down, e) \in Seq(Sent)
  BY <1>0
<1>6. {"message", "query", "tree", "reply"} \subseteq Requests
  OBVIOUS
<1>7. up \in Seq(Requests) /\ <<>> \in Seq(Requests)
  BY <1>0
<1> HIDE DEF Requests
<1>8. CASE Link!DaemonSteps
  <2>1. channel' \in Seq(Sent)
    <3>1. CASE Link!ReadRequest
      BY <1>0, <1>1, <1>2, <3>1 DEF Link!ReadRequest
    <3>2. CASE Link!TurnEvent \/ Link!TurnEnds
      BY <1>1, <1>2, <3>2 DEF Link!TurnEvent, Link!TurnEnds, Link!Terminal
    <3>3. CASE Link!ReadEof \/ Link!ReadReply \/ Link!DropGuard \/ Link!JoinWriter
      BY <1>0, <3>3 DEF Link!ReadEof, Link!ReadReply, Link!DropGuard, Link!JoinWriter
    <3>4. QED
      BY <1>8, <3>1, <3>2, <3>3 DEF Link!DaemonSteps
  <2>2. up' \in Seq(Requests) /\ UNCHANGED <<down, signals>>
    BY <1>4, <1>7, <1>8
       DEF Link!DaemonSteps, Link!ReadRequest, Link!ReadEof, Link!TurnEvent, Link!TurnEnds,
           Link!ReadReply, Link!DropGuard, Link!JoinWriter, Link!clientVars
  <2>3. Released'
    BY <1>8
       DEF Released, Link!DaemonSteps, Link!ReadRequest, Link!ReadEof, Link!TurnEvent,
           Link!TurnEnds, Link!ReadReply, Link!DropGuard, Link!JoinWriter
  <2>4. QED
    BY <1>0, <2>1, <2>2, <2>3 DEF LinkType, Requests
<1>9. CASE Link!WriterSteps
  <2>1. channel' \in Seq(Sent) /\ down' \in Seq(Sent)
    BY <1>0, <1>9, <1>4, <1>5 DEF Link!WriterSteps, Link!Write, Link!WriterEnds
  <2>2. UNCHANGED <<up, signals, handler, senders>> /\ (writer' = writer \/ writer' = "ended")
    BY <1>9 DEF Link!WriterSteps, Link!Write, Link!WriterEnds, Link!clientVars
  <2>3. QED
    BY <1>0, <2>1, <2>2 DEF LinkType, Released
<1>10. CASE Link!ClientSteps \/ Link!ReaderSteps \/ Link!Ask \/ Link!Exit \/ Link!Answer
           \/ Link!Killed
  <2>1. UNCHANGED <<channel, handler, senders, writer>>
    BY <1>10
       DEF Link!ClientSteps, Link!ReaderSteps, Link!Ask, Link!Exit, Link!Answer,
           Link!Killed, Link!Wake, Link!JoinReader, Link!ReadEvent, Link!ReadEnd
  <2>2. up' \in Seq(Requests)
    BY <1>3, <1>10, <1>5, <1>6, <1>7
       DEF Link!ClientSteps, Link!ReaderSteps, Link!Ask, Link!Exit, Link!Answer,
           Link!Killed, Link!Wake, Link!JoinReader, Link!ReadEvent, Link!ReadEnd
  <2>3. down' \in Seq(Sent)
    BY <1>0, <1>3, <1>10, <1>4
       DEF Link!ClientSteps, Link!ReaderSteps, Link!Ask, Link!Exit, Link!Answer,
           Link!Killed, Link!Wake, Link!JoinReader, Link!ReadEvent, Link!ReadEnd
  <2>4. signals' \in Nat
    BY <1>0, <1>10
       DEF Link!ClientSteps, Link!ReaderSteps, Link!Ask, Link!Exit, Link!Answer,
           Link!Killed, Link!Wake, Link!JoinReader, Link!ReadEvent, Link!ReadEnd
  <2>5. QED
    BY <1>0, <2>1, <2>2, <2>3, <2>4 DEF LinkType, Released, Requests
<1>11. CASE Link!Broadcast
  <2>1. channel' \in Seq(Sent)
    BY <1>1, <1>2, <1>11 DEF Link!Broadcast
  <2>2. QED
    BY <1>0, <1>11, <2>1 DEF Link!Broadcast, LinkType, Released, Link!clientVars
<1>12. CASE Link!DaemonExits
  BY <1>0, <1>12 DEF Link!DaemonExits, LinkType, Released, Link!clientVars
<1>13. QED
  BY <1>8, <1>9, <1>10, <1>11, <1>12 DEF Link!Next

(***************************************************************************)
(* Every step of a connection keeps the invariant.                         *)
(***************************************************************************)
LEMMA LinkStep ==
  ASSUME LinkInv, [Link!Next]_(Link!connectionVars)
  PROVE  LinkInv'
<1>1. CASE Link!Next
  <2>1. LinkType' /\ Released'
    BY <1>1, LinkTyped DEF LinkInv
  <2>2. CASE Live'
    <3>1. ~Link!DaemonExits
      BY <2>2 DEF Live, Link!DaemonExits
    <3>2. QED
      BY <1>1, <2>1, <2>2, <3>1, DaemonInStep, ClientInStep DEF Link!Next, LinkInv
  <2>3. QED
    BY <2>1, <2>2 DEF LinkInv
<1>2. CASE UNCHANGED Link!connectionVars
  BY <1>2
     DEF Link!connectionVars, LinkInv, LinkType, Released, Live, InStep, Idle, Asked, Working,
         Prompting, Answered, Pipe
<1>3. QED
  BY <1>1, <1>2

(***************************************************************************)
(* Over every run of a connection: ConnectionSound (src/daemon/socket.rs,  *)
(* src/client/mod.rs).                                                     *)
(***************************************************************************)
THEOREM ConnectionSoundHolds == Link!Spec => []Link!ConnectionSound
<1>1. Link!Init => LinkInv
  BY DEF Link!Init, LinkInv, LinkType, Released, Live, InStep, Idle, Pipe, Link!OnlyNotices
<1>2. LinkInv /\ [Link!Next]_(Link!connectionVars) => LinkInv'
  BY LinkStep
<1>3. LinkInv => Link!ConnectionSound
  <2> SUFFICES ASSUME LinkInv PROVE Link!ConnectionSound
    OBVIOUS
  <2>1. LinkType /\ Released /\ (Live => ~shut /\ writer = "on" /\ InStep)
    BY DEF LinkInv
  <2>2. ASSUME main = "prompt", handler # "gone", ~subscribedTwice
        PROVE  /\ handler = "read" /\ up = <<>> /\ signals = 0 /\ reader = "read"
               /\ Link!OnlyNotices(channel) /\ Link!OnlyNotices(down)
    <3>1. Idle
      BY <2>1, <2>2 DEF Live, InStep
    <3>2. channel \in Seq(Sent) /\ down \in Seq(Sent) /\ Link!OnlyNotices(down \o channel)
      BY <2>1, <3>1 DEF LinkType, Idle, Pipe
    <3>3. /\ Len(channel) \in Nat /\ Len(down) \in Nat
          /\ Len(down \o channel) = Len(down) + Len(channel)
          /\ \A i \in 1 .. Len(down) : (down \o channel)[i] = down[i]
          /\ \A i \in 1 .. Len(channel) : (down \o channel)[Len(down) + i] = channel[i]
      BY <3>2
    <3>4. Link!OnlyNotices(channel) /\ Link!OnlyNotices(down)
      <4>1. \A i \in 1 .. Len(down) : i \in 1 .. Len(down \o channel)
        BY <3>3
      <4>2. \A i \in 1 .. Len(channel) : Len(down) + i \in 1 .. Len(down \o channel)
        BY <3>3
      <4>3. \A i \in 1 .. Len(down \o channel) : (down \o channel)[i] = "notice"
        BY <3>2 DEF Link!OnlyNotices
      <4>4. QED
        BY <3>3, <4>1, <4>2, <4>3 DEF Link!OnlyNotices
    <3>5. QED
      BY <3>1, <3>4 DEF Idle
  <2>3. QED
    BY <2>1, <2>2 DEF Released, Link!ConnectionSound
<1>4. QED
  BY <1>1, <1>2, <1>3, PTL DEF Link!Spec

-----------------------------------------------------------------------------
\* The live page (Visual): for any number of events and versions.

KeptEvent == [n : Nat, kind : {"event", "graph"}]

PageType ==
  /\ disk \in Nat /\ notified \in Nat /\ lastRead \in Nat /\ quiet \in BOOLEAN
  /\ ingested \in Nat /\ since \in Nat /\ known \in Nat /\ swallowed \in BOOLEAN
  /\ buffer \in Seq(KeptEvent) /\ queue \in Seq(KeptEvent) /\ seen \in Seq(Nat)
  /\ pageAsked \in Nat /\ latest \in Nat /\ older \subseteq Nat
  /\ missed \in BOOLEAN /\ overtaken \in BOOLEAN

\* The last Len(evs) events that the router has taken, in order.
Trailing(evs) ==
  \A i \in 1 .. Len(evs) : evs[i].n = ingested - Len(evs) + i

\* What the page has seen: up to k what it was sent to catch up, all of it
\* taken by w, and then every event since it registered.
SeenAs(k, w) ==
  /\ \A i \in 1 .. k : seen[i] <= w
  /\ \A i, j \in 1 .. k : i < j => seen[i] < seen[j]
  /\ \A i \in k + 1 .. Len(seen) : seen[i] = since + (i - k)
  /\ Len(seen) - k = ingested - Len(queue) - since

\* The page shows, or is about to show, what the watcher last announced, or
\* has yet to read it.
Told ==
  \/ pageAsked > 0 \/ missed \/ overtaken
  \/ page \in {"registered", "live"} /\ \E i \in 1 .. Len(queue) : queue[i].kind = "graph"
  \/ lastRead <= (IF latest # 0 THEN latest ELSE known)

\* Whether the watcher has read the file; nobody has read what is not there.
Watched ==
  /\ lastRead <= disk /\ known <= disk /\ latest <= disk /\ \A v \in older : v <= disk
  /\ notified = 0 /\ ~swallowed => lastRead = disk
  /\ Told

Queued ==
  /\ Len(buffer) <= ingested /\ Trailing(buffer)
  /\ page \in {"registered", "live"} =>
       since <= ingested /\ since + Len(queue) <= ingested /\ Trailing(queue)
  /\ page = "registered" =>
       Len(queue) = ingested - since /\ window = since + 1 .. ingested
  /\ page = "live" =>
       \E w \in since .. ingested : \E k \in 0 .. Len(seen) :
         window = since + 1 .. w /\ SeenAs(k, w)

PageInv == PageType /\ Watched /\ Queued

(***************************************************************************)
(* The last n of a sequence (src/visual/event_router.rs, the ring buffer). *)
(***************************************************************************)
LEMMA LastOfSequence ==
  ASSUME NEW S, NEW s \in Seq(S), NEW n \in Nat
  PROVE  /\ Page!LastOf(s, n) \in Seq(S) /\ Len(Page!LastOf(s, n)) \in 0 .. Len(s)
         /\ \A i \in 1 .. Len(Page!LastOf(s, n)) :
              Page!LastOf(s, n)[i] = s[Len(s) - Len(Page!LastOf(s, n)) + i]
<1>1. CASE Len(s) <= n
  BY <1>1 DEF Page!LastOf
<1>2. CASE ~(Len(s) <= n)
  <2> DEFINE m == Len(s) - n + 1
  <2>1. Page!LastOf(s, n) = SubSeq(s, m, Len(s)) /\ m \in 1 .. Len(s) + 1 /\ Len(s) \in Nat
    BY <1>2 DEF Page!LastOf
  <2> HIDE DEF m
  <2>2. \A i \in m .. Len(s) : s[i] \in S
    BY <2>1
  <2>3. /\ SubSeq(s, m, Len(s)) \in Seq(S)
        /\ Len(SubSeq(s, m, Len(s))) = IF m <= Len(s) THEN Len(s) - m + 1 ELSE 0
        /\ \A i \in 1 .. Len(s) - m + 1 : SubSeq(s, m, Len(s))[i] = s[m + i - 1]
    BY <2>1, <2>2, SubSeqProperties
  <2>4. Len(SubSeq(s, m, Len(s))) = n /\ Len(s) - m + 1 = n
    BY <1>2, <2>3 DEF m
  <2>5. \A i \in 1 .. n : m + i - 1 = Len(s) - n + i
    BY <2>1 DEF m
  <2>6. /\ Len(Page!LastOf(s, n)) = n /\ n \in 0 .. Len(s)
        /\ Page!LastOf(s, n) \in Seq(S)
    BY <1>2, <2>1, <2>3, <2>4
  <2>7. \A i \in 1 .. n : Page!LastOf(s, n)[i] = s[Len(s) - n + i]
    BY <2>1, <2>3, <2>4, <2>5
  <2>8. QED
    BY <2>6, <2>7
<1>3. QED
  BY <1>1, <1>2

(***************************************************************************)
(* An event that the router takes is kept last, and queued last for a      *)
(* page that has registered (src/visual/event_router.rs ingest).           *)
(***************************************************************************)
LEMMA IngestKept ==
  ASSUME Page!VisualAssumption, PageType, Queued, NEW kind \in {"event", "graph"},
         Page!Ingest(kind), UNCHANGED <<page, since, seen>>
  PROVE  /\ ingested' = ingested + 1 /\ ingested' \in Nat
         /\ buffer' \in Seq(KeptEvent) /\ queue' \in Seq(KeptEvent)
         /\ Queued'
         /\ page \in {"registered", "live"} =>
              queue' = Append(queue, [n |-> ingested + 1, kind |-> kind])
<1> DEFINE ev == [n |-> ingested + 1, kind |-> kind]
           more == Append(buffer, ev)
<1>1. /\ ingested \in Nat /\ since \in Nat /\ buffer \in Seq(KeptEvent)
      /\ queue \in Seq(KeptEvent) /\ seen \in Seq(Nat) /\ BufferMax \in Nat \ {0}
  BY DEF PageType, Page!VisualAssumption
<1>2. ev \in KeptEvent /\ ev.n = ingested + 1
  BY <1>1 DEF KeptEvent
<1>3. /\ ingested' = ingested + 1 /\ buffer' = Page!LastOf(more, BufferMax)
      /\ queue' = IF page = "off" THEN queue ELSE Append(queue, ev)
      /\ window' = IF page = "registered" THEN window \cup {ingested + 1} ELSE window
  BY DEF Page!Ingest
<1> HIDE DEF ev
<1>4. /\ more \in Seq(KeptEvent) /\ Len(more) = Len(buffer) + 1
      /\ more[Len(buffer) + 1] = ev /\ \A i \in 1 .. Len(buffer) : more[i] = buffer[i]
      /\ Len(buffer) \in Nat
  BY <1>1, <1>2
<1> HIDE DEF more
<1>5. \A i \in 1 .. Len(more) : more[i].n = ingested + 1 - Len(more) + i
  <2>1. \A i \in 1 .. Len(buffer) : buffer[i].n = ingested - Len(buffer) + i
    BY DEF Queued, Trailing
  <2>2. TAKE i \in 1 .. Len(more)
  <2>3. CASE i \in 1 .. Len(buffer)
    BY <1>1, <1>4, <2>1, <2>3
  <2>4. CASE i = Len(buffer) + 1
    BY <1>1, <1>2, <1>4, <2>4
  <2>5. QED
    BY <1>4, <2>3, <2>4
<1>6. /\ buffer' \in Seq(KeptEvent) /\ Len(buffer') \in 0 .. Len(more)
      /\ \A i \in 1 .. Len(buffer') : buffer'[i] = more[Len(more) - Len(buffer') + i]
  BY <1>1, <1>3, <1>4, LastOfSequence
<1>7. Trailing(buffer)'
  <2>1. \A i \in 1 .. Len(buffer') : Len(more) - Len(buffer') + i \in 1 .. Len(more)
    BY <1>4, <1>6
  <2>2. \A i \in 1 .. Len(buffer') :
          buffer'[i].n = ingested + 1 - Len(more) + (Len(more) - Len(buffer') + i)
    BY <1>5, <1>6, <2>1
  <2>3. \A i \in 1 .. Len(buffer') : buffer'[i].n = ingested' - Len(buffer') + i
    BY <1>1, <1>3, <1>4, <1>6, <2>2
  <2>4. QED
    BY <2>3 DEF Trailing
<1>8. Len(buffer') <= ingested'
  BY <1>1, <1>3, <1>4, <1>6 DEF Queued
<1>9. queue' \in Seq(KeptEvent)
  BY <1>1, <1>2, <1>3
<1>10. ASSUME page \in {"registered", "live"}
       PROVE  /\ queue' = Append(queue, ev) /\ Len(queue') = Len(queue) + 1
              /\ Len(queue) \in Nat /\ Trailing(queue)'
              /\ since <= ingested' /\ since + Len(queue') <= ingested'
  <2>1. queue' = Append(queue, ev)
    BY <1>3, <1>10
  <2>2. /\ Len(queue') = Len(queue) + 1 /\ Len(queue) \in Nat
        /\ queue'[Len(queue) + 1] = ev /\ \A i \in 1 .. Len(queue) : queue'[i] = queue[i]
    BY <1>1, <1>2, <2>1
  <2>3. /\ since <= ingested /\ since + Len(queue) <= ingested
        /\ \A i \in 1 .. Len(queue) : queue[i].n = ingested - Len(queue) + i
    BY <1>10 DEF Queued, Trailing
  <2>4. \A i \in 1 .. Len(queue') : queue'[i].n = ingested' - Len(queue') + i
    <3>1. /\ ingested' - Len(queue') = ingested - Len(queue)
          /\ ingested - Len(queue) + (Len(queue) + 1) = ingested + 1
      BY <1>1, <1>3, <2>2
    <3> TAKE i \in 1 .. Len(queue')
    <3>2. CASE i \in 1 .. Len(queue)
      BY <2>2, <2>3, <3>1, <3>2
    <3>3. CASE i = Len(queue) + 1
      <4>1. queue'[i].n = ingested + 1
        BY <1>2, <2>2, <3>3
      <4>2. QED
        BY <3>1, <3>3, <4>1
    <3>4. QED
      BY <2>2, <3>2, <3>3
  <2>5. since <= ingested' /\ since + Len(queue') <= ingested'
    BY <1>1, <1>3, <2>2, <2>3
  <2>6. QED
    BY <2>1, <2>2, <2>4, <2>5 DEF Trailing
<1>11. ASSUME page = "registered"
       PROVE  Len(queue') = ingested' - since /\ window' = since + 1 .. ingested'
  <2>1. Len(queue) = ingested - since /\ window = since + 1 .. ingested /\ since <= ingested
    BY <1>11 DEF Queued
  <2>2. since + 1 .. ingested + 1 = (since + 1 .. ingested) \cup {ingested + 1}
    BY <1>1, <2>1
  <2>3. QED
    BY <1>1, <1>3, <1>10, <1>11, <2>1, <2>2
<1>12. ASSUME page = "live"
       PROVE  \E w \in since .. ingested' : \E k \in 0 .. Len(seen) :
                window' = since + 1 .. w /\ SeenAs(k, w)'
  <2>1. PICK w \in since .. ingested, k \in 0 .. Len(seen) :
          window = since + 1 .. w /\ SeenAs(k, w)
    BY <1>12 DEF Queued
  <2>2. ingested' - Len(queue') - since = ingested - Len(queue) - since
    BY <1>1, <1>3, <1>10, <1>12
  <2>3. SeenAs(k, w)'
    BY <2>1, <2>2 DEF SeenAs
  <2>4. w \in since .. ingested' /\ window' = window
    BY <1>1, <1>3, <1>12
  <2>5. QED
    BY <2>1, <2>3, <2>4
<1>13. Queued'
  BY <1>7, <1>8, <1>10, <1>11, <1>12 DEF Queued
<1>14. QED
  BY <1>1, <1>3, <1>6, <1>9, <1>10, <1>13 DEF ev

(***************************************************************************)
(* The page that registers, catches up, is sent an event, closes or is     *)
(* dropped keeps the invariant (src/visual/http_server.rs serve_sse).      *)
(***************************************************************************)
LEMMA ServeStep ==
  ASSUME Page!VisualAssumption, PageInv,
         Page!Register \/ Page!CatchUp \/ Page!Forward \/ Page!Close \/ Page!Drop \/ Page!Load
  PROVE  PageInv'
<1>1. /\ PageType /\ Watched /\ Queued /\ CatchUpCount \in Nat \ {0}
      /\ ingested \in Nat /\ since \in Nat /\ buffer \in Seq(KeptEvent)
      /\ queue \in Seq(KeptEvent) /\ seen \in Seq(Nat) /\ disk \in Nat /\ known \in Nat
      /\ pageAsked \in Nat
      /\ Len(queue) \in Nat /\ Len(buffer) \in Nat /\ Len(seen) \in Nat
  BY DEF PageInv, PageType, Page!VisualAssumption
<1>2. UNCHANGED <<disk, notified, lastRead, quiet, swallowed, ingested, buffer>>
  BY DEF Page!Register, Page!CatchUp, Page!Forward, Page!Close, Page!Drop, Page!Load,
         Page!watcherVars, Page!routerVars
<1>3. Trailing(buffer) /\ Trailing(buffer)' /\ Len(buffer) <= ingested
  BY <1>1, <1>2 DEF Queued, Trailing
<1>4. CASE Page!Register
  <2>1. /\ page \notin {"registered", "live"}
        /\ page' = "registered" /\ queue' = <<>> /\ since' = ingested /\ window' = {}
        /\ seen' = <<>> /\ UNCHANGED <<known, pageAsked, older, latest, overtaken, missed>>
    BY <1>4 DEF Page!Register, Page!fetchVars, Page!Connected
  <2>2. PageType'
    BY <1>1, <1>2, <2>1 DEF PageType
  <2>3. Watched'
    BY <1>1, <1>2, <2>1 DEF Watched, Told
  <2>4. /\ Len(queue') = 0 /\ ingested' - since' = 0 /\ since' + 1 .. ingested' = {}
        /\ since' <= ingested' /\ since' + Len(queue') <= ingested'
    BY <1>1, <1>2, <2>1
  <2>5. Trailing(queue)'
    BY <2>4 DEF Trailing
  <2>6. Queued'
    BY <1>1, <1>2, <1>3, <2>1, <2>4, <2>5 DEF Queued
  <2>7. QED
    BY <2>2, <2>3, <2>6 DEF PageInv
<1>5. CASE Page!Close \/ Page!Drop \/ Page!Load
  <2>1. /\ page' \in {"closed", "off"} /\ queue' \in {queue, <<>>}
        /\ seen' \in {seen, <<>>} /\ since' \in {since, 0}
    BY <1>5 DEF Page!Close, Page!Drop, Page!Load, Page!routerVars
  <2>2. \/ /\ UNCHANGED <<known, pageAsked, older, latest, overtaken>>
           /\ missed' \in BOOLEAN /\ (missed => missed')
           /\ \A i \in 1 .. Len(queue) :
                page \in {"registered", "live"} /\ queue[i].kind = "graph" => missed'
        \/ /\ known' = 0 /\ pageAsked' = 1 /\ older' = {} /\ latest' = 0
           /\ overtaken' = FALSE /\ missed' = FALSE
    <3>1. CASE Page!Close
      <4>1. /\ UNCHANGED <<known, pageAsked, older, latest, overtaken>>
            /\ missed' = (missed \/ \E i \in DOMAIN queue : queue[i].kind = "graph")
        BY <3>1 DEF Page!Close, Page!fetchVars
      <4>2. DOMAIN queue = 1 .. Len(queue) /\ missed \in BOOLEAN
        BY <1>1 DEF PageType
      <4>3. QED
        BY <4>1, <4>2
    <3>2. CASE Page!Drop
      BY <1>1, <3>2 DEF Page!Drop, Page!fetchVars, PageType
    <3>3. QED
      BY <1>5, <3>1, <3>2 DEF Page!Load
  <2>3. PageType'
    <3>1. queue' \in Seq(KeptEvent) /\ seen' \in Seq(Nat) /\ since' \in Nat
      <4>1. <<>> \in Seq(KeptEvent) /\ <<>> \in Seq(Nat) /\ 0 \in Nat
        OBVIOUS
      <4>2. QED
        BY <1>1, <2>1, <4>1
    <3>2. /\ known' \in Nat /\ pageAsked' \in Nat /\ latest' \in Nat /\ older' \subseteq Nat
          /\ missed' \in BOOLEAN /\ overtaken' \in BOOLEAN
      <4>1. /\ missed \in BOOLEAN /\ overtaken \in BOOLEAN /\ latest \in Nat
            /\ older \subseteq Nat /\ {} \subseteq Nat
        BY <1>1 DEF PageType
      <4>2. QED
        <5>1. older' = older \/ older' = {}
          BY <2>2
        <5>2. /\ known' = known \/ known' = 0
              /\ pageAsked' = pageAsked \/ pageAsked' = 1
              /\ latest' = latest \/ latest' = 0
          BY <2>2
        <5>3. missed' \in BOOLEAN /\ (overtaken' = overtaken \/ overtaken' = FALSE)
          BY <2>2
        <5>4. older' \subseteq Nat
          BY <4>1, <5>1
        <5>5. known' \in Nat /\ pageAsked' \in Nat /\ latest' \in Nat
          BY <1>1, <4>1, <5>2
        <5>6. overtaken' \in BOOLEAN
          BY <4>1, <5>3
        <5>7. QED
          BY <5>3, <5>4, <5>5, <5>6
    <3>3. QED
      BY <1>1, <1>2, <3>1, <3>2 DEF PageType
  <2>4. Watched'
    <3>1. /\ lastRead' <= disk' /\ known' <= disk' /\ latest' <= disk'
          /\ \A v \in older' : v <= disk'
          /\ notified' = 0 /\ ~swallowed' => lastRead' = disk'
      BY <1>1, <1>2, <2>2 DEF Watched
    <3>2. Told'
      BY <1>1, <1>2, <2>2 DEF Watched, Told
    <3>3. QED
      BY <3>1, <3>2 DEF Watched
  <2>5. Queued'
    BY <1>1, <1>2, <1>3, <2>1 DEF Queued
  <2>6. QED
    BY <2>3, <2>4, <2>5 DEF PageInv
<1>6. CASE Page!CatchUp
  <2> DEFINE last == Page!LastOf(buffer, CatchUpCount)
  <2>1. /\ page = "registered" /\ page' = "live"
        /\ seen' = [i \in 1 .. Len(last) |-> last[i].n]
        /\ UNCHANGED <<queue, since, window, known, pageAsked, older, latest, overtaken, missed>>
    BY <1>6 DEF Page!CatchUp, Page!routerVars, Page!fetchVars
  <2>2. /\ last \in Seq(KeptEvent) /\ Len(last) \in 0 .. Len(buffer)
        /\ \A i \in 1 .. Len(last) : last[i] = buffer[Len(buffer) - Len(last) + i]
    BY <1>1, LastOfSequence
  <2> HIDE DEF last
  <2>3. \A i \in 1 .. Len(last) : last[i].n = ingested - Len(last) + i
    <3>1. \A i \in 1 .. Len(last) : Len(buffer) - Len(last) + i \in 1 .. Len(buffer)
      BY <1>1, <2>2
    <3>2. \A i \in 1 .. Len(last) :
            last[i].n = ingested - Len(buffer) + (Len(buffer) - Len(last) + i)
      BY <1>3, <2>2, <3>1 DEF Trailing
    <3>3. QED
      BY <1>1, <2>2, <3>2
  <2>4. \A i \in 1 .. Len(last) : last[i].n \in Nat
    BY <1>1, <1>3, <2>2, <2>3
  <2>5. /\ seen' \in Seq(Nat) /\ Len(seen') = Len(last)
        /\ \A i \in 1 .. Len(seen') : seen'[i] = ingested - Len(last) + i
    BY <2>1, <2>2, <2>3, <2>4
  <2>6. PageType'
    BY <1>1, <1>2, <2>1, <2>5 DEF PageType
  <2>7. Watched'
    BY <1>1, <1>2, <2>1 DEF Watched, Told
  <2>8. /\ since <= ingested /\ since + Len(queue) <= ingested /\ Trailing(queue)
        /\ Len(queue) = ingested - since /\ window = since + 1 .. ingested
    BY <1>1, <2>1 DEF Queued
  <2>9. PICK k \in Nat, w \in Nat : k = Len(last) /\ w = ingested
    BY <1>1, <2>2
  <2>10. SeenAs(k, w)'
    <3>1. \A i \in 1 .. k : seen'[i] <= w
      BY <1>1, <2>2, <2>5, <2>9
    <3>2. \A i, j \in 1 .. k : i < j => seen'[i] < seen'[j]
      BY <1>1, <2>2, <2>5, <2>9
    <3>3. Len(seen') - k = ingested' - Len(queue') - since'
      BY <1>1, <1>2, <2>1, <2>2, <2>5, <2>8, <2>9
    <3>4. \A i \in k + 1 .. Len(seen') : seen'[i] = since' + (i - k)
      BY <1>1, <2>2, <2>5, <2>9
    <3>5. QED
      BY <3>1, <3>2, <3>3, <3>4 DEF SeenAs
  <2>11. Queued'
    <3>1. Trailing(queue)'
      BY <1>2, <2>1, <2>8 DEF Trailing
    <3>2. /\ w \in since' .. ingested' /\ k \in 0 .. Len(seen')
          /\ window' = since' + 1 .. w
      BY <1>1, <1>2, <2>1, <2>2, <2>5, <2>8, <2>9
    <3>3. QED
      BY <1>1, <1>2, <1>3, <2>1, <2>8, <2>10, <3>1, <3>2 DEF Queued
  <2>12. QED
    BY <2>6, <2>7, <2>11 DEF PageInv
<1>7. CASE Page!Forward
  <2>1. /\ page = "live" /\ queue # <<>> /\ queue' = Tail(queue)
        /\ seen' = Append(seen, Head(queue).n)
        /\ pageAsked' = IF Head(queue).kind = "graph" THEN pageAsked + 1 ELSE pageAsked
        /\ UNCHANGED <<page, since, window, known, older, latest, overtaken, missed>>
    BY <1>7 DEF Page!Forward, Page!Ask
  <2>2. /\ Head(queue) = queue[1] /\ Len(queue) >= 1 /\ queue' \in Seq(KeptEvent)
        /\ Len(queue') = Len(queue) - 1 /\ Head(queue) \in KeptEvent
        /\ \A i \in 1 .. Len(queue) - 1 : queue'[i] = queue[i + 1]
    BY <1>1, <2>1
  <2>3. /\ since <= ingested /\ since + Len(queue) <= ingested
        /\ \A i \in 1 .. Len(queue) : queue[i].n = ingested - Len(queue) + i
    BY <1>1, <2>1 DEF Queued, Trailing
  <2>4. Head(queue).n = ingested - Len(queue) + 1 /\ Head(queue).n \in Nat
    BY <1>1, <2>2, <2>3 DEF KeptEvent
  <2>5. /\ seen' \in Seq(Nat) /\ Len(seen') = Len(seen) + 1
        /\ \A i \in 1 .. Len(seen) : seen'[i] = seen[i]
        /\ seen'[Len(seen) + 1] = ingested - Len(queue) + 1
    BY <1>1, <2>1, <2>4
  <2>6. PageType'
    BY <1>1, <1>2, <2>1, <2>2, <2>5 DEF PageType
  <2>7. Watched'
    <3>1. ASSUME NEW i \in 1 .. Len(queue), queue[i].kind = "graph", pageAsked' = pageAsked
          PROVE  \E m \in 1 .. Len(queue') : queue'[m].kind = "graph"
      <4>1. Head(queue).kind # "graph"
        BY <1>1, <2>1, <3>1
      <4>2. i # 1
        BY <2>2, <3>1, <4>1
      <4>3. i - 1 \in 1 .. Len(queue') /\ queue'[i - 1] = queue[i]
        BY <1>1, <2>2, <4>2
      <4>4. QED
        BY <3>1, <4>3
    <3>2. pageAsked' = pageAsked \/ pageAsked' > 0
      BY <1>1, <2>1
    <3>3. Told'
      BY <1>1, <1>2, <2>1, <3>1, <3>2 DEF Watched, Told
    <3>4. QED
      BY <1>1, <1>2, <2>1, <3>3 DEF Watched
  <2>8. Trailing(queue)'
    <3>1. \A i \in 1 .. Len(queue') : i + 1 \in 1 .. Len(queue)
      BY <1>1, <2>2
    <3>2. \A i \in 1 .. Len(queue') : queue'[i].n = ingested - Len(queue) + (i + 1)
      BY <2>2, <2>3, <3>1
    <3>3. QED
      BY <1>1, <1>2, <2>2, <3>2 DEF Trailing
  <2>9. \E w \in since .. ingested : \E k \in 0 .. Len(seen') :
          window' = since + 1 .. w /\ SeenAs(k, w)'
    <3>1. PICK w \in since .. ingested, k \in 0 .. Len(seen) :
            window = since + 1 .. w /\ SeenAs(k, w)
      BY <1>1, <2>1 DEF Queued
    <3>2. /\ \A i \in 1 .. k : seen[i] <= w
          /\ \A i, j \in 1 .. k : i < j => seen[i] < seen[j]
          /\ \A i \in k + 1 .. Len(seen) : seen[i] = since + (i - k)
          /\ Len(seen) - k = ingested - Len(queue) - since
      BY <3>1 DEF SeenAs
    <3>3. k \in 0 .. Len(seen') /\ k \in Nat /\ \A i \in 1 .. k : i \in 1 .. Len(seen)
      BY <1>1, <2>5, <3>1
    <3>4. /\ \A i \in 1 .. k : seen'[i] <= w
          /\ \A i, j \in 1 .. k : i < j => seen'[i] < seen'[j]
      BY <2>5, <3>2, <3>3
    <3>5. \A i \in k + 1 .. Len(seen') : seen'[i] = since + (i - k)
      <4> TAKE i \in k + 1 .. Len(seen')
      <4>1. CASE i = Len(seen) + 1
        <5>1. \A a, b, c, d, e \in Int : a - b = c - d - e => c - d + 1 = e + (a + 1 - b)
          OBVIOUS
        <5>2. ingested - Len(queue) + 1 = since + (Len(seen) + 1 - k)
          <6>1. /\ Len(seen) \in Int /\ Len(queue) \in Int /\ k \in Int
                /\ ingested \in Int /\ since \in Int
            BY <1>1, <3>3
          <6>2. Len(seen) - k = ingested - Len(queue) - since
            BY <3>2
          <6>3. QED
            BY <5>1, <6>1, <6>2
        <5>3. since + (i - k) = since + (Len(seen) + 1 - k)
          BY <4>1
        <5>4. seen'[i] = ingested - Len(queue) + 1
          BY <2>5, <4>1
        <5>5. QED
          BY <5>2, <5>3, <5>4
      <4>2. CASE i # Len(seen) + 1
        <5>1. i \in k + 1 .. Len(seen) /\ i \in 1 .. Len(seen)
          BY <1>1, <2>5, <3>3, <4>2
        <5>2. QED
          BY <2>5, <3>2, <5>1
      <4>3. QED
        BY <4>1, <4>2
    <3>6. Len(seen') - k = ingested - Len(queue') - since
      <4>1. \A a, b, c, d, e \in Int : a - b = c - d - e => (a + 1) - b = c - (d - 1) - e
        OBVIOUS
      <4>2. /\ Len(seen) \in Int /\ Len(queue) \in Int /\ k \in Int
            /\ ingested \in Int /\ since \in Int
        BY <1>1, <3>3
      <4>3. Len(seen) - k = ingested - Len(queue) - since
        BY <3>2
      <4>4. Len(seen') = Len(seen) + 1 /\ Len(queue') = Len(queue) - 1
        BY <2>2, <2>5
      <4>5. QED
        BY <4>1, <4>2, <4>3, <4>4
    <3>7. SeenAs(k, w)'
      BY <1>2, <2>1, <3>4, <3>5, <3>6 DEF SeenAs
    <3>8. QED
      BY <2>1, <3>1, <3>3, <3>7
  <2>10. Queued'
    <3>1. since' <= ingested' /\ since' + Len(queue') <= ingested'
      BY <1>1, <1>2, <2>1, <2>2, <2>3
    <3>2. QED
      BY <1>2, <1>3, <2>1, <2>8, <2>9, <3>1 DEF Queued
  <2>11. QED
    BY <2>6, <2>7, <2>10 DEF PageInv
<1>8. QED
  BY <1>4, <1>5, <1>6, <1>7

(***************************************************************************)
(* A fetch that is made, served or shown keeps the invariant               *)
(* (src/static/index.html loadWorkgraph).                                  *)
(***************************************************************************)
LEMMA FetchStep ==
  ASSUME PageInv,
         \/ Page!OpenTab \/ Page!ServeWorkgraph \/ Page!RenderLatest
         \/ \E v \in older : Page!RenderOlder(v)
  PROVE  PageInv'
<1>1. /\ PageType /\ Watched /\ Queued /\ disk \in Nat /\ lastRead \in Nat
      /\ known \in Nat /\ latest \in Nat /\ older \subseteq Nat /\ pageAsked \in Nat
  BY DEF PageInv, PageType
<1>2. UNCHANGED <<disk, notified, lastRead, quiet, swallowed, ingested, buffer, queue, window,
                  page, seen, since>>
  BY DEF Page!OpenTab, Page!ServeWorkgraph, Page!RenderLatest, Page!RenderOlder,
         Page!watcherVars, Page!routerVars, Page!connectionVars
<1>3. Queued'
  BY <1>1, <1>2 DEF Queued, Trailing, SeenAs
<1>4. CASE Page!OpenTab
  <2>1. pageAsked' = pageAsked + 1 /\ UNCHANGED <<known, older, latest, overtaken, missed>>
    BY <1>4 DEF Page!OpenTab, Page!Ask
  <2>2. PageType' /\ Watched'
    BY <1>1, <1>2, <2>1 DEF PageType, Watched, Told
  <2>3. QED
    BY <1>3, <2>2 DEF PageInv
<1>5. CASE Page!ServeWorkgraph
  <2>1. /\ pageAsked > 0 /\ pageAsked' = pageAsked - 1 /\ latest' = disk
        /\ older' = (older \cup {latest}) \ {0}
        /\ overtaken' = FALSE /\ missed' = FALSE /\ known' = known
    BY <1>5 DEF Page!ServeWorkgraph
  <2>2. PageType'
    <3>1. /\ pageAsked' \in Nat /\ latest' \in Nat
          /\ missed' \in BOOLEAN /\ overtaken' \in BOOLEAN
      <4>1. missed' \in BOOLEAN /\ overtaken' \in BOOLEAN
        BY <2>1
      <4>2. pageAsked' \in Nat /\ latest' \in Nat
        BY <1>1, <2>1
      <4>3. QED
        BY <4>1, <4>2
    <3>3. older' \subseteq Nat
      BY <1>1, <2>1
    <3>2. QED
      BY <1>1, <1>2, <2>1, <3>1, <3>3 DEF PageType
  <2>3. Watched'
    BY <1>1, <1>2, <2>1 DEF Watched, Told
  <2>4. QED
    BY <1>3, <2>2, <2>3 DEF PageInv
<1>6. CASE Page!RenderLatest
  <2>1. /\ latest # 0 /\ known' = latest /\ latest' = 0
        /\ UNCHANGED <<pageAsked, older, overtaken, missed>>
    BY <1>6 DEF Page!RenderLatest
  <2>2. PageType'
    BY <1>1, <1>2, <2>1 DEF PageType
  <2>3. Watched'
    BY <1>1, <1>2, <2>1 DEF Watched, Told
  <2>4. QED
    BY <1>3, <2>2, <2>3 DEF PageInv
<1>7. ASSUME NEW v \in older, Page!RenderOlder(v) PROVE PageInv'
  <2>1. /\ known' = v /\ older' = older \ {v} /\ overtaken' = (overtaken \/ latest = 0)
        /\ UNCHANGED <<pageAsked, latest, missed>>
    BY <1>7 DEF Page!RenderOlder
  <2>2. PageType'
    BY <1>1, <1>2, <1>7, <2>1 DEF PageType
  <2>3. Told'
    BY <1>1, <1>2, <2>1 DEF Watched, Told
  <2>4. Watched'
    BY <1>1, <1>2, <1>7, <2>1, <2>3 DEF Watched
  <2>5. QED
    BY <1>3, <2>2, <2>4 DEF PageInv
<1>8. QED
  BY <1>4, <1>5, <1>6, <1>7

(***************************************************************************)
(* A change of the file, and what the watcher makes of a notification,     *)
(* keep the invariant (src/visual/file_watcher.rs).                        *)
(***************************************************************************)
LEMMA WatchStep ==
  ASSUME Page!VisualAssumption, PageInv,
         Page!DaemonEvent \/ Page!Change \/ Page!Notified \/ Page!DebounceEnds
  PROVE  PageInv'
<1>1. /\ PageType /\ Watched /\ Queued /\ disk \in Nat /\ lastRead \in Nat
      /\ missed \in BOOLEAN /\ known \in Nat /\ latest \in Nat
      /\ notified \in Nat /\ quiet \in BOOLEAN /\ swallowed \in BOOLEAN
      /\ queue \in Seq(KeptEvent) /\ ingested \in Nat
  BY DEF PageInv, PageType
<1>2. UNCHANGED <<page, seen, since, known, pageAsked, older, latest, overtaken>>
  BY DEF Page!DaemonEvent, Page!Change, Page!Notified, Page!DebounceEnds, Page!connectionVars,
         Page!fetchVars
<1>3. ASSUME NEW kind \in {"event", "graph"}, Page!Ingest(kind)
      PROVE  /\ ingested' \in Nat /\ buffer' \in Seq(KeptEvent) /\ queue' \in Seq(KeptEvent)
             /\ Queued'
             /\ missed' \in BOOLEAN /\ (missed => missed')
             /\ kind = "graph" /\ page \notin {"registered", "live"} => missed'
             /\ page \in {"registered", "live"} =>
                  /\ \A i \in 1 .. Len(queue) :
                       i \in 1 .. Len(queue') /\ queue'[i] = queue[i]
                  /\ Len(queue') \in 1 .. Len(queue') /\ queue'[Len(queue')].kind = kind
  <2> DEFINE ev == [n |-> ingested + 1, kind |-> kind]
  <2>1. /\ ingested' \in Nat /\ buffer' \in Seq(KeptEvent) /\ queue' \in Seq(KeptEvent)
        /\ Queued' /\ (page \in {"registered", "live"} => queue' = Append(queue, ev))
    BY <1>1, <1>2, <1>3, IngestKept
  <2>2. ev \in KeptEvent /\ ev.kind = kind
    BY <1>1 DEF KeptEvent
  <2> HIDE DEF ev
  <2>3. ASSUME page \in {"registered", "live"}
        PROVE  /\ \A i \in 1 .. Len(queue) : i \in 1 .. Len(queue') /\ queue'[i] = queue[i]
               /\ Len(queue') \in 1 .. Len(queue') /\ queue'[Len(queue')].kind = kind
    BY <1>1, <2>1, <2>2, <2>3
  <2>4. missed' = (missed \/ (kind = "graph" /\ page \notin {"registered", "live"}))
    BY <1>3 DEF Page!Ingest, Page!Connected
  <2>5. missed' \in BOOLEAN /\ (missed => missed')
    BY <1>1, <2>4
  <2>6. kind = "graph" /\ page \notin {"registered", "live"} => missed'
    BY <2>4
  <2>7. QED
    BY <2>1, <2>3, <2>5, <2>6
<1>4. ASSUME UNCHANGED <<ingested, buffer, queue, window>> PROVE Queued'
  BY <1>1, <1>2, <1>4 DEF Queued, Trailing, SeenAs
<1>5. CASE Page!DaemonEvent
  <2>1. Page!Ingest("event") /\ UNCHANGED <<disk, notified, lastRead, quiet, swallowed>>
    BY <1>5 DEF Page!DaemonEvent, Page!watcherVars
  <2>2. Watched'
    BY <1>1, <1>2, <1>3, <2>1 DEF Watched, Told
  <2>3. PageType'
    BY <1>1, <1>2, <1>3, <2>1 DEF PageType
  <2>4. QED
    BY <1>3, <2>1, <2>2, <2>3 DEF PageInv
<1>6. CASE Page!Change
  <2>1. /\ disk' = disk + 1 /\ notified' = notified + 1
        /\ UNCHANGED <<lastRead, quiet, swallowed, ingested, buffer, queue, window, missed>>
    BY <1>6 DEF Page!Change, Page!routerVars
  <2>2. Watched'
    <3>1. Told'
      BY <1>1, <1>2, <2>1 DEF Watched, Told
    <3>2. /\ lastRead' <= disk' /\ known' <= disk' /\ latest' <= disk'
          /\ \A v \in older' : v <= disk'
      <4>1. older \subseteq Nat /\ disk' \in Nat /\ disk <= disk'
        BY <1>1, <2>1 DEF PageType
      <4>2. \A v \in Nat : v <= disk => v <= disk'
        BY <1>1, <2>1
      <4>3. QED
        BY <1>1, <1>2, <2>1, <4>1, <4>2 DEF Watched
    <3>3. notified' # 0
      BY <1>1, <2>1
    <3>4. QED
      BY <3>1, <3>2, <3>3 DEF Watched
  <2>3. PageType'
    BY <1>1, <1>2, <2>1 DEF PageType
  <2>4. QED
    BY <1>4, <2>1, <2>2, <2>3 DEF PageInv
<1>7. CASE Page!DebounceEnds
  <2>1. /\ quiet' = TRUE
        /\ UNCHANGED <<disk, notified, lastRead, swallowed, ingested, buffer, queue, window, missed>>
    BY <1>7 DEF Page!DebounceEnds, Page!routerVars
  <2>2. Watched'
    BY <1>1, <1>2, <2>1 DEF Watched, Told
  <2>3. PageType'
    BY <1>1, <1>2, <2>1 DEF PageType
  <2>4. QED
    BY <1>4, <2>1, <2>2, <2>3 DEF PageInv
<1>8. CASE Page!Notified
  <2>1. notified' \in Nat /\ disk' = disk
    BY <1>1, <1>8 DEF Page!Notified
  <2>2. CASE quiet /\ disk # lastRead
    <3>1. lastRead' = disk /\ quiet' = FALSE /\ swallowed' = FALSE /\ Page!Ingest("graph")
      BY <1>8, <2>2 DEF Page!Notified
    <3>2. Told'
      <4>1. CASE page \in {"registered", "live"}
        BY <1>2, <1>3, <3>1, <4>1 DEF Told
      <4>2. CASE page \notin {"registered", "live"}
        BY <1>3, <3>1, <4>2 DEF Told
      <4>3. QED
        BY <4>1, <4>2
    <3>5. Watched'
      BY <1>1, <1>2, <2>1, <3>1, <3>2 DEF Watched
    <3>3. PageType'
      BY <1>1, <1>2, <1>3, <2>1, <3>1 DEF PageType
    <3>4. QED
      BY <1>3, <3>1, <3>3, <3>5 DEF PageInv
  <2>3. CASE ~(quiet /\ disk # lastRead)
    <3>1. /\ swallowed' = (swallowed \/ (~quiet /\ disk # lastRead))
          /\ UNCHANGED <<lastRead, quiet, ingested, buffer, queue, window, missed>>
      BY <1>8, <2>3 DEF Page!Notified, Page!routerVars
    <3>2. swallowed' \in BOOLEAN /\ (~swallowed' => lastRead = disk)
      BY <1>1, <2>3, <3>1
    <3>3. Watched'
      BY <1>1, <1>2, <2>1, <3>1, <3>2 DEF Watched, Told
    <3>4. PageType'
      BY <1>1, <1>2, <2>1, <3>1, <3>2 DEF PageType
    <3>5. QED
      BY <1>4, <3>1, <3>3, <3>4 DEF PageInv
  <2>4. QED
    BY <2>2, <2>3
<1>9. QED
  BY <1>5, <1>6, <1>7, <1>8

(***************************************************************************)
(* Over every run of the live page: VisualSound (src/visual/).             *)
(***************************************************************************)
THEOREM VisualSoundHolds ==
  ASSUME Page!VisualAssumption
  PROVE  Page!Spec => []Page!VisualSound
<1>1. Page!Init => PageInv
  <2> SUFFICES ASSUME Page!Init PROVE PageInv
    OBVIOUS
  <2>1. /\ disk = 1 /\ notified = 0 /\ lastRead = 1 /\ quiet = FALSE /\ swallowed = FALSE
        /\ pageAsked = 1 /\ older = {} /\ latest = 0 /\ missed = FALSE /\ overtaken = FALSE
        /\ ingested = 0 /\ buffer = <<>> /\ page = "off" /\ queue = <<>>
        /\ seen = <<>> /\ known = 0 /\ since = 0
    BY DEF Page!Init
  <2>2. PageType
    <3>1. <<>> \in Seq(KeptEvent) /\ <<>> \in Seq(Nat)
      OBVIOUS
    <3>2. QED
      BY <2>1, <3>1 DEF PageType
  <2>3. Watched
    BY <2>1 DEF Watched, Told
  <2>4. Len(buffer) = 0 /\ Trailing(buffer)
    BY <2>1 DEF Trailing
  <2>5. Queued
    BY <2>1, <2>4 DEF Queued
  <2>6. QED
    BY <2>2, <2>3, <2>5 DEF PageInv
<1>2. PageInv /\ [Page!Next]_(Page!visualVars) => PageInv'
  <2>1. ASSUME PageInv, UNCHANGED Page!visualVars PROVE PageInv'
    BY <2>1
       DEF Page!visualVars, Page!watcherVars, Page!routerVars, Page!connectionVars,
           Page!fetchVars, PageInv, PageType, Watched, Told, Queued, Trailing, SeenAs
  <2>2. QED
    BY <2>1, ServeStep, FetchStep, WatchStep DEF Page!Next
<1>3. PageInv => Page!VisualSound
  <2> SUFFICES ASSUME PageInv, page = "live"
               PROVE  /\ \A n \in since + 1 .. ingested :
                           n \in Page!ToSet(seen) \/ \E i \in DOMAIN queue : queue[i].n = n
                      /\ \A i, j \in DOMAIN seen :
                           i < j /\ seen[j] <= seen[i] => seen[j] \in window
                      /\ (/\ notified = 0 /\ queue = <<>> /\ pageAsked = 0
                          /\ latest = 0 /\ older = {})
                           => known = disk \/ swallowed \/ missed \/ overtaken
    BY DEF Page!VisualSound
  <2>1. /\ ingested \in Nat /\ since \in Nat /\ queue \in Seq(KeptEvent) /\ seen \in Seq(Nat)
        /\ DOMAIN queue = 1 .. Len(queue) /\ DOMAIN seen = 1 .. Len(seen)
        /\ Len(queue) \in Nat /\ Len(seen) \in Nat
    BY DEF PageInv, PageType
  <2>2. PICK w \in since .. ingested, k \in 0 .. Len(seen) :
          window = since + 1 .. w /\ SeenAs(k, w)
    BY DEF PageInv, Queued
  <2>3. /\ \A i \in 1 .. k : seen[i] <= w
        /\ \A i, j \in 1 .. k : i < j => seen[i] < seen[j]
        /\ \A i \in k + 1 .. Len(seen) : seen[i] = since + (i - k)
        /\ Len(seen) - k = ingested - Len(queue) - since
    BY <2>2 DEF SeenAs
  <2>4. ASSUME NEW n \in since + 1 .. ingested
        PROVE  n \in Page!ToSet(seen) \/ \E i \in DOMAIN queue : queue[i].n = n
    <3>1. CASE n <= ingested - Len(queue)
      <4>1. /\ k + (n - since) \in k + 1 .. Len(seen) /\ k + (n - since) \in DOMAIN seen
            /\ since + (k + (n - since) - k) = n
        BY <2>1, <2>2, <2>3, <3>1
      <4>2. PICK m \in k + 1 .. Len(seen) : m = k + (n - since)
        BY <4>1
      <4>3. m \in DOMAIN seen /\ seen[m] = n
        <5>1. seen[m] = since + (m - k) /\ m \in DOMAIN seen
          BY <2>3, <4>1, <4>2
        <5>2. n \in Int /\ k \in Int /\ since \in Int
          BY <2>1, <2>2
        <5>3. since + (m - k) = n
          BY <4>2, <5>2
        <5>4. QED
          BY <5>1, <5>3
      <4>4. QED
        BY <4>3 DEF Page!ToSet
    <3>2. CASE n > ingested - Len(queue)
      <4>1. /\ n - (ingested - Len(queue)) \in 1 .. Len(queue)
            /\ ingested - Len(queue) + (n - (ingested - Len(queue))) = n
        BY <2>1, <3>2
      <4>2. \A i \in 1 .. Len(queue) : queue[i].n = ingested - Len(queue) + i
        BY DEF PageInv, Queued, Trailing
      <4>3. QED
        BY <2>1, <4>1, <4>2
    <3>3. QED
      BY <2>1, <3>1, <3>2
  <2>5. ASSUME NEW i \in DOMAIN seen, NEW j \in DOMAIN seen, i < j, seen[j] <= seen[i]
        PROVE  seen[j] \in window
    <3>1. i \in Nat /\ j \in Nat /\ k \in Nat /\ w \in Nat /\ seen[i] \in Nat /\ seen[j] \in Nat
      BY <2>1, <2>2
    <3>2. CASE j <= k
      BY <2>1, <2>3, <2>5, <3>1, <3>2
    <3>3. CASE j > k /\ i <= k
      <4>1. i \in 1 .. k /\ j \in k + 1 .. Len(seen)
        BY <2>1, <3>1, <3>3
      <4>2. seen[i] <= w /\ seen[j] = since + (j - k)
        BY <2>3, <4>1
      <4>3. seen[j] \in since + 1 .. w
        BY <2>1, <2>5, <3>1, <3>3, <4>2
      <4>4. QED
        BY <2>2, <4>3
    <3>4. CASE i > k
      <4>1. i \in k + 1 .. Len(seen) /\ j \in k + 1 .. Len(seen)
        BY <2>1, <2>5, <3>1, <3>4
      <4>2. seen[i] = since + (i - k) /\ seen[j] = since + (j - k)
        BY <2>3, <4>1
      <4>3. QED
        BY <2>1, <2>5, <3>1, <4>2
    <3>5. QED
      BY <3>1, <3>2, <3>3, <3>4
  <2>6. ASSUME notified = 0, queue = <<>>, pageAsked = 0, latest = 0,
               ~swallowed, ~missed, ~overtaken
        PROVE  known = disk
    <3>1. /\ lastRead = disk /\ known <= disk /\ known \in Nat /\ disk \in Nat
          /\ Told
      BY <2>1, <2>6 DEF PageInv, PageType, Watched
    <3>4. 1 .. Len(queue) = {}
      BY <2>6
    <3>2. lastRead <= known
      BY <2>6, <3>1, <3>4 DEF Told
    <3>3. QED
      BY <3>1, <3>2
  <2>7. QED
    BY <2>4, <2>5, <2>6
<1>4. QED
  BY <1>1, <1>2, <1>3, PTL DEF Page!Spec

-----------------------------------------------------------------------------
\* The components together.

(***************************************************************************)
(* The daemon keeps its promises whatever its jobs, services, sockets and  *)
(* stamps do in the meantime (src/daemon/, src/recovery.rs).               *)
(***************************************************************************)
THEOREM DaemonSoundHolds ==
  Cron!Spec /\ Ticks!Spec /\ Service!Spec /\ Life!Spec /\ Stamp!Spec => []DaemonSound
<1>1. /\ Cron!CronAssumption /\ Ticks!WorkgraphTickAssumption /\ Service!ServicesAssumption
      /\ Life!DaemonsAssumption /\ Stamp!StampsAssumption
  BY DaemonComponentsAssumption
<1>2. /\ Cron!Spec => []Cron!CronSound
      /\ Ticks!Spec => []Ticks!TickSound
      /\ Service!Spec => []Service!ServicesSound
      /\ Life!Spec => []Life!DaemonsSound
      /\ Stamp!Spec => []Stamp!StampSound
  BY <1>1, CronSoundHolds, TickSoundHolds, ServicesSoundHolds, DaemonsSoundHolds, StampSoundHolds
<1>3. /\ Cron!CronSound /\ Ticks!TickSound /\ Service!ServicesSound /\ Life!DaemonsSound
      /\ Stamp!StampSound
      => DaemonSound
  BY DEF DaemonSound
<1>4. QED
  BY <1>2, <1>3, PTL

(***************************************************************************)
(* The record of the runs, the event stream and the trace lose nothing     *)
(* they should have (src/background/, src/trace/).                         *)
(***************************************************************************)
THEOREM LogsAccountedHolds == Ledger!Spec /\ Stream!Spec /\ Tracing!Spec => []LogsAccounted
<1>1. Ledger!LedgerAssumption /\ Stream!StreamAssumption /\ Tracing!TracesAssumption
  BY DaemonComponentsAssumption
<1>2. /\ Ledger!Spec => [](Ledger!TypeOK /\ Ledger!RecordsSurvive)
      /\ Stream!Spec => [](Stream!TypeOK /\ Stream!EventsAccounted)
      /\ Tracing!Spec => []Tracing!TraceSound
  BY <1>1, RecordsSurviveHolds, EventsAccountedHolds, TraceSoundHolds
<1>3. /\ Ledger!TypeOK /\ Ledger!RecordsSurvive /\ Stream!TypeOK /\ Stream!EventsAccounted
      /\ Tracing!TraceSound
      => LogsAccounted
  BY DEF LogsAccounted
<1>4. QED
  BY <1>2, <1>3, PTL

(***************************************************************************)
(* The terminal client and the live page agree with the daemon they watch  *)
(* (src/daemon/socket.rs, src/visual/).                                    *)
(***************************************************************************)
THEOREM ClientsSoundHolds == Link!Spec /\ Page!Spec => []ClientsSound
<1>1. Page!VisualAssumption
  BY DaemonComponentsAssumption
<1>2. (Link!Spec => []Link!ConnectionSound) /\ (Page!Spec => []Page!VisualSound)
  BY <1>1, ConnectionSoundHolds, VisualSoundHolds
<1>3. Link!ConnectionSound /\ Page!VisualSound => ClientsSound
  BY DEF ClientsSound
<1>4. QED
  BY <1>2, <1>3, PTL
=============================================================================
