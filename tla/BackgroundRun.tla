--------------------------- MODULE BackgroundRun ---------------------------
(***************************************************************************)
(* One headless process (src/bin/ccda.rs, src/lib.rs, src/background.rs):  *)
(* it picks a mode from the environment, runs one task or drives the Work  *)
(* Graph through an inner loop of milestones and an outer loop of quality  *)
(* reviews, and reports the outcome as a ledger record, an alert and an    *)
(* exit code.                                                              *)
(*                                                                         *)
(* Turns are one step each: what the model does in one is a choice of the  *)
(* `milestone` tool's effects on the graph, a plan file and an ending.     *)
(* The races with other drivers of the graph are MilestoneDrivers'; here   *)
(* the one disturbance from outside is a hand edit that leaves             *)
(* workgraph.json unreadable.                                              *)
(***************************************************************************)
EXTENDS WorkGraph, FiniteSets

CONSTANTS MaxAuto,      \* bg_max_auto: milestones per review cycle
          MaxCycles,    \* bg_max_auto_cycles
          Webhook,      \* an alert webhook is configured
          FailureOnly   \* alert_on_failure_only

BackgroundAssumption ==
  /\ MaxAuto \in Nat /\ MaxCycles \in Nat
  /\ Webhook \in BOOLEAN /\ FailureOnly \in BOOLEAN

VARIABLES
  graph,      \* workgraph.json, when it parses
  readable,   \* it parses (a missing file counts as the empty graph)
  backup,     \* workgraph.json.corrupt.PID exists
  plans,      \* the plan file of each milestone id
  checkpoint, \* memory/bg_checkpoint: the milestones recorded as completed
  pc,
  mode,       \* what bg_mode_from_env chose
  cur,        \* the milestone being advanced
  advanced,   \* milestones advanced in this cycle
  cycle,
  state,      \* BgOutcome.mission_state
  ledger,     \* the outcomes recorded in bg_ledger.jsonl by this process
  alerted,
  code,       \* exit code
  history     \* what happened: executed milestones, damage done from outside

run == <<pc, mode, cur, advanced, cycle, state, ledger, alerted, code>>
disk == <<graph, readable, backup, plans, checkpoint>>
vars == <<disk, run, history>>

NoCode == -1
PanicCode == 101        \* a panic on the main thread

MissionStates == {"Running", "Completed", "EmptyGraph", "NeedsReview", "Error"}

\* mission_exit_code.
ExitCode(s) ==
  CASE s \in {"Completed", "Running"} -> 0
    [] s = "EmptyGraph" -> 5
    [] s = "NeedsReview" -> 3
    [] s = "Error" -> 4

NoGraph == MigratedTodos({}, {})

\* WorkGraph::read shows an unreadable file as the empty graph.
LenientRead(g) == IF readable THEN g ELSE NoGraph

Goto(l) == pc' = l
Finish(s) == state' = s /\ Goto("report")

Init ==
  /\ \E todos \in SUBSET Ids : \E done \in SUBSET todos : \E active \in SUBSET (todos \ done) :
        graph = [n \in todos |->
                   [deps |-> {},
                    status |-> IF n \in done THEN "done"
                               ELSE IF n \in active THEN "in_progress"
                               ELSE "pending"]]
  /\ readable \in BOOLEAN
  /\ backup = FALSE
  /\ plans \in [Ids -> {"none", "good", "corrupt"}]
  /\ checkpoint = {}
  /\ pc = "start" /\ mode = "undecided" /\ cur = 0 /\ advanced = 0 /\ cycle = 0
  /\ state = "Running" /\ ledger = {} /\ alerted = FALSE /\ code = NoCode
  /\ history = [executed |-> 0, spoilt |-> FALSE,
                ready |-> FALSE, unreadable |-> ~readable, unrecorded |-> FALSE]

-----------------------------------------------------------------------------
\* with_lock updates what the lenient read shows and saves the result, so an
\* update of an unreadable file replaces it.
Update(graphs) == graph' \in graphs /\ readable' = TRUE

\* What a turn can do to the graph: nothing, or one `milestone` call, or one
\* generate_milestones call.
TurnEffect ==
  \/ UNCHANGED <<graph, readable>>
  \/ Update({LenientRead(graph)} \cup BatchOutcomes(LenientRead(graph)))
  \/ readable /\ Update(RemoveOutcomes(graph))
  \/ readable /\ Update(StatusOutcomes(graph, "in_progress"))

\* main and bg_mode_from_env: a task text wins over the Work Graph.
Start ==
  /\ pc = "start"
  /\ \/ mode' = "task" /\ Goto("task")
     \/ mode' = "workgraph" /\ Goto("load")
  /\ UNCHANGED <<disk, cur, advanced, cycle, state, ledger, alerted, code,
                 history>>

\* The explicit task: last_error or a panic of the turn's thread is an error,
\* anything else leaves the state Running.
TaskTurn ==
  /\ pc = "task"
  /\ TurnEffect
  /\ \E s \in {"Running", "Error"} : Finish(s)
  /\ UNCHANGED <<backup, plans, checkpoint, mode, cur, advanced,
                 cycle, ledger, alerted, code, history>>

\* read_checked: an unreadable file is set aside, which leaves none.
Load ==
  /\ pc = "load"
  /\ IF readable
     THEN /\ Goto(IF DOMAIN graph = {} THEN "seed" ELSE "reset")
          /\ UNCHANGED <<graph, readable, backup, state>>
     ELSE /\ graph' = NoGraph /\ readable' = TRUE /\ backup' = TRUE
          /\ Finish("Error")
  /\ UNCHANGED <<plans, checkpoint, mode, cur, advanced, cycle, ledger,
                 alerted, code, history>>

\* seed_workgraph_from_mission: a panicked turn counts as a failed seed even
\* if it has added milestones before it panicked.
Seed ==
  /\ pc = "seed"
  /\ TurnEffect
  /\ \E panicked \in BOOLEAN :
        IF ~panicked /\ readable' /\ DOMAIN graph' # {}
        THEN Goto("reset") /\ UNCHANGED state
        ELSE Finish("EmptyGraph")
  /\ UNCHANGED <<backup, plans, checkpoint, mode, cur, advanced,
                 cycle, ledger, alerted, code, history>>

\* The cross-run reset.
Reset ==
  /\ pc = "reset"
  /\ Update({ResetInProgress(LenientRead(graph))})
  /\ history' = [history EXCEPT !.ready = Ready(graph') # {}]
  /\ Goto("pick")
  /\ UNCHANGED <<backup, plans, checkpoint, mode, cur, advanced,
                 cycle, state, ledger, alerted, code>>

\* The head of the inner loop and of advance_one_milestone.
Pick ==
  /\ pc = "pick"
  /\ IF advanced >= MaxAuto
     THEN Goto("cycle") /\ UNCHANGED <<cur, state>>
     ELSE IF ~readable
     THEN Finish("Error") /\ UNCHANGED cur
     ELSE /\ Goto(IF Ready(graph) = {} THEN "cycle" ELSE "plan")
          /\ cur' = IF Ready(graph) = {} THEN 0 ELSE NextReady(graph)
          /\ UNCHANGED state
  /\ UNCHANGED <<disk, mode, advanced, cycle, ledger, alerted, code, history>>

\* run_plan_turn, when there is no plan file yet.  Without a plan that parses
\* the milestone is marked blocked, which its done dependencies undo at once,
\* and the whole run ends.
PlanTurn ==
  /\ pc = "plan" /\ plans[cur] = "none"
  /\ \E p \in {"none", "good", "corrupt"}, panicked \in BOOLEAN :
        /\ plans' = [plans EXCEPT ![cur] = p]
        /\ IF p = "good" /\ ~panicked
           THEN Goto("exec") /\ UNCHANGED <<graph, readable, state>>
           ELSE /\ Update({SetStatus(LenientRead(graph), cur, "blocked")})
                /\ Finish("Error")
  /\ UNCHANGED <<backup, checkpoint, mode, cur, advanced, cycle,
                 ledger, alerted, code, history>>

\* A plan file that exists is read; one that does not parse ends the run.
PlanThere ==
  /\ pc = "plan" /\ plans[cur] # "none"
  /\ IF plans[cur] = "good" THEN Goto("exec") /\ UNCHANGED state
                            ELSE Finish("Error")
  /\ UNCHANGED <<disk, mode, cur, advanced, cycle, ledger, alerted, code,
                 history>>

\* The exec turn: a panic or last_error ends the run.
ExecTurn ==
  /\ pc = "exec"
  /\ TurnEffect
  /\ \/ Goto("done") /\ UNCHANGED state
     \/ Finish("Error")
  /\ history' = [history EXCEPT !.executed = @ + 1]
  /\ UNCHANGED <<backup, plans, checkpoint, mode, cur, advanced,
                 cycle, ledger, alerted, code>>

\* Marking the milestone done, after the lenient read with
\* .expect("just read"), and adding it to the checkpoint.
MarkDone ==
  /\ pc = "done"
  /\ IF cur \in DOMAIN LenientRead(graph)
     THEN /\ graph' = SetStatus(graph, cur, "done")
          /\ checkpoint' \in {checkpoint, checkpoint \cup {cur}}
          /\ advanced' = advanced + 1
          /\ Goto("pick")
          /\ UNCHANGED code
     ELSE /\ Goto("exited") /\ code' = PanicCode
          /\ UNCHANGED <<graph, checkpoint, advanced>>
  /\ UNCHANGED <<readable, backup, plans, mode, cur, cycle, state, ledger,
                 alerted, history>>

\* The end of a cycle.  The limit is tested before the review, so the last
\* cycle is never reviewed, even if every milestone is done.
CycleEnd ==
  /\ pc = "cycle"
  /\ cycle' = cycle + 1
  /\ advanced' = 0
  /\ IF cycle' >= MaxCycles THEN Finish("NeedsReview")
                            ELSE Goto("review") /\ UNCHANGED state
  /\ UNCHANGED <<disk, mode, cur, ledger, alerted, code, history>>

PlanCount == Cardinality({i \in Ids : plans[i] = "good"})

\* Mutant: only the number of milestones is looked at.
NeedsReworkByCount(g, planned) == Cardinality(DOMAIN g) > planned

\* More milestones than plan files, or one that is not done.
NeedsRework(g, planned) ==
  Cardinality(DOMAIN g) > planned \/ ~AllDone(g)

\* run_quality_review_turn.  last_error is not looked at: a review that got
\* no answer from the provider counts as one that found nothing.
Review ==
  /\ pc = "review"
  /\ TurnEffect
  /\ \/ IF NeedsRework(IF readable' THEN graph' ELSE NoGraph, PlanCount)
        THEN Goto("pick") /\ UNCHANGED state
        ELSE Finish("Completed")
     \/ Finish("Error")
  /\ UNCHANGED <<backup, plans, checkpoint, mode, cur, advanced,
                 cycle, ledger, alerted, code, history>>

\* Somebody edits workgraph.json during the run and leaves it unreadable.
Spoil ==
  /\ pc \in {"seed", "reset", "pick", "plan", "exec", "done", "review"}
  /\ readable /\ ~history.spoilt                         \* bound
  /\ readable' = FALSE
  /\ history' = [history EXCEPT !.spoilt = TRUE]
  /\ UNCHANGED <<graph, backup, plans, checkpoint, run>>

-----------------------------------------------------------------------------
\* lib::run_background after the run.

\* One record; a failed append is a warning.
Ledger ==
  /\ pc = "report"
  /\ \E ok \in BOOLEAN :
        /\ ledger' = IF ok THEN ledger \cup {state} ELSE ledger
        /\ history' = [history EXCEPT !.unrecorded = ~ok]
  /\ Goto("alert")
  /\ UNCHANGED <<disk, mode, cur, advanced, cycle, state, alerted, code>>

\* The summary cuts a long final text at byte 200: if that is inside a
\* character the process panics here.  A failed delivery is a warning.
Alert ==
  /\ pc = "alert"
  /\ IF Webhook /\ (FailureOnly => ExitCode(state) # 0)
     THEN \/ \E sent \in BOOLEAN : alerted' = sent /\ code' = ExitCode(state)
          \/ code' = PanicCode /\ UNCHANGED alerted
     ELSE code' = ExitCode(state) /\ UNCHANGED alerted
  /\ Goto("exited")
  /\ UNCHANGED <<disk, mode, cur, advanced, cycle, state, ledger, history>>

-----------------------------------------------------------------------------
Steps ==
  \/ Start \/ TaskTurn \/ Load \/ Seed \/ Reset \/ Pick \/ PlanTurn
  \/ PlanThere \/ ExecTurn \/ MarkDone \/ CycleEnd \/ Review \/ Ledger
  \/ Alert

Next == Steps \/ Spoil

\* The process runs on its own; turns end because AgentTurn's do.
Spec == Init /\ [][Next]_vars /\ WF_vars(Steps)

-----------------------------------------------------------------------------
(***************************************************************************)
(* The type invariant.                                                     *)
(***************************************************************************)
TypeOK ==
  /\ IsGraph(graph)
  /\ readable \in BOOLEAN /\ backup \in BOOLEAN /\ alerted \in BOOLEAN
  /\ plans \in [Ids -> {"none", "good", "corrupt"}]
  /\ checkpoint \subseteq Ids
  /\ pc \in {"start", "task", "load", "seed", "reset", "pick", "plan", "exec",
             "done", "cycle", "review", "report", "alert", "exited"}
  /\ mode \in {"undecided", "task", "workgraph"}
  /\ cur \in Ids \cup {0}
  /\ advanced \in 0 .. MaxAuto /\ cycle \in 0 .. MaxCycles + 1
  /\ state \in MissionStates /\ ledger \subseteq MissionStates
  /\ code \in {NoCode, 0, 3, 4, 5, PanicCode}

\* Completed is said only of a graph in which every milestone is done, unless
\* the file was made unreadable under the run: then it reads as empty.
CompletedMeansDone ==
  state = "Completed" /\ ~history.spoilt => AllDone(graph)

\* The two budgets bound the whole run; a limit of no cycles allows one, for
\* it is tested at the end of a cycle.
WithinBudget ==
  history.executed <= MaxAuto * (IF MaxCycles = 0 THEN 1 ELSE MaxCycles)

\* An unreadable file is set aside before anything else can replace it.
UnreadableSetAside ==
  mode = "workgraph" /\ pc \notin {"start", "load"} /\ history.unreadable =>
    backup /\ state = "Error"

\* A workgraph run that ends in order has decided, and if it had something to
\* advance and a budget it has advanced something.
WorkgraphRunDecides ==
  pc = "report" /\ mode = "workgraph" =>
    /\ state # "Running"
    /\ state \in {"Completed", "NeedsReview"} /\ history.ready
         /\ MaxAuto > 0 /\ ~history.spoilt => history.executed > 0

\* The scheduler can trust the exit code: zero means that the record, if it
\* could be written, is of a run that succeeded, and only an alert's panic
\* hides the code of a recorded outcome.
CodeAgreesWithLedger ==
  pc = "exited" =>
    /\ \A s \in ledger :
         \/ code = ExitCode(s)
         \/ code = PanicCode /\ Webhook /\ (FailureOnly => ExitCode(s) # 0)
    /\ ledger = {} => code = PanicCode \/ history.unrecorded
    /\ code = 0 => state = "Completed" \/ mode = "task"

(***************************************************************************)
(* What a headless run reports is what happened: a completed run has every *)
(* milestone done, the budgets bound the work, an unreadable graph is kept,*)
(* the run decides, and ledger, alert and exit code agree.                 *)
(***************************************************************************)
RunHonest ==
  /\ CompletedMeansDone
  /\ WithinBudget
  /\ UnreadableSetAside
  /\ WorkgraphRunDecides
  /\ CodeAgreesWithLedger

(***************************************************************************)
(* Every headless run ends, whatever its turns do to the graph: a review   *)
(* that keeps adding milestones cannot keep it alive.                      *)
(***************************************************************************)
RunEnds == []<>(pc = "exited")
=============================================================================
