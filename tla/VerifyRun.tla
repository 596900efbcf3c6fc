----------------------------- MODULE VerifyRun ------------------------------
(***************************************************************************)
(* A verification run (src/agent.rs run_verify, src/verify/runner.rs): the *)
(* test suite as a child process whose output a reader thread parses up to *)
(* its end or a line that is not text, with a timeout that counts until    *)
(* the reader is done; then the scenarios in order, up to the first        *)
(* critical one that fails; then the exploration.  Every event goes        *)
(* through one channel to a dashboard (src/verify/state.rs), which is      *)
(* modelled as it is after the events sent so far.                         *)
(***************************************************************************)
EXTENDS Naturals, Sequences, FiniteSets

CONSTANTS Critical,       \* for each scenario, in order: is it critical?
          MaxOutput,      \* bound: test lines written
          MaxTargets      \* bound: targets explored

VerifyRunAssumption ==
  Critical \in Seq(BOOLEAN) /\ MaxOutput \in Nat /\ MaxTargets \in Nat

VARIABLES
  phase,        \* of run_verify
  suite, tests, \* the cargo process, and whether a test binary holds its pipe
  pipe, read,   \* lines not parsed yet, lines parsed
  parser,       \* the reader thread: "reading", "done"
  stop,         \* VerifyRunner.cancel
  token,        \* the agent's CancelToken
  late,         \* has VERIFY_TIMEOUT passed?
  board,        \* VerifyState
  next, truth,  \* the scenario to run, and how those that ran really went
  targets       \* explored so far

suiteVars == <<suite, tests, pipe, read, parser, stop, late>>
l4Vars == <<next, truth, targets>>
verifyVars == <<phase, suiteVars, token, board, l4Vars>>

Scenarios == DOMAIN Critical
Counted(status) == Cardinality({i \in DOMAIN read : read[i] = status})

Board == [running |-> FALSE, passed |-> 0, failed |-> 0,
          reported |-> "no", scenario |-> [i \in Scenarios |-> "none"], ended |-> 0]

Init ==
  /\ phase = "start"
  /\ suite = "none" /\ tests = FALSE /\ pipe = <<>> /\ read = <<>>
  /\ parser = "done" /\ stop = FALSE /\ token = FALSE /\ late = FALSE
  /\ board = Board
  /\ next = 1 /\ truth = [i \in Scenarios |-> "unrun"] /\ targets = 0

-----------------------------------------------------------------------------
(* The test suite. *)

\* start_l1: TestSuiteLoaded, then the process, or the error at once.
Start ==
  /\ phase = "start" /\ phase' = "suite"
  /\ \/ /\ suite' = "running" /\ tests' \in BOOLEAN /\ parser' = "reading"
        /\ board' = [board EXCEPT !.running = TRUE]
     \/ /\ board' = [board EXCEPT !.reported = "error"]
        /\ UNCHANGED <<suite, tests, parser>>
  /\ UNCHANGED <<pipe, read, stop, late, token, l4Vars>>

Output(status) ==
  /\ suite = "running" \/ tests
  /\ parser = "reading"          \* else the pipe has no reader left
  /\ Len(pipe) + Len(read) < MaxOutput
  /\ pipe' = Append(pipe, status)
  /\ UNCHANGED <<phase, suite, tests, read, parser, stop, late, token, board, l4Vars>>

SuiteExits ==
  /\ suite = "running" /\ suite' = "exited"
  /\ UNCHANGED <<phase, tests, pipe, read, parser, stop, late, token, board, l4Vars>>

TestsExit ==
  /\ tests /\ tests' = FALSE
  /\ UNCHANGED <<phase, suite, pipe, read, parser, stop, late, token, board, l4Vars>>

\* apply_progress: one more case that passed, or failed.
Progress(status) == [board EXCEPT ![status] = @ + 1]

\* A line that is not UTF-8 is an error of the reader's.
Garbled == pipe # <<>> /\ Head(pipe) = "garbled"

Parse ==
  /\ parser = "reading" /\ pipe # <<>> /\ ~stop /\ ~Garbled
  /\ pipe' = Tail(pipe) /\ read' = Append(read, Head(pipe))
  /\ board' = Progress(Head(pipe))
  /\ UNCHANGED <<phase, suite, tests, parser, stop, late, token, l4Vars>>

\* The end of the output, an error, or the first line after a cancel.
ParseEnds ==
  /\ parser = "reading"
  /\ \/ pipe # <<>> /\ stop
     \/ Garbled
     \/ pipe = <<>> /\ suite # "running" /\ ~tests
  /\ parser' = "done"
  /\ \E headers \in BOOLEAN :      \* has_running
       board' = [board EXCEPT !.running = FALSE,
                   !.reported = IF stop THEN "cancelled"
                                ELSE IF read = <<>> /\ ~headers THEN "error" ELSE "result"]
  /\ UNCHANGED <<phase, suite, tests, pipe, read, stop, late, token, l4Vars>>

Overdue ==
  /\ phase = "suite" /\ ~late /\ late' = TRUE
  /\ UNCHANGED <<phase, suite, tests, pipe, read, parser, stop, token, board, l4Vars>>

Ended == [board EXCEPT !.ended = @ + 1]

\* One round of run_verify's loop: the token first, then poll.  A cancelled
\* runner is dropped without a join.
Poll ==
  /\ phase = "suite"
  /\ \/ /\ token /\ stop' = TRUE
        /\ suite' = IF suite = "running" THEN "exited" ELSE suite
        /\ phase' = "done" /\ board' = Ended
     \/ /\ ~token /\ parser = "done" /\ phase' = "joining"
        /\ UNCHANGED <<stop, suite, board>>
     \/ /\ ~token /\ parser = "reading" /\ late /\ stop' = TRUE
        /\ suite' = IF suite = "running" THEN "exited" ELSE suite
        /\ phase' = "joining" /\ UNCHANGED board
  /\ UNCHANGED <<tests, pipe, read, parser, late, token, l4Vars>>

\* The reader first, then the process, with no timeout for either.
Join ==
  /\ phase = "joining" /\ parser = "done" /\ suite # "running"
  /\ IF token THEN phase' = "done" /\ board' = Ended
     ELSE /\ phase' = "scenarios"
          /\ board' = [board EXCEPT !.scenario = [i \in Scenarios |->
                                      IF i = 1 THEN "running" ELSE "queued"]]
  /\ UNCHANGED <<suiteVars, token, l4Vars>>

-----------------------------------------------------------------------------
(* The scenarios and the exploration. *)

Show(i, status) == board' = [board EXCEPT !.scenario[i] = status]

StartScenario ==
  /\ phase = "scenarios" /\ next \in Scenarios
  /\ IF token
     THEN Show(next, "skipped") /\ next' = next + 1 /\ UNCHANGED phase
     ELSE Show(next, "running") /\ phase' = "scenario" /\ UNCHANGED next
  /\ UNCHANGED <<suiteVars, token, truth, targets>>

\* run_single_scenario: a cancel between its steps ends it as a success.
EndScenario ==
  /\ phase = "scenario"
  /\ \E how \in {"succeeded", "failed"} \cup (IF token THEN {"cut"} ELSE {}) :
       /\ truth' = [truth EXCEPT ![next] = how]
       /\ Show(next, IF how = "failed" THEN "failed" ELSE "passed")
       /\ phase' = IF how = "failed" /\ Critical[next] THEN "stopped" ELSE "scenarios"
  /\ next' = next + 1
  /\ UNCHANGED <<suiteVars, token, targets>>

EndScenarios ==
  /\ phase = "stopped" \/ (phase = "scenarios" /\ next \notin Scenarios)
  /\ IF phase = "stopped" \/ token THEN phase' = "done" /\ board' = Ended
     ELSE phase' = "exploring" /\ UNCHANGED board
  /\ UNCHANGED <<suiteVars, token, l4Vars>>

ExploreTarget ==
  /\ phase = "exploring" /\ ~token /\ targets < MaxTargets
  /\ targets' = targets + 1
  /\ UNCHANGED <<phase, suiteVars, token, board, next, truth>>

EndExploration ==
  /\ phase = "exploring"
  /\ phase' = "done" /\ board' = Ended
  /\ UNCHANGED <<suiteVars, token, l4Vars>>

Cancel ==
  /\ ~token /\ token' = TRUE
  /\ UNCHANGED <<phase, suiteVars, board, l4Vars>>

Steps ==
  \/ Start \/ Parse \/ ParseEnds \/ Overdue \/ Poll \/ Join
  \/ StartScenario \/ EndScenario \/ EndScenarios \/ ExploreTarget \/ EndExploration

Next ==
  \/ Steps \/ Cancel \/ SuiteExits \/ TestsExit
  \/ \E status \in {"passed", "failed", "garbled"} : Output(status)

Spec == Init /\ [][Next]_verifyVars /\ WF_verifyVars(Steps)

-----------------------------------------------------------------------------
(***************************************************************************)
(* A run ends once; when it has, and the suite's reader too, the dashboard *)
(* shows no suite running and counts what was parsed, unless the process   *)
(* could not be started; a result stands for all the output there was, or  *)
(* for all of it up to a line that is not text.  Exploration begins only   *)
(* when no critical scenario failed; a scenario is shown as passed only if *)
(* it succeeded or was cut short by the token, and none after a critical   *)
(* failure is shown to have run; without a cancel a run that was not       *)
(* stopped shows a final status for every scenario.                        *)
(***************************************************************************)
VerifySound ==
  /\ board.ended = (IF phase = "done" THEN 1 ELSE 0)
  /\ parser = "done" => ~board.running
  /\ board.passed = Counted("passed") /\ board.failed = Counted("failed")
  /\ board.reported = "cancelled" => token \/ late
  /\ board.reported = "result" => parser = "done" /\ (pipe = <<>> \/ Garbled)
  /\ phase = "exploring" => \A i \in Scenarios : Critical[i] => truth[i] # "failed"
  /\ \A i \in Scenarios :
       /\ board.scenario[i] = "passed" => truth[i] = "succeeded" \/ token
       /\ board.scenario[i] = "failed" /\ Critical[i] =>
            \A j \in Scenarios : j > i => board.scenario[j] = "queued" /\ truth[j] = "unrun"
  /\ phase = "done" /\ ~token
       => \/ \E i \in Scenarios : Critical[i] /\ truth[i] = "failed"
          \/ \A i \in Scenarios : board.scenario[i] \in {"passed", "failed"}

\* A run ends, unless the join waits for ever: for the reader, while a test
\* binary that outlives the killed suite holds the pipe, or for a suite that
\* runs on after its reader gave up on a line.
VerifyEnds ==
  \/ []<>(phase = "done")
  \/ <>[](phase = "joining" /\ tests /\ parser = "reading")
  \/ <>[](phase = "joining" /\ suite = "running" /\ parser = "done" /\ Garbled)
=============================================================================
