----------------------------- MODULE AgentTurn -----------------------------
(***************************************************************************)
(* One agent's turns (AgentLoop::run, process_turn, complete_retrying and  *)
(* dispatch_tool in src/agent.rs): ask the provider, run the tool calls of *)
(* the reply in order, feed the results back, until the model stops, the   *)
(* turn is cancelled, the provider fails or the iterations are used up.    *)
(*                                                                         *)
(* Meanwhile other threads flip the cancel token and push into three       *)
(* queues: steering (SteerQueue), results of background sub-agents         *)
(* (task_notifications) and a parent's messages (parent_msg_rx).           *)
(*                                                                         *)
(* Left out: compaction, trust and permissions (a permission prompt is a   *)
(* tool call that may also end Cancelled), traces, the token counter.      *)
(***************************************************************************)
EXTENDS Transcript

CONSTANTS ToolCap,      \* tool_cap: provider rounds of one turn
          MaxRaises,    \* doublings from max_tokens to its ceiling
          MaxRetries,   \* complete_retrying: MAX_RETRIES
          NudgeAfter,   \* noop_nudge_threshold; 0 disables it
          MaxTurns,     \* bound: turns
          MaxInput      \* bound: messages pushed into the queues, all together

ASSUME AgentAssumption ==
  /\ ToolCap \in Nat \ {0} /\ MaxRaises \in Nat /\ MaxRetries \in Nat
  /\ NudgeAfter \in Nat /\ MaxTurns \in Nat /\ MaxInput \in Nat

VARIABLES
  pc,         \* where the agent thread is; after a reply without calls, the
              \*   queue that is looked at next
  thread,     \* the active thread of the session
  turns,      \* turns started
  turn,       \* locals of process_turn: iterations left, doublings of
              \*   effective_max_tokens, consecutive_explore_iters, nudged
  attempt,    \* retries made in this provider call
  batch,      \* the reply being dispatched: calls to do, results collected
  cancelled,  \* the cancel token
  queue,      \* the three queues
  pushed,     \* history: how much was pushed into each queue
  arrived,    \* history: `pushed` when the last reply without calls came
  ran,        \* history: the calls dispatched, <<position, call>>
  outcome     \* how the last turn ended

vars == <<pc, thread, turns, turn, attempt, batch, cancelled, queue, pushed,
          arrived, ran, outcome>>

NoTurn == [left |-> 0, raises |-> 0, explored |-> 0, nudged |-> FALSE]
NoBatch == [todo |-> {}, done |-> {}, explores |-> FALSE]

\* A new session, or a resumed one: the process died between a reply and its
\* results, or a batch was cancelled after its first call.
Sessions ==
  LET cutShort == <<Input("prompt", 0), Reply(Calls, FALSE)>>
  IN  {<<>>, cutShort, Append(cutShort, Results(2, {1} \cap Calls))}

Init ==
  /\ pc = "idle"
  /\ thread \in Sessions
  /\ turns = 0
  /\ turn = NoTurn
  /\ attempt = 0
  /\ batch = NoBatch
  /\ cancelled = FALSE
  /\ queue = [q \in Sources |-> <<>>]
  /\ pushed = [q \in Sources |-> 0]
  /\ arrived = [q \in Sources |-> 0]
  /\ ran = {}
  /\ outcome = "none"

-----------------------------------------------------------------------------
\* Other threads.

Cancel ==
  /\ cancelled' = TRUE
  /\ UNCHANGED <<pc, thread, turns, turn, attempt, batch, queue, pushed, arrived, ran,
                 outcome>>

Push(q) ==
  /\ pushed["steer"] + pushed["task"] + pushed["parent"] < MaxInput    \* bound
  /\ pushed' = [pushed EXCEPT ![q] = @ + 1]
  /\ queue' = [queue EXCEPT ![q] = Append(@, Input(q, pushed[q] + 1))]
  /\ UNCHANGED <<pc, thread, turns, turn, attempt, batch, cancelled, arrived,
                 ran, outcome>>

-----------------------------------------------------------------------------
\* The agent thread.

\* A message, a milestone or a sub-agent's task: the token is reset first.
Start ==
  /\ pc = "idle"
  /\ turns < MaxTurns                                   \* bound
  /\ turns' = turns + 1
  /\ cancelled' = FALSE
  /\ thread' = Append(thread, Input("prompt", turns + 1))
  /\ turn' = [NoTurn EXCEPT !.left = ToolCap]
  /\ outcome' = "none"
  /\ pc' = "top"
  /\ UNCHANGED <<attempt, batch, queue, pushed, arrived, ran>>

End(how) == pc' = "idle" /\ outcome' = how /\ turn' = NoTurn

\* Round the loop again.
Continue(t) == pc' = "top" /\ turn' = t /\ UNCHANGED outcome

\* Mutant: parent messages are taken but not appended.
TopDropsParent ==
  /\ pc = "top" /\ turn.left > 0 /\ ~cancelled
  /\ turn' = [turn EXCEPT !.left = @ - 1]
  /\ thread' = thread \o queue["steer"] \o queue["task"]
  /\ queue' = [q \in Sources |-> <<>>]
  /\ pc' = "calling"
  /\ UNCHANGED <<turns, attempt, batch, cancelled, pushed, arrived, ran, outcome>>

\* The top of an iteration: drain the queues, then build the request.
Top ==
  /\ pc = "top" /\ turn.left > 0 /\ ~cancelled
  /\ turn' = [turn EXCEPT !.left = @ - 1]
  /\ thread' = thread \o queue["steer"] \o queue["task"] \o queue["parent"]
  /\ queue' = [q \in Sources |-> <<>>]
  /\ pc' = "calling"
  /\ UNCHANGED <<turns, attempt, batch, cancelled, pushed, arrived, ran, outcome>>

\* Mutant: the cancel token is not looked at here.
TopEndsAtCap ==
  /\ pc = "top"
  /\ turn.left = 0 /\ End("capped")
  /\ UNCHANGED <<thread, turns, attempt, batch, cancelled, queue, pushed, arrived, ran>>

\* The iterations are used up, or the turn was cancelled.
TopEnds ==
  /\ pc = "top"
  /\ \/ turn.left = 0 /\ End("capped")
     \/ turn.left > 0 /\ cancelled /\ End("cancelled")
  /\ UNCHANGED <<thread, turns, attempt, batch, cancelled, queue, pushed, arrived, ran>>

\* Mutant: one retry too many.
CallRetriedOnceMore ==
  /\ pc = "calling"
  /\ attempt <= MaxRetries /\ ~cancelled
  /\ attempt' = attempt + 1
  /\ UNCHANGED <<pc, thread, turns, turn, batch, cancelled, queue, pushed, arrived, ran,
                 outcome>>

\* The provider fails: a transient error is retried unless cancelled.
CallRetried ==
  /\ pc = "calling"
  /\ attempt < MaxRetries /\ ~cancelled
  /\ attempt' = attempt + 1
  /\ UNCHANGED <<pc, thread, turns, turn, batch, cancelled, queue, pushed, arrived, ran,
                 outcome>>

\* Any other error, or the last attempt.
CallFails ==
  /\ pc = "calling"
  /\ End("failed")
  /\ attempt' = 0
  /\ UNCHANGED <<thread, turns, batch, cancelled, queue, pushed, arrived, ran>>

\* A reply without calls: the turn will end unless a queue holds something.
ReplyStops ==
  /\ pc = "calling"
  /\ thread' = Append(thread, Reply({}, FALSE))
  /\ arrived' = pushed
  /\ pc' = "steer"
  /\ attempt' = 0
  /\ UNCHANGED <<turns, turn, batch, cancelled, queue, pushed, ran, outcome>>

\* Mutant: the queue of the parent's messages is not looked at.
LookSkipsParent ==
  \E q \in Sources :
    /\ pc = q
    /\ thread' = thread \o queue[q]
    /\ queue' = [queue EXCEPT ![q] = <<>>]
    /\ \/ queue[q] # <<>> /\ Continue(turn)
       \/ q = "steer" /\ queue[q] = <<>> /\ pc' = "task" /\ UNCHANGED <<turn, outcome>>
       \/ q = "task" /\ queue[q] = <<>> /\ End("done")
    /\ UNCHANGED <<turns, attempt, batch, cancelled, pushed, arrived, ran>>

\* The queues are looked at one after the other, and other threads push in
\* between: what one holds restarts the turn, and when the last is empty too
\* the turn is done, whatever has come into the others by then.
Look ==
  \E q \in Sources :
    /\ pc = q
    /\ thread' = thread \o queue[q]
    /\ queue' = [queue EXCEPT ![q] = <<>>]
    /\ \/ queue[q] # <<>> /\ Continue(turn)
       \/ q = "steer" /\ queue[q] = <<>> /\ pc' = "task" /\ UNCHANGED <<turn, outcome>>
       \/ q = "task" /\ queue[q] = <<>> /\ pc' = "parent" /\ UNCHANGED <<turn, outcome>>
       \/ q = "parent" /\ queue[q] = <<>> /\ End("done")
    /\ UNCHANGED <<turns, attempt, batch, cancelled, pushed, arrived, ran>>

\* A reply with k calls, all of exploration tools or not.
ReplyCalls ==
  /\ pc = "calling"
  /\ \E k \in Calls, explores \in BOOLEAN :
       /\ thread' = Append(thread, Reply(1 .. k, FALSE))
       /\ batch' = [todo |-> 1 .. k, done |-> {}, explores |-> explores]
  /\ pc' = "dispatch"
  /\ attempt' = 0
  /\ UNCHANGED <<turns, turn, cancelled, queue, pushed, arrived, ran, outcome>>

\* The reply and, if it has calls, an error result for each.
CutMessages(k) ==
  <<Reply(1 .. k, TRUE)>>
    \o IF k > 0 THEN <<Results(Len(thread) + 1, 1 .. k)>> ELSE <<>>

\* Mutant: the calls of a truncated reply are dispatched.
ReplyCutRuns ==
  /\ pc = "calling"
  /\ \E k \in Calls :
       /\ thread' = Append(thread, Reply(1 .. k, TRUE))
       /\ batch' = [todo |-> 1 .. k, done |-> {}, explores |-> FALSE]
  /\ pc' = "dispatch"
  /\ attempt' = 0
  /\ UNCHANGED <<turns, turn, cancelled, queue, pushed, arrived, ran, outcome>>

\* A reply truncated at max_tokens: raise the budget; at its ceiling let the
\* model try again if it made calls, and end the turn if it did not.
ReplyCut ==
  /\ pc = "calling"
  /\ \E k \in Calls \cup {0} :
       /\ thread' = thread \o CutMessages(k)
       /\ IF turn.raises < MaxRaises
          THEN Continue([turn EXCEPT !.raises = @ + 1])
          ELSE IF k > 0 THEN Continue(turn) ELSE End("truncated")
  /\ attempt' = 0
  /\ UNCHANGED <<turns, batch, cancelled, queue, pushed, arrived, ran>>

\* The next call of the reply ran, or was refused, unknown or denied: there is
\* a result.
Dispatch ==
  /\ pc = "dispatch"
  /\ \E c \in batch.todo :
       /\ \A d \in batch.todo : c <= d
       /\ batch' = [batch EXCEPT !.todo = @ \ {c}, !.done = @ \cup {c}]
       /\ ran' = ran \cup {<<Len(thread), c>>}
  /\ UNCHANGED <<pc, thread, turns, turn, attempt, cancelled, queue, pushed, arrived,
                 outcome>>

Explored == IF batch.explores THEN turn.explored + 1 ELSE 0

Nudge == NudgeAfter > 0 /\ Explored >= NudgeAfter /\ ~turn.nudged

ToolMessage ==
  IF batch.done # {} THEN <<Results(Len(thread), batch.done)>> ELSE <<>>

NudgeMessage == IF Nudge THEN <<Input("nudge", 0)>> ELSE <<>>

\* Mutant: the nudge is appended before the results.
BatchMessagesSwapped == NudgeMessage \o ToolMessage

\* What is appended after the last call that was dispatched.
BatchMessages == ToolMessage \o NudgeMessage

BatchDone ==
  /\ pc = "dispatch" /\ batch.todo = {}
  /\ thread' = thread \o BatchMessages
  /\ Continue([turn EXCEPT !.explored = Explored, !.nudged = @ \/ Nudge])
  /\ batch' = NoBatch
  /\ UNCHANGED <<turns, attempt, cancelled, queue, pushed, arrived, ran>>

\* A permission prompt was answered Cancelled, or nobody can answer it: the
\* call and those after it get no result, and the token is set.
PromptCancelled ==
  /\ pc = "dispatch" /\ batch.todo # {}
  /\ cancelled' = TRUE
  /\ thread' = thread \o BatchMessages
  /\ End("cancelled")
  /\ batch' = NoBatch
  /\ UNCHANGED <<turns, attempt, queue, pushed, arrived, ran>>

-----------------------------------------------------------------------------
AgentNext ==
  Top \/ TopEnds \/ CallRetried \/ CallFails \/ ReplyStops \/ Look
    \/ ReplyCalls \/ ReplyCut \/ Dispatch \/ BatchDone \/ PromptCancelled

Next ==
  \/ Start
  \/ AgentNext
  \/ Cancel
  \/ \E q \in Sources : Push(q)

(***************************************************************************)
(* A started turn goes on: the provider's call returns or times out, tools *)
(* end, and a prompt is answered or its reply sender dropped.              *)
(***************************************************************************)
Spec == Init /\ [][Next]_vars /\ WF_vars(AgentNext)

-----------------------------------------------------------------------------
(***************************************************************************)
(* The type invariant.                                                     *)
(***************************************************************************)
TypeOK ==
  /\ pc \in {"idle", "top", "calling", "dispatch"} \cup Sources
  /\ thread \in Seq(Message)
  /\ turns \in 0 .. MaxTurns
  /\ turn \in [left : 0 .. ToolCap, raises : 0 .. MaxRaises,
               explored : 0 .. ToolCap, nudged : BOOLEAN]
  /\ attempt \in 0 .. MaxRetries
  /\ batch \in [todo : SUBSET Calls, done : SUBSET Calls, explores : BOOLEAN]
  /\ cancelled \in BOOLEAN
  /\ queue \in [Sources -> Seq(Message)]
  /\ pushed \in [Sources -> 0 .. MaxInput]
  /\ arrived \in [Sources -> 0 .. MaxInput]
  /\ ran \subseteq Nat \X Calls
  /\ outcome \in {"none", "done", "capped", "cancelled", "failed", "truncated"}

(***************************************************************************)
(* Every request pairs each tool call with its result: whatever was        *)
(* cancelled in the middle of a batch, truncated, steered or nudged        *)
(* before, once sanitize_unpaired_tool_calls has run the provider is never *)
(* sent a call without its result or a result away from its call.          *)
(***************************************************************************)
RequestsPaired == pc = "calling" => Paired(Sanitize(thread))

(***************************************************************************)
(* No input is lost, duplicated or reordered: what was pushed into a queue *)
(* is in the thread or still queued, in the order of pushing.              *)
(***************************************************************************)
InputKept == \A q \in Sources : InOrder(thread \o queue[q], q, pushed[q])

(***************************************************************************)
(* ADR 0029's follow-up: a turn that ends by itself ends with a reply, and *)
(* everything pushed before that reply came is in the thread, in order.    *)
(* What came after it is there or, if its queue had been looked at, still  *)
(* queued (InputKept): the next turn takes it.                             *)
(***************************************************************************)
LateInputAnswered ==
  [][outcome' = "done" /\ outcome # "done" =>
       /\ thread'[Len(thread')].kind = "assistant"
       /\ \A q \in Sources :
            \E n \in arrived[q] .. pushed[q] : InOrder(thread', q, n)]_vars

(***************************************************************************)
(* ADR 0038: a call of a truncated reply is never dispatched, nor is a call *)
(* dispatched that its message does not make.                                *)
(***************************************************************************)
TruncatedNeverRun ==
  \A r \in ran : /\ r[1] \in DOMAIN thread
                 /\ r[2] \in thread[r[1]].calls
                 /\ ~thread[r[1]].cut

(***************************************************************************)
(* Every turn ends: neither steering, nor raising the token budget, nor    *)
(* retries, nor truncated calls keep it running past the tool cap.         *)
(***************************************************************************)
TurnEnds == (pc # "idle") ~> (pc = "idle")
=============================================================================
