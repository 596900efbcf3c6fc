-------------------------- MODULE AgentTurnProofs --------------------------
(***************************************************************************)
(* For every tool cap, retry and token budget, nudge threshold, batch size *)
(* and number of inputs: the turn's counters stay in range, only calls of  *)
(* complete replies are dispatched, every request pairs calls with results, *)
(* and no input is lost, doubled, overtaken or overlooked.                 *)
(***************************************************************************)
EXTENDS AgentTurn, SequenceTheorems, TLAPS

Busy == {"calling", "dispatch"} \cup Sources

\* An iteration explores at most once, after it has been counted.
Counted ==
  /\ pc = "top" => turn.explored + turn.left <= ToolCap
  /\ pc \in Busy => turn.explored + turn.left < ToolCap

\* During a batch the thread ends with the reply it was made from.
BatchOfReply ==
  pc = "dispatch" =>
    /\ thread # <<>>
    /\ ~thread[Len(thread)].cut
    /\ batch.todo \cup batch.done \subseteq thread[Len(thread)].calls

IndInv == TypeOK /\ Counted /\ BatchOfReply /\ TruncatedNeverRun

-----------------------------------------------------------------------------
(***************************************************************************)
(* The messages the agent builds are messages.                             *)
(***************************************************************************)
LEMMA InputTyped ==
  ASSUME NEW kind \in Kinds, NEW n \in Nat
  PROVE  Input(kind, n) \in Message
BY DEF Input, Message

(***************************************************************************)
(* A reply is a message, cut short or not.                                 *)
(***************************************************************************)
LEMMA ReplyTyped ==
  ASSUME NEW calls \in SUBSET Calls, NEW cut \in BOOLEAN
  PROVE  Reply(calls, cut) \in Message
BY DEF Reply, Message, Kinds

(***************************************************************************)
(* The results of a batch are one message.                                 *)
(***************************************************************************)
LEMMA ResultsTyped ==
  ASSUME NEW of \in Nat, NEW calls \in SUBSET Calls
  PROVE  Results(of, calls) \in Message
BY DEF Results, Message, Kinds

(***************************************************************************)
(* Appending to a thread keeps it a thread and its messages in place.      *)
(***************************************************************************)
LEMMA Extended ==
  ASSUME NEW s \in Seq(Message), NEW t \in Seq(Message)
  PROVE  /\ s \o t \in Seq(Message)
         /\ Len(s \o t) = Len(s) + Len(t)
         /\ \A i \in DOMAIN s : i \in DOMAIN (s \o t) /\ (s \o t)[i] = s[i]
BY ConcatProperties

(***************************************************************************)
(* One message appended: what the thread grows by.                         *)
(***************************************************************************)
LEMMA AppendedTyped ==
  ASSUME NEW s \in Seq(Message), NEW m \in Message
  PROVE  /\ Append(s, m) \in Seq(Message)
         /\ Len(Append(s, m)) = Len(s) + 1
         /\ Append(s, m)[Len(s) + 1] = m
         /\ \A i \in DOMAIN s :
              i \in DOMAIN Append(s, m) /\ Append(s, m)[i] = s[i]
OBVIOUS

(***************************************************************************)
(* What was dispatched stays accounted for while the thread grows.         *)
(***************************************************************************)
LEMMA RanKept ==
  ASSUME TruncatedNeverRun, ran' = ran,
         \A i \in DOMAIN thread : i \in DOMAIN thread' /\ thread'[i] = thread[i]
  PROVE  TruncatedNeverRun'
BY DEF TruncatedNeverRun

(***************************************************************************)
(* The calls of a reply are numbered from one.                             *)
(***************************************************************************)
LEMMA Replies == \A k \in Calls \cup {0} : 1 .. k \subseteq Calls
BY MaxCallsAssumption DEF Calls

(***************************************************************************)
(* A turn's locals are typed when it is over.                              *)
(***************************************************************************)
Turn == [left : 0 .. ToolCap, raises : 0 .. MaxRaises,
         explored : 0 .. ToolCap, nudged : BOOLEAN]

(***************************************************************************)
(* Between turns there is nothing to count.                                *)
(***************************************************************************)
LEMMA NoTurnTyped == NoTurn \in Turn
BY AgentAssumption DEF NoTurn, Turn

(***************************************************************************)
(* And no batch.                                                           *)
(***************************************************************************)
LEMMA NoBatchTyped ==
  NoBatch \in [todo : SUBSET Calls, done : SUBSET Calls, explores : BOOLEAN]
BY DEF NoBatch

(***************************************************************************)
(* The queues, one after the other, are a sequence of messages.            *)
(***************************************************************************)
LEMMA QueuesTyped ==
  ASSUME TypeOK
  PROVE  /\ \A q \in Sources : queue[q] \in Seq(Message)
         /\ queue["steer"] \o queue["task"] \o queue["parent"] \in Seq(Message)
<1>1. queue["steer"] \in Seq(Message) /\ queue["task"] \in Seq(Message)
        /\ queue["parent"] \in Seq(Message)
  BY DEF TypeOK, Sources
<1>3. \A q \in Sources : queue[q] \in Seq(Message)  BY DEF TypeOK
<1>4. queue["steer"] \o queue["task"] \o queue["parent"] \in Seq(Message)
  BY <1>1, Extended
<1> QED BY <1>3, <1>4

-----------------------------------------------------------------------------
(***************************************************************************)
(* The invariant holds initially, for a resumed session too.               *)
(***************************************************************************)
LEMMA InitInd == Init => IndInv
<1> SUFFICES ASSUME Init PROVE IndInv  OBVIOUS
<1> DEFINE prompt == Input("prompt", 0)
           cutShort == <<prompt, Reply(Calls, FALSE)>>
           some == {1} \cap Calls
<1>1. prompt \in Message  BY InputTyped DEF Kinds, UserKinds
<1>2. Reply(Calls, FALSE) \in Message  BY ReplyTyped
<1>3. Results(2, some) \in Message
  <2>1. some \in SUBSET Calls /\ 2 \in Nat  OBVIOUS
  <2> HIDE DEF some
  <2> QED BY <2>1, ResultsTyped
<1>4. cutShort \in Seq(Message)
  <2> DEFINE reply == Reply(Calls, FALSE)
  <2>1. prompt \in Message /\ reply \in Message  BY <1>1, <1>2
  <2> HIDE DEF prompt, reply
  <2>2. <<prompt, reply>> \in Seq(Message)  BY <2>1
  <2> QED BY <2>2 DEF reply
<1>5. Append(cutShort, Results(2, some)) \in Seq(Message)
  BY <1>3, <1>4, AppendedTyped
<1>6. thread \in Seq(Message)
  <2>1. thread \in {<<>>, cutShort, Append(cutShort, Results(2, some))}
    BY DEF Init, Sessions
  <2> HIDE DEF cutShort, some
  <2>2. <<>> \in Seq(Message)  OBVIOUS
  <2> QED BY <1>4, <1>5, <2>1, <2>2
<1>7. turn \in Turn /\ batch = NoBatch /\ attempt \in 0 .. MaxRetries
        /\ turns \in 0 .. MaxTurns
  BY NoTurnTyped, AgentAssumption DEF Init
<1>8. queue \in [Sources -> Seq(Message)] /\ pushed \in [Sources -> 0 .. MaxInput]
        /\ arrived \in [Sources -> 0 .. MaxInput]
  BY AgentAssumption DEF Init
<1>9. TypeOK
  BY <1>6, <1>7, <1>8, NoBatchTyped DEF Init, TypeOK, Turn
<1> QED BY <1>9 DEF Init, IndInv, Counted, Busy, Sources, BatchOfReply, TruncatedNeverRun

(***************************************************************************)
(* Other threads touch only the token and the queues.                      *)
(***************************************************************************)
LEMMA CancelInd == IndInv /\ Cancel => IndInv'
BY DEF IndInv, Cancel, TypeOK, Counted, Busy, BatchOfReply, TruncatedNeverRun

(***************************************************************************)
(* A push may come at any point of a turn (src/agent.rs, SteerQueue,       *)
(* task_notifications, parent_msg_rx).                                     *)
(***************************************************************************)
LEMMA PushInd ==
  ASSUME IndInv, NEW q \in Sources, Push(q)
  PROVE  IndInv'
<1> USE DEF IndInv
<1>1. pushed["steer"] \in 0 .. MaxInput /\ pushed["task"] \in 0 .. MaxInput
        /\ pushed["parent"] \in 0 .. MaxInput
  BY DEF TypeOK, Sources
<1>2. pushed[q] + 1 \in 0 .. MaxInput
  BY <1>1, AgentAssumption DEF Push, Sources
<1>3. Input(q, pushed[q] + 1) \in Message
  <2>1. q \in Kinds  BY DEF Sources, Kinds, UserKinds
  <2>2. pushed[q] + 1 \in Nat  BY <1>2, AgentAssumption
  <2> QED BY <2>1, <2>2, InputTyped
<1>4. Append(queue[q], Input(q, pushed[q] + 1)) \in Seq(Message)
  BY <1>3, QueuesTyped, AppendedTyped
<1>5. queue' \in [Sources -> Seq(Message)] /\ pushed' \in [Sources -> 0 .. MaxInput]
  BY <1>2, <1>4 DEF Push, TypeOK
<1>6. UNCHANGED <<pc, thread, turns, turn, attempt, batch, cancelled, arrived, ran, outcome>>
  BY DEF Push
<1>7. TypeOK'  BY <1>5, <1>6 DEF TypeOK
<1> QED BY <1>6, <1>7 DEF Counted, Busy, BatchOfReply, TruncatedNeverRun

-----------------------------------------------------------------------------
(***************************************************************************)
(* The steps between provider calls.                                       *)
(***************************************************************************)
LEMMA StartInd == IndInv /\ Start => IndInv'
<1> SUFFICES ASSUME IndInv, Start PROVE IndInv'  OBVIOUS
<1> USE DEF IndInv
<1>1. turns + 1 \in 0 .. MaxTurns /\ turns + 1 \in Nat
  BY AgentAssumption DEF Start, TypeOK
<1>2. Input("prompt", turns + 1) \in Message
  BY <1>1, InputTyped DEF Kinds, UserKinds
<1>3. thread \in Seq(Message)  BY DEF TypeOK
<1>4. /\ thread' \in Seq(Message)
      /\ \A i \in DOMAIN thread : i \in DOMAIN thread' /\ thread'[i] = thread[i]
  BY <1>2, <1>3, AppendedTyped DEF Start
<1>5. /\ turn' \in Turn
      /\ turn'.explored + turn'.left <= ToolCap
  <2>1. turn' = [left |-> ToolCap, raises |-> 0, explored |-> 0, nudged |-> FALSE]
    BY DEF Start, NoTurn
  <2> QED BY <2>1, AgentAssumption DEF Turn
<1>6. TypeOK'  BY <1>1, <1>4, <1>5 DEF Start, TypeOK, Turn
<1>7. TruncatedNeverRun'  BY <1>4, RanKept DEF Start
<1> QED BY <1>5, <1>6, <1>7 DEF Start, Counted, Busy, Sources, BatchOfReply

(***************************************************************************)
(* The top of an iteration takes one of those left and drains the queues.  *)
(***************************************************************************)
LEMMA TopInd == IndInv /\ Top => IndInv'
<1> SUFFICES ASSUME IndInv, Top PROVE IndInv'  OBVIOUS
<1> USE DEF IndInv
<1>1. /\ thread \in Seq(Message) /\ queue["steer"] \in Seq(Message)
      /\ queue["task"] \in Seq(Message) /\ queue["parent"] \in Seq(Message)
  BY QueuesTyped DEF TypeOK, Sources
<1>2. thread' = ((thread \o queue["steer"]) \o queue["task"]) \o queue["parent"]
  BY DEF Top
<1> DEFINE steered == thread \o queue["steer"]
           notified == steered \o queue["task"]
<1>3. /\ thread' \in Seq(Message)
      /\ \A i \in DOMAIN thread : i \in DOMAIN thread' /\ thread'[i] = thread[i]
  <2>1. /\ steered \in Seq(Message)
        /\ \A i \in DOMAIN thread : i \in DOMAIN steered /\ steered[i] = thread[i]
    BY <1>1, Extended
  <2>2. /\ notified \in Seq(Message)
        /\ \A i \in DOMAIN steered : i \in DOMAIN notified /\ notified[i] = steered[i]
    BY <1>1, <2>1, Extended
  <2> HIDE DEF notified
  <2>3. /\ thread' \in Seq(Message)
        /\ \A i \in DOMAIN notified : i \in DOMAIN thread' /\ thread'[i] = notified[i]
    BY <1>1, <1>2, <2>2, Extended DEF notified
  <2> QED BY <2>1, <2>2, <2>3
<1>4. turn \in Turn  BY DEF TypeOK, Turn
<1>5. /\ turn' \in Turn
      /\ turn'.explored + turn'.left < ToolCap
  <2>1. turn.left \in 1 .. ToolCap /\ turn.explored \in Nat
          /\ turn.explored + turn.left <= ToolCap
    BY <1>4, AgentAssumption DEF Top, Counted, Turn
  <2>2. turn' = [turn EXCEPT !.left = turn.left - 1]  BY DEF Top
  <2>3. turn.left - 1 \in 0 .. ToolCap /\ turn.explored + (turn.left - 1) < ToolCap
    BY <2>1, AgentAssumption
  <2>4. turn'.left = turn.left - 1 /\ turn'.explored = turn.explored
    BY <1>4, <2>2 DEF Turn
  <2>5. turn' \in Turn  BY <1>4, <2>2, <2>3 DEF Turn
  <2> QED BY <2>3, <2>4, <2>5
<1>6. queue' \in [Sources -> Seq(Message)]  BY DEF Top
<1>7. TypeOK'  BY <1>3, <1>5, <1>6 DEF Top, TypeOK, Turn
<1>8. TruncatedNeverRun'  BY <1>3, RanKept DEF Top
<1> QED BY <1>5, <1>7, <1>8 DEF Top, Counted, Busy, BatchOfReply

(***************************************************************************)
(* A turn that ends at the top has nothing under way.                      *)
(***************************************************************************)
LEMMA TopEndsInd == IndInv /\ TopEnds => IndInv'
<1> SUFFICES ASSUME IndInv, TopEnds PROVE IndInv'  OBVIOUS
<1>1. /\ pc' = "idle" /\ turn' = NoTurn /\ outcome' \in {"capped", "cancelled"}
      /\ UNCHANGED <<thread, turns, attempt, batch, cancelled, queue, pushed, arrived, ran>>
  BY DEF TopEnds, End
<1> QED BY <1>1, NoTurnTyped
        DEF IndInv, TypeOK, Turn, Counted, Busy, Sources, BatchOfReply, TruncatedNeverRun

(***************************************************************************)
(* A retry is one of those allowed (src/agent.rs, complete_retrying).      *)
(***************************************************************************)
LEMMA CallRetriedInd == IndInv /\ CallRetried => IndInv'
<1> SUFFICES ASSUME IndInv, CallRetried PROVE IndInv'  OBVIOUS
<1>1. attempt' \in 0 .. MaxRetries
  BY AgentAssumption DEF IndInv, TypeOK, CallRetried
<1> QED BY <1>1
        DEF IndInv, CallRetried, TypeOK, Counted, Busy, BatchOfReply, TruncatedNeverRun

(***************************************************************************)
(* A call that fails for good ends the turn.                               *)
(***************************************************************************)
LEMMA CallFailsInd == IndInv /\ CallFails => IndInv'
<1> SUFFICES ASSUME IndInv, CallFails PROVE IndInv'  OBVIOUS
<1>1. /\ pc' = "idle" /\ turn' = NoTurn /\ outcome' = "failed" /\ attempt' = 0
      /\ UNCHANGED <<thread, turns, batch, cancelled, queue, pushed, arrived, ran>>
  BY DEF CallFails, End
<1>2. TypeOK'  BY <1>1, NoTurnTyped, AgentAssumption DEF IndInv, TypeOK, Turn
<1>3. TruncatedNeverRun'  BY <1>1 DEF IndInv, TruncatedNeverRun
<1> QED BY <1>1, <1>2, <1>3 DEF IndInv, Counted, Busy, Sources, BatchOfReply

-----------------------------------------------------------------------------
(***************************************************************************)
(* The three kinds of reply.                                               *)
(***************************************************************************)
LEMMA ReplyStopsInd == IndInv /\ ReplyStops => IndInv'
<1> SUFFICES ASSUME IndInv, ReplyStops PROVE IndInv'  OBVIOUS
<1> USE DEF IndInv
<1>1. thread \in Seq(Message) /\ Reply({}, FALSE) \in Message
  BY ReplyTyped DEF TypeOK
<1>2. /\ thread' \in Seq(Message)
      /\ \A i \in DOMAIN thread : i \in DOMAIN thread' /\ thread'[i] = thread[i]
  BY <1>1, AppendedTyped DEF ReplyStops
<1>3. /\ pc' = "steer" /\ attempt' = 0 /\ arrived' = pushed
      /\ UNCHANGED <<turns, turn, batch, cancelled, queue, pushed, ran, outcome>>
  BY DEF ReplyStops
<1>4. TruncatedNeverRun'  BY <1>2, RanKept DEF ReplyStops
<1>5. TypeOK'
  <2>1. arrived' \in [Sources -> 0 .. MaxInput] /\ 0 \in 0 .. MaxRetries
    BY <1>3, AgentAssumption DEF TypeOK
  <2> QED BY <1>2, <1>3, <2>1 DEF TypeOK, Sources
<1>6. turn.explored + turn.left < ToolCap
  BY DEF ReplyStops, Counted, Busy
<1> QED BY <1>3, <1>4, <1>5, <1>6 DEF Counted, Busy, Sources, BatchOfReply

(***************************************************************************)
(* A look takes what one queue holds and restarts or ends the turn, or     *)
(* goes on to the next queue.                                              *)
(***************************************************************************)
LEMMA LookInd == IndInv /\ Look => IndInv'
<1> SUFFICES ASSUME IndInv, Look PROVE IndInv'  OBVIOUS
<1> USE DEF IndInv
<1>1. PICK q \in Sources :
        /\ pc = q
        /\ thread' = thread \o queue[q]
        /\ queue' = [queue EXCEPT ![q] = <<>>]
        /\ \/ queue[q] # <<>> /\ Continue(turn)
           \/ q = "steer" /\ queue[q] = <<>> /\ pc' = "task" /\ UNCHANGED <<turn, outcome>>
           \/ q = "task" /\ queue[q] = <<>> /\ pc' = "parent" /\ UNCHANGED <<turn, outcome>>
           \/ q = "parent" /\ queue[q] = <<>> /\ End("done")
        /\ UNCHANGED <<turns, attempt, batch, cancelled, pushed, arrived, ran>>
  BY DEF Look
<1>2. thread \in Seq(Message) /\ queue[q] \in Seq(Message)
  BY QueuesTyped DEF TypeOK
<1>3. /\ thread' \in Seq(Message)
      /\ \A i \in DOMAIN thread : i \in DOMAIN thread' /\ thread'[i] = thread[i]
  BY <1>1, <1>2, Extended
<1>4. queue' \in [Sources -> Seq(Message)]
  BY <1>1 DEF TypeOK
<1>5. TruncatedNeverRun'  BY <1>1, <1>3, RanKept
<1>6. pc \in Busy /\ turn.explored + turn.left < ToolCap
  BY <1>1 DEF Busy, Counted
<1>7. turn.explored + turn.left <= ToolCap
  BY <1>6, AgentAssumption DEF TypeOK
<1>8. CASE pc' \in {"top", "task", "parent"} /\ turn' = turn /\ outcome' = outcome
  <2>1. TypeOK'  BY <1>1, <1>3, <1>4, <1>8 DEF TypeOK, Sources
  <2> QED BY <1>5, <1>6, <1>7, <1>8, <2>1 DEF Counted, Busy, BatchOfReply
<1>9. CASE pc' = "idle" /\ turn' = NoTurn /\ outcome' = "done"
  <2>1. TypeOK'
    BY <1>1, <1>3, <1>4, <1>9, NoTurnTyped DEF TypeOK, Turn
  <2> QED BY <1>5, <1>9, <2>1 DEF Counted, Busy, Sources, BatchOfReply
<1> QED BY <1>1, <1>8, <1>9 DEF Continue, End

(***************************************************************************)
(* A reply with calls becomes the batch; it is the last message of the     *)
(* thread.                                                                 *)
(***************************************************************************)
LEMMA ReplyCallsInd == IndInv /\ ReplyCalls => IndInv'
<1> SUFFICES ASSUME IndInv, ReplyCalls PROVE IndInv'  OBVIOUS
<1> USE DEF IndInv
<1>1. PICK k \in Calls, explores \in BOOLEAN :
        /\ thread' = Append(thread, Reply(1 .. k, FALSE))
        /\ batch' = [todo |-> 1 .. k, done |-> {}, explores |-> explores]
  BY DEF ReplyCalls
<1> DEFINE reply == Reply(1 .. k, FALSE)
<1>2. 1 .. k \in SUBSET Calls  BY Replies
<1>3. reply \in Message /\ thread \in Seq(Message)
  BY <1>2, ReplyTyped DEF TypeOK
<1>4. reply.calls = 1 .. k /\ ~reply.cut  BY DEF Reply
<1>5. thread' = Append(thread, reply)  BY <1>1
<1> HIDE DEF reply
<1>6. /\ thread' \in Seq(Message)
      /\ thread' # <<>> /\ thread'[Len(thread')] = reply
      /\ \A i \in DOMAIN thread : i \in DOMAIN thread' /\ thread'[i] = thread[i]
  BY <1>3, <1>5, AppendedTyped
<1>7. batch' \in [todo : SUBSET Calls, done : SUBSET Calls, explores : BOOLEAN]
        /\ batch'.todo \cup batch'.done = 1 .. k
  BY <1>1, <1>2
<1>8. /\ pc' = "dispatch" /\ attempt' = 0
      /\ UNCHANGED <<turns, turn, cancelled, queue, pushed, arrived, ran, outcome>>
  BY DEF ReplyCalls
<1>9. TypeOK'  BY <1>6, <1>7, <1>8, AgentAssumption DEF TypeOK
<1>10. TruncatedNeverRun'  BY <1>6, <1>8, RanKept
<1>11. BatchOfReply'  BY <1>4, <1>6, <1>7 DEF BatchOfReply
<1>12. Counted'  BY <1>8 DEF Counted, Busy, ReplyCalls
<1> QED BY <1>9, <1>10, <1>11, <1>12

(***************************************************************************)
(* A truncated reply makes no batch: its calls get error results at once.  *)
(***************************************************************************)
LEMMA ReplyCutInd == IndInv /\ ReplyCut => IndInv'
<1> SUFFICES ASSUME IndInv, ReplyCut PROVE IndInv'  OBVIOUS
<1> USE DEF IndInv
<1>1. PICK k \in Calls \cup {0} :
        /\ thread' = thread \o CutMessages(k)
        /\ IF turn.raises < MaxRaises
           THEN Continue([turn EXCEPT !.raises = @ + 1])
           ELSE IF k > 0 THEN Continue(turn) ELSE End("truncated")
  BY DEF ReplyCut
<1>2. thread \in Seq(Message) /\ turn \in Turn  BY DEF TypeOK, Turn
<1>3. CutMessages(k) \in Seq(Message)
  <2>1. 1 .. k \in SUBSET Calls /\ Len(thread) + 1 \in Nat  BY <1>2, Replies
  <2> DEFINE reply == Reply(1 .. k, TRUE)
             results == Results(Len(thread) + 1, 1 .. k)
  <2>2. reply \in Message /\ results \in Message
    BY <2>1, ReplyTyped, ResultsTyped
  <2>3. CutMessages(k) = <<reply>> \o (IF k > 0 THEN <<results>> ELSE <<>>)
    BY DEF CutMessages
  <2> HIDE DEF reply, results
  <2>4. <<reply>> \in Seq(Message) /\ <<results>> \in Seq(Message)
          /\ <<>> \in Seq(Message)
    BY <2>2
  <2> QED BY <2>3, <2>4, Extended
<1>4. /\ thread' \in Seq(Message)
      /\ \A i \in DOMAIN thread : i \in DOMAIN thread' /\ thread'[i] = thread[i]
  BY <1>1, <1>2, <1>3, Extended
<1>5. /\ UNCHANGED <<turns, batch, cancelled, queue, pushed, arrived, ran>>
      /\ attempt' = 0
  BY DEF ReplyCut
<1>6. TruncatedNeverRun'  BY <1>4, <1>5, RanKept
<1>7. /\ turn' \in Turn
      /\ pc' \in {"top", "idle"}
      /\ pc' = "top" => turn'.explored + turn'.left <= ToolCap
      /\ outcome' \in {outcome, "truncated"}
  <2>1. turn.explored + turn.left <= ToolCap
    BY <1>2, AgentAssumption DEF ReplyCut, Counted, Busy, Turn
  <2>2. turn.raises < MaxRaises => [turn EXCEPT !.raises = @ + 1] \in Turn
    BY <1>2, AgentAssumption DEF Turn
  <2> QED BY <1>1, <1>2, <2>1, <2>2, NoTurnTyped DEF Continue, End, Turn
<1>8. TypeOK'  BY <1>4, <1>5, <1>7, AgentAssumption DEF TypeOK, Turn
<1> QED BY <1>6, <1>7, <1>8 DEF Counted, Busy, Sources, BatchOfReply

-----------------------------------------------------------------------------
(***************************************************************************)
(* The batch.                                                              *)
(***************************************************************************)
LEMMA DispatchInd == IndInv /\ Dispatch => IndInv'
<1> SUFFICES ASSUME IndInv, Dispatch PROVE IndInv'  OBVIOUS
<1> USE DEF IndInv
<1>1. PICK c \in batch.todo :
        /\ batch' = [batch EXCEPT !.todo = @ \ {c}, !.done = @ \cup {c}]
        /\ ran' = ran \cup {<<Len(thread), c>>}
  BY DEF Dispatch
<1>2. UNCHANGED <<pc, thread, turns, turn, attempt, cancelled, queue, pushed, arrived,
                  outcome>>
        /\ pc = "dispatch"
  BY DEF Dispatch
<1>3. batch \in [todo : SUBSET Calls, done : SUBSET Calls, explores : BOOLEAN]
        /\ thread \in Seq(Message)
  BY DEF TypeOK
<1>4. c \in Calls  BY <1>3
<1>5. batch' \in [todo : SUBSET Calls, done : SUBSET Calls, explores : BOOLEAN]
        /\ batch'.todo \cup batch'.done = batch.todo \cup batch.done
  BY <1>1, <1>3, <1>4
<1>6. Len(thread) \in DOMAIN thread /\ Len(thread) \in Nat
        /\ c \in thread[Len(thread)].calls /\ ~thread[Len(thread)].cut
  BY <1>2, <1>3 DEF BatchOfReply
<1>7. ran' \subseteq Nat \X Calls  BY <1>1, <1>4, <1>6 DEF TypeOK
<1>8. TypeOK'  BY <1>2, <1>5, <1>7 DEF TypeOK
<1>9. TruncatedNeverRun'
  <2>1. \A r \in ran : r[1] \in DOMAIN thread /\ r[2] \in thread[r[1]].calls
                         /\ ~thread[r[1]].cut
    BY DEF TruncatedNeverRun
  <2> QED BY <1>1, <1>2, <1>6, <2>1 DEF TruncatedNeverRun
<1>10. BatchOfReply'  BY <1>2, <1>5 DEF BatchOfReply
<1>11. Counted'  BY <1>2 DEF Counted, Busy
<1> QED BY <1>8, <1>9, <1>10, <1>11

(***************************************************************************)
(* What a batch appends, finished or cancelled.                            *)
(***************************************************************************)
LEMMA BatchMessagesTyped ==
  ASSUME TypeOK
  PROVE  BatchMessages \in Seq(Message)
<1> DEFINE results == Results(Len(thread), batch.done)
           nudge == Input("nudge", 0)
<1>1. results \in Message  BY ResultsTyped DEF TypeOK
<1>2. nudge \in Message  BY InputTyped DEF Kinds, UserKinds
<1> HIDE DEF results, nudge
<1>3. <<results>> \in Seq(Message) /\ <<nudge>> \in Seq(Message)
        /\ <<>> \in Seq(Message)
  BY <1>1, <1>2
<1>4. ToolMessage \in Seq(Message)  BY <1>3 DEF ToolMessage, results
<1>5. NudgeMessage \in Seq(Message)  BY <1>3 DEF NudgeMessage, nudge
<1> QED BY <1>4, <1>5, Extended DEF BatchMessages

(***************************************************************************)
(* A batch leaves what was in the thread in its place.                     *)
(***************************************************************************)
LEMMA BatchExtends ==
  ASSUME TypeOK, thread' = thread \o BatchMessages
  PROVE  /\ thread' \in Seq(Message)
         /\ \A i \in DOMAIN thread : i \in DOMAIN thread' /\ thread'[i] = thread[i]
<1>1. thread \in Seq(Message)  BY DEF TypeOK
<1> QED BY <1>1, BatchMessagesTyped, Extended

(***************************************************************************)
(* A batch that is done counts as one exploration at most.                 *)
(***************************************************************************)
LEMMA BatchDoneInd == IndInv /\ BatchDone => IndInv'
<1> SUFFICES ASSUME IndInv, BatchDone PROVE IndInv'  OBVIOUS
<1> USE DEF IndInv
<1>1. /\ thread' \in Seq(Message)
      /\ \A i \in DOMAIN thread : i \in DOMAIN thread' /\ thread'[i] = thread[i]
  BY BatchExtends DEF BatchDone
<1>2. /\ pc' = "top" /\ batch' = NoBatch
      /\ turn' = [turn EXCEPT !.explored = Explored,
                              !.nudged = turn.nudged \/ Nudge]
      /\ UNCHANGED <<turns, attempt, cancelled, queue, pushed, arrived, ran, outcome>>
  BY DEF BatchDone, Continue
<1>3. turn \in Turn /\ turn.explored + turn.left < ToolCap
  BY DEF BatchDone, Counted, Busy, TypeOK, Turn
<1>4. Explored \in 0 .. ToolCap /\ Explored + turn.left <= ToolCap
  BY <1>3, AgentAssumption DEF Explored, Turn
<1>5. (turn.nudged \/ Nudge) \in BOOLEAN  OBVIOUS
<1>6. turn' \in Turn /\ turn'.explored + turn'.left <= ToolCap
  BY <1>2, <1>3, <1>4, <1>5 DEF Turn
<1>7. TypeOK'  BY <1>1, <1>2, <1>6, NoBatchTyped DEF TypeOK, Turn
<1>8. TruncatedNeverRun'  BY <1>1, <1>2, RanKept
<1> QED BY <1>2, <1>6, <1>7, <1>8 DEF Counted, Busy, Sources, BatchOfReply

(***************************************************************************)
(* A cancelled prompt ends batch and turn.                                 *)
(***************************************************************************)
LEMMA PromptCancelledInd == IndInv /\ PromptCancelled => IndInv'
<1> SUFFICES ASSUME IndInv, PromptCancelled PROVE IndInv'  OBVIOUS
<1> USE DEF IndInv
<1>1. /\ thread' \in Seq(Message)
      /\ \A i \in DOMAIN thread : i \in DOMAIN thread' /\ thread'[i] = thread[i]
  BY BatchExtends DEF PromptCancelled
<1>2. /\ pc' = "idle" /\ batch' = NoBatch /\ turn' = NoTurn
      /\ cancelled' = TRUE /\ outcome' = "cancelled"
      /\ UNCHANGED <<turns, attempt, queue, pushed, arrived, ran>>
  BY DEF PromptCancelled, End
<1>3. TypeOK'  BY <1>1, <1>2, NoBatchTyped, NoTurnTyped DEF TypeOK, Turn
<1>4. TruncatedNeverRun'  BY <1>1, <1>2, RanKept
<1> QED BY <1>2, <1>3, <1>4 DEF Counted, Busy, Sources, BatchOfReply

-----------------------------------------------------------------------------
(***************************************************************************)
(* Every reachable state satisfies the inductive invariant.                *)
(***************************************************************************)
LEMMA NextInd == IndInv /\ [Next]_vars => IndInv'
<1> SUFFICES ASSUME IndInv, [Next]_vars PROVE IndInv'  OBVIOUS
<1>1. CASE Start  BY <1>1, StartInd
<1>2. CASE AgentNext
  BY <1>2, TopInd, TopEndsInd, CallRetriedInd, CallFailsInd, ReplyStopsInd,
     LookInd, ReplyCallsInd, ReplyCutInd, DispatchInd, BatchDoneInd, PromptCancelledInd
     DEF AgentNext
<1>3. CASE Cancel  BY <1>3, CancelInd
<1>4. CASE \E q \in Sources : Push(q)  BY <1>4, PushInd
<1>5. CASE UNCHANGED vars
  BY <1>5 DEF vars, IndInv, TypeOK, Counted, Busy, BatchOfReply, TruncatedNeverRun
<1> QED BY <1>1, <1>2, <1>3, <1>4, <1>5 DEF Next

THEOREM AgentInvHolds == Spec => []IndInv
BY InitInd, NextInd, PTL DEF Spec

(***************************************************************************)
(* The counters of a turn stay in range, whatever the provider answers.    *)
(***************************************************************************)
THEOREM AgentTypeCorrect == Spec => []TypeOK
<1>1. IndInv => TypeOK  BY DEF IndInv
<1> QED BY <1>1, AgentInvHolds, PTL

(***************************************************************************)
(* ADR 0038 for every configuration: a call of a truncated reply is never  *)
(* dispatched.                                                             *)
(***************************************************************************)
THEOREM TruncatedNeverRunHolds == Spec => []TruncatedNeverRun
<1>1. IndInv => TruncatedNeverRun  BY DEF IndInv
<1> QED BY <1>1, AgentInvHolds, PTL

-----------------------------------------------------------------------------
(***************************************************************************)
(* Requests are paired.  The invariant: results come right after the reply *)
(* whose calls they answer, and only the agent itself writes results.      *)
(***************************************************************************)
Untooled(t) == \A i \in DOMAIN t : t[i].kind # "tool"

ResultsFollow(t) ==
  \A j \in DOMAIN t : t[j].kind = "tool" =>
    /\ j > 1
    /\ t[j - 1].kind = "assistant"
    /\ t[j].calls \subseteq t[j - 1].calls
    /\ t[j] = Results(j - 1, t[j].calls)

EndsWithReply(t) == t # <<>> /\ t[Len(t)].kind = "assistant"

\* Added to IndInv, this is inductive.
PairOnly ==
  /\ ResultsFollow(thread)
  /\ \A q \in Sources : Untooled(queue[q])
  /\ pc = "dispatch" => EndsWithReply(thread)

(***************************************************************************)
(* Once sanitized, a thread whose results follow their replies is what the *)
(* provider accepts.                                                       *)
(***************************************************************************)
LEMMA FollowPaired ==
  ASSUME NEW t \in Seq(Message), ResultsFollow(t)
  PROVE  Paired(Sanitize(t))
<1> DEFINE u == Sanitize(t)
<1>1. DOMAIN u = DOMAIN t /\ DOMAIN t = 1 .. Len(t) /\ Len(t) \in Nat
  BY DEF Sanitize
<1>2. \A i \in DOMAIN t : t[i] \in Message  OBVIOUS
<1>3. \A i \in DOMAIN t : t[i].kind # "assistant" => u[i] = t[i]
  BY DEF Sanitize
<1>4. \A i \in DOMAIN t : t[i].kind = "assistant" =>
        /\ u[i].kind = "assistant"
        /\ u[i].calls = {c \in t[i].calls : Answered(t, i, c)}
  <2> SUFFICES ASSUME NEW i \in DOMAIN t, t[i].kind = "assistant"
               PROVE  /\ u[i].kind = "assistant"
                      /\ u[i].calls = {c \in t[i].calls : Answered(t, i, c)}
    OBVIOUS
  <2>1. u[i] = [t[i] EXCEPT !.calls = {c \in t[i].calls : Answered(t, i, c)}]
    BY DEF Sanitize
  <2> QED BY <1>2, <2>1 DEF Message
<1>5. \A j \in DOMAIN t : t[j].kind = "tool" => t[j].n = j - 1
  BY DEF ResultsFollow, Results
<1>6. \A j \in DOMAIN t : t[j].kind = "tool" =>
        /\ j - 1 \in DOMAIN t /\ t[j - 1].kind = "assistant"
        /\ u[j - 1].calls = t[j].calls
  <2> SUFFICES ASSUME NEW j \in DOMAIN t, t[j].kind = "tool"
               PROVE  /\ j - 1 \in DOMAIN t /\ t[j - 1].kind = "assistant"
                      /\ u[j - 1].calls = t[j].calls
    OBVIOUS
  <2>1. /\ j - 1 \in DOMAIN t /\ t[j - 1].kind = "assistant"
        /\ t[j].calls \subseteq t[j - 1].calls
    BY <1>1 DEF ResultsFollow
  <2>2. \A c : Answered(t, j - 1, c) <=> c \in t[j].calls
    <3>1. ASSUME NEW c, Answered(t, j - 1, c)
          PROVE  c \in t[j].calls
      <4>1. PICK k \in DOMAIN t : t[k].kind = "tool" /\ t[k].n = j - 1
                                    /\ c \in t[k].calls
        BY <3>1 DEF Answered
      <4>2. k = j  BY <1>1, <1>5, <4>1
      <4> QED BY <4>1, <4>2
    <3>2. ASSUME NEW c, c \in t[j].calls
          PROVE  Answered(t, j - 1, c)
      BY <1>5, <3>2 DEF Answered
    <3> QED BY <3>1, <3>2
  <2> HIDE DEF u
  <2> QED BY <1>4, <2>1, <2>2
<1>7. ASSUME NEW i \in DOMAIN u, u[i].kind = "assistant", u[i].calls # {}
      PROVE  i + 1 \in DOMAIN u /\ u[i + 1] = Results(i, u[i].calls)
  <2>1. t[i].kind = "assistant"  BY <1>1, <1>3, <1>7
  <2> HIDE DEF u
  <2>2. PICK c : c \in u[i].calls  BY <1>7
  <2>3. Answered(t, i, c)  BY <1>1, <1>4, <2>1, <2>2
  <2>4. PICK j \in DOMAIN t : t[j].kind = "tool" /\ t[j].n = i
    BY <2>3 DEF Answered
  <2>5. j = i + 1  BY <1>1, <1>5, <2>4
  <2>6. t[j] = Results(j - 1, t[j].calls)  BY <2>4 DEF ResultsFollow
  <2>7. u[j] = t[j]  BY <1>3, <2>4
  <2>8. u[i].calls = t[j].calls  BY <1>1, <1>6, <2>4, <2>5
  <2>9. j - 1 = i  BY <1>1, <2>5
  <2> QED BY <1>1, <2>4, <2>5, <2>6, <2>7, <2>8, <2>9
<1>8. ASSUME NEW j \in DOMAIN u, u[j].kind = "tool"
      PROVE  /\ j > 1 /\ u[j] = Results(j - 1, u[j - 1].calls)
             /\ u[j - 1].kind = "assistant"
  <2>1. t[j].kind = "tool"
    <3>1. t[j].kind # "assistant"  BY <1>1, <1>4, <1>8
    <3> QED BY <1>1, <1>3, <1>8, <3>1
  <2> HIDE DEF u
  <2>2. u[j] = t[j]  BY <1>1, <1>3, <2>1
  <2>3. j > 1 /\ t[j] = Results(j - 1, t[j].calls)
    BY <1>1, <2>1 DEF ResultsFollow
  <2>4. u[j - 1].calls = t[j].calls /\ u[j - 1].kind = "assistant"
    BY <1>1, <1>4, <1>6, <2>1
  <2> QED BY <2>2, <2>3, <2>4
<1> QED BY <1>7, <1>8 DEF Paired

(***************************************************************************)
(* What may be appended.                                                   *)
(***************************************************************************)
LEMMA FollowUntooled ==
  ASSUME NEW s \in Seq(Message), NEW t \in Seq(Message),
         ResultsFollow(s), Untooled(t)
  PROVE  ResultsFollow(s \o t)
<1> DEFINE st == s \o t
<1>1. /\ DOMAIN st = 1 .. Len(s) + Len(t)
      /\ DOMAIN s = 1 .. Len(s) /\ DOMAIN t = 1 .. Len(t)
      /\ Len(s) \in Nat /\ Len(t) \in Nat
      /\ \A i \in 1 .. Len(s) : st[i] = s[i]
      /\ \A i \in Len(s) + 1 .. Len(s) + Len(t) : st[i] = t[i - Len(s)]
  OBVIOUS
<1> HIDE DEF st
<1>2. ASSUME NEW j \in DOMAIN st, st[j].kind = "tool"
      PROVE  /\ j > 1
             /\ st[j - 1].kind = "assistant"
             /\ st[j].calls \subseteq st[j - 1].calls
             /\ st[j] = Results(j - 1, st[j].calls)
  <2>1. j \in DOMAIN s
    <3>1. ASSUME j > Len(s) PROVE FALSE
      <4>1. j - Len(s) \in DOMAIN t /\ st[j] = t[j - Len(s)]
        BY <1>1, <3>1
      <4> QED BY <1>2, <4>1 DEF Untooled
    <3> QED BY <1>1, <3>1
  <2>2. st[j] = s[j]  BY <1>1, <2>1
  <2>3. j > 1 /\ s[j - 1].kind = "assistant" /\ s[j].calls \subseteq s[j - 1].calls
          /\ s[j] = Results(j - 1, s[j].calls)
    BY <1>2, <2>1, <2>2 DEF ResultsFollow
  <2>4. st[j - 1] = s[j - 1]  BY <1>1, <2>1, <2>3
  <2> QED BY <2>2, <2>3, <2>4
<1>3. ResultsFollow(st)  BY <1>2 DEF ResultsFollow
<1> QED BY <1>3 DEF st

(***************************************************************************)
(* Results may follow the reply whose calls they answer.                   *)
(***************************************************************************)
LEMMA FollowResults ==
  ASSUME NEW s \in Seq(Message), ResultsFollow(s), EndsWithReply(s),
         NEW calls \in SUBSET s[Len(s)].calls
  PROVE  ResultsFollow(s \o <<Results(Len(s), calls)>>)
<1> DEFINE m == Results(Len(s), calls)
           st == s \o <<m>>
<1>1. m.calls = calls  BY DEF Results
<1>2. m = Results(Len(s), m.calls)  BY <1>1
<1> HIDE DEF m
<1>3. /\ DOMAIN st = 1 .. Len(s) + 1
      /\ DOMAIN s = 1 .. Len(s)
      /\ Len(s) \in Nat /\ Len(s) > 0
      /\ \A i \in 1 .. Len(s) : st[i] = s[i]
      /\ st[Len(s) + 1] = m
  BY DEF EndsWithReply
<1> HIDE DEF st
<1>4. ASSUME NEW j \in DOMAIN st, st[j].kind = "tool"
      PROVE  /\ j > 1
             /\ st[j - 1].kind = "assistant"
             /\ st[j].calls \subseteq st[j - 1].calls
             /\ st[j] = Results(j - 1, st[j].calls)
  <2>1. CASE j = Len(s) + 1
    <3>1. j > 1 /\ j - 1 = Len(s) /\ st[j] = m /\ st[j - 1] = s[Len(s)]
      BY <1>3, <2>1
    <3> QED BY <1>1, <1>2, <3>1 DEF EndsWithReply
  <2>2. CASE j \in DOMAIN s
    <3>1. st[j] = s[j]  BY <1>3, <2>2
    <3>2. j > 1 /\ s[j - 1].kind = "assistant"
            /\ s[j].calls \subseteq s[j - 1].calls
            /\ s[j] = Results(j - 1, s[j].calls)
      BY <1>4, <2>2, <3>1 DEF ResultsFollow
    <3>3. st[j - 1] = s[j - 1]  BY <1>3, <2>2, <3>2
    <3> QED BY <3>1, <3>2, <3>3
  <2> QED BY <1>3, <2>1, <2>2
<1>5. ResultsFollow(st)  BY <1>4 DEF ResultsFollow
<1> QED BY <1>5 DEF st, m

(***************************************************************************)
(* Any message but results may follow anything; a reply may then have      *)
(* some.                                                                   *)
(***************************************************************************)
LEMMA FollowAppended ==
  ASSUME NEW s \in Seq(Message), NEW m \in Message,
         ResultsFollow(s), m.kind # "tool"
  PROVE  /\ ResultsFollow(Append(s, m))
         /\ m.kind = "assistant" => EndsWithReply(Append(s, m))
<1>1. <<m>> \in Seq(Message) /\ Untooled(<<m>>)  BY DEF Untooled
<1>2. Append(s, m) = s \o <<m>>  OBVIOUS
<1>3. ResultsFollow(Append(s, m))  BY <1>1, <1>2, FollowUntooled
<1>4. Append(s, m) # <<>> /\ Append(s, m)[Len(Append(s, m))] = m  OBVIOUS
<1> QED BY <1>3, <1>4 DEF EndsWithReply

(***************************************************************************)
(* A queue never holds results.                                            *)
(***************************************************************************)
LEMMA UntooledAppended ==
  ASSUME NEW s \in Seq(Message), NEW m \in Message, Untooled(s), m.kind # "tool"
  PROVE  Untooled(Append(s, m))
BY DEF Untooled

-----------------------------------------------------------------------------
(***************************************************************************)
(* A resumed session may lack results, but has none out of place.          *)
(***************************************************************************)
LEMMA InitPair == Init => PairOnly
<1> SUFFICES ASSUME Init PROVE PairOnly  OBVIOUS
<1> DEFINE some == {1} \cap Calls
           first == <<Input("prompt", 0)>>
           cutShort == <<Input("prompt", 0), Reply(Calls, FALSE)>>
           answered == Append(cutShort, Results(2, some))
<1>1. thread \in {<<>>, cutShort, answered}  BY DEF Init, Sessions
<1>2. /\ DOMAIN cutShort = {1, 2}
      /\ cutShort[1].kind = "prompt" /\ cutShort[2].kind = "assistant"
      /\ cutShort[2].calls = Calls
  BY DEF Input, Reply
<1>3. /\ DOMAIN answered = {1, 2, 3}
      /\ answered[1] = cutShort[1] /\ answered[2] = cutShort[2]
      /\ answered[3] = Results(2, some)
  OBVIOUS
<1> HIDE DEF cutShort, answered
<1>4. ResultsFollow(cutShort)  BY <1>2 DEF ResultsFollow
<1>5. ResultsFollow(answered)
  <2>1. Results(2, some).calls = some /\ some \subseteq Calls  BY DEF Results
  <2> HIDE DEF some
  <2>2. ASSUME NEW j \in DOMAIN answered, answered[j].kind = "tool"
        PROVE  j = 3
    BY <1>2, <1>3, <2>2
  <2> QED BY <1>2, <1>3, <2>1, <2>2 DEF ResultsFollow
<1>6. ResultsFollow(<<>>)  BY DEF ResultsFollow
<1>7. \A q \in Sources : Untooled(queue[q])  BY DEF Init, Untooled
<1> QED BY <1>1, <1>4, <1>5, <1>6, <1>7 DEF Init, PairOnly

(***************************************************************************)
(* Other threads push inputs, never results.                               *)
(***************************************************************************)
LEMMA PushPair ==
  ASSUME IndInv, PairOnly, NEW q \in Sources, Push(q)
  PROVE  PairOnly'
<1> DEFINE m == Input(q, pushed[q] + 1)
<1>1. m.kind # "tool"  BY DEF Input, Sources
<1>2. m \in Message
  <2>1. q \in Kinds  BY DEF Sources, Kinds, UserKinds
  <2>2. pushed[q] + 1 \in Nat  BY AgentAssumption DEF IndInv, TypeOK
  <2> QED BY <2>1, <2>2, InputTyped
<1>3. queue \in [Sources -> Seq(Message)]  BY DEF IndInv, TypeOK
<1>4. queue' = [queue EXCEPT ![q] = Append(queue[q], m)]  BY DEF Push
<1> HIDE DEF m
<1>5. Untooled(Append(queue[q], m))
  BY <1>1, <1>2, <1>3, UntooledAppended DEF PairOnly
<1>6. \A r \in Sources : Untooled(queue'[r])
  BY <1>3, <1>4, <1>5 DEF PairOnly
<1> QED BY <1>6 DEF Push, PairOnly

(***************************************************************************)
(* A turn starts with a prompt.                                            *)
(***************************************************************************)
LEMMA StartPair == IndInv /\ PairOnly /\ Start => PairOnly'
<1> SUFFICES ASSUME IndInv, PairOnly, Start PROVE PairOnly'  OBVIOUS
<1> DEFINE m == Input("prompt", turns + 1)
<1>1. m.kind # "tool"  BY DEF Input
<1>2. m \in Message
  <2>1. turns + 1 \in Nat  BY AgentAssumption DEF IndInv, TypeOK
  <2> QED BY <2>1, InputTyped DEF Kinds, UserKinds
<1>3. thread' = Append(thread, m)  BY DEF Start
<1> HIDE DEF m
<1>4. ResultsFollow(thread')
  BY <1>1, <1>2, <1>3, FollowAppended DEF IndInv, TypeOK, PairOnly
<1> QED BY <1>4 DEF Start, PairOnly

(***************************************************************************)
(* The queues are drained between a batch and the next request.            *)
(***************************************************************************)
LEMMA TopPair == IndInv /\ PairOnly /\ Top => PairOnly'
<1> SUFFICES ASSUME IndInv, PairOnly, Top PROVE PairOnly'  OBVIOUS
<1>1. /\ thread \in Seq(Message) /\ queue["steer"] \in Seq(Message)
      /\ queue["task"] \in Seq(Message) /\ queue["parent"] \in Seq(Message)
  BY QueuesTyped DEF IndInv, TypeOK, Sources
<1>2. Untooled(queue["steer"]) /\ Untooled(queue["task"]) /\ Untooled(queue["parent"])
  BY DEF PairOnly, Sources
<1>3. thread' = ((thread \o queue["steer"]) \o queue["task"]) \o queue["parent"]
  BY DEF Top
<1> DEFINE steered == thread \o queue["steer"]
           notified == steered \o queue["task"]
<1>4. steered \in Seq(Message) /\ ResultsFollow(steered)
  BY <1>1, <1>2, Extended, FollowUntooled DEF PairOnly
<1> HIDE DEF steered
<1>5. notified \in Seq(Message) /\ ResultsFollow(notified)
  BY <1>1, <1>2, <1>4, Extended, FollowUntooled
<1>6. thread' = notified \o queue["parent"]  BY <1>3 DEF steered
<1> HIDE DEF notified
<1>7. ResultsFollow(thread')  BY <1>1, <1>2, <1>5, <1>6, FollowUntooled
<1>8. \A q \in Sources : queue'[q] = <<>>  BY DEF Top
<1> QED BY <1>7, <1>8 DEF Top, PairOnly, Untooled

(***************************************************************************)
(* A reply without calls needs no results.                                 *)
(***************************************************************************)
LEMMA ReplyStopsPair == IndInv /\ PairOnly /\ ReplyStops => PairOnly'
<1> SUFFICES ASSUME IndInv, PairOnly, ReplyStops PROVE PairOnly'  OBVIOUS
<1> DEFINE m == Reply({}, FALSE)
<1>1. m \in Message /\ m.kind # "tool"  BY ReplyTyped DEF Reply
<1>2. thread' = Append(thread, m)  BY DEF ReplyStops
<1> HIDE DEF m
<1>3. ResultsFollow(thread')
  BY <1>1, <1>2, AppendedTyped, FollowAppended DEF IndInv, TypeOK, PairOnly
<1> QED BY <1>3 DEF ReplyStops, PairOnly

(***************************************************************************)
(* Nor does what one queue holds.                                          *)
(***************************************************************************)
LEMMA LookPair == IndInv /\ PairOnly /\ Look => PairOnly'
<1> SUFFICES ASSUME IndInv, PairOnly, Look PROVE PairOnly'  OBVIOUS
<1>1. PICK q \in Sources : /\ thread' = thread \o queue[q]
                           /\ queue' = [queue EXCEPT ![q] = <<>>]
                           /\ pc' # "dispatch"
  BY DEF Look, Continue, End
<1>2. thread \in Seq(Message) /\ queue[q] \in Seq(Message) /\ Untooled(queue[q])
  BY QueuesTyped DEF IndInv, TypeOK, PairOnly
<1>3. ResultsFollow(thread')  BY <1>1, <1>2, FollowUntooled DEF PairOnly
<1>4. \A r \in Sources : queue'[r] \in {queue[r], <<>>}
  BY <1>1 DEF IndInv, TypeOK
<1>5. \A r \in Sources : Untooled(queue'[r])
  BY <1>4 DEF PairOnly, Untooled
<1> QED BY <1>1, <1>3, <1>5 DEF PairOnly

(***************************************************************************)
(* The calls of a reply wait for their results while the batch is          *)
(* dispatched.                                                             *)
(***************************************************************************)
LEMMA ReplyCallsPair == IndInv /\ PairOnly /\ ReplyCalls => PairOnly'
<1> SUFFICES ASSUME IndInv, PairOnly, ReplyCalls PROVE PairOnly'  OBVIOUS
<1>1. PICK k \in Calls : thread' = Append(thread, Reply(1 .. k, FALSE))
  BY DEF ReplyCalls
<1> DEFINE m == Reply(1 .. k, FALSE)
<1>2. m \in Message /\ m.kind = "assistant"
  <2>1. 1 .. k \in SUBSET Calls  BY Replies
  <2> QED BY <2>1, ReplyTyped DEF Reply
<1>3. thread' = Append(thread, m)  BY <1>1
<1> HIDE DEF m
<1>4. ResultsFollow(thread') /\ EndsWithReply(thread')
  BY <1>2, <1>3, FollowAppended DEF IndInv, TypeOK, PairOnly
<1> QED BY <1>4 DEF ReplyCalls, PairOnly

(***************************************************************************)
(* The results of a truncated reply follow it at once.                     *)
(***************************************************************************)
LEMMA ReplyCutPair == IndInv /\ PairOnly /\ ReplyCut => PairOnly'
<1> SUFFICES ASSUME IndInv, PairOnly, ReplyCut PROVE PairOnly'  OBVIOUS
<1>1. PICK k \in Calls \cup {0} : thread' = thread \o CutMessages(k)
  BY DEF ReplyCut
<1> DEFINE m == Reply(1 .. k, TRUE)
           said == Append(thread, m)
<1>2. m \in Message /\ m.kind = "assistant" /\ m.calls = 1 .. k
  <2>1. 1 .. k \in SUBSET Calls  BY Replies
  <2> QED BY <2>1, ReplyTyped DEF Reply
<1>3. thread \in Seq(Message)  BY DEF IndInv, TypeOK
<1>4. CutMessages(k) = <<m>> \o
        (IF k > 0 THEN <<Results(Len(thread) + 1, 1 .. k)>> ELSE <<>>)
  BY DEF CutMessages
<1> HIDE DEF m
<1>5. /\ said \in Seq(Message) /\ Len(said) = Len(thread) + 1
      /\ ResultsFollow(said) /\ EndsWithReply(said)
      /\ said[Len(said)] = m
  BY <1>2, <1>3, AppendedTyped, FollowAppended DEF PairOnly
<1>6. ResultsFollow(thread')
  <2>1. CASE k > 0
    <3> DEFINE r == Results(Len(thread) + 1, 1 .. k)
    <3>1. r \in Message
      <4>1. 1 .. k \in SUBSET Calls /\ Len(thread) + 1 \in Nat  BY <1>3, Replies
      <4> QED BY <4>1, ResultsTyped
    <3>2. thread' = thread \o (<<m>> \o <<r>>)  BY <1>1, <1>4, <2>1
    <3>3. r = Results(Len(said), 1 .. k)  BY <1>5
    <3> HIDE DEF r
    <3>4. thread \o (<<m>> \o <<r>>) = said \o <<r>>  BY <1>2, <1>3, <3>1
    <3> HIDE DEF said
    <3>5. 1 .. k \in SUBSET said[Len(said)].calls  BY <1>2, <1>5
    <3>6. ResultsFollow(said \o <<Results(Len(said), 1 .. k)>>)
      BY <1>5, <3>5, FollowResults
    <3> QED BY <3>2, <3>3, <3>4, <3>6
  <2>2. CASE ~(k > 0)
    <3>1. thread' = thread \o (<<m>> \o <<>>)  BY <1>1, <1>4, <2>2
    <3>2. thread \o (<<m>> \o <<>>) = said  BY <1>2, <1>3
    <3> QED BY <1>5, <3>1, <3>2
  <2> QED BY <2>1, <2>2
<1>7. pc' # "dispatch"  BY DEF ReplyCut, Continue, End
<1> QED BY <1>6, <1>7 DEF ReplyCut, PairOnly

(***************************************************************************)
(* A batch's results are appended before anything else.                    *)
(***************************************************************************)
LEMMA BatchPair ==
  ASSUME IndInv, PairOnly, pc = "dispatch", thread' = thread \o BatchMessages,
         pc' # "dispatch", queue' = queue
  PROVE  PairOnly'
<1>1. thread \in Seq(Message)  BY DEF IndInv, TypeOK
<1> DEFINE results == Results(Len(thread), batch.done)
           answered == thread \o ToolMessage
<1>2. results \in Message
  BY <1>1, ResultsTyped DEF IndInv, TypeOK
<1>3. ResultsFollow(thread \o <<results>>)
  BY <1>1, FollowResults DEF PairOnly, IndInv, BatchOfReply
<1>4. /\ ToolMessage \in Seq(Message)
      /\ ResultsFollow(answered)
  <2>1. ToolMessage = IF batch.done # {} THEN <<results>> ELSE <<>>
    BY DEF ToolMessage
  <2> HIDE DEF results
  <2>2. thread \o <<>> = thread  BY <1>1
  <2>3. <<results>> \in Seq(Message) /\ <<>> \in Seq(Message)  BY <1>2
  <2>4. ToolMessage \in Seq(Message)  BY <2>1, <2>3
  <2>5. CASE batch.done # {}
    <3>1. answered = thread \o <<results>>  BY <2>1, <2>5
    <3> QED BY <1>3, <2>4, <3>1 DEF results
  <2>6. CASE batch.done = {}
    <3>1. answered = thread  BY <2>1, <2>2, <2>6
    <3> QED BY <2>4, <3>1 DEF PairOnly
  <2> QED BY <2>5, <2>6
<1>5. NudgeMessage \in Seq(Message) /\ Untooled(NudgeMessage)
  <2> DEFINE nudge == Input("nudge", 0)
  <2>1. nudge \in Message /\ nudge.kind # "tool"
    <3>1. nudge \in Message  BY InputTyped DEF Kinds, UserKinds
    <3> QED BY <3>1 DEF Input
  <2>2. NudgeMessage = IF Nudge THEN <<nudge>> ELSE <<>>  BY DEF NudgeMessage
  <2> HIDE DEF nudge
  <2> QED BY <2>1, <2>2 DEF Untooled
<1>6. thread' = answered \o NudgeMessage
  BY <1>1, <1>4, <1>5, ConcatAssociative DEF BatchMessages
<1>7. answered \in Seq(Message)  BY <1>1, <1>4, Extended
<1> HIDE DEF answered
<1>8. ResultsFollow(thread')  BY <1>4, <1>5, <1>6, <1>7, FollowUntooled
<1> QED BY <1>8 DEF PairOnly

(***************************************************************************)
(* Every step keeps results behind their replies.                          *)
(***************************************************************************)
LEMMA NextPair == IndInv /\ PairOnly /\ [Next]_vars => PairOnly'
<1> SUFFICES ASSUME IndInv, PairOnly, [Next]_vars PROVE PairOnly'  OBVIOUS
<1>1. CASE Start  BY <1>1, StartPair
<1>2. CASE Top  BY <1>2, TopPair
<1>3. CASE ReplyStops \/ Look  BY <1>3, ReplyStopsPair, LookPair
<1>4. CASE ReplyCalls  BY <1>4, ReplyCallsPair
<1>5. CASE ReplyCut  BY <1>5, ReplyCutPair
<1>6. CASE BatchDone  BY <1>6, BatchPair DEF BatchDone, Continue
<1>7. CASE PromptCancelled  BY <1>7, BatchPair DEF PromptCancelled, End
<1>8. CASE TopEnds \/ CallRetried \/ CallFails \/ Dispatch \/ Cancel
             \/ UNCHANGED vars
  <2>1. UNCHANGED <<thread, queue>> /\ pc' \in {pc, "idle"}
    BY <1>8 DEF TopEnds, CallRetried, CallFails, Dispatch, Cancel, End, vars
  <2> QED BY <2>1 DEF PairOnly
<1>9. CASE \E q \in Sources : Push(q)  BY <1>9, PushPair
<1> QED BY <1>1, <1>2, <1>3, <1>4, <1>5, <1>6, <1>7, <1>8, <1>9
        DEF Next, AgentNext

(***************************************************************************)
(* Every request is one the provider accepts: for every batch size, number *)
(* of turns and inputs, cancellation and truncation.                       *)
(***************************************************************************)
THEOREM RequestsPairedHolds == Spec => []RequestsPaired
<1> DEFINE Inv == IndInv /\ PairOnly
<1>1. Init => Inv  BY InitInd, InitPair
<1>2. Inv /\ [Next]_vars => Inv'  BY NextInd, NextPair
<1>3. Inv => RequestsPaired
  BY FollowPaired DEF IndInv, TypeOK, PairOnly, RequestsPaired
<1> QED BY <1>1, <1>2, <1>3, PTL DEF Spec

-----------------------------------------------------------------------------
\* No message of t is an input of source q.
Without(t, q) == \A i \in DOMAIN t : t[i].kind # q

\* The k inputs of source q that come after the first n.
Inputs(q, n, k) == [i \in 1 .. k |-> Input(q, n + i)]

\* The thread t has the first n of source q, the queue s those up to number p.
Split(t, s, p, q, n) ==
  InOrder(t, q, n) /\ \E k \in Nat : p = n + k /\ s = Inputs(q, n, k)

(***************************************************************************)
(* Inputs are kept.  The invariant: of each source the thread has the      *)
(* first inputs in order, and the queue the ones after them.  Added to     *)
(* IndInv, it is inductive.                                                *)
(***************************************************************************)
InputsSplit ==
  \A q \in Sources : \E n \in Nat : Split(thread, queue[q], pushed[q], q, n)

(***************************************************************************)
(* Other messages may come after the inputs.                               *)
(***************************************************************************)
LEMMA OrderOther ==
  ASSUME NEW t \in Seq(Message), NEW u \in Seq(Message), NEW q, NEW n,
         InOrder(t, q, n), Without(u, q)
  PROVE  InOrder(t \o u, q, n)
<1>0. PICK tu : tu = t \o u
  OBVIOUS
<1>1. /\ DOMAIN tu = 1 .. Len(t) + Len(u)
      /\ DOMAIN t = 1 .. Len(t) /\ DOMAIN u = 1 .. Len(u)
      /\ Len(t) \in Nat /\ Len(u) \in Nat
      /\ \A i \in 1 .. Len(t) : tu[i] = t[i]
      /\ \A i \in Len(t) + 1 .. Len(t) + Len(u) : tu[i] = u[i - Len(t)]
  BY <1>0
<1>2. \A i \in DOMAIN tu : i \in DOMAIN t \/ (i - Len(t) \in DOMAIN u /\ tu[i] = u[i - Len(t)])
  BY <1>1
<1>3. \A i \in DOMAIN t : i \in DOMAIN tu
  BY <1>1
<1>4. InputsOf(tu, q) = InputsOf(t, q)
  BY <1>1, <1>2, <1>3 DEF InputsOf, Without
<1>5. \A i \in InputsOf(t, q) : tu[i] = t[i]
  BY <1>1 DEF InputsOf
<1>6. /\ {t[i].n : i \in InputsOf(t, q)} = 1 .. n
      /\ \A i, j \in InputsOf(t, q) : i < j => t[i].n < t[j].n
  BY DEF InOrder
<1>7. {tu[i].n : i \in InputsOf(tu, q)} = 1 .. n
  BY <1>4, <1>5, <1>6
<1>8. \A i, j \in InputsOf(tu, q) : i < j => tu[i].n < tu[j].n
  BY <1>4, <1>5, <1>6
<1> QED BY <1>0, <1>7, <1>8 DEF InOrder

(***************************************************************************)
(* Inputs are messages.                                                    *)
(***************************************************************************)
LEMMA InputsTyped ==
  ASSUME NEW q \in Sources, NEW n \in Nat, NEW k \in Nat
  PROVE  /\ Inputs(q, n, k) \in Seq(Message)
         /\ Len(Inputs(q, n, k)) = k /\ DOMAIN Inputs(q, n, k) = 1 .. k
         /\ \A i \in 1 .. k : Inputs(q, n, k)[i] = Input(q, n + i)
<1>1. PICK u : u = Inputs(q, n, k)
  OBVIOUS
<1>2. DOMAIN u = 1 .. k /\ \A i \in 1 .. k : u[i] = Input(q, n + i)
  BY <1>1 DEF Inputs
<1>3. \A i \in 1 .. k : Input(q, n + i) \in Message
  BY InputTyped DEF Sources, Kinds, UserKinds
<1>4. u \in [1 .. k -> Message]
  <2>1. u = [i \in 1 .. k |-> Input(q, n + i)]
    BY <1>1 DEF Inputs
  <2> QED BY <1>3, <2>1
<1>5. u \in Seq(Message) /\ Len(u) = k
  BY <1>4
<1> QED BY <1>1, <1>2, <1>5

(***************************************************************************)
(* And so may the inputs that are next, once in order.                     *)
(***************************************************************************)
LEMMA OrderMore ==
  ASSUME NEW t \in Seq(Message), NEW q \in Sources, NEW n \in Nat, NEW k \in Nat,
         InOrder(t, q, n)
  PROVE  InOrder(t \o Inputs(q, n, k), q, n + k)
<1>1. PICK u : u = Inputs(q, n, k)
  OBVIOUS
<1>2. /\ u \in Seq(Message) /\ Len(u) = k /\ DOMAIN u = 1 .. k
      /\ \A i \in 1 .. k : u[i].kind = q /\ u[i].n = n + i
  <2>1. \A i : Input(q, n + i).kind = q /\ Input(q, n + i).n = n + i
    BY DEF Input
  <2>2. /\ u \in Seq(Message) /\ Len(u) = k /\ DOMAIN u = 1 .. k
        /\ \A i \in 1 .. k : u[i] = Input(q, n + i)
    BY <1>1, InputsTyped
  <2> QED BY <2>1, <2>2
<1>3. PICK tu : tu = t \o u
  OBVIOUS
<1>4. /\ DOMAIN tu = 1 .. Len(t) + k /\ DOMAIN t = 1 .. Len(t) /\ Len(t) \in Nat
      /\ \A i \in 1 .. Len(t) : tu[i] = t[i]
      /\ \A i \in Len(t) + 1 .. Len(t) + k : tu[i] = u[i - Len(t)]
  <2>0. u \in Seq(Message) /\ Len(u) = k
    BY <1>2
  <2>1. /\ DOMAIN t = 1 .. Len(t) /\ Len(t) \in Nat
        /\ DOMAIN (t \o u) = 1 .. Len(t) + Len(u)
    BY <2>0
  <2>2. DOMAIN tu = 1 .. Len(t) + k
    BY <1>3, <2>0, <2>1
  <2>3. /\ \A i \in 1 .. Len(t) : tu[i] = t[i]
        /\ \A i \in Len(t) + 1 .. Len(t) + k : tu[i] = u[i - Len(t)]
    BY <1>3, <2>0, <2>1
  <2> QED BY <2>1, <2>2, <2>3
<1>5. \A i \in Len(t) + 1 .. Len(t) + k :
        /\ i - Len(t) \in 1 .. k
        /\ tu[i].kind = q /\ tu[i].n = n + (i - Len(t))
  BY <1>2, <1>4
<1>6. PICK old, new : old = InputsOf(t, q) /\ new = InputsOf(tu, q)
  OBVIOUS
<1>7. /\ old \subseteq 1 .. Len(t) /\ \A i \in old : tu[i] = t[i]
      /\ {t[i].n : i \in old} = 1 .. n
      /\ \A i, j \in old : i < j => t[i].n < t[j].n
  BY <1>4, <1>6 DEF InputsOf, InOrder
<1>8. new = old \cup (Len(t) + 1 .. Len(t) + k)
  <2>1. \A i \in DOMAIN tu : i \in DOMAIN t \/ i \in Len(t) + 1 .. Len(t) + k
    BY <1>4
  <2>2. \A i \in DOMAIN t : i \in DOMAIN tu /\ tu[i] = t[i]
    BY <1>4
  <2>3. \A i \in Len(t) + 1 .. Len(t) + k : i \in DOMAIN tu
    BY <1>4
  <2> QED BY <1>5, <1>6, <2>1, <2>2, <2>3 DEF InputsOf
<1>9. \A i \in old : tu[i].n \in 1 .. n
  BY <1>7
<1>10. {tu[i].n : i \in new} = 1 .. n + k
  <2>1. ASSUME NEW i \in new PROVE tu[i].n \in 1 .. n + k
    BY <1>4, <1>5, <1>8, <1>9
  <2>2. ASSUME NEW m \in 1 .. n + k PROVE \E i \in new : tu[i].n = m
    <3>1. CASE m \in 1 .. n
      <4>1. PICK i \in old : t[i].n = m
        BY <1>7, <3>1
      <4> QED BY <1>7, <1>8, <4>1
    <3>2. CASE m \notin 1 .. n
      <4>1. PICK i : i = Len(t) + (m - n)
        OBVIOUS
      <4>2. i \in Len(t) + 1 .. Len(t) + k /\ n + (i - Len(t)) = m
        BY <1>4, <3>2, <4>1
      <4> QED BY <1>5, <1>8, <4>2
    <3> QED BY <3>1, <3>2
  <2> QED BY <2>1, <2>2
<1>11. ASSUME NEW i \in new, NEW j \in new, i < j PROVE tu[i].n < tu[j].n
  <2>1. CASE i \in old /\ j \in old
    BY <1>7, <1>11, <2>1
  <2>2. CASE i \in old /\ j \notin old
    <3>1. tu[i].n \in 1 .. n
      BY <1>9, <2>2
    <3>2. j \in Len(t) + 1 .. Len(t) + k /\ tu[j].n = n + (j - Len(t))
      BY <1>5, <1>8, <2>2
    <3> QED BY <1>4, <3>1, <3>2
  <2>3. CASE i \notin old
    <3>1. i \in Len(t) + 1 .. Len(t) + k /\ tu[i].n = n + (i - Len(t))
      BY <1>5, <1>8, <2>3
    <3>2. j \in Len(t) + 1 .. Len(t) + k
      <4>1. j \notin old
        BY <1>4, <1>7, <1>11, <3>1
      <4> QED BY <1>8, <4>1
    <3>3. tu[j].n = n + (j - Len(t))
      BY <1>5, <3>2
    <3> QED BY <1>4, <1>11, <3>1, <3>2, <3>3
  <2> QED BY <2>1, <2>2, <2>3
<1> QED BY <1>1, <1>3, <1>6, <1>10, <1>11 DEF InOrder

(***************************************************************************)
(* A queue holds nothing of the other sources.                             *)
(***************************************************************************)
LEMMA QueueFacts ==
  ASSUME InputsSplit, NEW q \in Sources
  PROVE  \A r \in Sources : r # q => Without(queue[q], r)
<1>1. PICK n \in Nat, k \in Nat : queue[q] = Inputs(q, n, k)
  BY DEF InputsSplit, Split
<1>2. \A i \in DOMAIN queue[q] : queue[q][i].kind = q
  BY <1>1 DEF Inputs, Input
<1> QED BY <1>2 DEF Without

(***************************************************************************)
(* What is drained after the thread's own inputs completes them.           *)
(***************************************************************************)
LEMMA OrderDrained ==
  ASSUME NEW t \in Seq(Message), NEW s, NEW p, NEW q \in Sources, NEW n \in Nat,
         Split(t, s, p, q, n)
  PROVE  InOrder(t \o s, q, p) /\ p \in Nat
<1>1. PICK k \in Nat : p = n + k /\ s = Inputs(q, n, k)
  BY DEF Split
<1>2. InOrder(t, q, n)
  BY DEF Split
<1> QED BY <1>1, <1>2, OrderMore

(***************************************************************************)
(* What is not an input leaves the split of all sources as it is.          *)
(***************************************************************************)
LEMMA OthersSplit ==
  ASSUME IndInv, InputsSplit, NEW u \in Seq(Message),
         \A q \in Sources : Without(u, q),
         thread' = thread \o u, UNCHANGED <<queue, pushed>>
  PROVE  InputsSplit'
<1>1. thread \in Seq(Message)
  BY DEF IndInv, TypeOK
<1>2. ASSUME NEW q \in Sources PROVE \E n \in Nat : Split(thread', queue'[q], pushed'[q], q, n)
  <2>1. PICK n \in Nat : Split(thread, queue[q], pushed[q], q, n)
    BY DEF InputsSplit
  <2>2. InOrder(thread \o u, q, n)
    BY <1>1, <2>1, OrderOther DEF Split
  <2> QED BY <2>1, <2>2 DEF Split
<1> QED BY <1>2 DEF InputsSplit, Split, InOrder, InputsOf

(***************************************************************************)
(* The split of the next state.                                            *)
(***************************************************************************)
LEMMA SplitPrimed ==
  (\A q \in Sources : \E n \in Nat : Split(thread', queue'[q], pushed'[q], q, n))
    <=> InputsSplit'
BY DEF InputsSplit, Split, InOrder, InputsOf

(***************************************************************************)
(* A message appended is a sequence of one appended.                       *)
(***************************************************************************)
LEMMA AppendExtends ==
  ASSUME NEW s \in Seq(Message), NEW m \in Message
  PROVE  Append(s, m) = s \o <<m>> /\ Append(s, m) \in Seq(Message)
OBVIOUS

(***************************************************************************)
(* The messages that are not inputs.                                       *)
(***************************************************************************)
LEMMA NoInput ==
  ASSUME NEW m \in Message, m.kind \notin Sources
  PROVE  <<m>> \in Seq(Message) /\ \A q \in Sources : Without(<<m>>, q)
BY DEF Without

(***************************************************************************)
(* Nor are two sequences without inputs one with them.                     *)
(***************************************************************************)
LEMMA NoInputs ==
  ASSUME NEW s \in Seq(Message), NEW t \in Seq(Message), NEW q,
         Without(s, q), Without(t, q)
  PROVE  Without(s \o t, q)
<1>1. /\ DOMAIN (s \o t) = 1 .. Len(s) + Len(t)
      /\ DOMAIN s = 1 .. Len(s) /\ DOMAIN t = 1 .. Len(t)
      /\ Len(s) \in Nat /\ Len(t) \in Nat
  OBVIOUS
<1>2. ASSUME NEW i \in DOMAIN (s \o t) PROVE (s \o t)[i].kind # q
  <2>1. CASE i \in DOMAIN s
    BY <1>1, <2>1 DEF Without
  <2>2. CASE i \notin DOMAIN s
    <3>1. i - Len(s) \in DOMAIN t /\ (s \o t)[i] = t[i - Len(s)]
      BY <1>1, <1>2, <2>2
    <3> QED BY <3>1 DEF Without
  <2> QED BY <2>1, <2>2
<1> QED BY <1>2 DEF Without

(***************************************************************************)
(* A new session has no inputs, nor has a resumed one: they are all of the *)
(* process that died.                                                      *)
(***************************************************************************)
LEMMA InitSplit == Init => InputsSplit
<1> SUFFICES ASSUME Init, NEW q \in Sources
             PROVE  Split(thread, queue[q], pushed[q], q, 0)
  BY DEF InputsSplit
<1>1. \A i \in DOMAIN thread : thread[i].kind \notin Sources
  <2> DEFINE prompt == Input("prompt", 0)
             reply == Reply(Calls, FALSE)
             some == Results(2, {1} \cap Calls)
  <2>1. thread \in {<<>>, <<prompt, reply>>, Append(<<prompt, reply>>, some)}
    BY DEF Init, Sessions
  <2>2. /\ prompt.kind \notin Sources /\ reply.kind \notin Sources /\ some.kind \notin Sources
    BY DEF Input, Reply, Results, Sources
  <2> HIDE DEF prompt, reply, some
  <2>3. CASE thread = <<>>
    BY <2>3
  <2>4. CASE thread = <<prompt, reply>>
    BY <2>2, <2>4
  <2>5. CASE thread = Append(<<prompt, reply>>, some)
    <3>1. /\ DOMAIN thread = {1, 2, 3}
          /\ thread[1] = prompt /\ thread[2] = reply /\ thread[3] = some
      BY <2>5
    <3> QED BY <2>2, <3>1
  <2> QED BY <2>1, <2>3, <2>4, <2>5
<1>2. InputsOf(thread, q) = {}
  BY <1>1 DEF InputsOf
<1>3. InOrder(thread, q, 0)
  BY <1>2 DEF InOrder
<1>4. pushed[q] = 0 /\ queue[q] = Inputs(q, 0, 0)
  <2>1. queue[q] = <<>> /\ pushed[q] = 0
    BY DEF Init
  <2>2. Inputs(q, 0, 0) = <<>>
    BY DEF Inputs
  <2> QED BY <2>1, <2>2
<1>5. 0 = 0 + 0 /\ 0 \in Nat
  OBVIOUS
<1> QED BY <1>3, <1>4, <1>5 DEF Split

(***************************************************************************)
(* A push numbers its input after those of the queue.                      *)
(***************************************************************************)
LEMMA PushSplit ==
  ASSUME IndInv, InputsSplit, NEW q \in Sources, Push(q)
  PROVE  InputsSplit'
<1> SUFFICES ASSUME NEW r \in Sources
             PROVE  \E n \in Nat : Split(thread', queue'[r], pushed'[r], r, n)
  BY SplitPrimed
<1>0. thread' = thread
  BY DEF Push
<1>1. PICK n \in Nat : Split(thread, queue[r], pushed[r], r, n)
  BY DEF InputsSplit
<1>2. /\ queue' = [queue EXCEPT ![q] = Append(queue[q], Input(q, pushed[q] + 1))]
      /\ pushed' = [pushed EXCEPT ![q] = pushed[q] + 1]
      /\ DOMAIN queue = Sources /\ DOMAIN pushed = Sources
  BY DEF Push, IndInv, TypeOK
<1>3. CASE r # q
  BY <1>0, <1>1, <1>2, <1>3
<1>4. CASE r = q
  <2>1. PICK k \in Nat : pushed[r] = n + k /\ queue[r] = Inputs(r, n, k)
    BY <1>1 DEF Split
  <2>2. pushed'[r] = n + (k + 1) /\ queue'[r] = Append(Inputs(r, n, k), Input(r, n + (k + 1)))
    <3>1. n + k + 1 = n + (k + 1)
      OBVIOUS
    <3> QED BY <1>2, <1>4, <2>1, <3>1
  <2>3. Append(Inputs(r, n, k), Input(r, n + (k + 1))) = Inputs(r, n, k + 1)
    <3>2. PICK s, t, m : /\ s = Inputs(r, n, k) /\ t = Inputs(r, n, k + 1)
                         /\ m = Input(r, n + (k + 1))
      OBVIOUS
    <3>4. /\ s \in Seq(Message) /\ Len(s) = k
          /\ \A i \in 1 .. k : s[i] = Input(r, n + i)
      BY <3>2, InputsTyped
    <3>5. /\ t \in Seq(Message) /\ Len(t) = k + 1
          /\ \A i \in 1 .. k + 1 : t[i] = Input(r, n + i)
      <4>1. k + 1 \in Nat
        OBVIOUS
      <4> QED BY <3>2, <4>1, InputsTyped
    <3>6. m \in Message /\ t[k + 1] = m /\ \A i \in 1 .. k : s[i] = t[i]
      BY <3>2, <3>4, <3>5
    <3>7. Append(s, m) = t
      BY <3>4, <3>5, <3>6
    <3> QED BY <3>2, <3>7
  <2>4. InOrder(thread, r, n) /\ k + 1 \in Nat
    BY <1>1 DEF Split
  <2> QED BY <1>0, <2>2, <2>3, <2>4 DEF Split
<1> QED BY <1>3, <1>4

(***************************************************************************)
(* The top of an iteration drains all queues, one after the other.         *)
(***************************************************************************)
LEMMA TopSplit == IndInv /\ InputsSplit /\ Top => InputsSplit'
<1> SUFFICES ASSUME IndInv, InputsSplit, Top PROVE InputsSplit'
  OBVIOUS
<1>1. /\ thread \in Seq(Message) /\ queue["steer"] \in Seq(Message)
      /\ queue["task"] \in Seq(Message) /\ queue["parent"] \in Seq(Message)
  BY QueuesTyped DEF IndInv, TypeOK, Sources
<1>2. PICK a, b, c, d : /\ a = thread /\ b = a \o queue["steer"]
                        /\ c = b \o queue["task"] /\ d = c \o queue["parent"]
  OBVIOUS
<1>3. thread' = d /\ pushed' = pushed
  BY <1>2 DEF Top
<1>4. a \in Seq(Message) /\ b \in Seq(Message) /\ c \in Seq(Message)
  BY <1>1, <1>2, Extended
<1>5. \A q, r \in Sources : q # r => Without(queue[q], r)
  BY QueueFacts
<1>6. \A q \in Sources : \E n \in Nat : Split(thread, queue[q], pushed[q], q, n)
  BY DEF InputsSplit
<1>7. InOrder(d, "steer", pushed["steer"]) /\ pushed["steer"] \in Nat
  <2>1. PICK n \in Nat : Split(a, queue["steer"], pushed["steer"], "steer", n)
    BY <1>2, <1>6 DEF Sources
  <2>2. InOrder(b, "steer", pushed["steer"]) /\ pushed["steer"] \in Nat
    BY <1>2, <1>4, <2>1, OrderDrained DEF Sources
  <2>3. InOrder(c, "steer", pushed["steer"])
    BY <1>1, <1>2, <1>4, <1>5, <2>2, OrderOther DEF Sources
  <2> QED BY <1>1, <1>2, <1>4, <1>5, <2>2, <2>3, OrderOther DEF Sources
<1>8. InOrder(d, "task", pushed["task"]) /\ pushed["task"] \in Nat
  <2>1. PICK n \in Nat : Split(a, queue["task"], pushed["task"], "task", n)
    BY <1>2, <1>6 DEF Sources
  <2>2. InOrder(b, "task", n)
    BY <1>1, <1>2, <1>4, <1>5, <2>1, OrderOther DEF Sources, Split
  <2>3. Split(b, queue["task"], pushed["task"], "task", n)
    BY <2>1, <2>2 DEF Split
  <2>4. InOrder(c, "task", pushed["task"]) /\ pushed["task"] \in Nat
    BY <1>2, <1>4, <2>3, OrderDrained DEF Sources
  <2> QED BY <1>1, <1>2, <1>4, <1>5, <2>4, OrderOther DEF Sources
<1>9. InOrder(d, "parent", pushed["parent"]) /\ pushed["parent"] \in Nat
  <2>1. PICK n \in Nat : Split(a, queue["parent"], pushed["parent"], "parent", n)
    BY <1>2, <1>6 DEF Sources
  <2>2. InOrder(b, "parent", n)
    BY <1>1, <1>2, <1>4, <1>5, <2>1, OrderOther DEF Sources, Split
  <2>3. InOrder(c, "parent", n)
    BY <1>1, <1>2, <1>4, <1>5, <2>2, OrderOther DEF Sources, Split
  <2>4. Split(c, queue["parent"], pushed["parent"], "parent", n)
    BY <2>1, <2>3 DEF Split
  <2> QED BY <1>2, <1>4, <2>4, OrderDrained DEF Sources
<1>10. ASSUME NEW q \in Sources
       PROVE  \E n \in Nat : Split(thread', queue'[q], pushed'[q], q, n)
  <2>1. InOrder(d, q, pushed[q]) /\ pushed[q] \in Nat
    BY <1>7, <1>8, <1>9 DEF Sources
  <2>2. queue'[q] = Inputs(q, pushed[q], 0)
    <3>1. queue'[q] = <<>>
      BY DEF Top
    <3>2. Inputs(q, pushed[q], 0) = <<>>
      BY DEF Inputs
    <3> QED BY <3>1, <3>2
  <2>3. pushed'[q] = pushed[q] + 0
    BY <1>3, <2>1
  <2> QED BY <1>3, <2>1, <2>2, <2>3 DEF Split
<1> QED BY <1>10, SplitPrimed

(***************************************************************************)
(* A look drains one queue.                                                *)
(***************************************************************************)
LEMMA LookSplit == IndInv /\ InputsSplit /\ Look => InputsSplit'
<1> SUFFICES ASSUME IndInv, InputsSplit, Look PROVE InputsSplit'
  OBVIOUS
<1>1. PICK r \in Sources : /\ thread' = thread \o queue[r] /\ pushed' = pushed
                           /\ queue' = [queue EXCEPT ![r] = <<>>]
  BY DEF Look
<1>2. thread \in Seq(Message) /\ queue[r] \in Seq(Message) /\ DOMAIN queue = Sources
  BY QueuesTyped DEF IndInv, TypeOK
<1>3. ASSUME NEW q \in Sources
      PROVE  \E n \in Nat : Split(thread', queue'[q], pushed'[q], q, n)
  <2>1. PICK n \in Nat : Split(thread, queue[q], pushed[q], q, n)
    BY DEF InputsSplit
  <2>2. CASE q = r
    <3>1. InOrder(thread', q, pushed[q]) /\ pushed[q] \in Nat
      BY <1>1, <1>2, <2>1, <2>2, OrderDrained
    <3>2. queue'[q] = Inputs(q, pushed[q], 0)
      <4>1. queue'[q] = <<>>
        BY <1>1, <1>2, <2>2
      <4>2. Inputs(q, pushed[q], 0) = <<>>
        BY DEF Inputs
      <4> QED BY <4>1, <4>2
    <3>3. pushed'[q] = pushed[q] + 0
      BY <1>1, <3>1
    <3> QED BY <3>1, <3>2, <3>3 DEF Split
  <2>3. CASE q # r
    <3>1. Without(queue[r], q)
      BY <2>3, QueueFacts
    <3>2. InOrder(thread', q, n)
      BY <1>1, <1>2, <2>1, <3>1, OrderOther DEF Split
    <3>3. queue'[q] = queue[q] /\ pushed'[q] = pushed[q]
      BY <1>1, <1>2, <2>3
    <3> QED BY <2>1, <3>2, <3>3 DEF Split
  <2> QED BY <2>2, <2>3
<1> QED BY <1>3, SplitPrimed

(***************************************************************************)
(* All other messages are no inputs.                                       *)
(***************************************************************************)
LEMMA OthersAppended ==
  ASSUME IndInv, InputsSplit,
         Start \/ ReplyStops \/ ReplyCalls \/ ReplyCut \/ BatchDone \/ PromptCancelled
  PROVE  InputsSplit'
<1>1. thread \in Seq(Message) /\ Len(thread) + 1 \in Nat /\ turns + 1 \in Nat
  BY DEF IndInv, TypeOK
<1>2. UNCHANGED <<queue, pushed>>
  BY DEF Start, ReplyStops, ReplyCalls, ReplyCut, BatchDone, PromptCancelled
<1>3. \E u \in Seq(Message) : thread' = thread \o u /\ \A q \in Sources : Without(u, q)
  <2>1. CASE Start
    <3>1. PICK m : m = Input("prompt", turns + 1)
      OBVIOUS
    <3>2. m \in Message /\ m.kind \notin Sources
      <4>1. m \in Message
        BY <1>1, <3>1, InputTyped DEF Kinds, UserKinds
      <4> QED BY <3>1, <4>1 DEF Input, Sources
    <3>3. thread' = Append(thread, m)
      BY <2>1, <3>1 DEF Start
    <3>4. thread' = thread \o <<m>>
      BY <1>1, <3>2, <3>3, AppendExtends
    <3> QED BY <3>2, <3>4, NoInput
  <2>2. CASE ReplyCalls
    <3>1. PICK k \in Calls : thread' = Append(thread, Reply(1 .. k, FALSE))
      BY <2>2 DEF ReplyCalls
    <3>2. PICK m : m = Reply(1 .. k, FALSE)
      OBVIOUS
    <3>3. m \in Message /\ m.kind \notin Sources
      <4>1. 1 .. k \in SUBSET Calls
        BY Replies
      <4>2. m \in Message
        BY <3>2, <4>1, ReplyTyped
      <4> QED BY <3>2, <4>2 DEF Reply, Sources
    <3>4. thread' = thread \o <<m>>
      BY <1>1, <3>1, <3>2, <3>3, AppendExtends
    <3> QED BY <3>3, <3>4, NoInput
  <2>3. CASE ReplyCut
    <3>1. PICK k \in Calls \cup {0} : thread' = thread \o CutMessages(k)
      BY <2>3 DEF ReplyCut
    <3>2. PICK m, r : m = Reply(1 .. k, TRUE) /\ r = Results(Len(thread) + 1, 1 .. k)
      OBVIOUS
    <3>3. m \in Message /\ m.kind \notin Sources /\ r \in Message /\ r.kind \notin Sources
      <4>1. 1 .. k \in SUBSET Calls
        BY Replies
      <4>2. m \in Message /\ r \in Message
        BY <1>1, <3>2, <4>1, ReplyTyped, ResultsTyped
      <4> QED BY <3>2, <4>2 DEF Reply, Results, Sources
    <3>4. CutMessages(k) = <<m>> \o (IF k > 0 THEN <<r>> ELSE <<>>)
      BY <3>2 DEF CutMessages
    <3>5. PICK v : v = IF k > 0 THEN <<r>> ELSE <<>>
      OBVIOUS
    <3>6. v \in Seq(Message) /\ \A q \in Sources : Without(v, q)
      <4>1. <<>> \in Seq(Message) /\ \A q : Without(<<>>, q)
        BY DEF Without
      <4>2. <<r>> \in Seq(Message) /\ \A q \in Sources : Without(<<r>>, q)
        BY <3>3, NoInput
      <4> QED BY <3>5, <4>1, <4>2
    <3>7. <<m>> \in Seq(Message) /\ \A q \in Sources : Without(<<m>>, q)
      BY <3>3, NoInput
    <3>8. <<m>> \o v \in Seq(Message) /\ \A q \in Sources : Without(<<m>> \o v, q)
      BY <3>6, <3>7, Extended, NoInputs
    <3> QED BY <3>1, <3>4, <3>5, <3>8
  <2>4. CASE BatchDone \/ PromptCancelled
    <3>1. thread' = thread \o (ToolMessage \o NudgeMessage)
      BY <2>4 DEF BatchDone, PromptCancelled, BatchMessages
    <3>2. PICK r, m : r = Results(Len(thread), batch.done) /\ m = Input("nudge", 0)
      OBVIOUS
    <3>3. m \in Message /\ m.kind \notin Sources /\ r \in Message /\ r.kind \notin Sources
      <4>1. batch.done \in SUBSET Calls /\ Len(thread) \in Nat
        BY DEF IndInv, TypeOK
      <4>2. m \in Message /\ r \in Message
        BY <3>2, <4>1, InputTyped, ResultsTyped DEF Kinds, UserKinds
      <4> QED BY <3>2, <4>2 DEF Input, Results, Sources
    <3>4. ToolMessage \in {<<r>>, <<>>} /\ NudgeMessage \in {<<m>>, <<>>}
      BY <3>2 DEF ToolMessage, NudgeMessage
    <3>5. /\ <<>> \in Seq(Message) /\ \A q : Without(<<>>, q)
          /\ <<r>> \in Seq(Message) /\ \A q \in Sources : Without(<<r>>, q)
          /\ <<m>> \in Seq(Message) /\ \A q \in Sources : Without(<<m>>, q)
      <4>1. <<>> \in Seq(Message) /\ \A q : Without(<<>>, q)
        BY DEF Without
      <4> QED BY <3>3, <4>1, NoInput
    <3>6. PICK v, w : v = ToolMessage /\ w = NudgeMessage
      OBVIOUS
    <3>7. /\ v \in Seq(Message) /\ \A q \in Sources : Without(v, q)
          /\ w \in Seq(Message) /\ \A q \in Sources : Without(w, q)
      BY <3>4, <3>5, <3>6
    <3>8. v \o w \in Seq(Message) /\ \A q \in Sources : Without(v \o w, q)
      BY <3>7, Extended, NoInputs
    <3> QED BY <3>1, <3>6, <3>8
  <2>5. CASE ReplyStops
    <3>1. PICK m : m = Reply({}, FALSE)
      OBVIOUS
    <3>2. m \in Message /\ m.kind \notin Sources
      <4>1. m \in Message
        BY <3>1, ReplyTyped
      <4> QED BY <3>1, <4>1 DEF Reply, Sources
    <3>3. thread' = Append(thread, m)
      BY <2>5, <3>1 DEF ReplyStops
    <3>4. thread' = thread \o <<m>>
      BY <1>1, <3>2, <3>3, AppendExtends
    <3> QED BY <3>2, <3>4, NoInput
  <2> QED BY <2>1, <2>2, <2>3, <2>4, <2>5
<1> QED BY <1>2, <1>3, OthersSplit

(***************************************************************************)
(* Every step keeps the split.                                             *)
(***************************************************************************)
LEMMA NextSplit == IndInv /\ InputsSplit /\ [Next]_vars => InputsSplit'
<1> SUFFICES ASSUME IndInv, InputsSplit, [Next]_vars PROVE InputsSplit'
  OBVIOUS
<1>1. CASE Start \/ ReplyStops \/ ReplyCalls \/ ReplyCut \/ BatchDone \/ PromptCancelled
  BY <1>1, OthersAppended
<1>2. CASE Top
  BY <1>2, TopSplit
<1>3. CASE Look
  BY <1>3, LookSplit
<1>4. CASE \E q \in Sources : Push(q)
  BY <1>4, PushSplit
<1>5. CASE TopEnds \/ CallRetried \/ CallFails \/ Dispatch \/ Cancel \/ UNCHANGED vars
  <2>1. UNCHANGED <<thread, queue, pushed>>
    BY <1>5 DEF TopEnds, CallRetried, CallFails, Dispatch, Cancel, vars
  <2> QED BY <2>1 DEF InputsSplit, Split, InOrder, InputsOf
<1> QED BY <1>1, <1>2, <1>3, <1>4, <1>5 DEF Next, AgentNext

(***************************************************************************)
(* The split of every source into thread and queue, for every number of    *)
(* inputs and turns.                                                       *)
(***************************************************************************)
THEOREM InputsSplitHolds == Spec => [](IndInv /\ InputsSplit)
<1>1. Init => IndInv /\ InputsSplit
  BY InitInd, InitSplit
<1>2. IndInv /\ InputsSplit /\ [Next]_vars => (IndInv /\ InputsSplit)'
  BY NextInd, NextSplit
<1> QED BY <1>1, <1>2, PTL DEF Spec

(***************************************************************************)
(* No steering, task result or parent message is lost, doubled or          *)
(* overtaken by a later one of its queue (src/agent.rs, process_turn).     *)
(***************************************************************************)
THEOREM InputKeptHolds == Spec => []InputKept
<1>1. IndInv /\ InputsSplit => InputKept
  <2> SUFFICES ASSUME IndInv, InputsSplit, NEW q \in Sources
               PROVE  InOrder(thread \o queue[q], q, pushed[q])
    BY DEF InputKept
  <2>1. PICK n \in Nat : Split(thread, queue[q], pushed[q], q, n)
    BY DEF InputsSplit
  <2>2. thread \in Seq(Message)
    BY DEF IndInv, TypeOK
  <2> QED BY <2>1, <2>2, OrderDrained
<1> QED BY <1>1, InputsSplitHolds, PTL

-----------------------------------------------------------------------------
\* The queues already looked at since the last reply.
Looked == CASE pc = "task" -> {"steer"}
            [] pc = "parent" -> {"steer", "task"}
            [] OTHER -> {}

(***************************************************************************)
(* Late inputs.  The invariant: from the reply without calls to the end of *)
(* the turn the thread ends with that reply, and of each queue looked at   *)
(* it has what had arrived with the reply.  Added to IndInv and            *)
(* InputsSplit, it is inductive.                                           *)
(***************************************************************************)
LateSeen ==
  /\ pc \in Sources => thread # <<>> /\ thread[Len(thread)].kind = "assistant"
  /\ \A q \in Sources : arrived[q] <= pushed[q]
  /\ \A q \in Looked : \E n \in Nat : arrived[q] <= n /\ InOrder(thread, q, n)

LateInv == IndInv /\ InputsSplit /\ LateSeen

(***************************************************************************)
(* The thread has no more inputs of a source than were pushed.             *)
(***************************************************************************)
LEMMA OrderBounded ==
  ASSUME InputsSplit, TypeOK, NEW q \in Sources, NEW n \in Nat, InOrder(thread, q, n)
  PROVE  n \in 0 .. pushed[q]
<1>1. PICK m \in Nat, k \in Nat : InOrder(thread, q, m) /\ pushed[q] = m + k
  BY DEF InputsSplit, Split
<1>2. 1 .. n = 1 .. m
  BY <1>1 DEF InOrder
<1>3. n <= m
  BY <1>2
<1> QED BY <1>1, <1>3

(***************************************************************************)
(* A queue that turns out empty has given the thread all its inputs.       *)
(***************************************************************************)
LEMMA EmptyGiven ==
  ASSUME InputsSplit, NEW q \in Sources, queue[q] = <<>>
  PROVE  InOrder(thread, q, pushed[q]) /\ pushed[q] \in Nat
<1>1. PICK n \in Nat, k \in Nat : /\ InOrder(thread, q, n)
                                  /\ pushed[q] = n + k /\ queue[q] = Inputs(q, n, k)
  BY DEF InputsSplit, Split
<1>2. k = 0
  <2>1. DOMAIN Inputs(q, n, k) = 1 .. k /\ DOMAIN (<<>>) = {}
    BY DEF Inputs
  <2>2. 1 .. k = {}
    BY <1>1, <2>1
  <2> QED BY <2>2
<1> QED BY <1>1, <1>2

(***************************************************************************)
(* A look that finds a queue empty.                                        *)
(***************************************************************************)
LEMMA LookedEmpty ==
  ASSUME LateInv, Look
  PROVE  \/ pc' = "top"
         \/ /\ thread' = thread /\ UNCHANGED <<pushed, arrived>>
            /\ pc \in Sources /\ queue[pc] = <<>>
            /\ \/ pc = "steer" /\ pc' = "task" /\ outcome' = outcome
               \/ pc = "task" /\ pc' = "parent" /\ outcome' = outcome
               \/ pc = "parent" /\ pc' = "idle"
<1>1. thread \in Seq(Message)
  BY DEF LateInv, IndInv, TypeOK
<1>2. thread \o <<>> = thread
  BY <1>1
<1> QED BY <1>2 DEF Look, Continue, End

(***************************************************************************)
(* Every step keeps what was seen of the late inputs.                      *)
(***************************************************************************)
LEMMA NextLate == LateInv /\ [Next]_vars => LateInv'
<1> SUFFICES ASSUME LateInv, [Next]_vars PROVE LateInv'
  OBVIOUS
<1>1. IndInv' /\ InputsSplit'
  BY NextInd, NextSplit DEF LateInv
<1>2. \A q \in Sources : /\ arrived[q] \in Nat /\ pushed[q] \in Nat
                         /\ arrived[q] <= pushed[q]
  BY AgentAssumption DEF LateInv, LateSeen, IndInv, TypeOK
<1>3. thread \in Seq(Message)
  BY DEF LateInv, IndInv, TypeOK
<1>4. CASE ReplyStops
  <2>1. PICK m : m = Reply({}, FALSE)
    OBVIOUS
  <2>2. m \in Message /\ m.kind = "assistant"
    BY <2>1, ReplyTyped DEF Reply
  <2>3. thread' = Append(thread, m)
    BY <1>4, <2>1 DEF ReplyStops
  <2>4. thread' # <<>> /\ thread'[Len(thread')] = m
    BY <1>3, <2>2, <2>3
  <2>5. Looked' = {}
    BY <1>4 DEF ReplyStops, Looked
  <2>6. arrived' = pushed /\ pushed' = pushed
    BY <1>4 DEF ReplyStops
  <2>7. LateSeen'
    BY <1>2, <2>2, <2>4, <2>5, <2>6 DEF LateSeen
  <2> QED BY <1>1, <2>7 DEF LateInv
<1>5. CASE Look
  <2>1. CASE pc' = "top"
    <3>1. Looked' = {} /\ pc' \notin Sources
      BY <2>1 DEF Looked, Sources
    <3>2. UNCHANGED <<pushed, arrived>>
      BY <1>5 DEF Look
    <3> QED BY <1>1, <1>2, <3>1, <3>2 DEF LateInv, LateSeen
  <2>2. CASE /\ thread' = thread /\ UNCHANGED <<pushed, arrived>>
             /\ pc \in Sources /\ queue[pc] = <<>>
             /\ \/ pc = "steer" /\ pc' = "task"
                \/ pc = "task" /\ pc' = "parent"
                \/ pc = "parent" /\ pc' = "idle"
    <3>1. Looked' \subseteq Looked \cup {pc}
      BY <2>2 DEF Looked
    <3>2. arrived[pc] <= pushed[pc] /\ InOrder(thread, pc, pushed[pc]) /\ pushed[pc] \in Nat
      BY <1>2, <2>2, EmptyGiven DEF LateInv
    <3>3. \A q \in Looked \cup {pc} : \E n \in Nat : arrived[q] <= n /\ InOrder(thread, q, n)
      BY <3>2 DEF LateInv, LateSeen
    <3>4. \A q \in Looked' : \E n \in Nat : arrived'[q] <= n /\ InOrder(thread', q, n)
      BY <2>2, <3>1, <3>3
    <3> QED BY <1>1, <1>2, <2>2, <3>4 DEF LateInv, LateSeen, InOrder, InputsOf
  <2> QED BY <1>5, <2>1, <2>2, LookedEmpty
<1>6. CASE \/ Start \/ Top \/ TopEnds \/ CallRetried \/ CallFails \/ ReplyCalls
           \/ ReplyCut \/ Dispatch \/ BatchDone \/ PromptCancelled
  <2>1. pc' \notin Sources /\ UNCHANGED <<pushed, arrived>>
    BY <1>6 DEF Start, Top, TopEnds, CallRetried, CallFails, ReplyCalls, ReplyCut,
                Dispatch, BatchDone, PromptCancelled, Continue, End, Sources
  <2>2. Looked' = {}
    BY <2>1 DEF Looked, Sources
  <2> QED BY <1>1, <1>2, <2>1, <2>2 DEF LateInv, LateSeen
<1>7. CASE Cancel \/ UNCHANGED vars
  <2>1. UNCHANGED <<pc, thread, pushed, arrived>>
    BY <1>7 DEF Cancel, vars
  <2>2. UNCHANGED Looked
    BY <2>1 DEF Looked
  <2>3. \A q \in Sources, n \in Nat : InOrder(thread, q, n) => InOrder(thread', q, n)
    BY <2>1
  <2>4. LateSeen'
    BY <2>1, <2>2, <2>3 DEF LateSeen, LateInv
  <2> QED BY <1>1, <2>4 DEF LateInv
<1>8. CASE \E q \in Sources : Push(q)
  <2>1. PICK q \in Sources : Push(q)
    BY <1>8
  <2>2. UNCHANGED <<pc, thread, arrived>> /\ pushed' = [pushed EXCEPT ![q] = @ + 1]
    BY <2>1 DEF Push
  <2>3. \A r \in Sources : arrived'[r] <= pushed'[r]
    BY <1>2, <2>2 DEF LateInv, IndInv, TypeOK
  <2>4. \A r \in Looked' : \E n \in Nat : arrived'[r] <= n /\ InOrder(thread', r, n)
    <3>1. Looked' = Looked /\ thread' = thread /\ arrived' = arrived
      BY <2>2 DEF Looked
    <3> QED BY <3>1 DEF LateInv, LateSeen
  <2>5. pc' \in Sources => thread' # <<>> /\ thread'[Len(thread')].kind = "assistant"
    BY <2>2 DEF LateInv, LateSeen
  <2>6. LateSeen'
    BY <2>3, <2>4, <2>5 DEF LateSeen, InOrder, InputsOf
  <2> QED BY <1>1, <2>6 DEF LateInv
<1> QED BY <1>4, <1>5, <1>6, <1>7, <1>8 DEF Next, AgentNext

(***************************************************************************)
(* A turn that ends by itself ends with a reply, and every input pushed    *)
(* before that reply came is in the thread, in order: however many are     *)
(* pushed, and at whatever point of the three looks (ADR 0029's follow-up, *)
(* src/agent.rs, process_turn).                                            *)
(***************************************************************************)
THEOREM LateInputAnsweredHolds == Spec => LateInputAnswered
<1> DEFINE Ends == outcome' = "done" /\ outcome # "done"
           Answers == /\ thread'[Len(thread')].kind = "assistant"
                      /\ \A q \in Sources :
                           \E n \in arrived[q] .. pushed[q] : InOrder(thread', q, n)
<1>1. Init => LateInv
  <2>1. Init => LateSeen
    BY DEF Init, LateSeen, Looked, Sources
  <2> QED BY <2>1, InitInd, InitSplit DEF LateInv
<1>2. LateInv /\ [Next]_vars => LateInv'
  BY NextLate
<1>3. LateInv /\ [Next]_vars => [Ends => Answers]_vars
  <2> SUFFICES ASSUME LateInv, Next, Ends PROVE Answers
    OBVIOUS
  <2>1. Look
    BY DEF Next, AgentNext, Start, Top, TopEnds, CallRetried, CallFails, ReplyStops,
           ReplyCalls, ReplyCut, Dispatch, BatchDone, PromptCancelled, Cancel, Push,
           End, Continue
  <2>2. pc = "parent" /\ queue["parent"] = <<>> /\ thread' = thread
    <3>1. pc' # "top"
      BY <2>1 DEF Look, Continue, End, Sources
    <3> QED BY <2>1, <3>1, LookedEmpty
  <2>3. thread'[Len(thread')].kind = "assistant"
    BY <2>2 DEF LateInv, LateSeen, Sources
  <2>4. ASSUME NEW q \in Sources
        PROVE  \E n \in Nat : arrived[q] <= n /\ InOrder(thread, q, n)
    <3>1. CASE q \in Looked
      BY <3>1 DEF LateInv, LateSeen
    <3>2. CASE q \notin Looked
      <4>1. q = "parent"
        BY <2>2, <3>2 DEF Looked, Sources
      <4>2. InOrder(thread, q, pushed[q]) /\ pushed[q] \in Nat
        BY <2>2, <4>1, EmptyGiven DEF LateInv
      <4> QED BY <4>2 DEF LateInv, LateSeen
    <3> QED BY <3>1, <3>2
  <2>5. ASSUME NEW q \in Sources
        PROVE  \E n \in arrived[q] .. pushed[q] : InOrder(thread', q, n)
    <3>1. PICK n \in Nat : arrived[q] <= n /\ InOrder(thread, q, n)
      BY <2>4
    <3>2. n \in 0 .. pushed[q]
      BY <3>1, OrderBounded DEF LateInv, IndInv
    <3>3. arrived[q] \in Nat /\ pushed[q] \in Nat
      BY AgentAssumption DEF LateInv, IndInv, TypeOK
    <3> QED BY <2>2, <3>1, <3>2, <3>3
  <2> QED BY <2>3, <2>5
<1> QED BY <1>1, <1>2, <1>3, PTL DEF Spec, LateInputAnswered
=============================================================================
