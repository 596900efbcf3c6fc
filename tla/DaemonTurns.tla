----------------------------- MODULE DaemonTurns ----------------------------
(***************************************************************************)
(* How the daemon runs turns for its clients (src/daemon/).                *)
(*                                                                         *)
(*   - an agent thread per session takes commands from a queue and emits   *)
(*     events to one event queue (AgentLoop::run);                         *)
(*   - a client's request appends a command and spawns a forwarder thread  *)
(*     that, once it gets the session's event_rx mutex, copies events to   *)
(*     the request's own channel up to the first TurnComplete (dispatch);  *)
(*   - the connection thread then takes the turn token and drains that     *)
(*     channel, answering prompts inline (handle_connection,               *)
(*     drain_agent_events);                                                *)
(*   - the workgraph thread advances a milestone when it gets the token,   *)
(*     and the cron thread injects commands that nobody forwards or drains.*)
(*                                                                         *)
(* A command is a number, in the order of sending; every event carries the *)
(* command of the turn that emitted it.  Resume and Navigate are commands  *)
(* whose turn neither asks nor drives.                                     *)
(***************************************************************************)
EXTENDS Naturals, Sequences

CONSTANTS Clients,      \* connections
          Free, Wg,     \* the token's other holders: nobody, workgraph thread
          MaxSessions,  \* bound: sessions created
          MaxCmds,      \* bound: commands sent
          MaxEvents,    \* bound: events of a turn before its TurnComplete
          MaxAuto       \* turns drive_workgraph may run after a user's turn

ASSUME DaemonAssumption ==
  /\ Free # Wg /\ Free \notin Clients /\ Wg \notin Clients
  /\ MaxSessions \in Nat \ {0}
  /\ MaxCmds \in Nat
  /\ MaxEvents \in Nat
  /\ MaxAuto \in Nat

Sessions == 1 .. MaxSessions
Cmds == 1 .. MaxCmds

VARIABLES
  created,    \* sessions exist from 1 up to here; 1 is the first of list()
  sent,       \* commands sent so far
  cmds,       \* command queue of each session
  agent,      \* state of each agent thread
  events,     \* event queue of each session, behind the event_rx mutex
  fwd,        \* forwarder thread of each command
  out,        \* the channel from that forwarder to the client
  client,     \* state of each connection thread
  token,      \* holder of the turn token
  poisoned,   \* somebody panicked while holding the token
  disturbed   \* history: something that may have mixed up the streams happened

vars == <<created, sent, cmds, agent, events, fwd, out, client, token,
          poisoned, disturbed>>

Event == [kind : {"text", "prompt", "complete"}, cmd : Cmds]

NoAgent == [pc |-> "idle", cmd |-> 0, left |-> 0, drives |-> 0]
NoFwd == [pc |-> "none", ses |-> 0]
Idle == [pc |-> "idle", cmd |-> 0]
Gone == [pc |-> "gone", cmd |-> 0]

Init ==
  /\ created = 0 /\ sent = 0
  /\ cmds = [s \in Sessions |-> <<>>]
  /\ agent = [s \in Sessions |-> NoAgent]
  /\ events = [s \in Sessions |-> <<>>]
  /\ fwd = [d \in Cmds |-> NoFwd]
  /\ out = [d \in Cmds |-> <<>>]
  /\ client = [c \in Clients |-> Idle]
  /\ token = Free
  /\ poisoned = FALSE
  /\ disturbed = FALSE

DisturbIf(b) == disturbed' = (disturbed \/ b)

\* The request of command d still has its receiver.
Listening(d) == \E c \in Clients : client[c].cmd = d

\* Somebody still holds the reply sender of the prompt session s asked.
PromptHeld(s) ==
  \/ \E i \in DOMAIN events[s] : events[s][i].kind = "prompt"
  \/ \E d \in Cmds : /\ fwd[d].ses = s
                     /\ \/ \E i \in DOMAIN out[d] : out[d][i].kind = "prompt"
                        \/ \E c \in Clients : client[c] = [pc |-> "replying", cmd |-> d]

-----------------------------------------------------------------------------
\* The agent thread of session s.

Emit(s, kind) ==
  events' = [events EXCEPT ![s] = Append(@, [kind |-> kind, cmd |-> agent[s].cmd])]

AgentStep(s) == UNCHANGED <<created, sent, fwd, out, client, token, poisoned>>

Begin(s) ==
  /\ agent[s].pc = "idle" /\ cmds[s] # <<>>
  /\ agent' = [agent EXCEPT ![s] = [pc |-> "turn", cmd |-> Head(cmds[s]),
                                    left |-> MaxEvents, drives |-> MaxAuto]]
  /\ cmds' = [cmds EXCEPT ![s] = Tail(@)]
  /\ AgentStep(s)
  /\ UNCHANGED <<events, disturbed>>

Say(s) ==
  /\ agent[s].pc = "turn" /\ agent[s].left > 0
  /\ Emit(s, "text")
  /\ agent' = [agent EXCEPT ![s].left = @ - 1]
  /\ AgentStep(s)
  /\ UNCHANGED <<cmds, disturbed>>

\* Mutant: the agent does not wait for the answer.
AskNoWait(s) ==
  /\ agent[s].pc = "turn" /\ agent[s].left > 0
  /\ Emit(s, "prompt")
  /\ agent' = [agent EXCEPT ![s].left = @ - 1]
  /\ AgentStep(s)
  /\ UNCHANGED <<cmds, disturbed>>

\* A permission, a question, a plan: the thread blocks on the reply.
Ask(s) ==
  /\ agent[s].pc = "turn" /\ agent[s].left > 0
  /\ Emit(s, "prompt")
  /\ agent' = [agent EXCEPT ![s].left = @ - 1, ![s].pc = "asking"]
  /\ AgentStep(s)
  /\ UNCHANGED <<cmds, disturbed>>

\* Every reply sender was dropped: recv() fails, which counts as a refusal.
PromptDropped(s) ==
  /\ agent[s].pc = "asking" /\ ~PromptHeld(s)
  /\ agent' = [agent EXCEPT ![s].pc = "turn"]
  /\ AgentStep(s)
  /\ UNCHANGED <<cmds, events, disturbed>>

\* Mutant: drive_workgraph has no MAX_AUTO.
CompleteUnbounded(s) ==
  /\ agent[s].pc = "turn"
  /\ Emit(s, "complete")
  /\ \/ /\ agent' = [agent EXCEPT ![s] = NoAgent]
        /\ UNCHANGED disturbed
     \/ /\ agent' = [agent EXCEPT ![s].left = MaxEvents, ![s].drives = @ - 1]
        /\ DisturbIf(TRUE)
  /\ AgentStep(s)
  /\ UNCHANGED cmds

\* The turn is over; drive_workgraph may start another one for a milestone.
Complete(s) ==
  /\ agent[s].pc = "turn"
  /\ Emit(s, "complete")
  /\ \/ /\ agent' = [agent EXCEPT ![s] = NoAgent]
        /\ UNCHANGED disturbed
     \/ /\ agent[s].drives > 0
        /\ agent' = [agent EXCEPT ![s].left = MaxEvents, ![s].drives = @ - 1]
        /\ DisturbIf(TRUE)
  /\ AgentStep(s)
  /\ UNCHANGED cmds

\* A panic ends the thread; the session stays in the manager's table.
Die(s) ==
  /\ agent[s].pc = "turn"
  /\ agent' = [agent EXCEPT ![s] = [NoAgent EXCEPT !.pc = "dead"]]
  /\ cmds' = [cmds EXCEPT ![s] = <<>>]
  /\ AgentStep(s)
  /\ UNCHANGED <<events, disturbed>>

-----------------------------------------------------------------------------
\* Requests, under the manager's mutex.

NewSession ==
  /\ created < MaxSessions                              \* bound
  /\ created' = created + 1
  /\ UNCHANGED <<sent, cmds, agent, events, fwd, out, client, token,
                 poisoned, disturbed>>

\* The first session, a new one if there is none, or (resuming an id that is
\* not on disk) always a new one.
Target(fresh) == IF fresh \/ created = 0 THEN created + 1 ELSE 1

Request(c, fresh) ==
  LET s == Target(fresh)
      d == sent + 1
  IN  /\ client[c].pc = "idle"
      /\ s \in Sessions /\ d \in Cmds                   \* bounds
      /\ created' = IF s > created THEN s ELSE created
      /\ IF agent[s].pc = "dead"
         THEN /\ client' = [client EXCEPT ![c] = Gone]  \* "agent thread closed"
              /\ UNCHANGED <<sent, cmds, fwd, disturbed>>
         ELSE /\ sent' = d
              /\ cmds' = [cmds EXCEPT ![s] = Append(@, d)]
              /\ fwd' = [fwd EXCEPT ![d] = [pc |-> "waiting", ses |-> s]]
              /\ client' = [client EXCEPT ![c] = [pc |-> "token", cmd |-> d]]
              /\ DisturbIf([pc |-> "waiting", ses |-> s] \in {fwd[e] : e \in Cmds})
      /\ UNCHANGED <<agent, events, out, token, poisoned>>

\* A due prompt goes to some session; a dead one loses it.
Cron(s) ==
  /\ s <= created /\ agent[s].pc # "dead"
  /\ sent + 1 \in Cmds                                  \* bound
  /\ sent' = sent + 1
  /\ cmds' = [cmds EXCEPT ![s] = Append(@, sent + 1)]
  /\ DisturbIf(TRUE)
  /\ UNCHANGED <<created, agent, events, fwd, out, client, token, poisoned>>

-----------------------------------------------------------------------------
\* The forwarder thread of command d.

FwdStep == UNCHANGED <<created, sent, cmds, agent, client, token, poisoned>>

FwdGoto(d, l) == fwd' = [fwd EXCEPT ![d].pc = l]

LockEvents(d) ==
  /\ fwd[d].pc = "waiting"
  /\ \A e \in Cmds : fwd[e].ses = fwd[d].ses => fwd[e].pc # "forwarding"
  /\ FwdGoto(d, "forwarding")
  /\ FwdStep
  /\ UNCHANGED <<events, out, disturbed>>

\* Mutant: the forwarder does not stop at TurnComplete.
ForwardPastComplete(d) ==
  LET s == fwd[d].ses
  IN  /\ fwd[d].pc = "forwarding" /\ events[s] # <<>>
      /\ events' = [events EXCEPT ![s] = Tail(@)]
      /\ IF Listening(d)
         THEN out' = [out EXCEPT ![d] = Append(@, Head(events[s]))] /\ UNCHANGED fwd
         ELSE FwdGoto(d, "done") /\ UNCHANGED out
      /\ FwdStep
      /\ UNCHANGED disturbed

\* If nobody listens any more the event is lost with the forwarder.
Forward(d) ==
  LET s == fwd[d].ses
      ev == Head(events[s])
  IN  /\ fwd[d].pc = "forwarding" /\ events[s] # <<>>
      /\ events' = [events EXCEPT ![s] = Tail(@)]
      /\ out' = IF Listening(d) THEN [out EXCEPT ![d] = Append(@, ev)] ELSE out
      /\ IF Listening(d) /\ ev.kind # "complete"
         THEN UNCHANGED fwd
         ELSE FwdGoto(d, "done")
      /\ FwdStep
      /\ UNCHANGED disturbed

\* 120 seconds without an event, or the agent thread is gone.
ForwardGivesUp(d) ==
  LET s == fwd[d].ses
  IN  /\ fwd[d].pc = "forwarding" /\ events[s] = <<>>
      /\ FwdGoto(d, "done")
      /\ DisturbIf(agent[s].pc # "dead")
      /\ FwdStep
      /\ UNCHANGED <<events, out>>

-----------------------------------------------------------------------------
\* The connection thread of client c, and the token.

ConnStep == UNCHANGED <<created, sent, cmds, events, fwd>>

\* Leaving drops the receiver, and the reply senders queued in it.
Leave(c, state) ==
  /\ client' = [client EXCEPT ![c] = state]
  /\ out' = [out EXCEPT ![client[c].cmd] = <<>>]

Release(c) == token' = IF token = c THEN Free ELSE token

\* Mutant: the guard is dropped at once (let _ = turn_token.lock()).
LockTokenDropped(c) ==
  /\ client[c].pc = "token" /\ token = Free /\ ~poisoned
  /\ client' = [client EXCEPT ![c].pc = "draining"]
  /\ ConnStep
  /\ UNCHANGED <<agent, out, token, poisoned, disturbed>>

LockToken(c) ==
  /\ client[c].pc = "token" /\ token = Free /\ ~poisoned
  /\ token' = c
  /\ client' = [client EXCEPT ![c].pc = "draining"]
  /\ ConnStep
  /\ UNCHANGED <<agent, out, poisoned, disturbed>>

\* lock().unwrap() on a poisoned mutex.
LockPanics(c) ==
  /\ client[c].pc = "token" /\ token = Free /\ poisoned
  /\ Leave(c, Gone)
  /\ DisturbIf(TRUE)
  /\ ConnStep
  /\ UNCHANGED <<agent, token, poisoned>>

Drain(c) ==
  LET d == client[c].cmd
      kind == Head(out[d]).kind
  IN  /\ client[c].pc = "draining" /\ out[d] # <<>>
      /\ out' = [out EXCEPT ![d] = Tail(@)]
      /\ client' = [client EXCEPT ![c] =
                      CASE kind = "text" -> @
                        [] kind = "prompt" -> [@ EXCEPT !.pc = "replying"]
                        [] kind = "complete" -> Idle]
      /\ IF kind = "complete" THEN Release(c) ELSE UNCHANGED token
      /\ ConnStep
      /\ UNCHANGED <<agent, poisoned, disturbed>>

\* Mutant: the Disconnected arm goes round the loop instead of leaving it.
DrainTimesOutOnly(c) ==
  LET d == client[c].cmd
  IN  /\ client[c].pc = "draining" /\ out[d] = <<>> /\ fwd[d].pc # "done"
      /\ Leave(c, Idle)
      /\ Release(c)
      /\ DisturbIf(TRUE)
      /\ ConnStep
      /\ UNCHANGED <<agent, poisoned>>

\* 120 seconds without an event, or the forwarder is gone: an error ends it.
DrainGivesUp(c) ==
  LET d == client[c].cmd
  IN  /\ client[c].pc = "draining" /\ out[d] = <<>>
      /\ Leave(c, Idle)
      /\ Release(c)
      /\ DisturbIf(fwd[d].pc # "done")
      /\ ConnStep
      /\ UNCHANGED <<agent, poisoned>>

Reply(c) ==
  LET s == fwd[client[c].cmd].ses
  IN  /\ client[c].pc = "replying"
      /\ client' = [client EXCEPT ![c].pc = "draining"]
      /\ agent' = [agent EXCEPT ![s].pc = "turn"]
      /\ ConnStep
      /\ UNCHANGED <<out, token, poisoned, disturbed>>

\* End of file, another id or another request while a reply is expected; or a
\* reply of another kind, which is unreachable!() and poisons the token.
ReplyFails(c) ==
  /\ client[c].pc = "replying"
  /\ Leave(c, Gone)
  /\ Release(c)
  /\ poisoned' \in {poisoned, TRUE}
  /\ DisturbIf(TRUE)
  /\ ConnStep
  /\ UNCHANGED agent

Connect(c) ==
  /\ client[c].pc = "gone"
  /\ client' = [client EXCEPT ![c] = Idle]
  /\ ConnStep
  /\ UNCHANGED <<agent, out, token, poisoned, disturbed>>

\* One tick of the workgraph thread: try_lock, or skip.
WgTick ==
  /\ token = Free /\ ~poisoned
  /\ token' = Wg
  /\ ConnStep
  /\ UNCHANGED <<agent, out, client, poisoned, disturbed>>

\* advance_one_milestone returns, or panics and takes the thread with it.
WgDone ==
  /\ token = Wg
  /\ token' = Free
  /\ poisoned' \in {poisoned, TRUE}
  /\ ConnStep
  /\ UNCHANGED <<agent, out, client, disturbed>>

-----------------------------------------------------------------------------
AgentNext(s) ==
  Begin(s) \/ Say(s) \/ Ask(s) \/ PromptDropped(s) \/ Complete(s) \/ Die(s)

FwdNext(d) == LockEvents(d) \/ Forward(d) \/ ForwardGivesUp(d)

\* What a connection thread does once a request is in.
ConnNext(c) ==
  LockPanics(c) \/ Drain(c) \/ DrainGivesUp(c) \/ Reply(c) \/ ReplyFails(c)

Next ==
  \/ \E s \in Sessions : AgentNext(s) \/ Cron(s)
  \/ NewSession
  \/ \E c \in Clients : \/ \E fresh \in BOOLEAN : Request(c, fresh)
                        \/ LockToken(c) \/ ConnNext(c) \/ Connect(c)
  \/ \E d \in Cmds : FwdNext(d)
  \/ WgTick \/ WgDone

(***************************************************************************)
(* The threads run, the timers fire, an advance returns, a client that is  *)
(* asked answers or leaves, and no thread waits for the token for ever     *)
(* while others take it again and again.                                   *)
(***************************************************************************)
Fairness ==
  /\ \A s \in Sessions : WF_vars(AgentNext(s))
  /\ \A d \in Cmds : WF_vars(FwdNext(d))
  /\ \A c \in Clients : WF_vars(ConnNext(c)) /\ SF_vars(LockToken(c))
  /\ WF_vars(WgDone)

Spec == Init /\ [][Next]_vars /\ Fairness

-----------------------------------------------------------------------------
(***************************************************************************)
(* The type invariant.                                                     *)
(***************************************************************************)
TypeOK ==
  /\ created \in 0 .. MaxSessions /\ sent \in 0 .. MaxCmds
  /\ cmds \in [Sessions -> Seq(Cmds)]
  /\ agent \in [Sessions -> [pc : {"idle", "turn", "asking", "dead"},
                             cmd : Cmds \cup {0}, left : 0 .. MaxEvents,
                             drives : 0 .. MaxAuto]]
  /\ events \in [Sessions -> Seq(Event)]
  /\ fwd \in [Cmds -> [pc : {"none", "waiting", "forwarding", "done"},
                       ses : Sessions \cup {0}]]
  /\ out \in [Cmds -> Seq(Event)]
  /\ client \in [Clients -> [pc : {"idle", "token", "draining", "replying", "gone"},
                             cmd : Cmds \cup {0}]]
  /\ token \in Clients \cup {Free, Wg}
  /\ poisoned \in BOOLEAN
  /\ disturbed \in BOOLEAN

\* The prompts of session s that wait somewhere for an answer.
LivePrompts(s) ==
  {<<"queue", i>> : i \in {j \in DOMAIN events[s] : events[s][j].kind = "prompt"}}
    \cup (UNION {{<<d, i>> : i \in {j \in DOMAIN out[d] : out[d][j].kind = "prompt"}} :
                   d \in {e \in Cmds : fwd[e].ses = s}})
    \cup {<<"shown", c>> : c \in {x \in Clients :
            /\ client[x].pc = "replying" /\ fwd[client[x].cmd].ses = s}}

(***************************************************************************)
(* A prompt that is queued, forwarded or shown to a client is the one its  *)
(* agent is blocked on, and there is only one: whatever timed out, closed  *)
(* or died before, no client is shown a stale prompt or answers for a turn *)
(* that went on without it.                                                *)
(***************************************************************************)
PromptsAreLive ==
  \A s \in Sessions :
    \A p, q \in LivePrompts(s) : agent[s].pc = "asking" /\ p = q

(***************************************************************************)
(* dispatch: "returns the raw event stream of that turn".  The stream of a *)
(* request holds the events of its own command only...                     *)
(***************************************************************************)
OwnStream ==
  \A d \in Cmds : \A i \in DOMAIN out[d] : out[d][i].cmd = d

(***************************************************************************)
(* ... which is true as long as no turn was driven or injected after a     *)
(* user's turn, no two forwarders waited for the event queue together, no  *)
(* 120 second timer fired and no client left or panicked in mid-turn.      *)
(***************************************************************************)
OwnStreamUndisturbed == ~disturbed => OwnStream

(***************************************************************************)
(* The comment on the workgraph thread: it advances when idle, that is,    *)
(* holding the token means that no session's turn is running...            *)
(***************************************************************************)
AdvanceWhenIdle ==
  token = Wg => \A s \in Sessions : agent[s].pc \notin {"turn", "asking"}

(***************************************************************************)
(* ... which is true as long as the streams are undisturbed and no request *)
(* is between sending its command and taking the token.                    *)
(***************************************************************************)
AdvanceWhenIdleUndisturbed ==
  ~disturbed /\ (\A c \in Clients : client[c].pc # "token") => AdvanceWhenIdle

(***************************************************************************)
(* Every accepted request ends: the client gets a TurnComplete or an error *)
(* and can send again, or its connection is closed, even after panics have *)
(* poisoned the token or killed the agent.                                 *)
(***************************************************************************)
RequestsEnd ==
  \A c \in Clients :
    (client[c].pc = "token") ~> (client[c].pc \in {"idle", "gone"})
=============================================================================
