-------------------------- MODULE DaemonTurnsProofs ---------------------------
(***************************************************************************)
(* For every number of clients, sessions, commands and events: the types   *)
(* of the daemon's turns; that a prompt held anywhere is the one its agent *)
(* is blocked on (PromptsAreLive); and that until something disturbs the   *)
(* streams each request hears its own command only (OwnStreamUndisturbed)  *)
(* and the workgraph thread advances while no turn runs                    *)
(* (AdvanceWhenIdleUndisturbed).                                           *)
(***************************************************************************)
EXTENDS DaemonTurns, Integers, TLAPS

AgentState == [pc : {"idle", "turn", "asking", "dead"}, cmd : Cmds \cup {0},
               left : 0 .. MaxEvents, drives : 0 .. MaxAuto]
FwdState == [pc : {"none", "waiting", "forwarding", "done"}, ses : Sessions \cup {0}]
ClientState == [pc : {"idle", "token", "draining", "replying", "gone"}, cmd : Cmds \cup {0}]

\* A running turn is that of a command; a request that waits, drains or
\* replies has a forwarder, and with it a session; and what no request was made
\* for has neither forwarder nor events.
Issued ==
  /\ \A s \in Sessions : agent[s].pc \in {"turn", "asking"} => agent[s].cmd \in Cmds
  /\ \A c \in Clients : client[c].pc \in {"token", "draining", "replying"} =>
       client[c].cmd \in Cmds /\ fwd[client[c].cmd].pc # "none"
  /\ \A d \in Cmds : /\ d > sent => fwd[d].pc = "none"
                     /\ fwd[d].pc = "none" => out[d] = <<>>
                     /\ fwd[d].pc # "none" => fwd[d].ses \in Sessions

-----------------------------------------------------------------------------
\* Where prompts are.

\* A queue of events holds a prompt; it holds at most one.
Has(q) == \E i \in DOMAIN q : q[i].kind = "prompt"
One(q) == \A i, j \in DOMAIN q : q[i].kind = "prompt" /\ q[j].kind = "prompt" => i = j

ShownBy(c, s) == client[c].pc = "replying" /\ fwd[client[c].cmd].ses = s

\* The prompts of session s are one: queued, forwarded for one command or shown
\* to one client; and only while the agent asks.
OnePrompt(s) ==
  /\ One(events[s])
  /\ \A d \in Cmds : fwd[d].ses = s => One(out[d])
  /\ \A d, e \in Cmds :
       fwd[d].ses = s /\ fwd[e].ses = s /\ Has(out[d]) /\ Has(out[e]) => d = e
  /\ \A c, x \in Clients : ShownBy(c, s) /\ ShownBy(x, s) => c = x
  /\ \A d \in Cmds : ~(Has(events[s]) /\ fwd[d].ses = s /\ Has(out[d]))
  /\ \A c \in Clients : ~(Has(events[s]) /\ ShownBy(c, s))
  /\ \A d \in Cmds, c \in Clients : ~(fwd[d].ses = s /\ Has(out[d]) /\ ShownBy(c, s))
  /\ agent[s].pc # "asking" =>
       /\ ~Has(events[s])
       /\ \A d \in Cmds : fwd[d].ses = s => ~Has(out[d])
       /\ \A c \in Clients : ~ShownBy(c, s)

TurnsInv == TypeOK /\ Issued /\ \A s \in Sessions : OnePrompt(s)

(***************************************************************************)
(* What taking an event from a queue leaves.                               *)
(***************************************************************************)
LEMMA TailPrompts ==
  ASSUME NEW q \in Seq(Event), q # <<>>
  PROVE  /\ Tail(q) \in Seq(Event) /\ Head(q) \in Event
         /\ Has(Tail(q)) => Has(q)
         /\ Head(q).kind = "prompt" => Has(q)
         /\ One(q) => One(Tail(q))
         /\ One(q) /\ Head(q).kind = "prompt" => ~Has(Tail(q))
<1>1. /\ Len(q) \in Nat /\ Len(q) > 0 /\ DOMAIN q = 1 .. Len(q)
      /\ Tail(q) \in Seq(Event) /\ Head(q) \in Event /\ Head(q) = q[1]
      /\ DOMAIN Tail(q) = 1 .. Len(q) - 1
      /\ \A i \in 1 .. Len(q) - 1 : Tail(q)[i] = q[i + 1]
  OBVIOUS
<1>2. \A i \in DOMAIN Tail(q) : i \in Nat /\ i + 1 \in DOMAIN q /\ Tail(q)[i] = q[i + 1]
  BY <1>1
<1>3. Has(Tail(q)) => Has(q)
  BY <1>2 DEF Has
<1>4. Head(q).kind = "prompt" => Has(q)
  BY <1>1 DEF Has
<1>5. ASSUME One(q) PROVE One(Tail(q))
  <2> SUFFICES ASSUME NEW i \in DOMAIN Tail(q), NEW j \in DOMAIN Tail(q),
                      Tail(q)[i].kind = "prompt", Tail(q)[j].kind = "prompt"
               PROVE  i = j
    BY DEF One
  <2>1. i + 1 = j + 1
    BY <1>2, <1>5 DEF One
  <2> QED BY <1>2, <2>1
<1>6. ASSUME One(q), Head(q).kind = "prompt" PROVE ~Has(Tail(q))
  <2> SUFFICES ASSUME NEW i \in DOMAIN Tail(q), Tail(q)[i].kind = "prompt" PROVE FALSE
    BY DEF Has
  <2>1. i + 1 = 1
    BY <1>1, <1>2, <1>6 DEF One
  <2> QED BY <1>1, <2>1
<1> QED BY <1>1, <1>3, <1>4, <1>5, <1>6

(***************************************************************************)
(* What adding an event to a queue makes of it.                            *)
(***************************************************************************)
LEMMA AppendPrompts ==
  ASSUME NEW q \in Seq(Event), NEW e \in Event
  PROVE  /\ Append(q, e) \in Seq(Event)
         /\ Has(Append(q, e)) <=> Has(q) \/ e.kind = "prompt"
         /\ One(q) /\ (e.kind = "prompt" => ~Has(q)) => One(Append(q, e))
<1> DEFINE r == Append(q, e)
<1>1. /\ Len(q) \in Nat /\ DOMAIN q = 1 .. Len(q) /\ r \in Seq(Event)
      /\ DOMAIN r = 1 .. Len(q) + 1
      /\ \A i \in 1 .. Len(q) : r[i] = q[i]
      /\ r[Len(q) + 1] = e
  OBVIOUS
<1> HIDE DEF r
<1>2. /\ \A i \in DOMAIN q : i \in DOMAIN r /\ r[i] = q[i]
      /\ \A i \in DOMAIN r : i \in DOMAIN q \/ i = Len(q) + 1
      /\ Len(q) + 1 \in DOMAIN r
  BY <1>1
<1>3. Has(r) <=> Has(q) \/ e.kind = "prompt"
  BY <1>1, <1>2 DEF Has
<1>4. One(q) /\ (e.kind = "prompt" => ~Has(q)) => One(r)
  BY <1>1, <1>2 DEF One, Has
<1> QED BY <1>1, <1>3, <1>4 DEF r

(***************************************************************************)
(* An empty queue holds no prompt.                                         *)
(***************************************************************************)
LEMMA EmptyPrompts == ~Has(<<>>) /\ One(<<>>)
BY DEF Has, One

-----------------------------------------------------------------------------
(***************************************************************************)
(* What an agent thread becomes is a state of agents.                      *)
(***************************************************************************)
LEMMA AgentStates ==
  ASSUME NEW a \in AgentState
  PROVE  /\ [a EXCEPT !.pc = "turn"] \in AgentState
         /\ a.left > 0 => /\ [a EXCEPT !.left = a.left - 1] \in AgentState
                          /\ [a EXCEPT !.left = a.left - 1, !.pc = "asking"] \in AgentState
         /\ a.drives > 0 =>
              [a EXCEPT !.left = MaxEvents, !.drives = a.drives - 1] \in AgentState
<1>1. /\ a.left > 0 => a.left - 1 \in 0 .. MaxEvents
      /\ MaxEvents \in 0 .. MaxEvents
      /\ a.drives > 0 => a.drives - 1 \in 0 .. MaxAuto
  BY DaemonAssumption DEF DaemonAssumption, AgentState
<1>2. \A l \in 0 .. MaxEvents, n \in 0 .. MaxAuto :
        /\ [a EXCEPT !.left = l] \in AgentState
        /\ [a EXCEPT !.left = l, !.pc = "asking"] \in AgentState
        /\ [a EXCEPT !.left = l, !.drives = n] \in AgentState
  <2> TAKE l \in 0 .. MaxEvents, n \in 0 .. MaxAuto
  <2>1. [a EXCEPT !.left = l] \in AgentState
    BY DEF AgentState
  <2>2. \A b \in AgentState : /\ [b EXCEPT !.pc = "asking"] \in AgentState
                              /\ [b EXCEPT !.drives = n] \in AgentState
    BY DEF AgentState
  <2>3. /\ [a EXCEPT !.left = l, !.pc = "asking"] = [[a EXCEPT !.left = l] EXCEPT !.pc = "asking"]
        /\ [a EXCEPT !.left = l, !.drives = n] = [[a EXCEPT !.left = l] EXCEPT !.drives = n]
    BY DEF AgentState
  <2> QED BY <2>1, <2>2, <2>3
<1>3. [a EXCEPT !.pc = "turn"] \in AgentState
  BY DEF AgentState
<1> QED BY <1>1, <1>2, <1>3 DEF AgentState

(***************************************************************************)
(* The agent threads keep the types.                                       *)
(***************************************************************************)
LEMMA AgentTypes ==
  ASSUME TypeOK, Issued, NEW s \in Sessions, AgentNext(s)
  PROVE  TypeOK' /\ Issued'
<1> USE DaemonAssumption DEF DaemonAssumption
<1> DEFINE a == agent[s]
<1>1. /\ a \in AgentState /\ cmds[s] \in Seq(Cmds) /\ events[s] \in Seq(Event)
      /\ a.pc \in {"turn", "asking"} => a.cmd \in Cmds
  BY DEF TypeOK, AgentState, Issued
<1>2. CASE Begin(s)
  <2>1. Head(cmds[s]) \in Cmds /\ Tail(cmds[s]) \in Seq(Cmds)
    BY <1>1, <1>2 DEF Begin
  <2> QED BY <1>2, <2>1 DEF Begin, AgentStep, TypeOK, Issued
<1>3. ASSUME NEW kind \in {"text", "prompt", "complete"}, a.pc = "turn", Emit(s, kind)
      PROVE  events' \in [Sessions -> Seq(Event)]
  <2>1. [kind |-> kind, cmd |-> a.cmd] \in Event
    BY <1>1, <1>3 DEF Event
  <2>2. Append(events[s], [kind |-> kind, cmd |-> a.cmd]) \in Seq(Event)
    BY <1>1, <2>1
  <2>3. events' = [events EXCEPT ![s] = Append(@, [kind |-> kind, cmd |-> a.cmd])]
    BY <1>3 DEF Emit
  <2> HIDE DEF a
  <2> QED BY <2>2, <2>3 DEF TypeOK
<1>4. CASE Say(s)
  <2>1. events' \in [Sessions -> Seq(Event)]
    BY <1>3, <1>4 DEF Say
  <2>2. agent' = [agent EXCEPT ![s] = [a EXCEPT !.left = a.left - 1]] /\ a.left > 0
    BY <1>4 DEF Say, TypeOK
  <2>3. [a EXCEPT !.left = a.left - 1] \in AgentState
    BY <1>1, <2>2, AgentStates
  <2>4. agent' \in [Sessions -> AgentState]
    BY <2>2, <2>3 DEF TypeOK, AgentState
  <2>5. Issued'
    BY <1>1, <1>4, <2>2 DEF Say, AgentStep, TypeOK, Issued, AgentState
  <2> QED BY <1>4, <2>1, <2>4, <2>5 DEF Say, AgentStep, TypeOK, AgentState
<1>5. CASE Ask(s)
  <2>1. events' \in [Sessions -> Seq(Event)]
    BY <1>3, <1>5 DEF Ask
  <2>2. agent' = [agent EXCEPT ![s] = [a EXCEPT !.left = a.left - 1, !.pc = "asking"]]
        /\ a.left > 0 /\ a.pc = "turn"
    BY <1>5 DEF Ask, TypeOK
  <2>3. [a EXCEPT !.left = a.left - 1, !.pc = "asking"] \in AgentState
    BY <1>1, <2>2, AgentStates
  <2>4. agent' \in [Sessions -> AgentState]
    BY <2>2, <2>3 DEF TypeOK, AgentState
  <2>5. Issued'
    BY <1>1, <1>5, <2>2 DEF Ask, AgentStep, TypeOK, Issued, AgentState
  <2> QED BY <1>5, <2>1, <2>4, <2>5 DEF Ask, AgentStep, TypeOK, AgentState
<1>6. CASE PromptDropped(s)
  <2>1. agent' = [agent EXCEPT ![s] = [a EXCEPT !.pc = "turn"]] /\ a.pc = "asking"
    BY <1>6 DEF PromptDropped, TypeOK
  <2>2. [a EXCEPT !.pc = "turn"] \in AgentState
    BY <1>1, AgentStates
  <2>3. agent' \in [Sessions -> AgentState]
    BY <2>1, <2>2 DEF TypeOK, AgentState
  <2>4. Issued'
    BY <1>1, <1>6, <2>1 DEF PromptDropped, AgentStep, TypeOK, Issued, AgentState
  <2> QED BY <1>6, <2>3, <2>4 DEF PromptDropped, AgentStep, TypeOK, AgentState
<1>7. CASE Complete(s)
  <2>1. events' \in [Sessions -> Seq(Event)]
    BY <1>3, <1>7 DEF Complete
  <2>2. CASE agent' = [agent EXCEPT ![s] = NoAgent] /\ UNCHANGED disturbed
    <3>1. agent' \in [Sessions -> AgentState] /\ Issued'
      BY <1>7, <2>2 DEF Complete, AgentStep, NoAgent, TypeOK, Issued, AgentState
    <3> QED BY <1>7, <2>1, <2>2, <3>1 DEF Complete, AgentStep, TypeOK, AgentState
  <2>3. CASE /\ a.drives > 0
             /\ agent' = [agent EXCEPT ![s].left = MaxEvents, ![s].drives = @ - 1]
             /\ DisturbIf(TRUE)
    <3>1. agent' = [agent EXCEPT ![s] =
                      [a EXCEPT !.left = MaxEvents, !.drives = a.drives - 1]]
      BY <2>3 DEF TypeOK
    <3>2. [a EXCEPT !.left = MaxEvents, !.drives = a.drives - 1] \in AgentState
      BY <1>1, <2>3, AgentStates
    <3>3. agent' \in [Sessions -> AgentState]
      BY <3>1, <3>2 DEF TypeOK, AgentState
    <3>4. Issued'
      BY <1>1, <1>7, <3>1 DEF Complete, AgentStep, TypeOK, Issued, AgentState
    <3> QED BY <1>7, <2>1, <2>3, <3>3, <3>4
            DEF Complete, AgentStep, TypeOK, AgentState, DisturbIf
  <2> QED BY <1>7, <2>2, <2>3 DEF Complete
<1>8. CASE Die(s)
  <2>1. agent' = [agent EXCEPT ![s] = [NoAgent EXCEPT !.pc = "dead"]]
        /\ cmds' = [cmds EXCEPT ![s] = <<>>] /\ <<>> \in Seq(Cmds)
    BY <1>8 DEF Die
  <2> DEFINE dead == [NoAgent EXCEPT !.pc = "dead"]
             none == <<>>
  <2>4. dead \in AgentState /\ none \in Seq(Cmds)
    BY <2>1 DEF NoAgent, AgentState
  <2>5. agent' = [agent EXCEPT ![s] = dead] /\ cmds' = [cmds EXCEPT ![s] = none]
    BY <2>1
  <2> HIDE DEF dead, none
  <2>2. agent' \in [Sessions -> AgentState] /\ cmds' \in [Sessions -> Seq(Cmds)]
    BY <2>4, <2>5 DEF TypeOK, AgentState
  <2>3. Issued'
    BY <1>8, <2>1 DEF Die, AgentStep, NoAgent, TypeOK, Issued
  <2> QED BY <1>8, <2>2, <2>3 DEF Die, AgentStep, TypeOK, AgentState
<1> QED BY <1>2, <1>4, <1>5, <1>6, <1>7, <1>8 DEF AgentNext

(***************************************************************************)
(* The requests and the cron thread keep the types: the command of a       *)
(* request is a new one.                                                   *)
(***************************************************************************)
LEMMA RequestTypes ==
  ASSUME TypeOK, Issued, NEW c \in Clients, NEW fresh \in BOOLEAN, Request(c, fresh)
  PROVE  TypeOK' /\ Issued'
<1> USE DaemonAssumption DEF DaemonAssumption
<1> DEFINE s == Target(fresh)
           d == sent + 1
<1>1. /\ s \in Sessions /\ d \in Cmds /\ client[c].pc = "idle"
      /\ created' = IF s > created THEN s ELSE created
      /\ UNCHANGED <<agent, events, out, token, poisoned>>
  BY DEF Request
<1>2. created' \in 0 .. MaxSessions
  BY <1>1 DEF TypeOK, Sessions
<1>3. CASE agent[s].pc = "dead"
  <2>1. client' = [client EXCEPT ![c] = Gone] /\ UNCHANGED <<sent, cmds, fwd, disturbed>>
    BY <1>3 DEF Request
  <2> HIDE DEF s, d
  <2> QED BY <1>1, <1>2, <2>1 DEF Gone, TypeOK, Issued
<1>4. CASE agent[s].pc # "dead"
  <2>1. /\ sent' = d
        /\ cmds' = [cmds EXCEPT ![s] = Append(@, d)]
        /\ fwd' = [fwd EXCEPT ![d] = [pc |-> "waiting", ses |-> s]]
        /\ client' = [client EXCEPT ![c] = [pc |-> "token", cmd |-> d]]
        /\ disturbed' \in BOOLEAN
    BY <1>4 DEF Request, DisturbIf, TypeOK
  <2>2. cmds[s] \in Seq(Cmds) /\ Append(cmds[s], d) \in Seq(Cmds) /\ d \in 0 .. MaxCmds
    BY <1>1 DEF TypeOK, Cmds
  <2>3. \A e \in Cmds : e > d => e > sent /\ e # d
    BY DEF Cmds, TypeOK
  <2> HIDE DEF s, d
  <2>4. TypeOK'
    BY <1>1, <1>2, <2>1, <2>2 DEF TypeOK
  <2>5. Issued'
    BY <1>1, <2>1, <2>3 DEF TypeOK, Issued
  <2> QED BY <2>4, <2>5
<1> QED BY <1>3, <1>4

(***************************************************************************)
(* A due prompt is a new command too, which nobody forwards.               *)
(***************************************************************************)
LEMMA CronTypes ==
  ASSUME TypeOK, Issued, NEW s \in Sessions, Cron(s)
  PROVE  TypeOK' /\ Issued'
<1>1. sent + 1 \in Cmds /\ sent' = sent + 1 /\ cmds[s] \in Seq(Cmds)
  BY DEF Cron, TypeOK
<1>2. Append(cmds[s], sent + 1) \in Seq(Cmds)
  BY <1>1
<1>3. TypeOK'
  BY <1>1, <1>2 DEF Cron, DisturbIf, TypeOK, Cmds
<1>4. \A e \in Cmds : e > sent + 1 => e > sent
  BY DEF Cmds, TypeOK
<1>5. Issued'
  BY <1>1, <1>4 DEF Cron, TypeOK, Issued
<1> QED BY <1>3, <1>5

(***************************************************************************)
(* The forwarders keep the types.                                          *)
(***************************************************************************)
LEMMA FwdTypes ==
  ASSUME TypeOK, Issued, NEW d \in Cmds, FwdNext(d)
  PROVE  TypeOK' /\ Issued'
<1> DEFINE s == fwd[d].ses
<1>1. fwd[d] \in FwdState /\ out[d] \in Seq(Event)
  BY DEF TypeOK, FwdState
<1>2. ASSUME NEW l \in {"forwarding", "done"}, FwdGoto(d, l), fwd[d].pc # "none"
      PROVE  /\ fwd' \in [Cmds -> FwdState]
             /\ fwd'[d].pc = l /\ fwd'[d].ses = s
             /\ \A e \in Cmds \ {d} : fwd'[e] = fwd[e]
  <2>1. fwd' = [fwd EXCEPT ![d] = [fwd[d] EXCEPT !.pc = l]]
    BY <1>2 DEF FwdGoto
  <2>2. [fwd[d] EXCEPT !.pc = l] \in FwdState
    BY <1>1 DEF FwdState
  <2> QED BY <1>1, <2>1, <2>2 DEF TypeOK, FwdState
<1>3. ASSUME NEW l \in {"forwarding", "done"}, FwdGoto(d, l) \/ UNCHANGED fwd,
             fwd[d].pc # "none",
             UNCHANGED <<sent, agent, client>>,
             \A e \in Cmds \ {d} : out'[e] = out[e]
      PROVE  Issued' /\ fwd' \in [Cmds -> FwdState]
  <2>1. /\ fwd' \in [Cmds -> FwdState]
        /\ fwd'[d].pc # "none" /\ fwd'[d].ses = s
        /\ \A e \in Cmds \ {d} : fwd'[e] = fwd[e]
    BY <1>2, <1>3 DEF TypeOK, FwdState
  <2> HIDE DEF s
  <2>2. s \in Sessions
    BY <1>3 DEF Issued, s
  <2> QED BY <1>3, <2>1, <2>2 DEF Issued
<1>4. CASE LockEvents(d)
  <2>1. FwdGoto(d, "forwarding") /\ fwd[d].pc # "none"
        /\ UNCHANGED <<created, sent, cmds, agent, client, token, poisoned, events, out, disturbed>>
    BY <1>4 DEF LockEvents, FwdStep
  <2>2. Issued' /\ fwd' \in [Cmds -> FwdState]
    BY <1>3, <2>1
  <2> QED BY <2>1, <2>2 DEF TypeOK, FwdState
<1>5. CASE Forward(d)
  <2> DEFINE ev == Head(events[s])
  <2>1. /\ fwd[d].pc # "none" /\ events[s] # <<>>
        /\ events' = [events EXCEPT ![s] = Tail(@)]
        /\ out' = out \/ out' = [out EXCEPT ![d] = Append(@, ev)]
        /\ FwdGoto(d, "done") \/ UNCHANGED fwd
        /\ UNCHANGED <<created, sent, cmds, agent, client, token, poisoned, disturbed>>
    BY <1>5 DEF Forward, FwdStep
  <2>2. s \in Sessions /\ events[s] \in Seq(Event)
    BY <2>1 DEF TypeOK, Issued
  <2>3. ev \in Event /\ Tail(events[s]) \in Seq(Event) /\ Append(out[d], ev) \in Seq(Event)
    BY <1>1, <2>1, <2>2, TailPrompts, AppendPrompts
  <2> HIDE DEF ev
  <2>4. Issued' /\ fwd' \in [Cmds -> FwdState]
    BY <1>3, <2>1 DEF TypeOK
  <2> HIDE DEF s
  <2>5. events' \in [Sessions -> Seq(Event)] /\ out' \in [Cmds -> Seq(Event)]
    BY <2>1, <2>2, <2>3 DEF TypeOK
  <2> QED BY <2>1, <2>4, <2>5 DEF TypeOK, FwdState
<1>6. CASE ForwardGivesUp(d)
  <2>1. FwdGoto(d, "done") /\ fwd[d].pc # "none"
        /\ UNCHANGED <<created, sent, cmds, agent, client, token, poisoned, events, out>>
        /\ disturbed' \in BOOLEAN
    BY <1>6 DEF ForwardGivesUp, FwdStep, DisturbIf, TypeOK
  <2>2. Issued' /\ fwd' \in [Cmds -> FwdState]
    BY <1>3, <2>1
  <2> QED BY <2>1, <2>2 DEF TypeOK, FwdState
<1> QED BY <1>4, <1>5, <1>6 DEF FwdNext

(***************************************************************************)
(* A client that leaves drops what was queued for it.                      *)
(***************************************************************************)
LEMMA LeaveTypes ==
  ASSUME TypeOK, Issued, NEW c \in Clients, NEW state \in {Idle, Gone},
         client[c].cmd \in Cmds, Leave(c, state), ConnStep, UNCHANGED agent
  PROVE  /\ client' \in [Clients -> ClientState]
         /\ out' \in [Cmds -> Seq(Event)]
         /\ Issued'
<1>1. state \in ClientState /\ state.pc \in {"idle", "gone"}
  BY DEF Idle, Gone, ClientState
<1>2. client' = [client EXCEPT ![c] = state] /\ out' = [out EXCEPT ![client[c].cmd] = <<>>]
  BY DEF Leave
<1>3. client' \in [Clients -> ClientState] /\ out' \in [Cmds -> Seq(Event)]
  BY <1>1, <1>2 DEF TypeOK, ClientState
<1>4. Issued'
  BY <1>1, <1>2 DEF ConnStep, TypeOK, Issued
<1> QED BY <1>3, <1>4

(***************************************************************************)
(* A client is only shown a prompt that its agent waits for: the turn the  *)
(* answer resumes is a running one.                                        *)
(***************************************************************************)
LEMMA ReplyTypes ==
  ASSUME TypeOK, Issued, NEW c \in Clients, \A s \in Sessions : OnePrompt(s), Reply(c)
  PROVE  TypeOK' /\ Issued'
<1> DEFINE k == client[c]
           s == fwd[k.cmd].ses
<1>1. k \in ClientState /\ k.cmd \in Cmds /\ fwd[k.cmd].pc # "none" /\ k.pc = "replying"
  BY DEF Reply, TypeOK, ClientState, Issued
<1>2. s \in Sessions /\ agent[s].pc = "asking"
  BY <1>1 DEF Issued, OnePrompt, ShownBy
<1>3. client' = [client EXCEPT ![c] = [k EXCEPT !.pc = "draining"]]
      /\ agent' = [agent EXCEPT ![s] = [agent[s] EXCEPT !.pc = "turn"]]
  BY DEF Reply
<1>4. [k EXCEPT !.pc = "draining"] \in ClientState /\ [k EXCEPT !.pc = "draining"].cmd = k.cmd
  BY <1>1 DEF ClientState
<1>5. /\ agent[s] \in AgentState /\ [agent[s] EXCEPT !.pc = "turn"] \in AgentState
      /\ [agent[s] EXCEPT !.pc = "turn"].cmd = agent[s].cmd
      /\ agent[s].cmd \in Cmds
  <2>1. agent[s] \in AgentState /\ agent[s].cmd \in Cmds
    BY <1>2 DEF TypeOK, AgentState, Issued
  <2>2. [agent[s] EXCEPT !.pc = "turn"].cmd = agent[s].cmd
    BY <2>1 DEF AgentState
  <2> QED BY <2>1, <2>2, AgentStates
<1>6. /\ UNCHANGED <<created, sent, cmds, events, fwd, out, token, poisoned, disturbed>>
  BY DEF Reply, ConnStep
<1> HIDE DEF s
<1>7. client' \in [Clients -> ClientState] /\ agent' \in [Sessions -> AgentState]
  BY <1>2, <1>3, <1>4, <1>5 DEF TypeOK, ClientState, AgentState
<1>8. TypeOK'
  BY <1>6, <1>7 DEF TypeOK, ClientState, AgentState
<1>9. \A x \in Sessions : agent'[x].pc \in {"turn", "asking"} => agent'[x].cmd \in Cmds
  BY <1>2, <1>3, <1>5 DEF TypeOK, Issued
<1>10. \A x \in Clients : client'[x].pc \in {"token", "draining", "replying"} =>
         client'[x].cmd \in Cmds /\ fwd'[client'[x].cmd].pc # "none"
  BY <1>1, <1>3, <1>4, <1>6 DEF TypeOK, Issued
<1> QED BY <1>6, <1>8, <1>9, <1>10 DEF Issued

(***************************************************************************)
(* The connection threads keep the types.                                  *)
(***************************************************************************)
LEMMA ConnTypes ==
  ASSUME TypeOK, Issued, NEW c \in Clients, \A s \in Sessions : OnePrompt(s),
         LockToken(c) \/ ConnNext(c) \/ Connect(c)
  PROVE  TypeOK' /\ Issued'
<1> DEFINE k == client[c]
           d == k.cmd
<1>1. /\ k \in ClientState
      /\ k.pc \in {"token", "draining", "replying"} => d \in Cmds /\ fwd[d].pc # "none"
  BY DEF TypeOK, ClientState, Issued
<1>2. ASSUME NEW l \in {"draining", "replying"}, k.pc \in {"token", "draining", "replying"},
             client' = [client EXCEPT ![c].pc = l], UNCHANGED <<sent, fwd>>,
             \A e \in Cmds : out'[e] = out[e] \/ e = d,
             \A x \in Sessions : /\ agent'[x].pc \in {"turn", "asking"} =>
                                     agent[x].pc \in {"turn", "asking"}
                                 /\ agent'[x].cmd = agent[x].cmd
      PROVE  client' \in [Clients -> ClientState] /\ Issued'
  <2>1. client' = [client EXCEPT ![c] = [k EXCEPT !.pc = l]]
    BY <1>2
  <2>2. [k EXCEPT !.pc = l] \in ClientState /\ [k EXCEPT !.pc = l].cmd = d
    BY <1>1 DEF ClientState
  <2>3. client' \in [Clients -> ClientState]
    BY <2>1, <2>2 DEF TypeOK, ClientState
  <2>4. \A x \in Clients : /\ client'[x].cmd = client[x].cmd
                           /\ x # c => client'[x] = client[x]
    BY <2>1, <2>2 DEF TypeOK
  <2> HIDE DEF k, d
  <2>5. \A x \in Clients : client'[x].pc \in {"token", "draining", "replying"} =>
          client'[x].cmd \in Cmds /\ fwd'[client'[x].cmd].pc # "none"
    BY <1>1, <1>2, <2>4 DEF Issued, k, d
  <2> QED BY <1>1, <1>2, <2>3, <2>5 DEF Issued
<1>3. CASE LockToken(c)
  <2>1. client' \in [Clients -> ClientState] /\ Issued'
    BY <1>2, <1>3 DEF LockToken, ConnStep
  <2> QED BY <1>3, <2>1 DEF LockToken, ConnStep, TypeOK, ClientState
<1>4. CASE LockPanics(c)
  <2>1. d \in Cmds
    BY <1>1, <1>4 DEF LockPanics
  <2>2. client' \in [Clients -> ClientState] /\ out' \in [Cmds -> Seq(Event)] /\ Issued'
    BY <1>4, <2>1, LeaveTypes DEF LockPanics
  <2> QED BY <1>4, <2>2 DEF LockPanics, ConnStep, DisturbIf, TypeOK, ClientState
<1>5. CASE Drain(c)
  <2> DEFINE q == out[d]
  <2>1. /\ k.pc = "draining" /\ d \in Cmds /\ q # <<>>
        /\ out' = [out EXCEPT ![d] = Tail(@)]
        /\ UNCHANGED <<created, sent, cmds, events, fwd, agent, poisoned, disturbed>>
    BY <1>1, <1>5 DEF Drain, ConnStep
  <2>2. /\ q \in Seq(Event) /\ Tail(q) \in Seq(Event)
        /\ Head(q).kind \in {"text", "prompt", "complete"}
    BY <2>1, TailPrompts DEF TypeOK, Event
  <2>3. out' \in [Cmds -> Seq(Event)] /\ \A e \in Cmds : out'[e] = out[e] \/ e = d
    BY <2>1, <2>2 DEF TypeOK
  <2>4. token' \in Clients \cup {Free, Wg}
    BY <1>5 DEF Drain, Release, TypeOK
  <2>5. CASE Head(q).kind = "text"
    <3>1. client' = client
      BY <1>5, <2>5 DEF Drain, TypeOK
    <3>2. Issued'
      BY <2>1, <2>3, <3>1, <1>1 DEF Issued
    <3> QED BY <2>1, <2>3, <2>4, <3>1, <3>2 DEF TypeOK
  <2>6. CASE Head(q).kind = "prompt"
    <3>1. client' = [client EXCEPT ![c].pc = "replying"]
      BY <1>5, <2>6 DEF Drain
    <3>2. client' \in [Clients -> ClientState] /\ Issued'
      BY <1>2, <2>1, <2>3, <3>1
    <3> QED BY <2>1, <2>3, <2>4, <3>2 DEF TypeOK, ClientState
  <2>7. CASE Head(q).kind = "complete"
    <3>1. client' = [client EXCEPT ![c] = Idle] /\ Idle \in ClientState /\ Idle.pc = "idle"
      BY <1>5, <2>7 DEF Drain, Idle, ClientState
    <3>2. client' \in [Clients -> ClientState]
      BY <3>1 DEF TypeOK, ClientState
    <3> HIDE DEF q, d, k
    <3>3. Issued'
      BY <1>1, <2>1, <2>3, <3>1 DEF Issued, TypeOK
    <3> QED BY <2>1, <2>3, <2>4, <3>2, <3>3 DEF TypeOK, ClientState
  <2> QED BY <2>2, <2>5, <2>6, <2>7
<1>6. CASE DrainGivesUp(c)
  <2>1. d \in Cmds
    BY <1>1, <1>6 DEF DrainGivesUp
  <2>2. client' \in [Clients -> ClientState] /\ out' \in [Cmds -> Seq(Event)] /\ Issued'
    BY <1>6, <2>1, LeaveTypes DEF DrainGivesUp
  <2> QED BY <1>6, <2>2 DEF DrainGivesUp, ConnStep, DisturbIf, Release, TypeOK, ClientState
<1>7. CASE ReplyFails(c)
  <2>1. d \in Cmds
    BY <1>1, <1>7 DEF ReplyFails
  <2>2. client' \in [Clients -> ClientState] /\ out' \in [Cmds -> Seq(Event)] /\ Issued'
    BY <1>7, <2>1, LeaveTypes DEF ReplyFails
  <2> QED BY <1>7, <2>2 DEF ReplyFails, ConnStep, DisturbIf, Release, TypeOK, ClientState
<1>8. CASE Connect(c)
  <2>1. client' = [client EXCEPT ![c] = Idle] /\ Idle \in ClientState /\ Idle.pc = "idle"
    BY <1>8 DEF Connect, Idle, ClientState
  <2>2. client' \in [Clients -> ClientState] /\ Issued'
    BY <1>8, <2>1 DEF Connect, ConnStep, TypeOK, Issued, ClientState
  <2> QED BY <1>8, <2>2 DEF Connect, ConnStep, TypeOK, ClientState
<1> QED BY <1>3, <1>4, <1>5, <1>6, <1>7, <1>8, ReplyTypes DEF ConnNext

-----------------------------------------------------------------------------
(***************************************************************************)
(* A step that adds no prompt of a session, and does not let its agent go  *)
(* on while it asks, keeps its prompts one.                                *)
(***************************************************************************)
LEMMA FewerPrompts ==
  ASSUME NEW s \in Sessions, OnePrompt(s),
         One(events'[s]), Has(events'[s]) => Has(events[s]),
         \A d \in Cmds : fwd'[d].ses = s => One(out'[d]),
         \A d \in Cmds : fwd'[d].ses = s /\ Has(out'[d]) => fwd[d].ses = s /\ Has(out[d]),
         \A c \in Clients : ShownBy(c, s)' => ShownBy(c, s),
         agent[s].pc = "asking" => agent'[s].pc = "asking"
  PROVE  OnePrompt(s)'
<1> DEFINE Queued == Has(events[s])
           Sent(d) == fwd[d].ses = s /\ Has(out[d])
<1>1. /\ \A d, e \in Cmds : Sent(d) /\ Sent(e) => d = e
      /\ \A c, x \in Clients : ShownBy(c, s) /\ ShownBy(x, s) => c = x
      /\ \A d \in Cmds : ~(Queued /\ Sent(d))
      /\ \A c \in Clients : ~(Queued /\ ShownBy(c, s))
      /\ \A d \in Cmds, c \in Clients : ~(Sent(d) /\ ShownBy(c, s))
      /\ agent[s].pc # "asking" => /\ ~Queued
                                   /\ \A d \in Cmds : ~Sent(d)
                                   /\ \A c \in Clients : ~ShownBy(c, s)
  BY DEF OnePrompt
<1>2. \A d \in Cmds : fwd'[d].ses = s /\ Has(out'[d]) => Sent(d)
  OBVIOUS
<1>3. \A c \in Clients : ShownBy(c, s)' => ShownBy(c, s)
  OBVIOUS
<1> HIDE DEF Sent
<1>4. \A d, e \in Cmds :
        fwd'[d].ses = s /\ fwd'[e].ses = s /\ Has(out'[d]) /\ Has(out'[e]) => d = e
  BY <1>1, <1>2
<1>5. \A c, x \in Clients : ShownBy(c, s)' /\ ShownBy(x, s)' => c = x
  BY <1>1, <1>3
<1>6. \A d \in Cmds : ~(Has(events'[s]) /\ fwd'[d].ses = s /\ Has(out'[d]))
  BY <1>1, <1>2
<1>7. \A c \in Clients : ~(Has(events'[s]) /\ ShownBy(c, s)')
  BY <1>1, <1>3
<1>8. \A d \in Cmds, c \in Clients : ~(fwd'[d].ses = s /\ Has(out'[d]) /\ ShownBy(c, s)')
  BY <1>1, <1>2, <1>3
<1>9. agent'[s].pc # "asking" =>
        /\ ~Has(events'[s])
        /\ \A d \in Cmds : fwd'[d].ses = s => ~Has(out'[d])
        /\ \A c \in Clients : ~ShownBy(c, s)'
  BY <1>1, <1>2, <1>3
<1> QED BY <1>4, <1>5, <1>6, <1>7, <1>8, <1>9 DEF OnePrompt, Has, One

(***************************************************************************)
(* The agent thread: only Ask adds a prompt, when there is none.           *)
(***************************************************************************)
LEMMA AgentPrompts ==
  ASSUME TypeOK, Issued, NEW x \in Sessions, AgentNext(x),
         NEW s \in Sessions, OnePrompt(s)
  PROVE  OnePrompt(s)'
<1>1. UNCHANGED <<fwd, out, client>> /\ \A y \in Sessions \ {x} : agent'[y] = agent[y]
  BY DEF AgentNext, Begin, Say, Ask, PromptDropped, Complete, Die, AgentStep, TypeOK
<1>2. /\ \A c \in Clients : ShownBy(c, s)' <=> ShownBy(c, s)
      /\ \A d \in Cmds : fwd[d].ses = s => One(out[d])
      /\ One(events[s])
  BY <1>1 DEF ShownBy, OnePrompt
<1>3. ASSUME events'[s] = events[s], agent[s].pc = "asking" => agent'[s].pc = "asking"
      PROVE  OnePrompt(s)'
  BY <1>1, <1>2, <1>3, FewerPrompts
<1>4. ASSUME NEW kind \in {"text", "prompt", "complete"}, Emit(x, kind), agent[x].pc = "turn"
      PROVE  LET ev == [kind |-> kind, cmd |-> agent[x].cmd]
             IN  /\ ev \in Event /\ events[x] \in Seq(Event)
                 /\ events'[x] = Append(events[x], ev)
                 /\ \A y \in Sessions \ {x} : events'[y] = events[y]
  BY <1>4 DEF Emit, TypeOK, Event, Issued
<1>5. ASSUME NEW kind \in {"text", "complete"}, Emit(x, kind), agent[x].pc = "turn"
      PROVE  OnePrompt(s)'
  <2> DEFINE ev == [kind |-> kind, cmd |-> agent[x].cmd]
  <2>1. CASE s = x
    <3>1. /\ ev \in Event /\ events[s] \in Seq(Event) /\ ev.kind # "prompt"
          /\ events'[s] = Append(events[s], ev)
      BY <1>4, <1>5, <2>1
    <3> HIDE DEF ev
    <3>2. One(events'[s]) /\ (Has(events'[s]) => Has(events[s]))
      BY <1>2, <3>1, AppendPrompts
    <3> QED BY <1>1, <1>2, <1>5, <2>1, <3>2, FewerPrompts
  <2>2. CASE s # x
    BY <1>1, <1>3, <1>4, <1>5, <2>2
  <2> QED BY <2>1, <2>2
<1>6. CASE Begin(x)
  <2>1. events' = events /\ agent[x].pc = "idle"
    BY <1>6 DEF Begin
  <2> QED BY <1>1, <1>3, <2>1
<1>7. CASE Say(x)
  BY <1>5, <1>7 DEF Say
<1>8. CASE Ask(x)
  <2> DEFINE ev == [kind |-> "prompt", cmd |-> agent[x].cmd]
  <2>1. Emit(x, "prompt") /\ agent[x].pc = "turn"
    BY <1>8 DEF Ask
  <2>2. CASE s = x
    <3>1. agent'[s].pc = "asking"
      BY <1>8, <2>2 DEF Ask, TypeOK
    <3>2. /\ ev \in Event /\ events[s] \in Seq(Event)
          /\ events'[s] = Append(events[s], ev)
      BY <1>4, <2>1, <2>2
    <3>3. /\ ~Has(events[s])
          /\ \A d \in Cmds : fwd'[d].ses = s => ~Has(out'[d])
          /\ \A c \in Clients : ~ShownBy(c, s)'
      BY <1>1, <1>2, <2>1, <2>2 DEF OnePrompt
    <3> HIDE DEF ev
    <3>4. One(events'[s])
      BY <1>2, <3>2, <3>3, AppendPrompts
    <3>5. \A d \in Cmds : fwd'[d].ses = s => One(out'[d])
      BY <1>1, <1>2
    <3> QED BY <3>1, <3>3, <3>4, <3>5 DEF OnePrompt, Has, One
  <2>3. CASE s # x
    BY <1>1, <1>3, <1>4, <2>1, <2>3
  <2> QED BY <2>2, <2>3
<1>9. CASE PromptDropped(x)
  <2>1. CASE s = x
    <3>1. ~PromptHeld(s) /\ events' = events
      BY <1>9, <2>1 DEF PromptDropped
    <3>2. ~Has(events[s]) /\ \A d \in Cmds : fwd[d].ses = s => ~Has(out[d])
      BY <3>1 DEF PromptHeld, Has
    <3>3. \A c \in Clients : ~ShownBy(c, s)
      <4> SUFFICES ASSUME NEW c \in Clients, ShownBy(c, s) PROVE FALSE
        OBVIOUS
      <4>1. client[c] \in ClientState /\ client[c].cmd \in Cmds /\ client[c].pc = "replying"
            /\ fwd[client[c].cmd].ses = s
        BY DEF ShownBy, TypeOK, ClientState, Issued
      <4>2. client[c] = [pc |-> "replying", cmd |-> client[c].cmd]
        BY <4>1 DEF ClientState
      <4> QED BY <3>1, <4>1, <4>2 DEF PromptHeld
    <3> QED BY <1>1, <1>2, <3>1, <3>2, <3>3 DEF OnePrompt, Has, One
  <2>2. CASE s # x
    BY <1>1, <1>3, <1>9, <2>2 DEF PromptDropped
  <2> QED BY <2>1, <2>2
<1>10. CASE Complete(x)
  BY <1>5, <1>10 DEF Complete
<1>11. CASE Die(x)
  <2>1. events' = events /\ agent[x].pc = "turn"
    BY <1>11 DEF Die
  <2> QED BY <1>1, <1>3, <2>1
<1> QED BY <1>6, <1>7, <1>8, <1>9, <1>10, <1>11 DEF AgentNext

(***************************************************************************)
(* A request starts with an empty channel, and no client was shown a       *)
(* prompt of its command.                                                  *)
(***************************************************************************)
LEMMA RequestPrompts ==
  ASSUME TypeOK, Issued, NEW k \in Clients, NEW fresh \in BOOLEAN, Request(k, fresh),
         NEW s \in Sessions, OnePrompt(s)
  PROVE  OnePrompt(s)'
<1> DEFINE n == sent + 1
           t == Target(fresh)
<1>1. /\ n \in Cmds /\ UNCHANGED <<agent, events, out>>
      /\ client[k].pc = "idle"
      /\ \/ client' = [client EXCEPT ![k] = Gone] /\ UNCHANGED fwd
         \/ /\ fwd' = [fwd EXCEPT ![n] = [pc |-> "waiting", ses |-> t]]
            /\ client' = [client EXCEPT ![k] = [pc |-> "token", cmd |-> n]]
  BY DEF Request
<1>2. n > sent
  BY DEF TypeOK
<1> HIDE DEF n, t
<1>3. fwd[n].pc = "none" /\ out[n] = <<>>
  BY <1>1, <1>2 DEF Issued
<1>4. \A d \in Cmds : d # n => fwd'[d] = fwd[d]
  BY <1>1 DEF TypeOK
<1>5. \A c \in Clients : ShownBy(c, s)' => ShownBy(c, s)
  <2> SUFFICES ASSUME NEW c \in Clients, client'[c].pc = "replying",
                      fwd'[client'[c].cmd].ses = s
               PROVE  ShownBy(c, s)
    BY DEF ShownBy
  <2>1. c # k /\ client'[c] = client[c]
    BY <1>1 DEF TypeOK, Gone
  <2>2. client[c].cmd \in Cmds /\ client[c].cmd # n
    BY <1>3, <2>1 DEF Issued
  <2> QED BY <1>4, <2>1, <2>2 DEF ShownBy
<1>6. \A d \in Cmds : fwd'[d].ses = s => One(out'[d])
  BY <1>1, <1>3, <1>4, EmptyPrompts DEF OnePrompt
<1>7. \A d \in Cmds : fwd'[d].ses = s /\ Has(out'[d]) => fwd[d].ses = s /\ Has(out[d])
  BY <1>1, <1>3, <1>4, EmptyPrompts
<1>8. One(events'[s]) /\ (Has(events'[s]) => Has(events[s]))
  BY <1>1 DEF OnePrompt
<1> QED BY <1>1, <1>5, <1>6, <1>7, <1>8, FewerPrompts

(***************************************************************************)
(* A forwarder moves the first event of its session's queue to the channel *)
(* of its request, or loses it.                                            *)
(***************************************************************************)
LEMMA FwdPrompts ==
  ASSUME TypeOK, Issued, NEW f \in Cmds, FwdNext(f),
         NEW s \in Sessions, OnePrompt(s)
  PROVE  OnePrompt(s)'
<1>1. /\ UNCHANGED <<agent, client>>
      /\ \A d \in Cmds : fwd'[d].ses = fwd[d].ses
  <2>1. UNCHANGED <<agent, client>>
    BY DEF FwdNext, LockEvents, Forward, ForwardGivesUp, FwdStep
  <2>2. fwd' = fwd \/ \E l \in {"forwarding", "done"} : FwdGoto(f, l)
    BY DEF FwdNext, LockEvents, Forward, ForwardGivesUp
  <2>3. ASSUME NEW l, FwdGoto(f, l) PROVE \A d \in Cmds : fwd'[d].ses = fwd[d].ses
    BY <2>3 DEF FwdGoto, TypeOK
  <2> QED BY <2>1, <2>2, <2>3
<1>2. \A c \in Clients : ShownBy(c, s)' <=> ShownBy(c, s)
  <2> SUFFICES ASSUME NEW c \in Clients, client[c].pc = "replying"
               PROVE  fwd'[client[c].cmd].ses = fwd[client[c].cmd].ses
    BY <1>1 DEF ShownBy
  <2> QED BY <1>1 DEF Issued
<1>3. /\ One(events[s])
      /\ \A d \in Cmds : fwd[d].ses = s => One(out[d])
  BY DEF OnePrompt
<1>4. ASSUME UNCHANGED <<events, out>> PROVE OnePrompt(s)'
  BY <1>1, <1>2, <1>3, <1>4, FewerPrompts
<1>5. CASE LockEvents(f)
  BY <1>4, <1>5 DEF LockEvents
<1>6. CASE ForwardGivesUp(f)
  BY <1>4, <1>6 DEF ForwardGivesUp
<1>7. CASE Forward(f)
  <2> DEFINE x == fwd[f].ses
             q == events[x]
             ev == Head(q)
  <2>1. /\ x \in Sessions /\ q \in Seq(Event) /\ q # <<>> /\ out[f] \in Seq(Event)
        /\ events' = [events EXCEPT ![x] = Tail(q)]
        /\ out' = out \/ out' = [out EXCEPT ![f] = Append(out[f], ev)]
    BY <1>7 DEF Forward, Issued, TypeOK
  <2>2. /\ events'[x] = Tail(q)
        /\ \A y \in Sessions \ {x} : events'[y] = events[y]
        /\ \A d \in Cmds \ {f} : out'[d] = out[d]
        /\ out'[f] \in {out[f], Append(out[f], ev)}
    BY <2>1 DEF TypeOK
  <2>3. CASE s # x
    BY <1>1, <1>2, <1>3, <2>2, <2>3, FewerPrompts
  <2>4. CASE s = x
    <3>1. /\ ev \in Event
          /\ Has(Tail(q)) => Has(q)
          /\ ev.kind = "prompt" => Has(q) /\ ~Has(Tail(q))
          /\ One(Tail(q))
      BY <1>3, <2>1, <2>4, TailPrompts
    <3> HIDE DEF ev
    <3>2. ev.kind # "prompt" => (Has(out'[f]) => Has(out[f])) /\ One(out'[f])
      BY <1>3, <2>1, <2>2, <2>4, <3>1, AppendPrompts
    <3>3. ev.kind = "prompt" /\ ~Has(out[f]) => One(out'[f])
      BY <1>3, <2>1, <2>2, <2>4, <3>1, AppendPrompts
    <3> HIDE DEF q
    <3>4. CASE ev.kind # "prompt"
      <4>1. \A d \in Cmds : /\ fwd'[d].ses = s => One(out'[d])
                            /\ fwd'[d].ses = s /\ Has(out'[d]) => fwd[d].ses = s /\ Has(out[d])
        BY <1>1, <1>3, <2>2, <3>2, <3>4
      <4>2. One(events'[s]) /\ (Has(events'[s]) => Has(events[s]))
        BY <2>2, <2>4, <3>1 DEF q
      <4> QED BY <1>1, <1>2, <4>1, <4>2, FewerPrompts
    <3>5. CASE ev.kind = "prompt"
      <4>1. /\ \A d \in Cmds : fwd[d].ses = s => ~Has(out[d])
            /\ \A c \in Clients : ~ShownBy(c, s)
            /\ agent[s].pc = "asking"
        BY <2>4, <3>1, <3>5 DEF OnePrompt, q
      <4>2. \A d \in Cmds : fwd'[d].ses = s /\ Has(out'[d]) => d = f
        BY <1>1, <2>2, <4>1
      <4>3. \A d \in Cmds : fwd'[d].ses = s => One(out'[d])
        BY <1>1, <1>3, <2>2, <2>4, <3>3, <3>5, <4>1
      <4>4. ~Has(events'[s]) /\ One(events'[s]) /\ \A c \in Clients : ~ShownBy(c, s)'
        BY <1>2, <2>2, <2>4, <3>1, <3>5, <4>1
      <4>5. agent'[s].pc = "asking"
        BY <1>1, <4>1
      <4> QED BY <4>2, <4>3, <4>4, <4>5 DEF OnePrompt, Has, One
    <3> QED BY <3>4, <3>5
  <2> QED BY <2>3, <2>4
<1> QED BY <1>5, <1>6, <1>7 DEF FwdNext

(***************************************************************************)
(* A client that leaves takes its prompts with it.                         *)
(***************************************************************************)
LEMMA LeavePrompts ==
  ASSUME TypeOK, NEW k \in Clients, NEW state \in {Idle, Gone},
         Leave(k, state), client[k].cmd \in Cmds, UNCHANGED <<agent, events, fwd>>,
         NEW s \in Sessions, OnePrompt(s)
  PROVE  OnePrompt(s)'
<1>1. /\ client' = [client EXCEPT ![k] = state] /\ state.pc # "replying"
      /\ out' = [out EXCEPT ![client[k].cmd] = <<>>]
  BY DEF Leave, Idle, Gone
<1>2. \A c \in Clients : ShownBy(c, s)' => ShownBy(c, s)
  BY <1>1 DEF ShownBy, TypeOK
<1>3. \A d \in Cmds : out'[d] = out[d] \/ out'[d] = <<>>
  BY <1>1 DEF TypeOK
<1>4. One(events[s]) /\ \A d \in Cmds : fwd[d].ses = s => One(out[d])
  BY DEF OnePrompt
<1> QED BY <1>2, <1>3, <1>4, EmptyPrompts, FewerPrompts

(***************************************************************************)
(* A connection thread takes the first event of its channel: a prompt it   *)
(* shows is no longer queued, and one it answers no longer shown.          *)
(***************************************************************************)
LEMMA ConnPrompts ==
  ASSUME TypeOK, Issued, NEW k \in Clients,
         LockToken(k) \/ ConnNext(k) \/ Connect(k),
         NEW s \in Sessions, OnePrompt(s)
  PROVE  OnePrompt(s)'
<1> DEFINE f == client[k].cmd
           x == fwd[f].ses
<1>1. UNCHANGED <<events, fwd>>
  BY DEF LockToken, ConnNext, LockPanics, Drain, DrainGivesUp, Reply, ReplyFails,
         Connect, ConnStep
<1>2. /\ One(events[s])
      /\ \A d \in Cmds : fwd[d].ses = s => One(out[d])
  BY DEF OnePrompt
<1>3. client[k].pc \in {"token", "draining", "replying"} => f \in Cmds /\ x \in Sessions
  BY DEF Issued
<1>4. ASSUME NEW state, client' = [client EXCEPT ![k] = state], state.pc # "replying"
      PROVE  \A c \in Clients : /\ ShownBy(c, s)' => ShownBy(c, s)
                                /\ ~ShownBy(k, s)'
  BY <1>1, <1>4 DEF ShownBy, TypeOK
<1>5. CASE LockToken(k)
  <2>1. client' = [client EXCEPT ![k] = [client[k] EXCEPT !.pc = "draining"]]
        /\ UNCHANGED <<agent, out>>
    BY <1>5 DEF LockToken
  <2>2. [client[k] EXCEPT !.pc = "draining"].pc # "replying"
    BY DEF TypeOK
  <2>3. \A c \in Clients : ShownBy(c, s)' => ShownBy(c, s)
    BY <1>4, <2>1, <2>2
  <2> QED BY <1>1, <1>2, <2>1, <2>3, FewerPrompts
<1>6. CASE LockPanics(k)
  BY <1>1, <1>3, <1>6, LeavePrompts DEF LockPanics
<1>7. CASE DrainGivesUp(k)
  BY <1>1, <1>3, <1>7, LeavePrompts DEF DrainGivesUp
<1>8. CASE ReplyFails(k)
  BY <1>1, <1>3, <1>8, LeavePrompts DEF ReplyFails
<1>9. CASE Connect(k)
  <2>1. client' = [client EXCEPT ![k] = Idle] /\ Idle.pc # "replying" /\ UNCHANGED <<agent, out>>
    BY <1>9 DEF Connect, Idle
  <2>2. \A c \in Clients : ShownBy(c, s)' => ShownBy(c, s)
    BY <1>4, <2>1
  <2> QED BY <1>1, <1>2, <2>1, <2>2, FewerPrompts
<1>10. CASE Reply(k)
  <2>1. /\ client[k].pc = "replying" /\ UNCHANGED out
        /\ client' = [client EXCEPT ![k] = [client[k] EXCEPT !.pc = "draining"]]
        /\ agent' = [agent EXCEPT ![x].pc = "turn"]
    BY <1>10 DEF Reply
  <2>2. [client[k] EXCEPT !.pc = "draining"].pc # "replying"
    BY DEF TypeOK
  <2>3. \A c \in Clients : (ShownBy(c, s)' => ShownBy(c, s)) /\ ~ShownBy(k, s)'
    BY <1>4, <2>1, <2>2
  <2>4. CASE s = x
    <3>1. ShownBy(k, s)
      BY <2>1, <2>4 DEF ShownBy
    <3>2. /\ ~Has(events[s])
          /\ \A d \in Cmds : fwd[d].ses = s => ~Has(out[d])
          /\ \A c \in Clients : ShownBy(c, s) => c = k
      BY <3>1 DEF OnePrompt
    <3>3. \A c \in Clients : ~ShownBy(c, s)'
      BY <2>3, <3>2
    <3> QED BY <1>1, <1>2, <2>1, <3>2, <3>3 DEF OnePrompt, Has, One
  <2>5. CASE s # x
    <3>1. agent'[s] = agent[s]
      BY <2>1, <2>5 DEF TypeOK
    <3> QED BY <1>1, <1>2, <2>1, <2>3, <3>1, FewerPrompts
  <2> QED BY <2>4, <2>5
<1>11. CASE Drain(k)
  <2> DEFINE q == out[f]
             kind == Head(q).kind
  <2>1. /\ client[k].pc = "draining" /\ UNCHANGED agent
        /\ q # <<>> /\ q \in Seq(Event) /\ f \in Cmds /\ x \in Sessions
        /\ out' = [out EXCEPT ![f] = Tail(q)]
        /\ client' = [client EXCEPT ![k] =
                        CASE kind = "text" -> client[k]
                          [] kind = "prompt" -> [client[k] EXCEPT !.pc = "replying"]
                          [] kind = "complete" -> Idle]
    BY <1>3, <1>11 DEF Drain, TypeOK
  <2>2. /\ kind \in {"text", "prompt", "complete"}
        /\ Has(Tail(q)) => Has(q)
        /\ kind = "prompt" => Has(q)
        /\ One(q) => One(Tail(q))
        /\ One(q) /\ kind = "prompt" => ~Has(Tail(q))
    BY <2>1, TailPrompts DEF Event
  <2>3. out'[f] = Tail(q) /\ \A d \in Cmds \ {f} : out'[d] = out[d]
    BY <2>1 DEF TypeOK
  <2> HIDE DEF kind
  <2>4. \A d \in Cmds : /\ fwd'[d].ses = s => One(out'[d])
                        /\ fwd'[d].ses = s /\ Has(out'[d]) => fwd[d].ses = s /\ Has(out[d])
    BY <1>1, <1>2, <2>2, <2>3
  <2>5. CASE kind # "prompt"
    <3>1. \/ client' = [client EXCEPT ![k] = client[k]]
          \/ client' = [client EXCEPT ![k] = Idle]
      BY <2>1, <2>2, <2>5
    <3>2. client[k].pc # "replying" /\ Idle.pc # "replying"
      BY <2>1 DEF Idle
    <3>3. \A c \in Clients : ShownBy(c, s)' => ShownBy(c, s)
      BY <1>4, <3>1, <3>2
    <3> QED BY <1>1, <1>2, <2>1, <2>4, <3>3, FewerPrompts
  <2>6. CASE kind = "prompt"
    <3>1. client' = [client EXCEPT ![k] = [client[k] EXCEPT !.pc = "replying"]]
      BY <2>1, <2>6
    <3>2. \A c \in Clients \ {k} : client'[c] = client[c]
      BY <3>1 DEF TypeOK
    <3>3. client'[k].cmd = f
      BY <3>1 DEF TypeOK
    <3>4. \A c \in Clients : ShownBy(c, s)' => ShownBy(c, s) \/ (c = k /\ s = x)
      BY <1>1, <3>2, <3>3 DEF ShownBy
    <3>5. CASE s # x
      BY <1>1, <1>2, <2>1, <2>4, <3>4, <3>5, FewerPrompts
    <3>6. CASE s = x
      <4>1. fwd[f].ses = s /\ Has(out[f]) /\ ~Has(out'[f])
        BY <1>2, <2>1, <2>2, <2>3, <2>6, <3>6
      <4>2. /\ ~Has(events[s]) /\ agent[s].pc = "asking"
            /\ \A d \in Cmds : fwd[d].ses = s /\ Has(out[d]) => d = f
            /\ \A c \in Clients : ~ShownBy(c, s)
        BY <2>1, <4>1 DEF OnePrompt
      <4>3. \A d \in Cmds : fwd'[d].ses = s => ~Has(out'[d])
        BY <2>4, <4>1, <4>2
      <4>4. \A c \in Clients : ShownBy(c, s)' => c = k
        BY <3>4, <4>2
      <4>5. One(events'[s]) /\ ~Has(events'[s]) /\ agent'[s].pc = "asking"
        BY <1>1, <1>2, <2>1, <4>2
      <4> QED BY <2>4, <4>3, <4>4, <4>5 DEF OnePrompt, Has, One
    <3> QED BY <3>5, <3>6
  <2> QED BY <2>5, <2>6
<1> QED BY <1>5, <1>6, <1>7, <1>8, <1>9, <1>10, <1>11 DEF ConnNext

-----------------------------------------------------------------------------
\* The theorems.

(***************************************************************************)
(* Nothing is queued, forwarded or shown at the start.                     *)
(***************************************************************************)
LEMMA InitTurns == Init => TurnsInv
<1> SUFFICES ASSUME Init PROVE TurnsInv
  OBVIOUS
<1> DEFINE none == <<>>
<1>1. none \in Seq(Cmds) /\ none \in Seq(Event) /\ ~Has(none) /\ One(none)
  BY EmptyPrompts
<1>2. /\ cmds = [s \in Sessions |-> none] /\ events = [s \in Sessions |-> none]
      /\ out = [d \in Cmds |-> none]
  BY DEF Init
<1>3. NoAgent \in AgentState /\ NoFwd \in FwdState /\ Idle \in ClientState
      /\ NoAgent.pc = "idle" /\ NoFwd.pc = "none" /\ Idle.pc = "idle"
  BY DaemonAssumption
     DEF DaemonAssumption, NoAgent, NoFwd, Idle, AgentState, FwdState, ClientState
<1> HIDE DEF none
<1>4. TypeOK
  <2>1. /\ agent = [s \in Sessions |-> NoAgent] /\ fwd = [d \in Cmds |-> NoFwd]
        /\ client = [c \in Clients |-> Idle]
    BY DEF Init
  <2> HIDE DEF NoAgent, NoFwd, Idle
  <2>2. /\ agent \in [Sessions -> AgentState] /\ fwd \in [Cmds -> FwdState]
        /\ client \in [Clients -> ClientState]
    BY <1>3, <2>1
  <2>3. /\ cmds \in [Sessions -> Seq(Cmds)] /\ events \in [Sessions -> Seq(Event)]
        /\ out \in [Cmds -> Seq(Event)]
    BY <1>1, <1>2
  <2>4. /\ created \in 0 .. MaxSessions /\ sent \in 0 .. MaxCmds
        /\ token \in Clients \cup {Free, Wg}
    BY DaemonAssumption DEF DaemonAssumption, Init
  <2>5. poisoned \in BOOLEAN /\ disturbed \in BOOLEAN
    BY Zenon DEF Init
  <2> QED BY <2>2, <2>3, <2>4, <2>5 DEF TypeOK, AgentState, FwdState, ClientState
<1>5. Issued
  <2>1. \A d \in Cmds : out[d] = <<>>
    BY DEF Init
  <2> QED BY <1>3, <2>1 DEF Init, Issued
<1>6. \A s \in Sessions : OnePrompt(s)
  BY <1>1, <1>2, <1>3 DEF Init, OnePrompt, ShownBy
<1> QED BY <1>4, <1>5, <1>6 DEF TurnsInv

(***************************************************************************)
(* Every step of every thread keeps the invariant.                         *)
(***************************************************************************)
LEMMA NextTurns == TurnsInv /\ [Next]_vars => TurnsInv'
<1> SUFFICES ASSUME TurnsInv, [Next]_vars PROVE TurnsInv'
  OBVIOUS
<1> USE DEF TurnsInv
<1>1. ASSUME NEW s \in Sessions, AgentNext(s) PROVE TurnsInv'
  BY <1>1, AgentTypes, AgentPrompts
<1>2. ASSUME NEW c \in Clients, NEW fresh \in BOOLEAN, Request(c, fresh) PROVE TurnsInv'
  BY <1>2, RequestTypes, RequestPrompts
<1>3. ASSUME NEW c \in Clients, LockToken(c) \/ ConnNext(c) \/ Connect(c) PROVE TurnsInv'
  BY <1>3, ConnTypes, ConnPrompts
<1>4. ASSUME NEW d \in Cmds, FwdNext(d) PROVE TurnsInv'
  BY <1>4, FwdTypes, FwdPrompts
<1>5. ASSUME UNCHANGED <<agent, events, fwd, out, client>>, TypeOK', Issued'
      PROVE  TurnsInv'
  BY <1>5 DEF OnePrompt, ShownBy, Has, One
<1>6. ASSUME NEW s \in Sessions, Cron(s) PROVE TurnsInv'
  BY <1>5, <1>6, CronTypes DEF Cron
<1>7. CASE NewSession
  <2>1. created' \in 0 .. MaxSessions
    BY <1>7, DaemonAssumption DEF NewSession, DaemonAssumption, TypeOK
  <2>2. TypeOK' /\ Issued'
    BY <1>7, <2>1 DEF NewSession, TypeOK, Issued
  <2> QED BY <1>5, <1>7, <2>2 DEF NewSession
<1>8. CASE WgTick \/ WgDone
  <2>1. poisoned' \in BOOLEAN
    <3>1. poisoned \in BOOLEAN
      BY DEF TypeOK
    <3> QED BY <1>8, <3>1, Zenon DEF WgTick, WgDone
  <2>2. /\ token' \in {Free, Wg}
        /\ UNCHANGED <<created, sent, cmds, agent, events, fwd, out, client, disturbed>>
    BY <1>8 DEF WgTick, WgDone, ConnStep
  <2>3. TypeOK' /\ Issued'
    BY <2>1, <2>2 DEF TypeOK, Issued
  <2> QED BY <1>5, <1>8, <2>3 DEF WgTick, WgDone, ConnStep
<1>9. CASE UNCHANGED vars
  <2>1. TypeOK' /\ Issued'
    BY <1>9 DEF vars, TypeOK, Issued
  <2> QED BY <1>5, <1>9, <2>1 DEF vars
<1> QED BY <1>1, <1>2, <1>3, <1>4, <1>6, <1>7, <1>8, <1>9 DEF Next

(***************************************************************************)
(* The invariant of the daemon's turns (src/daemon/): a command that has a *)
(* turn, a forwarder or a waiting client is one that was sent, and the     *)
(* prompts of a session are never two.                                     *)
(***************************************************************************)
THEOREM TurnsInvHolds == Spec => []TurnsInv
BY InitTurns, NextTurns, PTL DEF Spec

(***************************************************************************)
(* Type correctness of the daemon's turns.                                 *)
(***************************************************************************)
THEOREM TurnsTypeCorrect == Spec => []TypeOK
<1>1. TurnsInv => TypeOK
  BY DEF TurnsInv
<1> QED BY <1>1, TurnsInvHolds, PTL

(***************************************************************************)
(* A prompt that is queued, forwarded or shown is the one its agent is     *)
(* blocked on, whoever timed out, left or died before                      *)
(* (src/daemon/socket.rs, drain_agent_events).                             *)
(***************************************************************************)
THEOREM PromptsAreLiveHolds == Spec => []PromptsAreLive
<1>1. TurnsInv => PromptsAreLive
  <2> SUFFICES ASSUME TurnsInv, NEW s \in Sessions,
                      NEW p \in LivePrompts(s), NEW q \in LivePrompts(s)
               PROVE  agent[s].pc = "asking" /\ p = q
    BY DEF PromptsAreLive
  <2> DEFINE Queued(r) == \E i \in DOMAIN events[s] :
                            events[s][i].kind = "prompt" /\ r = <<"queue", i>>
             Sent(r) == \E d \in Cmds : fwd[d].ses = s /\ \E i \in DOMAIN out[d] :
                          out[d][i].kind = "prompt" /\ r = <<d, i>>
             Shown(r) == \E c \in Clients : ShownBy(c, s) /\ r = <<"shown", c>>
  <2>1. ASSUME NEW r \in LivePrompts(s) PROVE Queued(r) \/ Sent(r) \/ Shown(r)
    <3> DEFINE A == {<<"queue", i>> :
                       i \in {j \in DOMAIN events[s] : events[s][j].kind = "prompt"}}
               B == UNION {{<<d, i>> : i \in {j \in DOMAIN out[d] : out[d][j].kind = "prompt"}} :
                             d \in {e \in Cmds : fwd[e].ses = s}}
               C == {<<"shown", c>> : c \in {x \in Clients :
                       /\ client[x].pc = "replying" /\ fwd[client[x].cmd].ses = s}}
    <3>1. CASE r \in A
      BY <3>1
    <3>2. CASE r \in B
      <4>1. PICK d \in {e \in Cmds : fwd[e].ses = s} :
              r \in {<<d, i>> : i \in {j \in DOMAIN out[d] : out[d][j].kind = "prompt"}}
        BY <3>2
      <4>2. d \in Cmds /\ fwd[d].ses = s
        OBVIOUS
      <4>3. PICK i \in {j \in DOMAIN out[d] : out[d][j].kind = "prompt"} : r = <<d, i>>
        BY <4>1
      <4>4. i \in DOMAIN out[d] /\ out[d][i].kind = "prompt"
        OBVIOUS
      <4> QED BY <4>2, <4>3, <4>4
    <3>3. CASE r \in C
      BY <3>3 DEF ShownBy
    <3>4. r \in A \cup B \cup C
      BY <2>1, Zenon DEF LivePrompts
    <3> HIDE DEF A, B, C, Queued, Sent, Shown
    <3> QED BY <3>1, <3>2, <3>3, <3>4
  <2>2. OnePrompt(s)
    BY DEF TurnsInv
  <2>3. /\ \A r : Queued(r) => Has(events[s])
        /\ \A r : Queued(r) /\ Sent(r) => FALSE
    BY <2>2 DEF OnePrompt, Has
  <2>4. agent[s].pc = "asking"
    BY <2>1, <2>2 DEF OnePrompt, Has
  <2>5. CASE Queued(p)
    <3>1. ~Sent(q) /\ ~Shown(q)
      BY <2>2, <2>5 DEF OnePrompt, Has
    <3>2. Queued(q)
      BY <2>1, <3>1
    <3> QED BY <2>2, <2>4, <2>5, <3>2 DEF OnePrompt, One
  <2>6. CASE Sent(p)
    <3>1. ~Queued(q) /\ ~Shown(q)
      BY <2>2, <2>6 DEF OnePrompt, Has
    <3>2. Sent(q)
      BY <2>1, <3>1
    <3> QED BY <2>2, <2>4, <2>6, <3>2 DEF OnePrompt, One, Has
  <2>7. CASE Shown(p)
    <3>1. ~Queued(q) /\ ~Sent(q)
      BY <2>2, <2>7 DEF OnePrompt, Has
    <3>2. Shown(q)
      BY <2>1, <3>1
    <3> QED BY <2>2, <2>4, <2>7, <3>2 DEF OnePrompt
  <2> QED BY <2>1, <2>5, <2>6, <2>7
<1> QED BY <1>1, TurnsInvHolds, PTL

-----------------------------------------------------------------------------
\* The streams of the requests, as long as nothing disturbs them.

ItemsOf(q) == {q[i] : i \in DOMAIN q}

\* An event comes after those of earlier turns and before its TurnComplete.
Ordered(q) ==
  \A i, j \in DOMAIN q :
    i < j => q[i].cmd <= q[j].cmd /\ (q[i].kind = "complete" => q[i].cmd < q[j].cmd)
Increasing(w) == \A i, j \in DOMAIN w : i < j => w[i] < w[j]

Completes(q, d) == \E e \in ItemsOf(q) : e.kind = "complete" /\ e.cmd = d
UpTo(q, d) ==
  \A e \in ItemsOf(q) : e.cmd <= d /\ (e.kind = "complete" => e.cmd < d)

Running(a) == a.pc \in {"turn", "asking"}
Active(d, s, f) == d \in Cmds /\ f[d].ses = s /\ f[d].pc \in {"waiting", "forwarding"}

\* Session s with events q, agent a and commands w: what it has said and has to
\* do is for commands with a forwarder, in their order; and for each of these
\* it is over, under way or to come, or the agent is gone and has said nothing
\* for a later one.
InTurnOf(s, q, a, w, f) ==
  /\ \A e \in ItemsOf(q) : Active(e.cmd, s, f)
  /\ Running(a) => Active(a.cmd, s, f) /\ UpTo(q, a.cmd)
  /\ \A d \in ItemsOf(w) : /\ Active(d, s, f)
                           /\ \A e \in ItemsOf(q) : e.cmd < d
                           /\ Running(a) => a.cmd < d
  /\ Ordered(q) /\ Increasing(w)
  /\ a.pc = "dead" => w = <<>>
  /\ \A d \in Cmds : Active(d, s, f) =>
       \/ Completes(q, d)
       \/ Running(a) /\ a.cmd = d
       \/ d \in ItemsOf(w)
       \/ a.pc = "dead" /\ \A e \in ItemsOf(q) : e.cmd <= d

InTurn(s) == InTurnOf(s, events[s], agent[s], cmds[s], fwd)

\* One forwarder of a session has the queue, and at most one waits for it.
FwdsInTurn(f) ==
  \A d, e \in Cmds : f[d].ses = f[e].ses =>
    /\ f[d].pc = "waiting" /\ f[e].pc = "waiting" => d = e
    /\ f[d].pc = "forwarding" /\ f[e].pc = "forwarding" => d = e
    /\ f[d].pc = "forwarding" /\ f[e].pc = "waiting" => d < e

Heard == \A d \in Cmds : fwd[d].pc \in {"waiting", "forwarding"} => Listening(d)

\* A connection that drains has the token, and one without a request has no
\* command; what is complete is forwarded.
Held ==
  \A c \in Clients : /\ client[c].pc \in {"idle", "gone"} => client[c].cmd = 0
                     /\ client[c].pc \in {"draining", "replying"} => token = c
OverWhenComplete == \A d \in Cmds : Completes(out[d], d) => fwd[d].pc = "done"
Streams == FwdsInTurn(fwd) /\ OwnStream /\ Heard /\ OverWhenComplete
           /\ \A s \in Sessions : InTurn(s)

StreamsInv == Held /\ (~disturbed => Streams)

(***************************************************************************)
(* Appending to a queue and taking its head.                               *)
(***************************************************************************)
LEMMA ItemAppended ==
  ASSUME NEW S, NEW q \in Seq(S), NEW x \in S
  PROVE  ItemsOf(Append(q, x)) = ItemsOf(q) \cup {x}
<1> DEFINE t == Append(q, x)
<1>1. /\ Len(q) \in Nat /\ DOMAIN q = 1 .. Len(q) /\ DOMAIN t = 1 .. Len(q) + 1
      /\ t[Len(q) + 1] = x /\ \A i \in 1 .. Len(q) : t[i] = q[i]
  OBVIOUS
<1> HIDE DEF t
<1>2. \A i \in DOMAIN t : t[i] \in ItemsOf(q) \cup {x}
  BY <1>1 DEF ItemsOf
<1>3. \A i \in DOMAIN q : i \in DOMAIN t /\ t[i] = q[i]
  BY <1>1
<1>4. Len(q) + 1 \in DOMAIN t
  BY <1>1
<1>5. ItemsOf(t) = ItemsOf(q) \cup {x}
  BY <1>1, <1>2, <1>3, <1>4 DEF ItemsOf
<1> QED BY <1>5 DEF t

(***************************************************************************)
(* A queue is its head and what is left.                                   *)
(***************************************************************************)
LEMMA ItemTaken ==
  ASSUME NEW S, NEW q \in Seq(S), q # <<>>
  PROVE  /\ Tail(q) \in Seq(S) /\ Head(q) \in S
         /\ ItemsOf(q) = {Head(q)} \cup ItemsOf(Tail(q))
<1> DEFINE t == Tail(q)
<1>1. /\ t \in Seq(S) /\ Len(q) \in Nat /\ Len(q) >= 1
      /\ DOMAIN q = 1 .. Len(q) /\ DOMAIN t = 1 .. Len(q) - 1 /\ Head(q) = q[1]
      /\ \A i \in 1 .. Len(q) - 1 : t[i] = q[i + 1]
  OBVIOUS
<1> HIDE DEF t
<1>2. Head(q) \in S
  BY <1>1
<1>3. \A i \in DOMAIN t : t[i] \in ItemsOf(q)
  BY <1>1 DEF ItemsOf
<1>4. \A i \in DOMAIN q : i # 1 => i - 1 \in DOMAIN t /\ t[i - 1] = q[i]
  BY <1>1
<1>5. 1 \in DOMAIN q
  BY <1>1
<1>6. ItemsOf(q) = {Head(q)} \cup ItemsOf(t)
  BY <1>1, <1>3, <1>4, <1>5 DEF ItemsOf
<1> QED BY <1>1, <1>2, <1>6 DEF t

(***************************************************************************)
(* What is in a queue is of the type of its elements.                      *)
(***************************************************************************)
LEMMA ItemsTyped ==
  ASSUME NEW S, NEW q \in Seq(S)
  PROVE  \A x \in ItemsOf(q) : x \in S
BY DEF ItemsOf

(***************************************************************************)
(* Every event is that of a command.                                       *)
(***************************************************************************)
LEMMA EventCmds ==
  /\ \A e \in Event : e.cmd \in Cmds
  /\ \A q \in Seq(Event) : \A e \in ItemsOf(q) : e.cmd \in Cmds
<1>1. \A e \in Event : e.cmd \in Cmds
  BY DEF Event
<1>2. \A q \in Seq(Event) : \A e \in ItemsOf(q) : e \in Event
  BY ItemsTyped
<1> QED BY <1>1, <1>2

(***************************************************************************)
(* An event of a command no earlier than those queued keeps the queue      *)
(* ordered.                                                                *)
(***************************************************************************)
LEMMA OrderedAppend ==
  ASSUME NEW q \in Seq(Event), NEW x \in Event, Ordered(q), UpTo(q, x.cmd)
  PROVE  Ordered(Append(q, x))
<1> DEFINE t == Append(q, x)
<1>1. /\ Len(q) \in Nat /\ DOMAIN q = 1 .. Len(q) /\ DOMAIN t = 1 .. Len(q) + 1
      /\ t[Len(q) + 1] = x /\ \A i \in 1 .. Len(q) : t[i] = q[i]
  OBVIOUS
<1> HIDE DEF t
<1>2. ASSUME NEW i \in DOMAIN t, NEW j \in DOMAIN t, i < j
      PROVE  t[i].cmd <= t[j].cmd /\ (t[i].kind = "complete" => t[i].cmd < t[j].cmd)
  <2>1. i \in DOMAIN q /\ t[i] = q[i]
    BY <1>1, <1>2
  <2>2. CASE j = Len(q) + 1
    BY <1>1, <2>1, <2>2 DEF UpTo, ItemsOf
  <2>3. CASE j # Len(q) + 1
    <3>1. j \in DOMAIN q /\ t[j] = q[j]
      BY <1>1, <2>3
    <3> QED BY <1>2, <2>1, <3>1 DEF Ordered
  <2> QED BY <2>2, <2>3
<1>3. Ordered(t)
  BY <1>2 DEF Ordered
<1> QED BY <1>3 DEF t

(***************************************************************************)
(* Taking the head of an ordered queue leaves it ordered, and only later   *)
(* events.                                                                 *)
(***************************************************************************)
LEMMA OrderedTail ==
  ASSUME NEW q \in Seq(Event), q # <<>>, Ordered(q)
  PROVE  /\ Ordered(Tail(q))
         /\ \A e \in ItemsOf(Tail(q)) :
              /\ Head(q).cmd <= e.cmd
              /\ Head(q).kind = "complete" => Head(q).cmd < e.cmd
<1> DEFINE t == Tail(q)
<1>1. /\ Len(q) \in Nat /\ Len(q) >= 1 /\ DOMAIN q = 1 .. Len(q) /\ DOMAIN t = 1 .. Len(q) - 1
      /\ Head(q) = q[1] /\ \A i \in 1 .. Len(q) - 1 : t[i] = q[i + 1]
  OBVIOUS
<1> HIDE DEF t
<1>2. \A i \in DOMAIN t : i + 1 \in DOMAIN q /\ 1 < i + 1 /\ t[i] = q[i + 1]
  BY <1>1
<1>3. ASSUME NEW i \in DOMAIN t, NEW j \in DOMAIN t, i < j
      PROVE  t[i].cmd <= t[j].cmd /\ (t[i].kind = "complete" => t[i].cmd < t[j].cmd)
  <2>1. i + 1 \in DOMAIN q /\ j + 1 \in DOMAIN q /\ i + 1 < j + 1
    BY <1>1, <1>3
  <2> QED BY <1>2, <2>1 DEF Ordered
<1>4. Ordered(t)
  BY <1>3 DEF Ordered
<1>5. 1 \in DOMAIN q
  BY <1>1
<1>6. \A i \in DOMAIN t : /\ q[1].cmd <= t[i].cmd
                          /\ q[1].kind = "complete" => q[1].cmd < t[i].cmd
  BY <1>2, <1>5 DEF Ordered
<1>7. \A e \in ItemsOf(t) : q[1].cmd <= e.cmd /\ (q[1].kind = "complete" => q[1].cmd < e.cmd)
  BY <1>6 DEF ItemsOf
<1> QED BY <1>1, <1>4, <1>7 DEF t

(***************************************************************************)
(* A later command keeps the command queue increasing.                     *)
(***************************************************************************)
LEMMA IncreasingAppend ==
  ASSUME NEW w \in Seq(Cmds), NEW d \in Cmds, Increasing(w), \A x \in ItemsOf(w) : x < d
  PROVE  Increasing(Append(w, d))
<1> DEFINE t == Append(w, d)
<1>1. /\ Len(w) \in Nat /\ DOMAIN w = 1 .. Len(w) /\ DOMAIN t = 1 .. Len(w) + 1
      /\ t[Len(w) + 1] = d /\ \A i \in 1 .. Len(w) : t[i] = w[i]
  OBVIOUS
<1> HIDE DEF t
<1>2. ASSUME NEW i \in DOMAIN t, NEW j \in DOMAIN t, i < j PROVE t[i] < t[j]
  <2>1. i \in DOMAIN w /\ t[i] = w[i]
    BY <1>1, <1>2
  <2>2. CASE j = Len(w) + 1
    BY <1>1, <2>1, <2>2 DEF ItemsOf
  <2>3. CASE j # Len(w) + 1
    <3>1. j \in DOMAIN w /\ t[j] = w[j]
      BY <1>1, <2>3
    <3> QED BY <1>2, <2>1, <3>1 DEF Increasing
  <2> QED BY <2>2, <2>3
<1>3. Increasing(t)
  BY <1>2 DEF Increasing
<1> QED BY <1>3 DEF t

(***************************************************************************)
(* Taking the first command leaves later ones.                             *)
(***************************************************************************)
LEMMA IncreasingTail ==
  ASSUME NEW w \in Seq(Cmds), w # <<>>, Increasing(w)
  PROVE  Increasing(Tail(w)) /\ \A d \in ItemsOf(Tail(w)) : Head(w) < d
<1> DEFINE t == Tail(w)
<1>1. /\ Len(w) \in Nat /\ Len(w) >= 1 /\ DOMAIN w = 1 .. Len(w) /\ DOMAIN t = 1 .. Len(w) - 1
      /\ Head(w) = w[1] /\ \A i \in 1 .. Len(w) - 1 : t[i] = w[i + 1]
  OBVIOUS
<1> HIDE DEF t
<1>2. \A i \in DOMAIN t : i + 1 \in DOMAIN w /\ 1 < i + 1 /\ t[i] = w[i + 1]
  BY <1>1
<1>3. ASSUME NEW i \in DOMAIN t, NEW j \in DOMAIN t, i < j PROVE t[i] < t[j]
  <2>1. i + 1 \in DOMAIN w /\ j + 1 \in DOMAIN w /\ i + 1 < j + 1
    BY <1>1, <1>3
  <2> QED BY <1>2, <2>1 DEF Increasing
<1>4. Increasing(t)
  BY <1>3 DEF Increasing
<1>5. 1 \in DOMAIN w
  BY <1>1
<1>6. \A i \in DOMAIN t : w[1] < t[i]
  BY <1>2, <1>5 DEF Increasing
<1>7. \A d \in ItemsOf(t) : w[1] < d
  BY <1>6 DEF ItemsOf
<1> QED BY <1>1, <1>4, <1>7 DEF t

(***************************************************************************)
(* What one step makes of a session in turn.                               *)
(***************************************************************************)
LEMMA CmdsAreNumbers == \A d, e, g \in Cmds : /\ d < e => d <= e
                                              /\ d <= d /\ ~(d < d)
                                              /\ d < e /\ e < g => d < g
                                              /\ d < e /\ e <= g => d < g
                                              /\ d <= e /\ e < g => d < g
                                              /\ d <= e /\ e <= g => d <= g
                                              /\ ~(d < e) => e <= d
                                              /\ d <= e /\ d # e => d < e
BY DEF Cmds

(***************************************************************************)
(* An idle agent that takes its next command has that one under way        *)
(* (agent.rs, run).                                                        *)
(***************************************************************************)
LEMMA BeginInTurn ==
  ASSUME NEW s, NEW q \in Seq(Event), NEW a, NEW w \in Seq(Cmds), NEW f, NEW b,
         InTurnOf(s, q, a, w, f), a.pc = "idle", w # <<>>,
         b.pc = "turn", b.cmd = Head(w)
  PROVE  InTurnOf(s, q, b, Tail(w), f)
<1>1. /\ Head(w) \in Cmds /\ ItemsOf(w) = {Head(w)} \cup ItemsOf(Tail(w))
  BY ItemTaken
<1>2. Increasing(Tail(w)) /\ \A d \in ItemsOf(Tail(w)) : Head(w) < d
  BY IncreasingTail DEF InTurnOf
<1>3. UpTo(q, Head(w))
  <2>1. \A e \in ItemsOf(q) : e.cmd \in Cmds /\ e.cmd < Head(w)
    BY <1>1, EventCmds DEF InTurnOf
  <2> QED BY <1>1, <2>1, CmdsAreNumbers DEF UpTo
<1> QED BY <1>1, <1>2, <1>3 DEF InTurnOf, Running

(***************************************************************************)
(* A text or a prompt is an event of the command under way.                *)
(***************************************************************************)
LEMMA SayInTurn ==
  ASSUME NEW s, NEW q \in Seq(Event), NEW a, NEW w, NEW f, NEW b, NEW e \in Event,
         InTurnOf(s, q, a, w, f), Running(a), e.cmd = a.cmd, e.kind # "complete",
         Running(b), b.cmd = a.cmd
  PROVE  InTurnOf(s, Append(q, e), b, w, f)
<1>1. ItemsOf(Append(q, e)) = ItemsOf(q) \cup {e} /\ e.cmd \in Cmds
  BY ItemAppended, EventCmds
<1>2. UpTo(q, e.cmd) /\ Ordered(q)
  BY DEF InTurnOf
<1>3. Ordered(Append(q, e))
  BY <1>2, OrderedAppend
<1>4. UpTo(Append(q, e), e.cmd)
  BY <1>1, <1>2, CmdsAreNumbers DEF UpTo
<1>5. b.pc # "dead"
  BY DEF Running
<1>6. \A d : Completes(q, d) => Completes(Append(q, e), d)
  BY <1>1 DEF Completes
<1>7. a.pc # "dead"
  BY DEF Running
<1> QED BY <1>1, <1>3, <1>4, <1>5, <1>6, <1>7 DEF InTurnOf

(***************************************************************************)
(* TurnComplete is the last event of the command under way.                *)
(***************************************************************************)
LEMMA CompleteInTurn ==
  ASSUME NEW s, NEW q \in Seq(Event), NEW a, NEW w, NEW f, NEW b, NEW e \in Event,
         InTurnOf(s, q, a, w, f), Running(a), e.cmd = a.cmd, e.kind = "complete",
         b.pc = "idle"
  PROVE  InTurnOf(s, Append(q, e), b, w, f)
<1>1. ItemsOf(Append(q, e)) = ItemsOf(q) \cup {e} /\ e.cmd \in Cmds
  BY ItemAppended, EventCmds
<1>2. UpTo(q, e.cmd) /\ Ordered(q)
  BY DEF InTurnOf
<1>3. Ordered(Append(q, e))
  BY <1>2, OrderedAppend
<1>4. ~Running(b) /\ b.pc # "dead" /\ a.pc # "dead"
  BY DEF Running
<1>5. /\ \A d : Completes(q, d) => Completes(Append(q, e), d)
      /\ Completes(Append(q, e), a.cmd)
  BY <1>1 DEF Completes
<1> QED BY <1>1, <1>3, <1>4, <1>5 DEF InTurnOf

(***************************************************************************)
(* An agent that asks, or is answered, stays on its command.               *)
(***************************************************************************)
LEMMA StillInTurn ==
  ASSUME NEW s, NEW q, NEW a, NEW w, NEW f, NEW b,
         InTurnOf(s, q, a, w, f), Running(a), Running(b), b.cmd = a.cmd
  PROVE  InTurnOf(s, q, b, w, f)
<1>1. a.pc # "dead" /\ b.pc # "dead"
  BY DEF Running
<1> QED BY <1>1 DEF InTurnOf

(***************************************************************************)
(* A dead agent leaves events of no command later than the one it was on,  *)
(* and commands nobody will take.                                          *)
(***************************************************************************)
LEMMA DieInTurn ==
  ASSUME NEW s, NEW q \in Seq(Event), NEW a, NEW w \in Seq(Cmds), NEW f, NEW b,
         InTurnOf(s, q, a, w, f), Running(a), a.cmd \in Cmds, b.pc = "dead"
  PROVE  InTurnOf(s, q, b, <<>>, f)
<1>1. ItemsOf(<<>>) = {} /\ Increasing(<<>>) /\ ~Running(b) /\ a.pc # "dead"
  BY DEF ItemsOf, Increasing, Running
<1>2. \A e \in ItemsOf(q) : e.cmd \in Cmds
  BY EventCmds
<1>3. \A d \in Cmds : Active(d, s, f) => Completes(q, d) \/ \A e \in ItemsOf(q) : e.cmd <= d
  <2> SUFFICES ASSUME NEW d \in Cmds, Active(d, s, f), ~Completes(q, d),
                      NEW e \in ItemsOf(q)
               PROVE  e.cmd <= d
    OBVIOUS
  <2>1. CASE a.cmd = d
    BY <2>1 DEF InTurnOf, UpTo
  <2>2. CASE d \in ItemsOf(w)
    BY <1>2, <2>2, CmdsAreNumbers DEF InTurnOf
  <2> QED BY <1>1, <2>1, <2>2 DEF InTurnOf
<1> QED BY <1>1, <1>3 DEF InTurnOf

(***************************************************************************)
(* A request adds a command after all those of its session that have a     *)
(* forwarder (session_manager.rs, dispatch).                               *)
(***************************************************************************)
LEMMA RequestInTurn ==
  ASSUME NEW s, NEW q \in Seq(Event), NEW a, NEW w \in Seq(Cmds), NEW f, NEW g,
         NEW d \in Cmds, InTurnOf(s, q, a, w, f), a.pc # "dead",
         \A e \in Cmds : Active(e, s, f) => e < d,
         \A e \in Cmds : Active(e, s, g) <=> Active(e, s, f) \/ e = d
  PROVE  InTurnOf(s, q, a, Append(w, d), g)
<1>1. ItemsOf(Append(w, d)) = ItemsOf(w) \cup {d}
  BY ItemAppended
<1>2. \A e \in ItemsOf(w) : e < d
  BY ItemsTyped DEF InTurnOf
<1>3. Increasing(Append(w, d))
  BY <1>2, IncreasingAppend DEF InTurnOf
<1>4. \A e \in ItemsOf(q) : e.cmd < d
  BY DEF InTurnOf, Active
<1>5. Running(a) => a.cmd < d
  BY DEF InTurnOf, Active
<1>6. \A e : Active(e, s, f) => Active(e, s, g)
  BY DEF Active
<1> QED BY <1>1, <1>3, <1>4, <1>5, <1>6 DEF InTurnOf

(***************************************************************************)
(* The head of the queue is an event of the command whose forwarder reads  *)
(* it, and behind a TurnComplete there is none left of that command.       *)
(***************************************************************************)
LEMMA ForwardInTurn ==
  ASSUME NEW s, NEW q \in Seq(Event), NEW a, NEW w \in Seq(Cmds), NEW f, NEW d,
         InTurnOf(s, q, a, w, f), q # <<>>, FwdsInTurn(f),
         Active(d, s, f), f[d].pc = "forwarding",
         Running(a) => a.cmd \in Cmds
  PROVE  /\ Head(q).cmd = d
         /\ Head(q).kind # "complete" => InTurnOf(s, Tail(q), a, w, f)
         /\ \A g : /\ Head(q).kind = "complete"
                   /\ \A e \in Cmds : Active(e, s, g) <=> Active(e, s, f) /\ e # d
                   => InTurnOf(s, Tail(q), a, w, g)
<1> DEFINE h == Head(q)
           t == Tail(q)
<1>1. t \in Seq(Event) /\ h \in Event /\ ItemsOf(q) = {h} \cup ItemsOf(t)
  BY ItemTaken
<1>2. /\ Ordered(t)
      /\ \A e \in ItemsOf(t) : h.cmd <= e.cmd /\ (h.kind = "complete" => h.cmd < e.cmd)
  BY OrderedTail DEF InTurnOf
<1>3. h.cmd \in Cmds /\ d \in Cmds /\ \A e \in ItemsOf(q) : e.cmd \in Cmds
  BY <1>1, EventCmds DEF Active
<1> HIDE DEF h, t
<1>4. Active(h.cmd, s, f)
  BY <1>1 DEF InTurnOf
<1>5. h.cmd = d
  <2> SUFFICES ASSUME h.cmd # d PROVE FALSE
    OBVIOUS
  <2>1. d < h.cmd
    BY <1>3, <1>4 DEF FwdsInTurn, Active
  <2>2. ~Completes(q, d)
    BY <1>1, <1>2, <1>3, <2>1, CmdsAreNumbers DEF Completes
  <2>3. ~(Running(a) /\ a.cmd = d)
    BY <1>1, <1>3, <2>1, CmdsAreNumbers DEF InTurnOf, UpTo
  <2>4. d \notin ItemsOf(w)
    BY <1>1, <1>3, <2>1, CmdsAreNumbers DEF InTurnOf
  <2>5. ~(\A e \in ItemsOf(q) : e.cmd <= d)
    BY <1>1, <1>3, <2>1, CmdsAreNumbers
  <2> QED BY <1>3, <2>2, <2>3, <2>4, <2>5 DEF InTurnOf
<1>6. \A x : UpTo(q, x) => UpTo(t, x)
  BY <1>1 DEF UpTo
<1>7. ASSUME h.kind # "complete" PROVE InTurnOf(s, t, a, w, f)
  <2>1. \A x : Completes(q, x) => Completes(t, x)
    BY <1>1, <1>7 DEF Completes
  <2> QED BY <1>1, <1>2, <1>6, <2>1 DEF InTurnOf
<1>8. ASSUME NEW g, h.kind = "complete",
             \A e \in Cmds : Active(e, s, g) <=> Active(e, s, f) /\ e # d
      PROVE  InTurnOf(s, t, a, w, g)
  <2>1. \A x : Completes(q, x) /\ x # d => Completes(t, x)
    BY <1>1, <1>5 DEF Completes
  <2>2. \A e \in ItemsOf(t) : Active(e.cmd, s, g)
    BY <1>1, <1>2, <1>3, <1>5, <1>8, CmdsAreNumbers DEF InTurnOf
  <2>3. Running(a) => Active(a.cmd, s, g)
    BY <1>1, <1>3, <1>5, <1>8, CmdsAreNumbers DEF InTurnOf, UpTo
  <2>4. \A x \in ItemsOf(w) : Active(x, s, g)
    BY <1>1, <1>3, <1>5, <1>8, CmdsAreNumbers, ItemsTyped DEF InTurnOf
  <2>5. \A e \in Cmds : Active(e, s, g) => Active(e, s, f) /\ e # d
    BY <1>8
  <2> QED BY <1>1, <1>2, <1>6, <2>1, <2>2, <2>3, <2>4, <2>5 DEF InTurnOf
<1> QED BY <1>5, <1>7, <1>8 DEF h, t

(***************************************************************************)
(* Of a dead agent with nothing left to say, nothing is expected.          *)
(***************************************************************************)
LEMMA GiveUpInTurn ==
  ASSUME NEW s, NEW a, NEW w, NEW f, NEW g, InTurnOf(s, <<>>, a, w, f), a.pc = "dead"
  PROVE  InTurnOf(s, <<>>, a, w, g)
<1>1. ItemsOf(<<>>) = {} /\ ~Running(a)
  BY DEF ItemsOf, Running
<1>2. w = <<>>
  BY DEF InTurnOf
<1> QED BY <1>1, <1>2 DEF InTurnOf

(***************************************************************************)
(* Whether a session is in turn depends on the forwarders only through the *)
(* commands that have an active one.                                       *)
(***************************************************************************)
LEMMA SameForwarders ==
  ASSUME NEW s, NEW q, NEW a, NEW w, NEW f, NEW g, InTurnOf(s, q, a, w, f),
         \A d \in Cmds : Active(d, s, g) <=> Active(d, s, f)
  PROVE  InTurnOf(s, q, a, w, g)
<1>1. \A d : Active(d, s, g) <=> Active(d, s, f)
  BY DEF Active
<1> QED BY <1>1 DEF InTurnOf

(***************************************************************************)
(* A session no step is about stays in turn.                               *)
(***************************************************************************)
LEMMA OthersInTurn ==
  ASSUME NEW s \in Sessions, \A x \in Sessions : InTurn(x),
         \A x \in Sessions \ {s} : /\ events'[x] = events[x] /\ agent'[x] = agent[x]
                                   /\ cmds'[x] = cmds[x]
                                   /\ \A d \in Cmds : Active(d, x, fwd') <=> Active(d, x, fwd),
         InTurnOf(s, events'[s], agent'[s], cmds'[s], fwd')
  PROVE  \A x \in Sessions : InTurn(x)'
<1> SUFFICES ASSUME NEW x \in Sessions PROVE InTurnOf(x, events'[x], agent'[x], cmds'[x], fwd')
  BY DEF InTurn, InTurnOf, Active, Running, Ordered, Increasing, Completes, UpTo, ItemsOf
<1>1. CASE x = s
  BY <1>1
<1>2. CASE x # s
  <2>1. PICK q, a, w, f, g : /\ q = events[x] /\ a = agent[x] /\ w = cmds[x] /\ f = fwd /\ g = fwd'
    OBVIOUS
  <2>2. InTurnOf(x, q, a, w, f)
    BY <2>1 DEF InTurn
  <2>3. \A d \in Cmds : Active(d, x, g) <=> Active(d, x, f)
    BY <1>2, <2>1
  <2>4. InTurnOf(x, q, a, w, g)
    BY <2>2, <2>3, SameForwarders
  <2> QED BY <1>2, <2>1, <2>4
<1> QED BY <1>1, <1>2

(***************************************************************************)
(* The agent threads (agent.rs, run): what they say is for the command     *)
(* they are on.                                                            *)
(***************************************************************************)
LEMMA EmitShapes ==
  ASSUME TypeOK, Issued, NEW s \in Sessions, Running(agent[s]),
         NEW kind \in {"text", "prompt", "complete"}, Emit(s, kind)
  PROVE  \E e \in Event : /\ e.cmd = agent[s].cmd /\ e.kind = kind
                          /\ events'[s] = Append(events[s], e)
                          /\ \A x \in Sessions \ {s} : events'[x] = events[x]
<1>1. PICK e : e = [kind |-> kind, cmd |-> agent[s].cmd]
  OBVIOUS
<1>2. e \in Event /\ e.cmd = agent[s].cmd /\ e.kind = kind
  BY <1>1 DEF Issued, Running, Event
<1>3. events' = [events EXCEPT ![s] = Append(events[s], e)]
  BY <1>1 DEF Emit
<1>4. events \in [Sessions -> Seq(Event)]
  BY DEF TypeOK
<1>5. events'[s] = Append(events[s], e) /\ \A x \in Sessions \ {s} : events'[x] = events[x]
  BY <1>3, <1>4
<1> QED BY <1>2, <1>5

(***************************************************************************)
(* A step of an agent thread that disturbs nothing leaves its session in   *)
(* turn.                                                                   *)
(***************************************************************************)
LEMMA AgentInTurn ==
  ASSUME TypeOK, Issued, NEW s \in Sessions, InTurn(s), AgentNext(s), ~disturbed'
  PROVE  /\ InTurnOf(s, events'[s], agent'[s], cmds'[s], fwd)
         /\ \A x \in Sessions \ {s} : /\ events'[x] = events[x] /\ agent'[x] = agent[x]
                                      /\ cmds'[x] = cmds[x]
<1>1. PICK q, a, w, f : /\ q = events[s] /\ a = agent[s] /\ w = cmds[s] /\ f = fwd
  OBVIOUS
<1>2. /\ InTurnOf(s, q, a, w, f) /\ q \in Seq(Event) /\ w \in Seq(Cmds)
      /\ Running(a) => a.cmd \in Cmds
  BY <1>1 DEF InTurn, TypeOK, Issued, Running
<1>3. /\ agent \in [Sessions -> AgentState] /\ events \in [Sessions -> Seq(Event)]
      /\ cmds \in [Sessions -> Seq(Cmds)]
  BY DEF TypeOK, AgentState
<1>4. CASE Begin(s)
  <2>1. PICK b : b = [pc |-> "turn", cmd |-> Head(cmds[s]), left |-> MaxEvents, drives |-> MaxAuto]
    OBVIOUS
  <2>2. PICK t : t = Tail(cmds[s])
    OBVIOUS
  <2>3. /\ a.pc = "idle" /\ w # <<>> /\ agent' = [agent EXCEPT ![s] = b]
        /\ cmds' = [cmds EXCEPT ![s] = t] /\ events' = events
    BY <1>1, <1>4, <2>1, <2>2 DEF Begin
  <2>4. b.pc = "turn" /\ b.cmd = Head(w) /\ t = Tail(w)
    BY <1>1, <2>1, <2>2
  <2>5. InTurnOf(s, q, b, Tail(w), f)
    BY <1>2, <2>3, <2>4, BeginInTurn
  <2>6. /\ agent'[s] = b /\ cmds'[s] = t /\ events'[s] = q
        /\ \A x \in Sessions \ {s} : /\ events'[x] = events[x] /\ agent'[x] = agent[x]
                                     /\ cmds'[x] = cmds[x]
    BY <1>1, <1>3, <2>3
  <2> QED BY <1>1, <2>4, <2>5, <2>6
<1>5. ASSUME NEW kind \in {"text", "prompt"}, Running(a), Emit(s, kind), cmds' = cmds,
             NEW b \in AgentState, agent' = [agent EXCEPT ![s] = b], Running(b), b.cmd = a.cmd
      PROVE  /\ InTurnOf(s, events'[s], agent'[s], cmds'[s], fwd)
             /\ \A x \in Sessions \ {s} : /\ events'[x] = events[x] /\ agent'[x] = agent[x]
                                          /\ cmds'[x] = cmds[x]
  <2>1. PICK e \in Event : /\ e.cmd = a.cmd /\ e.kind = kind /\ events'[s] = Append(q, e)
                           /\ \A x \in Sessions \ {s} : events'[x] = events[x]
    BY <1>1, <1>5, EmitShapes
  <2>2. InTurnOf(s, Append(q, e), b, w, f)
    BY <1>2, <1>5, <2>1, SayInTurn
  <2>3. agent'[s] = b /\ \A x \in Sessions \ {s} : agent'[x] = agent[x]
    BY <1>3, <1>5
  <2> QED BY <1>1, <1>5, <2>1, <2>2, <2>3
<1>6. CASE Say(s)
  <2>1. PICK b : b = [a EXCEPT !.left = a.left - 1]
    OBVIOUS
  <2>2. /\ a.pc = "turn" /\ a.left > 0 /\ Emit(s, "text") /\ cmds' = cmds
        /\ agent' = [agent EXCEPT ![s] = b]
    BY <1>1, <1>6, <2>1 DEF Say
  <2>3. a \in AgentState
    BY <1>1, <1>3
  <2>4. b \in AgentState
    BY <2>1, <2>2, <2>3, AgentStates
  <2>5. Running(a) /\ Running(b) /\ b.cmd = a.cmd
    BY <2>1, <2>2, <2>3 DEF AgentState, Running
  <2> QED BY <1>5, <2>2, <2>4, <2>5
<1>7. CASE Ask(s)
  <2>1. PICK b : b = [a EXCEPT !.left = a.left - 1, !.pc = "asking"]
    OBVIOUS
  <2>2. /\ a.pc = "turn" /\ a.left > 0 /\ Emit(s, "prompt") /\ cmds' = cmds
        /\ agent' = [agent EXCEPT ![s] = b]
    BY <1>1, <1>7, <2>1 DEF Ask
  <2>3. a \in AgentState
    BY <1>1, <1>3
  <2>4. b \in AgentState
    BY <2>1, <2>2, <2>3, AgentStates
  <2>5. Running(a) /\ Running(b) /\ b.cmd = a.cmd
    BY <2>1, <2>2, <2>3 DEF AgentState, Running
  <2> QED BY <1>5, <2>2, <2>4, <2>5
<1>8. CASE PromptDropped(s)
  <2>1. PICK b : b = [a EXCEPT !.pc = "turn"]
    OBVIOUS
  <2>2. /\ a.pc = "asking" /\ cmds' = cmds /\ events' = events
        /\ agent' = [agent EXCEPT ![s] = b]
    BY <1>1, <1>8, <2>1 DEF PromptDropped
  <2>3. a \in AgentState
    BY <1>1, <1>3
  <2>4. Running(a) /\ Running(b) /\ b.cmd = a.cmd
    BY <2>1, <2>2, <2>3 DEF AgentState, Running
  <2>5. InTurnOf(s, q, b, w, f)
    BY <1>2, <2>4, StillInTurn
  <2>6. agent'[s] = b /\ \A x \in Sessions \ {s} : agent'[x] = agent[x]
    BY <1>3, <2>2
  <2> QED BY <1>1, <2>2, <2>5, <2>6
<1>9. CASE Complete(s)
  <2>1. /\ a.pc = "turn" /\ Emit(s, "complete") /\ cmds' = cmds
        /\ agent' = [agent EXCEPT ![s] = NoAgent]
    BY <1>1, <1>9 DEF Complete, DisturbIf
  <2>2. PICK e \in Event : /\ e.cmd = a.cmd /\ e.kind = "complete" /\ events'[s] = Append(q, e)
                           /\ \A x \in Sessions \ {s} : events'[x] = events[x]
    BY <1>1, <2>1, EmitShapes DEF Running
  <2>3. PICK b : b = NoAgent
    OBVIOUS
  <2>4. Running(a) /\ b.pc = "idle"
    BY <2>1, <2>3 DEF NoAgent, Running
  <2>5. InTurnOf(s, Append(q, e), b, w, f)
    BY <1>2, <2>2, <2>4, CompleteInTurn
  <2>6. agent'[s] = b /\ \A x \in Sessions \ {s} : agent'[x] = agent[x]
    BY <1>3, <2>1, <2>3
  <2> QED BY <1>1, <2>1, <2>2, <2>5, <2>6
<1>10. CASE Die(s)
  <2>1. PICK b, t : b = [NoAgent EXCEPT !.pc = "dead"] /\ t = <<>>
    OBVIOUS
  <2>2. /\ a.pc = "turn" /\ cmds' = [cmds EXCEPT ![s] = t] /\ events' = events
        /\ agent' = [agent EXCEPT ![s] = b]
    BY <1>1, <1>10, <2>1 DEF Die
  <2>3. Running(a) /\ b.pc = "dead"
    BY <2>1, <2>2 DEF NoAgent, Running
  <2>4. InTurnOf(s, q, b, <<>>, f)
    BY <1>2, <2>3, DieInTurn
  <2>5. /\ agent'[s] = b /\ cmds'[s] = t
        /\ \A x \in Sessions \ {s} : agent'[x] = agent[x] /\ cmds'[x] = cmds[x]
    BY <1>3, <2>2
  <2> QED BY <1>1, <2>1, <2>2, <2>4, <2>5
<1> QED BY <1>4, <1>6, <1>7, <1>8, <1>9, <1>10 DEF AgentNext

(***************************************************************************)
(* The agent threads keep the streams in turn.                             *)
(***************************************************************************)
LEMMA AgentStreams ==
  ASSUME TypeOK, Issued, StreamsInv, NEW s \in Sessions, AgentNext(s)
  PROVE  StreamsInv'
<1>1. UNCHANGED <<created, sent, fwd, out, client, token, poisoned>>
  BY DEF AgentNext, AgentStep, Begin, Say, Ask, PromptDropped, Complete, Die
<1>2. Held'
  BY <1>1 DEF StreamsInv, Held
<1>3. ASSUME ~disturbed' PROVE Streams'
  <2>1. ~disturbed
    BY <1>3 DEF AgentNext, Begin, Say, Ask, PromptDropped, Complete, Die, DisturbIf
  <2>2. Streams
    BY <2>1 DEF StreamsInv
  <2>3. FwdsInTurn(fwd') /\ OwnStream' /\ Heard' /\ OverWhenComplete'
    BY <1>1, <2>2 DEF Streams, FwdsInTurn, OwnStream, Heard, Listening, OverWhenComplete,
                      Completes, ItemsOf
  <2>4. \A x \in Sessions : InTurn(x)
    BY <2>2 DEF Streams
  <2>5. /\ InTurnOf(s, events'[s], agent'[s], cmds'[s], fwd)
        /\ \A x \in Sessions \ {s} : /\ events'[x] = events[x] /\ agent'[x] = agent[x]
                                     /\ cmds'[x] = cmds[x]
    BY <1>3, <2>4, AgentInTurn
  <2>6. \A x \in Sessions : InTurn(x)'
    BY <1>1, <2>4, <2>5, OthersInTurn
  <2> QED BY <2>3, <2>6 DEF Streams, FwdsInTurn
<1> QED BY <1>2, <1>3 DEF StreamsInv

-----------------------------------------------------------------------------
(***************************************************************************)
(* Sessions whose queues, agents and forwarders stay are in turn as before.*)
(***************************************************************************)
LEMMA UntouchedInTurn ==
  ASSUME UNCHANGED <<events, agent, cmds, fwd>>, \A s \in Sessions : InTurn(s)
  PROVE  \A s \in Sessions : InTurn(s)'
<1> SUFFICES ASSUME NEW s \in Sessions PROVE InTurnOf(s, events'[s], agent'[s], cmds'[s], fwd')
  BY DEF InTurn, InTurnOf, Active, Running, Ordered, Increasing, Completes, UpTo, ItemsOf
<1>1. InTurnOf(s, events[s], agent[s], cmds[s], fwd)
  BY DEF InTurn
<1> QED BY <1>1

(***************************************************************************)
(* A step about neither streams nor clients keeps both as they are.        *)
(***************************************************************************)
LEMMA SameStreams ==
  ASSUME StreamsInv, UNCHANGED <<cmds, agent, events, fwd, out, client, disturbed>>,
         \A c \in Clients : token = c => token' = c
  PROVE  StreamsInv'
<1>1. Held'
  BY DEF StreamsInv, Held
<1>2. ASSUME ~disturbed' PROVE Streams'
  <2>1. Streams
    BY <1>2 DEF StreamsInv
  <2>2. \A s \in Sessions : InTurn(s)'
    BY <2>1, UntouchedInTurn DEF Streams
  <2> QED BY <2>1, <2>2 DEF Streams, FwdsInTurn, OwnStream, Heard, Listening,
                            OverWhenComplete, Completes, ItemsOf
<1> QED BY <1>1, <1>2 DEF StreamsInv

(***************************************************************************)
(* A connection without a request that sends one, or is closed, is in      *)
(* nobody's way.                                                           *)
(***************************************************************************)
LEMMA IdleClient ==
  ASSUME TypeOK, Held, NEW c \in Clients, client[c].pc \in {"idle", "gone"}, NEW k,
         client' = [client EXCEPT ![c] = k], k.pc \in {"idle", "gone", "token"},
         k.pc # "token" => k.cmd = 0, token' = token
  PROVE  Held' /\ client'[c] = k /\ \A d \in Cmds : Listening(d) => Listening(d)'
<1>1. /\ client'[c] = k /\ \A x \in Clients \ {c} : client'[x] = client[x]
      /\ client[c].cmd = 0
  BY DEF TypeOK, Held
<1>2. 0 \notin Cmds
  BY DEF Cmds
<1>3. Held'
  BY <1>1 DEF Held
<1>4. \A d \in Cmds : Listening(d) => Listening(d)'
  BY <1>1, <1>2 DEF Listening
<1> QED BY <1>1, <1>3, <1>4

(***************************************************************************)
(* A request (dispatch) is in turn after all commands of its session.      *)
(***************************************************************************)
LEMMA RequestStreams ==
  ASSUME TypeOK, Issued, StreamsInv, NEW c \in Clients, NEW fresh \in BOOLEAN,
         Request(c, fresh)
  PROVE  StreamsInv'
<1>1. PICK s, d : s = Target(fresh) /\ d = sent + 1
  OBVIOUS
<1>2. /\ s \in Sessions /\ d \in Cmds /\ client[c].pc = "idle"
      /\ UNCHANGED <<agent, events, out, token, poisoned>>
  BY <1>1 DEF Request
<1>3. Held
  BY DEF StreamsInv
<1>4. CASE agent[s].pc = "dead"
  <2>1. client' = [client EXCEPT ![c] = Gone] /\ UNCHANGED <<sent, cmds, fwd, disturbed>>
    BY <1>1, <1>4 DEF Request
  <2>2. Held' /\ \A e \in Cmds : Listening(e) => Listening(e)'
    BY <1>2, <1>3, <2>1, IdleClient DEF Gone
  <2>3. ASSUME ~disturbed' PROVE Streams'
    <3>1. Streams
      BY <2>1, <2>3 DEF StreamsInv
    <3>2. \A x \in Sessions : InTurn(x)'
      BY <1>2, <2>1, <3>1, UntouchedInTurn DEF Streams
    <3> QED BY <1>2, <2>1, <2>2, <3>1, <3>2
            DEF Streams, FwdsInTurn, OwnStream, Heard, OverWhenComplete, Completes, ItemsOf
  <2> QED BY <2>2, <2>3 DEF StreamsInv
<1>5. CASE agent[s].pc # "dead"
  <2>1. PICK w, k, g : /\ w = Append(cmds[s], d) /\ k = [pc |-> "token", cmd |-> d]
                       /\ g = [pc |-> "waiting", ses |-> s]
    OBVIOUS
  <2>2. /\ sent' = d /\ cmds' = [cmds EXCEPT ![s] = w]
        /\ fwd' = [fwd EXCEPT ![d] = g] /\ client' = [client EXCEPT ![c] = k]
        /\ disturbed' = (disturbed \/ g \in {fwd[e] : e \in Cmds})
    BY <1>1, <1>5, <2>1 DEF Request, DisturbIf
  <2>3. k.pc = "token" /\ k.cmd = d /\ g.pc = "waiting" /\ g.ses = s
    BY <2>1
  <2>4. Held' /\ client'[c] = k /\ \A e \in Cmds : Listening(e) => Listening(e)'
    BY <1>2, <1>3, <2>2, <2>3, IdleClient
  <2>5. /\ cmds'[s] = w /\ \A x \in Sessions \ {s} : cmds'[x] = cmds[x]
        /\ fwd'[d] = g /\ \A e \in Cmds \ {d} : fwd'[e] = fwd[e]
        /\ fwd \in [Cmds -> FwdState] /\ fwd' \in [Cmds -> FwdState]
    BY <1>2, <2>1, <2>2 DEF TypeOK, FwdState
  <2>6. fwd[d].pc = "none" /\ out[d] = <<>> /\ \A e \in Cmds : fwd[e].pc # "none" => e < d
    <3>1. \A e \in Cmds : e > sent \/ e < d
      BY <1>1 DEF Cmds, TypeOK
    <3>2. d > sent
      BY <1>1 DEF TypeOK
    <3> QED BY <1>2, <3>1, <3>2 DEF Issued
  <2>7. ASSUME ~disturbed' PROVE Streams'
    <3>1. Streams /\ g \notin {fwd[e] : e \in Cmds}
      BY <2>2, <2>7 DEF StreamsInv
    <3>2. \A e \in Cmds : fwd[e].ses = s => fwd[e].pc # "waiting"
      <4>1. \A f \in FwdState : f.pc = "waiting" /\ f.ses = s => f = g
        BY <2>1 DEF FwdState
      <4> QED BY <2>5, <3>1, <4>1
    <3>3. FwdsInTurn(fwd')
      <4>1. FwdsInTurn(fwd)
        BY <3>1 DEF Streams
      <4> QED BY <1>2, <2>3, <2>5, <2>6, <3>2, <4>1 DEF FwdsInTurn
    <3>4. OwnStream'
      BY <1>2, <3>1 DEF Streams, OwnStream
    <3>5. Heard'
      BY <2>3, <2>4, <2>5, <3>1 DEF Streams, Heard, Listening
    <3>6. OverWhenComplete'
      <4>1. ~Completes(out[d], d)
        BY <2>6 DEF Completes, ItemsOf
      <4> QED BY <1>2, <2>5, <3>1, <4>1 DEF Streams, OverWhenComplete, Completes, ItemsOf
    <3>7. \A x \in Sessions : InTurn(x)'
      <4>1. PICK q, a, v, f, h : /\ q = events[s] /\ a = agent[s] /\ v = cmds[s]
                                 /\ f = fwd /\ h = fwd'
        OBVIOUS
      <4>2. /\ InTurnOf(s, q, a, v, f) /\ q \in Seq(Event) /\ v \in Seq(Cmds)
            /\ a.pc # "dead"
        BY <1>2, <1>5, <3>1, <4>1 DEF Streams, InTurn, TypeOK
      <4>3. \A e \in Cmds : Active(e, s, f) => e < d
        BY <2>6, <4>1 DEF Active
      <4>4. \A e \in Cmds : Active(e, s, h) <=> Active(e, s, f) \/ e = d
        BY <1>2, <2>3, <2>5, <2>6, <4>1 DEF Active
      <4>5. InTurnOf(s, q, a, Append(v, d), h)
        BY <1>2, <4>2, <4>3, <4>4, RequestInTurn
      <4>6. \A x \in Sessions \ {s}, e \in Cmds : Active(e, x, fwd') <=> Active(e, x, fwd)
        BY <2>3, <2>5, <2>6 DEF Active
      <4>7. \A x \in Sessions : InTurn(x)
        BY <3>1 DEF Streams
      <4> QED BY <1>2, <2>1, <2>5, <4>1, <4>5, <4>6, <4>7, OthersInTurn
    <3> QED BY <3>3, <3>4, <3>5, <3>6, <3>7 DEF Streams, FwdsInTurn
  <2> QED BY <2>4, <2>7 DEF StreamsInv
<1> QED BY <1>4, <1>5

-----------------------------------------------------------------------------
(***************************************************************************)
(* A forwarder that ends is out of the way of the others of its session.   *)
(***************************************************************************)
LEMMA ForwarderDone ==
  ASSUME TypeOK, NEW d \in Cmds, FwdGoto(d, "done")
  PROVE  /\ FwdsInTurn(fwd) => FwdsInTurn(fwd')
         /\ fwd'[d].pc = "done" /\ \A e \in Cmds \ {d} : fwd'[e] = fwd[e]
         /\ \A x \in Cmds : \A s : Active(x, s, fwd') <=> Active(x, s, fwd) /\ x # d
<1>1. /\ fwd'[d].pc = "done" /\ fwd'[d].ses = fwd[d].ses
      /\ \A e \in Cmds \ {d} : fwd'[e] = fwd[e]
  BY DEF FwdGoto, TypeOK
<1>2. FwdsInTurn(fwd) => FwdsInTurn(fwd')
  BY <1>1 DEF FwdsInTurn
<1>3. \A x \in Cmds : \A s : Active(x, s, fwd') <=> Active(x, s, fwd) /\ x # d
  BY <1>1 DEF Active
<1> QED BY <1>1, <1>2, <1>3

(***************************************************************************)
(* The forwarders (dispatch) copy each event to the request it is of.      *)
(***************************************************************************)
LEMMA FwdStreams ==
  ASSUME TypeOK, Issued, StreamsInv, NEW d \in Cmds, FwdNext(d)
  PROVE  StreamsInv'
<1>1. UNCHANGED <<created, sent, cmds, agent, client, token, poisoned>>
  BY DEF FwdNext, LockEvents, Forward, ForwardGivesUp, FwdStep
<1>2. Held'
  BY <1>1 DEF StreamsInv, Held
<1>3. PICK s, q, a, w, f, h :
        /\ s = fwd[d].ses /\ q = events[s] /\ a = agent[s] /\ w = cmds[s]
        /\ f = fwd /\ h = fwd'
  OBVIOUS
<1>4. /\ fwd[d].pc \in {"waiting", "forwarding"}
      /\ s \in Sessions /\ q \in Seq(Event) /\ w \in Seq(Cmds)
      /\ Running(a) => a.cmd \in Cmds
  BY <1>3 DEF FwdNext, LockEvents, Forward, ForwardGivesUp, Issued, TypeOK, Running
<1>5. ASSUME ~disturbed' PROVE Streams'
  <2>1. Streams
    BY <1>5 DEF StreamsInv, FwdNext, LockEvents, Forward, ForwardGivesUp, DisturbIf
  <2>2. /\ \A x \in Sessions : InTurn(x)
        /\ InTurnOf(s, q, a, w, f) /\ FwdsInTurn(f) /\ Active(d, s, f) /\ Listening(d)
    BY <1>3, <1>4, <2>1 DEF Streams, InTurn, Active, Heard
  <2>3. CASE LockEvents(d)
    <3>1. /\ fwd'[d].pc = "forwarding" /\ fwd'[d].ses = s /\ fwd[d].pc = "waiting"
          /\ \A e \in Cmds \ {d} : fwd'[e] = fwd[e]
          /\ \A e \in Cmds : fwd[e].ses = s => fwd[e].pc # "forwarding"
          /\ UNCHANGED <<events, out>>
      BY <1>3, <2>3 DEF LockEvents, FwdGoto, TypeOK
    <3>2. FwdsInTurn(fwd')
      <4>1. \A e \in Cmds \ {d} : fwd[e].ses = s => fwd[e].pc \notin {"waiting", "forwarding"}
        BY <1>3, <2>2, <3>1 DEF FwdsInTurn
      <4> QED BY <1>3, <2>2, <3>1, <4>1 DEF FwdsInTurn
    <3>3. OwnStream' /\ Heard' /\ OverWhenComplete'
      BY <1>1, <2>1, <2>2, <3>1 DEF Streams, OwnStream, Heard, Listening, OverWhenComplete,
                                    Completes, ItemsOf
    <3>4. \A x, e : Active(e, x, fwd') <=> Active(e, x, fwd)
      BY <1>3, <3>1 DEF Active
    <3>5. InTurnOf(s, q, a, w, h)
      BY <1>3, <2>2, <3>4, SameForwarders
    <3>6. \A x \in Sessions : InTurn(x)'
      BY <1>1, <1>3, <1>4, <2>2, <3>1, <3>4, <3>5, OthersInTurn
    <3> QED BY <3>2, <3>3, <3>6 DEF Streams, FwdsInTurn
  <2>4. CASE Forward(d)
    <3>1. PICK ev, t : ev = Head(q) /\ t = Tail(q)
      OBVIOUS
    <3>2. /\ q # <<>> /\ f[d].pc = "forwarding"
          /\ events' = [events EXCEPT ![s] = t]
          /\ out' = [out EXCEPT ![d] = Append(out[d], ev)]
          /\ IF ev.kind # "complete" THEN UNCHANGED fwd ELSE FwdGoto(d, "done")
      <4>1. \A v : [out EXCEPT ![d] = Append(@, v)] = [out EXCEPT ![d] = Append(out[d], v)]
        OBVIOUS
      <4> QED BY <1>3, <2>2, <2>4, <3>1, <4>1 DEF Forward
    <3>3. /\ ev.cmd = d
          /\ ev.kind # "complete" => InTurnOf(s, t, a, w, f)
          /\ \A g : /\ ev.kind = "complete"
                    /\ \A e \in Cmds : Active(e, s, g) <=> Active(e, s, f) /\ e # d
                    => InTurnOf(s, t, a, w, g)
      <4>1. /\ InTurnOf(s, q, a, w, f) /\ q # <<>> /\ FwdsInTurn(f)
            /\ Active(d, s, f) /\ f[d].pc = "forwarding"
        BY <2>2, <3>2
      <4>2. /\ Head(q).cmd = d
            /\ Head(q).kind # "complete" => InTurnOf(s, Tail(q), a, w, f)
            /\ \A g : /\ Head(q).kind = "complete"
                      /\ \A e \in Cmds : Active(e, s, g) <=> Active(e, s, f) /\ e # d
                      => InTurnOf(s, Tail(q), a, w, g)
        BY <1>4, <4>1, ForwardInTurn
      <4> QED BY <3>1, <4>2
    <3>4. /\ out[d] \in Seq(Event) /\ ev \in Event
          /\ out'[d] = Append(out[d], ev) /\ \A e \in Cmds \ {d} : out'[e] = out[e]
          /\ events'[s] = t /\ \A x \in Sessions \ {s} : events'[x] = events[x]
      BY <1>4, <3>1, <3>2, ItemTaken DEF TypeOK
    <3>5. ItemsOf(out'[d]) = ItemsOf(out[d]) \cup {ev}
      BY <3>4, ItemAppended
    <3>6. OwnStream'
      <4>1. \A e \in ItemsOf(out'[d]) : e.cmd = d
        BY <2>1, <3>3, <3>5 DEF Streams, OwnStream, ItemsOf
      <4>2. \A i \in DOMAIN out'[d] : out'[d][i].cmd = d
        BY <4>1 DEF ItemsOf
      <4> QED BY <2>1, <3>4, <4>2 DEF Streams, OwnStream
    <3>7. CASE ev.kind # "complete"
      <4>1. UNCHANGED fwd /\ InTurnOf(s, t, a, w, f)
        BY <3>2, <3>3, <3>7
      <4>2. ~Completes(out[d], d)
        BY <1>3, <2>1, <3>2 DEF Streams, OverWhenComplete
      <4>3. ~Completes(out'[d], d)
        BY <3>5, <3>7, <4>2 DEF Completes
      <4>4. \A e \in Cmds \ {d} : Completes(out'[e], e) => Completes(out[e], e)
        BY <3>4
      <4>5. OverWhenComplete'
        <5>1. \A e \in Cmds : Completes(out'[e], e) => fwd'[e].pc = "done"
          BY <2>1, <4>1, <4>3, <4>4 DEF Streams, OverWhenComplete
        <5> QED BY <5>1 DEF OverWhenComplete, Completes, ItemsOf
      <4>6. FwdsInTurn(fwd') /\ Heard'
        BY <1>1, <2>1, <4>1 DEF Streams, FwdsInTurn, Heard, Listening
      <4>7. \A x \in Sessions : InTurn(x)'
        BY <1>1, <1>3, <1>4, <2>2, <3>4, <4>1, OthersInTurn
      <4> QED BY <3>6, <4>5, <4>6, <4>7 DEF Streams, FwdsInTurn
    <3>8. CASE ev.kind = "complete"
      <4>1. FwdGoto(d, "done")
        BY <3>2, <3>8
      <4>2. /\ FwdsInTurn(fwd')
            /\ fwd'[d].pc = "done" /\ \A e \in Cmds \ {d} : fwd'[e] = fwd[e]
            /\ \A x \in Cmds : \A y : Active(x, y, fwd') <=> Active(x, y, fwd) /\ x # d
        BY <1>3, <2>2, <4>1, ForwarderDone
      <4>3. OverWhenComplete'
        <5>1. \A e \in Cmds \ {d} : Completes(out'[e], e) => Completes(out[e], e)
          BY <3>4
        <5>2. \A e \in Cmds : Completes(out'[e], e) => fwd'[e].pc = "done"
          BY <2>1, <4>2, <5>1 DEF Streams, OverWhenComplete
        <5> QED BY <5>2 DEF OverWhenComplete, Completes, ItemsOf
      <4>4. Heard'
        BY <1>1, <2>1, <4>2 DEF Streams, Heard, Listening
      <4>5. InTurnOf(s, t, a, w, h)
        BY <1>3, <3>3, <3>8, <4>2
      <4>6. \A x \in Sessions \ {s}, e \in Cmds : Active(e, x, fwd') <=> Active(e, x, fwd)
        BY <1>3, <4>2 DEF Active
      <4>7. \A x \in Sessions : InTurn(x)'
        BY <1>1, <1>3, <1>4, <2>2, <3>4, <4>5, <4>6, OthersInTurn
      <4> QED BY <3>6, <4>2, <4>3, <4>4, <4>7 DEF Streams, FwdsInTurn
    <3> QED BY <3>7, <3>8
  <2>5. CASE ForwardGivesUp(d)
    <3>1. /\ q = <<>> /\ FwdGoto(d, "done") /\ a.pc = "dead" /\ UNCHANGED <<events, out>>
      BY <1>3, <1>5, <2>5 DEF ForwardGivesUp, DisturbIf
    <3>2. /\ FwdsInTurn(fwd')
          /\ fwd'[d].pc = "done" /\ \A e \in Cmds \ {d} : fwd'[e] = fwd[e]
          /\ \A x \in Cmds : \A y : Active(x, y, fwd') <=> Active(x, y, fwd) /\ x # d
      BY <1>3, <2>2, <3>1, ForwarderDone
    <3>3. OwnStream' /\ Heard' /\ OverWhenComplete'
      BY <1>1, <2>1, <3>1, <3>2 DEF Streams, OwnStream, Heard, Listening, OverWhenComplete,
                                    Completes, ItemsOf
    <3>4. InTurnOf(s, q, a, w, h)
      BY <2>2, <3>1, GiveUpInTurn
    <3>5. \A x \in Sessions \ {s}, e \in Cmds : Active(e, x, fwd') <=> Active(e, x, fwd)
      BY <1>3, <3>2 DEF Active
    <3>6. \A x \in Sessions : InTurn(x)'
      BY <1>1, <1>3, <1>4, <2>2, <3>1, <3>4, <3>5, OthersInTurn
    <3> QED BY <3>2, <3>3, <3>6 DEF Streams, FwdsInTurn
  <2> QED BY <2>3, <2>4, <2>5 DEF FwdNext
<1> QED BY <1>2, <1>5 DEF StreamsInv

-----------------------------------------------------------------------------
(***************************************************************************)
(* A connection that leaves its request gives the token back.              *)
(***************************************************************************)
LEMMA LeaveHeld ==
  ASSUME TypeOK, Held, NEW c \in Clients, NEW k, client' = [client EXCEPT ![c] = k],
         k.pc \in {"idle", "gone"}, k.cmd = 0,
         token' \in {token, Free}, token' = Free => token \in {c, Free}
  PROVE  /\ Held'
         /\ \A d \in Cmds : Listening(d) /\ d # client[c].cmd => Listening(d)'
<1>1. client'[c] = k /\ \A x \in Clients \ {c} : client'[x] = client[x]
  BY DEF TypeOK
<1>2. Free \notin Clients
  BY DaemonAssumption DEF DaemonAssumption
<1>3. Held'
  BY <1>1, <1>2 DEF Held
<1>4. \A d \in Cmds : Listening(d) /\ d # client[c].cmd => Listening(d)'
  BY <1>1 DEF Listening
<1> QED BY <1>3, <1>4

(***************************************************************************)
(* The connection threads (drain_agent_events) take from their own         *)
(* channel, and answer the agent that asked.                               *)
(***************************************************************************)
LEMMA ConnStreams ==
  ASSUME TurnsInv, StreamsInv, NEW c \in Clients,
         LockToken(c) \/ ConnNext(c) \/ Connect(c)
  PROVE  StreamsInv'
<1>1. TypeOK /\ Issued /\ Held /\ Free \notin Clients
  BY DaemonAssumption DEF TurnsInv, StreamsInv, DaemonAssumption
<1>2. UNCHANGED <<created, sent, cmds, events, fwd>>
  BY DEF LockToken, ConnNext, LockPanics, Drain, DrainGivesUp, Reply, ReplyFails,
         Connect, ConnStep
<1>3. PICK d : d = client[c].cmd
  OBVIOUS
<1>4. client[c].pc \in {"token", "draining", "replying"} => d \in Cmds
  BY <1>1, <1>3 DEF Issued
<1>5. client \in [Clients -> ClientState] /\ out \in [Cmds -> Seq(Event)]
  BY <1>1 DEF TypeOK, ClientState
<1>6. ASSUME UNCHANGED agent, Streams, OwnStream', Heard', OverWhenComplete' PROVE Streams'
  <2>1. \A x \in Sessions : InTurn(x)'
    BY <1>2, <1>6, UntouchedInTurn DEF Streams
  <2> QED BY <1>2, <1>6, <2>1 DEF Streams, FwdsInTurn
<1>7. ASSUME UNCHANGED <<agent, out>>, Streams,
             \A e \in Cmds : Listening(e) => Listening(e)'
      PROVE  Streams'
  <2>1. OwnStream' /\ Heard' /\ OverWhenComplete'
    BY <1>2, <1>7 DEF Streams, OwnStream, Heard, OverWhenComplete, Completes, ItemsOf
  <2> QED BY <1>6, <1>7, <2>1
<1>8. ASSUME NEW l, client' = [client EXCEPT ![c] = l], l.cmd = d
      PROVE  /\ client'[c] = l /\ \A x \in Clients \ {c} : client'[x] = client[x]
             /\ \A e \in Cmds : Listening(e) => Listening(e)'
  BY <1>3, <1>5, <1>8 DEF Listening
<1>9. CASE LockToken(c)
  <2>1. PICK l : l = [client[c] EXCEPT !.pc = "draining"]
    OBVIOUS
  <2>2. /\ client' = [client EXCEPT ![c] = l] /\ l.pc = "draining" /\ l.cmd = d
        /\ token = Free /\ token' = c /\ UNCHANGED <<agent, out, disturbed>>
    BY <1>3, <1>5, <1>9, <2>1 DEF LockToken, ClientState
  <2>3. Held'
    BY <1>1, <1>8, <2>2 DEF Held
  <2>4. ~disturbed' => Streams'
    BY <1>7, <1>8, <2>2 DEF StreamsInv
  <2> QED BY <2>3, <2>4 DEF StreamsInv
<1>10. CASE LockPanics(c)
  <2>1. /\ client' = [client EXCEPT ![c] = Gone] /\ Gone.pc = "gone" /\ Gone.cmd = 0
        /\ token' = token /\ token = Free /\ disturbed'
    BY <1>10 DEF LockPanics, Leave, Gone, DisturbIf
  <2>2. Held'
    BY <1>1, <2>1, LeaveHeld
  <2> QED BY <2>1, <2>2 DEF StreamsInv
<1>11. CASE ReplyFails(c)
  <2>1. /\ client' = [client EXCEPT ![c] = Gone] /\ Gone.pc = "gone" /\ Gone.cmd = 0
        /\ token = c /\ token' = Free /\ disturbed'
    BY <1>1, <1>11 DEF ReplyFails, Leave, Gone, DisturbIf, Release, Held
  <2>2. Held'
    BY <1>1, <2>1, LeaveHeld
  <2> QED BY <2>1, <2>2 DEF StreamsInv
<1>12. CASE Connect(c)
  <2>1. /\ client' = [client EXCEPT ![c] = Idle] /\ Idle.pc = "idle" /\ Idle.cmd = 0
        /\ client[c].pc = "gone" /\ UNCHANGED <<agent, out, token, disturbed>>
    BY <1>12 DEF Connect, Idle
  <2>2. Held' /\ \A e \in Cmds : Listening(e) => Listening(e)'
    BY <1>1, <2>1, IdleClient
  <2>3. ~disturbed' => Streams'
    BY <1>7, <2>1, <2>2 DEF StreamsInv
  <2> QED BY <2>2, <2>3 DEF StreamsInv
<1>13. CASE Reply(c)
  <2>1. PICK l, s : l = [client[c] EXCEPT !.pc = "draining"] /\ s = fwd[d].ses
    OBVIOUS
  <2>2. /\ client' = [client EXCEPT ![c] = l] /\ l.pc = "draining" /\ l.cmd = d
        /\ client[c].pc = "replying" /\ UNCHANGED <<out, token, disturbed>>
    BY <1>3, <1>5, <1>13, <2>1 DEF Reply, ClientState
  <2>3. Held'
    BY <1>1, <1>8, <2>2 DEF Held
  <2>4. s \in Sessions /\ ShownBy(c, s)
    BY <1>1, <1>3, <1>4, <2>1, <2>2 DEF Issued, ShownBy
  <2>5. PICK b, a, q, w, f : /\ a = agent[s] /\ b = [a EXCEPT !.pc = "turn"]
                             /\ q = events[s] /\ w = cmds[s] /\ f = fwd
    OBVIOUS
  <2>6. /\ a \in AgentState /\ a.pc = "asking"
        /\ agent'[s] = b /\ \A x \in Sessions \ {s} : agent'[x] = agent[x]
    <3>1. agent' = [agent EXCEPT ![s].pc = "turn"]
      BY <1>3, <1>13, <2>1 DEF Reply
    <3>2. OnePrompt(s)
      BY <2>4 DEF TurnsInv
    <3>3. agent[s].pc = "asking"
      BY <2>4, <3>2 DEF OnePrompt
    <3> QED BY <1>1, <2>4, <2>5, <3>1, <3>3 DEF TypeOK, AgentState
  <2>7. Running(a) /\ Running(b) /\ b.cmd = a.cmd
    BY <2>5, <2>6 DEF AgentState, Running
  <2>8. ASSUME ~disturbed' PROVE Streams'
    <3>1. Streams /\ \A x \in Sessions : InTurn(x)
      BY <2>2, <2>8 DEF StreamsInv, Streams
    <3>2. OwnStream' /\ Heard' /\ OverWhenComplete'
      <4>1. \A e \in Cmds : Listening(e) => Listening(e)'
        BY <1>8, <2>2
      <4> QED BY <1>2, <2>2, <3>1, <4>1
              DEF Streams, OwnStream, Heard, OverWhenComplete, Completes, ItemsOf
    <3>3. InTurnOf(s, q, b, w, f)
      BY <2>4, <2>5, <2>7, <3>1, StillInTurn DEF InTurn
    <3>4. \A x \in Sessions : InTurn(x)'
      BY <1>2, <2>4, <2>5, <2>6, <3>1, <3>3, OthersInTurn
    <3> QED BY <1>2, <3>1, <3>2, <3>4 DEF Streams, FwdsInTurn
  <2> QED BY <2>3, <2>8 DEF StreamsInv
<1>14. CASE DrainGivesUp(c)
  <2>1. PICK none : none = <<>>
    OBVIOUS
  <2>2. /\ client' = [client EXCEPT ![c] = Idle] /\ Idle.pc = "idle" /\ Idle.cmd = 0
        /\ token = c /\ token' = Free /\ d \in Cmds /\ UNCHANGED agent
        /\ out' = [out EXCEPT ![d] = none]
        /\ ~disturbed' => ~disturbed /\ fwd[d].pc = "done"
    BY <1>1, <1>3, <1>4, <1>14, <2>1 DEF DrainGivesUp, Leave, Idle, DisturbIf, Release, Held
  <2>3. Held' /\ \A e \in Cmds : Listening(e) /\ e # d => Listening(e)'
    BY <1>1, <1>3, <2>2, LeaveHeld
  <2>4. out'[d] = <<>> /\ \A e \in Cmds \ {d} : out'[e] = out[e]
    BY <1>5, <2>1, <2>2
  <2>5. ASSUME ~disturbed' PROVE Streams'
    <3>1. Streams /\ fwd[d].pc = "done"
      BY <2>2, <2>5 DEF StreamsInv
    <3>2. OwnStream'
      BY <2>4, <3>1 DEF Streams, OwnStream
    <3>3. Heard'
      BY <1>2, <2>3, <3>1 DEF Streams, Heard
    <3>4. OverWhenComplete'
      BY <1>2, <2>4, <3>1 DEF Streams, OverWhenComplete, Completes, ItemsOf
    <3> QED BY <1>6, <2>2, <3>1, <3>2, <3>3, <3>4
  <2> QED BY <2>3, <2>5 DEF StreamsInv
<1>15. CASE Drain(c)
  <2>1. PICK q, t, ev : q = out[d] /\ t = Tail(q) /\ ev = Head(q)
    OBVIOUS
  <2>2. /\ client[c].pc = "draining" /\ q # <<>> /\ d \in Cmds /\ q \in Seq(Event)
        /\ out' = [out EXCEPT ![d] = t] /\ UNCHANGED <<agent, disturbed>>
    BY <1>3, <1>4, <1>5, <1>15, <2>1 DEF Drain
  <2>3. /\ ev \in Event /\ ItemsOf(q) = {ev} \cup ItemsOf(t)
    BY <2>1, <2>2, ItemTaken
  <2>4. out'[d] = t /\ \A e \in Cmds \ {d} : out'[e] = out[e]
    BY <1>5, <2>2
  <2>5. token = c
    BY <1>1, <2>2 DEF Held
  <2>6. ASSUME Streams
        PROVE  /\ OwnStream' /\ OverWhenComplete'
               /\ ev.kind = "complete" => fwd[d].pc = "done"
    <3>1. \A e \in ItemsOf(q) : e.cmd = d
      BY <2>1, <2>2, <2>6 DEF Streams, OwnStream, ItemsOf
    <3>2. \A i \in DOMAIN t : t[i].cmd = d
      BY <2>3, <3>1 DEF ItemsOf
    <3>3. OwnStream'
      BY <2>4, <2>6, <3>2 DEF Streams, OwnStream
    <3>4. Completes(t, d) => Completes(q, d)
      BY <2>3 DEF Completes
    <3>5. \A e \in Cmds : Completes(out'[e], e) => fwd'[e].pc = "done"
      BY <1>2, <2>1, <2>4, <2>6, <3>4 DEF Streams, OverWhenComplete
    <3>6. OverWhenComplete'
      BY <3>5 DEF OverWhenComplete, Completes, ItemsOf
    <3>7. ev.kind = "complete" => Completes(q, d)
      BY <2>3, <3>1 DEF Completes
    <3> QED BY <2>1, <2>2, <2>6, <3>3, <3>6, <3>7 DEF Streams, OverWhenComplete
  <2>7. ev.kind \in {"text", "prompt", "complete"}
    BY <2>3 DEF Event
  <2>8. CASE ev.kind # "complete"
    <3>1. PICK l : l = IF ev.kind = "text" THEN client[c] ELSE [client[c] EXCEPT !.pc = "replying"]
      OBVIOUS
    <3>2. client' = [client EXCEPT ![c] = l] /\ token' = token
      BY <1>3, <1>15, <2>1, <2>7, <2>8, <3>1 DEF Drain
    <3>3. l.cmd = d /\ l.pc \in {"draining", "replying"}
      BY <1>3, <1>5, <2>2, <3>1 DEF ClientState
    <3>4. Held'
      BY <1>1, <1>8, <2>5, <3>2, <3>3 DEF Held
    <3>5. ASSUME ~disturbed' PROVE Streams'
      <4>1. Streams
        BY <2>2, <3>5 DEF StreamsInv
      <4>2. Heard'
        BY <1>2, <1>8, <3>2, <3>3, <4>1 DEF Streams, Heard
      <4> QED BY <1>6, <2>2, <2>6, <4>1, <4>2
    <3> QED BY <3>4, <3>5 DEF StreamsInv
  <2>9. CASE ev.kind = "complete"
    <3>1. /\ client' = [client EXCEPT ![c] = Idle] /\ Idle.pc = "idle" /\ Idle.cmd = 0
          /\ token' = Free
      BY <1>3, <1>15, <2>1, <2>5, <2>9 DEF Drain, Idle, Release
    <3>2. Held' /\ \A e \in Cmds : Listening(e) /\ e # d => Listening(e)'
      BY <1>1, <1>3, <2>5, <3>1, LeaveHeld
    <3>3. ASSUME ~disturbed' PROVE Streams'
      <4>1. Streams
        BY <2>2, <3>3 DEF StreamsInv
      <4>2. Heard'
        BY <1>2, <2>6, <2>9, <3>2, <4>1 DEF Streams, Heard
      <4> QED BY <1>6, <2>2, <2>6, <4>1, <4>2
    <3> QED BY <3>2, <3>3 DEF StreamsInv
  <2> QED BY <2>8, <2>9
<1> QED BY <1>9, <1>10, <1>11, <1>12, <1>13, <1>14, <1>15 DEF ConnNext

-----------------------------------------------------------------------------
(***************************************************************************)
(* Nothing is said, asked or sent at the start.                            *)
(***************************************************************************)
LEMMA InitStreams == Init => StreamsInv
<1> SUFFICES ASSUME Init PROVE StreamsInv
  OBVIOUS
<1>1. /\ \A s \in Sessions : events[s] = <<>> /\ cmds[s] = <<>> /\ agent[s].pc = "idle"
      /\ \A d \in Cmds : fwd[d].pc = "none" /\ out[d] = <<>>
      /\ \A c \in Clients : client[c].pc = "idle" /\ client[c].cmd = 0
  BY DEF Init, NoAgent, NoFwd, Idle
<1>2. ItemsOf(<<>>) = {} /\ Ordered(<<>>) /\ Increasing(<<>>) /\ DOMAIN <<>> = {}
  BY DEF ItemsOf, Ordered, Increasing
<1>3. Held
  BY <1>1 DEF Held
<1>4. FwdsInTurn(fwd) /\ OwnStream /\ Heard
  BY <1>1, <1>2 DEF FwdsInTurn, OwnStream, Heard
<1>5. OverWhenComplete
  BY <1>1, <1>2 DEF OverWhenComplete, Completes
<1>6. \A s \in Sessions : InTurn(s)
  BY <1>1, <1>2 DEF InTurn, InTurnOf, Running, Active
<1> QED BY <1>3, <1>4, <1>5, <1>6 DEF StreamsInv, Streams

(***************************************************************************)
(* Every step keeps the streams in turn, or disturbs them.                 *)
(***************************************************************************)
LEMMA NextStreams == TurnsInv /\ StreamsInv /\ [Next]_vars => StreamsInv'
<1> SUFFICES ASSUME TurnsInv, StreamsInv, [Next]_vars PROVE StreamsInv'
  OBVIOUS
<1>1. TypeOK /\ Issued /\ Free \notin Clients /\ Wg \notin Clients
  BY DaemonAssumption DEF TurnsInv, DaemonAssumption
<1>2. ASSUME NEW s \in Sessions, AgentNext(s) PROVE StreamsInv'
  BY <1>1, <1>2, AgentStreams
<1>3. ASSUME NEW s \in Sessions, Cron(s) PROVE StreamsInv'
  BY <1>3 DEF Cron, DisturbIf, StreamsInv, Held
<1>4. ASSUME NEW c \in Clients, NEW fresh \in BOOLEAN, Request(c, fresh) PROVE StreamsInv'
  BY <1>1, <1>4, RequestStreams
<1>5. ASSUME NEW c \in Clients, LockToken(c) \/ ConnNext(c) \/ Connect(c) PROVE StreamsInv'
  BY <1>5, ConnStreams
<1>6. ASSUME NEW d \in Cmds, FwdNext(d) PROVE StreamsInv'
  BY <1>1, <1>6, FwdStreams
<1>7. CASE NewSession
  BY <1>7, SameStreams DEF NewSession
<1>8. CASE WgTick \/ WgDone
  BY <1>1, <1>8, SameStreams DEF WgTick, WgDone, ConnStep
<1>9. CASE UNCHANGED vars
  BY <1>9, SameStreams DEF vars
<1> QED BY <1>2, <1>3, <1>4, <1>5, <1>6, <1>7, <1>8, <1>9 DEF Next

(***************************************************************************)
(* Until something disturbs them, the events and the commands of every     *)
(* session are in the order of its requests                                *)
(* (src/daemon/session_manager.rs, dispatch).                              *)
(***************************************************************************)
THEOREM StreamsInvHolds == Spec => []StreamsInv
BY InitStreams, NextStreams, TurnsInvHolds, PTL DEF Spec

(***************************************************************************)
(* The stream of a request holds the events of its own command only, as    *)
(* long as no turn was driven or injected after a user's turn, no two      *)
(* forwarders waited together, no timer fired and no client left in        *)
(* mid-turn (src/daemon/session_manager.rs, dispatch).                     *)
(***************************************************************************)
THEOREM OwnStreamUndisturbedHolds == Spec => []OwnStreamUndisturbed
<1>1. StreamsInv => OwnStreamUndisturbed
  BY DEF StreamsInv, Streams, OwnStreamUndisturbed
<1> QED BY <1>1, StreamsInvHolds, PTL

(***************************************************************************)
(* The workgraph thread that holds the token advances while no session's   *)
(* turn runs, as long as the streams are undisturbed and no request is     *)
(* between its command and the token (src/daemon/mod.rs).                  *)
(***************************************************************************)
THEOREM AdvanceWhenIdleUndisturbedHolds == Spec => []AdvanceWhenIdleUndisturbed
<1>1. TurnsInv /\ StreamsInv => AdvanceWhenIdleUndisturbed
  <2> SUFFICES ASSUME TurnsInv, StreamsInv, ~disturbed,
                      \A c \in Clients : client[c].pc # "token",
                      token = Wg, NEW s \in Sessions, Running(agent[s])
               PROVE  FALSE
    BY DEF AdvanceWhenIdleUndisturbed, AdvanceWhenIdle, Running
  <2>1. Streams /\ Held
    BY DEF StreamsInv
  <2>2. Active(agent[s].cmd, s, fwd)
    BY <2>1 DEF Streams, InTurn, InTurnOf
  <2>3. Listening(agent[s].cmd) /\ agent[s].cmd \in Cmds
    BY <2>1, <2>2 DEF Streams, Heard, Active
  <2>4. PICK c \in Clients : client[c].cmd \in Cmds
    BY <2>3 DEF Listening
  <2>5. client[c].pc \in {"idle", "draining", "replying", "gone"}
    BY DEF TurnsInv, TypeOK
  <2>6. client[c].cmd # 0
    BY <2>4 DEF Cmds
  <2>7. Wg \notin Clients
    BY DaemonAssumption DEF DaemonAssumption
  <2> QED BY <2>1, <2>5, <2>6, <2>7 DEF Held
<1> QED BY <1>1, TurnsInvHolds, StreamsInvHolds, PTL
=============================================================================
