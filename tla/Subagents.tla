------------------------------ MODULE Subagents -----------------------------
(***************************************************************************)
(* Sub-agents (src/agent.rs, the `agent` and `review` tools) and the       *)
(* messages sent to them (src/tool/send_message.rs).  A parent registers   *)
(* its child under an id numbered by the parent itself, runs the child's   *)
(* one turn on a thread, and either waits for it or goes on and finds the  *)
(* result in its queue of task notifications.                              *)
(***************************************************************************)
EXTENDS Naturals, FiniteSets

CONSTANTS Parents,
          MaxChildren,    \* bound: children spawned in a checked run
          MaxMessages     \* bound: messages sent in a checked run

SubagentAssumption == MaxChildren \in Nat /\ MaxMessages \in Nat

VARIABLES
  spawned,    \* children so far; a child is known by its number
  child,      \* per child: parent, id, whether in the background, and state
  registry,   \* AGENT_REGISTRY: the child an id leads to, or 0
  seq,        \* per parent: sub_agent_seq
  waiting,    \* per parent: the child it waits for, or 0
  notices,    \* per parent: task_notifications, by child
  told,       \* per parent: notices drained into its thread, and results
  inbox,      \* per child: the messages in its channel
  got,        \* per child: the messages drained into its thread
  meant,      \* per message reported as sent: the child that was meant
  late        \* history: messages sent to a child past its last drain

subVars == <<spawned, child, registry, seq, waiting, notices, told, inbox, got,
             meant, late>>

Children == 1 .. MaxChildren
Ids == 0 .. MaxChildren - 1
States == {"running", "ended", "unregistered", "done", "panicked"}

Live(c) == child[c].state = "running"
In(s) == {c \in 1 .. spawned : child[c].state = s}
Sent == DOMAIN meant
Become(c, s) == child' = [child EXCEPT ![c].state = s]

Init ==
  /\ spawned = 0
  /\ child = [c \in Children |->
       [parent |-> CHOOSE p \in Parents : TRUE, id |-> 0, back |-> FALSE, state |-> "done"]]
  /\ registry = [i \in Ids |-> 0]
  /\ seq = [p \in Parents |-> 0] /\ waiting = [p \in Parents |-> 0]
  /\ notices = [p \in Parents |-> {}] /\ told = [p \in Parents |-> {}]
  /\ inbox = [c \in Children |-> {}] /\ got = [c \in Children |-> {}]
  /\ meant = <<>> /\ late = {}

\* spawn_sub_agent_fork, _fresh and, waiting, spawn_sub_agent_text.  The id is
\* "fork_<pid>_<seq>": two parents of one process count alike.
Spawn(p) ==
  /\ spawned < MaxChildren                               \* bound
  /\ waiting[p] = 0
  /\ spawned' = spawned + 1
  /\ \E back \in BOOLEAN :
       /\ child' = [child EXCEPT ![spawned'] =
            [parent |-> p, id |-> seq[p], back |-> back, state |-> "running"]]
       /\ waiting' = IF back THEN waiting ELSE [waiting EXCEPT ![p] = spawned']
  /\ registry' = [registry EXCEPT ![seq[p]] = spawned']
  /\ seq' = [seq EXCEPT ![p] = @ + 1]
  /\ UNCHANGED <<notices, told, inbox, got, meant, late>>

\* send_message: sent to whatever channel the id leads to; an id that leads
\* nowhere, or to a channel that is gone, is an error and changes nothing.
Send(c) ==
  LET to == registry[child[c].id]
  IN /\ Cardinality(Sent) < MaxMessages                  \* bound
     /\ to # 0 /\ child[to].state # "panicked"
     /\ LET m == Cardinality(Sent) + 1
        IN /\ meant' = [k \in Sent \cup {m} |-> IF k = m THEN c ELSE meant[k]]
           /\ inbox' = [inbox EXCEPT ![to] = @ \cup {m}]
           /\ late' = IF Live(to) THEN late ELSE late \cup {m}
     /\ UNCHANGED <<spawned, child, registry, seq, waiting, notices, told, got>>

\* drain_parent_messages, at every iteration of the child's turn.
Drain(c) ==
  /\ Live(c) /\ inbox[c] # {}
  /\ got' = [got EXCEPT ![c] = @ \cup inbox[c]]
  /\ inbox' = [inbox EXCEPT ![c] = {}]
  /\ UNCHANGED <<spawned, child, registry, seq, waiting, notices, told, meant, late>>

\* process_turn ends: by itself only with an empty channel, but by an error,
\* the iteration cap, or a prompt nobody can answer, whatever is in it.
EndTurn(c) ==
  /\ Live(c) /\ inbox[c] = {} /\ Become(c, "ended")
  /\ UNCHANGED <<spawned, registry, seq, waiting, notices, told, inbox, got, meant,
                 late>>

BreakTurn(c) ==
  /\ Live(c) /\ Become(c, "ended") /\ late' = late \cup inbox[c]
  /\ UNCHANGED <<spawned, registry, seq, waiting, notices, told, inbox, got, meant>>

\* The id goes, whichever child it leads to by now.
Unregister(c) ==
  /\ child[c].state = "ended" /\ Become(c, "unregistered")
  /\ registry' = [registry EXCEPT ![child[c].id] = 0]
  /\ UNCHANGED <<spawned, seq, waiting, notices, told, inbox, got, meant, late>>

\* Mutant: the result is pushed whether or not the parent waits for it.
ReportTwice(c) ==
  LET p == child[c].parent
  IN /\ child[c].state = "unregistered" /\ Become(c, "done")
     /\ notices' = [notices EXCEPT ![p] = @ \cup {c}]
     /\ IF child[c].back THEN UNCHANGED <<told, waiting>>
        ELSE /\ told' = [told EXCEPT ![p] = @ \cup {c}]
             /\ waiting' = [waiting EXCEPT ![p] = 0]
     /\ UNCHANGED <<spawned, registry, seq, inbox, got, meant, late>>

\* The last assistant text: pushed to the parent's queue, or returned to it.
Report(c) ==
  LET p == child[c].parent
  IN /\ child[c].state = "unregistered" /\ Become(c, "done")
     /\ IF child[c].back
        THEN notices' = [notices EXCEPT ![p] = @ \cup {c}] /\ UNCHANGED <<told, waiting>>
        ELSE /\ told' = [told EXCEPT ![p] = @ \cup {c}]
             /\ waiting' = [waiting EXCEPT ![p] = 0] /\ UNCHANGED notices
     /\ UNCHANGED <<spawned, registry, seq, inbox, got, meant, late>>

\* A panic drops the channel; the parent that waits is told, the registry and
\* a parent that does not wait are not.
Panic(c) ==
  LET p == child[c].parent
  IN /\ Live(c) /\ Become(c, "panicked")
     /\ late' = late \cup inbox[c]
     /\ IF child[c].back THEN UNCHANGED <<told, waiting>>
        ELSE /\ told' = [told EXCEPT ![p] = @ \cup {c}]
             /\ waiting' = [waiting EXCEPT ![p] = 0]
     /\ UNCHANGED <<spawned, registry, seq, notices, inbox, got, meant>>

\* drain_task_notifications, in a turn of the parent.
DrainNotices(p) ==
  /\ waiting[p] = 0 /\ notices[p] # {}
  /\ told' = [told EXCEPT ![p] = @ \cup notices[p]]
  /\ notices' = [notices EXCEPT ![p] = {}]
  /\ UNCHANGED <<spawned, child, registry, seq, waiting, inbox, got, meant, late>>

ChildSteps == \E c \in 1 .. spawned : BreakTurn(c) \/ Unregister(c) \/ Report(c)

Next ==
  \/ \E p \in Parents : Spawn(p) \/ DrainNotices(p)
  \/ \E c \in 1 .. spawned : Send(c) \/ Drain(c) \/ EndTurn(c) \/ Panic(c)
  \/ ChildSteps

Spec == Init /\ [][Next]_subVars /\ WF_subVars(ChildSteps)

-----------------------------------------------------------------------------
(***************************************************************************)
(* Every child that does not panic is reported once, to its own parent,    *)
(* and a parent waits only for a child that still runs its course.  A child*)
(* whose id no other child of the process has is reached by its id until it*)
(* has ended, gets every message reported as sent to it, and fails to read *)
(* one only if it was sent past the child's last look at its channel or the*)
(* child's turn broke off.                                                 *)
(***************************************************************************)
Unique(c) == \A d \in 1 .. spawned : child[d].id = child[c].id => d = c

SubagentsSound ==
  /\ \A c \in 1 .. spawned : child[c].state \in States
  /\ \A p \in Parents :
       /\ told[p] \cap notices[p] = {}
       /\ \A c \in told[p] \cup notices[p] : child[c].parent = p
       /\ {c \in In("done") : child[c].parent = p} \subseteq told[p] \cup notices[p]
       /\ waiting[p] # 0 =>
            child[waiting[p]].state \in {"running", "ended", "unregistered"}
  /\ \A c \in 1 .. spawned : Unique(c) =>
       /\ child[c].state \in {"running", "ended"} => registry[child[c].id] = c
       /\ \A m \in Sent : meant[m] = c => m \in inbox[c] \cup got[c]
       /\ ~Live(c) => inbox[c] \subseteq late

(***************************************************************************)
(* A parent that waits gets an answer.                                     *)
(***************************************************************************)
ParentsReturn == \A p \in Parents : []<>(waiting[p] = 0)
=============================================================================
