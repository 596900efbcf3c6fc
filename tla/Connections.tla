---------------------------- MODULE Connections -----------------------------
(***************************************************************************)
(* One connection of the daemon, from the keyboard of the client to the    *)
(* thread that writes to it (src/daemon/socket.rs, src/daemon/bus.rs,      *)
(* src/client/mod.rs, src/bin/ccli.rs).  In the daemon a handler reads     *)
(* requests and a writer thread writes what the handler and the event bus  *)
(* put in one channel; the writer ends when the last sender of the channel *)
(* is dropped, which ConnGuard sees to on every way out of the handler.    *)
(* In the client the REPL's main thread types a request and waits for a    *)
(* signal; a reader thread prints the events, answers the prompts of a     *)
(* turn from the same standard input, and signals at each terminal event.  *)
(* `ccli <command>` does both in one thread and leaves after one answer.   *)
(***************************************************************************)
EXTENDS Naturals, Sequences

CONSTANTS MaxRequests, MaxEvents, MaxPipe

ConnectionsAssumption ==
  MaxRequests \in Nat \ {0} /\ MaxEvents \in Nat \ {0} /\ MaxPipe \in Nat \ {0}

VARIABLES
  once,      \* a one-shot client
  main,      \* "prompt" (reads a command), "waiting", "leaving", "gone"
  signals,   \* terminal events the main thread has not taken yet
  reader,    \* "read", "prompt" (reads an answer), "ended"
  up, shut,  \* requests on their way, and the client's write half closed
  handler,   \* "read", "turn", "prompt", "closing", "joining", "gone"
  senders,   \* who holds a sender of the channel
  channel, writer,
  down,      \* written to the socket, not read yet
  requests, events,
  twice      \* a request has been answered by two terminal events

connectionVars == <<once, main, signals, reader, up, shut, handler, senders,
                    channel, writer, down, requests, events, twice>>
clientVars == <<main, signals, reader, shut, requests>>

Terminal == {"error", "complete"}

Init ==
  /\ once \in BOOLEAN /\ main = "prompt" /\ signals = 0 /\ reader = "read"
  /\ up = <<>> /\ shut = FALSE /\ handler = "read"
  /\ senders = {"bus", "body", "combined"} /\ channel = <<>> /\ writer = "on"
  /\ down = <<>> /\ requests = 0 /\ events = 0 /\ twice = FALSE

\* A send into a channel whose receiver is gone is dropped.
Tell(evs) == channel' = IF writer = "on" THEN channel \o evs ELSE channel

-----------------------------------------------------------------------------
(* The handler and its writer. *)

\* A query is answered by its event and TurnComplete; the session tree of a
\* daemon without a session by an Error, which is terminal, and TurnComplete.
\* No client of this repository sends a reply outside a prompt.
ReadRequest ==
  /\ handler = "read" /\ up # <<>>
  /\ up' = Tail(up)
  /\ \/ /\ Head(up) = "message" /\ handler' = "turn"
        /\ UNCHANGED <<channel, twice>>
     \/ /\ Head(up) \in {"query", "tree"} /\ Tell(<<"event", "complete">>)
        /\ UNCHANGED <<handler, twice>>
     \/ /\ Head(up) = "tree" /\ Tell(<<"error", "complete">>)
        /\ twice' = TRUE /\ UNCHANGED handler
  /\ UNCHANGED <<once, clientVars, senders, writer, down, events>>

ReadEof ==
  /\ handler \in {"read", "prompt"} /\ up = <<>> /\ shut
  /\ handler' = "closing"
  /\ UNCHANGED <<once, clientVars, up, senders, channel, writer, down, events, twice>>

TurnEvent ==
  /\ handler = "turn" /\ events < MaxEvents
  /\ \/ Tell(<<"event">>) /\ UNCHANGED handler
     \/ Tell(<<"prompt">>) /\ handler' = "prompt"
  /\ events' = events + 1
  /\ UNCHANGED <<once, clientVars, up, senders, writer, down, twice>>

\* The turn completes, its agent is gone, or nothing came for 120 seconds.
TurnEnds ==
  /\ handler = "turn" /\ \E e \in Terminal : Tell(<<e>>)
  /\ handler' = "read"
  /\ UNCHANGED <<once, clientVars, up, senders, writer, down, events, twice>>

\* Anything but the reply to the pending prompt ends the connection.
ReadReply ==
  /\ handler = "prompt" /\ up # <<>>
  /\ up' = Tail(up)
  /\ handler' = IF Head(up) = "reply" THEN "turn" ELSE "closing"
  /\ UNCHANGED <<once, clientVars, senders, channel, writer, down, events, twice>>

\* Mutant: the guard leaves the bus its sender.
DropGuardSubscribed ==
  /\ handler = "closing"
  /\ handler' = "joining" /\ senders' = senders \ {"body", "combined"}
  /\ UNCHANGED <<once, clientVars, up, channel, writer, down, events, twice>>

\* ConnGuard's drop: every sender of the channel, then the join.
DropGuard ==
  /\ handler = "closing"
  /\ handler' = "joining" /\ senders' = {}
  /\ UNCHANGED <<once, clientVars, up, channel, writer, down, events, twice>>

JoinWriter ==
  /\ handler = "joining" /\ writer = "ended"
  /\ handler' = "gone"
  /\ UNCHANGED <<once, clientVars, up, senders, channel, writer, down, events, twice>>

Write ==
  /\ writer = "on" /\ channel # <<>>
  /\ \/ /\ main # "gone" /\ Len(down) < MaxPipe
        /\ down' = Append(down, Head(channel)) /\ channel' = Tail(channel)
        /\ UNCHANGED writer
     \/ /\ main = "gone"
        /\ writer' = "ended" /\ channel' = <<>> /\ UNCHANGED down
  /\ UNCHANGED <<once, clientVars, up, handler, senders, events, twice>>

WriterEnds ==
  /\ writer = "on" /\ channel = <<>> /\ senders = {}
  /\ writer' = "ended"
  /\ UNCHANGED <<once, clientVars, up, handler, senders, channel, down, events, twice>>

\* The bus drops the subscribers its send fails for.
Broadcast ==
  /\ "bus" \in senders /\ events < MaxEvents
  /\ Tell(<<"notice">>) /\ events' = events + 1
  /\ senders' = IF writer = "on" THEN senders ELSE senders \ {"bus"}
  /\ UNCHANGED <<once, clientVars, up, handler, writer, down, twice>>

\* A shutdown request of any client ends the process, and its threads.
DaemonExits ==
  /\ handler # "gone"
  /\ handler' = "gone" /\ writer' = "ended" /\ senders' = {} /\ channel' = <<>>
  /\ UNCHANGED <<once, clientVars, up, down, events, twice>>

-----------------------------------------------------------------------------
(* The client. *)

\* Whoever leaves closes the socket: nothing is read any more.
Leave ==
  /\ main' = "gone" /\ reader' = "ended" /\ shut' = TRUE /\ down' = <<>>
  /\ up' = IF handler = "gone" THEN <<>> ELSE up

\* Writing to a connection the daemon has closed fails, and the client ends.
Ask ==
  /\ main = "prompt" /\ requests < MaxRequests /\ (once => requests = 0)
  /\ requests' = requests + 1
  /\ IF handler = "gone" THEN Leave
     ELSE /\ \E r \in {"message", "query", "tree"} : up' = Append(up, r)
          /\ main' = "waiting" /\ UNCHANGED <<reader, shut, down>>
  /\ UNCHANGED <<once, signals, handler, senders, channel, writer, events, twice>>

Wake ==
  /\ main = "waiting" /\ signals > 0
  /\ signals' = signals - 1
  /\ IF once THEN Leave
     ELSE main' = "prompt" /\ UNCHANGED <<reader, shut, down, up>>
  /\ UNCHANGED <<once, handler, senders, channel, writer, requests, events, twice>>

\* /exit closes the write half, so that the daemon's end can be read.
Exit ==
  /\ main = "prompt" /\ ~once
  /\ main' = "leaving" /\ shut' = TRUE
  /\ UNCHANGED <<once, signals, reader, up, handler, senders, channel, writer,
                 down, requests, events, twice>>

JoinReader ==
  /\ main = "leaving" /\ reader = "ended"
  /\ Leave
  /\ UNCHANGED <<once, signals, handler, senders, channel, writer, requests,
                 events, twice>>

ReadEvent ==
  /\ reader = "read" /\ down # <<>>
  /\ down' = Tail(down)
  /\ signals' = signals + (IF Head(down) \in Terminal THEN 1 ELSE 0)
  /\ reader' = IF Head(down) = "prompt" THEN "prompt" ELSE "read"
  /\ UNCHANGED <<once, main, up, shut, handler, senders, channel, writer,
                 requests, events, twice>>

ReadEnd ==
  /\ reader = "read" /\ down = <<>> /\ handler = "gone"
  /\ reader' = "ended" /\ signals' = signals + 1
  /\ UNCHANGED <<once, main, up, shut, handler, senders, channel, writer, down,
                 requests, events, twice>>

Answer ==
  /\ reader = "prompt"
  /\ reader' = "read"
  /\ up' = IF shut \/ handler = "gone" THEN up ELSE Append(up, "reply")
  /\ UNCHANGED <<once, main, signals, shut, handler, senders, channel, writer,
                 down, requests, events, twice>>

Killed ==
  /\ main # "gone" /\ Leave
  /\ UNCHANGED <<once, signals, handler, senders, channel, writer, requests,
                 events, twice>>

DaemonSteps == ReadRequest \/ ReadEof \/ TurnEvent \/ TurnEnds \/ ReadReply
               \/ DropGuard \/ JoinWriter
WriterSteps == Write \/ WriterEnds
ClientSteps == Wake \/ JoinReader
ReaderSteps == ReadEvent \/ ReadEnd

Next == \/ DaemonSteps \/ WriterSteps \/ ClientSteps \/ ReaderSteps
        \/ Broadcast \/ DaemonExits \/ Ask \/ Exit \/ Answer \/ Killed

Spec ==
  /\ Init /\ [][Next]_connectionVars
  /\ WF_connectionVars(DaemonSteps) /\ WF_connectionVars(WriterSteps)
  /\ WF_connectionVars(ClientSteps) /\ WF_connectionVars(ReaderSteps)

-----------------------------------------------------------------------------
OnlyNotices(evs) == \A i \in 1 .. Len(evs) : evs[i] = "notice"

(***************************************************************************)
(* A client that types its next command is in step with the daemon:        *)
(* nothing of its last request is under way, so its main thread and its    *)
(* reader never read the keyboard at the same time; unless an Error and a  *)
(* TurnComplete once answered the same request.  A handler that is gone    *)
(* has left neither its writer nor its subscription behind.                *)
(***************************************************************************)
ConnectionSound ==
  /\ main = "prompt" /\ handler # "gone" /\ ~twice =>
       /\ handler = "read" /\ up = <<>> /\ signals = 0 /\ reader = "read"
       /\ OnlyNotices(channel) /\ OnlyNotices(down)
  /\ handler = "gone" => writer = "ended" /\ senders = {}

(***************************************************************************)
(* Every request is answered, and a client that leaves is let go, unless   *)
(* somebody stays at a prompt for ever; a client that has gone leaves no   *)
(* handler, no writer and no subscription in the daemon.                   *)
(***************************************************************************)
ConnectionEnds ==
  /\ []<>(main \in {"prompt", "gone"}) \/ <>[](reader = "prompt")
  /\ []<>(main = "gone" => handler = "gone")
=============================================================================
