----------------------------- MODULE RpcClients -----------------------------
(***************************************************************************)
(* The clients of MCP servers (src/tool/mcp.rs) and of language servers    *)
(* (src/tool/lsp.rs): one global manager behind a lock that a call holds   *)
(* from the look-up of its client to the answer, requests numbered per     *)
(* client, and a read loop that skips every frame which does not carry the *)
(* number waited for.  There is no time limit and no cancel.  A change of  *)
(* root drops every MCP client, politely; a language client is opened the  *)
(* file again at every call, as the caller read it before it had the lock. *)
(***************************************************************************)
EXTENDS Naturals, Sequences, SequencesExt

CONSTANTS Agents, Roots,
          MaxCalls,    \* bound: calls of a checked run
          MaxFrames    \* bound: frames in flight from a server

RpcAssumption == MaxCalls \in Nat /\ MaxFrames \in Nat

VARIABLES
  kind,       \* "mcp" or "lsp"
  root,       \* the MCP manager's root; Roots of the calls differ
  client,     \* "none", "fresh" before its handshake, or "ready"
  nextRequest,
  proc,       \* the server: "none", "alive" or "dead"
  frames,     \* what it wrote and nobody read
  asked,      \* requests it has and did not answer
  document,   \* the version it was opened the file at
  disk,       \* the file's version
  call,       \* per agent: where it is and what it waits for
  calls,
  wrong       \* history: an answer to something else was returned

rpcVars == <<kind, root, client, nextRequest, proc, frames, asked, document,
             disk, call, calls, wrong>>

NoCall == [at |-> "idle", root |-> CHOOSE r \in Roots : TRUE, read |-> 0, id |-> 0]

Init ==
  /\ kind \in {"mcp", "lsp"} /\ root \in Roots
  /\ client = "none" /\ nextRequest = 1 /\ proc = "none" /\ frames = <<>> /\ asked = {}
  /\ document = 0 /\ disk = 1
  /\ call = [a \in Agents |-> NoCall] /\ calls = 0 /\ wrong = FALSE

Inside == {"reopen", "drop", "init", "call"}
Locked == \E a \in Agents : call[a].at \in Inside

\* A tool call: the file is read, then the lock waited for.
Begin(a) ==
  /\ call[a].at = "idle" /\ calls < MaxCalls /\ calls' = calls + 1     \* bound
  /\ \E r \in Roots :
       call' = [call EXCEPT ![a] = [NoCall EXCEPT !.at = "want", !.root = r, !.read = disk]]
  /\ UNCHANGED <<kind, root, client, nextRequest, proc, frames, asked, document, disk, wrong>>

\* Sends request number nextRequest and waits for it at `at`.
Request(a, at) ==
  /\ asked' = asked \cup {nextRequest} /\ nextRequest' = nextRequest + 1
  /\ call' = [call EXCEPT ![a].at = at, ![a].id = nextRequest]

Done(a) == call' = [call EXCEPT ![a] = NoCall]

\* spawn, then the handshake; a server that cannot be started ends the call.
Spawn(a) ==
  \/ /\ client' = "fresh" /\ proc' = "alive" /\ frames' = <<>> /\ asked' = {1}
     /\ nextRequest' = 2 /\ document' = 0
     /\ call' = [call EXCEPT ![a].at = "init", ![a].id = 1]
  \/ Done(a) /\ UNCHANGED <<client, proc, frames, asked, nextRequest, document>>

\* The file is opened at the server, and the question asked.
Ask(a) ==
  /\ Request(a, "call")
  /\ document' = IF kind = "lsp" THEN call[a].read ELSE document
  /\ UNCHANGED proc

\* get_client under the lock.
Take(a) ==
  /\ call[a].at = "want" /\ ~Locked
  /\ root' = call[a].root
  /\ CASE kind = "mcp" /\ call[a].root # root /\ client = "ready" ->
            Request(a, "drop") /\ UNCHANGED <<client, proc, frames, document>>
       [] client = "none" -> Spawn(a)
       [] OTHER -> Ask(a) /\ UNCHANGED <<client, frames>>
  /\ UNCHANGED <<kind, disk, calls, wrong>>

Reopen(a) ==
  /\ call[a].at = "reopen" /\ Spawn(a)
  /\ UNCHANGED <<kind, root, disk, calls, wrong>>

Drop == client' = "none" /\ proc' = "none" /\ frames' = <<>> /\ asked' = {}

\* The wait for anything but a good handshake ends: a failed handshake takes its
\* client with it, a request leaves it, however it went.
Ended(a, rest) ==
  CASE call[a].at = "init" -> Drop /\ Done(a) /\ UNCHANGED <<document, nextRequest>>
    [] call[a].at = "drop" ->
         /\ Drop /\ call' = [call EXCEPT ![a].at = "reopen"]
         /\ UNCHANGED <<document, nextRequest>>
    [] OTHER -> /\ Done(a) /\ frames' = rest
                /\ UNCHANGED <<client, proc, asked, nextRequest, document>>

Waiting(a) == call[a].at \in {"drop", "init", "call"}

\* The answer is about the text the caller read.
Current(a, f) == kind = "lsp" /\ call[a].at = "call" => f.about = call[a].read

\* Mutant: the first frame that carries a number is taken for the answer.
MatchesAny(f, id) == f.is # "note"

Matches(f, id) == f.id = id

\* One frame read: a notification, and any frame with another number, is
\* skipped; a request of the server with this number is a failure.
Receive(a) ==
  /\ Waiting(a) /\ frames # <<>>
  /\ LET f == Head(frames)
         skip == f.is = "note" \/ ~Matches(f, call[a].id)
         rest == Tail(frames)
         good == f.is = "reply" /\ f.id = call[a].id
     IN /\ wrong' = (wrong \/ (~skip /\ f.is = "reply" /\ ~(good /\ Current(a, f))))
        /\ CASE skip ->
                  /\ frames' = rest
                  /\ UNCHANGED <<client, proc, asked, nextRequest, document, call>>
             [] ~skip /\ call[a].at = "init" /\ f.is = "reply" ->
                  Ask(a) /\ frames' = rest /\ client' = "ready"
             [] OTHER -> Ended(a, rest)
  /\ UNCHANGED <<kind, root, disk, calls>>

\* The end of the stream.
Closed(a) ==
  /\ Waiting(a) /\ frames = <<>> /\ proc = "dead"
  /\ Ended(a, frames)
  /\ UNCHANGED <<kind, root, disk, calls, wrong>>

\* External: the server answers in any order, notifies, asks in its own
\* numbering, or dies; somebody edits the file.
Put(f) == proc = "alive" /\ Len(frames) < MaxFrames /\ frames' = Append(frames, f)   \* bound
Frame(is, id) == [is |-> is, id |-> id, about |-> document]

Reply ==
  /\ \E id \in asked : Put(Frame("reply", id)) /\ asked' = asked \ {id}
  /\ UNCHANGED <<kind, root, client, nextRequest, proc, document, disk, call, calls, wrong>>
Unasked ==
  /\ Put(Frame("note", 0)) \/ Put(Frame("ask", nextRequest - 1))
  /\ ~\E i \in DOMAIN frames : frames[i].is # "reply"        \* bound: one at a time
  /\ UNCHANGED <<kind, root, client, nextRequest, proc, asked, document, disk, call, calls, wrong>>
Dies ==
  /\ proc = "alive" /\ proc' = "dead" /\ asked' = {}
  /\ UNCHANGED <<kind, root, client, nextRequest, frames, document, disk, call, calls, wrong>>
FileChanges ==
  /\ disk < 2 /\ disk' = disk + 1                             \* bound
  /\ UNCHANGED <<kind, root, client, nextRequest, proc, frames, asked, document, call, calls, wrong>>

CallSteps == \E a \in Agents : Take(a) \/ Reopen(a) \/ Receive(a) \/ Closed(a)

Next ==
  \/ CallSteps \/ \E a \in Agents : Begin(a)
  \/ Reply \/ Unasked \/ Dies \/ FileChanges

Spec == Init /\ [][Next]_rpcVars /\ WF_rpcVars(CallSteps)

-----------------------------------------------------------------------------
(***************************************************************************)
(* Every answer a call returns is the server's answer to that call, about  *)
(* the text the caller read, whatever was left unread by calls before it;  *)
(* at most one call is inside, no call waits on a client that is gone, and *)
(* a client is in the table only after its handshake.                      *)
(***************************************************************************)
RpcSound ==
  /\ ~wrong
  /\ \A a, b \in Agents : {call[a].at, call[b].at} \subseteq Inside => a = b
  /\ \A a \in Agents : Waiting(a) => client # "none" /\ call[a].id < nextRequest
  /\ client = "fresh" => \E a \in Agents : call[a].at = "init"

\* Everyone is stuck behind one request the server keeps to itself.
Silent == proc = "alive" /\ frames = <<>> /\ \E a \in Agents : Waiting(a)

(***************************************************************************)
(* Only a server that is alive and says nothing can hold up the callers.   *)
(***************************************************************************)
RpcEnds == []<>(~Locked \/ Silent)
=============================================================================
