------------------------------- MODULE Daemons -------------------------------
(***************************************************************************)
(* The life of the daemons of one project root (src/daemon/mod.rs,         *)
(* src/daemon/socket.rs, src/recovery.rs).  A daemon removes whatever      *)
(* socket file it finds, binds its own, and blocks in accept; a signal or  *)
(* a Shutdown request sets a flag, and a connection to the socket file -   *)
(* to whichever daemon it leads by then - is what wakes the accept up.  A  *)
(* daemon that ends removes the socket file, whoever owns it.              *)
(***************************************************************************)
EXTENDS Naturals, Sequences

CONSTANTS Daemons,
          MaxAttempts,     \* max_restarts of run_with_recovery
          MaxClients       \* bound: connections of clients

DaemonsAssumption ==
  MaxAttempts \in Nat \ {0} /\ MaxClients \in Nat /\ "none" \notin Daemons

VARIABLES
  path,        \* the daemon whose listener the socket file leads to, or "none"
  at,          \* of the main thread
  attempt,     \* of run_with_recovery
  flag,        \* the shutdown flag
  monitor,     \* the monitor thread: "off", "watching", "done"
  backlog,     \* connections not accepted yet
  handling,    \* the Shutdown request: "none", "read", "stored"
  clients,     \* connections made so far
  displaced    \* daemons whose socket file another daemon removed

daemonVars == <<path, at, attempt, flag, monitor, backlog, handling, clients, displaced>>

Running == {"loop", "accept", "leaving"}
Alive(d) == at[d] \in Running

Init ==
  /\ path = "none"
  /\ at = [d \in Daemons |-> "down"]
  /\ \E first \in {1, MaxAttempts} :     \* daemon_auto_restart, or one attempt
       attempt = [d \in Daemons |-> first]
  /\ flag = [d \in Daemons |-> FALSE] /\ monitor = [d \in Daemons |-> "off"]
  /\ backlog = [d \in Daemons |-> <<>>]
  /\ handling = [d \in Daemons |-> "none"]
  /\ clients = 0 /\ displaced = {}

\* A connection reaches the daemon that owns the file, if it still runs.
Connected(kind) ==
  IF path # "none" /\ Alive(path)
  THEN [backlog EXCEPT ![path] = Append(@, kind)] ELSE backlog

RemoveFile(d) ==
  /\ path' = "none"
  /\ displaced' = displaced \cup ({path} \ {d, "none"})

\* SocketServer::bind, in its two steps; bind fails when a file is there.
Unlink(d) ==
  /\ at[d] = "down"
  /\ RemoveFile(d)
  /\ at' = [at EXCEPT ![d] = "binding"]
  /\ UNCHANGED <<attempt, flag, monitor, backlog, handling, clients>>

Bind(d) ==
  /\ at[d] = "binding" /\ path = "none"
  /\ path' = d
  /\ at' = [at EXCEPT ![d] = "loop"]
  /\ monitor' = [monitor EXCEPT ![d] = "watching"]
  /\ UNCHANGED <<attempt, flag, backlog, handling, clients, displaced>>

BindFails(d) ==
  /\ at[d] = "binding" /\ path # "none"
  /\ IF attempt[d] < MaxAttempts
     THEN /\ attempt' = [attempt EXCEPT ![d] = @ + 1]
          /\ at' = [at EXCEPT ![d] = "down"]
     ELSE /\ at' = [at EXCEPT ![d] = "failed"] /\ UNCHANGED attempt
  /\ UNCHANGED <<path, flag, monitor, backlog, handling, clients, displaced>>

\* The head of the accept loop.
Loop(d) ==
  /\ at[d] = "loop"
  /\ at' = [at EXCEPT ![d] = IF flag[d] THEN "leaving" ELSE "accept"]
  /\ UNCHANGED <<path, attempt, flag, monitor, backlog, handling, clients, displaced>>

\* accept returns: the flag is looked at again before a handler is started.
Accept(d) ==
  /\ at[d] = "accept" /\ backlog[d] # <<>>
  /\ backlog' = [backlog EXCEPT ![d] = Tail(@)]
  /\ IF flag[d]
     THEN at' = [at EXCEPT ![d] = "leaving"] /\ UNCHANGED handling
     ELSE /\ at' = [at EXCEPT ![d] = "loop"]
          /\ handling' = IF Head(backlog[d]) = "shutdown"
                         THEN [handling EXCEPT ![d] = "read"] ELSE handling
  /\ UNCHANGED <<path, attempt, flag, monitor, clients, displaced>>

\* The handler of a Shutdown request stores the flag and connects.
StoreFlag(d) ==
  /\ Alive(d) /\ handling[d] = "read"
  /\ flag' = [flag EXCEPT ![d] = TRUE]
  /\ handling' = [handling EXCEPT ![d] = "stored"]
  /\ UNCHANGED <<path, at, attempt, monitor, backlog, clients, displaced>>

HandlerConnects(d) ==
  /\ Alive(d) /\ handling[d] = "stored"
  /\ handling' = [handling EXCEPT ![d] = "none"]
  /\ backlog' = Connected("wake")
  /\ UNCHANGED <<path, at, attempt, flag, monitor, clients, displaced>>

Monitor(d) ==
  /\ Alive(d) /\ monitor[d] = "watching" /\ flag[d]
  /\ monitor' = [monitor EXCEPT ![d] = "done"]
  /\ backlog' = Connected("wake")
  /\ UNCHANGED <<path, at, attempt, flag, handling, clients, displaced>>

\* A process that ends takes its threads and its connections with it.
Forget(d) ==
  /\ flag' = [flag EXCEPT ![d] = FALSE] /\ monitor' = [monitor EXCEPT ![d] = "off"]
  /\ backlog' = [backlog EXCEPT ![d] = <<>>] /\ handling' = [handling EXCEPT ![d] = "none"]

\* The end of run: the file is removed, then exit(0).
Leave(d) ==
  /\ at[d] = "leaving"
  /\ RemoveFile(d)
  /\ at' = [at EXCEPT ![d] = "gone"] /\ Forget(d)
  /\ UNCHANGED <<attempt, clients>>

\* SIGINT or SIGTERM.
Signal(d) ==
  /\ Alive(d) /\ ~flag[d]
  /\ flag' = [flag EXCEPT ![d] = TRUE]
  /\ UNCHANGED <<path, at, attempt, monitor, backlog, handling, clients, displaced>>

Client(kind) ==
  /\ clients < MaxClients /\ clients' = clients + 1
  /\ backlog' = Connected(kind)
  /\ UNCHANGED <<path, at, attempt, flag, monitor, handling, displaced>>

Crash(d) ==
  /\ Alive(d)
  /\ at' = [at EXCEPT ![d] = "crashed"] /\ Forget(d)
  /\ UNCHANGED <<path, attempt, clients, displaced>>

Steps == \E d \in Daemons : \/ Unlink(d) \/ Bind(d) \/ BindFails(d) \/ Loop(d)
                            \/ Accept(d) \/ StoreFlag(d) \/ HandlerConnects(d)
                            \/ Monitor(d) \/ Leave(d)

Next ==
  \/ Steps
  \/ \E d \in Daemons : Signal(d) \/ Crash(d)
  \/ \E kind \in {"request", "shutdown"} : Client(kind)

Spec == Init /\ [][Next]_daemonVars /\ WF_daemonVars(Steps)

(***************************************************************************)
(* No wake-up is lost: a daemon that blocks in accept with its flag set    *)
(* has a connection waiting or one still to come, unless another daemon    *)
(* removed its socket file - the one case in which nothing ends it.  A     *)
(* daemon that ended leaves no file of its own, and a file that leads      *)
(* nowhere was left by a crash.                                            *)
(***************************************************************************)
DaemonsSound ==
  /\ \A d \in Daemons \ displaced :
       at[d] = "accept" /\ flag[d] =>
         backlog[d] # <<>> \/ monitor[d] = "watching" \/ handling[d] = "stored"
  /\ path # "none" => Alive(path) \/ at[path] = "crashed"
  /\ \A d \in Daemons : Alive(d) /\ path # d => d \in displaced

\* A daemon told to stop stops, unless its socket file was taken away.
DaemonsStop ==
  \A d \in Daemons : []<>(flag[d] => ~Alive(d) \/ d \in displaced)
=============================================================================
