-------------------------- MODULE MCComponents ---------------------------
(***************************************************************************)
(* The components that share no variable with one another or with the      *)
(* modules checked on their own, side by side: `focus` says which of them  *)
(* moves while the others rest, so that the states are the sum of theirs,  *)
(* not the product.  What a component leaves to its environment (another   *)
(* process, a server, a user) is in its own module.  A component at rest   *)
(* has one of its initial states.                                          *)
(***************************************************************************)
EXTENDS AgentComponents, DaemonComponents

\* A scenario that may be skipped, then two critical ones.
CriticalScenarios == <<FALSE, TRUE, TRUE>>

VARIABLE focus

vars == <<focus, agentVars, daemonVars>>

Components == {"run", "ledger", "stream", "cron", "causal", "worktrees",
               "access", "subagents", "review", "command", "services",
               "files", "rpc", "connection", "completion", "page", "trace",
               "daemons", "stamps", "ticks", "verify"}

RunAtRest ==
  /\ graph = Run!NoGraph /\ readable = TRUE
  /\ plans = [i \in 1 .. MaxId |-> "none"]

Init ==
  /\ focus \in Components
  /\ Ledger!Init /\ Stream!Init /\ Causal!Init /\ Trees!Init /\ Subs!Init
  /\ Verdicts!Init /\ Service!Init /\ Files!Init /\ Model!Init /\ Page!Init
  /\ Tracing!Init /\ Stamp!Init /\ Check!Init
  /\ Run!Init /\ (focus # "run" => RunAtRest)
  /\ Cron!Init /\ (focus # "cron" => ~session)
  /\ Access!Init /\ (focus # "access" => allowlist = Access!Absent /\ ancestor = "none" /\ ~default)
  /\ Command!Init /\ (focus # "command" => ~commandCancelled)
  /\ Rpc!Init /\ (focus # "rpc" => kind = "mcp" /\ root = CHOOSE r \in Roots : TRUE)
  /\ Link!Init /\ (focus # "connection" => ~once)
  /\ Life!Init /\ (focus # "daemons" => start = [d \in Daemons |-> 1])
  /\ Ticks!Init /\ (focus # "ticks" => ~undone)

Next ==
  \/ /\ focus = "run" /\ Run!Next
     /\ UNCHANGED <<focus, ledgerVars, streamVars, tracingVars, cronVars,
                    serviceVars, linkVars, lifeVars, stampVars, ticksVars,
                    pageVars, agentVars>>
  \/ /\ focus = "ledger" /\ Ledger!Next
     /\ UNCHANGED <<focus, runVars, streamVars, tracingVars, cronVars,
                    serviceVars, linkVars, lifeVars, stampVars, ticksVars,
                    pageVars, agentVars>>
  \/ /\ focus = "stream" /\ Stream!Next
     /\ UNCHANGED <<focus, runVars, ledgerVars, tracingVars, cronVars,
                    serviceVars, linkVars, lifeVars, stampVars, ticksVars,
                    pageVars, agentVars>>
  \/ /\ focus = "access" /\ Access!Next
     /\ UNCHANGED <<focus, subsVars, commandVars, filesVars, treesVars,
                    causalVars, rpcVars, verdictsVars, checkVars,
                    modelVars, daemonVars>>
  \/ /\ focus = "subagents" /\ Subs!Next
     /\ UNCHANGED <<focus, accessVars, commandVars, filesVars, treesVars,
                    causalVars, rpcVars, verdictsVars, checkVars,
                    modelVars, daemonVars>>
  \/ /\ focus = "command" /\ Command!Next
     /\ UNCHANGED <<focus, accessVars, subsVars, filesVars, treesVars,
                    causalVars, rpcVars, verdictsVars, checkVars,
                    modelVars, daemonVars>>
  \/ /\ focus = "files" /\ Files!Next
     /\ UNCHANGED <<focus, accessVars, subsVars, commandVars, treesVars,
                    causalVars, rpcVars, verdictsVars, checkVars,
                    modelVars, daemonVars>>
  \/ /\ focus = "worktrees" /\ Trees!Next
     /\ UNCHANGED <<focus, accessVars, subsVars, commandVars, filesVars,
                    causalVars, rpcVars, verdictsVars, checkVars,
                    modelVars, daemonVars>>
  \/ /\ focus = "causal" /\ Causal!Next
     /\ UNCHANGED <<focus, accessVars, subsVars, commandVars, filesVars,
                    treesVars, rpcVars, verdictsVars, checkVars, modelVars,
                    daemonVars>>
  \/ /\ focus = "rpc" /\ Rpc!Next
     /\ UNCHANGED <<focus, accessVars, subsVars, commandVars, filesVars,
                    treesVars, causalVars, verdictsVars, checkVars,
                    modelVars, daemonVars>>
  \/ /\ focus = "review" /\ Verdicts!Next
     /\ UNCHANGED <<focus, accessVars, subsVars, commandVars, filesVars,
                    treesVars, causalVars, rpcVars, checkVars, modelVars,
                    daemonVars>>
  \/ /\ focus = "verify" /\ Check!Next
     /\ UNCHANGED <<focus, accessVars, subsVars, commandVars, filesVars,
                    treesVars, causalVars, rpcVars, verdictsVars,
                    modelVars, daemonVars>>
  \/ /\ focus = "completion" /\ Model!Next
     /\ UNCHANGED <<focus, accessVars, subsVars, commandVars, filesVars,
                    treesVars, causalVars, rpcVars, verdictsVars,
                    checkVars, daemonVars>>
  \/ /\ focus = "trace" /\ Tracing!Next
     /\ UNCHANGED <<focus, runVars, ledgerVars, streamVars, cronVars,
                    serviceVars, linkVars, lifeVars, stampVars, ticksVars,
                    pageVars, agentVars>>
  \/ /\ focus = "cron" /\ Cron!Next
     /\ UNCHANGED <<focus, runVars, ledgerVars, streamVars, tracingVars,
                    serviceVars, linkVars, lifeVars, stampVars, ticksVars,
                    pageVars, agentVars>>
  \/ /\ focus = "services" /\ Service!Next
     /\ UNCHANGED <<focus, runVars, ledgerVars, streamVars, tracingVars,
                    cronVars, linkVars, lifeVars, stampVars, ticksVars,
                    pageVars, agentVars>>
  \/ /\ focus = "connection" /\ Link!Next
     /\ UNCHANGED <<focus, runVars, ledgerVars, streamVars, tracingVars,
                    cronVars, serviceVars, lifeVars, stampVars, ticksVars,
                    pageVars, agentVars>>
  \/ /\ focus = "daemons" /\ Life!Next
     /\ UNCHANGED <<focus, runVars, ledgerVars, streamVars, tracingVars,
                    cronVars, serviceVars, linkVars, stampVars, ticksVars,
                    pageVars, agentVars>>
  \/ /\ focus = "stamps" /\ Stamp!Next
     /\ UNCHANGED <<focus, runVars, ledgerVars, streamVars, tracingVars,
                    cronVars, serviceVars, linkVars, lifeVars, ticksVars,
                    pageVars, agentVars>>
  \/ /\ focus = "ticks" /\ Ticks!Next
     /\ UNCHANGED <<focus, runVars, ledgerVars, streamVars, tracingVars,
                    cronVars, serviceVars, linkVars, lifeVars, stampVars,
                    pageVars, agentVars>>
  \/ /\ focus = "page" /\ Page!Next
     /\ UNCHANGED <<focus, runVars, ledgerVars, streamVars, tracingVars,
                    cronVars, serviceVars, linkVars, lifeVars, stampVars,
                    ticksVars, agentVars>>

Spec ==
  /\ Init /\ [][Next]_vars
  /\ WF_runVars(focus = "run" /\ Run!Steps)
  /\ WF_subsVars(focus = "subagents" /\ Subs!ChildSteps)
  /\ WF_commandVars(focus = "command" /\ Command!Steps)
  /\ WF_rpcVars(focus = "rpc" /\ Rpc!CallSteps)
  /\ WF_linkVars(focus = "connection" /\ Link!DaemonSteps)
  /\ WF_linkVars(focus = "connection" /\ Link!WriterSteps)
  /\ WF_linkVars(focus = "connection" /\ Link!ClientSteps)
  /\ WF_linkVars(focus = "connection" /\ Link!ReaderSteps)
  /\ WF_modelVars(focus = "completion" /\ Model!Steps)
  /\ WF_lifeVars(focus = "daemons" /\ Life!Steps)
  /\ WF_checkVars(focus = "verify" /\ Check!Steps)

-----------------------------------------------------------------------------

\* The behaviour is another component's (focus never changes).
Elsewhere(component) == []<>(focus # component)

(***************************************************************************)
(* Every headless run ends, whatever its turns and reviews do to the graph *)
(* (background.rs), and nobody waits for ever for one who has stopped: a   *)
(* parent for its child (agent.rs), a tool call for its process            *)
(* (builtin.rs) or server (mcp.rs, lsp.rs), a client for the daemon        *)
(* (socket.rs), a turn for its provider, a signal for the daemon's end     *)
(* (daemon/mod.rs), an agent for its verification (verify/runner.rs); each *)
(* under the fairness of the threads that serve it, and but for the waits  *)
(* without a limit that each module names.  And the renderings of the      *)
(* causal graph, loops over what the file says, end (reason.rs).           *)
(***************************************************************************)
EverythingEnds ==
  /\ Elsewhere("run") \/ Run!RunEnds
  /\ Elsewhere("subagents") \/ Subs!ParentsReturn
  /\ Elsewhere("command") \/ Command!CommandEnds
  /\ Elsewhere("rpc") \/ Rpc!RpcEnds
  /\ Elsewhere("connection") \/ Link!ConnectionEnds
  /\ Elsewhere("completion") \/ Model!CompletionEnds
  /\ Elsewhere("daemons") \/ Life!DaemonsStop
  /\ Elsewhere("verify") \/ Check!VerifyEnds
  /\ []Causal!TracesEnd
=============================================================================
