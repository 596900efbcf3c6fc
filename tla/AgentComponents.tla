-------------------------- MODULE AgentComponents --------------------------
(***************************************************************************)
(* An agent's tools and its model: the components that an agent uses and that *)
(* share no variable with one another.  Each has its own specification; here *)
(* they stand side by side, with what they promise together.               *)
(***************************************************************************)
EXTENDS Naturals

CONSTANTS Askers, MaxPrompts, Parents, MaxChildren, MaxMessages, TimeLimit,
          Authors, MaxWrites, Agents, Names, MaxCommits, MaxEntries,
          Given, MaxNodes, Roots, MaxCalls, MaxFrames, MaxReport, Critical,
          MaxOutput, MaxTargets, Fallback, MaxAttempts, MaxRetries,
          FirstDelay, MaxDelay, MaxPhrases

VARIABLES allowlist, decision, ancestor, default, relaxed, accessMode,
          trust, sessionGrants, project, hand, said, staleGrant, keptGrants,
          strayed, prompts
VARIABLES spawned, child, registry, seq, waiting, notices, told, inbox, got,
          meant, late
VARIABLES commandAt, shell, holder, commandCancelled, overdue, commandResult
VARIABLES fileDisk, writes, step, look, overlapped, fileSpoiled, authored
VARIABLES entries, nextEntry, dir, branch, base, commits, merging,
          treeLeaving, discarded, treeExposed, reused, stranded
VARIABLES treeFile, treeTmp, treeDoing, mem, births, links, passed, clashed,
          odd, treeDropped
VARIABLES kind, root, client, nextRequest, proc, frames, asked, document,
          rpcDisk, rpcCall, rpcCalls, wrong
VARIABLES report, parsed
VARIABLES phase, suite, tests, pipe, read, parser, stop, token, suiteLate,
          board, next, truth, targets
VARIABLES at, endpoint, attempt, delay, retries, cancelled, result, slept,
          calls, doomed, refused

Access == INSTANCE Permissions
  WITH Agents <- Askers, mode <- accessMode, kept <- keptGrants,
       session <- sessionGrants, file <- allowlist, stale <- staleGrant
Subs == INSTANCE Subagents
Command == INSTANCE CommandRuns
  WITH at <- commandAt, proc <- shell, cancelled <- commandCancelled,
       result <- commandResult
Files == INSTANCE AuthoredFiles
  WITH Agents <- Authors, disk <- fileDisk, spoiled <- fileSpoiled
Trees == INSTANCE Worktrees
  WITH exposed <- treeExposed, doing <- treeLeaving
Causal == INSTANCE CausalTree
  WITH file <- treeFile, tmp <- treeTmp, step <- treeDoing,
       dropped <- treeDropped
Rpc == INSTANCE RpcClients
  WITH call <- rpcCall, calls <- rpcCalls, disk <- rpcDisk
Verdicts == INSTANCE Review
  WITH MaxLines <- MaxReport
Check == INSTANCE VerifyRun
  WITH late <- suiteLate
Model == INSTANCE Completions

ASSUME AgentComponentsAssumption ==
  /\ Access!PermissionAssumption
  /\ Subs!SubagentAssumption
  /\ Command!CommandAssumption
  /\ Files!FilesAssumption
  /\ Trees!WorktreeAssumption
  /\ Causal!CausalAssumption
  /\ Rpc!RpcAssumption
  /\ Verdicts!ReviewAssumption
  /\ Check!VerifyRunAssumption
  /\ Model!CompletionsAssumption

accessVars == <<allowlist, decision, ancestor, default, relaxed, accessMode,
                trust, sessionGrants, project, hand, said, staleGrant,
                keptGrants, strayed, prompts>>
subsVars == <<spawned, child, registry, seq, waiting, notices, told, inbox,
              got, meant, late>>
commandVars == <<commandAt, shell, holder, commandCancelled, overdue,
                 commandResult>>
filesVars == <<fileDisk, writes, step, look, overlapped, fileSpoiled,
               authored>>
treesVars == <<entries, nextEntry, dir, branch, base, commits, merging,
               treeLeaving, discarded, treeExposed, reused, stranded>>
causalVars == <<treeFile, treeTmp, treeDoing, mem, births, links, passed,
                clashed, odd, treeDropped>>
rpcVars == <<kind, root, client, nextRequest, proc, frames, asked, document,
             rpcDisk, rpcCall, rpcCalls, wrong>>
verdictsVars == <<report, parsed>>
checkVars == <<phase, suite, tests, pipe, read, parser, stop, token,
               suiteLate, board, next, truth, targets>>
modelVars == <<at, endpoint, attempt, delay, retries, cancelled, result,
               slept, calls, doomed, refused>>
agentVars == <<accessVars, subsVars, commandVars, filesVars, treesVars,
               causalVars, rpcVars, verdictsVars, checkVars, modelVars>>

-----------------------------------------------------------------------------
(***************************************************************************)
(* A tool call runs without a prompt only by a grant that covers it, and   *)
(* grants are neither lost nor passed on (Permissions: permission.rs,      *)
(* trust.rs, sandbox.rs).                                                  *)
(***************************************************************************)
AccessSound == Access!AccessSound

(***************************************************************************)
(* What agents write side by side is kept: files, skills and prompts       *)
(* (AuthoredFiles), branches of worktrees (Worktrees) and nodes of the     *)
(* causal graph (CausalTree), but for the races each module names.         *)
(***************************************************************************)
WorkKept ==
  /\ Files!FilesSound
  /\ Trees!WorktreesSound
  /\ Causal!CausalSound

(***************************************************************************)
(* Sub-agents are reported once, to their own parent, and messages reach   *)
(* the one they were meant for (Subagents: agent.rs).                      *)
(***************************************************************************)
SubagentsSound == Subs!SubagentsSound

(***************************************************************************)
(* The outcome a caller gets is what happened: a shell command             *)
(* (CommandRuns), a request to an MCP or language server (RpcClients), a   *)
(* model call with its retries (Completions), a review's verdict (Review)  *)
(* and a verification run's scenarios (VerifyRun).                         *)
(***************************************************************************)
OutcomesSound ==
  /\ Command!CommandSound
  /\ Rpc!RpcSound
  /\ Model!CompletionSound
  /\ Verdicts!ReviewSound
  /\ Check!VerifySound
=============================================================================
