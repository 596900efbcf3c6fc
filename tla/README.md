# CodeCoder in TLA+

A verification development of the Rust program in `src/`: an LLM coding agent
with a terminal front end, a daemon (`ccda`) that serves several clients over a
Unix socket, and a background runner that works through a graph of milestones.
The modules are translated from the source; `PROJECT.json` names, for every
definition, the lines it stands for.

## 1. Inventory

| component | state | operations | talks to |
|---|---|---|---|
| work graph (`workgraph.rs`) | milestones with dependencies and a status | add, set status, remove, next ready, recompute blocked | everything that schedules work |
| work graph store (`workgraph.rs`) | `workgraph.json`, its `.tmp`, its `.lock` | read, save, with_lock | all writers; readers take no lock |
| milestone drivers (`agent.rs`, `background.rs`) | which milestone a thread works on, plan files | drive_workgraph, advance_one_milestone | store, agent turns |
| daemon turns (`daemon/`) | command and event queues, the turn token | dispatch, drain, prompt replies, ticks, cron | agents, clients |
| agent turn loop (`agent.rs`) | session, cancel flag, steering queue, retries | process_turn, dispatch_tool | provider, tools, clients |
| sub-agents (`agent.rs`, `tool/send_message.rs`) | registry of mailboxes, task notifications | spawn, fork, send, report | their parents |
| background run (`background.rs`, `bg_ledger.rs`, `bg_observer.rs`, `lib.rs`) | phase, cycle and milestone budgets, checkpoint, outcome, ledger, event stream | seed, inner loop, quality review, report | drivers, the daemon's ledger threads |
| session record (`session.rs`, `compaction.rs`) | a tree of messages and a leaf | append, navigate, save, recover, compact | agent |
| event bus and connection guard (`daemon/bus.rs`, `daemon/socket.rs`, `client/`, `bin/ccli.rs`) | subscribers, senders of a connection, the client's threads | register, broadcast, unregister, drop; ask, print, answer | every daemon thread, a terminal |
| supervisor (`capability.rs`, `supervisor_state.rs`) | running services, crash counts on disk | start, supervise, give up, run by hand | daemon, capability tools |
| daemon life (`daemon/mod.rs`, `recovery.rs`, `provider_health.rs`, `alert.rs`) | socket file, shutdown flag, stamp file, failure count | bind, accept, signal, restart; write, judge, probe, alert | watchdog, clients, provider |
| permissions, trust, sandbox | allowlists, trust store | ask, grant, record, confine | agent, tools |
| registry (`registry.rs`) and authored files (`tool/builtin.rs`) | catalog, skills, prompts, project files | scan and swap; edit, write, generate, promote | agents side by side |
| shell tool (`tool/builtin.rs`) | a child process, two readers | run, cancel, time out | agent |
| worktrees, cron (`tool/worktree.rs`, `tool/cron.rs`) | list of worktrees, git branches; cron jobs | enter, exit; create, delete, poll | agents, the cron thread |
| causal graph (`tool/reason.rs`) | `causal_tree.json` | add, set status, rule, trace | agents, sessions |
| MCP and LSP clients (`tool/mcp.rs`, `tool/lsp.rs`) | one client per server behind one lock | spawn, request, reopen, drop | servers |
| providers (`provider/`, `retry.rs`) | nothing between calls | complete, retry, fall back | HTTP endpoints |
| trace (`trace/`) | open spans, writer threads, rotated files | span starts and ends, rotate, read | agents, readers |
| verification and review (`verify/`, `review.rs`) | the board of suites and scenarios; signals and a verdict | run, parse, cancel, explore; read a report | agent, client |
| visual server (`visual/`) | ring of events, connected pages, watched files | ingest, register, catch up, debounce | daemon, browsers |
| wire protocol, configuration, memory, help | none of their own | | |

What is hard here:

* **Threads and processes on one file.** The daemon's threads, its agents and
  headless background processes update one `workgraph.json`; readers take no
  lock, writers may crash.
* **Decisions that outlive what they were read from.** A driver reads the next
  milestone, runs a model turn of minutes, then writes the result.
* **Streams that several threads share.** One event queue per session, one
  forwarder thread per request, turns nobody asked for (driven, injected), two
  120 second timers, prompts answered inline.
* **Panics.** `expect`, `unreachable!` and `unwrap` on mutexes in threads that
  hold the turn token or own a session.
* **Budgets and retries.** Tool iterations, provider retries at three levels,
  milestones per turn, cycles per run, crash budgets.
* **Files rewritten whole.** The project allowlist, the causal tree, the ledger,
  the stamp and every file two agents edit are read, changed and written back
  without a lock.
* **Children and pipes.** A shell command's grandchildren keep its pipes open, a
  server may die or be silent in the middle of a call, a client may leave at a
  prompt: somebody waits for each of them.

`PROJECT.json` lists each such place as a hazard, at its line, with the
properties that would catch it.

What makes each component correct, in short: the graph stays resolvable,
acyclic and schedulable; the file is never torn and no update is lost; drivers
neither die nor undo completed work, and everything gets done; prompts are
answered by the turn's own client, requests end, and background work does not
run into a user's turn; every request to a provider is well formed and no input
is lost; the record stays a tree, is saved, and what the provider is told of it
is true; a headless run reports what it did; no log, file, branch or node is
lost but through the races its module names; nothing runs without a grant that
covers it; every call, child, connection and process that somebody waits for
comes to an end.

## 2. Plan

| order | module | what | runs | proofs |
|---|---|---|---|---|
| 1 | `WorkGraph`, `WorkGraphSpec` | the graph and its atomic specification | done | done |
| 2 | `WorkGraphStore` | lock, temporary file, rename; refines 1 | done, and one violation | done |
| 3 | `MilestoneDrivers` | composes the drivers over 1; refines 1 | done, and one violation | done |
| 4 | `DaemonTurns` | sessions, forwarders, token | done, and two violations | done |
| 5 | `Transcript`, `AgentTurn` | the tool loop: cancel, steer, retries, truncation, caps | done | done |
| 6 | `SessionTree` | record, navigation, save, compaction | done, and one violation | done |
| 7 | `BackgroundRun`, `BgLedger`, `EventStream` | a headless run and what it leaves behind | done | done |
| 8 | `Permissions`, `Subagents`, `CommandRuns`, `AuthoredFiles`, `Worktrees`, `CausalTree`, `RpcClients`, `Completions`, `Review`, `VerifyRun`, `Traces` | what an agent does and what serves it | done | done but for `TracesEnd` |
| 9 | `CronJobs`, `Services`, `Connections`, `Daemons`, `Stamps`, `WorkgraphTick`, `Visual` | the daemon's threads, their files and their clients | done | done |
| 10 | `AgentComponents`, `DaemonComponents`, `MCComponents` | compose 7 to 9 | done | done |

"Done" in the last column is every safety property and every action property of
the module's passing run; liveness stays with the model checker (section 6).
Runs keep small sets (two clients, two writers, ids up to 2 or 4); the theorems
are for all values of the constants.

## 3. Modules

### WorkGraph, WorkGraphSpec

`WorkGraph` is the graph as a value: a function from ids to `[deps, status]`,
with one operator per function of `workgraph.rs` (`Add`, `SetStatus`, `Remove`,
`RecomputeBlocked`, `Ready`...) and those the callers build from them
(`AddBatch` for the issue seeder, `ResetMilestone`, `ResetInProgress`). Ids are
unique, so the order of the vector is left out; so are titles, apart from the
empty one. A legacy `todos.json` is taken to have distinct positive ids.
`WorkGraphSpec` makes each operation that the system applies inside `with_lock`
one atomic action. Its names (`graphVars`, `GraphInit`, `GraphNext`,
`GraphSpec`, `GraphTyped`) are its own, so that a module that uses the same
graph can extend it.

Run `WorkGraphSpec`: ids up to 4, which is enough for chains, diamonds, removal
of the last node and reuse of its id.

### WorkGraphStore

The same operations through `with_lock`: take the lock, read, run the closure,
truncate and write the temporary file, rename, unlock. A writer may crash
between any two steps, the closure may refuse, the write or the rename may
fail. `Current` is what a reader without the lock sees; it is also the
refinement mapping to `WorkGraphSpec`.

Fairness: a thread inside `with_lock` keeps running or crashes (weak fairness
of its steps). Nothing is assumed about who takes the lock.

Run `WorkGraphStore`: two writers, ids up to 2. Two writers are enough for
every overlap of a read with another's write.
Run `WorkGraphStoreUnreadable` starts on a file that does not parse, and shows
that it is overwritten (finding 1).

### MilestoneDrivers

Every thread that moves milestones: agent threads in `drive_workgraph`,
callers of `advance_one_milestone`, any number of `milestone` tool calls inside
a turn, a client's reset, a background start and the issue seeder. A locked
update is one step, which the refinement of `WorkGraphStore` justifies. The
module extends `WorkGraphSpec`, with which it shares the variable `graph`, so
that the refinement is `ImplementsGraph == GraphSpec`.
`plans` is the set of plan files: absent, readable or corrupt. A thread that
hits one of the two `expect`s is `dead`.

Fairness: threads keep running; a plan or an execution turn that is tried again
and again succeeds at some point (strong fairness). Without it a provider that
always fails stops everything, as it does in the code.

Run `MilestoneDrivers`: one session, one advancer, two milestones, `MaxAuto` 2.
Two drivers and two milestones make every race of a pick with a write-back, and
a dependent milestone that waits. `MAX_AUTO` is 3 in the code; two shows both a
second round and the cap.
`EverythingGetsDone` is conditional on no turn starting or removing milestones
by hand and on no corrupt plan file, because the code gives no way out of
these: a started milestone is picked by nobody until somebody resets it, and a
corrupt plan is never replaced.
Run `MilestoneDriversPlanFailure` shows finding 2.

### DaemonTurns

The daemon's threads around a session: the agent thread with its command and
event queues, a forwarder per request, connection threads with the turn token,
the workgraph and cron threads. An event is a text (any event that asks
nothing), a prompt or the `TurnComplete`; it carries the command of its turn.
`disturbed` is a history variable: it records that something happened after
which the streams may be mixed up.

Fairness: threads run; a timer fires if nothing else happens; an advance
returns; a client that is shown a prompt answers or leaves (the code waits for
it without a limit, and everybody else waits with it); a thread that waits for
the token gets it if it is free again and again (strong fairness: the standard
library's mutex promises no order, but does not starve in practice).

Run `DaemonTurns`: two clients, one session, two commands, one event per turn
before its end, one driven milestone per turn. That is enough for two
forwarders to race, for a driven or injected turn to meet a request, for both
timers and for every panic. `CHECK_DEADLOCK` is off: commands are bounded, so
the model stops when they are used up.
Runs `DaemonTurnsOwnStream` and `DaemonTurnsAdvanceWhenIdle` show findings 3
and 4.

### Transcript, AgentTurn

`Transcript` is a conversation as the provider sees it: a sequence of messages,
each reduced to its kind, the calls it makes or answers, and whether it was
truncated. `Sanitize` is `sanitize_unpaired_tool_calls`, `Paired` is what a
provider accepts; `InOrder` says that the inputs of one source in a transcript
are the first ones pushed, each once and in their order. `AgentTurn` is
`process_turn`: `Top` and `TopEnds` are the top of the tool loop, `CallRetried`
and `CallFails` are `complete_retrying`, the three `Reply` actions are the
branches on the reply, `Dispatch`, `BatchDone` and `PromptCancelled` the
dispatch of its calls. `Cancel` and `Push` are the other threads: the cancel
token, and the three queues a turn drains. After a reply without calls the
queues are looked at one after the other, each in a step of its own (`Look`),
and the turn ends when the last was found empty; what is pushed into a queue
already looked at stays there until the next turn. `LateInputAnswered` says just
that: a turn that ends by itself ends with a reply, and everything pushed before
that reply came is in the thread. `left` is what remains of the tool cap,
`raises` counts the doublings of `effective_max_tokens`.

A turn starts on a new session or on one that was cut short between a reply and
its results. A permission prompt is part of a tool call; it may also end the
turn. Left out: compaction (in `SessionTree`), trust, traces and the token
counter, and sub-agents, which run the same loop but start elsewhere: a fork
begins with the last 20 messages of its parent.

The token is looked at when an iteration begins and before a retry, and not
between the calls of a batch: the remaining calls of a cancelled turn still
run. The comment at `src/src/agent.rs:119` says otherwise.

Fairness: the agent's thread goes on (weak fairness of its steps together),
because a provider call returns or times out, tools end, and a prompt is
answered or its sender dropped.

Run `AgentTurn`: two calls in a reply, two iterations, one retry, one raise,
two pushed inputs, one turn. Two calls are needed to stop in the middle of a
batch; two iterations for what one leaves behind to reach the next request; two
inputs for an order among them. `CHECK_DEADLOCK` is off: turns are bounded.

### SessionTree

The record of a conversation: entries with parents, in the order of insertion,
and the leaf. `AppendMessage` is `AgentLoop::append` with its save; `Prompt` and
`Exchange` are where a turn appends. `Navigate`, `Clear` and `Resume` are the
commands of these names, `Restart` is a process that died and its successor,
and `Link` is the mark a `reason link` leaves on an entry. Every save is best
effort and may fail. `DeriveWhole` and `DeriveSummary` are
`context_working_set`. A message is its id and whether a user wrote it, and a
summary the set of messages it was made from: what was not sent to the
summarizer cannot be in it. Whether a thread is over the threshold depends on
token counts and is chosen freely.

Navigating to an id that does not exist leaves the leaf, but takes the whole
thread for abandoned, rules out its linked entries and does not save; the
properties say where they make an exception for this.

Run `SessionTree`: five messages, two processes, one failing save, one link.
Five are enough for two branches that both have a span to summarize.
`CHECK_DEADLOCK` is off because a session that is full and idle may stop.
Run `SessionTreeBranch` shows finding 5.

### The composition: MCComponents

The modules below share no variable with one another nor with the six above, so
they are checked in one run that is their sum and not their product: `focus`
names the component that moves, the others rest in one of their initial states.
The modules are instantiated in two groups, `AgentComponents` (an agent's tools
and its model) and `DaemonComponents` (the headless run with its logs, the
daemon with its clients), each with the properties that join its own;
`MCComponents` extends both.
What a component leaves to its surroundings (another process, a server, a user,
a clock) is in its own module as steps marked external, so that nothing is lost
by letting the others rest. Each module's property is a conjunct of one of the
run's properties:

| property of run `Components` | what it joins |
|---|---|
| `RunHonest` | `BackgroundRun` |
| `LogsAccounted` | `BgLedger`, `EventStream`, `Traces` |
| `AccessSound` | `Permissions` |
| `WorkKept` | `AuthoredFiles`, `Worktrees`, `CausalTree` |
| `SubagentsSound` | `Subagents` |
| `OutcomesSound` | `CommandRuns`, `RpcClients`, `Completions`, `Review`, `VerifyRun` |
| `DaemonSound` | `CronJobs`, `WorkgraphTick`, `Services`, `Daemons`, `Stamps` |
| `ClientsSound` | `Connections`, `Visual` |
| `EverythingEnds` | the liveness of `BackgroundRun`, `Subagents`, `CommandRuns`, `RpcClients`, `Connections`, `Completions`, `Daemons`, `VerifyRun`; `TracesEnd` of `CausalTree` |

`EverythingEnds` speaks of each component in the behaviours in which it moves
(`Elsewhere` is true of the others). `TracesEnd` is an invariant, but about the
end of two loops of the code. `CHECK_DEADLOCK` is off because a headless
run ends, and so does a call that nobody makes again.

Many of these components are racy by design: nobody locks the file, and the
code accepts that. Where that is so, a history variable records what the race
touched, as narrowly as the code allows: the records, nodes or commits that were
in its way (`exposed`, `spoiled`, `glued`, `passed`, `lost`), the calls, threads
or names it concerned (`overlapped`, `crossed`, `mixed`, `stranded`, `stale`), or
that it happened at all (`clashed`, `reused`, `collided`, `displaced`). The
property says that nothing is lost but through it, and where the code recovers
the mark is taken back (`doubtful` by the next write that was alone, `unsaved`
by the next save that succeeds, `missed` by the next fetch, `spoiled` of a file
by the next whole write). The property then fails for a change of the code that
adds another way to lose something, which is what it is for.

### BackgroundRun, BgLedger, EventStream

`BackgroundRun` is `main` of `ccda` in its headless modes: `Start` chooses the
mode, `TaskTurn` is a single task, `Load` to `CycleEnd` is the loop over
milestones with its plan and execution turns, `Review` the quality review that
may ask for another cycle, `Ledger` and `Alert` what `run_background` reports. A
turn is one step that may use the milestone tool in any way; the races with
other drivers are `MilestoneDrivers`'. `history` remembers what was done, for
comparison with what is reported. The limit on cycles is looked at when a cycle
ends, so that a limit of none allows one (`WithinBudget`). `BgLedger` is the
file of those reports while the daemon truncates it: a sequence of records and
newlines, since an append is an open (`Open`) and two writes (`WriteRecord`,
`WriteNewline`), between which other processes append, the process may be killed
(`AppendDies`), or the truncation replace the file; the handle is then `stray`
and what it writes goes to a file without a name. A line with two records parses
for no reader: `spoiled` are the records that met another append, or a file left
without a newline by a truncation or a killed process (`bare`). `EventStream` is
`.ccd.bg.ndjson` with the run's own handle, which writes at its own position,
and the agents' handles, which append.

Fairness: the run's thread goes on; its turns return or time out.

### Permissions

`dispatch_tool`'s gate for the calls that ask: `HeadlessCall`, `AllowedCall`
(a grant covers it) and `PromptedCall` (the answer may be a grant, once, for
the session or for the project, with `CeilingIsSession` for shell
capabilities); `Start` is `AgentLoop::build` with the trust decision,
`AnswerTrust` the question put before the first turn. A call is a key (with a
compound command's own key), a place inside or outside the sandbox, and a
scope. `hand` is what a person wrote into the file, `said` what an answer
granted; every other entry would be nobody's.

### Subagents

`Spawn`, forked or fresh, background or awaited; `Send` through the registry;
`Drain`, `EndTurn` and `BreakTurn` the child's turn; `Unregister`, `Report` and
`Panic` its end; `DrainNotices` the parent. Ids are numbered by each parent, so
children of two parents share them: the property is about children whose id
nobody else has, and `Send` shows what happens to the others. The history a
fork starts with is `SessionTree`'s and `Transcript`'s subject.

Fairness: a child's thread goes on.

### CommandRuns

`run_shell_cancellable`: the poll loop (`WatchCancel`, `WatchDeadline`,
`WatchExit`, in that order), the kill, and the join of the two readers. The
process may leave a child behind that holds the pipe (`Detaches`).
`CommandEnds` holds unless that child holds it for ever.

### AuthoredFiles, Worktrees, CausalTree

Three stores that agents share without a lock. In `AuthoredFiles` a write
truncates the file and then fills it; the two halves of `edit_file`, the steps of
a promotion, and the two directories that `use_skill` and a registry scan look
into one after the other (`LookSkills`, `LookPrompts`) interleave, and a call may
fail or be killed between any two of its steps (`Stop`). In `Worktrees` each git
command of `exit_worktree` is a step; a merge may conflict, a removal or the
deletion of the branch refuse, the process restart with an empty list. The list
is a set of numbered entries, of which `Latest` is the one `exit_worktree` takes.
`stranded` are the names whose branch was not deleted although the directory was
gone: their entry can be neither merged nor discarded any more. `CausalTree` is
load, edit, write and rename with one temporary name for all; `passed` are the
nodes that were saved while another agent held an older tree, `clashed` says
that two agents were in the temporary file at a time, and only after that can
the file tear. `RenderTrace` and `Below` are the two traversals, which loop for
ever on the cycles that parents out of order would make (`odd`).

### RpcClients

A call of a language or MCP server: `Begin` waits for the manager's lock,
`Take` gets the client or spawns one, `Request`, `Receive` and `Matches` are
the loop that skips every frame with another number, `Drop` and `Ended` the
client's end, `Reopen` the second opening of a file. The server is external: it
replies, speaks unasked, stays silent or dies. There is no timeout:
`RpcEnds` holds unless a live server is silent for ever, and then the lock
stays with its caller.

### Completions, Review, VerifyRun, Traces

`Completions` is one completion through three layers that may repeat it, with
their two classifiers of errors, which differ. An error is its status and the
phrases that occur in its body, since both classifiers look for theirs anywhere
in the text: the endpoint's by the status first (`EndpointRetries`), the agent's
by the two lists of lasting errors first and then by phrases among which there
are status codes (`AgentRetries`). So a request that was refused for good may be
repeated, and the property says when it is not: the agent does not repeat what
met only account limits and overflows (`doomed`), and no layer repeats what met
only errors in which nothing says that they will pass (`refused`). `Review`
reads a report line by line: `parsed` is what the parser has kept so far,
`Verdict` the end of `parse_review` with its reconciliation, and `LastOf` looks
at the whole report again, for comparison. `VerifyRun` is the suite as a child
process whose exit, output, reader, poll, token and timeout are separate steps,
then scenarios in order up to the first critical failure, then exploration;
`board` is the client's view after the events sent so far. The reader ends with
the output, at a cancel, or at a line that is not UTF-8; the poll then joins it
and waits for the process, with no timeout any more, which is one of the two
ways of `VerifyEnds` not to end. `Traces` is the way of a span from an agent
through a writer thread of its own to a file all writers append to and rotate,
and the tree a reader builds of it. A line and its newline are two writes, so
that the lines of two writers may become one, which readers skip (`glued`). A
writer counts the lines it wrote itself and not the file's, so that a file is
bounded only by the limit times the number of writers there were.

Fairness: `WF` of the steps of the thread that makes the call or runs the
suite; a request over HTTP returns or fails; the processes of a suite may run
for ever, which the timeout is for.

### CronJobs, WorkgraphTick, Stamps, Services, Daemons

`CronJobs` is `field_matches` on one of the five fields, against the texts a
tool call may give, and the thread that polls once a tick, late at times, with a
clock that may be set back. `WorkgraphTick` is the workgraph thread's round:
pause, turn token, probe with its alerts, advance, renewal. `Stamps` is
`write_stamp` by several threads through one temporary file and the watchdog's
judgement: threads that write while another does are `mixed`, and the stamp is
`doubtful` from the rename of one of these to the next rename of a thread that
was alone. `Services` is the supervisor with the crash record that outlives the
daemon, beside the table of services the tools start; neither knows of the
other. Every save of the record and every start may fail, which the code
ignores, and the file may be removed or damaged (`SpoilRecord`), which the next
load takes for an empty record. A manifest has the second of its last writing
and, apart from it, the number of its writings. `Daemons` is bind, accept, flag,
wake-up by self-connection and end, for several daemons on one path:
`DaemonsSound` says that one that blocks with its flag set will be woken, and
that one that lives without the path lost it to another.

Fairness (`Daemons` only): a daemon's threads go on once its flag is set.

### Connections, Visual

`Connections` is one connection end to end: handler, writer thread, channel and
its senders, the bus, and the client's two threads that share one keyboard.
`DropGuard` and `JoinWriter` are `ConnGuard`. `Visual` is the ring of events,
the page that registers and then catches up, the watcher with its 300 ms
debounce, and the page's fetches of the graph, each over a connection of its own:
when it is loaded (`Load`), when its tab is opened (`OpenTab`) and for each live
notice (`Forward`), served (`ServeWorkgraph`) and answered in any order
(`RenderLatest`, `RenderOlder`). A notice among the events it is sent to catch up
makes it fetch nothing, and a reconnect neither; `missed` says that a change was
announced to no live connection since the last fetch was served, `overtaken` that
the answer to an older fetch came last.

Fairness: the handler, the writer and the client's two threads each go on; a
person answers a prompt or leaves (`ConnectionEnds` excepts a person who stays
at one for ever).

## 4. Bounds

| bound | where | meaning |
|---|---|---|
| `MaxId` | all | largest milestone id |
| `MaxAuto` | drivers, daemon | turns of `drive_workgraph` after a user's turn |
| `MaxSessions`, `MaxCmds`, `MaxEvents` | daemon | sessions, commands sent, events of a turn |
| `MaxCalls`, `MaxTurns`, `MaxInput` | agent turn | calls in a reply, turns, inputs pushed |
| `ToolCap`, `MaxRetries`, `MaxRaises`, `NudgeAfter` | agent turn | the code's own limits, smaller |
| `MaxEntries`, `MaxLinks`, `MaxFiles`, `MaxFails` | session | messages appended, links, processes, saves that fail |

Run `Components`:

| constants | value | why enough |
|---|---|---|
| `MaxAuto`, `MaxCycles`, `MaxId` | 2 | a second milestone and a second cycle, and both caps |
| `MaxLines`, `MaxRecords` | 2, 5 | two truncations, the second of lines that the first left without a newline and an append joined |
| `RotateSize`, `MaxRotated`, `MaxStream` | 1, 2, 7 | every place of an event is reached: live, two rotated files, dropped |
| `Askers`, `Parents`, `Authors`, `Agents`, `Daemons`, `Threads`, `Traced` | two each | every race named is between two |
| `MaxPrompts`, `MaxJobs`, `MaxClients`, `MaxCommits`, `MaxTargets` | 1 | the same thing done twice by the other actor is still there: grants are shared, jobs and commits are independent |
| `MaxChildren`, `MaxMessages`, `MaxWrites`, `MaxEntries`, `MaxNodes`, `MaxCalls`, `MaxFrames`, `MaxRequests`, `MaxTurnEvents` | 2 | one under way while another starts; a frame left over from the call before |
| `MaxReport`, `Critical` | 3 | verdict, signals and a second of one; a scenario before and after a critical one |
| `MaxAttempts`, `MaxRetries`, `FirstDelay`, `MaxDelay`, `MaxPhrases` | 2, 1, 4, 7, 2 | every layer repeats; the doubled delay and the jitter meet the maximum; a phrase of each of two lists in one body |
| `Given` | {0} | a parent that is a node, and for the first node one that is not |
| `TraceSize`, `TraceRotated`, `MaxSpans`, `MaxSeconds`, `MaxWriters` | 3, 1, 2, 2, 3 | a turn with a call or two turns, a rotation between a start and its end, and a successor of a crashed writer; that the oldest file is removed is left to the proof |
| `Minute`, `Lo`, `Hi`, `MaxTime` | 2, 1, 3, 5 | a field of three values; two full minutes and a late round in each |
| `Budget`, `MaxVersions`, `MaxLives` | 2, 2, 3 | the budget used up across two restarts, and reset by a new manifest |
| `MaxRestarts` | 2 | a bind that fails is tried again once, then given up |
| `MaxAge`, `MaxClock` | 2, 3 | a stamp younger than, as old as and older than the limit |
| `Threshold`, `Cooldown`, `MaxTicks` | 2, 3, 6 | below, at and past the threshold, recovery, and two renewals |
| `PageVersions`, `MaxFeed`, `MaxFetches`, `CatchUpCount`, `BufferMax`, `MaxPipe` | 2, 2, 1, 1, 2, 1 | a change before and after every fetch, two answers on the way; the page catches up with less than the ring holds (that the ring drops its oldest event is left to the proof); a full socket |

Guards that exist only because of a bound are marked `\* bound`.

## 5. Findings

1. `with_lock` uses `read`, which takes an unreadable file for an empty graph,
   and saves over it; `read_checked`'s comment promises that write paths do not.
2. After a failed plan turn the milestone is not blocked: `set_status`
   recomputes the status it has just assigned.
3. `dispatch` does not return "that turn's events": a client can get another
   turn's events and answer its prompts.
4. The turn token does not signal a running turn: the workgraph thread can
   advance a milestone during one.
5. After navigating to another branch the cached tier-2 summary is extended
   instead of redone: it goes on telling what happened on the abandoned branch.

Seen while translating, without a run of their own; where a module is named its
property makes an exception for it:

* `BgObserver::start_run` creates the file anew and then writes at its own
  position, over what the agents' observers appended; the comment at
  `src/src/bg_observer.rs:36` takes both for one stream (`EventStream`, `torn`).
* Truncation leaves the ledger without a newline at its end: the next record
  joins the last line, and readers skip both. So do two appends at a time, and
  an append opened before the truncation's rename is lost (`BgLedger`, `bare`,
  `spoiled`, `stray`).
* Input pushed into a queue after the ending turn has looked at it waits for the
  next turn (`AgentTurn`); by
  `src/docs/adr/0029-turn-steering-and-follow-up.md:32` late input restarts the
  turn.
* A refused request whose body contains "500", "timeout" and the like is
  repeated, and an overflow reported with a 429 or 5xx is repeated by the
  endpoint's layer, which `src/src/retry.rs:93` calls futile (`Completions`).
* A promotion that is cut short leaves an empty or partial skill, which hides
  the draft and cannot be promoted over; and a `use_skill` in the midst of a
  promotion may find neither (`AuthoredFiles`, `spoiled`, `crossed`).
* After a `git branch -D` that failed an entry can only be kept, and it stands
  before all older ones (`Worktrees`, `stranded`).
* A save of the crash record that fails is ignored, so that a restart forgets
  crashes; and a manifest rewritten within the second of its last writing keeps
  its record (`Services`, `unsaved`, `uncounted`).
* The page shows an old graph after a reconnect, or when the notice of the change
  was among the events it caught up with (`Visual`, `missed`).
* A test that prints a line that is not UTF-8 ends the reader: what was parsed so
  far is reported as the result, and the wait for the suite has no timeout
  (`VerifyRun`, `garbled`).
* A project grant rewrites `codecoder.json` from what the agent read when it
  was trusted, and so takes back what another agent granted since
  (`Permissions`, `stale`).
* A job's minute is counted from its last firing and not from the clock's, so
  that a late round delays the next and may skip one (`CronJobs`).
* A second daemon removes the socket file of the first, which then never
  wakes from `accept` (`Daemons`, `displaced`).
* A quality review whose turn fails counts as passed, and the work of the last
  cycle is never reviewed (`BackgroundRun`).
* The stamp's `workgraph_mtime` is read from `.ccd_workgraph.json`, a name
  nothing writes (`src/src/daemon/mod.rs:172`).
* `reload_now` in a daemon shows the catalog before the reload thread has
  rescanned it (`src/src/agent.rs:681`).
* The issue seeder takes an issue for seeded when "#1" occurs in any title,
  such as "#12: ..." (`src/src/daemon/task_source.rs:147`); titles are not
  modelled.

## 6. Proofs

Eight modules hold theorems, all checked by TLAPS:

| module | proves about |
|---|---|
| `WorkGraphLemmas` | the operators of `WorkGraph`: what each preserves |
| `WorkGraphStoreProofs` | `WorkGraphStore`, and its refinement of `WorkGraphSpec` |
| `MilestoneDriversProofs` | `WorkGraphSpec`; `MilestoneDrivers`, and its refinement |
| `DaemonTurnsProofs` | `DaemonTurns` |
| `AgentTurnProofs` | `AgentTurn` over `Transcript` |
| `SessionTreeProofs` | `SessionTree` |
| `AgentComponentProofs` | the ten modules of `AgentComponents` |
| `DaemonComponentProofs` | the eleven modules of `DaemonComponents` |

The only assumptions are the named `ASSUME`s of the modules they are about:
bounds and limits are natural numbers (at least 1 where the code's constant
cannot be 0: the tool cap, a minute, the size of a trace file, the attempts to
bind), the values for "nobody" are none of the threads, session and advancer
threads are different ones, and the agents that share a trace are finitely many.
`AgentComponents` and
`DaemonComponents` assume those of the modules they instantiate. A component's
theorem is about its own specification; those that join several have the
conjunction of theirs as hypothesis. Every `Spec` of the composition implies
these, because a step of another component is a stutter of this one.

Each theorem rests on an inductive invariant. Why it says more than the property:

* **The graph.** The properties of run `WorkGraphSpec` for every `MaxId`.
  None of them but the type is inductive alone. The invariant `Sound` adds that
  dependencies are older than their dependents: `add` accepts only ids that
  exist and then hands out a larger one, and removal never frees an id that
  somebody depends on. Acyclicity follows (the smallest member of any
  set of nodes waits for none of the set), and so does
  `NeverWedged`: the smallest unfinished node has only finished dependencies.
  `WorkGraphLemmas` proves once, per operation, that it preserves `Sound`.
* **The store.** `StoreInv`: whoever is inside `with_lock` holds the lock, and
  what it is about to save is an outcome of the graph still on disk.
  `Refinement` then maps every step to a step of `WorkGraphSpec` or a stutter:
  only the rename changes `Current`.
* **The drivers.** `DriversRefineGraph`: whatever the threads do, the graph
  changes by one operation of `WorkGraphSpec` or not at all. With the store's
  refinement this closes the chain from the files to the atomic graph.
  `DriversSurviveHolds` and `CompletionKeptHolds` need `DriversInv`: a driver
  past its read works on a milestone that is still in the graph unless one was
  removed meanwhile (`Present`), so the two `expect`s find it; and `done` is
  taken away only by a `milestone start` or by a driver whose plan turn failed.
* **The daemon's prompts.** `TurnsInv` counts the prompts of a session: at most
  one, in one place (the session's queue, the channel of one request, one
  client's screen), and none while the agent does not ask. `Ask` may add one
  because there is none, each thread moves it and does not copy it, and an agent
  that goes on without an answer does so when it is nowhere. Even the types need
  this: the answer of a client sets an agent back into its turn, which must be
  one it had.
* **The daemon's streams.** `OwnStreamUndisturbed` and
  `AdvanceWhenIdleUndisturbed` need `StreamsInv`: until something disturbs them,
  a session's events stand in the order of their commands, each turn's before
  its `TurnComplete` (`Ordered`); whoever forwards is older than whoever waits
  (`FwdsInTurn`); and for each command with a forwarder the turn is over, under
  way or still to come (`InTurnOf`), so that a forwarder that gets the queue
  finds in it what is its own. `Held` says who has the token, disturbed or not.
* **The record.** `TreeSoundHolds` and `SaveIsCurrentHolds` from `RecordInv`:
  every file is a tree too, with ids below the number of messages ever
  appended, which the next id never overtakes, whether a session is new,
  cleared or resumed.
* **The thread and what the provider is told of it.** `ThreadInv` adds that ids
  rise in the order of insertion, in memory and in every file, and that the
  cached summary, until somebody navigated under it, is of the active thread
  between its first user message and one before the last (`CacheFits`).
  `SessionTypeCorrect`, `WorkingSetOnOneBranchHolds` and `RuledOutExactlyHolds`
  follow. They need what `PathTo` computes, a recursion over parents. That
  such a function exists is proved from the smallest sets closed under
  "parent", what it is from its equation; and where one would argue by induction
  along the ids, the proof takes the smallest id that fails, and finds its
  parent, which is smaller, to fail as well. A thread is then its last message
  and the thread of that one's parent, which is what appending and navigating
  are compared by.
* **The turn.** `AgentTypeCorrect` and `TruncatedNeverRunHolds` for every cap,
  retry and token budget and batch size. The counters are bounded because an
  iteration explores at most once after it was counted (`Counted`), and only
  complete replies are dispatched because during a batch the thread ends with
  the reply it was made from (`BatchOfReply`): nothing else is appended
  meanwhile. `RequestsPairedHolds` is that every request is one a provider
  accepts. It needs the shape of the thread: a result follows the reply it
  answers directly and answers calls it makes (`ResultsFollow`), during a batch
  the reply is still the last message (`EndsWithReply`), and nothing in the
  queues is a result (`Untooled`). Then `Sanitize` drops just the calls of
  replies that were cut short.
* **The inputs of a turn.** `InputKept` is not inductive: a drain moves inputs
  from a queue to the thread, behind whatever else stands there. `InputsSplit`
  is: for each source there is an n such that the thread has the first n inputs
  in order, and the queue those after them. `LateInputAnsweredHolds` follows from
  what the place in the end of a turn says of the three queues: each that was
  looked at held, by then, all that was pushed before the reply came.
* **The agent's components.** What each invariant adds, by module: `Permissions`
  (`AccessInv`), that no lasting grant is a shell capability's; `Subagents`
  (`SubsInv`), that the registry leads to a child that has the id (`Leads`) and
  what was sent to one is in its inbox or was got (`Reached`); `CommandRuns`
  (`CommandInv`), what the place of the call says of the child; `AuthoredFiles`
  (`FilesInv`), what each agent read is still there unless it was overlapped
  (`Holds`), a file in part has somebody to blame (`Parts`), and a look that
  found no skill will find the draft unless it was crossed (`Looks`);
  `Worktrees` (`TreesInv`), that a branch about to be deleted has nothing left
  to lose (`ExitSound`), and that a name has one entry, which has directory and
  branch or is on its way out or stranded (`EntrySound`); `CausalTree`
  (`CausalInv`), that ids are their nodes' own in every tree, saved or held, and
  until a clash whoever holds a tree has every node of the file but those in
  `passed` (`HoldsTree`), so that a link falls on its node or on the successor
  of one so lost (`LinkSound`); `RpcClients` (`RpcInv`), that one call is
  inside, and no frame on the way answers a number still to come; `Review`
  (`ReviewInv`), that what the parser kept are the last lines of their kinds;
  `VerifyRun` (`VerifyInv`), that the dashboard counts what the reader read,
  whatever ended it, that the scenarios before `next` are over, those after it
  have not begun, and the one critical failure is the last that ran;
  `Completions` (`CompletionInv`), that the calls made count like a clock with
  the digits round, endpoint and attempt, and which digits have not moved while
  every error met was `doomed`, or `refused`.
* **The headless run and its logs.** `BackgroundRun` (`RunInv`): the milestones
  executed are at most those of the cycles before and of this one
  (`BudgetKept`); what mode, file, outcome, ledger and exit code have to do with
  one another at each place. `BgLedger` (`LedgerInv`): records in the order of
  their numbers, each alone on its line or `spoiled`, in the file and in what a
  truncation kept (`Orderly`), and a last line without its newline has a cause
  (`TailKnown`). `EventStream` (`StreamInv`): which number is in which file.
  `Traces` (`TraceInv`): a span in the live file that has not ended is open, of
  a crashed process, or its end is on the way or rotated out (`Settled`),
  whoever's lines were glued, and what each writer has put into each file adds
  up to no more than its limits (`Room`).
* **The daemon.** `CronJobs` (`CronInv`): a job remembers its last firing.
  `Services` (`ServiceInv`): who started each instance; the records in memory
  and on disk forget crashes but invent none (`Truthful`), the two are equal
  after a save that succeeded, and a record that was never lost counts every
  crash. `Daemons` (`LifeInv`): a daemon that runs has a monitor that watches or
  has seen the flag, and the path leads to a live daemon or to one that crashed.
  `Stamps` (`StampInv`): a thread that writes alone has the temporary file for
  itself and the newest time (`Writes`), and after its rename nobody else has
  the stamp open (`StampTrue`). `WorkgraphTick` (`TickInv`).
* **Its clients.** `Connections` (`LinkInv`): the five stages of a request
  (`Idle`, `Asked`, `Working`, `Prompting`, `Answered`), in each of which
  handler, socket in both directions, channel and the client's two threads fit
  together. `Visual` (`PageInv`): ring and queue are the last events in order,
  the page has seen a piece of the ring and then every event since it
  registered (`SeenAs`), and what the watcher last announced is shown, or on its
  way to the page, or was missed or overtaken (`Told`).

The proofs corrected the model twice. With a limit of no cycles a run executes
a cycle all the same, which `WithinBudget` denied; no run had that limit. And
`DaemonsSound` spoke only of daemons that wait: it now says who took the path
from any that lives.

Only model-checked:

* everything with fairness (`LockReleased`, `EverythingGetsDone`, `RequestsEnd`,
  `TurnEnds`, `EverythingEnds`), because liveness and ENABLED are beyond the
  prover;
* `TracesEnd`, a part of `EverythingEnds`: that two traversals of a tree visit
  all of it is an induction over data;
* the five runs that show findings.

## 7. Not modelled

See `PROJECT.json` for every component with its status. Left out for good:
HTTP and provider I/O, formatting and rendering, the pages of the visual
server, argument parsing and printing of the binaries, serialisation of the
wire protocol, the WASM runtime and the tools that only read, search or fetch;
the task list of `tool/task_manage.rs`, records that nothing else reads; the
replay buffer and the agent graph of `trace/`, which format what was recorded.
Configuration, memory and help have no state of their own: values that matter
are constants.

## 8. Running

    tlc -config WorkGraphStore.cfg MCWorkGraphStore
    tlc -config Components.cfg MCComponents
    tlapm DaemonTurnsProofs.tla

The two proof modules of the components take some twenty minutes each from
nothing, the others a few.

Operators commented "Mutant" are deliberate faults: each replaces the
definition after it, to see that the property named in `PROJECT.json` fails.
