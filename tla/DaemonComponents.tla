------------------------- MODULE DaemonComponents --------------------------
(***************************************************************************)
(* The headless run with the logs it leaves, and the daemon with its       *)
(* clients: components that share no variable with one another.  Each has  *)
(* its own specification; here they stand side by side, with what they     *)
(* promise together.                                                       *)
(***************************************************************************)
EXTENDS Naturals

CONSTANTS MaxId, MaxAuto, MaxCycles, Webhook, FailureOnly, Appenders,
          MaxLines, MaxRecords, RotateSize, MaxRotated, MaxStream, Traced, TraceSize,
          TraceRotated, MaxSpans, MaxSeconds, MaxWriters, Minute, Lo, Hi,
          MaxTime, MaxJobs, Caps, Budget, MaxVersions, MaxLives,
          MaxRequests, MaxTurnEvents, MaxPipe, Daemons, MaxRestarts,
          MaxClients, Threads, MaxAge, MaxClock, Threshold, Cooldown,
          MaxTicks, PageVersions, MaxFeed, MaxFetches, CatchUpCount, BufferMax

VARIABLES graph, readable, backup, plans, checkpoint, pc, mode, cur,
          advanced, cycle, state, ledger, alerted, code, history
VARIABLES ledgerFile, appending, stray, written, cleaner, kept, memo, bare,
          exposed, spoiled
VARIABLES stream, outer, inner, emitted, dropped, torn
VARIABLES second, spans, turn, call, feed, handle, bytes, header, trace,
          midline, unended, glued, writers, used, collided, crashed, lost
VARIABLES now, jobs, nextId, session, fired, twice, polled, setBack, taken
VARIABLES manifest, live, table, serviceChild, entry, saved, daemonUp,
          lives, noticed, unsaved, uncounted, forgotten, unclean
VARIABLES once, main, signals, reader, up, shut, handler, senders, channel,
          writer, down, requests, events, subscribedTwice
VARIABLES path, daemonAt, start, flag, monitor, backlog, handling, clients,
          displaced
VARIABLES clock, stampDoing, stampTaken, stampHandle, stampTmp, stamp,
          stopped, newest, mixed, doubtful, verdict
VARIABLES ticks, wgPaused, held, failures, alerts, undone, lastSeed,
          renewals, outcome
VARIABLES disk, notified, lastRead, quiet, ingested, buffer, page, queue,
          seen, known, pageAsked, older, latest, since, window, swallowed,
          missed, overtaken

Run == INSTANCE BackgroundRun
Ledger == INSTANCE BgLedger
  WITH ledger <- ledgerFile
Stream == INSTANCE EventStream
  WITH MaxEvents <- MaxStream
Tracing == INSTANCE Traces
  WITH RotateSize <- TraceSize, MaxRotated <- TraceRotated, Agents <- Traced
Cron == INSTANCE CronJobs
Service == INSTANCE Services
  WITH child <- serviceChild, up <- daemonUp
Link == INSTANCE Connections
  WITH MaxEvents <- MaxTurnEvents, twice <- subscribedTwice
Life == INSTANCE Daemons
  WITH MaxAttempts <- MaxRestarts, at <- daemonAt, attempt <- start
Stamp == INSTANCE Stamps
  WITH taken <- stampTaken, tmp <- stampTmp, doing <- stampDoing,
       handle <- stampHandle
Ticks == INSTANCE WorkgraphTick
Page == INSTANCE Visual
  WITH MaxVersions <- PageVersions, MaxEvents <- MaxFeed, asked <- pageAsked

ASSUME DaemonComponentsAssumption ==
  /\ MaxId \in Nat
  /\ Run!BackgroundAssumption
  /\ Ledger!LedgerAssumption
  /\ Stream!StreamAssumption
  /\ Tracing!TracesAssumption
  /\ Cron!CronAssumption
  /\ Service!ServicesAssumption
  /\ Link!ConnectionsAssumption
  /\ Life!DaemonsAssumption
  /\ Stamp!StampsAssumption
  /\ Ticks!WorkgraphTickAssumption
  /\ Page!VisualAssumption

runVars == <<graph, readable, backup, plans, checkpoint, pc, mode, cur,
             advanced, cycle, state, ledger, alerted, code, history>>
ledgerVars == <<ledgerFile, appending, stray, written, cleaner, kept, memo,
                bare, exposed, spoiled>>
streamVars == <<stream, outer, inner, emitted, dropped, torn>>
tracingVars == <<second, spans, turn, call, feed, handle, bytes, header,
                 trace, midline, unended, glued, writers, used, collided,
                 crashed, lost>>
cronVars == <<now, jobs, nextId, session, fired, twice, polled, setBack,
              taken>>
serviceVars == <<manifest, live, table, serviceChild, entry, saved,
                 daemonUp, lives, noticed, unsaved, uncounted, forgotten,
                 unclean>>
linkVars == <<once, main, signals, reader, up, shut, handler, senders,
              channel, writer, down, requests, events, subscribedTwice>>
lifeVars == <<path, daemonAt, start, flag, monitor, backlog, handling,
              clients, displaced>>
stampVars == <<clock, stampDoing, stampTaken, stampHandle, stampTmp, stamp,
               stopped, newest, mixed, doubtful, verdict>>
ticksVars == <<ticks, wgPaused, held, failures, alerts, undone, lastSeed,
               renewals, outcome>>
pageVars == <<disk, notified, lastRead, quiet, ingested, buffer, page,
              queue, seen, known, pageAsked, older, latest, since, window,
              swallowed, missed, overtaken>>
daemonVars == <<runVars, ledgerVars, streamVars, tracingVars, cronVars,
                serviceVars, linkVars, lifeVars, stampVars, ticksVars,
                pageVars>>

-----------------------------------------------------------------------------
(***************************************************************************)
(* What a headless run reports - its last state, ledger line, alert and    *)
(* exit code - is what it did (BackgroundRun: background.rs).              *)
(***************************************************************************)
RunHonest == Run!TypeOK /\ Run!RunHonest

(***************************************************************************)
(* Nothing leaves a log but what age, rotation or the windows named in its *)
(* module account for: the run ledger (BgLedger: bg_ledger.rs), the event  *)
(* stream (EventStream: bg_observer.rs) and the trace (Traces: trace/).    *)
(***************************************************************************)
LogsAccounted ==
  /\ Ledger!TypeOK /\ Ledger!RecordsSurvive
  /\ Stream!TypeOK /\ Stream!EventsAccounted
  /\ Tracing!TraceSound

(***************************************************************************)
(* The daemon keeps its promises across ticks, crashes and restarts: jobs  *)
(* fire once a minute (CronJobs), alerts and renewals follow the provider  *)
(* (WorkgraphTick), crash budgets survive as long as their record does     *)
(* (Services), no wake-up is lost (Daemons), and the stamp of a thread     *)
(* that wrote alone tells the watchdog the truth (Stamps).                 *)
(***************************************************************************)
DaemonSound ==
  /\ Cron!CronSound
  /\ Ticks!TickSound
  /\ Service!ServicesSound
  /\ Life!DaemonsSound
  /\ Stamp!StampSound

(***************************************************************************)
(* What a client shows is where the daemon is: the terminal client stays   *)
(* in step with its handler (Connections: daemon/socket.rs, ccli.rs), and  *)
(* the live page misses no event while it is connected and shows the graph *)
(* on disk but for the windows named in its module (Visual: visual/).      *)
(***************************************************************************)
ClientsSound == Link!ConnectionSound /\ Page!VisualSound
=============================================================================
