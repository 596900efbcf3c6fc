CONSTANTS
  \* BackgroundRun, BgLedger, EventStream
  MaxId = 2
  MaxAuto = 2
  MaxCycles = 2
  Webhook = TRUE
  FailureOnly = TRUE
  Appenders = {a1, a2}
  MaxLines = 2
  MaxRecords = 5
  RotateSize = 1
  MaxRotated = 2
  MaxStream = 7
  \* Permissions, Subagents, CommandRuns, AuthoredFiles
  Askers = {a1, a2}
  MaxPrompts = 1
  Parents = {p1, p2}
  MaxChildren = 2
  MaxMessages = 2
  TimeLimit = TRUE
  Authors = {a1, a2}
  MaxWrites = 2
  \* Worktrees, CausalTree, RpcClients
  Agents = {a1, a2}
  Names = {n1, n2}
  MaxCommits = 1
  MaxEntries = 2
  Given = {0}
  MaxNodes = 2
  Roots = {r1, r2}
  MaxCalls = 2
  MaxFrames = 2
  \* Review, VerifyRun, Completions, Traces
  MaxReport = 3
  Critical <- CriticalScenarios
  MaxOutput = 2
  MaxTargets = 1
  Fallback = TRUE
  MaxAttempts = 2
  MaxRetries = 1
  FirstDelay = 4
  MaxDelay = 7
  MaxPhrases = 2
  Traced = {a1, a2}
  TraceSize = 3
  TraceRotated = 1
  MaxSpans = 2
  MaxSeconds = 2
  MaxWriters = 3
  \* CronJobs, Services, Connections
  Minute = 2
  Lo = 1
  Hi = 3
  MaxTime = 5
  MaxJobs = 1
  Caps = {c1}
  Budget = 2
  MaxVersions = 2
  MaxLives = 3
  MaxRequests = 2
  MaxTurnEvents = 2
  MaxPipe = 1
  \* Daemons, Stamps, WorkgraphTick, Visual
  Daemons = {d1, d2}
  MaxRestarts = 2
  MaxClients = 1
  Threads = {t1, t2}
  MaxAge = 2
  MaxClock = 3
  Threshold = 2
  Cooldown = 3
  MaxTicks = 6
  PageVersions = 2
  MaxFeed = 2
  MaxFetches = 1
  CatchUpCount = 1
  BufferMax = 2
SPECIFICATION Spec
\* A headless run ends, and so does a call that nobody makes again.
CHECK_DEADLOCK FALSE
INVARIANTS
  RunHonest
  LogsAccounted
  AccessSound
  WorkKept
  SubagentsSound
  OutcomesSound
  DaemonSound
  ClientsSound
PROPERTIES
  EverythingEnds
