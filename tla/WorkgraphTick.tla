--------------------------- MODULE WorkgraphTick ----------------------------
(***************************************************************************)
(* One tick after another of the daemon's workgraph thread                 *)
(* (src/daemon/mod.rs), down to the call that advances a milestone: pause, *)
(* the turn token, the health of the provider (src/provider_health.rs)     *)
(* with its alerts, and the renewal of a finished graph from the mission.  *)
(***************************************************************************)
EXTENDS Naturals, Sequences

CONSTANTS Threshold,       \* probe_failure_threshold; 0 turns the probe off
          Cooldown,        \* seed_cooldown, in ticks
          MaxTicks         \* bound

WorkgraphTickAssumption ==
  Threshold \in Nat /\ Cooldown \in Nat \ {0} /\ MaxTicks \in Nat

VARIABLES
  ticks, wgPaused, held,   \* the tick number, the pause flag, the turn token
  failures,                \* HealthState.consecutive_failures
  alerts,                  \* sent so far: "down", "up"
  undone,                  \* does the graph hold a milestone not done?
  lastSeed, renewals,      \* last_seed_ts, and the ticks of the renewals
  outcome                  \* of the last tick

tickVars == <<ticks, wgPaused, held, failures, alerts, undone, lastSeed, renewals, outcome>>

Unhealthy(n) == Threshold > 0 /\ n >= Threshold

Init ==
  /\ ticks = 0 /\ wgPaused = FALSE /\ held = FALSE
  /\ failures = 0 /\ alerts = <<>> /\ undone \in BOOLEAN
  /\ lastSeed = 0 /\ renewals = {} /\ outcome = "none"

\* advance_one_milestone, and the renewal when there was nothing to advance.
\* last_seed_ts starts at 0, the beginning of time.
Advance ==
  \/ /\ undone /\ undone' \in BOOLEAN
     /\ outcome' = "advanced" /\ UNCHANGED <<lastSeed, renewals>>
  \/ /\ undone /\ outcome' \in {"failed", "nothing"} /\ UNCHANGED <<undone, lastSeed, renewals>>
  \/ /\ ~undone /\ renewals # {} /\ ticks + 1 - lastSeed < Cooldown
     /\ outcome' = "nothing" /\ UNCHANGED <<undone, lastSeed, renewals>>
  \/ /\ ~undone /\ (renewals = {} \/ ticks + 1 - lastSeed >= Cooldown)
     /\ \/ /\ undone' = TRUE /\ lastSeed' = ticks + 1
           /\ renewals' = renewals \cup {ticks + 1} /\ outcome' = "renewed"
        \/ /\ outcome' = "nothing" /\ UNCHANGED <<undone, lastSeed, renewals>>

Skip(why) ==
  outcome' = why /\ UNCHANGED <<undone, lastSeed, renewals>>

\* probe_and_update with the two alerts.
Probe(healthy) ==
  /\ failures' = IF healthy THEN 0 ELSE failures + 1
  /\ alerts' = IF healthy
               THEN IF Unhealthy(failures) THEN Append(alerts, "up") ELSE alerts
               ELSE IF failures + 1 = Threshold THEN Append(alerts, "down") ELSE alerts

WgTick ==
  /\ ticks < MaxTicks /\ ticks' = ticks + 1
  /\ \/ wgPaused /\ Skip("paused") /\ UNCHANGED <<failures, alerts>>
     \/ ~wgPaused /\ held /\ Skip("busy") /\ UNCHANGED <<failures, alerts>>
     \/ /\ ~wgPaused /\ ~held
        /\ \E healthy \in BOOLEAN :
             /\ IF Threshold > 0 THEN Probe(healthy) ELSE UNCHANGED <<failures, alerts>>
             /\ IF ~healthy /\ Unhealthy(failures') THEN Skip("unhealthy") ELSE Advance
  /\ UNCHANGED <<wgPaused, held>>

\* workgraph-pause and workgraph-resume; a turn starts and ends, and its agent
\* may add milestones or finish them.
Pause ==
  /\ wgPaused' = ~wgPaused
  /\ UNCHANGED <<ticks, held, failures, alerts, undone, lastSeed, renewals, outcome>>

Turn ==
  /\ held' = ~held /\ undone' \in BOOLEAN
  /\ UNCHANGED <<ticks, wgPaused, failures, alerts, lastSeed, renewals, outcome>>

Next == WgTick \/ Pause \/ Turn

Spec == Init /\ [][Next]_tickVars

(***************************************************************************)
(* Whoever reads the alerts knows how the provider is: they alternate,     *)
(* starting with "down", and the last one says "down" exactly while the    *)
(* failures have reached the threshold, through any pauses and busy ticks  *)
(* in between; then no milestone is advanced and no mission renewed.  Two  *)
(* renewals are a cooldown apart.                                          *)
(***************************************************************************)
TickSound ==
  /\ \A i \in DOMAIN alerts : alerts[i] = IF i % 2 = 1 THEN "down" ELSE "up"
  /\ Unhealthy(failures) <=> Len(alerts) % 2 = 1
  /\ Unhealthy(failures) => outcome \in {"unhealthy", "paused", "busy"}
  /\ \A i, j \in renewals : i < j => j - i >= Cooldown
=============================================================================
