------------------------------ MODULE Services ------------------------------
(***************************************************************************)
(* Long-lived capabilities: the table of running services the agents' tool *)
(* calls fill (src/tool/builtin.rs, run_persistent and run_ondemand), the  *)
(* daemon's supervisor, which starts the persistent shell services itself  *)
(* (src/capability.rs), and the record of their crashes that outlives the  *)
(* daemon (src/supervisor_state.rs).  The table and the supervisor do not  *)
(* know of each other.                                                     *)
(***************************************************************************)
EXTENDS Naturals

CONSTANTS Caps, Budget,   \* supervisor_crash_budget, 0 for none
          MaxVersions,    \* bound: writings of a manifest
          MaxLives        \* bound: starts of the daemon

ServicesAssumption == {Budget, MaxVersions, MaxLives} \subseteq Nat

VARIABLES
  manifest,   \* per capability: lifecycle, environment, mtime and writings
  live,       \* the running instances, <<capability, who started it>>
  table,      \* RunningServiceTable: the kind of handle, or "none"
  child,      \* Supervisor.states: "none", "started" or "failed"
  entry, saved,    \* SupervisorState in memory and on disk
  up, lives,
  noticed,    \* history: the crashes noticed of the manifest last started
  unsaved,    \* history: the last save failed, or the file was spoiled since
  uncounted,  \* history: a daemon ended with its record unsaved
  forgotten,  \* history: on-demand containers whose handle was dropped
  unclean     \* history: a daemon ended without stopping its services

serviceVars == <<manifest, live, table, child, entry, saved, up, lives,
                 noticed, unsaved, uncounted, forgotten, unclean>>

NoEntry == [gaveUp |-> FALSE, crashes |-> 0, version |-> 0]   \* versions start at 1

Init ==
  /\ manifest = [c \in Caps |-> [life |-> "persistent", env |-> "shell", version |-> 1, written |-> 1]]
  /\ live = {} /\ table = [c \in Caps |-> "none"] /\ child = [c \in Caps |-> "none"]
  /\ entry = [c \in Caps |-> NoEntry] /\ saved = entry
  /\ up = FALSE /\ lives = 0
  /\ noticed = [c \in Caps |-> [version |-> 0, crashes |-> 0]]
  /\ unsaved = FALSE /\ uncounted = FALSE /\ forgotten = {} /\ unclean = FALSE

Supervisable(c) == manifest[c].life = "persistent" /\ manifest[c].env = "shell"

\* reset_if_manifest_changed.
Refreshed(c) ==
  IF saved[c].version # manifest[c].version
  THEN [NoEntry EXCEPT !.version = manifest[c].version] ELSE saved[c]

ShouldSkip(e) == e.gaveUp \/ (Budget > 0 /\ e.crashes >= Budget)

\* supervisor_state::save: one that fails leaves the file alone, and is ignored.
Save ==
  \/ saved' = entry' /\ unsaved' = FALSE
  \/ saved' = saved /\ unsaved' = TRUE

\* Supervisor::start_all, when the daemon starts; a start that fails is ignored.
StartAll ==
  /\ ~up /\ lives < MaxLives                                  \* bound
  /\ up' = TRUE /\ lives' = lives + 1
  /\ entry' = [c \in Caps |-> IF Supervisable(c) THEN Refreshed(c) ELSE saved[c]]
  /\ Save
  /\ noticed' = [c \in Caps |->
       IF Supervisable(c) /\ noticed[c].version # manifest[c].version
       THEN [version |-> manifest[c].version, crashes |-> 0] ELSE noticed[c]]
  /\ \E started \in SUBSET {c \in Caps : Supervisable(c) /\ ~ShouldSkip(entry'[c])} :
       /\ child' = [c \in Caps |-> IF c \in started THEN "started" ELSE "none"]
       /\ live' = live \cup {<<c, "supervisor">> : c \in started}
  /\ UNCHANGED <<manifest, table, uncounted, forgotten, unclean>>

RecordCrash(e) ==
  [e EXCEPT !.crashes = @ + 1,
            !.gaveUp = @ \/ (Budget > 0 /\ e.crashes + 1 >= Budget)]

\* What supervise does about the service it finds exited, before it saves.
Failed(c) ==
  /\ up /\ child[c] = "started" /\ <<c, "supervisor">> \notin live
  /\ child' = [child EXCEPT ![c] = "failed"]
  /\ entry' = [entry EXCEPT ![c] = RecordCrash(@)]
  /\ noticed' = [noticed EXCEPT ![c].crashes = @ + 1]
  /\ UNCHANGED <<manifest, live, table, up, lives, uncounted, forgotten, unclean>>

\* Mutant: a crash is only remembered in memory.
SuperviseUnsaved(c) == Failed(c) /\ UNCHANGED <<saved, unsaved>>

Supervise(c) == Failed(c) /\ Save

\* External: the file is removed or damaged; load then finds no record at all.
SpoilRecord ==
  /\ saved' = [c \in Caps |-> NoEntry] /\ saved' # saved
  /\ IF up THEN unsaved' = TRUE /\ UNCHANGED <<entry, uncounted>>
     ELSE entry' = saved' /\ uncounted' = TRUE /\ UNCHANGED unsaved
  /\ UNCHANGED <<manifest, live, table, child, up, lives, noticed, forgotten, unclean>>

\* The instance a handle of the table stands for.
HandleOf(kind) == CASE kind = "process" -> "table"
                    [] kind = "container" -> "codecoder"
                    [] kind = "warm" -> "ondemand"
                    [] OTHER -> "nobody"
Tracked(c) == <<c, HandleOf(table[c])>>

\* Starts an instance, or fails: no image, no docker, no such command; docker
\* always refuses a container name that is in use.
StartService(c, kind) ==
  \/ table' = [table EXCEPT ![c] = "none"] /\ UNCHANGED live
  \/ /\ kind = "process" \/ <<c, HandleOf(kind)>> \notin live
     /\ table' = [table EXCEPT ![c] = kind] /\ live' = live \cup {<<c, HandleOf(kind)>>}

RunPersistent(c) ==
  /\ up /\ manifest[c].life = "persistent"
  /\ CASE Tracked(c) \in live -> UNCHANGED <<table, live>>
       [] table[c] # "none" /\ Tracked(c) \notin live ->
            table' = [table EXCEPT ![c] = "none"] /\ UNCHANGED live
       [] table[c] = "none" ->
            StartService(c, IF manifest[c].env = "shell" THEN "process" ELSE "container")
  /\ UNCHANGED <<manifest, child, entry, saved, up, lives,
                 noticed, unsaved, uncounted, forgotten, unclean>>

\* A container's handle is dropped without asking whether it still runs.
RunOnDemand(c) ==
  /\ up /\ manifest[c].life = "on_demand"
  /\ IF table[c] = "process" /\ Tracked(c) \in live
     THEN UNCHANGED <<table, live, forgotten>>
     ELSE /\ StartService(c, IF manifest[c].env = "shell" THEN "process" ELSE "warm")
          /\ forgotten' = IF Tracked(c) \in live THEN forgotten \cup {Tracked(c)} ELSE forgotten
  /\ UNCHANGED <<manifest, child, entry, saved, up, lives,
                 noticed, unsaved, uncounted, unclean>>

\* generate_capability, or a hand; the mtime counts whole seconds, so that a
\* manifest written twice in one keeps its version.
GenerateCapability(c) ==
  /\ manifest[c].written < MaxVersions                        \* bound
  /\ \E life \in {"persistent", "on_demand"}, env \in {"shell", "docker"}, later \in {0, 1} :
       manifest' = [manifest EXCEPT ![c] = [life |-> life, env |-> env, version |-> @.version + later,
                                            written |-> @.written + 1]]
  /\ UNCHANGED <<live, table, child, entry, saved, up, lives,
                 noticed, unsaved, uncounted, forgotten, unclean>>

\* External: an instance ends.
Exits(i) ==
  /\ live' = live \ {i}
  /\ UNCHANGED <<manifest, table, child, entry, saved, up, lives,
                 noticed, unsaved, uncounted, forgotten, unclean>>

\* The daemon ends: it stops what its table tracks; the supervisor's thread may
\* or may not wake in time to stop the rest; a crash stops nothing.
Ends(stopped, crashed) ==
  /\ up /\ up' = FALSE
  /\ live' = {IF i[2] \in {"table", "supervisor"} THEN <<i[1], "stray">> ELSE i : i \in live \ stopped}
  /\ unclean' = (unclean \/ crashed \/ live' # live \ stopped)
  /\ table' = [c \in Caps |-> "none"] /\ child' = [c \in Caps |-> "none"]
  /\ entry' = saved /\ uncounted' = (uncounted \/ unsaved) /\ unsaved' = FALSE
  /\ UNCHANGED <<manifest, saved, lives, noticed, forgotten>>

InTable == {Tracked(c) : c \in Caps}
Supervised == {<<c, "supervisor">> : c \in Caps}

Shutdown == Ends(InTable, FALSE) \/ Ends(InTable \cup Supervised, FALSE)
Crash == Ends({}, TRUE)

Next ==
  \/ StartAll \/ SpoilRecord \/ Shutdown \/ Crash
  \/ \E c \in Caps : Supervise(c) \/ RunPersistent(c) \/ RunOnDemand(c) \/ GenerateCapability(c)
  \/ \E i \in live : Exits(i)

Spec == Init /\ [][Next]_serviceVars

-----------------------------------------------------------------------------
(***************************************************************************)
(* The crash record survives restarts: it counts every crash the           *)
(* supervisor noticed of the manifest it started, and the file has what    *)
(* memory has, unless a save failed or the file was spoiled before the     *)
(* daemon ended; even then crashes are only forgotten, never invented.  A  *)
(* service past its budget is not running under the supervisor, and one    *)
(* that failed is not started again in the same life.  And no instance is  *)
(* lost: each one that runs is in the table, under the supervisor, an      *)
(* on-demand container that was called again, or was left behind by a      *)
(* daemon that did not stop its services.                                  *)
(***************************************************************************)
ServicesSound ==
  /\ ~unsaved => saved = entry
  /\ \A c \in Caps :
       /\ ~uncounted => entry[c].version = noticed[c].version /\ entry[c].crashes = noticed[c].crashes
       /\ entry[c].version = noticed[c].version => entry[c].crashes <= noticed[c].crashes
       /\ Budget > 0 => entry[c].crashes <= Budget
       /\ child[c] # "none" /\ ShouldSkip(entry[c]) => child[c] = "failed"
       /\ child[c] = "failed" => <<c, "supervisor">> \notin live
  /\ \A i \in live :
       \/ i \in InTable \cup forgotten
       \/ i[2] = "supervisor" /\ child[i[1]] = "started"
       \/ unclean /\ i[2] \in {"stray", "codecoder", "ondemand"}
=============================================================================
