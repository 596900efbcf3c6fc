------------------------------- MODULE Stamps --------------------------------
(***************************************************************************)
(* The stamp of a running daemon (src/recovery.rs write_stamp) and the     *)
(* watchdog that judges the daemon by it (capabilities/daemon-watchdog).   *)
(* Every background thread writes the stamp after its tick, all through    *)
(* one temporary file: open with truncation, write, rename.  A handle      *)
(* follows its file through the rename.                                    *)
(***************************************************************************)
EXTENDS Naturals

CONSTANTS Threads,
          MaxAge,      \* WATCHDOG_MAX_AGE
          MaxClock     \* bound

StampsAssumption == MaxAge \in Nat \ {0} /\ MaxClock \in Nat

VARIABLES
  clock,
  doing, taken, handle,   \* of a thread: its step, its time, where its file is
  tmp, stamp,             \* the contents of the two files
  stopped,                \* threads that panicked or hang in a tick
  newest,                 \* history: the newest time that any thread wrote
  mixed,                  \* history: threads that write, or took, while another did
  doubtful,               \* history: the last to rename was such a thread
  verdict                 \* of the watchdog, while nothing has changed since

stampVars == <<clock, doing, taken, handle, tmp, stamp, stopped, newest, mixed, doubtful,
               verdict>>

Missing == <<"missing", 0>>
Empty == <<"empty", 0>>
Tick(time) == <<"tick", time>>

Init ==
  /\ clock = 1
  /\ doing = [t \in Threads |-> "idle"] /\ taken = [t \in Threads |-> 0]
  /\ handle = [t \in Threads |-> "none"]
  /\ tmp = Missing /\ stamp = Missing
  /\ stopped = {} /\ newest = 0 /\ mixed = {} /\ doubtful = FALSE /\ verdict = "none"

\* The stamp is made: last_tick is the time of day.
Take(t) ==
  /\ t \notin stopped /\ doing[t] = "idle" /\ taken[t] < clock
  /\ doing' = [doing EXCEPT ![t] = "taken"] /\ taken' = [taken EXCEPT ![t] = clock]
  /\ LET busy == {u \in Threads \ stopped : doing[u] # "idle"}
     IN mixed' = IF busy = {} THEN mixed ELSE mixed \cup busy \cup {t}
  /\ UNCHANGED <<clock, handle, tmp, stamp, stopped, newest, doubtful, verdict>>

Open(t) ==
  /\ t \notin stopped /\ doing[t] = "taken"
  /\ doing' = [doing EXCEPT ![t] = "open"] /\ handle' = [handle EXCEPT ![t] = "tmp"]
  /\ tmp' = Empty
  /\ UNCHANGED <<clock, taken, stamp, stopped, newest, mixed, doubtful, verdict>>

Fill(t) ==
  /\ t \notin stopped /\ doing[t] = "open"
  /\ doing' = [doing EXCEPT ![t] = "full"]
  /\ tmp' = IF handle[t] = "tmp" THEN Tick(taken[t]) ELSE tmp
  /\ stamp' = IF handle[t] = "stamp" THEN Tick(taken[t]) ELSE stamp
  /\ UNCHANGED <<clock, taken, handle, stopped, newest, mixed, doubtful, verdict>>

\* rename fails when another thread has renamed the file already.
Rename(t) ==
  /\ t \notin stopped /\ doing[t] = "full"
  /\ doing' = [doing EXCEPT ![t] = "idle"]
  /\ IF tmp = Missing
     THEN /\ handle' = [handle EXCEPT ![t] = "none"] /\ UNCHANGED <<tmp, stamp>>
     ELSE /\ stamp' = tmp /\ tmp' = Missing
          /\ handle' = [u \in Threads |->
                          IF u = t THEN "none"
                          ELSE CASE handle[u] = "tmp" -> "stamp"
                                 [] handle[u] = "stamp" -> "gone"
                                 [] OTHER -> handle[u]]
  /\ newest' = IF taken[t] > newest THEN taken[t] ELSE newest
  /\ mixed' = mixed \ {t} /\ doubtful' = (t \in mixed)
  /\ verdict' = "none"
  /\ UNCHANGED <<clock, taken, stopped>>

Stop(t) ==
  /\ t \notin stopped /\ stopped' = stopped \cup {t}
  /\ UNCHANGED <<clock, doing, taken, handle, tmp, stamp, newest, mixed, doubtful, verdict>>

\* run.sh of the watchdog.
Watch ==
  /\ verdict' = CASE stamp = Missing -> "nostamp"
                  [] stamp = Empty -> "unreadable"
                  [] OTHER -> IF clock - stamp[2] < MaxAge THEN "ok" ELSE "stale"
  /\ UNCHANGED <<clock, doing, taken, handle, tmp, stamp, stopped, newest, mixed, doubtful>>

Clock ==
  /\ clock < MaxClock /\ clock' = clock + 1 /\ verdict' = "none"
  /\ UNCHANGED <<doing, taken, handle, tmp, stamp, stopped, newest, mixed, doubtful>>

Next ==
  \/ \E t \in Threads : \/ Take(t) \/ Open(t) \/ Fill(t) \/ Rename(t) \/ Stop(t)
  \/ Watch \/ Clock

Spec == Init /\ [][Next]_stampVars

(***************************************************************************)
(* Two threads that write at a time may leave a stamp that is torn, or     *)
(* older than the newest, but no longer than until the next write that was *)
(* alone: the stamp is then the newest that any thread wrote, and the      *)
(* watchdog calls for a restart only when no thread at all has ticked for  *)
(* the maximal age: one thread that ticks hides every other that stopped.  *)
(***************************************************************************)
StampSound ==
  ~doubtful =>
    /\ stamp = IF newest = 0 THEN Missing ELSE Tick(newest)
    /\ verdict = "stale" =>
         \A t \in Threads : doing[t] = "idle" => clock - taken[t] >= MaxAge
=============================================================================
