----------------------------- MODULE CommandRuns ----------------------------
(***************************************************************************)
(* One shell command of the run_command tool or of a one-shot capability   *)
(* (src/tool/builtin.rs, run_shell_cancellable): a child process whose     *)
(* output two threads drain, a loop that watches the cancel token, the     *)
(* deadline and the child, in that order, and then waits for the drains.   *)
(* A process the command left in the background keeps the pipes open: what *)
(* reads them ends only with the last holder of them.                      *)
(***************************************************************************)
CONSTANT TimeLimit    \* a timeout is set, by the call or the configuration

CommandAssumption == TimeLimit \in BOOLEAN

VARIABLES
  at,         \* entry, the three tests of the loop, "join" and "done"
  proc,       \* the child: "none", "running", "exited", "failed", "killed"
  holder,     \* a background process of the command holds the pipes
  cancelled, overdue,
  result

commandVars == <<at, proc, holder, cancelled, overdue, result>>

Init ==
  /\ at = "entry" /\ proc = "none" /\ holder = FALSE
  /\ cancelled \in BOOLEAN /\ overdue = FALSE /\ result = "none"

\* A call that is already cancelled starts nothing.
Entry ==
  /\ at = "entry"
  /\ IF cancelled
     THEN at' = "done" /\ result' = "cancelled" /\ UNCHANGED proc
     ELSE at' = "watch_cancel" /\ proc' = "running" /\ UNCHANGED result
  /\ UNCHANGED <<holder, cancelled, overdue>>

Kill(p) == IF p = "running" THEN "killed" ELSE p

\* Mutant: a cancelled call leaves its child running.
WatchCancelNoKill ==
  /\ at = "watch_cancel"
  /\ at' = IF cancelled THEN "join" ELSE "watch_deadline"
  /\ result' = IF cancelled THEN "cancelled" ELSE result
  /\ UNCHANGED <<proc, holder, cancelled, overdue>>

WatchCancel ==
  /\ at = "watch_cancel"
  /\ at' = IF cancelled THEN "join" ELSE "watch_deadline"
  /\ result' = IF cancelled THEN "cancelled" ELSE result
  /\ proc' = IF cancelled THEN Kill(proc) ELSE proc
  /\ UNCHANGED <<holder, cancelled, overdue>>

\* A timed out call does not wait for what still holds the pipes.
WatchDeadline ==
  /\ at = "watch_deadline"
  /\ IF TimeLimit /\ overdue
     THEN at' = "done" /\ result' = "expired" /\ proc' = Kill(proc)
     ELSE at' = "watch_exit" /\ UNCHANGED <<result, proc>>
  /\ UNCHANGED <<holder, cancelled, overdue>>

WatchExit ==
  /\ at = "watch_exit"
  /\ IF proc = "running"
     THEN at' = "watch_cancel" /\ UNCHANGED result
     ELSE at' = "join" /\ result' = IF proc = "exited" THEN "ok" ELSE "error"
  /\ UNCHANGED <<proc, holder, cancelled, overdue>>

\* read_to_end returns when the last writer has closed the pipe.
Join ==
  /\ at = "join" /\ proc # "running" /\ ~holder
  /\ at' = "done"
  /\ UNCHANGED <<proc, holder, cancelled, overdue, result>>

\* External: the command, and what it left behind.
Exits == /\ proc = "running" /\ proc' \in {"exited", "failed"}
         /\ UNCHANGED <<at, holder, cancelled, overdue, result>>
Detaches == /\ proc = "running" /\ holder' = TRUE
            /\ UNCHANGED <<at, proc, cancelled, overdue, result>>
HolderEnds == /\ holder' = FALSE
              /\ UNCHANGED <<at, proc, cancelled, overdue, result>>

\* The user's cancel and the clock.
Cancel == /\ cancelled' = TRUE
          /\ UNCHANGED <<at, proc, holder, overdue, result>>
Overdue == /\ at # "entry" /\ overdue' = TRUE
           /\ UNCHANGED <<at, proc, holder, cancelled, result>>

Steps == Entry \/ WatchCancel \/ WatchDeadline \/ WatchExit \/ Join
Next == Steps \/ Exits \/ Detaches \/ HolderEnds \/ Cancel \/ Overdue

Spec == Init /\ [][Next]_commandVars /\ WF_commandVars(Steps)

-----------------------------------------------------------------------------
(***************************************************************************)
(* The result says what happened, and no child outlives its call:          *)
(* cancelled only after a cancel, timed out only past a limit that was     *)
(* set, a success only of a command that exited by itself.                 *)
(***************************************************************************)
CommandSound ==
  /\ result = "cancelled" => cancelled
  /\ result = "expired" => TimeLimit /\ overdue
  /\ result = "ok" => proc = "exited"
  /\ result = "error" => proc = "failed"
  /\ at = "done" => proc # "running"

(***************************************************************************)
(* A cancel or an expired limit ends the call, unless a background process *)
(* of the command holds its output for good; an expired limit alone ends   *)
(* the watching whatever holds the output.                                 *)
(***************************************************************************)
CommandEnds ==
  /\ []<>(cancelled => at = "done") \/ <>[]holder
  /\ TimeLimit => []<>(overdue => at \in {"join", "done"})
=============================================================================
