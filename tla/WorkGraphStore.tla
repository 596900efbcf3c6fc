--------------------------- MODULE WorkGraphStore --------------------------
(***************************************************************************)
(* How the Work Graph is kept on disk (src/workgraph.rs: read, save,       *)
(* with_lock).  Several writers, threads of the daemon and other processes *)
(* of the same project, update one workgraph.json:                         *)
(*                                                                         *)
(*   lock workgraph.json.lock ; read ; run the closure ;                   *)
(*   write workgraph.json.tmp ; rename over workgraph.json ; unlock        *)
(*                                                                         *)
(* A writer may crash anywhere (the operating system then drops its lock), *)
(* the closure may refuse, and the write or the rename may fail.  Readers  *)
(* take no lock: what they see is Current.                                 *)
(***************************************************************************)
EXTENDS WorkGraph

CONSTANTS Writers,      \* every thread that calls with_lock
          Free          \* the lock file is not locked

ASSUME FreeAssumption == Free \notin Writers

VARIABLES
  file,     \* workgraph.json
  tmp,      \* workgraph.json.tmp
  legacy,   \* what todos.json migrates to
  lock,     \* holder of the advisory lock on workgraph.json.lock
  pc,       \* where each writer is inside with_lock
  buf       \* the graph each writer has in memory

vars == <<file, tmp, legacy, lock, pc, buf>>

Kinds == {"absent", "unreadable", "torn", "graph"}

NoGraph == MigratedTodos({}, {})

Contents(kind) == [kind |-> kind, g |-> NoGraph]
Holding(g) == [kind |-> "graph", g |-> g]

\* WorkGraph::read: the file if it parses, else the legacy todos.
Current ==
  IF file.kind = "graph" THEN file.g ELSE legacy

PCs == {"idle", "locked", "write", "writing", "rename", "unlock"}

Start(kind) ==
  /\ \E todos \in SUBSET Ids : \E done \in SUBSET todos :
        legacy = MigratedTodos(todos, done)
  /\ file = Contents(kind)
  /\ tmp = Contents("absent")
  /\ lock = Free
  /\ pc = [w \in Writers |-> "idle"]
  /\ buf = [w \in Writers |-> NoGraph]

Init == Start("absent")

-----------------------------------------------------------------------------
\* with_lock, step by step.

\* Mutant: the lock is not exclusive.
TakeLockShared(w) ==
  /\ pc[w] = "idle"
  /\ lock' = w
  /\ pc' = [pc EXCEPT ![w] = "locked"]
  /\ UNCHANGED <<file, tmp, legacy, buf>>

TakeLock(w) ==
  /\ pc[w] = "idle"
  /\ lock = Free
  /\ lock' = w
  /\ pc' = [pc EXCEPT ![w] = "locked"]
  /\ UNCHANGED <<file, tmp, legacy, buf>>

\* read, then the closure.
Update(w) ==
  /\ pc[w] = "locked"
  /\ \E g \in Outcomes(Current) : buf' = [buf EXCEPT ![w] = g]
  /\ pc' = [pc EXCEPT ![w] = "write"]
  /\ UNCHANGED <<file, tmp, legacy, lock>>

\* Mutant: the early return forgets the lock.
RefuseKeepsLock(w) ==
  /\ pc[w] = "locked"
  /\ pc' = [pc EXCEPT ![w] = "idle"]
  /\ UNCHANGED <<file, tmp, legacy, lock, buf>>

\* The closure returns an error: nothing is saved.
Refuse(w) ==
  /\ pc[w] = "locked"
  /\ pc' = [pc EXCEPT ![w] = "unlock"]
  /\ UNCHANGED <<file, tmp, legacy, lock, buf>>

\* Mutant: the file itself is written, with no temporary file.
StartWriteInPlace(w) ==
  /\ pc[w] = "write"
  /\ file' = Contents("torn")
  /\ pc' = [pc EXCEPT ![w] = "writing"]
  /\ UNCHANGED <<tmp, legacy, lock, buf>>

\* std::fs::write truncates first, then writes.
StartWrite(w) ==
  /\ pc[w] = "write"
  /\ tmp' = Contents("torn")
  /\ pc' = [pc EXCEPT ![w] = "writing"]
  /\ UNCHANGED <<file, legacy, lock, buf>>

\* Mutant: the lock is dropped before the rename.
EndWriteUnlocks(w) ==
  /\ pc[w] = "writing"
  /\ tmp' = Holding(buf[w])
  /\ lock' = Free
  /\ pc' = [pc EXCEPT ![w] = "rename"]
  /\ UNCHANGED <<file, legacy, buf>>

EndWrite(w) ==
  /\ pc[w] = "writing"
  /\ tmp' = Holding(buf[w])
  /\ pc' = [pc EXCEPT ![w] = "rename"]
  /\ UNCHANGED <<file, legacy, lock, buf>>

Rename(w) ==
  /\ pc[w] = "rename"
  /\ file' = tmp
  /\ tmp' = Contents("absent")
  /\ pc' = [pc EXCEPT ![w] = "unlock"]
  /\ UNCHANGED <<legacy, lock, buf>>

\* The write or the rename returns an error.
SaveFails(w) ==
  /\ pc[w] \in {"write", "writing", "rename"}
  /\ pc' = [pc EXCEPT ![w] = "unlock"]
  /\ UNCHANGED <<file, tmp, legacy, lock, buf>>

Unlock(w) ==
  /\ pc[w] = "unlock"
  /\ lock' = Free
  /\ pc' = [pc EXCEPT ![w] = "idle"]
  /\ buf' = [buf EXCEPT ![w] = NoGraph]
  /\ UNCHANGED <<file, tmp, legacy>>

\* The process dies; the system releases its lock.
Crash(w) ==
  /\ pc[w] # "idle"
  /\ lock' = Free
  /\ pc' = [pc EXCEPT ![w] = "idle"]
  /\ buf' = [buf EXCEPT ![w] = NoGraph]
  /\ UNCHANGED <<file, tmp, legacy>>

\* A thread inside with_lock keeps running.
Continue(w) ==
  Update(w) \/ Refuse(w) \/ StartWrite(w) \/ EndWrite(w) \/ Rename(w)
    \/ SaveFails(w) \/ Unlock(w)

Next == \E w \in Writers : TakeLock(w) \/ Continue(w) \/ Crash(w)

Fairness == \A w \in Writers : WF_vars(Continue(w))

Spec == Init /\ [][Next]_vars /\ Fairness

\* A workgraph.json that does not parse, or that a newer version wrote.
SpecUnreadable == Start("unreadable") /\ [][Next]_vars

-----------------------------------------------------------------------------
(***************************************************************************)
(* The type invariant.                                                     *)
(***************************************************************************)
TypeOK ==
  /\ file.kind \in Kinds /\ IsGraph(file.g)
  /\ tmp.kind \in Kinds /\ IsGraph(tmp.g)
  /\ IsGraph(legacy)
  /\ lock \in Writers \cup {Free}
  /\ pc \in [Writers -> PCs]
  /\ DOMAIN buf = Writers /\ \A w \in Writers : IsGraph(buf[w])

(***************************************************************************)
(* No crash and no failed write leaves workgraph.json half written, so a   *)
(* reader that takes no lock always finds a whole graph.                   *)
(***************************************************************************)
FileNeverTorn == file.kind # "torn"

(***************************************************************************)
(* What a writer is about to save was computed from the graph that is      *)
(* still on disk, and only the holder of the lock is about to save: the    *)
(* invariant behind "no lost update".                                      *)
(***************************************************************************)
NoStaleSave ==
  \A w \in Writers :
    /\ pc[w] # "idle" => lock = w
    /\ pc[w] \in {"write", "writing", "rename"} => buf[w] \in Outcomes(Current)
    /\ pc[w] = "rename" => tmp = Holding(buf[w])

Atomic == INSTANCE WorkGraphSpec WITH graph <- Current

(***************************************************************************)
(* Refinement: whatever the interleaving, the crashes and the failures,    *)
(* the graph on disk changes exactly as if every with_lock were one atomic *)
(* operation; no update is lost and none is applied twice.                 *)
(***************************************************************************)
ImplementsWorkGraph == Atomic!GraphSpec

(***************************************************************************)
(* The lock is always given back: no error path keeps it.                  *)
(***************************************************************************)
LockReleased == \A w \in Writers : lock = w ~> lock # w

(***************************************************************************)
(* The promise of the comment on read_checked: a workgraph.json that       *)
(* cannot be read is never overwritten by a writer.                        *)
(***************************************************************************)
UnreadableKept == [][file.kind = "unreadable" => file' = file]_vars
=============================================================================
