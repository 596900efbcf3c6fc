---------------------------- MODULE EventStream ----------------------------
(***************************************************************************)
(* The event stream of a headless run, .ccd.bg.ndjson (src/bg_observer.rs).*)
(* start_run creates the file and keeps a handle that writes at its own    *)
(* position; the observers registered in the agents open it in append      *)
(* mode.  A file that has grown past the limit is rotated before the next  *)
(* event, by whichever observer emits it.  Events are their numbers, one   *)
(* per place in a file.                                                    *)
(***************************************************************************)
EXTENDS Naturals, Sequences

CONSTANTS RotateSize,   \* ROTATE_SIZE, in events
          MaxRotated,   \* MAX_ROTATED
          MaxEvents     \* bound: the events of a checked run

StreamAssumption ==
  RotateSize \in Nat /\ MaxRotated \in Nat \ {0} /\ MaxEvents \in Nat

VARIABLES
  stream,   \* the contents of the files: 1 is the live one, 2 is .1, ...
  outer,    \* the run's own observer: which file, where, appending or not
  inner,    \* the agents' observer: which file (always appending)
  emitted,  \* events emitted so far
  dropped,  \* history: events in files removed by rotation
  torn      \* history: events overwritten

streamVars == <<stream, outer, inner, emitted, dropped, torn>>

\* A handle on a file that rotation has removed writes into nothing.
Gone == MaxRotated + 2
Files == 1 .. Gone

OnFile(f) == {stream[f][i] : i \in DOMAIN stream[f]}

Init ==
  /\ stream = [f \in Files |-> <<>>]
  /\ outer = [file |-> 1, pos |-> 0, append |-> FALSE]
  /\ inner = 1
  /\ emitted = 0 /\ dropped = {} /\ torn = {}

\* BgObserver::new for the next turn: a fresh handle on the live file.
NewObserver ==
  /\ inner # 1
  /\ inner' = 1
  /\ UNCHANGED <<stream, outer, emitted, dropped, torn>>

\* rotate_ndjson: every file moves up by one name, the oldest is removed.  A
\* handle follows its file, not the name, except that of the observer that
\* rotates, which reopens the live file in append mode.
Rotated(who) ==
  LET Shifted(f) == IF f = Gone THEN Gone ELSE f + 1
  IN  [stream |-> [f \in Files |-> IF f \in {1, Gone} THEN <<>> ELSE stream[f - 1]],
       outer |-> IF who = "outer" THEN [file |-> 1, pos |-> 0, append |-> TRUE]
                 ELSE [outer EXCEPT !.file = Shifted(@)],
       inner |-> IF who = "inner" THEN 1 ELSE Shifted(inner),
       dropped |-> dropped \cup OnFile(MaxRotated + 1)]

\* What an observer finds when it has looked at the size of the live file.
Found(who) ==
  IF Len(stream[1]) > RotateSize THEN Rotated(who)
  ELSE [stream |-> stream, outer |-> outer, inner |-> inner, dropped |-> dropped]

\* Writing event e at place `at` of file f, given what was found.
Put(found, f, at, e) ==
  /\ stream' = IF f = Gone THEN found.stream
               ELSE IF at < Len(found.stream[f])
               THEN [found.stream EXCEPT ![f][at + 1] = e]
               ELSE [found.stream EXCEPT ![f] = Append(@, e)]
  /\ dropped' = IF f = Gone THEN found.dropped \cup {e} ELSE found.dropped

\* An event of a turn goes to the end of its file.
EmitInner ==
  /\ emitted < MaxEvents                                 \* bound
  /\ emitted' = emitted + 1
  /\ LET found == Found("inner")
     IN  /\ Put(found, found.inner, Len(found.stream[found.inner]), emitted')
         /\ outer' = found.outer /\ inner' = found.inner
  /\ UNCHANGED torn

\* An event of the run itself goes to where its handle is.
EmitOuter ==
  /\ emitted < MaxEvents                                 \* bound
  /\ emitted' = emitted + 1
  /\ LET found == Found("outer")
         f == found.outer.file
         at == IF found.outer.append THEN Len(found.stream[f])
                                     ELSE found.outer.pos
     IN  /\ Put(found, f, at, emitted')
         /\ outer' = [found.outer EXCEPT !.pos = at + 1]
         /\ inner' = found.inner
         /\ torn' = torn \cup {found.stream[f][i] :
                                 i \in {at + 1} \cap DOMAIN found.stream[f]}

Next == NewObserver \/ EmitInner \/ EmitOuter

Spec == Init /\ [][Next]_streamVars

-----------------------------------------------------------------------------
TypeOK ==
  /\ stream \in [Files -> Seq(1 .. MaxEvents)]
  /\ outer \in [file : Files, pos : Nat, append : BOOLEAN]
  /\ inner \in Files
  /\ emitted \in 0 .. MaxEvents
  /\ dropped \subseteq 1 .. MaxEvents /\ torn \subseteq 1 .. MaxEvents

Kept == UNION {OnFile(f) : f \in Files}

(***************************************************************************)
(* Every event of a run is in one of its files unless it was rotated out   *)
(* or was overwritten by the run's own observer; where nothing was         *)
(* overwritten each file is in the order of emission.                      *)
(***************************************************************************)
EventsAccounted ==
  /\ 1 .. emitted = Kept \cup dropped \cup torn
  /\ torn = {} => \A f \in Files : \A i, j \in DOMAIN stream[f] :
                     i < j => stream[f][i] < stream[f][j]
=============================================================================
