------------------------------- MODULE Traces -------------------------------
(***************************************************************************)
(* The trace of the agents of a process (src/trace/observer_set.rs,        *)
(* src/trace/writer.rs, src/trace/reader.rs).  Every agent, sub-agents     *)
(* included, has an observer that sends span starts and ends to a writer   *)
(* thread of its own; all writers append to the file .ccd.trace.ndjson, a  *)
(* line and then its newline, each counting only what it wrote itself and  *)
(* rotating the files when that reaches the limit.  The id of a turn's     *)
(* span is its kind and the second it started in; that of any other span   *)
(* carries the time in full and is taken to be unique.  A reader builds    *)
(* the spans from the live file alone and skips a line that does not       *)
(* parse, such as two in one.                                              *)
(***************************************************************************)
EXTENDS Naturals, Sequences, FiniteSets, SequencesExt

CONSTANTS Agents,
          RotateSize, MaxRotated,   \* ROTATE_SIZE, in lines, and MAX_ROTATED
          MaxSpans, MaxSeconds, MaxWriters      \* bounds

TracesAssumption ==
  /\ IsFiniteSet(Agents) /\ RotateSize \in Nat \ {0} /\ MaxRotated \in Nat \ {0}
  /\ MaxSpans \in Nat /\ MaxSeconds \in Nat /\ MaxWriters \in Nat

VARIABLES
  second, spans,     \* the clock, the spans started so far
  turn, call,        \* of an agent: its open turn and model call, "none"
  feed,              \* lines sent to its writer
  handle, bytes, header,   \* of its writer
  trace,             \* contents: 1 is the live file, then .1, ..., then none
  midline,           \* the writers that have their newline still to write
  unended,           \* the files that do not end in a newline
  glued,             \* the lines that share theirs with another
  writers,           \* writers started so far
  used, collided, crashed, lost

agentVars == <<second, spans, turn, call, used, collided>>
writerVars == <<handle, bytes, header, trace, lost, midline, unended, glued>>
traceVars == <<agentVars, feed, writerVars, writers, crashed>>

None == <<"none", 0>>
Removed == MaxRotated + 2
TraceFiles == 1 .. Removed

Init ==
  /\ second = 1 /\ spans = 0
  /\ turn = [a \in Agents |-> None] /\ call = [a \in Agents |-> None]
  /\ feed = [a \in Agents |-> <<>>]
  /\ handle = [a \in Agents |-> 0] /\ bytes = [a \in Agents |-> 0]
  /\ header = [a \in Agents |-> FALSE]
  /\ trace = [f \in TraceFiles |-> <<>>]
  /\ midline = {} /\ unended = {} /\ glued = {}
  /\ writers = 1
  /\ used = {} /\ collided = FALSE /\ crashed = {} /\ lost = {}

Line(type, id) == [type |-> type, id |-> id]
Observe(a, line) == feed' = [feed EXCEPT ![a] = Append(@, line)]

StartTurn(a) ==
  LET id == <<"turn", second>>
  IN  /\ turn[a] = None /\ spans < MaxSpans
      /\ turn' = [turn EXCEPT ![a] = id] /\ spans' = spans + 1
      /\ collided' = (collided \/ id \in used) /\ used' = used \cup {id}
      /\ Observe(a, Line("s", id))
      /\ UNCHANGED <<second, call, writerVars, writers, crashed>>

StartCall(a) ==
  LET id == <<"llm", spans + 1>>
  IN  /\ turn[a] # None /\ call[a] = None /\ spans < MaxSpans
      /\ call' = [call EXCEPT ![a] = id] /\ spans' = spans + 1
      /\ used' = used \cup {id}
      /\ Observe(a, Line("s", id))
      /\ UNCHANGED <<second, turn, collided, writerVars, writers, crashed>>

EndCall(a) ==
  /\ call[a] # None
  /\ call' = [call EXCEPT ![a] = None]
  /\ Observe(a, Line("e", call[a]))
  /\ UNCHANGED <<second, spans, turn, used, collided, writerVars, writers, crashed>>

EndTurn(a) ==
  /\ turn[a] # None /\ call[a] = None
  /\ turn' = [turn EXCEPT ![a] = None]
  /\ Observe(a, Line("e", turn[a]))
  /\ UNCHANGED <<second, spans, call, used, collided, writerVars, writers, crashed>>

Tick ==
  /\ second < MaxSeconds /\ second' = second + 1
  /\ UNCHANGED <<spans, turn, call, used, collided, feed, writerVars, writers, crashed>>

\* The writer of an agent that is gone ends when it has written everything;
\* the next agent has a writer that has written nothing yet.
NextAgent(a) ==
  /\ turn[a] = None /\ feed[a] = <<>> /\ header[a] /\ a \notin midline
  /\ writers < MaxWriters
  /\ handle' = [handle EXCEPT ![a] = 0] /\ bytes' = [bytes EXCEPT ![a] = 0]
  /\ header' = [header EXCEPT ![a] = FALSE]
  /\ writers' = writers + 1
  /\ UNCHANGED <<agentVars, feed, trace, lost, midline, unended, glued, crashed>>

\* rotate_ndjson for the writer of a, which opens the new live file: any other
\* handle follows its file, not the name.
Rotate(state, a) ==
  LET Shifted(f) == IF f \in {0, Removed} THEN f ELSE f + 1
  IN  [trace |-> [f \in TraceFiles |-> IF f \in {1, Removed} THEN <<>>
                                       ELSE state.trace[f - 1]],
       handle |-> [b \in Agents |-> IF b = a THEN 1 ELSE Shifted(state.handle[b])],
       lost |-> state.lost \cup ToSet(state.trace[MaxRotated + 1])]

\* write_line opens the live file the first time.
Put(state, a, lines) ==
  LET f == IF state.handle[a] = 0 THEN 1 ELSE state.handle[a]
  IN  IF f = Removed
      THEN [state EXCEPT !.lost = @ \cup ToSet(lines)]
      ELSE [trace |-> [state.trace EXCEPT ![f] = @ \o lines],
            handle |-> [state.handle EXCEPT ![a] = f], lost |-> state.lost]

\* A line put to a file that does not end in a newline joins the last one.
Met(files, open, f, line) ==
  IF f \in open THEN {line, files[f][Len(files[f])]} ELSE {}

PutHeader(a) ==
  LET line == Line("meta", None)
      done == Put([trace |-> trace, handle |-> handle, lost |-> lost], a, <<line>>)
  IN  /\ feed[a] # <<>> /\ ~header[a]
      /\ header' = [header EXCEPT ![a] = TRUE]
      /\ trace' = done.trace /\ handle' = done.handle /\ lost' = done.lost
      /\ bytes' = [bytes EXCEPT ![a] = @ + 1]
      /\ midline' = midline \cup {a}
      /\ glued' = glued \cup Met(trace, unended, 1, line)
      /\ unended' = unended \cup {1}
      /\ UNCHANGED <<agentVars, feed, writers, crashed>>

PutEvent(a) ==
  LET line == Head(feed[a])
      room == bytes[a] < RotateSize
      begun == [trace |-> trace, handle |-> handle, lost |-> lost]
      ready == IF room THEN begun ELSE Rotate(begun, a)
      f == ready.handle[a]
      open == IF room THEN unended ELSE {g + 1 : g \in unended}
      done == Put(ready, a, <<line>>)
  IN  /\ feed[a] # <<>> /\ header[a] /\ a \notin midline
      /\ feed' = [feed EXCEPT ![a] = Tail(@)]
      /\ trace' = done.trace /\ handle' = done.handle /\ lost' = done.lost
      /\ bytes' = [bytes EXCEPT ![a] = (IF room THEN @ ELSE 0) + 1]
      /\ midline' = midline \cup {a}
      /\ glued' = glued \cup Met(ready.trace, open \ {Removed}, f, line)
      /\ unended' = (open \cup {f}) \ {Removed}
      /\ UNCHANGED <<agentVars, header, writers, crashed>>

\* The newline ends whatever line is last in the file by then; a write that
\* fails is ignored.
PutNewline(a) ==
  /\ a \in midline
  /\ midline' = midline \ {a}
  /\ unended' \in {unended, unended \ {handle[a]}}
  /\ UNCHANGED <<agentVars, feed, handle, bytes, header, trace, lost, glued,
                 writers, crashed>>

\* The process ends with spans open and lines unwritten; the next one has as
\* many writers, which start from nothing.
Crash ==
  /\ writers < MaxWriters /\ writers' = writers + 1
  /\ crashed' = crashed \cup {turn[a] : a \in Agents} \cup {call[a] : a \in Agents}
                        \cup (UNION {{feed[a][i].id : i \in DOMAIN feed[a]} : a \in Agents})
  /\ turn' = [a \in Agents |-> None] /\ call' = [a \in Agents |-> None]
  /\ feed' = [a \in Agents |-> <<>>]
  /\ handle' = [a \in Agents |-> 0] /\ bytes' = [a \in Agents |-> 0]
  /\ header' = [a \in Agents |-> FALSE]
  /\ midline' = {}
  /\ UNCHANGED <<second, spans, used, collided, trace, lost, unended, glued>>

Next ==
  \/ \E a \in Agents : \/ StartTurn(a) \/ StartCall(a) \/ EndCall(a) \/ EndTurn(a)
                       \/ PutHeader(a) \/ PutEvent(a) \/ PutNewline(a)
                       \/ NextAgent(a)
  \/ Tick \/ Crash

Spec == Init /\ [][Next]_traceVars

-----------------------------------------------------------------------------
(* The reader: read_tree over the live file. *)

Live == trace[1]

\* The spans of the tree, and those shown to have ended: an end counts after
\* the first start of its id.
Shown == {Live[i].id : i \in {j \in DOMAIN Live : Live[j].type = "s" /\ Live[j] \notin glued}}
Ended == {id \in Shown : \E i, j \in DOMAIN Live :
            /\ i < j /\ Live[i] = Line("s", id) /\ Live[j] = Line("e", id)
            /\ Line("e", id) \notin glued}

Open == {turn[a] : a \in Agents} \cup {call[a] : a \in Agents}
Pending(line) == \E a \in Agents : \E i \in DOMAIN feed[a] : feed[a][i] = line
Elsewhere(line) == line \in lost \/ \E f \in TraceFiles \ {1} : line \in ToSet(trace[f])

(***************************************************************************)
(* What a reader shows of the live file is true of the agents: a span that *)
(* has an end has ended, and one that has none is open, or its end is on   *)
(* its way, was rotated out, fell to a crash or shares its line with       *)
(* another writer's; unless two turns that started in the same second      *)
(* shared an id.  However often agents come and go, a file holds no more   *)
(* than the writers' limits together.                                      *)
(***************************************************************************)
TraceSound ==
  /\ ~collided => /\ Ended \cap Open = {}
                  /\ \A id \in Shown \ Ended :
                       \/ id \in Open \cup crashed
                       \/ Pending(Line("e", id)) \/ Elsewhere(Line("e", id))
                       \/ Line("e", id) \in glued
  /\ \A f \in TraceFiles :
       Len(trace[f]) <= RotateSize * (Cardinality(Agents) * writers)
=============================================================================
