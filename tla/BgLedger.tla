------------------------------ MODULE BgLedger -----------------------------
(***************************************************************************)
(* bg_ledger.jsonl (src/bg_ledger.rs): headless processes append one JSON  *)
(* line per run, the daemon's cleanup thread truncates the file to its     *)
(* last MaxLines lines, and readers skip the lines that do not parse.      *)
(* Nobody takes a lock.  The file is the sequence of what was written to   *)
(* it: records, by their number, and newlines.                             *)
(***************************************************************************)
EXTENDS Naturals, Sequences, FiniteSets

CONSTANTS Appenders,    \* headless processes
          MaxLines,     \* max_ledger_lines; 0 means no limit
          MaxRecords    \* bound: the records of a checked run

LedgerAssumption == MaxLines \in Nat /\ MaxRecords \in Nat

VARIABLES
  ledger,     \* the file
  appending,  \* of each process: "idle", "opened", or "newline" to write
  stray,      \* the processes whose handle is on a file since replaced
  written,    \* records written so far
  cleaner,    \* the truncating thread: "idle" or "rename"
  kept,       \* what it has written to bg_ledger.jsonl.tmp
  memo,       \* the record summarised in memory/auto-bg-ledger, 0 if none
  bare,       \* history: a truncation or a dead process left no newline
  exposed,    \* history: records too old, or written between a truncation's
              \*   read and its rename or to the file it replaced
  spoiled     \* history: records that met another append or a missing newline

ledgerVars == <<ledger, appending, stray, written, cleaner, kept, memo, bare,
                exposed, spoiled>>

NL == 0
Records == 1 .. MaxRecords

On(s) == {s[i] : i \in DOMAIN s} \ {NL}

\* A line begins where the file does, and after each newline but the last.
LineStarts(s) == {i \in DOMAIN s : i = 1 \/ s[i - 1] = NL}

\* The record at i is a line that parses.
Alone(s, i) ==
  /\ i = 1 \/ s[i - 1] = NL
  /\ i = Len(s) \/ s[i + 1] = NL

Ends(s) == s = <<>> \/ s[Len(s)] = NL

\* Lines from position i on, without the last newline.
From(s, i) == SubSeq(s, i, IF Ends(s) THEN Len(s) - 1 ELSE Len(s))

Init ==
  /\ ledger = <<>> /\ appending = [a \in Appenders |-> "idle"] /\ stray = {}
  /\ written = 0 /\ cleaner = "idle" /\ kept = <<>> /\ memo = 0
  /\ bare = FALSE /\ exposed = {} /\ spoiled = {}

\* append: open the file that has the name now.
Open(a) ==
  /\ appending[a] = "idle"
  /\ appending' = [appending EXCEPT ![a] = "opened"]
  /\ UNCHANGED <<ledger, stray, written, cleaner, kept, memo, bare, exposed,
                 spoiled>>

\* Others have still to end their line.
Unended == {b \in Appenders \ stray : appending[b] = "newline"}

\* The record last written, if no newline followed.
OnLast == {ledger[i] : i \in DOMAIN ledger \cap {Len(ledger)}} \ {NL}

\* writeln!, the first write: the record.
WriteRecord(a) ==
  /\ appending[a] = "opened" /\ written < MaxRecords      \* bound
  /\ appending' = [appending EXCEPT ![a] = "newline"]
  /\ written' = written + 1
  /\ exposed' = IF a \in stray \/ cleaner = "rename"
                THEN exposed \cup {written'} ELSE exposed
  /\ IF a \in stray
     THEN UNCHANGED <<ledger, bare, spoiled>>
     ELSE /\ ledger' = Append(ledger, written')
          /\ spoiled' = IF bare \/ Unended # {}
                        THEN spoiled \cup {written'} \cup OnLast ELSE spoiled
          /\ bare' = FALSE
  /\ UNCHANGED <<stray, cleaner, kept, memo>>

\* The second: the newline, at the end of the file as it is by then.
WriteNewline(a) ==
  /\ appending[a] = "newline"
  /\ appending' = [appending EXCEPT ![a] = "idle"]
  /\ stray' = stray \ {a}
  /\ IF a \in stray
     THEN UNCHANGED <<ledger, bare>>
     ELSE ledger' = Append(ledger, NL) /\ bare' = FALSE
  /\ UNCHANGED <<written, cleaner, kept, memo, exposed, spoiled>>

\* The process is killed, or its write fails.
AppendDies(a) ==
  /\ appending[a] # "idle"
  /\ appending' = [appending EXCEPT ![a] = "idle"]
  /\ stray' = stray \ {a}
  /\ bare' = (bare \/ a \in Unended)
  /\ UNCHANGED <<ledger, written, cleaner, kept, memo, exposed, spoiled>>

\* truncate, up to the write of the temporary file.
TruncateRead ==
  /\ cleaner = "idle"
  /\ MaxLines > 0 /\ Cardinality(LineStarts(ledger)) > MaxLines
  /\ \E first \in LineStarts(ledger) :
       /\ Cardinality({i \in LineStarts(ledger) : i >= first}) = MaxLines
       /\ kept' = From(ledger, first)
  /\ cleaner' = "rename"
  /\ exposed' = exposed \cup (On(ledger) \ On(kept'))
  /\ UNCHANGED <<ledger, appending, stray, written, memo, bare, spoiled>>

\* Mutant: what was kept loses its first line.
TruncateRenameShort ==
  /\ cleaner = "rename"
  /\ ledger' = SubSeq(kept, 2, Len(kept)) /\ bare' = TRUE
  /\ stray' = {a \in Appenders : appending[a] # "idle"}
  /\ cleaner' = "idle" /\ kept' = <<>>
  /\ UNCHANGED <<appending, written, memo, exposed, spoiled>>

\* The kept lines, without a newline at the end, replace the file; who has it
\* open goes on writing to the old one.
TruncateRename ==
  /\ cleaner = "rename"
  /\ ledger' = kept /\ bare' = TRUE
  /\ stray' = {a \in Appenders : appending[a] # "idle"}
  /\ cleaner' = "idle" /\ kept' = <<>>
  /\ UNCHANGED <<appending, written, memo, exposed, spoiled>>

\* The temporary file cannot be written or renamed.
TruncateFails ==
  /\ cleaner = "rename"
  /\ cleaner' = "idle" /\ kept' = <<>>
  /\ UNCHANGED <<ledger, appending, stray, written, memo, bare, exposed, spoiled>>

\* The daemon's ledger review: the last line, if it parses, is summarised.
ReviewLast ==
  LET last == IF Ends(ledger) THEN Len(ledger) - 1 ELSE Len(ledger)
  IN  /\ ledger # <<>>
      /\ memo' = IF last > 0 /\ ledger[last] # NL /\ Alone(ledger, last)
                 THEN ledger[last] ELSE memo
      /\ UNCHANGED <<ledger, appending, stray, written, cleaner, kept, bare,
                     exposed, spoiled>>

Next ==
  \/ \E a \in Appenders : Open(a) \/ WriteRecord(a) \/ WriteNewline(a) \/ AppendDies(a)
  \/ TruncateRead \/ TruncateRename \/ TruncateFails \/ ReviewLast

Spec == Init /\ [][Next]_ledgerVars

-----------------------------------------------------------------------------
TypeOK ==
  /\ ledger \in Seq(Records \cup {NL}) /\ kept \in Seq(Records \cup {NL})
  /\ appending \in [Appenders -> {"idle", "opened", "newline"}]
  /\ stray \subseteq Appenders /\ bare \in BOOLEAN
  /\ written \in Records \cup {0} /\ memo \in Records \cup {0}
  /\ cleaner \in {"idle", "rename"}
  /\ exposed \subseteq Records /\ spoiled \subseteq Records

(***************************************************************************)
(* A record leaves the file only by age or by being written while a        *)
(* truncation replaces the file; those in it are in the order they were    *)
(* written; and each is on a line of its own unless another append was     *)
(* under way or a truncation or a dead process had left no newline.        *)
(***************************************************************************)
RecordsSurvive ==
  /\ 1 .. written \subseteq On(ledger) \cup exposed
  /\ \A i, j \in DOMAIN ledger :
       i < j /\ NL \notin {ledger[i], ledger[j]} => ledger[i] < ledger[j]
  /\ \A i \in DOMAIN ledger : ledger[i] \notin spoiled \cup {NL} => Alone(ledger, i)
=============================================================================
