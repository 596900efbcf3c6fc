------------------------------- MODULE Review -------------------------------
(***************************************************************************)
(* The verdict of a review sub-agent (src/review.rs): its report is parsed *)
(* line by line, the last verdict and the last line of signals count, and  *)
(* the verdict is at least as severe as the signals.  Each step reads one  *)
(* line more; `Verdict` is what the outcome would be if it were the last.  *)
(***************************************************************************)
EXTENDS Naturals, Sequences

CONSTANT MaxLines    \* bound: lines of a report

ReviewAssumption == MaxLines \in Nat

VARIABLES
  report,     \* history: the lines read
  parsed      \* what the parser has kept of them

reviewVars == <<report, parsed>>

Severity == [pass |-> 0, needs_fix |-> 1, rebuild |-> 2]
Severer(v, w) == IF Severity[w] > Severity[v] THEN w ELSE v

\* Of the four signals, foundation and the rest; an absent one is ok, a value
\* that is not known is a warning.
Statuses == {"ok", "warn", "fail"}
Signals == [foundation : Statuses, rest : Statuses]

Derived(s) ==
  IF s.foundation = "fail" THEN "rebuild"
  ELSE IF s.rest = "fail" THEN "needs_fix" ELSE "pass"

Prose == [is |-> "prose", verdict |-> "pass", signals |-> [foundation |-> "ok", rest |-> "ok"]]
Lines == {Prose} \cup {[Prose EXCEPT !.is = "verdict", !.verdict = v] : v \in DOMAIN Severity}
                 \cup {[Prose EXCEPT !.is = "signals", !.signals = s] : s \in Signals}

Unparsed == [verdict |-> Prose, signals |-> Prose]

\* A line whose verdict is none of the three is prose.
ReadLine(seen, l) ==
  CASE l.is = "verdict" -> [seen EXCEPT !.verdict = l]
    [] l.is = "signals" -> [seen EXCEPT !.signals = l]
    [] OTHER -> seen

\* The end of parse_review.
Verdict ==
  IF parsed = Unparsed THEN "needs_fix"
  ELSE Severer(parsed.verdict.verdict, Derived(parsed.signals.signals))

Init == report = <<>> /\ parsed = Unparsed

Next ==
  /\ Len(report) < MaxLines                               \* bound
  /\ \E l \in Lines : report' = Append(report, l) /\ parsed' = ReadLine(parsed, l)

Spec == Init /\ [][Next]_reviewVars

-----------------------------------------------------------------------------
LastOf(is) == {i \in DOMAIN report :
               report[i].is = is /\ \A j \in DOMAIN report : j > i => report[j].is # is}

(***************************************************************************)
(* A change passes only when the reviewer said something in the agreed     *)
(* form, the last thing it said of a verdict is pass and the last thing it *)
(* said of the signals has no failure: a panicking, silent or rambling     *)
(* reviewer never passes a change, and a failed foundation always rebuilds.*)
(***************************************************************************)
ReviewSound ==
  /\ Verdict = "pass" <=>
       /\ \E i \in DOMAIN report : report[i].is # "prose"
       /\ \A i \in LastOf("verdict") : report[i].verdict = "pass"
       /\ \A i \in LastOf("signals") :
            report[i].signals.foundation # "fail" /\ report[i].signals.rest # "fail"
  /\ \A i \in LastOf("signals") :
       report[i].signals.foundation = "fail" => Verdict = "rebuild"
=============================================================================
