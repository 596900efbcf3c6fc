------------------------------ MODULE CronJobs ------------------------------
(***************************************************************************)
(* The cron store (src/tool/cron.rs) and the daemon's cron thread          *)
(* (src/daemon/mod.rs).  Time is counted in ticks, Minute of them to the   *)
(* minute; of the five fields of an expression one is kept, with the range *)
(* Lo .. Hi.  The thread polls once a tick but may be late, and the system *)
(* clock may be set back.                                                  *)
(***************************************************************************)
EXTENDS Integers, FiniteSets

CONSTANTS Minute,     \* ticks in a minute (60 s in the code)
          Lo, Hi,     \* range of the field
          MaxTime,    \* bound: ticks of a checked run
          MaxJobs     \* bound: jobs created in a checked run

CronAssumption ==
  /\ Minute \in Nat \ {0} /\ Lo \in Nat /\ Hi \in Nat /\ Lo <= Hi
  /\ MaxTime \in Nat /\ MaxJobs \in Nat

VARIABLES
  now,       \* system time
  jobs,      \* the entries, by id
  nextId,
  session,   \* some session can take a command
  fired,     \* history: <<id, minute>> of every firing
  twice,     \* history: a job fired twice in one minute
  polled,    \* history: <<id, minute>> of every job seen due by a poll
  setBack,   \* history: the clock has been set back
  taken      \* history: ids whose prompt reached a session

cronVars == <<now, jobs, nextId, session, fired, twice, polled, setBack, taken>>

Field == Lo .. Hi
Never == -1

\* A part of a field, `a-b/step`, a single number being `a-a`; a step of 0
\* stands for no step.
Parts == [star : BOOLEAN, range : BOOLEAN, a : Nat, b : Nat, step : Nat]

\* valid_field.
ValidField(p) == p.star \/ (Lo <= p.a /\ p.b <= Hi /\ p.a <= p.b)

\* field_matches: the steps of anything but a range are counted from 0.
FieldMatches(p, value) ==
  LET start == IF p.range THEN p.a ELSE 0
  IN /\ p.star \/ value \in p.a .. p.b
     /\ p.step # 0 => value >= start /\ (value - start) % p.step = 0

MinuteOf(t) == t \div Minute
ValueAt(t) == Lo + (MinuteOf(t) % (Hi - Lo + 1))

Init ==
  /\ now = 0 /\ jobs = {} /\ nextId = 1
  /\ session \in BOOLEAN
  /\ fired = {} /\ twice = FALSE /\ polled = {} /\ setBack = FALSE /\ taken = {}

\* The expressions tried: every form of a part, and one that is refused.
Texts ==
  LET part(s, r, a, b) == {[star |-> s, range |-> r, a |-> a, b |-> b, step |-> n] : n \in {0, 2}}
  IN part(TRUE, FALSE, 0, 0) \cup part(FALSE, FALSE, Lo + 1, Lo + 1)
     \cup part(FALSE, TRUE, Lo, Lo + 1) \cup part(FALSE, TRUE, Lo, Hi + 1)

\* CronCreate: an invalid expression is refused.
CronCreate ==
  /\ nextId <= MaxJobs                                   \* bound
  /\ \E p \in Texts, once \in BOOLEAN :
       /\ ValidField(p)
       /\ jobs' = jobs \cup {[id |-> nextId, when |-> p, once |-> once,
                              last |-> Never]}
  /\ nextId' = nextId + 1
  /\ UNCHANGED <<now, session, fired, twice, polled, setBack, taken>>

CronDelete ==
  /\ \E j \in jobs : jobs' = jobs \ {j}
  /\ UNCHANGED <<now, nextId, session, fired, twice, polled, setBack, taken>>

\* poll_cron_due: fired less than a minute ago, or later than now.
AlreadyFired(j) == j.last # Never /\ now - j.last < Minute

Matching == {j \in jobs : FieldMatches(j.when, ValueAt(now))}

Due == {j \in Matching : ~AlreadyFired(j)}

\* A round of the cron thread.  The prompts go to the first session; without
\* one they are dropped.
Poll ==
  LET here(j) == <<j.id, MinuteOf(now)>>
  IN /\ jobs' = (jobs \ Due) \cup {[j EXCEPT !.last = now] : j \in {k \in Due : ~k.once}}
     /\ polled' = polled \cup {here(j) : j \in Matching}
     /\ fired' = fired \cup {here(j) : j \in Due}
     /\ twice' = (twice \/ \E j \in Due : here(j) \in fired)
     /\ taken' = IF session THEN taken \cup {j.id : j \in Due} ELSE taken
     /\ UNCHANGED <<nextId, session, setBack>>

\* The thread sleeps a second between two rounds, or the second round is late.
Tick == now < MaxTime /\ now' = now + 1 /\ Poll

Late ==
  /\ now < MaxTime /\ now' = now + 1
  /\ UNCHANGED <<jobs, nextId, session, fired, twice, polled, setBack, taken>>

ClockSetBack ==
  /\ ~setBack /\ now > 1 /\ now' = now - 2 /\ setBack' = TRUE
  /\ UNCHANGED <<jobs, nextId, session, fired, twice, polled, taken>>

SessionChanges ==
  /\ session' = ~session
  /\ UNCHANGED <<now, jobs, nextId, fired, twice, polled, setBack, taken>>

Next ==
  CronCreate \/ CronDelete \/ Tick \/ Late \/ ClockSetBack \/ SessionChanges

Spec == Init /\ [][Next]_cronVars

-----------------------------------------------------------------------------
(***************************************************************************)
(* A job fires at most once a minute whatever the clock does, a one-shot   *)
(* job once in all.  A minute in which a poll finds it due is skipped only *)
(* when the clock was set back or the job fired in the minute before: the  *)
(* minute is measured from the last firing, so a late round makes the next *)
(* minute's firing late, and the last tick of it none at all.              *)
(***************************************************************************)
CronSound ==
  /\ now \in 0 .. MaxTime /\ nextId \in 1 .. MaxJobs + 1
  /\ \A j \in jobs : j.id < nextId /\ j.when \in Parts /\ ValidField(j.when)
  /\ ~twice
  /\ \A j \in jobs : j.once => \A f \in fired : f[1] # j.id
  /\ \A p \in polled : p \in fired \/ <<p[1], p[2] - 1>> \in fired \/ setBack
  /\ taken \subseteq {f[1] : f \in fired}
=============================================================================
