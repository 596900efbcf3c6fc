-------------------------- MODULE WorkGraphLemmas --------------------------
(***************************************************************************)
(* Lemmas about the operations on graph values, for every MaxId.           *)
(***************************************************************************)
EXTENDS WorkGraph, WellFoundedInduction, TLAPS

-----------------------------------------------------------------------------
\* Least and greatest elements of sets of naturals.

(***************************************************************************)
(* A non-empty set of naturals has a least element.                        *)
(***************************************************************************)
LEMMA LeastOf ==
  ASSUME NEW S \in SUBSET Nat, S # {}
  PROVE  \E n \in S : \A m \in S : n <= m
<1>1. \E x \in S : \A y \in S : ~ (<<y, x>> \in OpToRel(<, Nat))
  BY NatLessThanWellFounded, WFMin, Zenon
<1>2. \A x, y \in Nat : (<<y, x>> \in OpToRel(<, Nat)) <=> y < x
  BY Zenon DEF OpToRel
<1>3. \E x \in S : \A y \in S : ~ (y < x)
  BY <1>1, <1>2, Zenon
<1> QED BY <1>3

(***************************************************************************)
(* A non-empty set of naturals below a bound has a greatest element.       *)
(***************************************************************************)
LEMMA GreatestOf ==
  ASSUME NEW N \in Nat, NEW S \in SUBSET (1 .. N), S # {}
  PROVE  \E n \in S : \A m \in S : m <= n
<1> DEFINE U == {n \in Nat : \A m \in S : m <= n}
<1>1. N \in U  OBVIOUS
<1>2. PICK u \in U : \A v \in U : u <= v
  BY <1>1, LeastOf
<1>3. CASE u \in S  BY <1>2, <1>3
<1>4. CASE u \notin S
  <2>1. \A m \in S : m < u  BY <1>2, <1>4
  <2>2. u \in Nat \ {0}
    <3>1. PICK m \in S : TRUE  OBVIOUS
    <3> QED BY <2>1, <3>1
  <2>3. u - 1 \in U  BY <2>1, <2>2
  <2> QED BY <1>2, <2>2, <2>3
<1> QED BY <1>3, <1>4

-----------------------------------------------------------------------------
\* The operations on graph values.

(***************************************************************************)
(* next_id is larger than every id in the graph, so it is fresh.           *)
(***************************************************************************)
LEMMA NextIdFresh ==
  ASSUME NEW g, IsGraph(g)
  PROVE  /\ NextId(g) \in Nat
         /\ \A n \in DOMAIN g : n < NextId(g)
<1> USE MaxIdAssumption DEF Ids
<1>1. CASE DOMAIN g = {}  BY <1>1 DEF NextId
<1>2. CASE DOMAIN g # {}
  <2>1. DOMAIN g \in SUBSET (1 .. MaxId)  BY DEF IsGraph
  <2>2. \E n \in DOMAIN g : \A m \in DOMAIN g : m <= n
    BY <1>2, <2>1, GreatestOf
  <2> DEFINE top == CHOOSE n \in DOMAIN g : \A m \in DOMAIN g : m <= n
  <2>3. top \in DOMAIN g /\ \A m \in DOMAIN g : m <= top  BY <2>2
  <2>4. NextId(g) = 1 + top  BY <1>2 DEF NextId
  <2> QED BY <2>1, <2>3, <2>4
<1> QED BY <1>1, <1>2

(***************************************************************************)
(* recompute_blocked keeps the nodes, their dependencies and which of them *)
(* are done, and leaves no unjustified block.                              *)
(***************************************************************************)
LEMMA RecomputeBlockedFacts ==
  ASSUME NEW g, IsGraph(g)
  PROVE  /\ IsGraph(RecomputeBlocked(g))
         /\ DOMAIN RecomputeBlocked(g) = DOMAIN g
         /\ \A n \in DOMAIN g : RecomputeBlocked(g)[n].deps = g[n].deps
         /\ BlockedJustified(RecomputeBlocked(g))
<1> DEFINE r == RecomputeBlocked(g)
<1>1. DOMAIN r = DOMAIN g  BY DEF RecomputeBlocked
<1>2. \A n \in DOMAIN g :
        /\ r[n] = [deps |-> r[n].deps, status |-> r[n].status]
        /\ r[n].deps = g[n].deps
        /\ r[n].status = Derived(g, n)
  BY DEF RecomputeBlocked
<1>9. r = [n \in DOMAIN g |-> r[n]]  BY DEF RecomputeBlocked
<1> HIDE DEF r
<1>3. \A n \in DOMAIN g : g[n].deps \in SUBSET Ids /\ g[n].status \in Statuses
  BY DEF IsGraph, Milestone
<1>4. \A n \in DOMAIN g : Derived(g, n) \in Statuses
  BY <1>3 DEF Derived, Statuses
<1>5. \A n \in DOMAIN g : (r[n].status = "done") <=> (g[n].status = "done")
  BY <1>2 DEF Derived
<1>6. \A n \in DOMAIN g : DepsDone(r, n) <=> DepsDone(g, n)
  BY <1>1, <1>2, <1>5 DEF DepsDone
<1>7. BlockedJustified(r)
  <2> SUFFICES ASSUME NEW n \in DOMAIN g, r[n].status = "blocked"
               PROVE  ~DepsDone(g, n)
    BY <1>1, <1>6 DEF BlockedJustified
  <2>1. Derived(g, n) = "blocked"  BY <1>2
  <2> QED BY <2>1 DEF Derived
<1>8. IsGraph(r)
  <2>1. ASSUME NEW n \in DOMAIN g PROVE r[n] \in Milestone
    <3>1. r[n].deps \in SUBSET Ids /\ r[n].status \in Statuses
      BY <1>2, <1>3, <1>4
    <3>2. [deps |-> r[n].deps, status |-> r[n].status] \in Milestone
      BY <3>1 DEF Milestone
    <3> QED BY <1>2, <3>2
  <2>2. r \in [DOMAIN g -> Milestone]
    BY <1>9, <2>1
  <2> QED BY <1>1, <2>2 DEF IsGraph
<1> QED BY <1>1, <1>2, <1>7, <1>8 DEF r

(***************************************************************************)
(* recompute_blocked establishes BlockedJustified and keeps the rest.      *)
(***************************************************************************)
LEMMA RecomputeBlockedSound ==
  ASSUME NEW g, IsGraph(g), DepsResolve(g), DepsOlder(g)
  PROVE  Sound(RecomputeBlocked(g))
<1> DEFINE r == RecomputeBlocked(g)
<1>1. /\ IsGraph(r)
      /\ DOMAIN r = DOMAIN g
      /\ \A n \in DOMAIN g : r[n].deps = g[n].deps
      /\ BlockedJustified(r)
  BY RecomputeBlockedFacts
<1> HIDE DEF r
<1>2. DepsResolve(r) /\ DepsOlder(r)  BY <1>1 DEF DepsResolve, DepsOlder
<1> QED BY <1>1, <1>2 DEF r, Sound

(***************************************************************************)
(* Adding a milestone keeps a graph sound.                                 *)
(***************************************************************************)
LEMMA AddSound ==
  ASSUME NEW g, Sound(g), NextId(g) \in Ids,
         NEW titled \in BOOLEAN, NEW deps \in SUBSET Ids
  PROVE  Sound(Add(g, titled, deps))
<1>1. CASE AddRefused(g, titled, deps)  BY <1>1 DEF Add
<1>2. CASE ~AddRefused(g, titled, deps)
  <2> DEFINE id == NextId(g)
             p == Push(g, deps)
  <2>1. deps \subseteq DOMAIN g  BY <1>2 DEF AddRefused
  <2>2. id \in Ids /\ \A n \in DOMAIN g : n < id
    BY NextIdFresh DEF Sound
  <2>3. DOMAIN g \subseteq Ids /\ \A n \in DOMAIN g : g[n] \in Milestone
    BY DEF Sound, IsGraph
  <2>4. DOMAIN p = DOMAIN g \cup {id}  BY DEF Push
  <2>5. id \notin DOMAIN g
    BY <2>2, <2>3, MaxIdAssumption DEF Ids
  <2>6. p[id] = [deps |-> deps, status |-> "pending"]  BY DEF Push
  <2>7. \A n \in DOMAIN g : p[n] = g[n]  BY <2>5 DEF Push
  <2>8. p = [n \in DOMAIN g \cup {id} |-> p[n]]  BY DEF Push
  <2> HIDE DEF id, p
  <2>9. \A n \in DOMAIN p : p[n] \in Milestone
    BY <2>3, <2>4, <2>6, <2>7 DEF Milestone, Statuses
  <2>10. IsGraph(p)
    BY <2>2, <2>3, <2>4, <2>8, <2>9 DEF IsGraph
  <2>11. DepsResolve(p)
    BY <2>1, <2>4, <2>6, <2>7 DEF DepsResolve, Sound
  <2>12. DepsOlder(p)
    BY <2>1, <2>2, <2>4, <2>6, <2>7 DEF DepsOlder, Sound
  <2>13. Sound(RecomputeBlocked(p))
    BY <2>10, <2>11, <2>12, RecomputeBlockedSound
  <2> QED BY <1>2, <2>13 DEF Add, p
<1> QED BY <1>1, <1>2

(***************************************************************************)
(* Setting any status keeps a graph sound: the derived statuses follow.    *)
(***************************************************************************)
LEMMA SetStatusSound ==
  ASSUME NEW g, Sound(g), NEW id \in Ids, NEW status \in Statuses
  PROVE  Sound(SetStatus(g, id, status))
<1>1. CASE id \notin DOMAIN g  BY <1>1 DEF SetStatus
<1>2. CASE id \in DOMAIN g
  <2> DEFINE w == WithStatus(g, id, status)
  <2>1. DOMAIN w = DOMAIN g /\ w = [n \in DOMAIN g |-> w[n]]
    BY DEF WithStatus
  <2>2. \A n \in DOMAIN g :
          w[n].deps = g[n].deps /\ w[n] \in Milestone
    BY DEF WithStatus, Sound, IsGraph, Milestone
  <2>3. DOMAIN g \subseteq Ids  BY DEF Sound, IsGraph
  <2> HIDE DEF w
  <2>4. IsGraph(w)  BY <2>1, <2>2, <2>3 DEF IsGraph
  <2>5. DepsResolve(w) /\ DepsOlder(w)
    BY <2>1, <2>2 DEF DepsResolve, DepsOlder, Sound
  <2> QED BY <1>2, <2>4, <2>5, RecomputeBlockedSound DEF SetStatus, w
<1> QED BY <1>1, <1>2

(***************************************************************************)
(* Removing a milestone nobody depends on keeps a graph sound.             *)
(***************************************************************************)
LEMMA RemoveSound ==
  ASSUME NEW g, Sound(g), NEW id \in Ids
  PROVE  Sound(Remove(g, id))
<1>1. CASE RemoveRefused(g, id)  BY <1>1 DEF Remove
<1>2. CASE ~RemoveRefused(g, id)
  <2> DEFINE r == [n \in DOMAIN g \ {id} |-> g[n]]
  <2>1. DOMAIN r = DOMAIN g \ {id}  OBVIOUS
  <2>2. \A n \in DOMAIN r : r[n] = g[n] /\ id \notin g[n].deps
    BY <1>2 DEF RemoveRefused, DependedOn
  <2>3. IsGraph(r)  BY DEF Sound, IsGraph
  <2> HIDE DEF r
  <2>4. DepsResolve(r) /\ DepsOlder(r)
    BY <2>1, <2>2 DEF DepsResolve, DepsOlder, Sound
  <2> QED BY <1>2, <2>3, <2>4, RecomputeBlockedSound DEF Remove, r
<1> QED BY <1>1, <1>2

(***************************************************************************)
(* The cross-run reset keeps a graph sound although it does not recompute: *)
(* it takes no dependency from done to not done or back.                   *)
(***************************************************************************)
LEMMA ResetInProgressSound ==
  ASSUME NEW g, Sound(g)
  PROVE  Sound(ResetInProgress(g))
<1> DEFINE r == ResetInProgress(g)
<1>1. DOMAIN r = DOMAIN g /\ r = [n \in DOMAIN g |-> r[n]]
  BY DEF ResetInProgress
<1>2. \A n \in DOMAIN g :
        /\ r[n].deps = g[n].deps
        /\ r[n] \in Milestone
        /\ (r[n].status = "done") <=> (g[n].status = "done")
        /\ r[n].status = "blocked" => g[n].status = "blocked"
  BY DEF ResetInProgress, Sound, IsGraph, Milestone, Statuses
<1>3. DOMAIN g \subseteq Ids  BY DEF Sound, IsGraph
<1> HIDE DEF r
<1>4. IsGraph(r)  BY <1>1, <1>2, <1>3 DEF IsGraph
<1>5. DepsResolve(r) /\ DepsOlder(r)
  BY <1>1, <1>2 DEF DepsResolve, DepsOlder, Sound
<1>6. BlockedJustified(r)
  <2>1. \A n \in DOMAIN g : DepsDone(r, n) <=> DepsDone(g, n)
    BY <1>1, <1>2 DEF DepsDone
  <2> QED BY <1>1, <1>2, <2>1 DEF BlockedJustified, Sound
<1> QED BY <1>4, <1>5, <1>6 DEF Sound, r

(***************************************************************************)
(* Seeding a batch of dependency-less milestones keeps a graph sound.      *)
(***************************************************************************)
LEMMA AddBatchSound ==
  ASSUME NEW g, Sound(g), NEW k \in 1 .. MaxId, NextId(g) + k - 1 \in Ids
  PROVE  Sound(AddBatch(g, k))
<1> DEFINE new == NextId(g) .. NextId(g) + k - 1
           p == [n \in DOMAIN g \cup new |->
                   IF n \in DOMAIN g THEN g[n]
                   ELSE [deps |-> {}, status |-> "pending"]]
<1>1. NextId(g) \in Nat /\ \A n \in DOMAIN g : n < NextId(g)
  BY NextIdFresh DEF Sound
<1>2. DOMAIN g \subseteq Ids /\ \A n \in DOMAIN g : g[n] \in Milestone
  BY DEF Sound, IsGraph
<1>3. new \subseteq Ids
  <2>1. NextId(g) >= 1
    <3>1. CASE DOMAIN g = {}  BY <3>1 DEF NextId
    <3>2. CASE DOMAIN g # {}  BY <1>1, <1>2, <3>2, MaxIdAssumption DEF Ids
    <3> QED BY <3>1, <3>2
  <2> QED BY <1>1, <2>1, MaxIdAssumption DEF Ids
<1>4. DOMAIN p = DOMAIN g \cup new /\ p = [n \in DOMAIN g \cup new |-> p[n]]
  OBVIOUS
<1>5. /\ \A n \in DOMAIN g : p[n] = g[n]
      /\ \A n \in new \ DOMAIN g : p[n] = [deps |-> {}, status |-> "pending"]
  OBVIOUS
<1>6. AddBatch(g, k) = RecomputeBlocked(p)  BY DEF AddBatch
<1> HIDE DEF p, new
<1>7. \A n \in DOMAIN p : p[n] \in Milestone
  BY <1>2, <1>4, <1>5 DEF Milestone, Statuses
<1>8. IsGraph(p)  BY <1>2, <1>3, <1>4, <1>7 DEF IsGraph
<1>9. DepsResolve(p) /\ DepsOlder(p)
  BY <1>4, <1>5 DEF DepsResolve, DepsOlder, Sound
<1> QED BY <1>6, <1>8, <1>9, RecomputeBlockedSound

(***************************************************************************)
(* Every closure the system runs under with_lock keeps a graph sound.      *)
(***************************************************************************)
LEMMA OutcomesSound ==
  ASSUME NEW g, Sound(g), NEW h \in Outcomes(g)
  PROVE  Sound(h)
<1>1. CASE NextId(g) \in Ids /\ h \in AddOutcomes(g)
  BY <1>1, AddSound DEF AddOutcomes
<1>2. CASE h \in BatchOutcomes(g)
  BY <1>2, AddBatchSound DEF BatchOutcomes
<1>3. CASE \E s \in {"in_progress", "done", "blocked"} :
             h \in StatusOutcomes(g, s)
  BY <1>3, SetStatusSound DEF StatusOutcomes, Statuses
<1>4. CASE h \in RemoveOutcomes(g)
  BY <1>4, RemoveSound DEF RemoveOutcomes
<1>5. CASE h \in ResetOutcomes(g)
  BY <1>5, SetStatusSound DEF ResetOutcomes, ResetMilestone, Statuses
<1>6. CASE h = ResetInProgress(g)  BY <1>6, ResetInProgressSound
<1> QED BY <1>1, <1>2, <1>3, <1>4, <1>5, <1>6 DEF Outcomes
=============================================================================
