----------------------- MODULE WorkGraphStoreProofs ------------------------
(***************************************************************************)
(* The file protocol of the Work Graph implements the atomic graph, for    *)
(* any number of writers and every MaxId.                                  *)
(***************************************************************************)
EXTENDS WorkGraphStore, WorkGraphLemmas

Saving == {"write", "writing", "rename"}

\* TypeOK and NoStaleSave, with every graph in play sound.
StoreInv ==
  /\ file.kind \in {"absent", "graph"} /\ Sound(file.g)
  /\ tmp.kind \in Kinds /\ Sound(tmp.g)
  /\ Sound(legacy)
  /\ lock \in Writers \cup {Free}
  /\ pc \in [Writers -> PCs]
  /\ DOMAIN buf = Writers
  /\ \A w \in Writers : Sound(buf[w])
  /\ NoStaleSave

(***************************************************************************)
(* What todos.json migrates to is sound.                                   *)
(***************************************************************************)
LEMMA MigratedTodosSound ==
  ASSUME NEW todos \in SUBSET Ids, NEW done \in SUBSET todos
  PROVE  Sound(MigratedTodos(todos, done))
<1> DEFINE g == MigratedTodos(todos, done)
<1>1. DOMAIN g = todos /\ g = [n \in todos |-> g[n]]  BY DEF MigratedTodos
<1>2. \A n \in todos : g[n] \in Milestone
  BY DEF MigratedTodos, Milestone, Statuses
<1>3. \A n \in todos : g[n].deps = {} /\ g[n].status \in {"pending", "done"}
  BY DEF MigratedTodos
<1> HIDE DEF g
<1>4. IsGraph(g)  BY <1>1, <1>2 DEF IsGraph
<1>5. Sound(g)
  BY <1>1, <1>3, <1>4 DEF Sound, DepsResolve, DepsOlder, BlockedJustified
<1> QED BY <1>5 DEF g

(***************************************************************************)
(* The graph of an absent file is sound.                                   *)
(***************************************************************************)
LEMMA NoGraphSound == Sound(NoGraph)
BY MigratedTodosSound DEF NoGraph

(***************************************************************************)
(* The invariant holds initially.                                          *)
(***************************************************************************)
LEMMA InitStoreInv == Init => StoreInv
<1> SUFFICES ASSUME Init PROVE StoreInv  OBVIOUS
<1>1. Sound(legacy)  BY MigratedTodosSound DEF Init, Start
<1>2. file.kind = "absent" /\ file.g = NoGraph
  BY DEF Init, Start, Contents
<1>3. tmp.kind = "absent" /\ tmp.g = NoGraph
  BY DEF Init, Start, Contents
<1> QED BY <1>1, <1>2, <1>3, NoGraphSound
        DEF Init, Start, StoreInv, NoStaleSave, Kinds, PCs

(***************************************************************************)
(* What readers see is sound.                                              *)
(***************************************************************************)
LEMMA CurrentSound == StoreInv => Sound(Current)
BY DEF StoreInv, Current

(***************************************************************************)
(* Every step preserves the invariant.                                     *)
(***************************************************************************)
LEMMA NextStoreInv == StoreInv /\ [Next]_vars => StoreInv'
<1> SUFFICES ASSUME StoreInv, [Next]_vars PROVE StoreInv'  OBVIOUS
<1> USE FreeAssumption DEF PCs
<1>1. ASSUME NEW w \in Writers, TakeLock(w) PROVE StoreInv'
  BY <1>1 DEF TakeLock, StoreInv, NoStaleSave, Current
<1>2. ASSUME NEW w \in Writers, Update(w) PROVE StoreInv'
  <2>1. PICK g \in Outcomes(Current) : buf' = [buf EXCEPT ![w] = g]
    BY <1>2 DEF Update
  <2>2. Sound(g)  BY CurrentSound, OutcomesSound
  <2>3. Current' = Current  BY <1>2 DEF Update, Current
  <2> QED BY <1>2, <2>1, <2>2, <2>3 DEF Update, StoreInv, NoStaleSave
<1>3. ASSUME NEW w \in Writers, Refuse(w) PROVE StoreInv'
  BY <1>3 DEF Refuse, StoreInv, NoStaleSave, Current
<1>4. ASSUME NEW w \in Writers, StartWrite(w) PROVE StoreInv'
  <2>1. Sound(tmp'.g) /\ tmp'.kind \in Kinds
    BY <1>4, NoGraphSound DEF StartWrite, Contents, Kinds
  <2> QED BY <1>4, <2>1 DEF StartWrite, StoreInv, NoStaleSave, Current
<1>5. ASSUME NEW w \in Writers, EndWrite(w) PROVE StoreInv'
  <2>1. Sound(tmp'.g) /\ tmp'.kind \in Kinds
    BY <1>5 DEF EndWrite, Holding, Kinds, StoreInv
  <2> QED BY <1>5, <2>1 DEF EndWrite, StoreInv, NoStaleSave, Current
<1>6. ASSUME NEW w \in Writers, Rename(w) PROVE StoreInv'
  <2>1. file'.kind = "graph" /\ Sound(file'.g)
    BY <1>6 DEF Rename, StoreInv, NoStaleSave, Holding
  <2>2. Sound(tmp'.g) /\ tmp'.kind \in Kinds
    BY <1>6, NoGraphSound DEF Rename, Contents, Kinds
  <2>3. \A v \in Writers : pc'[v] \notin Saving
    BY <1>6 DEF Rename, StoreInv, NoStaleSave, Saving
  <2>4. NoStaleSave'
    BY <1>6, <2>3 DEF Rename, StoreInv, NoStaleSave, Saving
  <2> QED BY <1>6, <2>1, <2>2, <2>4 DEF Rename, StoreInv
<1>7. ASSUME NEW w \in Writers, SaveFails(w) PROVE StoreInv'
  BY <1>7 DEF SaveFails, StoreInv, NoStaleSave, Current
<1>8. ASSUME NEW w \in Writers, Unlock(w) PROVE StoreInv'
  BY <1>8, NoGraphSound DEF Unlock, StoreInv, NoStaleSave, Current
<1>9. ASSUME NEW w \in Writers, Crash(w) PROVE StoreInv'
  BY <1>9, NoGraphSound DEF Crash, StoreInv, NoStaleSave, Current
<1>10. CASE UNCHANGED vars
  BY <1>10 DEF vars, StoreInv, NoStaleSave, Current
<1> QED BY <1>1, <1>2, <1>3, <1>4, <1>5, <1>6, <1>7, <1>8, <1>9, <1>10
        DEF Next, Continue

(***************************************************************************)
(* StoreInv holds in every reachable state.                                *)
(***************************************************************************)
THEOREM StoreInvHolds == Spec => []StoreInv
BY InitStoreInv, NextStoreInv, PTL DEF Spec

(***************************************************************************)
(* The state is always well typed.                                         *)
(***************************************************************************)
THEOREM StoreTypeCorrect == Spec => []TypeOK
<1>1. StoreInv => TypeOK
  BY DEF StoreInv, TypeOK, Sound, Kinds
<1> QED BY <1>1, StoreInvHolds, PTL

(***************************************************************************)
(* A reader without the lock never finds half a file.                      *)
(***************************************************************************)
THEOREM FileNeverTornHolds == Spec => []FileNeverTorn
<1>1. StoreInv => FileNeverTorn  BY DEF StoreInv, FileNeverTorn
<1> QED BY <1>1, StoreInvHolds, PTL

(***************************************************************************)
(* Nothing is saved that was computed from an older graph than the one it  *)
(* replaces.                                                               *)
(***************************************************************************)
THEOREM NoStaleSaveHolds == Spec => []NoStaleSave
<1>1. StoreInv => NoStaleSave  BY DEF StoreInv
<1> QED BY <1>1, StoreInvHolds, PTL

(***************************************************************************)
(* The graph operations of the instance are those of this module.          *)
(***************************************************************************)
LEMMA SameGraphOperations ==
  /\ Atomic!Ids = Ids
  /\ \A t, d : Atomic!MigratedTodos(t, d) = MigratedTodos(t, d)
  /\ \A g : Atomic!NextId(g) = NextId(g)
  /\ \A g : Atomic!AddOutcomes(g) = AddOutcomes(g)
  /\ \A g : Atomic!BatchOutcomes(g) = BatchOutcomes(g)
  /\ \A g, s : Atomic!StatusOutcomes(g, s) = StatusOutcomes(g, s)
  /\ \A g : Atomic!RemoveOutcomes(g) = RemoveOutcomes(g)
  /\ \A g : Atomic!ResetOutcomes(g) = ResetOutcomes(g)
  /\ \A g : Atomic!ResetInProgress(g) = ResetInProgress(g)
<1> USE DEF Ids, Atomic!Ids
<1>1. \A t, d : Atomic!MigratedTodos(t, d) = MigratedTodos(t, d)
  BY Zenon DEF MigratedTodos, Atomic!MigratedTodos
<1>2. \A g : Atomic!NextId(g) = NextId(g)
  BY Zenon DEF NextId, Atomic!NextId
<1> USE DEF DepsDone, Atomic!DepsDone, Derived, Atomic!Derived,
            RecomputeBlocked, Atomic!RecomputeBlocked
<1>3. \A g, titled, deps : Atomic!Add(g, titled, deps) = Add(g, titled, deps)
  BY Zenon DEF Add, Atomic!Add, AddRefused, Atomic!AddRefused,
               Push, Atomic!Push, NextId, Atomic!NextId
<1>4. \A g, k : Atomic!AddBatch(g, k) = AddBatch(g, k)
  BY Zenon DEF AddBatch, Atomic!AddBatch, NextId, Atomic!NextId
<1>5. \A g, id, s : Atomic!SetStatus(g, id, s) = SetStatus(g, id, s)
  BY Zenon DEF SetStatus, Atomic!SetStatus, WithStatus, Atomic!WithStatus
<1>6. \A g, id : Atomic!Remove(g, id) = Remove(g, id)
  BY Zenon DEF Remove, Atomic!Remove, RemoveRefused, Atomic!RemoveRefused,
               DependedOn, Atomic!DependedOn
<1>7. \A g, id : Atomic!ResetMilestone(g, id) = ResetMilestone(g, id)
  BY Zenon DEF ResetMilestone, Atomic!ResetMilestone, SetStatus,
               Atomic!SetStatus, WithStatus, Atomic!WithStatus
<1>8. \A g : Atomic!ResetInProgress(g) = ResetInProgress(g)
  BY Zenon DEF ResetInProgress, Atomic!ResetInProgress
<1> HIDE DEF DepsDone, Atomic!DepsDone, Derived, Atomic!Derived,
            RecomputeBlocked, Atomic!RecomputeBlocked
<1>9. \A g : Atomic!AddOutcomes(g) = AddOutcomes(g)
  BY <1>3, SMT DEF AddOutcomes, Atomic!AddOutcomes
<1>10. \A g : Atomic!BatchOutcomes(g) = BatchOutcomes(g)
  BY <1>2, <1>4, Zenon DEF BatchOutcomes, Atomic!BatchOutcomes
<1>11. \A g, s : Atomic!StatusOutcomes(g, s) = StatusOutcomes(g, s)
  BY <1>5, Zenon DEF StatusOutcomes, Atomic!StatusOutcomes
<1>12. \A g : Atomic!RemoveOutcomes(g) = RemoveOutcomes(g)
  BY <1>6, Zenon DEF RemoveOutcomes, Atomic!RemoveOutcomes
<1>13. \A g : Atomic!ResetOutcomes(g) = ResetOutcomes(g)
  BY <1>7, Zenon DEF ResetOutcomes, Atomic!ResetOutcomes
<1> QED BY <1>1, <1>2, <1>8, <1>9, <1>10, <1>11, <1>12, <1>13

(***************************************************************************)
(* The steps of the atomic graph are the outcomes of the closures.         *)
(***************************************************************************)
LEMMA AtomicNextIsOutcome ==
  ASSUME Current' \in Outcomes(Current) PROVE Atomic!GraphNext
BY SameGraphOperations
   DEF Atomic!GraphNext, Atomic!AddMilestone, Atomic!SeedIssues,
       Atomic!StartMilestone, Atomic!FinishMilestone, Atomic!BlockMilestone,
       Atomic!RemoveMilestone, Atomic!ResetOne, Atomic!ResetStale, Outcomes

(***************************************************************************)
(* Refinement: the rename is the one step at which the graph changes, and  *)
(* it changes by one atomic operation; every other step is a stutter.      *)
(***************************************************************************)
THEOREM Refinement == Spec => ImplementsWorkGraph
<1>1. Init => Atomic!GraphInit
  BY SameGraphOperations DEF Init, Start, Contents, Current, Atomic!GraphInit
<1>2. StoreInv /\ [Next]_vars => [Atomic!GraphNext]_(Atomic!graphVars)
  <2> SUFFICES ASSUME StoreInv, [Next]_vars
               PROVE  Current' \in Outcomes(Current) \/ Current' = Current
    BY AtomicNextIsOutcome DEF Atomic!graphVars
  <2>1. ASSUME NEW w \in Writers, Rename(w)
        PROVE  Current' \in Outcomes(Current)
    <3>1. tmp = Holding(buf[w]) /\ buf[w] \in Outcomes(Current)
      BY <2>1 DEF Rename, StoreInv, NoStaleSave
    <3>2. Current' = buf[w]
      BY <2>1, <3>1 DEF Rename, Holding, Current
    <3> QED BY <3>1, <3>2
  <2>2. ASSUME NEW w \in Writers,
               TakeLock(w) \/ Update(w) \/ Refuse(w) \/ StartWrite(w)
                 \/ EndWrite(w) \/ SaveFails(w) \/ Unlock(w) \/ Crash(w)
        PROVE  Current' = Current
    BY <2>2 DEF TakeLock, Update, Refuse, StartWrite, EndWrite, SaveFails,
                Unlock, Crash, Current
  <2>3. CASE UNCHANGED vars  BY <2>3 DEF vars, Current
  <2> QED BY <2>1, <2>2, <2>3 DEF Next, Continue
<1> QED BY <1>1, <1>2, StoreInvHolds, PTL
        DEF Spec, ImplementsWorkGraph, Atomic!GraphSpec
=============================================================================
