-------------------------- MODULE SessionTreeProofs ---------------------------
(***************************************************************************)
(* For every bound: the session in memory and every file are trees, the    *)
(* session's own file is the session in memory unless its last save failed, *)
(* the working set is the active thread with its middle summarized, and    *)
(* navigation rules out exactly the linked entries it leaves.              *)
(*                                                                         *)
(* The first part needs nothing of the active thread and leaves PathTo     *)
(* unexpanded.  The second is about paths: ids rise in the order of        *)
(* insertion, hence along parents, so the recursive PathTo is shown to exist *)
(* (as the least sets closed under parents) and facts about it are proved by *)
(* a least counterexample (WFMin).                                         *)
(***************************************************************************)
EXTENDS SessionTree, WellFoundedInduction, TLAPS

\* The types of what the record consists of.
RecordOK ==
  /\ session \in Session
  /\ appended \in 0 .. MaxEntries /\ nextId \in 0 .. appended
  /\ path \in 1 .. MaxFiles /\ newest \in 0 .. MaxFiles
  /\ files \in [1 .. MaxFiles -> Session \cup {NoFile}]

\* Ids in a file are below the number of messages ever appended: the next id
\* starts again at 0 for every new session, and after a Resume behind the
\* largest of the file, so it never overtakes that number.
FilesAreTrees ==
  \A f \in 1 .. MaxFiles : files[f] # NoFile => Tree(files[f], appended)

RecordInv ==
  /\ RecordOK
  /\ Tree(session, nextId) /\ FilesAreTrees
  /\ newest # 0 => files[newest] # NoFile
  /\ SaveIsCurrent

-----------------------------------------------------------------------------
\* Sessions as values.

(***************************************************************************)
(* A non-empty set of ids has a greatest one.                              *)
(***************************************************************************)
LEMMA GreatestId ==
  ASSUME NEW S \in SUBSET Ids, S # {}
  PROVE  Greatest(S) \in S /\ \A j \in S : j <= Greatest(S)
<1> DEFINE U == {n \in Nat : \A m \in S : m <= n}
<1>0. S \subseteq Nat /\ MaxEntries \in Nat /\ \A m \in S : m <= MaxEntries
  BY SessionAssumption DEF Ids
<1>1. MaxEntries \in U
  BY <1>0
<1>2. \E x \in U : \A y \in U : ~ (<<y, x>> \in OpToRel(<, Nat))
  BY <1>1, NatLessThanWellFounded, WFMin, Zenon
<1>3. \A x, y \in Nat : (<<y, x>> \in OpToRel(<, Nat)) <=> y < x
  BY Zenon DEF OpToRel
<1>4. PICK u \in U : \A v \in U : ~ (v < u)
  BY <1>2, <1>3, Zenon
<1>5. u \in S
  <2> SUFFICES ASSUME u \notin S PROVE FALSE
    OBVIOUS
  <2>1. \A m \in S : m < u
    BY <1>0, <1>4
  <2>2. u - 1 \in U
    <3>1. PICK m \in S : m < u
      BY <2>1
    <3>2. u \in Nat \ {0}
      BY <1>0, <1>4, <3>1
    <3> QED BY <1>0, <2>1, <3>2
  <2> QED BY <1>4, <2>2
<1> QED BY <1>0, <1>4, <1>5 DEF Greatest

(***************************************************************************)
(* What a session is made of.                                              *)
(***************************************************************************)
LEMMA SessionFacts ==
  ASSUME NEW s \in Session
  PROVE  /\ s.entries \in Seq(Entry) /\ s.leaf \in Ids \cup {NoId}
         /\ s = [entries |-> s.entries, leaf |-> s.leaf]
         /\ Ids \subseteq Nat /\ NoId \notin Ids
         /\ Len(s.entries) \in Nat /\ DOMAIN s.entries = 1 .. Len(s.entries)
         /\ \A i \in DOMAIN s.entries :
              /\ s.entries[i] \in Entry /\ s.entries[i].id \in Ids
              /\ s.entries[i] = [id |-> s.entries[i].id, parent |-> s.entries[i].parent,
                                 role |-> s.entries[i].role, mark |-> s.entries[i].mark]
<1>1. /\ s.entries \in Seq(Entry) /\ s.leaf \in Ids \cup {NoId}
      /\ s = [entries |-> s.entries, leaf |-> s.leaf]
  BY DEF Session
<1>2. Ids \subseteq Nat /\ NoId \notin Ids
  BY SessionAssumption DEF Ids, NoId
<1>3. /\ Len(s.entries) \in Nat /\ DOMAIN s.entries = 1 .. Len(s.entries)
      /\ \A i \in DOMAIN s.entries : s.entries[i] \in Entry
  BY <1>1
<1>4. \A e \in Entry : e.id \in Ids /\ e = [id |-> e.id, parent |-> e.parent, role |-> e.role, mark |-> e.mark]
  BY DEF Entry
<1> QED BY <1>1, <1>2, <1>3, <1>4

(***************************************************************************)
(* A tree under one bound of ids is one under a larger bound.              *)
(***************************************************************************)
LEMMA TreeMonotone ==
  ASSUME NEW s \in Session, NEW m \in Nat, NEW n \in Nat, m <= n, Tree(s, m)
  PROVE  Tree(s, n)
<1>0. Ids \subseteq Nat /\ \A i \in DOMAIN s.entries : s.entries[i].id \in Ids
  BY SessionFacts
<1>1. \A i \in DOMAIN s.entries : s.entries[i].id < n
  <2> SUFFICES ASSUME NEW i \in DOMAIN s.entries PROVE s.entries[i].id < n
    OBVIOUS
  <2> DEFINE k == s.entries[i].id
  <2>1. k \in Nat /\ k < m
    BY <1>0 DEF Tree
  <2> HIDE DEF k
  <2>2. k < n
    BY <2>1
  <2> QED BY <2>2 DEF k
<1> QED BY <1>1 DEF Tree

(***************************************************************************)
(* Session::append: the next id, below the leaf (src/session.rs).          *)
(***************************************************************************)
LEMMA AppendTree ==
  ASSUME NEW s \in Session, NEW n \in Ids, NEW role \in Roles, Tree(s, n)
  PROVE  Appended(s, n, role) \in Session /\ Tree(Appended(s, n, role), n + 1)
<1> DEFINE e == [id |-> n, parent |-> s.leaf, role |-> role, mark |-> "none"]
           t == Appended(s, n, role)
<1>0. s.entries \in Seq(Entry) /\ s.leaf \in Ids \cup {NoId} /\ Ids \subseteq Nat /\ NoId \notin Ids
  BY SessionAssumption DEF Session, Ids, NoId
<1>1. e \in Entry
  BY <1>0 DEF Entry, Marks
<1>2. t.entries = Append(s.entries, e) /\ t.leaf = n /\ t = [entries |-> t.entries, leaf |-> t.leaf]
  BY DEF Appended
<1>3. e.id = n /\ e.parent = s.leaf
  OBVIOUS
<1> HIDE DEF e, t
<1>4. /\ t.entries \in Seq(Entry) /\ Len(t.entries) = Len(s.entries) + 1
      /\ DOMAIN s.entries = 1 .. Len(s.entries) /\ DOMAIN t.entries = 1 .. Len(s.entries) + 1
      /\ \A i \in DOMAIN s.entries : t.entries[i] = s.entries[i]
      /\ t.entries[Len(s.entries) + 1] = e
  BY <1>0, <1>1, <1>2
<1>5. t \in Session
  BY <1>0, <1>2, <1>4 DEF Session
<1>6. \A i \in DOMAIN s.entries : s.entries[i].id \in Nat /\ s.entries[i].id < n
  BY <1>0, SessionFacts DEF Tree
<1>7. ASSUME NEW i \in DOMAIN t.entries, NEW j \in DOMAIN t.entries,
             t.entries[i].id = t.entries[j].id
      PROVE  i = j
  <2>1. n \in Nat /\ \A k \in DOMAIN s.entries : s.entries[k].id # n
    BY <1>0, <1>6
  <2>2. \A k \in DOMAIN t.entries : k \in DOMAIN s.entries \/ k = Len(s.entries) + 1
    BY <1>0, <1>4
  <2>3. CASE i \in DOMAIN s.entries /\ j \in DOMAIN s.entries
    BY <1>4, <1>7, <2>3 DEF Tree
  <2> QED BY <1>3, <1>4, <1>7, <2>1, <2>2, <2>3
<1>8. ASSUME NEW i \in DOMAIN t.entries
      PROVE  /\ t.entries[i].id < n + 1
             /\ \/ t.entries[i].parent = NoId /\ i = 1
                \/ \E j \in 1 .. i - 1 : t.entries[i].parent = t.entries[j].id
  <2>1. CASE i \in DOMAIN s.entries
    <3>1. t.entries[i].id < n + 1
      BY <1>0, <1>4, <1>6, <2>1
    <3>2. \A j \in 1 .. i - 1 : j \in DOMAIN s.entries /\ t.entries[j] = s.entries[j]
      BY <1>0, <1>4, <2>1
    <3>3. \/ s.entries[i].parent = NoId /\ i = 1
          \/ \E j \in 1 .. i - 1 : s.entries[i].parent = s.entries[j].id
      BY <2>1 DEF Tree
    <3>4. t.entries[i] = s.entries[i]
      BY <1>4, <2>1
    <3> QED BY <3>1, <3>2, <3>3, <3>4
  <2>2. CASE i = Len(s.entries) + 1
    <3>1. t.entries[i].id = n /\ t.entries[i].parent = s.leaf
      BY <1>3, <1>4, <2>2
    <3>2. CASE s.leaf = NoId
      BY <1>0, <2>2, <3>1, <3>2 DEF Tree
    <3>3. CASE s.leaf # NoId
      <4>1. PICK j \in DOMAIN s.entries : s.entries[j].id = s.leaf
        BY <3>3 DEF Tree, Known
      <4> QED BY <1>0, <1>4, <2>2, <3>1, <4>1
    <3> QED BY <3>2, <3>3
  <2> QED BY <1>0, <1>4, <2>1, <2>2
<1>9. t.leaf \in Known(t) /\ t.leaf # NoId /\ t.entries # <<>>
  BY <1>0, <1>2, <1>3, <1>4 DEF Known
<1> QED BY <1>5, <1>7, <1>8, <1>9 DEF Tree, t

(***************************************************************************)
(* A causal mark changes nothing else of the session (src/session.rs).     *)
(***************************************************************************)
LEMMA MarkTree ==
  ASSUME NEW s \in Session, NEW ids, NEW from, NEW to \in Marks
  PROVE  /\ Marked(s, ids, from, to) \in Session
         /\ Known(Marked(s, ids, from, to)) = Known(s)
         /\ \A n : Tree(s, n) => Tree(Marked(s, ids, from, to), n)
         /\ Unmarked(Marked(s, ids, from, to)) = Unmarked(s)
<1> DEFINE t == Marked(s, ids, from, to)
<1>0. s.entries \in Seq(Entry) /\ s.leaf \in Ids \cup {NoId} /\ s = [entries |-> s.entries, leaf |-> s.leaf]
  BY DEF Session
<1>1. /\ t.leaf = s.leaf /\ t = [entries |-> t.entries, leaf |-> t.leaf]
      /\ t.entries = [i \in DOMAIN s.entries |->
            IF s.entries[i].id \in ids /\ s.entries[i].mark \in from
            THEN [s.entries[i] EXCEPT !.mark = to] ELSE s.entries[i]]
  <2> DEFINE marks == [i \in DOMAIN s.entries |->
                         IF s.entries[i].id \in ids /\ s.entries[i].mark \in from
                         THEN [s.entries[i] EXCEPT !.mark = to] ELSE s.entries[i]]
  <2>1. t = [s EXCEPT !.entries = marks]
    BY DEF Marked
  <2> HIDE DEF marks, t
  <2>2. t.leaf = s.leaf /\ t = [entries |-> t.entries, leaf |-> t.leaf] /\ t.entries = marks
    BY <1>0, <2>1
  <2> QED BY <2>2 DEF marks
<1> HIDE DEF t
<1>2. /\ DOMAIN t.entries = DOMAIN s.entries /\ DOMAIN s.entries = 1 .. Len(s.entries)
      /\ \A i \in DOMAIN s.entries :
           /\ t.entries[i] \in Entry /\ t.entries[i].id = s.entries[i].id
           /\ t.entries[i].parent = s.entries[i].parent
  <2>1. DOMAIN t.entries = DOMAIN s.entries /\ DOMAIN s.entries = 1 .. Len(s.entries)
    BY <1>1, SessionFacts
  <2>2. ASSUME NEW i \in DOMAIN s.entries
        PROVE  /\ t.entries[i] \in Entry /\ t.entries[i].id = s.entries[i].id
               /\ t.entries[i].parent = s.entries[i].parent
    <3>1. s.entries[i] \in Entry
      BY <2>2, SessionFacts
    <3>2. t.entries[i] = s.entries[i] \/ t.entries[i] = [s.entries[i] EXCEPT !.mark = to]
      BY <1>1, <2>2
    <3> QED BY <3>1, <3>2 DEF Entry
  <2> QED BY <2>1, <2>2
<1>3. t.entries \in Seq(Entry)
  BY <1>0, <1>1, <1>2
<1>4. t \in Session
  BY <1>0, <1>1, <1>3 DEF Session
<1>5. Known(t) = Known(s)
  BY <1>2 DEF Known
<1>6. t.entries = <<>> <=> s.entries = <<>>
  BY <1>0, <1>2, <1>3
<1>7. ASSUME NEW n, Tree(s, n) PROVE Tree(t, n)
  <2>1. \A i \in DOMAIN t.entries :
          \/ t.entries[i].parent = NoId /\ i = 1
          \/ \E j \in 1 .. i - 1 : t.entries[i].parent = t.entries[j].id
    <3> SUFFICES ASSUME NEW i \in DOMAIN t.entries
                 PROVE  \/ t.entries[i].parent = NoId /\ i = 1
                        \/ \E j \in 1 .. i - 1 : t.entries[i].parent = t.entries[j].id
      OBVIOUS
    <3>1. \A j \in 1 .. i - 1 : j \in DOMAIN s.entries
      BY <1>0, <1>2
    <3> QED BY <1>2, <1>7, <3>1 DEF Tree
  <2> QED BY <1>1, <1>2, <1>5, <1>6, <1>7, <2>1 DEF Tree
<1>8. Unmarked(t) = Unmarked(s)
  <2> DEFINE blank(x) == [i \in DOMAIN x.entries |->
                            IF x.entries[i].id \in Ids /\ x.entries[i].mark \in Marks
                            THEN [x.entries[i] EXCEPT !.mark = "none"] ELSE x.entries[i]]
  <2>1. \A x \in Session : Unmarked(x) = [entries |-> blank(x), leaf |-> x.leaf]
    <3> SUFFICES ASSUME NEW x \in Session PROVE Unmarked(x) = [entries |-> blank(x), leaf |-> x.leaf]
      OBVIOUS
    <3>1. Unmarked(x) = [x EXCEPT !.entries = blank(x)]
      BY DEF Unmarked, Marked
    <3>2. x = [entries |-> x.entries, leaf |-> x.leaf]
      BY SessionFacts
    <3> HIDE DEF blank
    <3> QED BY <3>1, <3>2
  <2>2. ASSUME NEW i \in DOMAIN s.entries PROVE blank(t)[i] = blank(s)[i]
    <3>1. /\ s.entries[i] \in Entry /\ t.entries[i] \in Entry
          /\ t.entries[i] = s.entries[i] \/ t.entries[i] = [s.entries[i] EXCEPT !.mark = to]
      BY <1>0, <1>1, <1>2, <2>2
    <3>2. /\ blank(s)[i] = [s.entries[i] EXCEPT !.mark = "none"]
          /\ blank(t)[i] = [t.entries[i] EXCEPT !.mark = "none"]
      BY <1>2, <2>2, <3>1 DEF Entry
    <3> QED BY <3>1, <3>2 DEF Entry
  <2>3. blank(t) = blank(s)
    BY <1>2, <2>2
  <2> HIDE DEF blank
  <2> QED BY <1>1, <1>4, <2>1, <2>3
<1> QED BY <1>4, <1>5, <1>7, <1>8 DEF t

(***************************************************************************)
(* Moving the leaf to an entry that exists (src/session.rs navigate).      *)
(***************************************************************************)
LEMMA MoveTree ==
  ASSUME NEW s \in Session, NEW target \in Known(s), NEW n, Tree(s, n)
  PROVE  [s EXCEPT !.leaf = target] \in Session /\ Tree([s EXCEPT !.leaf = target], n)
<1> DEFINE t == [s EXCEPT !.leaf = target]
<1>1. t.entries = s.entries /\ t.leaf = target /\ t = [entries |-> t.entries, leaf |-> t.leaf]
  BY DEF Session
<1>2. target \in Ids /\ target # NoId /\ s.entries # <<>> /\ s.entries \in Seq(Entry)
  <2>1. PICK i \in DOMAIN s.entries : target = s.entries[i].id
    BY DEF Known
  <2>2. s.entries \in Seq(Entry) /\ target \in Ids /\ NoId \notin Ids
    BY <2>1, SessionFacts
  <2>3. s.entries # <<>>
    BY <2>1
  <2> QED BY <2>2, <2>3
<1> HIDE DEF t
<1>3. t \in Session
  BY <1>1, <1>2 DEF Session
<1>4. Known(t) = Known(s)
  BY <1>1 DEF Known
<1>5. Tree(t, n)
  BY <1>1, <1>2, <1>4 DEF Tree
<1> QED BY <1>3, <1>5 DEF t

(***************************************************************************)
(* next_message_id continues behind the largest id of a tree               *)
(* (src/session.rs).                                                       *)
(***************************************************************************)
LEMMA ContinuesBehind ==
  ASSUME NEW s \in Session, NEW n \in Nat, Tree(s, n)
  PROVE  NextMessageId(s) \in 0 .. n /\ Tree(s, NextMessageId(s))
<1>0. Ids \subseteq Nat /\ \A i \in DOMAIN s.entries : s.entries[i].id \in Ids
  BY SessionFacts
<1>1. CASE s.entries = <<>>
  BY <1>1 DEF NextMessageId, Tree
<1>2. CASE s.entries # <<>>
  <2> DEFINE g == Greatest(Known(s))
  <2>1. Known(s) \in SUBSET Ids /\ Known(s) # {}
    <3>1. s.leaf \in Known(s)
      BY <1>2 DEF Tree
    <3> QED BY <1>0, <3>1 DEF Known
  <2>2. g \in Known(s) /\ \A j \in Known(s) : j <= g
    BY <2>1, GreatestId
  <2>3. g \in Nat /\ g < n
    BY <1>0, <2>1, <2>2 DEF Known, Tree
  <2>4. NextMessageId(s) = g + 1
    BY <1>2 DEF NextMessageId
  <2> HIDE DEF g
  <2>5. \A i \in DOMAIN s.entries : s.entries[i].id < g + 1
    <3> SUFFICES ASSUME NEW i \in DOMAIN s.entries PROVE s.entries[i].id < g + 1
      OBVIOUS
    <3>1. s.entries[i].id \in Nat /\ s.entries[i].id \in Known(s)
      BY <1>0 DEF Known
    <3> QED BY <2>2, <2>3, <3>1
  <2>6. Tree(s, g + 1)
    BY <2>5 DEF Tree
  <2> QED BY <2>3, <2>4, <2>6
<1> QED BY <1>1, <1>2

(***************************************************************************)
(* A cleared session is a tree under every bound (src/agent.rs Clear).     *)
(***************************************************************************)
LEMMA EmptyTree ==
  /\ EmptySession \in Session /\ NoFile \notin Session
  /\ \A n : Tree(EmptySession, n)
<1>1. NoId - 1 \notin Ids \cup {NoId}
  BY SessionAssumption DEF NoId, Ids
<1>2. EmptySession.entries = <<>> /\ EmptySession.leaf = NoId
  BY DEF EmptySession
<1>3. EmptySession \in Session
  BY DEF EmptySession, Session
<1>4. NoFile \notin Session
  BY <1>1 DEF NoFile, Session
<1>5. \A n : Tree(EmptySession, n)
  BY <1>2 DEF Tree
<1> QED BY <1>3, <1>4, <1>5

-----------------------------------------------------------------------------
(***************************************************************************)
(* A save leaves trees, whether it fails or not, and when it does not the  *)
(* file is the session (src/session.rs save, under `let _ =`).             *)
(***************************************************************************)
LEMMA SaveKeeps ==
  ASSUME RecordInv, NEW s \in Session, NEW n \in 0 .. appended',
         appended' \in 0 .. MaxEntries, appended <= appended',
         Tree(s, n), Save(s), path' = path, session' = s
  PROVE  /\ newest' \in 0 .. MaxFiles
         /\ files' \in [1 .. MaxFiles -> Session \cup {NoFile}]
         /\ FilesAreTrees' /\ (newest # 0 => files[newest] # NoFile)'
         /\ SaveIsCurrent'
<1>0. RecordOK /\ FilesAreTrees /\ NoFile \notin Session /\ MaxEntries \in Nat /\ MaxFiles \in Nat
  BY EmptyTree, SessionAssumption DEF RecordInv
<1>1. Tree(s, appended')
  BY <1>0, TreeMonotone
<1>2. \A f \in 1 .. MaxFiles : files[f] # NoFile => Tree(files[f], appended')
  <2> SUFFICES ASSUME NEW f \in 1 .. MaxFiles, files[f] # NoFile PROVE Tree(files[f], appended')
    OBVIOUS
  <2>1. files[f] \in Session /\ Tree(files[f], appended) /\ appended \in Nat /\ appended' \in Nat
    BY <1>0 DEF RecordOK, FilesAreTrees
  <2> QED BY <2>1, TreeMonotone
<1>3. CASE files' = [files EXCEPT ![path] = s] /\ newest' = path /\ behind' = FALSE
  <2>1. path \in 1 .. MaxFiles /\ files \in [1 .. MaxFiles -> Session \cup {NoFile}]
    BY <1>0 DEF RecordOK
  <2>2. files'[path] = s /\ \A f \in 1 .. MaxFiles \ {path} : files'[f] = files[f]
    BY <1>3, <2>1
  <2>3. files' \in [1 .. MaxFiles -> Session \cup {NoFile}]
    BY <1>3, <2>1
  <2>4. FilesAreTrees'
    BY <1>1, <1>2, <2>2 DEF FilesAreTrees
  <2>5. SaveIsCurrent'
    BY <1>0, <2>2 DEF SaveIsCurrent, Unmarked, Marked
  <2> QED BY <1>0, <1>3, <2>1, <2>2, <2>3, <2>4, <2>5
<1>4. CASE behind' = TRUE /\ UNCHANGED <<files, newest>>
  BY <1>0, <1>2, <1>4 DEF RecordInv, RecordOK, FilesAreTrees, SaveIsCurrent
<1> QED BY <1>3, <1>4 DEF Save

(***************************************************************************)
(* Every step keeps the invariant (src/agent.rs append, handle_navigate,   *)
(* resume_latest and the commands of a session).                           *)
(***************************************************************************)
LEMMA RecordStep ==
  ASSUME RecordInv, [Next]_vars
  PROVE  RecordInv'
<1>0. /\ RecordOK /\ Tree(session, nextId) /\ FilesAreTrees
      /\ newest # 0 => files[newest] # NoFile
      /\ SaveIsCurrent
      /\ session \in Session /\ MaxEntries \in Nat /\ MaxFiles \in Nat
  BY SessionAssumption DEF RecordInv, RecordOK
<1>1. ASSUME NEW role \in Roles, AppendMessage(role) PROVE RecordInv'
  <2> DEFINE s == Appended(session, nextId, role)
  <2>1. nextId \in Ids /\ appended' = appended + 1 /\ appended' \in 0 .. MaxEntries
        /\ nextId' = nextId + 1 /\ nextId' \in 0 .. appended'
    BY <1>0, <1>1 DEF AppendMessage, RecordOK, Ids
  <2>2. s \in Session /\ Tree(s, nextId')
    BY <1>0, <2>1, AppendTree
  <2>3. session' = s /\ Save(s) /\ path' = path /\ appended <= appended'
    BY <1>0, <1>1 DEF AppendMessage, RecordOK
  <2> HIDE DEF s
  <2>4. /\ newest' \in 0 .. MaxFiles /\ files' \in [1 .. MaxFiles -> Session \cup {NoFile}]
        /\ FilesAreTrees' /\ (newest # 0 => files[newest] # NoFile)' /\ SaveIsCurrent'
    BY <2>1, <2>2, <2>3, SaveKeeps
  <2> QED BY <1>0, <2>1, <2>2, <2>3, <2>4 DEF RecordInv, RecordOK
<1>2. ASSUME NEW s \in Session, session' = s, Tree(s, nextId), Save(s),
             UNCHANGED <<nextId, path, appended>>
      PROVE  RecordInv'
  <2>1. /\ newest' \in 0 .. MaxFiles /\ files' \in [1 .. MaxFiles -> Session \cup {NoFile}]
        /\ FilesAreTrees' /\ (newest # 0 => files[newest] # NoFile)' /\ SaveIsCurrent'
    <3>1. nextId \in 0 .. appended' /\ appended' \in 0 .. MaxEntries /\ appended <= appended'
      BY <1>0, <1>2 DEF RecordOK
    <3> QED BY <1>2, <3>1, SaveKeeps
  <2> QED BY <1>0, <1>2, <2>1 DEF RecordInv, RecordOK
<1>3. CASE Link
  <2>1. /\ Marked(session, {session.leaf}, Marks, "linked") \in Session
        /\ Tree(Marked(session, {session.leaf}, Marks, "linked"), nextId)
    BY <1>0, MarkTree DEF Marks
  <2> QED BY <1>2, <1>3, <2>1 DEF Link
<1>4. ASSUME NEW target \in Ids, Navigate(target) PROVE RecordInv'
  <2> DEFINE left == IF session.leaf \notin {NoId, 0} /\ Len(session.entries) > 1
                     THEN Abandoned(session, target) ELSE {}
             ruled == Marked(session, left, {"linked"}, "ruled_out")
  <2>1. /\ IF target \in Known(session)
           THEN session' = [ruled EXCEPT !.leaf = target] /\ Save(session')
           ELSE session' = ruled /\ UNCHANGED <<files, newest, fails, behind>>
        /\ UNCHANGED <<nextId, path, appended>>
    BY <1>4 DEF Navigate
  <2> HIDE DEF left
  <2>2. /\ ruled \in Session /\ Known(ruled) = Known(session) /\ Tree(ruled, nextId)
        /\ Unmarked(ruled) = Unmarked(session)
    BY <1>0, MarkTree DEF Marks
  <2> HIDE DEF ruled
  <2>3. CASE target \in Known(session)
    <3>1. [ruled EXCEPT !.leaf = target] \in Session /\ Tree([ruled EXCEPT !.leaf = target], nextId)
      BY <2>2, <2>3, MoveTree
    <3> QED BY <1>2, <2>1, <2>3, <3>1
  <2>4. CASE target \notin Known(session)
    <3>1. session = EmptySession => session' = EmptySession
      <4>1. session = EmptySession => ruled = EmptySession
        BY DEF EmptySession, Marked, ruled
      <4> QED BY <2>1, <2>4, <4>1
    <3>2. SaveIsCurrent'
      BY <1>0, <2>1, <2>2, <2>4, <3>1 DEF SaveIsCurrent, Unmarked, Marked
    <3> QED BY <1>0, <2>1, <2>2, <2>4, <3>2 DEF RecordInv, RecordOK, FilesAreTrees
  <2> QED BY <2>3, <2>4
<1>5. CASE Clear
  <2>1. /\ session' = EmptySession /\ nextId' = 0 /\ Save(EmptySession)
        /\ UNCHANGED <<path, appended>> /\ EmptySession \in Session /\ Tree(EmptySession, 0)
    BY <1>5, EmptyTree DEF Clear
  <2>2. 0 \in 0 .. appended' /\ appended' \in 0 .. MaxEntries /\ appended <= appended'
    BY <1>0, <2>1 DEF RecordOK
  <2>3. /\ newest' \in 0 .. MaxFiles /\ files' \in [1 .. MaxFiles -> Session \cup {NoFile}]
        /\ FilesAreTrees' /\ (newest # 0 => files[newest] # NoFile)' /\ SaveIsCurrent'
    BY <2>1, <2>2, SaveKeeps
  <2> QED BY <1>0, <2>1, <2>2, <2>3 DEF RecordInv, RecordOK
<1>6. CASE Resume
  <2> DEFINE s == files[newest]
  <2>1. /\ newest # 0 /\ session' = s /\ nextId' = NextMessageId(s) /\ path' = newest
        /\ UNCHANGED <<files, newest, appended>>
    BY <1>6 DEF Resume
  <2>2. newest \in 1 .. MaxFiles /\ s \in Session /\ Tree(s, appended) /\ appended \in Nat
    BY <1>0, <2>1 DEF RecordOK, FilesAreTrees
  <2> HIDE DEF s
  <2>3. NextMessageId(s) \in 0 .. appended /\ Tree(s, NextMessageId(s))
    BY <2>2, ContinuesBehind
  <2>4. SaveIsCurrent'
    BY <1>0, <2>1 DEF SaveIsCurrent, Unmarked, Marked, s
  <2> QED BY <1>0, <2>1, <2>2, <2>3, <2>4 DEF RecordInv, RecordOK, FilesAreTrees
<1>7. CASE Restart
  <2>1. PICK f \in path + 1 .. MaxFiles : path' = f
    BY <1>7 DEF Restart
  <2>2. path' \in 1 .. MaxFiles
    BY <1>0, <2>1 DEF RecordOK
  <2>3. session' = EmptySession /\ nextId' = 0 /\ UNCHANGED <<files, newest, appended>>
    BY <1>7 DEF Restart
  <2> QED BY <1>0, <2>2, <2>3, EmptyTree DEF RecordInv, RecordOK, FilesAreTrees, SaveIsCurrent
<1>8. CASE EndTurn \/ DeriveWhole \/ DeriveSummary \/ UNCHANGED vars
  <2>1. UNCHANGED <<session, nextId, path, files, newest, appended, behind>>
    BY <1>8 DEF EndTurn, DeriveWhole, DeriveSummary, vars
  <2> QED BY <1>0, <2>1 DEF RecordInv, RecordOK, FilesAreTrees, SaveIsCurrent, Unmarked, Marked
<1> QED
  BY <1>1, <1>3, <1>4, <1>5, <1>6, <1>7, <1>8 DEF Next, Prompt, Exchange, Roles

(***************************************************************************)
(* The inductive invariant of the record.                                  *)
(***************************************************************************)
THEOREM RecordInvHolds == Spec => []RecordInv
<1>1. Init => RecordInv
  <2> SUFFICES ASSUME Init PROVE RecordInv
    OBVIOUS
  <2>1. RecordOK
    BY SessionAssumption, EmptyTree DEF Init, RecordOK
  <2>2. \A f \in 1 .. MaxFiles : files[f] = NoFile
    BY DEF Init
  <2> QED BY <2>1, <2>2, EmptyTree DEF Init, RecordInv, FilesAreTrees, SaveIsCurrent
<1> QED BY <1>1, RecordStep, PTL DEF Spec

(***************************************************************************)
(* Sessions and files are trees, whatever was navigated, cleared, resumed  *)
(* or lost (src/session.rs).                                               *)
(***************************************************************************)
THEOREM TreeSoundHolds == Spec => []TreeSound
<1>1. RecordInv => TreeSound
  <2> SUFFICES ASSUME RecordInv, NEW f \in 1 .. MaxFiles, files[f] # NoFile
               PROVE  Tree(files[f], MaxEntries)
    BY DEF RecordInv, RecordOK, TreeSound
  <2>1. /\ files[f] \in Session /\ Tree(files[f], appended) /\ appended \in Nat
        /\ MaxEntries \in Nat /\ appended <= MaxEntries
    BY SessionAssumption DEF RecordInv, RecordOK, FilesAreTrees
  <2> QED BY <2>1, TreeMonotone
<1> QED BY <1>1, RecordInvHolds, PTL

(***************************************************************************)
(* A process that dies loses nothing of the session but after a save that  *)
(* failed (src/agent.rs, autosave).                                        *)
(***************************************************************************)
THEOREM SaveIsCurrentHolds == Spec => []SaveIsCurrent
<1>1. RecordInv => SaveIsCurrent
  BY DEF RecordInv
<1> QED BY <1>1, RecordInvHolds, PTL
-----------------------------------------------------------------------------
\* The active thread.

\* Ids increase in the order of insertion.
Rising(s) ==
  \A i, j \in DOMAIN s.entries : i < j => s.entries[i].id < s.entries[j].id

Parent(s, i) == EntryOf(s, i).parent

\* Every entry but the oldest has a parent among the older ones.
Upward(s) ==
  /\ Known(s) \subseteq Ids
  /\ \A i \in Known(s) : /\ Parent(s, i) \in Known(s) \cup {NoId}
                         /\ Parent(s, i) < i

\* The function that PathTo chooses.
IsClimb(s, f) ==
  f = [i \in Ids \cup {NoId} |->
         IF i \notin Known(s) THEN {} ELSE {i} \cup f[EntryOf(s, i).parent]]

(***************************************************************************)
(* An id stands for one entry.                                             *)
(***************************************************************************)
LEMMA EntryFacts ==
  ASSUME NEW s \in Session, NEW n, Tree(s, n)
  PROVE  /\ \A k \in DOMAIN s.entries : EntryOf(s, s.entries[k].id) = s.entries[k]
         /\ \A i \in Known(s) : EntryOf(s, i) \in Entry /\ EntryOf(s, i).id = i
<1>1. ASSUME NEW k \in DOMAIN s.entries
      PROVE  EntryOf(s, s.entries[k].id) = s.entries[k]
  <2> DEFINE c == CHOOSE i \in DOMAIN s.entries : s.entries[i].id = s.entries[k].id
  <2>1. c \in DOMAIN s.entries /\ s.entries[c].id = s.entries[k].id
    BY <1>1
  <2> HIDE DEF c
  <2>2. c = k
    BY <1>1, <2>1 DEF Tree
  <2> QED BY <2>2 DEF EntryOf, c
<1>2. \A k \in DOMAIN s.entries : s.entries[k] \in Entry
  BY SessionFacts
<1>3. \A i \in Known(s) : \E k \in DOMAIN s.entries : s.entries[k].id = i
  BY DEF Known
<1> QED BY <1>1, <1>2, <1>3

(***************************************************************************)
(* In a tree whose ids rise, parents are older than their children.        *)
(***************************************************************************)
LEMMA TreeUpward ==
  ASSUME NEW s \in Session, NEW n, Tree(s, n), Rising(s)
  PROVE  /\ Upward(s)
         /\ \A i \in Known(s) : Parent(s, i) = NoId => \A j \in Known(s) : i <= j
<1>1. /\ DOMAIN s.entries = 1 .. Len(s.entries) /\ Len(s.entries) \in Nat
      /\ Ids \subseteq Nat
      /\ \A k \in DOMAIN s.entries : s.entries[k].id \in Ids
  BY SessionFacts
<1>2. Known(s) \subseteq Ids
  BY <1>1 DEF Known
<1>3. ASSUME NEW i \in Known(s)
      PROVE  /\ Parent(s, i) \in Known(s) \cup {NoId} /\ Parent(s, i) < i
             /\ Parent(s, i) = NoId => \A j \in Known(s) : i <= j
  <2>1. PICK k \in DOMAIN s.entries : s.entries[k].id = i
    BY DEF Known
  <2>2. Parent(s, i) = s.entries[k].parent
    BY <2>1, EntryFacts DEF Parent
  <2>3. i \in Nat /\ NoId < i /\ NoId \notin Ids
    BY <1>1, <1>2 DEF NoId, Ids
  <2>4. CASE s.entries[k].parent = NoId /\ k = 1
    <3>1. \A l \in DOMAIN s.entries : l = 1 \/ 1 < l
      BY <1>1
    <3>2. \A l \in DOMAIN s.entries : s.entries[l].id = i \/ i < s.entries[l].id
      BY <1>1, <2>1, <2>4, <3>1 DEF Rising
    <3>3. \A j \in Known(s) : i <= j
      <4>1. \A j \in Known(s) : (j = i \/ i < j) /\ j \in Nat
        BY <1>1, <3>2 DEF Known
      <4> QED BY <2>3, <4>1
    <3> QED BY <2>2, <2>3, <2>4, <3>3
  <2>5. ASSUME NEW l \in 1 .. k - 1, s.entries[k].parent = s.entries[l].id
        PROVE  Parent(s, i) \in Known(s) /\ Parent(s, i) < i /\ Parent(s, i) # NoId
    <3>1. l \in DOMAIN s.entries /\ l < k
      BY <1>1, <2>5
    <3>2. s.entries[l].id < s.entries[k].id
      BY <3>1 DEF Rising
    <3> QED BY <1>1, <2>1, <2>2, <2>3, <2>5, <3>1, <3>2 DEF Known
  <2> QED BY <2>1, <2>4, <2>5 DEF Tree
<1> QED BY <1>2, <1>3 DEF Upward

(***************************************************************************)
(* Induction along the thread: what holds of an entry whenever it holds of *)
(* its parent holds of all.                                                *)
(***************************************************************************)
LEMMA FromTheRoot ==
  ASSUME NEW s, Upward(s), NEW T,
         \A i \in Known(s) : Parent(s, i) = NoId \/ Parent(s, i) \in T => i \in T
  PROVE  Known(s) \subseteq T
<1> SUFFICES ASSUME Known(s) \ T # {} PROVE FALSE
  OBVIOUS
<1> DEFINE U == Known(s) \ T
<1>1. U # {} /\ U \subseteq Nat
  BY SessionAssumption DEF Upward, Ids
<1> HIDE DEF U
<1>2. \E x \in U : \A y \in U : ~ (<<y, x>> \in OpToRel(<, Nat))
  BY <1>1, NatLessThanWellFounded, WFMin, Zenon
<1>3. \A x, y \in Nat : (<<y, x>> \in OpToRel(<, Nat)) <=> y < x
  BY Zenon DEF OpToRel
<1>4. PICK u \in U : \A v \in U : ~ (v < u)
  BY <1>1, <1>2, <1>3, Zenon
<1>5. u \in Known(s) /\ u \notin T
  BY <1>4 DEF U
<1>6. Parent(s, u) \in Known(s) \ T /\ Parent(s, u) < u
  BY <1>5 DEF Upward
<1> QED BY <1>4, <1>6 DEF U

(***************************************************************************)
(* The path of an entry is the entry and the path of its parent: such a    *)
(* function exists, that of the least sets closed under parents.           *)
(***************************************************************************)
LEMMA ClimbExists ==
  ASSUME NEW s, Upward(s)
  PROVE  \E f : IsClimb(s, f)
<1> DEFINE Closed(S) == \A i \in S : Parent(s, i) \in S \cup {NoId}
           Up(i) == {j \in Known(s) : \A S \in SUBSET Known(s) : i \in S /\ Closed(S) => j \in S}
           f == [i \in Ids \cup {NoId} |-> IF i \notin Known(s) THEN {} ELSE Up(i)]
<1>0. Known(s) \subseteq Ids /\ NoId \notin Ids
  BY SessionAssumption DEF Upward, Ids, NoId
<1>1. ASSUME NEW i \in Known(s) PROVE Up(i) = {i} \cup f[Parent(s, i)]
  <2>1. Parent(s, i) \in Known(s) \cup {NoId} /\ i \in Up(i)
    BY <1>1 DEF Upward
  <2>2. CASE Parent(s, i) = NoId
    <3>1. f[Parent(s, i)] = {}
      BY <1>0, <2>2
    <3>2. {i} \in SUBSET Known(s) /\ Closed({i})
      BY <1>1, <2>2
    <3>3. \A j \in Up(i) : j \in {i}
      BY <3>2
    <3> HIDE DEF f, Up
    <3> QED BY <2>1, <3>1, <3>3
  <2>3. CASE Parent(s, i) \in Known(s)
    <3>1. f[Parent(s, i)] = Up(Parent(s, i))
      BY <1>0, <2>3
    <3>2. ASSUME NEW j \in Up(i), j # i PROVE j \in Up(Parent(s, i))
      <4> SUFFICES ASSUME NEW S \in SUBSET Known(s), Parent(s, i) \in S, Closed(S)
                   PROVE  j \in S
        BY <3>2
      <4>1. S \cup {i} \in SUBSET Known(s) /\ Closed(S \cup {i})
        BY <1>1
      <4>2. j \in S \cup {i}
        BY <3>2, <4>1
      <4> QED BY <3>2, <4>2
    <3>3. ASSUME NEW j \in Up(Parent(s, i)) PROVE j \in Up(i)
      <4> SUFFICES ASSUME NEW S \in SUBSET Known(s), i \in S, Closed(S) PROVE j \in S
        BY <3>3
      <4>1. Parent(s, i) \in S
        BY <1>0, <2>3
      <4> QED BY <3>3, <4>1
    <3> HIDE DEF f, Up
    <3> QED BY <2>1, <3>1, <3>2, <3>3
  <2> QED BY <2>1, <2>2, <2>3
<1>2. \A i \in Known(s) : f[i] = Up(i)
  BY <1>0
<1> HIDE DEF Up
<1>3. f = [i \in Ids \cup {NoId} |->
             IF i \notin Known(s) THEN {} ELSE {i} \cup f[Parent(s, i)]]
  BY <1>1
<1> HIDE DEF f
<1>4. IsClimb(s, f)
  BY <1>3 DEF IsClimb, Parent
<1> QED BY <1>4

(***************************************************************************)
(* PathTo is the function of its own recursion: an entry and the path of   *)
(* its parent.                                                             *)
(***************************************************************************)
LEMMA PathUnfolds ==
  ASSUME NEW s, Upward(s), NEW i \in Ids \cup {NoId}
  PROVE  PathTo(s, i) = IF i \notin Known(s) THEN {} ELSE {i} \cup PathTo(s, Parent(s, i))
<1> DEFINE f == CHOOSE up : IsClimb(s, up)
<1>1. IsClimb(s, f)
  BY ClimbExists
<1>2. \A j : PathTo(s, j) = f[j]
  BY DEF PathTo, IsClimb
<1> HIDE DEF f
<1>3. f[i] = IF i \notin Known(s) THEN {} ELSE {i} \cup f[Parent(s, i)]
  BY <1>1 DEF IsClimb, Parent
<1> QED BY <1>2, <1>3

(***************************************************************************)
(* A path is made of entries (src/session.rs, active_thread).              *)
(***************************************************************************)
LEMMA PathsKnown ==
  ASSUME NEW s, Upward(s), NEW i \in Ids \cup {NoId}
  PROVE  PathTo(s, i) \subseteq Known(s) /\ Known(s) \subseteq Ids /\ NoId \notin Ids
<1>0. Known(s) \subseteq Ids /\ NoId \notin Ids
  BY SessionAssumption DEF Upward, Ids, NoId
<1>1. PathTo(s, NoId) = {}
  BY <1>0, PathUnfolds
<1> DEFINE T == {j \in Known(s) : PathTo(s, j) \subseteq Known(s)}
<1>2. ASSUME NEW j \in Known(s), Parent(s, j) = NoId \/ Parent(s, j) \in T PROVE j \in T
  <2>1. PathTo(s, j) = {j} \cup PathTo(s, Parent(s, j))
    BY <1>0, <1>2, PathUnfolds
  <2> QED BY <1>1, <1>2, <2>1
<1> HIDE DEF T
<1>3. Known(s) \subseteq T
  BY <1>2, FromTheRoot
<1>4. CASE i \in Known(s)
  BY <1>0, <1>3, <1>4 DEF T
<1>5. CASE i \notin Known(s)
  BY <1>0, <1>5, PathUnfolds
<1> QED BY <1>0, <1>4, <1>5

(***************************************************************************)
(* A path depends on the entries it can reach only.                        *)
(***************************************************************************)
LEMMA PathsAgree ==
  ASSUME NEW s, NEW t, Upward(s), Upward(t), Known(s) \subseteq Known(t),
         \A i \in Known(s) : Parent(t, i) = Parent(s, i),
         NEW i \in Known(s) \cup {NoId}
  PROVE  PathTo(t, i) = PathTo(s, i)
<1>0. Known(t) \subseteq Ids /\ Known(s) \subseteq Ids /\ NoId \notin Ids
  BY SessionAssumption DEF Upward, Ids, NoId
<1>1. PathTo(s, NoId) = {} /\ PathTo(t, NoId) = {}
  BY <1>0, PathUnfolds
<1> DEFINE T == {j \in Known(s) : PathTo(t, j) = PathTo(s, j)}
<1>2. ASSUME NEW j \in Known(s), Parent(s, j) = NoId \/ Parent(s, j) \in T PROVE j \in T
  <2>1. /\ PathTo(s, j) = {j} \cup PathTo(s, Parent(s, j))
        /\ PathTo(t, j) = {j} \cup PathTo(t, Parent(s, j))
    BY <1>0, <1>2, PathUnfolds
  <2> QED BY <1>1, <1>2, <2>1
<1> HIDE DEF T
<1>3. Known(s) \subseteq T
  BY <1>2, FromTheRoot
<1> QED BY <1>1, <1>3 DEF T

(***************************************************************************)
(* The oldest entry is on every path.                                      *)
(***************************************************************************)
LEMMA RootOnPath ==
  ASSUME NEW s, Upward(s), 0 \in Known(s),
         \A i \in Known(s) : Parent(s, i) = NoId => \A j \in Known(s) : i <= j,
         NEW i \in Known(s)
  PROVE  0 \in PathTo(s, i)
<1>0. Known(s) \subseteq Ids /\ NoId \notin Ids /\ Ids \subseteq Nat
  BY SessionAssumption DEF Upward, Ids, NoId
<1> DEFINE T == {j \in Known(s) : 0 \in PathTo(s, j)}
<1>2. ASSUME NEW j \in Known(s), Parent(s, j) = NoId \/ Parent(s, j) \in T PROVE j \in T
  <2>1. PathTo(s, j) = {j} \cup PathTo(s, Parent(s, j))
    BY <1>0, <1>2, PathUnfolds
  <2>2. CASE Parent(s, j) = NoId
    <3>1. j \in Nat /\ j <= 0
      BY <1>0, <2>2
    <3>2. j = 0
      BY <3>1
    <3> QED BY <2>1, <3>2
  <2> QED BY <1>2, <2>1, <2>2
<1> HIDE DEF T
<1>3. Known(s) \subseteq T
  BY <1>2, FromTheRoot
<1> QED BY <1>3 DEF T

-----------------------------------------------------------------------------
\* What the operations do to the thread.

UsersOf(s) == {i \in Thread(s) : EntryOf(s, i).role = "user"}

\* The same thread, of the same authors.
SameThread(s, t) == Thread(t) = Thread(s) /\ UsersOf(t) = UsersOf(s)

Sound(s, n) == s \in Session /\ Tree(s, n) /\ Rising(s)

(***************************************************************************)
(* A sound session's thread is made of entries, down to the leaf.          *)
(***************************************************************************)
LEMMA ThreadFacts ==
  ASSUME NEW s, NEW n, Sound(s, n)
  PROVE  /\ Upward(s) /\ Thread(s) \subseteq Known(s) /\ Known(s) \subseteq Ids
         /\ UsersOf(s) \subseteq Thread(s)
         /\ s.leaf \in Known(s) \cup {NoId} /\ s.leaf \in Ids \cup {NoId}
         /\ s.leaf = NoId => Thread(s) = {}
         /\ \A i \in Known(s) : i < n
<1>1. Upward(s)
  BY TreeUpward DEF Sound
<1>2. s.leaf \in Ids \cup {NoId} /\ s.leaf \in Known(s) \cup {NoId}
  BY SessionFacts DEF Sound, Tree
<1>3. Thread(s) \subseteq Known(s) /\ Known(s) \subseteq Ids /\ NoId \notin Ids
  BY <1>1, <1>2, PathsKnown DEF Thread
<1>4. s.leaf = NoId => Thread(s) = {}
  BY <1>1, <1>3, PathUnfolds DEF Thread
<1>5. \A i \in Known(s) : i < n
  BY DEF Sound, Tree, Known
<1> QED BY <1>1, <1>2, <1>3, <1>4, <1>5 DEF UsersOf

(***************************************************************************)
(* An appended message is the end of the thread (src/session.rs, append).  *)
(***************************************************************************)
LEMMA AppendThread ==
  ASSUME NEW s, NEW n \in Ids, NEW role \in Roles, Sound(s, n)
  PROVE  LET t == Appended(s, n, role)
         IN  /\ Sound(t, n + 1) /\ Known(t) = Known(s) \cup {n}
             /\ Thread(t) = Thread(s) \cup {n}
             /\ UsersOf(t) = UsersOf(s) \cup (IF role = "user" THEN {n} ELSE {})
<1> DEFINE e == [id |-> n, parent |-> s.leaf, role |-> role, mark |-> "none"]
           t == Appended(s, n, role)
<1>1. t \in Session /\ Tree(t, n + 1) /\ s \in Session /\ Tree(s, n) /\ Rising(s)
  BY AppendTree DEF Sound
<1>2. /\ t.entries = Append(s.entries, e) /\ t.leaf = n
      /\ e.id = n /\ e.parent = s.leaf /\ e.role = role
  BY DEF Appended
<1>3. n \in Nat
  BY SessionAssumption DEF Ids
<1> HIDE DEF e, t
<1>4. /\ Len(s.entries) \in Nat
      /\ DOMAIN s.entries = 1 .. Len(s.entries) /\ DOMAIN t.entries = 1 .. Len(s.entries) + 1
      /\ \A i \in DOMAIN s.entries : t.entries[i] = s.entries[i]
      /\ t.entries[Len(s.entries) + 1] = e
  <2>1. s.entries \in Seq(Entry)
    BY <1>1 DEF Session
  <2> QED BY <1>2, <2>1
<1>5. \A i \in DOMAIN s.entries : s.entries[i].id < n
  BY <1>1 DEF Tree
<1>6. Rising(t)
  <2> SUFFICES ASSUME NEW i \in DOMAIN t.entries, NEW j \in DOMAIN t.entries, i < j
               PROVE  t.entries[i].id < t.entries[j].id
    BY DEF Rising
  <2>1. i \in DOMAIN s.entries /\ t.entries[i] = s.entries[i]
    BY <1>4
  <2>2. CASE j = Len(s.entries) + 1
    BY <1>2, <1>4, <1>5, <2>1, <2>2
  <2>3. CASE j # Len(s.entries) + 1
    <3>1. j \in DOMAIN s.entries /\ t.entries[j] = s.entries[j]
      BY <1>4, <2>3
    <3> QED BY <1>1, <2>1, <3>1 DEF Rising
  <2> QED BY <2>2, <2>3
<1>7. Sound(t, n + 1)
  BY <1>1, <1>6 DEF Sound
<1>8. /\ \A i \in DOMAIN t.entries : i \in DOMAIN s.entries \/ i = Len(s.entries) + 1
      /\ Len(s.entries) + 1 \in DOMAIN t.entries
      /\ \A i \in DOMAIN s.entries : i \in DOMAIN t.entries
  BY <1>4
<1>9. Known(t) = Known(s) \cup {n}
  BY <1>2, <1>4, <1>8 DEF Known
<1>10. /\ \A i \in Known(s) : EntryOf(t, i) = EntryOf(s, i)
       /\ EntryOf(t, n) = e
  <2>1. /\ \A k \in DOMAIN s.entries : EntryOf(s, s.entries[k].id) = s.entries[k]
        /\ \A k \in DOMAIN t.entries : EntryOf(t, t.entries[k].id) = t.entries[k]
    BY <1>1, EntryFacts
  <2>2. \A i \in Known(s) : \E k \in DOMAIN s.entries : s.entries[k].id = i
    BY DEF Known
  <2>3. \A i \in Known(s) : EntryOf(t, i) = EntryOf(s, i)
    BY <1>4, <1>8, <2>1, <2>2
  <2>4. EntryOf(t, n) = e
    BY <1>2, <1>4, <1>8, <2>1
  <2> QED BY <2>3, <2>4
<1>11. /\ Upward(s) /\ Upward(t) /\ s.leaf \in Known(s) \cup {NoId}
       /\ Thread(s) \subseteq Known(s) /\ n \notin Known(s)
  BY <1>3, <1>7, ThreadFacts
<1>12. PathTo(t, s.leaf) = Thread(s)
  BY <1>9, <1>10, <1>11, PathsAgree DEF Parent, Thread
<1>13. Thread(t) = Thread(s) \cup {n}
  <2>1. Thread(t) = {n} \cup PathTo(t, Parent(t, n))
    BY <1>2, <1>9, <1>11, PathUnfolds DEF Thread
  <2>2. Parent(t, n) = s.leaf
    BY <1>2, <1>10 DEF Parent
  <2> QED BY <1>12, <2>1, <2>2
<1>14. UsersOf(t) = UsersOf(s) \cup (IF role = "user" THEN {n} ELSE {})
  BY <1>2, <1>10, <1>11, <1>13 DEF UsersOf
<1> QED BY <1>7, <1>9, <1>13, <1>14 DEF t

(***************************************************************************)
(* Marks are no part of the thread, and change as they are told to         *)
(* (src/session.rs, apply_mark).                                           *)
(***************************************************************************)
LEMMA MarkThread ==
  ASSUME NEW s, NEW n, Sound(s, n), NEW ids, NEW from, NEW to \in Marks
  PROVE  LET t == Marked(s, ids, from, to)
         IN  /\ Sound(t, n) /\ Known(t) = Known(s) /\ t.leaf = s.leaf
             /\ \A i \in Known(s) \cup {NoId} : PathTo(t, i) = PathTo(s, i)
             /\ SameThread(s, t)
             /\ \A i \in Known(s) :
                  /\ EntryOf(t, i).role = EntryOf(s, i).role
                  /\ EntryOf(t, i).mark =
                       IF i \in ids /\ EntryOf(s, i).mark \in from THEN to ELSE EntryOf(s, i).mark
<1> DEFINE t == Marked(s, ids, from, to)
<1>1. s \in Session /\ Tree(s, n) /\ Rising(s)
  BY DEF Sound
<1>2. t \in Session /\ Tree(t, n) /\ Known(t) = Known(s)
  BY <1>1, MarkTree
<1>3. /\ t.leaf = s.leaf
      /\ t.entries = [i \in DOMAIN s.entries |->
            IF s.entries[i].id \in ids /\ s.entries[i].mark \in from
            THEN [s.entries[i] EXCEPT !.mark = to] ELSE s.entries[i]]
  BY <1>1 DEF Marked, Session
<1> HIDE DEF t
<1>4. /\ DOMAIN t.entries = DOMAIN s.entries
      /\ \A i \in DOMAIN s.entries :
           /\ t.entries[i].id = s.entries[i].id /\ t.entries[i].parent = s.entries[i].parent
           /\ t.entries[i].role = s.entries[i].role
           /\ t.entries[i].mark = IF s.entries[i].id \in ids /\ s.entries[i].mark \in from
                                  THEN to ELSE s.entries[i].mark
  <2>1. \A i \in DOMAIN s.entries : s.entries[i] \in Entry
    BY <1>1, SessionFacts
  <2>2. \A x \in Entry : LET y == [x EXCEPT !.mark = to]
                         IN  /\ y.id = x.id /\ y.parent = x.parent /\ y.role = x.role
                             /\ y.mark = to
    BY DEF Entry
  <2> QED BY <1>3, <2>1, <2>2
<1>5. Rising(t)
  BY <1>1, <1>4 DEF Rising
<1>6. Sound(t, n)
  BY <1>2, <1>5 DEF Sound
<1>7. \A i \in Known(s) :
        /\ Parent(t, i) = Parent(s, i)
        /\ EntryOf(t, i).role = EntryOf(s, i).role
        /\ EntryOf(t, i).mark =
             IF i \in ids /\ EntryOf(s, i).mark \in from THEN to ELSE EntryOf(s, i).mark
  <2>1. /\ \A k \in DOMAIN s.entries : EntryOf(s, s.entries[k].id) = s.entries[k]
        /\ \A k \in DOMAIN t.entries : EntryOf(t, t.entries[k].id) = t.entries[k]
    BY <1>1, <1>2, EntryFacts
  <2>2. \A i \in Known(s) : \E k \in DOMAIN s.entries : s.entries[k].id = i
    BY DEF Known
  <2>3. \A k \in DOMAIN s.entries : EntryOf(t, s.entries[k].id) = t.entries[k]
    BY <1>4, <2>1
  <2> QED BY <1>4, <2>1, <2>2, <2>3 DEF Parent
<1>8. \A i \in Known(s) \cup {NoId} : PathTo(t, i) = PathTo(s, i)
  BY <1>1, <1>2, <1>6, <1>7, ThreadFacts, PathsAgree DEF Sound
<1>9. SameThread(s, t)
  <2>1. s.leaf \in Known(s) \cup {NoId} /\ Thread(s) \subseteq Known(s)
    BY ThreadFacts
  <2>2. Thread(t) = Thread(s)
    BY <1>3, <1>8, <2>1 DEF Thread
  <2> QED BY <1>7, <2>1, <2>2 DEF SameThread, UsersOf
<1> QED BY <1>2, <1>3, <1>6, <1>7, <1>8, <1>9 DEF t

(***************************************************************************)
(* Moving the leaf leaves all paths (src/session.rs, navigate).            *)
(***************************************************************************)
LEMMA MoveThread ==
  ASSUME NEW s, NEW n, Sound(s, n), NEW target \in Known(s)
  PROVE  LET t == [s EXCEPT !.leaf = target]
         IN  /\ Sound(t, n) /\ Known(t) = Known(s) /\ t.leaf = target
             /\ Thread(t) = PathTo(s, target)
             /\ \A i \in Known(s) : EntryOf(t, i) = EntryOf(s, i)
<1> DEFINE t == [s EXCEPT !.leaf = target]
<1>1. s \in Session /\ Tree(s, n) /\ Rising(s)
  BY DEF Sound
<1>2. t \in Session /\ Tree(t, n)
  BY <1>1, MoveTree
<1>3. t.entries = s.entries /\ t.leaf = target
  BY <1>1 DEF Session
<1> HIDE DEF t
<1>4. Rising(t) /\ Known(t) = Known(s) /\ \A i : EntryOf(t, i) = EntryOf(s, i)
  BY <1>1, <1>3 DEF Rising, Known, EntryOf
<1>5. Sound(t, n)
  BY <1>2, <1>4 DEF Sound
<1>6. PathTo(t, target) = PathTo(s, target)
  BY <1>4, <1>5, ThreadFacts, PathsAgree DEF Parent
<1> QED BY <1>3, <1>4, <1>5, <1>6 DEF Thread, t

-----------------------------------------------------------------------------
\* The working set.

(***************************************************************************)
(* A non-empty set of ids has a least one.                                 *)
(***************************************************************************)
LEMMA LeastId ==
  ASSUME NEW S \in SUBSET Ids, S # {}
  PROVE  Least(S) \in S /\ \A j \in S : Least(S) <= j
<1>0. S \subseteq Nat
  BY SessionAssumption DEF Ids
<1>1. \E x \in S : \A y \in S : ~ (<<y, x>> \in OpToRel(<, Nat))
  BY <1>0, NatLessThanWellFounded, WFMin, Zenon
<1>2. \A x, y \in Nat : (<<y, x>> \in OpToRel(<, Nat)) <=> y < x
  BY Zenon DEF OpToRel
<1>3. PICK u \in S : \A v \in S : ~ (v < u)
  BY <1>0, <1>1, <1>2, Zenon
<1>4. \A v \in S : u <= v
  BY <1>0, <1>3
<1> QED BY <1>4 DEF Least

\* Summary c of a thread of which us are the user's is that of the messages
\* from the first of the user's to one before the last.
CacheFits(c, thread, us) ==
  /\ us # {} /\ c.last \in thread
  /\ \E u \in us : c.last < u
  /\ c.covers = {i \in thread : Least(us) < i /\ i <= c.last}

\* The types of what the record does not consist of.
WorkOK ==
  /\ inTurn \in BOOLEAN
  /\ tier2 \in [last : Ids \cup {NoId}, covers : SUBSET Ids]
  /\ request \in [kept : SUBSET Ids, covers : SUBSET Ids]
  /\ strayed \in BOOLEAN
  /\ links \in 0 .. MaxLinks /\ fails \in 0 .. MaxFails
  /\ behind \in BOOLEAN

FilesRise == \A f \in 1 .. MaxFiles : files[f] # NoFile => Rising(files[f])

\* While nothing strayed, the cache is a summary of the active thread.
CacheOnThread ==
  ~strayed /\ tier2 # NoCache => CacheFits(tier2, Thread(session), UsersOf(session))

ThreadInv ==
  /\ RecordInv /\ WorkOK
  /\ Rising(session) /\ FilesRise
  /\ ~inTurn => request = NoRequest
  /\ CacheOnThread
  /\ WorkingSetOnOneBranch

(***************************************************************************)
(* The thread of the next state is that of the next session.               *)
(***************************************************************************)
LEMMA ThreadPrimed ==
  /\ Thread(session)' = Thread(session')
  /\ UsersOf(session)' = UsersOf(session')
  /\ Rising(session)' = Rising(session')
BY DEF UsersOf, Thread, PathTo, EntryOf, Known, Rising

(***************************************************************************)
(* A summary still fits when the thread grows.                             *)
(***************************************************************************)
LEMMA FitsLater ==
  ASSUME NEW th \in SUBSET Ids, NEW us \in SUBSET th, NEW c, CacheFits(c, th, us),
         NEW n \in Ids, \A i \in th : i < n, NEW more \in SUBSET {n}
  PROVE  CacheFits(c, th \cup {n}, us \cup more)
<1>0. Ids \subseteq Nat /\ n \in Nat
  BY SessionAssumption DEF Ids
<1>1. us # {} /\ c.last \in th
  BY DEF CacheFits
<1>2. PICK l, m, x : l = Least(us) /\ m = Least(us \cup more) /\ x = c.last
  OBVIOUS
<1>3. /\ l \in us /\ \A j \in us : l <= j
      /\ m \in us \cup more /\ \A j \in us \cup more : m <= j
  BY <1>1, <1>2, LeastId
<1>4. l \in Nat /\ m \in Nat /\ x \in Nat /\ x < n /\ l < n
  BY <1>0, <1>1, <1>2, <1>3
<1>5. m = l /\ ~(n <= x)
  <2>1. m <= l
    BY <1>3
  <2>2. m \in us
    <3>1. m # n
      BY <1>0, <1>4, <2>1
    <3> QED BY <1>3, <3>1
  <2>3. l <= m
    BY <1>3, <2>2
  <2> QED BY <1>0, <1>4, <2>1, <2>3
<1>6. c.covers = {i \in th \cup {n} : Least(us) < i /\ i <= c.last}
  BY <1>2, <1>5 DEF CacheFits
<1> QED BY <1>2, <1>5, <1>6 DEF CacheFits

(***************************************************************************)
(* summary_span: what lies between the first and the last of the user's    *)
(* messages (src/compaction.rs).                                           *)
(***************************************************************************)
LEMMA SpanFacts ==
  ASSUME Sound(session, nextId), Span # {}
  PROVE  /\ Span \subseteq Thread(session) /\ Thread(session) \subseteq Ids
         /\ Greatest(Span) \in Span /\ Greatest(Span) \in Ids
         /\ \A c : c.last = Greatest(Span) =>
              (CacheFits(c, Thread(session), UsersOf(session)) <=> c.covers = Span)
<1> DEFINE th == Thread(session)
           us == UsersOf(session)
           g == Greatest(Span)
<1>0. th \subseteq Ids /\ us \subseteq th /\ Ids \subseteq Nat
  BY ThreadFacts, SessionAssumption DEF Ids
<1>1. us = Users /\ us # {} /\ Span = {i \in th : Least(us) < i /\ i < Greatest(us)}
  BY DEF Users, UsersOf, Span
<1>2. g \in Span /\ \A j \in Span : j <= g
  BY <1>0, <1>1, GreatestId
<1>3. Greatest(us) \in us /\ Least(us) \in us
  BY <1>0, <1>1, GreatestId, LeastId
<1> HIDE DEF th, us, g
<1>4. g \in th /\ g \in Nat /\ g < Greatest(us) /\ Greatest(us) \in Nat /\ Least(us) \in Nat
  BY <1>0, <1>1, <1>2, <1>3
<1>5. Span = {i \in th : Least(us) < i /\ i <= g}
  <2>1. \A i \in th : i <= g => i < Greatest(us)
    BY <1>0, <1>4
  <2> QED BY <1>1, <1>2, <2>1
<1>6. \E u \in us : g < u
  BY <1>3, <1>4
<1>7. \A c : c.last = g => (CacheFits(c, th, us) <=> c.covers = Span)
  BY <1>1, <1>4, <1>5, <1>6 DEF CacheFits
<1> QED BY <1>0, <1>1, <1>2, <1>7 DEF th, us, g

(***************************************************************************)
(* context_working_set keeps the thread and its summary apart, and the     *)
(* summary it extends is that of the thread (src/agent.rs).                *)
(***************************************************************************)
LEMMA DeriveStep ==
  ASSUME ThreadInv, Sound(session, nextId), DeriveSummary
  PROVE  ThreadInv'
<1> DEFINE last == Greatest(Span)
           reuse == tier2 # NoCache /\ tier2.last = last
           grown == tier2 # NoCache /\ tier2.last < last
           covers == IF reuse THEN tier2.covers
                     ELSE IF grown THEN tier2.covers \cup Increment ELSE Span
           th == Thread(session)
           us == UsersOf(session)
<1>1. /\ Span # {} /\ inTurn /\ tier2' = [last |-> last, covers |-> covers]
      /\ request' = [kept |-> th \ Span, covers |-> covers]
      /\ strayed' = (strayed /\ (reuse \/ grown))
      /\ UNCHANGED <<session, nextId, inTurn, path, files, newest, appended, links,
                     fails, behind>>
  BY DEF DeriveSummary
<1>2. /\ Span \subseteq th /\ th \subseteq Ids /\ last \in Span /\ last \in Ids
      /\ \A c : c.last = last => (CacheFits(c, th, us) <=> c.covers = Span)
  BY <1>1, SpanFacts
<1>3. Increment \subseteq Span
  BY DEF Increment
<1>4. covers \in SUBSET Ids
  BY <1>2, <1>3 DEF ThreadInv, WorkOK
<1>5. ASSUME ~strayed' PROVE covers = Span
  <2>1. CASE ~reuse /\ ~grown
    BY <2>1
  <2>2. CASE reuse \/ grown
    <3>1. ~strayed /\ tier2 # NoCache
      BY <1>1, <1>5, <2>2
    <3>2. CacheFits(tier2, th, us)
      BY <3>1 DEF ThreadInv, CacheOnThread
    <3>3. CASE reuse
      BY <1>2, <3>2, <3>3
    <3>4. CASE grown /\ ~reuse
      <4>1. PICK c : c = [last |-> last, covers |-> Span]
        OBVIOUS
      <4>2. CacheFits(c, th, us) /\ c.covers = Span /\ c.last = last
        BY <1>2, <4>1
      <4>3. Span = {i \in th : Least(us) < i /\ i <= last}
        BY <4>2 DEF CacheFits
      <4>4. tier2.covers = {i \in th : Least(us) < i /\ i <= tier2.last} /\ tier2.last \in th
        BY <3>2 DEF CacheFits
      <4>5. Ids \subseteq Nat
        BY SessionAssumption DEF Ids
      <4>6. tier2.covers \subseteq Span
        <5> SUFFICES ASSUME NEW i \in tier2.covers PROVE i <= last
          BY <4>3, <4>4
        <5>1. i \in Nat /\ i <= tier2.last /\ tier2.last \in Nat /\ last \in Nat
          BY <1>2, <4>4, <4>5
        <5> QED BY <3>4, <5>1
      <4>7. Increment = {i \in Span : i > tier2.last}
        <5>1. last \in {i \in Span : i > tier2.last}
          BY <1>2, <3>4, <4>4, <4>5
        <5> QED BY <5>1 DEF Increment
      <4>8. \A i \in Span : i \in tier2.covers \/ i > tier2.last
        <5> SUFFICES ASSUME NEW i \in Span, ~(i > tier2.last) PROVE i \in tier2.covers
          OBVIOUS
        <5>1. i \in th /\ i \in Nat /\ tier2.last \in Nat /\ Least(us) < i
          BY <1>2, <4>3, <4>4, <4>5
        <5>2. i <= tier2.last
          BY <5>1
        <5> QED BY <4>4, <5>1, <5>2
      <4> QED BY <3>4, <4>6, <4>7, <4>8
    <3> QED BY <2>2, <3>3, <3>4
  <2> QED BY <2>1, <2>2
<1>6. CacheOnThread'
  <2>1. ASSUME ~strayed' PROVE CacheFits(tier2', th, us)
    <3>1. tier2'.last = last /\ tier2'.covers = Span
      BY <1>1, <1>5, <2>1
    <3> QED BY <1>2, <3>1
  <2>2. Thread(session)' = th /\ UsersOf(session)' = us
    BY <1>1, ThreadPrimed
  <2>3. CacheFits(tier2, Thread(session), UsersOf(session))'
           <=> CacheFits(tier2', Thread(session)', UsersOf(session)')
    BY DEF CacheFits, Least
  <2> QED BY <2>1, <2>2, <2>3 DEF CacheOnThread
<1>7. WorkingSetOnOneBranch'
  <2>1. ASSUME ~strayed' PROVE /\ request'.kept \cup request'.covers = th
                               /\ request'.kept \cap request'.covers = {}
    <3>1. request'.kept = th \ Span /\ request'.covers = Span
      BY <1>1, <1>5, <2>1
    <3> QED BY <1>2, <3>1
  <2>2. Thread(session)' = th
    BY <1>1, ThreadPrimed
  <2> QED BY <2>1, <2>2 DEF WorkingSetOnOneBranch, WorkingSetFaithful
<1>8. WorkOK'
  <2>1. strayed' \in BOOLEAN /\ inTurn' \in BOOLEAN /\ behind' \in BOOLEAN
    <3>1. strayed \in BOOLEAN /\ inTurn \in BOOLEAN /\ behind \in BOOLEAN
      BY DEF ThreadInv, WorkOK
    <3>2. strayed' \in BOOLEAN
      BY <1>1, Zenon
    <3> QED BY <1>1, <3>1, <3>2
  <2>2. tier2' \in [last : Ids \cup {NoId}, covers : SUBSET Ids]
    BY <1>1, <1>2, <1>4
  <2>3. request' \in [kept : SUBSET Ids, covers : SUBSET Ids]
    BY <1>1, <1>2, <1>4
  <2> QED BY <1>1, <2>1, <2>2, <2>3 DEF ThreadInv, WorkOK
<1>9. RecordInv'
  BY RecordStep DEF Next, ThreadInv
<1>10. Rising(session)' /\ FilesRise'
  BY <1>1 DEF ThreadInv, Rising, FilesRise
<1> QED BY <1>1, <1>6, <1>7, <1>8, <1>9, <1>10 DEF ThreadInv

(***************************************************************************)
(* A save changes one file at most (src/session.rs, save).                 *)
(***************************************************************************)
LEMMA SavesRise ==
  ASSUME ThreadInv, NEW s, Save(s), Rising(s)
  PROVE  FilesRise' /\ fails' \in 0 .. MaxFails /\ behind' \in BOOLEAN
<1>1. /\ path \in 1 .. MaxFiles /\ files \in [1 .. MaxFiles -> Session \cup {NoFile}]
      /\ fails \in 0 .. MaxFails /\ MaxFails \in Nat /\ FilesRise
  BY SessionAssumption DEF ThreadInv, RecordInv, RecordOK, WorkOK
<1>2. behind' \in BOOLEAN
  <2>1. behind' = TRUE \/ behind' = FALSE
    BY DEF Save
  <2> QED BY <2>1
<1>3. \A f \in 1 .. MaxFiles : files'[f] = files[f] \/ files'[f] = s
  BY <1>1 DEF Save
<1>4. FilesRise'
  BY <1>1, <1>3 DEF FilesRise, Rising
<1>5. fails' \in 0 .. MaxFails
  BY <1>1 DEF Save
<1> QED BY <1>2, <1>4, <1>5

(***************************************************************************)
(* The cache and the working set of a thread that stays the same stay      *)
(* right.                                                                  *)
(***************************************************************************)
LEMMA SameThreadKept ==
  ASSUME CacheOnThread, WorkingSetOnOneBranch, SameThread(session, session'),
         UNCHANGED <<tier2, request, strayed>>
  PROVE  CacheOnThread' /\ WorkingSetOnOneBranch'
<1>1. Thread(session)' = Thread(session) /\ UsersOf(session)' = UsersOf(session)
  BY ThreadPrimed DEF SameThread
<1>2. CacheOnThread'
  <2>1. CacheFits(tier2, Thread(session), UsersOf(session))'
           <=> CacheFits(tier2', Thread(session)', UsersOf(session)')
    BY DEF CacheFits, Least
  <2> QED BY <1>1, <2>1 DEF CacheOnThread
<1>3. WorkingSetOnOneBranch'
  BY <1>1 DEF WorkingSetOnOneBranch, WorkingSetFaithful
<1> QED BY <1>2, <1>3

(***************************************************************************)
(* Without a working set there is nothing to be wrong with it, and without *)
(* a cache nothing to fit.                                                 *)
(***************************************************************************)
LEMMA NothingDerived ==
  /\ request' = NoRequest => WorkingSetOnOneBranch'
  /\ tier2' = NoCache => CacheOnThread'
<1>1. NoRequest' = NoRequest /\ NoCache' = NoCache
  BY DEF NoRequest, NoCache, NoId
<1> QED BY <1>1 DEF WorkingSetOnOneBranch, WorkingSetFaithful, CacheOnThread

(***************************************************************************)
(* AgentLoop::append: the summary still fits the longer thread.            *)
(***************************************************************************)
LEMMA AppendWork ==
  ASSUME ThreadInv, Sound(session, nextId), NEW role \in Roles, AppendMessage(role),
         inTurn' = TRUE, Next
  PROVE  ThreadInv'
<1>1. nextId \in Ids
  BY SessionAssumption DEF ThreadInv, RecordInv, RecordOK, AppendMessage, Ids
<1>2. PICK t : t = Appended(session, nextId, role)
  OBVIOUS
<1>3. /\ session' = t /\ Save(t) /\ request' = NoRequest /\ UNCHANGED <<tier2, strayed, links>>
  BY <1>2 DEF AppendMessage
<1>4. /\ Sound(t, nextId + 1) /\ Thread(t) = Thread(session) \cup {nextId}
      /\ UsersOf(t) = UsersOf(session) \cup (IF role = "user" THEN {nextId} ELSE {})
  BY <1>1, <1>2, AppendThread
<1>5. FilesRise' /\ fails' \in 0 .. MaxFails /\ behind' \in BOOLEAN
  BY <1>3, <1>4, SavesRise DEF Sound
<1>6. Rising(session)'
  BY <1>3, <1>4, ThreadPrimed DEF Sound
<1>7. WorkOK'
  <2>1. NoRequest \in [kept : SUBSET Ids, covers : SUBSET Ids]
    BY DEF NoRequest
  <2>2. inTurn' \in BOOLEAN
    OBVIOUS
  <2>3. strayed' \in BOOLEAN
    BY <1>3 DEF ThreadInv, WorkOK
  <2> QED BY <1>3, <1>5, <2>1, <2>2, <2>3 DEF ThreadInv, WorkOK
<1>8. CacheOnThread'
  <2>1. ASSUME ~strayed, tier2 # NoCache PROVE CacheFits(tier2, Thread(t), UsersOf(t))
    <3>1. CacheFits(tier2, Thread(session), UsersOf(session))
      BY <2>1 DEF ThreadInv, CacheOnThread
    <3>2. /\ Thread(session) \in SUBSET Ids /\ UsersOf(session) \in SUBSET Thread(session)
          /\ \A i \in Thread(session) : i < nextId
      BY ThreadFacts
    <3>3. PICK more : more = IF role = "user" THEN {nextId} ELSE {}
      OBVIOUS
    <3> QED BY <1>1, <1>4, <3>1, <3>2, <3>3, FitsLater
  <2>2. CacheFits(tier2, Thread(session), UsersOf(session))'
           <=> CacheFits(tier2', Thread(session'), UsersOf(session'))
    BY ThreadPrimed DEF CacheFits, Least
  <2>3. NoCache' = NoCache
    BY DEF NoCache, NoId
  <2> QED BY <1>3, <2>1, <2>2, <2>3 DEF CacheOnThread
<1>9. WorkingSetOnOneBranch'
  BY <1>3, NothingDerived
<1>10. RecordInv'
  BY RecordStep DEF ThreadInv
<1> QED BY <1>5, <1>6, <1>7, <1>8, <1>9, <1>10 DEF ThreadInv

(***************************************************************************)
(* What handle_navigate makes of the session (src/agent.rs).               *)
(***************************************************************************)
LEMMA NavigateThread ==
  ASSUME Sound(session, nextId), NEW target \in Ids, Navigate(target)
  PROVE  LET left == IF session.leaf \notin {NoId, 0} /\ Len(session.entries) > 1
                     THEN Abandoned(session, target) ELSE {}
         IN  /\ Sound(session', nextId)
             /\ Known(session') = Known(session)
             /\ session'.leaf = session.leaf => SameThread(session, session')
             /\ session'.leaf # session.leaf =>
                  /\ target \in Known(session) /\ target # session.leaf
                  /\ Thread(session') = PathTo(session, target)
             /\ \A i \in Known(session) :
                  EntryOf(session', i).mark =
                    IF i \in left /\ EntryOf(session, i).mark \in {"linked"}
                    THEN "ruled_out" ELSE EntryOf(session, i).mark
<1> DEFINE left == IF session.leaf \notin {NoId, 0} /\ Len(session.entries) > 1
                   THEN Abandoned(session, target) ELSE {}
           ruled == Marked(session, left, {"linked"}, "ruled_out")
<1>1. IF target \in Known(session)
      THEN session' = [ruled EXCEPT !.leaf = target]
      ELSE session' = ruled
  BY DEF Navigate
<1> HIDE DEF left
<1>2. /\ Sound(ruled, nextId) /\ Known(ruled) = Known(session) /\ ruled.leaf = session.leaf
      /\ \A i \in Known(session) \cup {NoId} : PathTo(ruled, i) = PathTo(session, i)
      /\ SameThread(session, ruled)
      /\ \A i \in Known(session) :
           /\ EntryOf(ruled, i).role = EntryOf(session, i).role
           /\ EntryOf(ruled, i).mark =
                IF i \in left /\ EntryOf(session, i).mark \in {"linked"}
                THEN "ruled_out" ELSE EntryOf(session, i).mark
  BY MarkThread DEF Marks
<1> HIDE DEF ruled
<1>3. CASE target \notin Known(session)
  BY <1>1, <1>2, <1>3 DEF left
<1>4. CASE target \in Known(session)
  <2>0. PICK r, t : r = ruled /\ t = [r EXCEPT !.leaf = target]
    OBVIOUS
  <2>1. /\ Sound(session', nextId) /\ Known(session') = Known(ruled) /\ session'.leaf = target
        /\ Thread(session') = PathTo(ruled, target)
        /\ \A i \in Known(ruled) : EntryOf(session', i) = EntryOf(ruled, i)
    <3>1. PICK n : n = nextId
      OBVIOUS
    <3>2. Sound(r, n) /\ target \in Known(r)
      BY <1>2, <1>4, <2>0, <3>1
    <3>3. /\ Sound(t, n) /\ Known(t) = Known(r) /\ t.leaf = target
          /\ Thread(t) = PathTo(r, target)
          /\ \A i \in Known(r) : EntryOf(t, i) = EntryOf(r, i)
      BY <2>0, <3>2, MoveThread
    <3>4. session' = t /\ r = ruled
      BY <1>1, <1>4, <2>0
    <3> QED BY <3>1, <3>3, <3>4
  <2>2. Thread(session') = PathTo(session, target)
    BY <1>2, <1>4, <2>1
  <2>3. ASSUME session'.leaf = session.leaf PROVE SameThread(session, session')
    <3>1. Thread(session') = Thread(session)
      BY <2>1, <2>2, <2>3 DEF Thread
    <3>2. Thread(session) \subseteq Known(session)
      BY ThreadFacts
    <3> QED BY <1>2, <2>1, <3>1, <3>2 DEF SameThread, UsersOf
  <2> QED BY <1>2, <1>4, <2>1, <2>2, <2>3 DEF left
<1> QED BY <1>3, <1>4

(***************************************************************************)
(* Without a cache a navigation leaves nothing to be wrong; with one, it   *)
(* either stays on the thread or is recorded as having strayed.            *)
(***************************************************************************)
LEMMA NavigateWork ==
  ASSUME ThreadInv, Sound(session, nextId), NEW target \in Ids, Navigate(target)
  PROVE  ThreadInv'
<1>1. /\ Sound(session', nextId)
      /\ session'.leaf = session.leaf => SameThread(session, session')
  BY NavigateThread
<1>2. /\ ~inTurn /\ UNCHANGED <<nextId, inTurn, path, tier2, request, links>>
      /\ strayed' = (strayed \/ (tier2 # NoCache /\ session'.leaf # session.leaf))
      /\ Save(session') \/ UNCHANGED <<files, fails, behind>>
  BY DEF Navigate
<1>3. request' = NoRequest
  BY <1>2 DEF ThreadInv
<1>4. FilesRise' /\ fails' \in 0 .. MaxFails /\ behind' \in BOOLEAN
  <2>1. CASE Save(session')
    BY <1>1, <2>1, SavesRise DEF Sound
  <2>2. CASE UNCHANGED <<files, fails, behind>>
    BY <2>2 DEF ThreadInv, WorkOK, FilesRise, Rising
  <2> QED BY <1>2, <2>1, <2>2
<1>5. Rising(session)'
  BY <1>1, ThreadPrimed DEF Sound
<1>6. WorkOK'
  <2>1. strayed' \in BOOLEAN
    BY <1>2, Zenon
  <2>2. inTurn' \in BOOLEAN
    BY <1>2 DEF ThreadInv, WorkOK
  <2> QED BY <1>2, <1>4, <2>1, <2>2 DEF ThreadInv, WorkOK
<1>7. CacheOnThread'
  <2>1. CASE strayed'
    BY <2>1 DEF CacheOnThread
  <2>2. CASE tier2 = NoCache
    BY <1>2, <2>2, NothingDerived
  <2>3. CASE ~strayed' /\ tier2 # NoCache
    <3>1. session'.leaf = session.leaf /\ ~strayed
      BY <1>2, <2>3
    <3>2. SameThread(session, session')
      BY <1>1, <3>1
    <3>3. strayed' = strayed
      <4>1. strayed \in BOOLEAN
        BY DEF ThreadInv, WorkOK
      <4>2. strayed' \in BOOLEAN
        BY <1>2, Zenon
      <4> QED BY <2>3, <3>1, <4>1, <4>2
    <3> QED BY <1>2, <3>2, <3>3, SameThreadKept DEF ThreadInv
  <2> QED BY <2>1, <2>2, <2>3
<1>8. WorkingSetOnOneBranch'
  BY <1>3, NothingDerived
<1>9. RecordInv'
  BY RecordStep DEF Next, ThreadInv
<1>10. (~inTurn => request = NoRequest)'
  BY <1>3 DEF NoRequest
<1> QED BY <1>4, <1>5, <1>6, <1>7, <1>8, <1>9, <1>10 DEF ThreadInv

(***************************************************************************)
(* `reason link` marks the leaf of the thread (src/agent.rs).              *)
(***************************************************************************)
LEMMA LinkWork ==
  ASSUME ThreadInv, Sound(session, nextId), Link
  PROVE  ThreadInv'
<1>1. PICK t : t = Marked(session, {session.leaf}, Marks, "linked")
  OBVIOUS
<1>2. /\ inTurn /\ links < MaxLinks /\ links' = links + 1 /\ session' = t /\ Save(t)
      /\ UNCHANGED <<nextId, inTurn, path, tier2, request, strayed, appended>>
  BY <1>1 DEF Link
<1>3. Sound(t, nextId) /\ SameThread(session, t)
  BY <1>1, MarkThread DEF Marks
<1>4. FilesRise' /\ fails' \in 0 .. MaxFails /\ behind' \in BOOLEAN
  BY <1>2, <1>3, SavesRise DEF Sound
<1>5. Rising(session)'
  BY <1>2, <1>3, ThreadPrimed DEF Sound
<1>6. WorkOK'
  <2>1. links' \in 0 .. MaxLinks
    BY <1>2, SessionAssumption DEF ThreadInv, WorkOK
  <2> QED BY <1>2, <1>4, <2>1 DEF ThreadInv, WorkOK
<1>7. CacheOnThread' /\ WorkingSetOnOneBranch'
  BY <1>2, <1>3, SameThreadKept DEF ThreadInv
<1>8. RecordInv'
  BY RecordStep DEF Next, ThreadInv
<1> QED BY <1>2, <1>4, <1>5, <1>6, <1>7, <1>8 DEF ThreadInv

(***************************************************************************)
(* A session that is empty or comes from a file has no cache yet           *)
(* (src/agent.rs, Clear, resume_latest; a new process).                    *)
(***************************************************************************)
LEMMA FreshWork ==
  ASSUME ThreadInv, Clear \/ Resume \/ Restart
  PROVE  ThreadInv'
<1>1. tier2' = NoCache /\ strayed' = FALSE /\ behind' \in BOOLEAN /\ inTurn' = FALSE
  <2>1. CASE Clear
    BY <2>1 DEF Clear, Save, ThreadInv, WorkOK
  <2>2. CASE Resume
    BY <2>2 DEF Resume, ThreadInv, WorkOK
  <2>3. CASE Restart
    BY <2>3 DEF Restart
  <2> QED BY <2>1, <2>2, <2>3
<1>2. request' = NoRequest
  BY DEF Clear, Resume, Restart, ThreadInv
<1>3. EmptySession \in Session /\ Rising(EmptySession)
  <2>1. DOMAIN EmptySession.entries = {}
    BY DEF EmptySession
  <2> QED BY <2>1, EmptyTree DEF Rising
<1>4. FilesRise' /\ fails' \in 0 .. MaxFails /\ Rising(session)'
  <2>1. CASE Clear
    <3>1. Save(EmptySession) /\ session' = EmptySession
      BY <2>1 DEF Clear
    <3> QED BY <1>3, <3>1, SavesRise, ThreadPrimed
  <2>2. CASE Resume
    <3>1. Rising(files[newest]) /\ session' = files[newest]
      BY <2>2 DEF Resume, ThreadInv, RecordInv, RecordOK, FilesRise
    <3>2. FilesRise' /\ fails' \in 0 .. MaxFails
      BY <2>2 DEF Resume, ThreadInv, WorkOK, FilesRise, Rising
    <3> QED BY <3>1, <3>2, ThreadPrimed
  <2>3. CASE Restart
    <3>1. session' = EmptySession
      BY <2>3 DEF Restart
    <3>2. FilesRise' /\ fails' \in 0 .. MaxFails
      BY <2>3 DEF Restart, ThreadInv, WorkOK, FilesRise, Rising
    <3> QED BY <1>3, <3>1, <3>2, ThreadPrimed
  <2> QED BY <2>1, <2>2, <2>3
<1>5. WorkOK'
  <2>1. links' = links
    BY DEF Clear, Resume, Restart
  <2>2. /\ NoCache \in [last : Ids \cup {NoId}, covers : SUBSET Ids]
        /\ NoRequest \in [kept : SUBSET Ids, covers : SUBSET Ids]
    BY DEF NoCache, NoRequest
  <2> QED BY <1>1, <1>2, <1>4, <2>1, <2>2 DEF ThreadInv, WorkOK
<1>6. RecordInv'
  BY RecordStep DEF Next, ThreadInv
<1>7. (~inTurn => request = NoRequest)'
  BY <1>2 DEF NoRequest
<1> QED BY <1>1, <1>2, <1>4, <1>5, <1>6, <1>7, NothingDerived DEF ThreadInv

(***************************************************************************)
(* The steps that leave the session alone (src/agent.rs).                  *)
(***************************************************************************)
LEMMA QuietWork ==
  ASSUME ThreadInv, Sound(session, nextId), EndTurn \/ DeriveWhole \/ UNCHANGED vars
  PROVE  ThreadInv'
<1>1. UNCHANGED <<session, files, tier2, strayed, links, fails, behind>>
  BY DEF EndTurn, DeriveWhole, vars
<1>2. \/ request' = NoRequest
      \/ request' = WholeThread /\ inTurn' = TRUE
      \/ request' = request /\ inTurn' = inTurn
  <2>1. CASE DeriveWhole
    <3>1. inTurn /\ inTurn' = inTurn /\ request' = WholeThread
      BY <2>1 DEF DeriveWhole
    <3>2. inTurn \in BOOLEAN
      BY DEF ThreadInv, WorkOK
    <3>3. inTurn' = TRUE
      BY <3>1, <3>2
    <3> QED BY <3>1, <3>3
  <2> QED BY <2>1 DEF EndTurn, vars
<1>3. Thread(session)' = Thread(session) /\ UsersOf(session)' = UsersOf(session)
  BY <1>1, ThreadPrimed
<1>4. CacheOnThread'
  <2>1. CacheFits(tier2, Thread(session), UsersOf(session))'
           <=> CacheFits(tier2', Thread(session)', UsersOf(session)')
    BY DEF CacheFits, Least
  <2> QED BY <1>1, <1>3, <2>1 DEF ThreadInv, CacheOnThread
<1>5. WorkingSetOnOneBranch'
  <2>1. CASE request' = NoRequest
    BY <2>1, NothingDerived
  <2>2. CASE request' = WholeThread
    <3>1. request'.kept = Thread(session) /\ request'.covers = {}
      BY <2>2 DEF WholeThread
    <3> QED BY <1>3, <3>1 DEF WorkingSetOnOneBranch, WorkingSetFaithful
  <2>3. CASE request' = request
    BY <1>1, <1>3, <2>3 DEF ThreadInv, WorkingSetOnOneBranch, WorkingSetFaithful
  <2> QED BY <1>2, <2>1, <2>2, <2>3
<1>6. WorkOK'
  <2>1. request' \in [kept : SUBSET Ids, covers : SUBSET Ids]
    <3>1. Thread(session) \subseteq Ids
      BY ThreadFacts
    <3> QED BY <1>2, <3>1 DEF NoRequest, WholeThread, ThreadInv, WorkOK
  <2>2. inTurn' \in BOOLEAN
    BY DEF EndTurn, DeriveWhole, vars, ThreadInv, WorkOK
  <2> QED BY <1>1, <2>1, <2>2 DEF ThreadInv, WorkOK
<1>7. RecordInv'
  BY RecordStep DEF Next, ThreadInv
<1>8. Rising(session)' /\ FilesRise'
  BY <1>1 DEF ThreadInv, Rising, FilesRise
<1>9. (~inTurn => request = NoRequest)'
  <2>1. ~inTurn' => request' = NoRequest
    BY <1>2 DEF ThreadInv
  <2> QED BY <2>1 DEF NoRequest
<1> QED BY <1>4, <1>5, <1>6, <1>7, <1>8, <1>9 DEF ThreadInv

(***************************************************************************)
(* Every step keeps the invariant.                                         *)
(***************************************************************************)
LEMMA ThreadStep ==
  ASSUME ThreadInv, [Next]_vars
  PROVE  ThreadInv'
<1>1. Sound(session, nextId)
  BY DEF ThreadInv, RecordInv, RecordOK, Sound
<1>2. CASE Prompt \/ Exchange
  <2>1. Next
    BY <1>2 DEF Next
  <2>2. \E role \in Roles : AppendMessage(role) /\ inTurn' = TRUE
    <3>1. inTurn \in BOOLEAN /\ "user" \in Roles
      BY DEF ThreadInv, WorkOK, Roles
    <3>2. CASE Prompt
      BY <3>1, <3>2 DEF Prompt
    <3>3. CASE Exchange
      <4>1. inTurn /\ inTurn' = inTurn /\ \E role \in Roles : AppendMessage(role)
        BY <3>3 DEF Exchange
      <4>2. inTurn' = TRUE
        BY <3>1, <4>1
      <4> QED BY <4>1, <4>2
    <3> QED BY <1>2, <3>2, <3>3
  <2> QED BY <1>1, <2>1, <2>2, AppendWork
<1>3. CASE Link
  BY <1>1, <1>3, LinkWork
<1>4. CASE \E target \in Ids : Navigate(target)
  BY <1>1, <1>4, NavigateWork
<1>5. CASE Clear \/ Resume \/ Restart
  BY <1>5, FreshWork
<1>6. CASE DeriveSummary
  BY <1>1, <1>6, DeriveStep
<1>7. CASE EndTurn \/ DeriveWhole \/ UNCHANGED vars
  BY <1>1, <1>7, QuietWork
<1> QED BY <1>2, <1>3, <1>4, <1>5, <1>6, <1>7 DEF Next

(***************************************************************************)
(* The inductive invariant of the record and of the working set.           *)
(***************************************************************************)
THEOREM ThreadInvHolds == Spec => []ThreadInv
<1>1. RecordInv /\ Init => ThreadInv
  <2> SUFFICES ASSUME RecordInv, Init PROVE ThreadInv
    OBVIOUS
  <2>1. WorkOK
    <3>1. /\ NoCache \in [last : Ids \cup {NoId}, covers : SUBSET Ids]
          /\ NoRequest \in [kept : SUBSET Ids, covers : SUBSET Ids]
      BY DEF NoCache, NoRequest
    <3>2. 0 \in 0 .. MaxLinks /\ 0 \in 0 .. MaxFails
      BY SessionAssumption
    <3> QED BY <3>1, <3>2 DEF Init, WorkOK
  <2>2. Rising(session) /\ FilesRise
    <3>1. DOMAIN session.entries = {}
      BY DEF Init, EmptySession
    <3>2. \A f \in 1 .. MaxFiles : files[f] = NoFile
      BY DEF Init
    <3> QED BY <3>1, <3>2 DEF Rising, FilesRise
  <2>3. CacheOnThread /\ WorkingSetOnOneBranch
    BY DEF Init, CacheOnThread, WorkingSetOnOneBranch, WorkingSetFaithful
  <2>4. request = NoRequest
    BY DEF Init
  <2> QED BY <2>1, <2>2, <2>3, <2>4 DEF ThreadInv
<1> QED BY <1>1, ThreadStep, RecordInvHolds, PTL DEF Spec

(***************************************************************************)
(* Every variable has its type (src/session.rs, src/agent.rs).             *)
(***************************************************************************)
THEOREM SessionTypeCorrect == Spec => []TypeOK
<1>1. ThreadInv => TypeOK
  BY SessionAssumption DEF ThreadInv, RecordInv, RecordOK, WorkOK, TypeOK
<1> QED BY <1>1, ThreadInvHolds, PTL

(***************************************************************************)
(* What the provider is sent stands for the active thread, no message both *)
(* kept and summarized, unless a cached summary was carried to another     *)
(* branch (src/agent.rs, context_working_set).                             *)
(***************************************************************************)
THEOREM WorkingSetOnOneBranchHolds == Spec => []WorkingSetOnOneBranch
<1>1. ThreadInv => WorkingSetOnOneBranch
  BY DEF ThreadInv
<1> QED BY <1>1, ThreadInvHolds, PTL

(***************************************************************************)
(* Navigation to another branch rules out the linked entries it leaves,    *)
(* and no others.  That handle_navigate does nothing at the oldest entry   *)
(* and with a single one is right: there is nothing to leave               *)
(* (src/agent.rs).                                                         *)
(***************************************************************************)
LEMMA LeavesTheBranch ==
  ASSUME Sound(session, nextId), NEW target \in Ids, Navigate(target),
         session'.leaf # session.leaf
  PROVE  RuledOut(session') \ RuledOut(session)
           = Linked(session) \cap (Thread(session) \ Thread(session'))
<1>1. PICK left : left = IF session.leaf \notin {NoId, 0} /\ Len(session.entries) > 1
                         THEN Abandoned(session, target) ELSE {}
  OBVIOUS
<1>2. /\ Known(session') = Known(session) /\ target \in Known(session)
      /\ target # session.leaf /\ Thread(session') = PathTo(session, target)
      /\ \A i \in Known(session) :
           EntryOf(session', i).mark =
             IF i \in left /\ EntryOf(session, i).mark \in {"linked"}
             THEN "ruled_out" ELSE EntryOf(session, i).mark
  BY <1>1, NavigateThread
<1>3. RuledOut(session') \ RuledOut(session) = Linked(session) \cap left
  BY <1>2 DEF RuledOut, Linked
<1>4. PICK leaf, way : leaf = session.leaf /\ way = PathTo(session, target)
  OBVIOUS
<1>5. /\ Upward(session) /\ Known(session) \subseteq Ids /\ Ids \subseteq Nat /\ NoId \notin Ids
      /\ leaf \in Known(session) \cup {NoId} /\ Thread(session) \subseteq Known(session)
      /\ leaf = NoId => Thread(session) = {}
  BY <1>4, ThreadFacts, SessionAssumption DEF Ids, NoId
<1>6. target \in way
  BY <1>2, <1>4, <1>5, PathUnfolds
<1>7. CASE leaf \notin {NoId, 0} /\ Len(session.entries) > 1
  <2>1. left = Thread(session) \ way
    BY <1>1, <1>4, <1>6, <1>7 DEF Abandoned
  <2> QED BY <1>2, <1>3, <1>4, <2>1
<1>8. CASE ~(leaf \notin {NoId, 0} /\ Len(session.entries) > 1)
  <2>1. left = {}
    BY <1>1, <1>4, <1>8
  <2>2. Thread(session) \subseteq way
    <3>1. CASE leaf = NoId
      BY <1>5, <3>1
    <3>2. CASE leaf = 0
      <4>1. 0 \in Known(session)
        BY <1>5, <3>2 DEF NoId
      <4>2. Parent(session, 0) = NoId
        <5>1. Parent(session, 0) \in Known(session) \cup {NoId} /\ Parent(session, 0) < 0
          BY <1>5, <4>1 DEF Upward
        <5>2. Known(session) \subseteq Nat
          BY <1>5
        <5>3. \A i \in Nat : ~(i < 0)
          OBVIOUS
        <5> QED BY <5>1, <5>2, <5>3, Zenon
      <4>3. PathTo(session, NoId) = {}
        BY <1>5, PathUnfolds
      <4>4. Thread(session) = {0}
        BY <1>4, <1>5, <3>2, <4>1, <4>2, <4>3, PathUnfolds DEF Thread
      <4>5. \A i \in Known(session) :
              Parent(session, i) = NoId => \A j \in Known(session) : i <= j
        BY TreeUpward DEF Sound
      <4>6. 0 \in way
        BY <1>2, <1>4, <1>5, <4>1, <4>5, RootOnPath
      <4> QED BY <4>4, <4>6
    <3>3. CASE leaf # NoId /\ ~(Len(session.entries) > 1)
      <4>1. PICK k \in DOMAIN session.entries, l \in DOMAIN session.entries :
              session.entries[k].id = leaf /\ session.entries[l].id = target
        BY <1>2, <1>5, <3>3 DEF Known
      <4>2. k = 1 /\ l = 1
        BY <3>3, <4>1, SessionFacts DEF Sound
      <4> QED BY <1>2, <1>4, <4>1, <4>2
    <3> QED BY <1>8, <3>1, <3>2, <3>3
  <2> QED BY <1>2, <1>3, <1>4, <2>1, <2>2
<1> QED BY <1>7, <1>8

(***************************************************************************)
(* Whatever moves the leaf among the same entries rules out exactly the    *)
(* linked entries that leave the thread (src/agent.rs, handle_navigate).   *)
(***************************************************************************)
THEOREM RuledOutExactlyHolds == Spec => RuledOutExactly
<1> DEFINE Moves == /\ Known(session') = Known(session) /\ session'.leaf # session.leaf
                    /\ nextId' = nextId /\ <<files', fails'>> # <<files, fails>>
           Exact == RuledOut(session') \ RuledOut(session)
                      = Linked(session) \cap (Thread(session) \ Thread(session'))
<1>1. ThreadInv /\ [Next]_vars => [Moves => Exact]_vars
  <2> SUFFICES ASSUME ThreadInv, Next, Moves PROVE Exact
    OBVIOUS
  <2> HIDE DEF Exact
  <2>1. Sound(session, nextId) /\ nextId \in Nat
    BY SessionAssumption DEF ThreadInv, RecordInv, RecordOK, Sound
  <2>2. CASE Prompt \/ Exchange
    <3>1. nextId' = nextId + 1
      BY <2>2 DEF Prompt, Exchange, AppendMessage
    <3> QED BY <2>1, <3>1
  <2>3. CASE Link
    <3>1. session' = Marked(session, {session.leaf}, Marks, "linked")
      BY <2>3 DEF Link
    <3>2. session'.leaf = session.leaf
      BY <2>1, <3>1, MarkThread DEF Marks
    <3> QED BY <3>2
  <2>4. ASSUME NEW target \in Ids, Navigate(target) PROVE Exact
    BY <2>1, <2>4, LeavesTheBranch DEF Exact
  <2>5. CASE Clear
    <3>1. session' = EmptySession
      BY <2>5 DEF Clear
    <3>2. Known(session') = {} /\ session'.leaf = NoId
      BY <3>1 DEF EmptySession, Known
    <3>3. session.leaf \in Known(session) \cup {NoId}
      BY <2>1, ThreadFacts
    <3> QED BY <3>2, <3>3
  <2>6. CASE Resume \/ Restart \/ EndTurn \/ DeriveWhole \/ DeriveSummary
    BY <2>6 DEF Resume, Restart, EndTurn, DeriveWhole, DeriveSummary
  <2> QED BY <2>2, <2>3, <2>4, <2>5, <2>6 DEF Next
<1> QED BY <1>1, ThreadInvHolds, PTL DEF Spec, RuledOutExactly
=============================================================================
