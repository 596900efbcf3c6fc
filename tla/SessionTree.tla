---------------------------- MODULE SessionTree ----------------------------
(***************************************************************************)
(* The record of a conversation (src/session.rs) and the working set       *)
(* derived from it for the provider (src/compaction.rs), as one agent uses *)
(* them: AgentLoop::append, handle_navigate, resume_latest, the Clear      *)
(* command and context_working_set in src/agent.rs.                        *)
(*                                                                         *)
(* A session is a tree of entries with parent pointers, stored in the      *)
(* order of insertion, and a leaf: the end of the active thread.  It is    *)
(* saved, best effort, after every change.  When the thread is too long    *)
(* its middle is replaced by a summary made from the messages and, if      *)
(* there is one, from the cached summary (Tier2Summary).                   *)
(*                                                                         *)
(* A message is its id and whether a user wrote it; a summary is the set   *)
(* of the messages it was made from.  Whether the thread is over the       *)
(* window's threshold depends on the texts and is chosen freely.           *)
(***************************************************************************)
EXTENDS Integers, Sequences, FiniteSets

CONSTANTS MaxEntries,   \* bound: messages appended, all together
          MaxLinks,     \* bound: uses of `reason link`
          MaxFiles,     \* bound: session files, one for each process
          MaxFails      \* bound: saves that fail

ASSUME SessionAssumption ==
  /\ MaxEntries \in Nat /\ MaxLinks \in Nat
  /\ MaxFiles \in Nat \ {0} /\ MaxFails \in Nat

VARIABLES
  session,    \* the session in memory: entries and leaf
  nextId,     \* next_id
  inTurn,     \* a turn is running: commands wait for its end
  path,       \* session_path, as the number of the process that created it
  files,      \* sessions/*.json, by number
  newest,     \* the file modified last, 0 for none
  tier2,      \* the cached summary
  request,    \* the working set just derived, until the thread changes
  strayed,    \* history: navigated since the cache was made from one thread
  appended,   \* history: messages appended
  links,      \* history: uses of `reason link`
  fails,      \* history: saves that failed
  behind      \* history: the last save failed

vars == <<session, nextId, inTurn, path, files, newest, tier2, request,
          strayed, appended, links, fails, behind>>

NoId == -1
Ids == 0 .. MaxEntries - 1
Roles == {"user", "other"}
\* The causal mark of an entry: linked to a node by `reason link`, ruled out
\* when its branch was abandoned.
Marks == {"none", "linked", "ruled_out"}

Entry == [id : Ids, parent : Ids \cup {NoId}, role : Roles, mark : Marks]
Session == [entries : Seq(Entry), leaf : Ids \cup {NoId}]
EmptySession == [entries |-> <<>>, leaf |-> NoId]

NoFile == [entries |-> <<>>, leaf |-> NoId - 1]
NoCache == [last |-> NoId, covers |-> {}]
NoRequest == [kept |-> {}, covers |-> {}]

-----------------------------------------------------------------------------
\* The session as a value.

Known(s) == {s.entries[i].id : i \in DOMAIN s.entries}

EntryOf(s, id) ==
  s.entries[CHOOSE i \in DOMAIN s.entries : s.entries[i].id = id]

\* The ids from id up to the root: parents are older than their children.
PathTo(s, id) ==
  LET up[i \in Ids \cup {NoId}] ==
        IF i \notin Known(s) THEN {} ELSE {i} \cup up[EntryOf(s, i).parent]
  IN  up[id]

\* active_thread, as the set of its ids: they increase along the thread.
Thread(s) == PathTo(s, s.leaf)

Greatest(S) == CHOOSE i \in S : \A j \in S : j <= i
Least(S) == CHOOSE i \in S : \A j \in S : i <= j

Appended(s, id, role) ==
  [entries |-> Append(s.entries, [id |-> id, parent |-> s.leaf, role |-> role,
                                  mark |-> "none"]),
   leaf |-> id]

\* Mutant: one too far.
NextMessageIdSkips(s) ==
  IF s.entries = <<>> THEN 0 ELSE Greatest(Known(s)) + 2

\* next_message_id, over all branches.
NextMessageId(s) == IF s.entries = <<>> THEN 0 ELSE Greatest(Known(s)) + 1

\* Mutant: everything on the thread counts as abandoned.
AbandonedAll(s, target) == Thread(s) \ {target}

\* abandoned_branch, whose target's path holds the target even if unknown.
Abandoned(s, target) == Thread(s) \ ({target} \cup PathTo(s, target))

Marked(s, ids, from, to) ==
  [s EXCEPT !.entries = [i \in DOMAIN @ |->
     IF @[i].id \in ids /\ @[i].mark \in from
     THEN [@[i] EXCEPT !.mark = to] ELSE @[i]]]

-----------------------------------------------------------------------------
Init ==
  /\ session = EmptySession
  /\ nextId = 0
  /\ inTurn = FALSE
  /\ path = 1
  /\ files = [f \in 1 .. MaxFiles |-> NoFile]
  /\ newest = 0
  /\ tier2 = NoCache
  /\ request = NoRequest
  /\ strayed = FALSE
  /\ appended = 0
  /\ links = 0
  /\ fails = 0
  /\ behind = FALSE

\* Session::save under `let _ =`: a failure goes unnoticed.
Save(s) ==
  \/ /\ files' = [files EXCEPT ![path] = s]
     /\ newest' = path
     /\ behind' = FALSE
     /\ UNCHANGED fails
  \/ /\ fails < MaxFails                                         \* bound
     /\ fails' = fails + 1
     /\ behind' = TRUE
     /\ UNCHANGED <<files, newest>>

\* Mutant: the id follows the leaf's.
AppendAfterLeaf(role) ==
  /\ appended < MaxEntries
  /\ appended' = appended + 1
  /\ session' = Appended(session, session.leaf + 1, role)
  /\ nextId' = session.leaf + 2
  /\ request' = NoRequest
  /\ Save(session')
  /\ UNCHANGED <<path, tier2, strayed, links>>

AppendMessage(role) ==
  /\ appended < MaxEntries                                       \* bound
  /\ appended' = appended + 1
  /\ session' = Appended(session, nextId, role)
  /\ nextId' = nextId + 1
  /\ request' = NoRequest
  /\ Save(session')
  /\ UNCHANGED <<path, tier2, strayed, links>>

\* process_turn begins with the user's message.
Prompt == ~inTurn /\ inTurn' = TRUE /\ AppendMessage("user")

\* A reply, results, a notification; or steering, in the user's name.
Exchange == inTurn /\ UNCHANGED inTurn /\ \E role \in Roles : AppendMessage(role)

EndTurn ==
  /\ inTurn
  /\ inTurn' = FALSE
  /\ request' = NoRequest
  /\ UNCHANGED <<session, nextId, path, files, newest, tier2, strayed,
                 appended, links, fails, behind>>

\* apply_session_meta_mark: `reason link` marks the leaf.
Link ==
  /\ inTurn
  /\ links < MaxLinks                                            \* bound
  /\ links' = links + 1
  /\ session' = Marked(session, {session.leaf}, Marks, "linked")
  /\ Save(session')
  /\ UNCHANGED <<nextId, inTurn, path, tier2, request, strayed, appended>>

(***************************************************************************)
(* handle_navigate: the linked entries that are left behind are ruled out, *)
(* then the leaf moves if the target exists.  Only then is it saved.       *)
(***************************************************************************)
Navigate(target) ==
  LET left == IF session.leaf \notin {NoId, 0} /\ Len(session.entries) > 1
              THEN Abandoned(session, target) ELSE {}
      ruled == Marked(session, left, {"linked"}, "ruled_out")
  IN  /\ ~inTurn
      /\ IF target \in Known(session)
         THEN session' = [ruled EXCEPT !.leaf = target] /\ Save(session')
         ELSE session' = ruled /\ UNCHANGED <<files, newest, fails, behind>>
      /\ strayed' = (strayed \/ (tier2 # NoCache /\ session'.leaf # session.leaf))
      /\ UNCHANGED <<nextId, inTurn, path, tier2, request, appended, links>>

\* AgentCommand::Clear.
Clear ==
  /\ ~inTurn
  /\ session' = EmptySession
  /\ nextId' = 0
  /\ tier2' = NoCache
  /\ strayed' = FALSE
  /\ Save(session')
  /\ UNCHANGED <<inTurn, path, request, appended, links>>

\* Mutant: the next save goes to this process's own file.
ResumeElsewhere ==
  /\ ~inTurn /\ newest # 0
  /\ session' = files[newest]
  /\ nextId' = NextMessageId(files[newest])
  /\ tier2' = NoCache
  /\ strayed' = FALSE
  /\ behind' = FALSE
  /\ UNCHANGED <<inTurn, path, files, newest, request, appended, links, fails>>

\* resume_latest, when the file loads; when it does not nothing changes.
Resume ==
  /\ ~inTurn /\ newest # 0
  /\ session' = files[newest]
  /\ nextId' = NextMessageId(files[newest])
  /\ path' = newest
  /\ tier2' = NoCache
  /\ strayed' = FALSE
  /\ behind' = FALSE
  /\ UNCHANGED <<inTurn, files, newest, request, appended, links, fails>>

\* The process dies, at any point, and another starts with a file of its own.
Restart ==
  /\ \E f \in path + 1 .. MaxFiles :                             \* bound
       files[f] = NoFile /\ path' = f
  /\ session' = EmptySession
  /\ nextId' = 0
  /\ inTurn' = FALSE
  /\ tier2' = NoCache
  /\ request' = NoRequest
  /\ strayed' = FALSE
  /\ behind' = FALSE
  /\ UNCHANGED <<files, newest, appended, links, fails>>

-----------------------------------------------------------------------------
\* context_working_set.

Users == {i \in Thread(session) : EntryOf(session, i).role = "user"}

\* summary_span: between the first user message, the anchor, and the last.
Span == IF Users = {} THEN {}
        ELSE {i \in Thread(session) : Least(Users) < i /\ i < Greatest(Users)}

\* Mutant: off by one.
IncrementLate ==
  LET new == {i \in Span : i > tier2.last + 1}
  IN  IF new = {} THEN Span ELSE new

\* The part of the span that the cached summary does not cover yet; if there
\* is none, all of it.
Increment ==
  LET new == {i \in Span : i > tier2.last}
  IN  IF new = {} THEN Span ELSE new

WholeThread == [kept |-> Thread(session), covers |-> {}]

\* Below the threshold, nothing to summarize, or the summary call fails.
DeriveWhole ==
  /\ inTurn
  /\ request' = WholeThread
  /\ UNCHANGED <<session, nextId, inTurn, path, files, newest, tier2, strayed,
                 appended, links, fails, behind>>

\* The summary replaces the messages after the anchor up to covered_last_id.
DeriveSummary ==
  /\ inTurn /\ Span # {}
  /\ LET last == Greatest(Span)
         reuse == tier2 # NoCache /\ tier2.last = last
         grown == tier2 # NoCache /\ tier2.last < last
         covers == IF reuse THEN tier2.covers
                   ELSE IF grown THEN tier2.covers \cup Increment
                   ELSE Span
     IN  /\ tier2' = [last |-> last, covers |-> covers]
         /\ request' = [kept |-> Thread(session) \ Span, covers |-> covers]
         /\ strayed' = (strayed /\ (reuse \/ grown))
  /\ UNCHANGED <<session, nextId, inTurn, path, files, newest, appended, links,
                 fails, behind>>

Next ==
  \/ Prompt \/ Exchange \/ EndTurn \/ Link
  \/ \E target \in Ids : Navigate(target)
  \/ Clear \/ Resume \/ Restart
  \/ DeriveWhole \/ DeriveSummary

Spec == Init /\ [][Next]_vars

-----------------------------------------------------------------------------
(***************************************************************************)
(* The type invariant.                                                     *)
(***************************************************************************)
TypeOK ==
  /\ session \in Session
  /\ nextId \in 0 .. MaxEntries
  /\ inTurn \in BOOLEAN
  /\ path \in 1 .. MaxFiles
  /\ files \in [1 .. MaxFiles -> Session \cup {NoFile}]
  /\ newest \in 0 .. MaxFiles
  /\ tier2 \in [last : Ids \cup {NoId}, covers : SUBSET Ids]
  /\ request \in [kept : SUBSET Ids, covers : SUBSET Ids]
  /\ strayed \in BOOLEAN
  /\ appended \in 0 .. MaxEntries
  /\ links \in 0 .. MaxLinks
  /\ fails \in 0 .. MaxFails
  /\ behind \in BOOLEAN

(***************************************************************************)
(* A session is a tree: ids are unique and never reused over branches,     *)
(* parents exist and are older, the leaf exists.  The active thread and    *)
(* the id comparisons of the compaction rely on it, whatever was           *)
(* navigated, cleared, resumed or lost.                                    *)
(***************************************************************************)
Tree(s, next) ==
  /\ \A i, j \in DOMAIN s.entries :
       s.entries[i].id = s.entries[j].id => i = j
  /\ \A i \in DOMAIN s.entries :
       /\ s.entries[i].id < next
       /\ \/ s.entries[i].parent = NoId /\ i = 1
          \/ \E j \in 1 .. i - 1 : s.entries[i].parent = s.entries[j].id
  /\ s.leaf = NoId <=> s.entries = <<>>
  /\ s.leaf # NoId => s.leaf \in Known(s)

TreeSound ==
  /\ Tree(session, nextId)
  /\ \A f \in DOMAIN files : files[f] # NoFile => Tree(files[f], MaxEntries)

(***************************************************************************)
(* ADR 0004's autosave: unless the last save failed, the session's own     *)
(* file is the session in memory, branches included, so that a process     *)
(* that dies loses nothing.  (Causal marks are left out: navigating to an  *)
(* unknown id changes them without a save.)                                *)
(***************************************************************************)
Unmarked(s) == Marked(s, Ids, Marks, "none")

SaveIsCurrent ==
  ~behind /\ session # EmptySession =>
    /\ files[path] # NoFile
    /\ Unmarked(files[path]) = Unmarked(session)

(***************************************************************************)
(* Moving to another branch rules out exactly the linked entries that are  *)
(* on the thread before and not after.  (Only navigation moves the leaf    *)
(* among the same entries and saves.)                                      *)
(***************************************************************************)
RuledOut(s) == {i \in Known(s) : EntryOf(s, i).mark = "ruled_out"}
Linked(s) == {i \in Known(s) : EntryOf(s, i).mark = "linked"}

RuledOutExactly ==
  [][Known(session') = Known(session) /\ session'.leaf # session.leaf
       /\ nextId' = nextId /\ <<files', fails'>> # <<files, fails>> =>
       RuledOut(session') \ RuledOut(session)
         = Linked(session) \cap (Thread(session) \ Thread(session'))]_vars

(***************************************************************************)
(* ADR 0023: the working set stands for the active thread: what is not in  *)
(* it is in the summary, and the summary is made of nothing else.          *)
(***************************************************************************)
WorkingSetFaithful ==
  request # NoRequest =>
    /\ request.kept \cup request.covers = Thread(session)
    /\ request.kept \cap request.covers = {}

(***************************************************************************)
(* That holds as long as the cached summary has not been carried over to   *)
(* another branch.                                                         *)
(***************************************************************************)
WorkingSetOnOneBranch == ~strayed => WorkingSetFaithful
=============================================================================
