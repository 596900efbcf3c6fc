------------------------------ MODULE Worktrees -----------------------------
(***************************************************************************)
(* enter_worktree and exit_worktree (src/tool/worktree.rs): one list of    *)
(* entries in memory for all agents of the process, and git commands that  *)
(* take effect one at a time.  A branch is the set of commits on it; the   *)
(* merge of a branch may conflict and leave the checkout in the middle of  *)
(* a merge, which only a person ends.                                      *)
(***************************************************************************)
EXTENDS Naturals

CONSTANTS Agents, Names,
          MaxCommits,    \* bound: commits of a checked run
          MaxEntries     \* bound: worktrees entered in a checked run

WorktreeAssumption == MaxCommits \in Nat /\ MaxEntries \in Nat

VARIABLES
  entries,    \* WORKTREE_STORE: <<id, name>>, the ids in the order of their creation
  nextEntry,
  dir,        \* per name: "absent", "clean" or "dirty" under .worktrees
  branch,     \* per name: the commits of feat/name, or NoBranch
  base,       \* the commits of the base branch
  commits,    \* commits made so far
  merging,    \* the checkout is in the middle of a merge
  doing,      \* per agent: the exit under way
  discarded,  \* history: commits on a branch when discard was chosen
  exposed,    \* history: commits made on a branch that an exit is taking away
  reused,     \* history: a name was entered again during an exit of it
  stranded    \* history: the names whose branch git would not delete

treeVars == <<entries, nextEntry, dir, branch, base, commits, merging, doing,
              discarded, exposed, reused, stranded>>

NoBranch == {0}
NoExit == [id |-> 0, name |-> CHOOSE n \in Names : TRUE, at |-> "none"]

Present(n) == branch[n] # NoBranch

Init ==
  /\ entries = {} /\ nextEntry = 1
  /\ dir = [n \in Names |-> "absent"] /\ branch = [n \in Names |-> NoBranch]
  /\ base = {} /\ commits = 0 /\ merging = FALSE
  /\ doing = [a \in Agents |-> NoExit]
  /\ discarded = {} /\ exposed = {} /\ reused = FALSE /\ stranded = {}

\* EnterWorktree: refused when the directory is there, and by git when the
\* branch is.
EnterWorktree ==
  /\ nextEntry <= MaxEntries                             \* bound
  /\ \E n \in Names :
       /\ dir[n] = "absent" /\ ~Present(n)
       /\ dir' = [dir EXCEPT ![n] = "clean"]
       /\ branch' = [branch EXCEPT ![n] = base]
       /\ entries' = entries \cup {<<nextEntry, n>>}
       /\ reused' = (reused \/ \E a \in Agents : doing[a].at # "none" /\ doing[a].name = n)
  /\ nextEntry' = nextEntry + 1
  /\ UNCHANGED <<base, commits, merging, doing, discarded, exposed, stranded>>

Leaving(n) == \E a \in Agents :
  doing[a].name = n /\ doing[a].at \in {"remove", "delete"}

\* External: an agent's commands edit and commit inside a worktree.
Edit ==
  /\ \E n \in Names : dir[n] = "clean" /\ dir' = [dir EXCEPT ![n] = "dirty"]
  /\ UNCHANGED <<entries, nextEntry, branch, base, commits, merging, doing,
                 discarded, exposed, reused, stranded>>

Commit ==
  /\ commits < MaxCommits                                \* bound
  /\ \E n \in Names :
       /\ dir[n] = "dirty" /\ dir' = [dir EXCEPT ![n] = "clean"]
       /\ branch' = [branch EXCEPT ![n] = @ \cup {commits + 1}]
       /\ exposed' = IF Leaving(n) THEN exposed \cup {commits + 1} ELSE exposed
  /\ commits' = commits + 1
  /\ UNCHANGED <<entries, nextEntry, base, merging, doing, discarded, reused, stranded>>

Latest(e) == \A f \in entries : f[1] <= e[1]

\* ExitWorktree takes the last entry of the list, whoever made it.
ExitWorktree(a) ==
  /\ ~reused             \* bound: a checked run ends soon after a name is reused
  /\ doing[a] = NoExit
  /\ \E e \in entries, act \in {"merge", "discard"} :
       /\ Latest(e)
       /\ doing' = [doing EXCEPT ![a] =
            [id |-> e[1], name |-> e[2],
             at |-> IF act = "merge" THEN "merge" ELSE "remove"]]
       /\ discarded' = IF act = "discard" THEN discarded \cup branch[e[2]] ELSE discarded
  /\ UNCHANGED <<entries, nextEntry, dir, branch, base, commits, merging, exposed, reused, stranded>>

Without(id) == {e \in entries : e[1] # id}

ExitKeep ==
  /\ \E e \in entries : Latest(e) /\ entries' = Without(e[1])
  /\ UNCHANGED <<nextEntry, dir, branch, base, commits, merging, doing,
                 discarded, exposed, reused, stranded>>

Go(a, at) == doing' = [doing EXCEPT ![a].at = at]
Stop(a) == doing' = [doing EXCEPT ![a] = NoExit]

\* Mutant: a conflict does not stop the sequence.
MergeGoesOn(a) ==
  LET n == doing[a].name
  IN /\ doing[a].at = "merge"
     /\ merging' = (merging \/ ~(branch[n] \subseteq base)) /\ base' = base
     /\ Go(a, "remove")
  /\ UNCHANGED <<entries, nextEntry, dir, branch, commits, discarded, exposed, reused, stranded>>

\* git checkout base, git merge branch: the rest runs only if both succeed.
Merge(a) ==
  LET n == doing[a].name
  IN /\ doing[a].at = "merge"
     /\ \/ /\ ~merging /\ Present(n)
           /\ base' = base \cup branch[n] /\ merging' = FALSE /\ Go(a, "remove")
        \/ /\ ~merging /\ Present(n) /\ ~(branch[n] \subseteq base)  \* a conflict
           /\ merging' = TRUE /\ base' = base /\ Stop(a)
        \/ Stop(a) /\ UNCHANGED <<base, merging>>                   \* git refuses
  /\ UNCHANGED <<entries, nextEntry, dir, branch, commits, discarded, exposed, reused, stranded>>

\* git worktree remove refuses a directory with uncommitted changes, and may fail.
RemoveDir(a) ==
  LET n == doing[a].name
  IN /\ doing[a].at = "remove"
     /\ \/ dir[n] = "clean" /\ dir' = [dir EXCEPT ![n] = "absent"] /\ Go(a, "delete")
        \/ dir' = dir /\ Stop(a)
  /\ UNCHANGED <<entries, nextEntry, branch, base, commits, merging,
                 discarded, exposed, reused, stranded>>

\* git branch -D, after which the entry goes; when it fails the entry stays,
\* its directory gone.
DeleteBranch(a) ==
  LET n == doing[a].name
  IN /\ doing[a].at = "delete" /\ Stop(a)
     /\ \/ /\ Present(n)
           /\ branch' = [branch EXCEPT ![n] = NoBranch] /\ entries' = Without(doing[a].id)
           /\ UNCHANGED stranded
        \/ stranded' = stranded \cup {n} /\ UNCHANGED <<branch, entries>>
  /\ UNCHANGED <<nextEntry, dir, base, commits, merging, discarded, exposed, reused>>

\* External: a person settles the conflict, with the branch or without it.
Resolve ==
  /\ merging /\ merging' = FALSE
  /\ UNCHANGED <<entries, nextEntry, dir, branch, base, commits, doing,
                 discarded, exposed, reused, stranded>>

\* The process restarts: the list and the exits under way are gone.
Restart ==
  /\ entries' = {} /\ doing' = [a \in Agents |-> NoExit]
  /\ UNCHANGED <<nextEntry, dir, branch, base, commits, merging,
                 discarded, exposed, reused, stranded>>

Next ==
  \/ EnterWorktree \/ Edit \/ Commit \/ ExitKeep \/ Resolve \/ Restart
  \/ \E a \in Agents : ExitWorktree(a) \/ Merge(a) \/ RemoveDir(a) \/ DeleteBranch(a)

Spec == Init /\ [][Next]_treeVars

-----------------------------------------------------------------------------
(***************************************************************************)
(* While no name is entered again during an exit of it, a commit is lost   *)
(* only through a discard or by being made between the merge and the       *)
(* deletion of its branch; and whatever exits race, restart or fail, an    *)
(* entry of the list still has its directory and its branch, so that it    *)
(* can be merged or discarded, unless git would not delete its branch once *)
(* its directory was gone: such an entry stands before all the older ones  *)
(* until it is kept.                                                       *)
(***************************************************************************)
WorktreesSound ==
  /\ commits \in 0 .. MaxCommits /\ DOMAIN doing = Agents
  /\ ~reused =>
       /\ 1 .. commits \subseteq
            base \cup discarded \cup exposed \cup (UNION {branch[n] : n \in Names})
       /\ \A e \in entries :
            \/ dir[e[2]] # "absent" /\ Present(e[2])
            \/ \E a \in Agents : doing[a].name = e[2] /\ doing[a].at = "delete"
            \/ e[2] \in stranded
=============================================================================
