----------------------------- MODULE CausalTree -----------------------------
(***************************************************************************)
(* causal_tree.json, kept by the reason tool (src/tool/reason.rs): every   *)
(* change loads the tree, edits it and saves it through a temporary file   *)
(* of one fixed name, without a lock, from any agent of any process on the *)
(* project.  A node is known by its id and, in the model only, by its      *)
(* birth, the number of the add that made it.                              *)
(***************************************************************************)
EXTENDS Integers, FiniteSets

CONSTANTS Agents,
          Given,      \* the ids that callers give as a node's parent
          MaxNodes    \* bound: nodes added in a checked run

CausalAssumption == Given \subseteq Nat /\ MaxNodes \in Nat

VARIABLES
  file,      \* causal_tree.json
  tmp,       \* causal_tree.tmp: "absent" or "open"
  step,      \* per agent: "idle", "loaded" or "writing"
  mem,       \* per agent: the edited tree about to be saved
  births,    \* nodes added so far
  links,     \* the session entry linked to a node: the id, and its birth then
  clashed,   \* history: two agents wrote the temporary file at a time
  passed,    \* history, until then: births saved while another agent held a
             \* tree without them
  dropped,   \* history, until then: births whose add died before the rename
  odd        \* history: a parent that was no node of the tree was given

causalVars == <<file, tmp, step, mem, births, links, passed, clashed, odd,
                dropped>>

Root == -1
NoLink == [id |-> Root, birth |-> 0]

Empty == [nodes |-> {}, next |-> 0]
Torn == [nodes |-> {}, next |-> -1]

Node(tree, id) == CHOOSE n \in tree.nodes : n.id = id
Ids(tree) == {n.id : n \in tree.nodes}
Has(tree, m) == \E n \in tree.nodes : n.id = m.id /\ n.birth = m.birth

\* load: what is absent or does not parse is an empty tree.
Load == IF file = Torn THEN Empty ELSE file

\* CausalTree::add; the parent is not looked up.
AddNode(tree, parent) ==
  [nodes |-> tree.nodes \cup {[id |-> tree.next, parent |-> parent,
                               birth |-> births + 1, ruled |-> 0]},
   next |-> tree.next + 1]

\* render_trace: up to the root, or without end.
RenderTrace(tree, id) ==
  LET above[i \in Int, seen \in SUBSET Int] ==
        IF i = Root THEN "rendered"
        ELSE IF i \notin Ids(tree) THEN "unknown"
        ELSE IF i \in seen THEN "endless"
        ELSE above[Node(tree, i).parent, seen \cup {i}]
  IN above[id, {}]

\* render and write_node: the nodes below a root.
Below(tree, top) ==
  LET below[parents \in SUBSET Int] ==
        LET found == {n.id : n \in {m \in tree.nodes : m.parent \in parents}}
        IN IF found = {} THEN {} ELSE found \cup below[found \ parents]
  IN below[top]
Rendered(tree) == Below(tree, {Root})

Init ==
  /\ file = Empty /\ tmp = "absent"
  /\ step = [a \in Agents |-> "idle"] /\ mem = [a \in Agents |-> Empty]
  /\ births = 0 /\ links = NoLink
  /\ passed = {} /\ clashed = FALSE /\ odd = FALSE /\ dropped = {}

\* The edits: each loads the file and hands the new tree to save.
Edit(a, tree) ==
  /\ step[a] = "idle" /\ step' = [step EXCEPT ![a] = "loaded"]
  /\ mem' = [mem EXCEPT ![a] = tree]
  /\ UNCHANGED <<file, tmp, passed, clashed, dropped>>

\* reason add, and record_cause.
Add(a) ==
  /\ births < MaxNodes                                   \* bound
  /\ \E parent \in {Root} \cup Given :
       /\ Edit(a, AddNode(Load, parent))
       /\ odd' = (odd \/ parent \notin Ids(Load) \cup {Root})
  /\ births' = births + 1
  /\ UNCHANGED <<links>>

\* reason status and margin: what they set on a node is left out, that they
\* save the whole tree is not.
SetStatus(a) ==
  /\ Load.nodes # {} /\ Edit(a, Load)
  /\ UNCHANGED <<births, links, odd>>

\* handle_navigate leaves a branch whose entry is linked: record_ruling looks
\* the id up again.
RecordRuling(a) ==
  /\ links # NoLink /\ links.id \in Ids(Load)
  /\ LET n == Node(Load, links.id)
     IN Edit(a, [Load EXCEPT !.nodes = (@ \ {n}) \cup {[n EXCEPT !.ruled = links.birth]}])
  /\ UNCHANGED <<births, links, odd>>

\* save: the write of the temporary file is not atomic.
StartWrite(a) ==
  /\ step[a] = "loaded" /\ step' = [step EXCEPT ![a] = "writing"]
  /\ tmp' = "open"
  /\ clashed' = (clashed \/ \E b \in Agents : step[b] = "writing")
  /\ passed' = IF clashed' THEN {} ELSE passed
  /\ dropped' = IF clashed' THEN {} ELSE dropped
  /\ UNCHANGED <<file, mem, births, links, odd>>

\* The write ends and the file is renamed.  Another agent may be in the midst of
\* the same temporary file, so that its tree or none is renamed, or have renamed
\* it under the writer, whose own rename then fails.  Who loaded before and has
\* still to save does not have what is new.
EndWrite(a) ==
  LET others == {b \in Agents \ {a} : step[b] = "writing"}
      holders == {b \in Agents \ {a} : step[b] # "idle"}
  IN  /\ step[a] = "writing" /\ step' = [step EXCEPT ![a] = "idle"]
      /\ file' \in {mem[a]} \cup
           IF tmp = "absent" \/ others # {}
           THEN {Torn, file} \cup {mem[b] : b \in others} ELSE {}
      /\ tmp' = "absent" /\ mem' = [mem EXCEPT ![a] = Empty]
      /\ passed' = IF clashed THEN {} ELSE passed \cup
           {n.birth : n \in {m \in file'.nodes : \E b \in holders : ~Has(mem[b], m)}}
      /\ UNCHANGED <<births, links, clashed, odd, dropped>>

\* The process dies before the rename.
Crash(a) ==
  /\ step[a] # "idle" /\ step' = [step EXCEPT ![a] = "idle"]
  /\ dropped' = IF clashed THEN {} ELSE dropped \cup {n.birth : n \in mem[a].nodes \ Load.nodes}
  /\ mem' = [mem EXCEPT ![a] = Empty]
  /\ UNCHANGED <<file, tmp, births, links, passed, clashed, odd>>

\* reason link: the current session entry is marked with the id.  One marked
\* entry stands for all, each of which keeps its own.
Link ==
  /\ links = NoLink
  /\ \E n \in Load.nodes : links' = [id |-> n.id, birth |-> n.birth]
  /\ UNCHANGED <<file, tmp, step, mem, births, passed, clashed, odd, dropped>>

Next ==
  \/ \E a \in Agents : Add(a) \/ SetStatus(a) \/ RecordRuling(a)
                       \/ StartWrite(a) \/ EndWrite(a) \/ Crash(a)
  \/ Link

Spec == Init /\ [][Next]_causalVars

-----------------------------------------------------------------------------
\* The births whose add has come to an end, one way or the other.
Ended == {b \in 1 .. births :
            \A a \in Agents :
              step[a] = "idle" \/ b \notin {n.birth : n \in mem[a].nodes}}

(***************************************************************************)
(* The nodes of the file have ids of their own.  As long as no two agents  *)
(* were in the temporary file at a time, the file never tears, not by a    *)
(* crash either; a node is lost only to an agent that had loaded before    *)
(* the node was saved and saved after it; and a ruling falls on the node   *)
(* the session meant, or on another only once that one was so lost.        *)
(***************************************************************************)
CausalSound ==
  /\ \A m, n \in file.nodes : m.id = n.id => m = n
  /\ ~clashed =>
       /\ file # Torn
       /\ Ended \subseteq {n.birth : n \in file.nodes} \cup dropped \cup passed
       /\ \A n \in file.nodes : n.ruled \in {0, n.birth} \cup passed

(***************************************************************************)
(* However the saves overlap, as long as the parents given exist every     *)
(* trace ends at the root and the list shows every node.                   *)
(***************************************************************************)
TracesEnd ==
  ~odd => \A n \in file.nodes :
            RenderTrace(file, n.id) = "rendered" /\ n.id \in Rendered(file)
=============================================================================
