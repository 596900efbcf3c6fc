---------------------------- MODULE AuthoredFiles ---------------------------
(***************************************************************************)
(* The files agents write side by side (src/tool/builtin.rs): edit_file,   *)
(* which reads a file and writes all of it back, write_file, and a skill   *)
(* that is drafted under prompts/, promoted to skills/ and found by        *)
(* use_skill; with the catalog agents are shown, which is rescanned while  *)
(* they write (src/registry.rs).  A file is written by truncating it and   *)
(* then filling it; use_skill and the rescan look into one directory after *)
(* the other.  A file is the set of writings it holds, {} when a skill or  *)
(* a draft is absent; 0 in it stands for "not all of it".                  *)
(***************************************************************************)
EXTENDS Integers

CONSTANTS Agents,
          MaxWrites    \* bound: writings of a checked run

FilesAssumption == MaxWrites \in Nat

VARIABLES
  disk,          \* the text, skills/n.md and prompts/n.md
  writes,
  step,          \* per agent: the tool call under way, and what it holds
  look,          \* a use_skill or a rescan under way (they only read: one is followed)
  overlapped,    \* history: what others wrote while an agent relied on it
  spoiled,       \* history: the files last written at once, in part or not to the end
  authored       \* history: a skill or a draft was once written

fileVars == <<disk, writes, step, look, overlapped, spoiled, authored>>

Paths == {"text", "skill", "draft"}
Registry == "registry"
Readers == Agents \cup {Registry}

Idle == [do |-> "idle", held |-> {}]
NoLook == [by |-> Registry, at |-> "none", seen |-> {}, usable |-> FALSE, crossed |-> FALSE]

Usable == disk["skill"] # {} \/ disk["draft"] # {}
Free(a) == step[a] = Idle /\ (look.by = a => look = NoLook)

\* What a call relies on having read, and what it has truncated and not filled.
Relies == {<<"edit", "text">>, <<"promote", "skill">>, <<"promote", "draft">>,
           <<"promoted", "draft">>, <<"remove", "draft">>}
Fills == {<<"text", "text">>, <<"skill", "skill">>, <<"draft", "draft">>,
          <<"promoted", "skill">>}

Filling(a, f) == <<step[a].do, f>> \in Fills
OthersIn(a, f, states) ==
  {b \in Agents : b # a /\ <<step[b].do, f>> \in states} \X {f}

\* The history when the call of a ends.
Past(a) == overlapped \ ({a} \X Paths)

Init ==
  /\ disk = [f \in Paths |-> {}] /\ writes = 0
  /\ step = [a \in Agents |-> Idle]
  /\ look = NoLook
  /\ overlapped = {} /\ spoiled = {} /\ authored = FALSE

Write == writes < MaxWrites /\ writes' = writes + 1            \* bound

\* The first half of std::fs::write, in the state `do` of a's call.
Truncate(a, do, f, content) ==
  /\ disk' = [disk EXCEPT ![f] = content \cup {0}]
  /\ step' = [step EXCEPT ![a] = [do |-> do, held |-> content]]
  /\ overlapped' = (overlapped \ {<<a, f>>}) \cup OthersIn(a, f, Relies)
  /\ spoiled' = spoiled \ {f}

\* The second half: on top of what another filled in between, some may stay.
Filled(a, f) ==
  /\ Filling(a, f)
  /\ \/ disk' = [disk EXCEPT ![f] = step[a].held]
     \/ <<a, f>> \in overlapped /\ disk' = [disk EXCEPT ![f] = step[a].held \cup {0}]
  /\ spoiled' = IF 0 \in disk'[f] THEN spoiled \cup {f} ELSE spoiled \ {f}

Fill(a) ==
  /\ step[a].do # "promoted"
  /\ \E f \in Paths :
       Filled(a, f) /\ overlapped' = Past(a) \cup OthersIn(a, f, Relies \cup Fills)
  /\ step' = [step EXCEPT ![a] = Idle]
  /\ UNCHANGED <<writes, look, authored>>

\* A call ends before its next step: its write fails, or its agent is killed.
Stop(a) ==
  /\ step[a] # Idle
  /\ step' = [step EXCEPT ![a] = Idle]
  /\ spoiled' = spoiled \cup {f \in Paths : Filling(a, f)}
  /\ \/ disk' = disk /\ overlapped' = Past(a)
     \/ \E f \in Paths :
          /\ Filling(a, f) /\ disk' = [disk EXCEPT ![f] = @ \cup {0}]
          /\ overlapped' = Past(a) \cup OthersIn(a, f, Relies \cup Fills)
  /\ UNCHANGED <<writes, look, authored>>

\* edit_file: an edit of text that is not there changes nothing.
EditRead(a) ==
  /\ Free(a)
  /\ step' = [step EXCEPT ![a] = [do |-> "edit", held |-> disk["text"]]]
  /\ UNCHANGED <<disk, writes, look, overlapped, spoiled, authored>>

EditWrite(a) ==
  /\ step[a].do = "edit" /\ Write
  /\ Truncate(a, "text", "text", step[a].held \cup {writes'})
  /\ UNCHANGED <<look, authored>>

WriteFile(a) ==
  /\ Free(a) /\ Write /\ Truncate(a, "text", "text", {writes'})
  /\ UNCHANGED <<look, authored>>

\* write_file with `append` does not truncate.
AppendFile(a) ==
  /\ Free(a) /\ Write
  /\ disk' = [disk EXCEPT !["text"] = @ \cup {writes'}]
  /\ overlapped' = overlapped \cup OthersIn(a, "text", Relies \cup Fills)
  /\ UNCHANGED <<step, look, spoiled, authored>>

GenerateSkill(a) ==
  /\ Free(a) /\ Write /\ Truncate(a, "skill", "skill", {writes'})
  /\ authored' = TRUE /\ UNCHANGED look

GeneratePrompt(a) ==
  /\ Free(a) /\ Write /\ Truncate(a, "draft", "draft", {writes'})
  /\ authored' = TRUE /\ UNCHANGED look

\* promote_prompt: the draft is read, an existing skill refuses it, the skill is
\* written, and then the draft removed.
PromoteRead(a) ==
  /\ Free(a) /\ disk["draft"] # {} /\ disk["skill"] = {}
  /\ step' = [step EXCEPT ![a] = [do |-> "promote", held |-> disk["draft"]]]
  /\ UNCHANGED <<disk, writes, look, overlapped, spoiled, authored>>

PromoteWrite(a) ==
  /\ step[a].do = "promote"
  /\ Truncate(a, "promoted", "skill", step[a].held)
  /\ look' = [look EXCEPT !.crossed = @ \/ look.at = "prompts"]
  /\ UNCHANGED <<writes, authored>>

PromoteFill(a) ==
  /\ step[a].do = "promoted" /\ Filled(a, "skill")
  /\ step' = [step EXCEPT ![a].do = "remove"]
  /\ overlapped' = overlapped \cup OthersIn(a, "skill", Relies \cup Fills)
  /\ UNCHANGED <<writes, look, authored>>

PromoteRemove(a) ==
  /\ step[a].do = "remove"
  /\ disk' \in {disk, [disk EXCEPT !["draft"] = {}]}   \* a removal that fails is only reported
  /\ step' = [step EXCEPT ![a] = Idle] /\ overlapped' = Past(a)
  /\ UNCHANGED <<writes, look, spoiled, authored>>

\* use_skill, and Registry::scan by the reload thread of a daemon or, without
\* one, by an agent that authored something: skills/, then prompts/.  A use that
\* finds the skill ends there.  A file that ends inside a character is no text:
\* a use then has found nothing, a scan lists it all the same.
Refused(r, f) == r # Registry /\ 0 \in disk[f]
LookSkills(r) ==
  /\ look = NoLook
  /\ r # Registry => step[r] = Idle /\ (disk["skill"] = {} \/ Refused(r, "skill"))
  /\ look' = [by |-> r, at |-> "prompts", usable |-> Usable, crossed |-> Refused(r, "skill"),
              seen |-> IF r # Registry \/ disk["skill"] = {} THEN {} ELSE {"skill"}]
  /\ UNCHANGED <<disk, writes, step, overlapped, spoiled, authored>>

LookPrompts ==
  /\ look.at = "prompts"
  /\ \/ look' = [look EXCEPT !.at = "done",
                   !.seen = IF disk["draft"] = {} THEN @ ELSE @ \cup {"draft"}]
     \/ Refused(look.by, "draft") /\ look' = [look EXCEPT !.at = "done", !.crossed = TRUE]
  /\ UNCHANGED <<disk, writes, step, overlapped, spoiled, authored>>

\* What a rescan has seen is then the catalog agents are shown.
LookEnds ==
  /\ look.at = "done"
  /\ look' = NoLook
  /\ UNCHANGED <<disk, writes, step, overlapped, spoiled, authored>>

Next ==
  \/ \E r \in Readers : LookSkills(r)
  \/ LookPrompts \/ LookEnds
  \/ \E a \in Agents :
       \/ EditRead(a) \/ EditWrite(a) \/ WriteFile(a) \/ AppendFile(a)
       \/ GenerateSkill(a) \/ GeneratePrompt(a)
       \/ PromoteRead(a) \/ PromoteWrite(a) \/ PromoteFill(a) \/ PromoteRemove(a)
       \/ Fill(a) \/ Stop(a)

Spec == Init /\ [][Next]_fileVars

-----------------------------------------------------------------------------
(***************************************************************************)
(* There is always a skill or a draft once one was written, at every step  *)
(* of a promotion too.  An edit under way still holds the whole file, and  *)
(* a promotion the whole draft and the only skill, unless another agent    *)
(* wrote in between.  A file is left in part only by writers at work, by   *)
(* two of them at once, or by one that did not finish.  And a use_skill or *)
(* a rescan finds nothing where there was something all along only when a  *)
(* promotion crossed it, so that it saw neither the new skill nor the old  *)
(* draft, or when it met a file half written.                              *)
(***************************************************************************)
FilesSound ==
  /\ authored => Usable
  /\ \A a \in Agents :
       /\ step[a].do = "edit" /\ <<a, "text">> \notin overlapped => step[a].held = disk["text"]
       /\ step[a].do = "promote" /\ <<a, "skill">> \notin overlapped => disk["skill"] = {}
       /\ step[a].do \in {"promote", "promoted", "remove"} /\ <<a, "draft">> \notin overlapped =>
            disk["draft"] \in {{}, step[a].held}
  /\ \A f \in Paths \ spoiled : 0 \in disk[f] => \E a \in Agents : Filling(a, f)
  /\ look.at = "done" /\ look.usable /\ ~look.crossed => look.seen # {}
=============================================================================
