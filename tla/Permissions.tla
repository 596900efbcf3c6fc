----------------------------- MODULE Permissions ----------------------------
(***************************************************************************)
(* Trust in the project (src/trust.rs), the project and session allowlists *)
(* (src/permission.rs), the sandbox test (src/sandbox.rs) and the gate     *)
(* every tool call that asks passes in dispatch_tool (src/agent.rs), for   *)
(* agents of one process on one project.  codecoder.json is read when an   *)
(* agent comes to trust the project and rewritten whole by every project   *)
(* grant.                                                                  *)
(***************************************************************************)
EXTENDS Naturals, FiniteSets

CONSTANTS Agents,
          MaxPrompts    \* bound: prompts answered in a checked run

PermissionAssumption == MaxPrompts \in Nat

VARIABLES
  file,       \* codecoder.json: a set of entries, or Absent or Unreadable
  decision,   \* trust.json for the project itself: "none", "trusted", "untrusted"
  ancestor,   \* trust.json for the nearest directory above that has one
  default,    \* CODECODER_DEFAULT_TRUST says trusted
  relaxed,    \* HEADLESS_TRUSTED, one flag for the process
  mode,       \* per agent: "off", "interactive" or "headless"
  trust,      \* per agent: "pending", "trusted" or "untrusted"
  session,    \* per agent: the keys of its session allowlist
  project,    \* per agent: the entries it loaded or granted
  hand,       \* history: entries written by hand
  said,       \* history: keys the user granted to the project
  stale,      \* history: saved by an agent whose list was not the file's
  kept,       \* history: entries ever in the file
  strayed,    \* history: the calls that ran without anybody's leave
  prompts     \* prompts answered

permVars == <<file, decision, ancestor, default, relaxed, mode, trust, session,
              project, hand, said, stale, kept, strayed, prompts>>

Plain(k) == [key |-> k, bound |-> FALSE]
Scoped(k) == [key |-> k, bound |-> TRUE]

Absent == {Plain("absent")}
Unreadable == {Plain("unreadable")}
Star == Plain("run_command:*")

\* What a model may ask for: a command, the same command in a compound one,
\* a shell capability.  `cwd` is where: nowhere said or an absolute path
\* inside the project, a relative path inside it, or a path outside.
Commands == {"git", "git;rm"}
Calls == [tool : Commands, cwd : {"inside", "relative", "outside"}]
         \cup {[tool |-> "cap@shell", cwd |-> "inside"]}

\* RunCommand::key_for: a compound command is keyed as a whole, unless a
\* trusted headless agent has been built in this process.
Key(c) == IF c.tool = "git;rm" /\ relaxed THEN "git" ELSE c.tool

\* tool_in_sandbox: only tools with a path or a cwd are looked at.
InSandbox(c) == c.tool \in Commands => c.cwd # "outside"

\* ScopeConstraint::check compares the path as it is written.
InScope(e, c) == e.bound => c.cwd = "inside"

\* ProjectAllowlist::allows.
Allows(entries, c) ==
  \/ \E e \in entries : e.key = Key(c) /\ InScope(e, c)
  \/ c.tool \in Commands /\ Star \in entries

\* ProjectAllowlist::load.
LoadAllowlist == IF file \in {Absent, Unreadable} THEN {} ELSE file

\* Mutant: no ceiling on shell capabilities.
CeilingIsSessionNever(k) == FALSE

\* scope_ceiling.
CeilingIsSession(k) == k = "cap@shell"

\* decide: the nearest directory with a decision.
Decide == IF decision # "none" THEN decision ELSE ancestor

\* AgentLoop::build.
TrustAtStart(m) ==
  CASE Decide # "none" -> Decide
    [] Decide = "none" /\ m = "headless" ->
         IF default \/ file # Absent THEN "trusted" ELSE "untrusted"
    [] Decide = "none" /\ m = "interactive" ->
         IF file = Absent THEN "trusted" ELSE "pending"

Init ==
  /\ file \in {Absent, Unreadable, {Plain("git")}, {Scoped("git")}, {Star}}
  /\ decision = "none" /\ ancestor \in {"none", "untrusted"} /\ default \in BOOLEAN
  /\ relaxed = FALSE
  /\ mode = [a \in Agents |-> "off"] /\ trust = [a \in Agents |-> "untrusted"]
  /\ session = [a \in Agents |-> {}] /\ project = [a \in Agents |-> {}]
  /\ hand = file /\ said = {}
  /\ stale = FALSE
  /\ kept = LoadAllowlist
  /\ strayed = {} /\ prompts = 0

Start(a) ==
  /\ mode[a] = "off"
  /\ \E m \in {"interactive", "headless"} :
       /\ mode' = [mode EXCEPT ![a] = m]
       /\ trust' = [trust EXCEPT ![a] = TrustAtStart(m)]
       /\ relaxed' = (relaxed \/ (m = "headless" /\ trust'[a] = "trusted"))
  /\ project' = [project EXCEPT ![a] = IF trust'[a] = "trusted" THEN LoadAllowlist ELSE {}]
  /\ UNCHANGED <<file, decision, ancestor, default, session, hand, said, stale,
                 kept, strayed, prompts>>

Stop(a) ==
  /\ mode[a] # "off" /\ mode' = [mode EXCEPT ![a] = "off"]
  /\ trust' = [trust EXCEPT ![a] = "untrusted"]
  /\ session' = [session EXCEPT ![a] = {}] /\ project' = [project EXCEPT ![a] = {}]
  /\ UNCHANGED <<file, decision, ancestor, default, relaxed, hand, said, stale,
                 kept, strayed, prompts>>

\* resolve_trust_if_pending, at the first turn.
AnswerTrust(a) ==
  /\ mode[a] # "off" /\ trust[a] = "pending"
  /\ \E reply \in {"always", "once", "never", "gone"} :
       /\ decision' = CASE reply = "always" -> "trusted"
                        [] reply = "never" -> "untrusted"
                        [] OTHER -> decision
       /\ trust' = [trust EXCEPT ![a] =
            IF reply \in {"always", "once"} THEN "trusted" ELSE "untrusted"]
       /\ project' = [project EXCEPT ![a] = IF trust'[a] = "trusted" THEN LoadAllowlist ELSE @]
  /\ UNCHANGED <<file, ancestor, default, relaxed, mode, session, hand, said, stale, kept, strayed, prompts>>

\* What was ever granted beyond one session, and the grants that cover a tool:
\* a compound command's is the grant of its first word only once relaxed.
Lasting == {Plain(k) : k \in said} \cup (IF hand \in {Absent, Unreadable} THEN {} ELSE hand)
Covering(tool) == {tool} \cup (IF tool = "git;rm" /\ relaxed THEN {"git"} ELSE {})

\* Somebody has given leave for the call; a shell capability's ends with the
\* session.
Authorised(a, c) ==
  LET covering == Covering(c.tool)
      trusted == trust[a] = "trusted"
  IN IF mode[a] = "headless" THEN c.tool \in Commands => c.cwd # "outside"
     ELSE \/ covering \cap session[a] # {}
          \/ /\ c.tool # "cap@shell"
             /\ \/ covering \cap said # {}
                \/ trusted /\ c.tool \in Commands /\ Star \in hand
                \/ trusted /\ \E e \in Lasting : e.key \in covering /\ InScope(e, c)

Ran(a, c) == strayed' = IF Authorised(a, c) THEN strayed ELSE strayed \cup {c}

\* A headless agent asks nobody: the sandbox test alone decides.
HeadlessCall(a) ==
  /\ mode[a] = "headless"
  /\ \E c \in Calls : InSandbox(c) /\ Ran(a, c)
  /\ UNCHANGED <<file, decision, ancestor, default, relaxed, mode, trust, session,
                 project, hand, said, stale, kept, prompts>>

AllowedCall(a) ==
  /\ mode[a] = "interactive" /\ trust[a] # "pending"
  /\ \E c \in Calls :
       /\ Key(c) \in session[a] \/ Allows(project[a], c)
       /\ Ran(a, c)
  /\ UNCHANGED <<file, decision, ancestor, default, relaxed, mode, trust, session,
                 project, hand, said, stale, kept, prompts>>

\* ProjectAllowlist::grant and save; the entry is new, or there would have been
\* no prompt.  A write that fails leaves it in memory.
GrantProject(a, k) ==
  /\ project' = [project EXCEPT ![a] = @ \cup {Plain(k)}]
  /\ \/ /\ file' = project'[a] /\ kept' = kept \cup project'[a]
        /\ stale' = (stale \/ ~(LoadAllowlist \subseteq project[a]))
     \/ UNCHANGED <<file, stale, kept>>
  /\ UNCHANGED session

\* The gate's prompt; Deny and Cancelled run nothing and change nothing here.
PromptedCall(a) ==
  /\ prompts < MaxPrompts /\ prompts' = prompts + 1         \* bound
  /\ mode[a] = "interactive" /\ trust[a] # "pending"
  /\ \E c \in Calls, scope \in {"once", "session", "project"} :
       /\ ~(Key(c) \in session[a] \/ Allows(project[a], c))
       /\ CASE scope = "once" -> UNCHANGED <<file, session, project, said, stale, kept>>
            [] scope = "project" /\ ~CeilingIsSession(Key(c)) ->
                 GrantProject(a, Key(c)) /\ said' = said \cup {Key(c)}
            [] OTHER ->
                 /\ session' = [session EXCEPT ![a] = @ \cup {Key(c)}]
                 /\ UNCHANGED <<file, project, said, stale, kept>>
  /\ UNCHANGED <<decision, ancestor, default, relaxed, mode, trust, hand, strayed>>

Next == \E a \in Agents : \/ Start(a) \/ Stop(a) \/ AnswerTrust(a)
                          \/ HeadlessCall(a) \/ AllowedCall(a) \/ PromptedCall(a)

Spec == Init /\ [][Next]_permVars

-----------------------------------------------------------------------------
(***************************************************************************)
(* A call that asks runs without a prompt only inside the sandbox when     *)
(* headless, or by a grant of this session, or, in a trusted project, by a *)
(* grant somebody gave the project; a shell capability never by the grant  *)
(* of another session; and, until a trusted headless agent has run in the  *)
(* process, a compound command never by the grant of its first word.  What *)
(* was granted to the project is never lost from the file but by a grant   *)
(* of an agent whose list is not the file's, and an agent that is not      *)
(* trusted holds nothing of the file but what it was granted itself.       *)
(***************************************************************************)
AccessSound ==
  /\ \A a \in Agents : mode[a] \in {"off", "interactive", "headless"}
  /\ strayed = {}
  /\ \A a \in Agents :
       trust[a] # "trusted" => project[a] \subseteq {Plain(k) : k \in said}
  /\ file \notin {Absent, Unreadable} => file \subseteq Lasting
  /\ ~stale => kept \subseteq LoadAllowlist
=============================================================================
