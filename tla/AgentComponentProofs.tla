------------------------ MODULE AgentComponentProofs -------------------------
(***************************************************************************)
(* What an agent's tools and its model promise (AgentComponents), for      *)
(* every value of the constants: for each component the inductive          *)
(* invariant, that each of its steps preserves it, and that it implies     *)
(* the component's property; at the end the properties of them together.   *)
(***************************************************************************)
EXTENDS AgentComponents, Integers, Sequences, FiniteSets,
        FiniteSetTheorems, TLAPS

-----------------------------------------------------------------------------
\* The gate of a tool call (Permissions): for any number of agents.

\* Of what lasts beyond a session no entry is a shell capability's, an agent's
\* entries are lasting ones, and all but its own grants need trust.
AccessInv ==
  /\ said \subseteq Access!Commands
  /\ hand \in {Access!Absent, Access!Unreadable, {Access!Plain("git")}, {Access!Scoped("git")},
               {Access!Star}}
  /\ staleGrant \in BOOLEAN
  /\ DOMAIN project = Askers /\ DOMAIN trust = Askers /\ DOMAIN accessMode = Askers
  /\ \A a \in Askers : project[a] \subseteq Access!Lasting
  /\ Access!AccessSound

(***************************************************************************)
(* What lasts is never the grant of a shell capability (scope_ceiling of   *)
(* src/permission.rs), and the grant of every command only by hand.        *)
(***************************************************************************)
LEMMA LastingHasNoCapability ==
  ASSUME AccessInv
  PROVE  /\ \A e \in Access!Lasting : e.key # "cap@shell"
         /\ Access!Star \in Access!Lasting => Access!Star \in hand
         /\ Access!LoadAllowlist \subseteq Access!Lasting
<1> USE DEF Access!Plain, Access!Scoped, Access!Star, Access!Commands
<1>1. \A e \in Access!Lasting : e.key # "cap@shell"
  <2>1. \A k \in said : Access!Plain(k).key # "cap@shell"
    BY DEF AccessInv
  <2>2. \A k : Access!Plain(k).key = k /\ Access!Scoped(k).key = k
    OBVIOUS
  <2> HIDE DEF Access!Plain, Access!Scoped
  <2>3. \/ \E k \in {"absent", "unreadable", "git", "run_command:*"} : hand = {Access!Plain(k)}
        \/ hand = {Access!Scoped("git")}
    BY DEF AccessInv, Access!Absent, Access!Unreadable
  <2>4. \A e \in hand : e.key # "cap@shell"
    <3>1. CASE hand = {Access!Scoped("git")}
      BY <2>2, <3>1
    <3>2. ASSUME NEW k \in {"absent", "unreadable", "git", "run_command:*"},
                 hand = {Access!Plain(k)}
          PROVE  \A e \in hand : e.key # "cap@shell"
      BY <2>2, <3>2
    <3>3. QED
      BY <2>3, <3>1, <3>2
  <2>5. QED
    BY <2>1, <2>4 DEF Access!Lasting
<1>2. Access!Star \in Access!Lasting => Access!Star \in hand
  BY DEF AccessInv, Access!Lasting
<1>3. Access!LoadAllowlist \subseteq Access!Lasting
  BY DEF AccessInv, Access!AccessSound, Access!LoadAllowlist
<1>4. QED
  BY <1>1, <1>2, <1>3

(***************************************************************************)
(* A call that the gate lets through without a prompt has somebody's leave *)
(* (src/agent.rs dispatch_tool, src/permission.rs allows).                 *)
(***************************************************************************)
LEMMA GateIsAuthorised ==
  ASSUME AccessInv, NEW a \in Askers, NEW c \in Access!Calls, accessMode[a] = "interactive",
         Access!Key(c) \in sessionGrants[a] \/ Access!Allows(project[a], c)
  PROVE  Access!Authorised(a, c)
<1> DEFINE covering == Access!Covering(c.tool)
<1>1. Access!Key(c) \in covering
  BY DEF Access!Key, Access!Covering, Access!Calls, Access!Commands
<1>2. CASE Access!Key(c) \in sessionGrants[a]
  BY <1>1, <1>2 DEF Access!Authorised
<1>3. ASSUME NEW e \in project[a], e.key = Access!Key(c), Access!InScope(e, c)
      PROVE  Access!Authorised(a, c)
  <2>1. e \in Access!Lasting /\ e.key # "cap@shell"
    BY LastingHasNoCapability DEF AccessInv
  <2>2. c.tool # "cap@shell"
    BY <1>3, <2>1 DEF Access!Key, Access!Calls, Access!Commands
  <2>3. CASE trust[a] = "trusted"
    BY <1>1, <1>3, <2>1, <2>2, <2>3 DEF Access!Authorised
  <2>4. CASE trust[a] # "trusted"
    <3>1. PICK k \in said : e = Access!Plain(k)
      BY <2>4 DEF AccessInv, Access!AccessSound
    <3>2. covering \cap said # {}
      BY <1>1, <1>3, <3>1 DEF Access!Plain
    <3>3. QED
      BY <2>2, <3>2 DEF Access!Authorised
  <2>5. QED
    BY <2>3, <2>4
<1>4. CASE c.tool \in Access!Commands /\ Access!Star \in project[a]
  <2>1. Access!Star \in hand
    BY <1>4, LastingHasNoCapability DEF AccessInv
  <2>2. trust[a] = "trusted"
    <3>1. Access!Star \notin {Access!Plain(k) : k \in said}
      BY DEF AccessInv, Access!Plain, Access!Star, Access!Commands
    <3>2. QED
      BY <1>4, <3>1 DEF AccessInv, Access!AccessSound
  <2>3. QED
    BY <1>4, <2>1, <2>2 DEF Access!Authorised, Access!Commands
<1>5. QED
  BY <1>2, <1>3, <1>4 DEF Access!Allows

(***************************************************************************)
(* A grant to the project (src/permission.rs grant and save) keeps what    *)
(* was granted before, unless the agent's list is not the file's.          *)
(***************************************************************************)
LEMMA ProjectGrantKeeps ==
  ASSUME AccessInv, NEW a \in Askers, NEW k \in Access!Commands,
         accessMode[a] = "interactive",
         Access!GrantProject(a, k), said' = said \cup {k},
         UNCHANGED <<accessMode, trust, hand, strayed>>
  PROVE  AccessInv'
<1> DEFINE granted == project[a] \cup {Access!Plain(k)}
<1>1. /\ project' = [project EXCEPT ![a] = granted]
      /\ project'[a] = granted /\ \A b \in Askers \ {a} : project'[b] = project[b]
      /\ DOMAIN project' = Askers
  BY DEF Access!GrantProject, AccessInv
<1>2. /\ said' \subseteq Access!Commands /\ Access!Lasting \subseteq Access!Lasting'
      /\ Access!Plain(k) \in Access!Lasting'
      /\ Access!Plain(k) \in {Access!Plain(j) : j \in said'}
  BY DEF AccessInv, Access!Lasting
<1>3. \A b \in Askers : project'[b] \subseteq Access!Lasting'
  BY <1>1, <1>2 DEF AccessInv
<1>4. \A b \in Askers : trust'[b] # "trusted" => project'[b] \subseteq {Access!Plain(j) :
        j \in said'}
  BY <1>1, <1>2 DEF AccessInv, Access!AccessSound
<1>5. granted \notin {Access!Absent, Access!Unreadable}
  <2>1. Access!Plain(k) # Access!Plain("absent") /\ Access!Plain(k) # Access!Plain("unreadable")
    BY DEF Access!Plain, Access!Commands
  <2>2. Access!Plain(k) \in granted
    OBVIOUS
  <2>3. QED
    BY <2>1, <2>2 DEF Access!Absent, Access!Unreadable
<1>6. CASE /\ allowlist' = project'[a] /\ keptGrants' = keptGrants \cup project'[a]
           /\ staleGrant' = (staleGrant \/ ~(Access!LoadAllowlist \subseteq project[a]))
  <2>1. staleGrant' \in BOOLEAN
    BY <1>6, Zenon
  <2>2. ~staleGrant' => ~staleGrant /\ Access!LoadAllowlist \subseteq project[a]
    BY <1>6, Zenon DEF AccessInv
  <2>3. Access!LoadAllowlist' = granted
    BY <1>1, <1>5, <1>6 DEF Access!LoadAllowlist
  <2>4. ~staleGrant' => keptGrants' \subseteq Access!LoadAllowlist'
    BY <1>1, <1>6, <2>2, <2>3 DEF AccessInv, Access!AccessSound
  <2>5. allowlist' \subseteq Access!Lasting'
    BY <1>3, <1>6
  <2>6. QED
    BY <1>1, <1>2, <1>3, <1>4, <2>1, <2>4, <2>5 DEF AccessInv, Access!AccessSound
<1>7. CASE UNCHANGED <<allowlist, staleGrant, keptGrants>>
  <2>1. Access!LoadAllowlist' = Access!LoadAllowlist
    BY <1>7 DEF Access!LoadAllowlist
  <2>2. QED
    BY <1>1, <1>2, <1>3, <1>4, <1>7, <2>1 DEF AccessInv, Access!AccessSound
<1>8. QED
  BY <1>6, <1>7 DEF Access!GrantProject

(***************************************************************************)
(* An agent that starts, stops or learns whether the project is trusted    *)
(* holds the file's entries only once it is (src/agent.rs build and        *)
(* resolve_trust_if_pending).                                              *)
(***************************************************************************)
LEMMA ListNeedsTrust ==
  ASSUME AccessInv, NEW a \in Askers,
         DOMAIN project' = Askers, DOMAIN trust' = Askers, DOMAIN accessMode' = Askers,
         \A b \in Askers \ {a} : project'[b] = project[b] /\ trust'[b] = trust[b]
                                 /\ accessMode'[b] = accessMode[b],
         accessMode'[a] \in {"off", "interactive", "headless"},
         \/ project'[a] = {}
         \/ project'[a] = Access!LoadAllowlist /\ trust'[a] = "trusted"
         \/ project'[a] = project[a] /\ trust[a] # "trusted",
         UNCHANGED <<allowlist, said, hand, staleGrant, keptGrants, strayed>>
  PROVE  AccessInv'
<1>1. Access!LoadAllowlist \subseteq Access!Lasting
  BY LastingHasNoCapability
<1>2. Access!LoadAllowlist' = Access!LoadAllowlist /\ Access!Lasting' = Access!Lasting
  BY DEF Access!LoadAllowlist, Access!Lasting
<1>3. \A b \in Askers : project'[b] \subseteq Access!Lasting'
  BY <1>1, <1>2 DEF AccessInv
<1>4. \A b \in Askers : trust'[b] # "trusted" => project'[b] \subseteq {Access!Plain(k) :
        k \in said'}
  BY DEF AccessInv, Access!AccessSound
<1>5. \A b \in Askers : accessMode'[b] \in {"off", "interactive", "headless"}
  BY DEF AccessInv, Access!AccessSound
<1>6. QED
  BY <1>2, <1>3, <1>4, <1>5 DEF AccessInv, Access!AccessSound

(***************************************************************************)
(* Every step of an agent keeps the invariant of the gate.                 *)
(***************************************************************************)
LEMMA AccessStep ==
  ASSUME AccessInv, [Access!Next]_(Access!permVars)
  PROVE  AccessInv'
<1>1. ASSUME NEW a \in Askers, Access!Start(a) PROVE AccessInv'
  <2>1. PICK m \in {"interactive", "headless"} :
          accessMode' = [accessMode EXCEPT ![a] = m]
          /\ trust' = [trust EXCEPT ![a] = Access!TrustAtStart(m)]
    BY <1>1 DEF Access!Start
  <2>2. project' = [project EXCEPT ![a] = IF trust'[a] = "trusted" THEN Access!LoadAllowlist
          ELSE {}]
    BY <1>1 DEF Access!Start
  <2>3. QED
    BY <1>1, <2>1, <2>2, ListNeedsTrust DEF Access!Start, AccessInv
<1>2. ASSUME NEW a \in Askers, Access!Stop(a) PROVE AccessInv'
  BY <1>2, ListNeedsTrust DEF Access!Stop, AccessInv
<1>3. ASSUME NEW a \in Askers, Access!AnswerTrust(a) PROVE AccessInv'
  <2>1. PICK reply \in {"always", "once", "never", "gone"} :
          /\ trust' = [trust EXCEPT ![a] = IF reply \in {"always",
               "once"} THEN "trusted" ELSE "untrusted"]
          /\ project' = [project EXCEPT ![a] =
                           IF trust'[a] = "trusted" THEN Access!LoadAllowlist ELSE @]
    BY <1>3 DEF Access!AnswerTrust
  <2>2. accessMode[a] \in {"off", "interactive", "headless"} /\ trust[a] # "trusted"
    BY <1>3 DEF Access!AnswerTrust, AccessInv, Access!AccessSound
  <2>3. QED
    BY <1>3, <2>1, <2>2, ListNeedsTrust DEF Access!AnswerTrust, AccessInv
<1>4. ASSUME NEW a \in Askers, NEW c \in Access!Calls, Access!Authorised(a, c), Access!Ran(a, c),
             UNCHANGED <<allowlist, accessMode, trust, project, hand, said, staleGrant, keptGrants>>
      PROVE  AccessInv'
  <2>1. strayed' = strayed
    BY <1>4 DEF Access!Ran
  <2>2. Access!LoadAllowlist' = Access!LoadAllowlist /\ Access!Lasting' = Access!Lasting
    BY <1>4 DEF Access!LoadAllowlist, Access!Lasting
  <2>3. QED
    BY <1>4, <2>1, <2>2 DEF AccessInv, Access!AccessSound
<1>5. ASSUME NEW a \in Askers, Access!HeadlessCall(a) PROVE AccessInv'
  <2>1. PICK c \in Access!Calls : Access!InSandbox(c) /\ Access!Ran(a, c)
    BY <1>5 DEF Access!HeadlessCall
  <2>2. Access!Authorised(a, c)
    BY <1>5, <2>1 DEF Access!HeadlessCall, Access!Authorised, Access!InSandbox
  <2>3. QED
    BY <1>4, <1>5, <2>1, <2>2 DEF Access!HeadlessCall
<1>6. ASSUME NEW a \in Askers, Access!AllowedCall(a) PROVE AccessInv'
  <2>1. PICK c \in Access!Calls :
          (Access!Key(c) \in sessionGrants[a] \/ Access!Allows(project[a], c)) /\ Access!Ran(a, c)
    BY <1>6 DEF Access!AllowedCall
  <2>2. Access!Authorised(a, c)
    BY <1>6, <2>1, GateIsAuthorised DEF Access!AllowedCall
  <2>3. QED
    BY <1>4, <1>6, <2>1, <2>2 DEF Access!AllowedCall
<1>7. ASSUME UNCHANGED <<allowlist, accessMode, trust, project, hand, said, staleGrant, keptGrants,
                         strayed>>
      PROVE  AccessInv'
  <2>1. Access!LoadAllowlist' = Access!LoadAllowlist /\ Access!Lasting' = Access!Lasting
    BY <1>7 DEF Access!LoadAllowlist, Access!Lasting
  <2>2. QED
    BY <1>7, <2>1 DEF AccessInv, Access!AccessSound
<1>8. ASSUME NEW a \in Askers, Access!PromptedCall(a) PROVE AccessInv'
  <2>1. PICK c \in Access!Calls, scope \in {"once", "session", "project"} :
          CASE scope = "once" ->
                 UNCHANGED <<allowlist, sessionGrants, project, said, staleGrant, keptGrants>>
            [] scope = "project" /\ ~Access!CeilingIsSession(Access!Key(c)) ->
                 Access!GrantProject(a, Access!Key(c)) /\ said' = said \cup {Access!Key(c)}
            [] OTHER ->
                 /\ sessionGrants' = [sessionGrants EXCEPT ![a] = @ \cup {Access!Key(c)}]
                 /\ UNCHANGED <<allowlist, project, said, staleGrant, keptGrants>>
    BY <1>8 DEF Access!PromptedCall
  <2>2. UNCHANGED <<accessMode, trust, hand, strayed>> /\ accessMode[a] = "interactive"
    BY <1>8 DEF Access!PromptedCall
  <2>3. CASE scope = "project" /\ ~Access!CeilingIsSession(Access!Key(c))
    <3>1. Access!Key(c) \in Access!Commands
      <4>1. c.tool \in {"git", "git;rm", "cap@shell"}
        <5>1. CASE c \in [tool : Access!Commands, cwd : {"inside", "relative", "outside"}]
          BY <5>1 DEF Access!Commands
        <5>2. CASE c = [tool |-> "cap@shell", cwd |-> "inside"]
          BY <5>2
        <5>3. QED
          BY <5>1, <5>2 DEF Access!Calls
      <4>2. QED
        BY <2>3, <4>1 DEF Access!Key, Access!CeilingIsSession, Access!Commands
    <3>2. Access!GrantProject(a, Access!Key(c)) /\ said' = said \cup {Access!Key(c)}
      BY <2>1, <2>3
    <3>3. QED
      BY <2>2, <3>1, <3>2, ProjectGrantKeeps
  <2>4. CASE ~(scope = "project" /\ ~Access!CeilingIsSession(Access!Key(c)))
    <3>1. UNCHANGED <<allowlist, project, said, staleGrant, keptGrants>>
      BY <2>1, <2>4
    <3>2. QED
      BY <1>7, <2>2, <3>1
  <2>5. QED
    BY <2>3, <2>4
<1>9. CASE UNCHANGED Access!permVars
  BY <1>7, <1>9 DEF Access!permVars
<1>10. QED
  BY <1>1, <1>2, <1>3, <1>5, <1>6, <1>8, <1>9 DEF Access!Next

(***************************************************************************)
(* No call runs without a prompt but by somebody's leave, and no grant to  *)
(* the project is lost but by an agent whose list is not the file's        *)
(* (src/permission.rs, src/trust.rs, src/sandbox.rs, src/agent.rs).        *)
(***************************************************************************)
THEOREM AccessSoundHolds == Access!Spec => []AccessSound
<1>1. Access!Init => AccessInv
  <2> SUFFICES ASSUME Access!Init PROVE AccessInv
    OBVIOUS
  <2>1. /\ said = {} /\ hand = allowlist /\ staleGrant = FALSE /\ strayed = {}
        /\ keptGrants = Access!LoadAllowlist
        /\ \A a \in Askers : project[a] = {} /\ accessMode[a] = "off"
        /\ DOMAIN project = Askers /\ DOMAIN trust = Askers /\ DOMAIN accessMode = Askers
    BY DEF Access!Init
  <2>2. allowlist \in {Access!Absent, Access!Unreadable, {Access!Plain("git")},
                       {Access!Scoped("git")}, {Access!Star}}
    BY DEF Access!Init
  <2>3. QED
    BY <2>1, <2>2 DEF AccessInv, Access!AccessSound, Access!Lasting
<1>2. AccessInv /\ [Access!Next]_(Access!permVars) => AccessInv'
  BY AccessStep
<1>3. AccessInv => AccessSound
  BY DEF AccessInv, AccessSound
<1>4. QED
  BY <1>1, <1>2, <1>3, PTL DEF Access!Spec

-----------------------------------------------------------------------------
\* Sub-agents (Subagents): for any number of parents, children and messages.

SubsType ==
  /\ spawned \in Nat /\ 1 .. spawned \subseteq Subs!Children
  /\ DOMAIN child = Subs!Children
  /\ \A c \in 1 .. spawned :
       child[c] \in [parent : Parents, id : Subs!Ids, back : BOOLEAN, state : Subs!States]
  /\ DOMAIN registry = Subs!Ids
  /\ DOMAIN seq = Parents /\ \A p \in Parents : seq[p] \in 0 .. spawned
  /\ DOMAIN waiting = Parents /\ DOMAIN notices = Parents /\ DOMAIN told = Parents
  /\ DOMAIN inbox = Subs!Children /\ DOMAIN got = Subs!Children
  /\ \A m \in DOMAIN meant : meant[m] \in 1 .. spawned

\* Who has been told of whom: only of children that are over, and only the
\* parent of a child in the foreground waits.
Reports ==
  \A p \in Parents :
    /\ told[p] \cap notices[p] = {}
    /\ \A c \in notices[p] :
         c \in 1 .. spawned /\ child[c].parent = p /\ child[c].state = "done"
    /\ \A c \in told[p] :
         c \in 1 .. spawned /\ child[c].parent = p /\ child[c].state \in {"done", "panicked"}
    /\ \A c \in 1 .. spawned :
         child[c].parent = p /\ child[c].state = "done" => c \in told[p] \cup notices[p]
    /\ waiting[p] # 0 =>
         /\ waiting[p] \in 1 .. spawned /\ child[waiting[p]].parent = p
         /\ child[waiting[p]].back = FALSE
         /\ child[waiting[p]].state \in {"running", "ended", "unregistered"}

\* An id leads to a child that has it; what is promised to a child with an id
\* of its own.
Leads ==
  \A i \in Subs!Ids : registry[i] # 0 => registry[i] \in 1 .. spawned /\ child[registry[i]].id = i

Reached(c) ==
  /\ child[c].state \in {"running", "ended"} => registry[child[c].id] = c
  /\ \A m \in DOMAIN meant : meant[m] = c => m \in inbox[c] \cup got[c]
  /\ child[c].state # "running" => inbox[c] \subseteq late

Channels == Leads /\ \A c \in 1 .. spawned : Subs!Unique(c) => Reached(c)

SubsInv == SubsType /\ Reports /\ Channels

(***************************************************************************)
(* A child changes its state and nothing else, and no other child changes. *)
(***************************************************************************)
LEMMA BecomeFacts ==
  ASSUME SubsType, NEW c \in 1 .. spawned, NEW s \in Subs!States, Subs!Become(c, s)
  PROVE  /\ DOMAIN child' = Subs!Children
         /\ \A d \in 1 .. spawned :
              /\ child'[d] \in [parent : Parents, id : Subs!Ids, back : BOOLEAN,
                                state : Subs!States]
              /\ child'[d].parent = child[d].parent /\ child'[d].id = child[d].id
              /\ child'[d].back = child[d].back
              /\ child'[d].state = IF d = c THEN s ELSE child[d].state
<1>1. c \in Subs!Children
  BY DEF SubsType, Subs!Children
<1>2. child' = [child EXCEPT ![c] = [child[c] EXCEPT !.state = s]]
  BY DEF Subs!Become
<1>3. child[c] \in [parent : Parents, id : Subs!Ids, back : BOOLEAN, state : Subs!States]
  BY DEF SubsType
<1>4. QED
  BY <1>1, <1>2, <1>3 DEF SubsType

(***************************************************************************)
(* While ids stay as they are, a child has an id of its own or has not.    *)
(***************************************************************************)
LEMMA UniqueStays ==
  ASSUME SubsType, spawned' = spawned, \A d \in 1 .. spawned : child'[d].id = child[d].id,
         NEW c \in 1 .. spawned
  PROVE  Subs!Unique(c)' <=> Subs!Unique(c)
BY DEF Subs!Unique

(***************************************************************************)
(* Spawning (src/agent.rs spawn_sub_agent_fork, _fresh and _text): the new *)
(* child takes over the id, if another parent's child has it already.      *)
(***************************************************************************)
LEMMA SpawnStep ==
  ASSUME Subs!SubagentAssumption, SubsInv, NEW p \in Parents, Subs!Spawn(p)
  PROVE  SubsInv'
<1> DEFINE n == spawned + 1
<1>1. PICK back \in BOOLEAN :
        /\ child' = [child EXCEPT ![n] =
                       [parent |-> p, id |-> seq[p], back |-> back, state |-> "running"]]
        /\ waiting' = IF back THEN waiting ELSE [waiting EXCEPT ![p] = n]
  BY DEF Subs!Spawn
<1>2. /\ spawned \in Nat /\ spawned < MaxChildren /\ n \in Subs!Children /\ n \notin 1 .. spawned
      /\ spawned' = n /\ MaxChildren \in Nat
      /\ 1 .. spawned' = 1 .. spawned \cup {n} /\ seq[p] \in Subs!Ids
  BY DEF Subs!Spawn, SubsInv, SubsType, Subs!Children, Subs!Ids, Subs!SubagentAssumption
<1>3. /\ child'[n] = [parent |-> p, id |-> seq[p], back |-> back, state |-> "running"]
      /\ \A d \in 1 .. spawned : child'[d] = child[d]
      /\ DOMAIN child' = Subs!Children
  BY <1>1, <1>2 DEF SubsInv, SubsType, Subs!Children
<1>4. registry' = [registry EXCEPT ![seq[p]] = n] /\ seq' = [seq EXCEPT ![p] = @ + 1]
      /\ UNCHANGED <<notices, told, inbox, got, meant, late>>
  BY <1>2 DEF Subs!Spawn
<1>5. SubsType'
  <2>1. \A q \in Parents : seq'[q] \in 0 .. spawned'
    BY <1>2, <1>4 DEF SubsInv, SubsType
  <2>2. child'[n] \in [parent : Parents, id : Subs!Ids, back : BOOLEAN, state : Subs!States]
    BY <1>2, <1>3 DEF Subs!States
  <2>3. \A c \in 1 .. spawned' :
          child'[c] \in [parent : Parents, id : Subs!Ids, back : BOOLEAN, state : Subs!States]
    BY <1>2, <1>3, <2>2 DEF SubsInv, SubsType
  <2>4. DOMAIN waiting' = Parents
    BY <1>1 DEF SubsInv, SubsType
  <2>5. QED
    BY <1>2, <1>3, <1>4, <2>1, <2>3, <2>4 DEF SubsInv, SubsType
<1>6. Reports'
  <2> SUFFICES ASSUME NEW q \in Parents
               PROVE  /\ told[q] \cap notices[q] = {}
                      /\ \A c \in notices[q] : /\ c \in 1 .. spawned' /\ child'[c].parent = q
                                               /\ child'[c].state = "done"
                      /\ \A c \in told[q] : /\ c \in 1 .. spawned' /\ child'[c].parent = q
                                            /\ child'[c].state \in {"done", "panicked"}
                      /\ \A c \in 1 .. spawned' : child'[c].parent = q /\ child'[c].state = "done"
                                                    => c \in told[q] \cup notices[q]
                      /\ waiting'[q] # 0 =>
                           /\ waiting'[q] \in 1 .. spawned' /\ child'[waiting'[q]].parent = q
                           /\ child'[waiting'[q]].back = FALSE
                           /\ child'[waiting'[q]].state \in {"running", "ended", "unregistered"}
    BY <1>4 DEF Reports
  <2>1. waiting'[q] = waiting[q] \/ (q = p /\ waiting'[q] = n /\ back = FALSE)
    BY <1>1 DEF SubsInv, SubsType
  <2>2. waiting'[q] # 0 =>
          /\ waiting'[q] \in 1 .. spawned' /\ child'[waiting'[q]].parent = q
          /\ child'[waiting'[q]].back = FALSE
          /\ child'[waiting'[q]].state \in {"running", "ended", "unregistered"}
    BY <1>2, <1>3, <2>1 DEF SubsInv, Reports
  <2>3. QED
    BY <1>2, <1>3, <2>2 DEF SubsInv, Reports
<1>7. Leads'
  BY <1>2, <1>3, <1>4 DEF SubsInv, SubsType, Channels, Leads
<1>8. ASSUME NEW c \in 1 .. spawned', Subs!Unique(c)' PROVE Reached(c)'
  <2>1. CASE c = n
    <3>1. registry'[child'[c].id] = c /\ child'[c].state = "running"
      BY <1>2, <1>3, <1>4, <2>1 DEF SubsInv, SubsType
    <3>2. \A m \in DOMAIN meant : meant[m] # c
      BY <1>2, <2>1 DEF SubsInv, SubsType
    <3>3. QED
      BY <1>4, <3>1, <3>2 DEF Reached
  <2>2. CASE c # n
    <3>1. c \in 1 .. spawned /\ Subs!Unique(c) /\ child[c].id # seq[p]
      BY <1>2, <1>3, <1>8, <2>2 DEF Subs!Unique
    <3>2. registry'[child[c].id] = registry[child[c].id]
      BY <1>2, <1>4, <3>1 DEF SubsInv, SubsType
    <3>3. QED
      BY <1>3, <1>4, <3>1, <3>2 DEF SubsInv, Channels, Reached
  <2>3. QED
    BY <2>1, <2>2
<1>9. QED
  BY <1>5, <1>6, <1>7, <1>8 DEF SubsInv, Channels

(***************************************************************************)
(* Sending (src/tool/send_message.rs): an id of a child's own leads to it, *)
(* or nowhere.                                                             *)
(***************************************************************************)
LEMMA SendStep ==
  ASSUME SubsInv, NEW c \in 1 .. spawned, Subs!Send(c)
  PROVE  SubsInv'
<1> DEFINE to == registry[child[c].id]
           m == Subs!Cardinality(Subs!Sent) + 1
<1>1. /\ to # 0
      /\ meant' = [k \in Subs!Sent \cup {m} |-> IF k = m THEN c ELSE meant[k]]
      /\ inbox' = [inbox EXCEPT ![to] = @ \cup {m}]
      /\ late' = IF Subs!Live(to) THEN late ELSE late \cup {m}
      /\ UNCHANGED <<spawned, child, registry, seq, waiting, notices, told, got>>
  BY DEF Subs!Send
<1> HIDE DEF m
<1>2. child[c].id \in Subs!Ids /\ to \in 1 .. spawned /\ child[to].id = child[c].id
  BY <1>1 DEF SubsInv, SubsType, Channels, Leads
<1>3. to \in Subs!Children
  BY <1>2 DEF SubsInv, SubsType, Subs!Children
<1>4. /\ \A d \in 1 .. spawned : inbox[d] \subseteq inbox'[d] /\ (d # to => inbox'[d] = inbox[d])
      /\ inbox'[to] = inbox[to] \cup {m}
      /\ DOMAIN inbox' = Subs!Children
  BY <1>1, <1>3 DEF SubsInv, SubsType, Subs!Children
<1>5. SubsType'
  BY <1>1, <1>4 DEF SubsInv, SubsType, Subs!Sent
<1>6. Reports' /\ Leads'
  BY <1>1 DEF SubsInv, Reports, Channels, Leads
<1>7. ASSUME NEW d \in 1 .. spawned', Subs!Unique(d)' PROVE Reached(d)'
  <2>1. d \in 1 .. spawned /\ Subs!Unique(d) /\ Reached(d)
    BY <1>1, <1>7 DEF Subs!Unique, SubsInv, Channels
  <2>2. \A k \in DOMAIN meant' : meant'[k] = d => k \in inbox'[d] \cup got'[d]
    <3> SUFFICES ASSUME NEW k \in DOMAIN meant', meant'[k] = d PROVE k \in inbox'[d] \cup got'[d]
      OBVIOUS
    <3>1. CASE k = m
      <4>1. c = d
        BY <1>1, <3>1
      <4>2. to = d
        BY <1>2, <2>1, <4>1 DEF Subs!Unique
      <4>3. QED
        BY <1>4, <3>1, <4>2
    <3>2. CASE k # m
      BY <1>1, <1>4, <2>1, <3>2 DEF Reached, Subs!Sent
    <3>3. QED
      BY <3>1, <3>2
  <2>3. child'[d].state # "running" => inbox'[d] \subseteq late'
    BY <1>1, <1>4, <2>1 DEF Reached, Subs!Live
  <2>4. QED
    BY <1>1, <2>1, <2>2, <2>3 DEF Reached
<1>8. QED
  BY <1>5, <1>6, <1>7 DEF SubsInv, Channels

(***************************************************************************)
(* A child that drains its channel, or goes on to its next state, keeps    *)
(* what is promised to the children (src/agent.rs).                        *)
(***************************************************************************)
LEMMA ChannelsKept ==
  ASSUME SubsInv, spawned' = spawned, meant' = meant, DOMAIN got' = Subs!Children,
         DOMAIN inbox' = Subs!Children, DOMAIN registry' = Subs!Ids,
         \A d \in 1 .. spawned : child'[d].id = child[d].id,
         \A i \in Subs!Ids : registry'[i] = registry[i] \/ registry'[i] = 0,
         NEW c \in 1 .. spawned,
         \A d \in 1 .. spawned :
           /\ Subs!Unique(d) /\ child'[d].state \in {"running", "ended"} =>
                child[d].state \in {"running", "ended"} /\ registry'[child[d].id] = registry[child[d].id]
           /\ inbox[d] \cup got[d] \subseteq inbox'[d] \cup got'[d]
           /\ inbox'[d] \subseteq inbox[d]
           /\ child'[d].state # "running" => child[d].state # "running" \/ inbox'[d] \subseteq late',
         late \subseteq late'
  PROVE  Channels'
<1>1. Leads'
  BY DEF SubsInv, Channels, Leads
<1>2. ASSUME NEW d \in 1 .. spawned, Subs!Unique(d)' PROVE Reached(d)'
  <2>1. Subs!Unique(d)
    BY <1>2, UniqueStays DEF SubsInv
  <2>2. Reached(d)
    BY <2>1 DEF SubsInv, Channels
  <2>3. QED
    BY <2>1, <2>2 DEF Reached
<1>3. QED
  BY <1>1, <1>2 DEF Channels

(***************************************************************************)
(* Every step of a parent, of a child and of a message keeps the invariant.*)
(***************************************************************************)
LEMMA SubsStep ==
  ASSUME Subs!SubagentAssumption, SubsInv, [Subs!Next]_(Subs!subVars)
  PROVE  SubsInv'
<1>1. ASSUME NEW p \in Parents, Subs!DrainNotices(p) PROVE SubsInv'
  <2>1. /\ told' = [told EXCEPT ![p] = @ \cup notices[p]]
        /\ notices' = [notices EXCEPT ![p] = {}]
        /\ UNCHANGED <<spawned, child, registry, seq, waiting, inbox, got, meant, late>>
    BY <1>1 DEF Subs!DrainNotices
  <2>2. SubsType'
    BY <2>1 DEF SubsInv, SubsType
  <2>3. \A q \in Parents : /\ told'[q] = IF q = p THEN told[q] \cup notices[q] ELSE told[q]
                           /\ notices'[q] = IF q = p THEN {} ELSE notices[q]
    BY <2>1 DEF SubsInv, SubsType
  <2>4. Reports'
    BY <2>1, <2>3 DEF SubsInv, Reports
  <2>5. Channels'
    BY <2>1 DEF SubsInv, Channels, Leads, Reached, Subs!Unique
  <2>6. QED
    BY <2>2, <2>4, <2>5 DEF SubsInv
<1>2. ASSUME NEW c \in 1 .. spawned, Subs!Drain(c) PROVE SubsInv'
  <2>1. /\ got' = [got EXCEPT ![c] = @ \cup inbox[c]] /\ inbox' = [inbox EXCEPT ![c] = {}]
        /\ UNCHANGED <<spawned, child, registry, seq, waiting, notices, told, meant, late>>
    BY <1>2 DEF Subs!Drain
  <2>2. SubsType'
    BY <2>1 DEF SubsInv, SubsType
  <2>3. Reports'
    BY <2>1 DEF SubsInv, Reports
  <2>4. 1 .. spawned \subseteq Subs!Children
    BY DEF SubsInv, SubsType, Subs!Children
  <2>5. \A d \in 1 .. spawned : /\ inbox[d] \cup got[d] \subseteq inbox'[d] \cup got'[d]
                                /\ inbox'[d] \subseteq inbox[d]
    BY <2>1, <2>4 DEF SubsInv, SubsType
  <2>6. DOMAIN got' = Subs!Children /\ DOMAIN inbox' = Subs!Children /\ DOMAIN registry' = Subs!Ids
    BY <2>1 DEF SubsInv, SubsType
  <2>7. Channels'
    BY <2>1, <2>5, <2>6, ChannelsKept
  <2>8. QED
    BY <2>2, <2>3, <2>7 DEF SubsInv
<1>3. ASSUME NEW c \in 1 .. spawned, NEW s \in {"ended", "unregistered"}, Subs!Become(c, s),
             child[c].state = IF s = "ended" THEN "running" ELSE "ended",
             s = "ended" => registry' = registry /\ inbox[c] \subseteq late',
             s = "unregistered" => registry' = [registry EXCEPT ![child[c].id] = 0],
             late \subseteq late',
             UNCHANGED <<spawned, seq, waiting, notices, told, inbox, got, meant>>
      PROVE  SubsInv'
  <2>1. /\ DOMAIN child' = Subs!Children
        /\ \A d \in 1 .. spawned :
             /\ child'[d] \in [parent : Parents, id : Subs!Ids, back : BOOLEAN, state : Subs!States]
             /\ child'[d].parent = child[d].parent /\ child'[d].id = child[d].id
             /\ child'[d].back = child[d].back
             /\ child'[d].state = IF d = c THEN s ELSE child[d].state
    BY <1>3, BecomeFacts DEF SubsInv, Subs!States
  <2>2. DOMAIN registry' = Subs!Ids
        /\ \A i \in Subs!Ids : registry'[i] = registry[i] \/ (registry'[i] = 0 /\ i = child[c].id
                                                             /\ s = "unregistered")
    BY <1>3 DEF SubsInv, SubsType
  <2>3. SubsType'
    BY <1>3, <2>1, <2>2 DEF SubsInv, SubsType
  <2>4. Reports'
    BY <1>3, <2>1 DEF SubsInv, Reports
  <2>5. \A d \in 1 .. spawned :
          Subs!Unique(d) /\ child'[d].state \in {"running", "ended"} =>
            child[d].state \in {"running", "ended"} /\ registry'[child[d].id] = registry[child[d].id]
    <3> SUFFICES ASSUME NEW d \in 1 .. spawned, Subs!Unique(d), child'[d].state \in {"running", "ended"}
                 PROVE  child[d].state \in {"running", "ended"}
                        /\ registry'[child[d].id] = registry[child[d].id]
      OBVIOUS
    <3>1. s = "unregistered" => d # c /\ child[d].id # child[c].id
      BY <2>1 DEF Subs!Unique
    <3>2. child[d].id \in Subs!Ids
      BY DEF SubsInv, SubsType
    <3>3. QED
      BY <1>3, <2>1, <2>2, <3>1, <3>2
  <2>6. Channels'
    <3>1. \A d \in 1 .. spawned :
            child'[d].state # "running" => child[d].state # "running" \/ inbox'[d] \subseteq late'
      BY <1>3, <2>1
    <3>2. DOMAIN got' = Subs!Children /\ DOMAIN inbox' = Subs!Children
      BY <1>3 DEF SubsInv, SubsType
    <3>3. QED
      BY <1>3, <2>1, <2>2, <2>5, <3>1, <3>2, ChannelsKept
  <2>7. QED
    BY <2>3, <2>4, <2>6 DEF SubsInv
<1>4. ASSUME NEW c \in 1 .. spawned, Subs!EndTurn(c) \/ Subs!BreakTurn(c) PROVE SubsInv'
  BY <1>3, <1>4 DEF Subs!EndTurn, Subs!BreakTurn, Subs!Live
<1>5. ASSUME NEW c \in 1 .. spawned, Subs!Unregister(c) PROVE SubsInv'
  BY <1>3, <1>5 DEF Subs!Unregister
<1>6. ASSUME NEW c \in 1 .. spawned, NEW s \in {"done", "panicked"}, Subs!Become(c, s),
             child[c].state = IF s = "done" THEN "unregistered" ELSE "running",
             s = "panicked" => inbox[c] \subseteq late', late \subseteq late',
             IF child[c].back
             THEN /\ UNCHANGED <<told, waiting>>
                  /\ IF s = "done"
                     THEN notices' = [notices EXCEPT ![child[c].parent] = @ \cup {c}]
                     ELSE UNCHANGED notices
             ELSE /\ told' = [told EXCEPT ![child[c].parent] = @ \cup {c}]
                  /\ waiting' = [waiting EXCEPT ![child[c].parent] = 0] /\ UNCHANGED notices,
             UNCHANGED <<spawned, registry, seq, inbox, got, meant>>
      PROVE  SubsInv'
  <2> DEFINE p == child[c].parent
  <2>1. /\ DOMAIN child' = Subs!Children
        /\ \A d \in 1 .. spawned :
             /\ child'[d] \in [parent : Parents, id : Subs!Ids, back : BOOLEAN, state : Subs!States]
             /\ child'[d].parent = child[d].parent /\ child'[d].id = child[d].id
             /\ child'[d].back = child[d].back
             /\ child'[d].state = IF d = c THEN s ELSE child[d].state
    BY <1>6, BecomeFacts DEF SubsInv, Subs!States
  <2>2. p \in Parents /\ child[c].back \in BOOLEAN
    BY DEF SubsInv, SubsType
  <2>3. \A q \in Parents \ {p} : told'[q] = told[q] /\ notices'[q] = notices[q] /\ waiting'[q] = waiting[q]
    BY <1>6, <2>2 DEF SubsInv, SubsType
  <2>4. \/ /\ child[c].back = TRUE /\ told'[p] = told[p] /\ waiting'[p] = waiting[p]
           /\ notices'[p] = IF s = "done" THEN notices[p] \cup {c} ELSE notices[p]
        \/ /\ child[c].back = FALSE /\ told'[p] = told[p] \cup {c} /\ waiting'[p] = 0
           /\ notices'[p] = notices[p]
    BY <1>6, <2>2 DEF SubsInv, SubsType
  <2>5. DOMAIN told' = Parents /\ DOMAIN notices' = Parents /\ DOMAIN waiting' = Parents
    BY <1>6 DEF SubsInv, SubsType
  <2>6. SubsType'
    BY <1>6, <2>1, <2>5 DEF SubsInv, SubsType
  <2>7. c \notin told[p] /\ c \notin notices[p]
    BY <1>6, <2>2 DEF SubsInv, Reports
  <2>8. Reports'
    <3> SUFFICES ASSUME NEW q \in Parents
                 PROVE  /\ told'[q] \cap notices'[q] = {}
                        /\ \A d \in notices'[q] : /\ d \in 1 .. spawned' /\ child'[d].parent = q
                                                  /\ child'[d].state = "done"
                        /\ \A d \in told'[q] : /\ d \in 1 .. spawned' /\ child'[d].parent = q
                                               /\ child'[d].state \in {"done", "panicked"}
                        /\ \A d \in 1 .. spawned' : child'[d].parent = q /\ child'[d].state = "done"
                                                     => d \in told'[q] \cup notices'[q]
                        /\ waiting'[q] # 0 =>
                             /\ waiting'[q] \in 1 .. spawned' /\ child'[waiting'[q]].parent = q
                             /\ child'[waiting'[q]].back = FALSE
                             /\ child'[waiting'[q]].state \in {"running", "ended", "unregistered"}
      BY DEF Reports
    <3>1. /\ told[q] \cap notices[q] = {}
          /\ \A d \in notices[q] : d \in 1 .. spawned /\ child[d].parent = q /\ child[d].state = "done"
          /\ \A d \in told[q] : /\ d \in 1 .. spawned /\ child[d].parent = q
                                /\ child[d].state \in {"done", "panicked"}
          /\ \A d \in 1 .. spawned : child[d].parent = q /\ child[d].state = "done"
                                       => d \in told[q] \cup notices[q]
          /\ waiting[q] # 0 =>
               /\ waiting[q] \in 1 .. spawned /\ child[waiting[q]].parent = q
               /\ child[waiting[q]].back = FALSE
               /\ child[waiting[q]].state \in {"running", "ended", "unregistered"}
      BY DEF SubsInv, Reports
    <3>2. CASE q # p
      BY <1>6, <2>1, <2>3, <3>1, <3>2
    <3>3. CASE q = p
      <4>1. told'[q] \cap notices'[q] = {}
        BY <2>4, <2>7, <3>1, <3>3
      <4>2. \A d \in notices'[q] : /\ d \in 1 .. spawned' /\ child'[d].parent = q
                                   /\ child'[d].state = "done"
        BY <1>6, <2>1, <2>4, <3>1, <3>3
      <4>3. \A d \in told'[q] : /\ d \in 1 .. spawned' /\ child'[d].parent = q
                                /\ child'[d].state \in {"done", "panicked"}
        BY <1>6, <2>1, <2>4, <3>1, <3>3
      <4>4. \A d \in 1 .. spawned' : child'[d].parent = q /\ child'[d].state = "done"
                                      => d \in told'[q] \cup notices'[q]
        BY <1>6, <2>1, <2>4, <3>1, <3>3
      <4>5. waiting'[q] # 0 => waiting'[q] = waiting[q] /\ waiting[q] # c
        BY <2>4, <3>1, <3>3
      <4>6. QED
        BY <1>6, <2>1, <3>1, <4>1, <4>2, <4>3, <4>4, <4>5
    <3>4. QED
      BY <3>2, <3>3
  <2>9. Channels'
    <3>1. \A d \in 1 .. spawned :
            /\ child'[d].state \in {"running", "ended"} => child[d].state \in {"running", "ended"}
            /\ child'[d].state # "running" => child[d].state # "running" \/ inbox'[d] \subseteq late'
      BY <1>6, <2>1
    <3>2. DOMAIN got' = Subs!Children /\ DOMAIN inbox' = Subs!Children /\ DOMAIN registry' = Subs!Ids
      BY <1>6 DEF SubsInv, SubsType
    <3>3. QED
      BY <1>6, <2>1, <3>1, <3>2, ChannelsKept
  <2>10. QED
    BY <2>6, <2>8, <2>9 DEF SubsInv
<1>7. ASSUME NEW c \in 1 .. spawned, Subs!Report(c) PROVE SubsInv'
  BY <1>6, <1>7 DEF Subs!Report
<1>8. ASSUME NEW c \in 1 .. spawned, Subs!Panic(c) PROVE SubsInv'
  BY <1>6, <1>8 DEF Subs!Panic, Subs!Live
<1>9. CASE UNCHANGED Subs!subVars
  BY <1>9 DEF Subs!subVars, SubsInv, SubsType, Reports, Channels, Leads, Reached, Subs!Unique
<1>10. QED
  BY <1>1, <1>2, <1>4, <1>5, <1>7, <1>8, <1>9, SpawnStep, SendStep DEF Subs!Next, Subs!ChildSteps

(***************************************************************************)
(* Sub-agents are reported once and to their own parents, and messages     *)
(* reach the child they were meant for (src/agent.rs,                      *)
(* src/tool/send_message.rs).                                              *)
(***************************************************************************)
THEOREM SubagentsSoundHolds == Subs!Spec => []SubagentsSound
<1>0. Subs!SubagentAssumption
  BY AgentComponentsAssumption
<1>1. Subs!Init => SubsInv
  <2> SUFFICES ASSUME Subs!Init PROVE SubsInv
    OBVIOUS
  <2>1. SubsType
    BY <1>0 DEF Subs!Init, SubsType, Subs!Children, Subs!Ids, Subs!SubagentAssumption
  <2>2. Reports /\ Channels
    BY DEF Subs!Init, Reports, Channels, Leads
  <2>3. QED
    BY <2>1, <2>2 DEF SubsInv
<1>2. SubsInv /\ [Subs!Next]_(Subs!subVars) => SubsInv'
  BY <1>0, SubsStep
<1>3. SubsInv => SubagentsSound
  BY DEF SubsInv, SubsType, Reports, Channels, Reached, SubagentsSound, Subs!SubagentsSound,
     Subs!In, Subs!Sent, Subs!Live, Subs!Unique
<1>4. QED
  BY <1>1, <1>2, <1>3, PTL DEF Subs!Spec

-----------------------------------------------------------------------------
\* A shell command (CommandRuns): with or without a time limit.

Watching == {"watch_cancel", "watch_deadline", "watch_exit"}

\* Where the call is says what may have become of the child: while it watches,
\* nobody but the command itself has ended it, and there is no result yet.
CommandInv ==
  /\ commandAt \in {"entry", "join", "done"} \cup Watching
  /\ shell \in {"none", "running", "exited", "failed", "killed"}
  /\ commandAt = "entry" => shell = "none" /\ commandResult = "none"
  /\ commandAt \in Watching => shell \in {"running", "exited", "failed"} /\ commandResult = "none"
  /\ commandAt = "join" => shell # "running"
  /\ Command!CommandSound

(***************************************************************************)
(* The invariant of run_shell_cancellable's loop and of its two exits      *)
(* (src/tool/builtin.rs): every step of the call, of the command, of the   *)
(* user and of the clock preserves it.                                     *)
(***************************************************************************)
LEMMA CommandInvStep ==
  ASSUME Command!CommandAssumption, CommandInv, [Command!Next]_(Command!commandVars)
  PROVE  CommandInv'
<1> USE DEF CommandInv, Watching, Command!CommandSound, Command!CommandAssumption
<1>1. CASE Command!Entry
  BY <1>1 DEF Command!Entry
<1>2. CASE Command!WatchCancel
  BY <1>2 DEF Command!WatchCancel, Command!Kill
<1>3. CASE Command!WatchDeadline
  BY <1>3 DEF Command!WatchDeadline, Command!Kill
<1>4. CASE Command!WatchExit
  BY <1>4 DEF Command!WatchExit
<1>5. CASE Command!Join
  BY <1>5 DEF Command!Join
<1>6. CASE Command!Exits
  BY <1>6 DEF Command!Exits
<1>7. CASE Command!Detaches \/ Command!HolderEnds
  BY <1>7 DEF Command!Detaches, Command!HolderEnds
<1>8. CASE Command!Cancel \/ Command!Overdue
  BY <1>8 DEF Command!Cancel, Command!Overdue
<1>9. CASE UNCHANGED Command!commandVars
  BY <1>9 DEF Command!commandVars
<1>10. QED
  BY <1>1, <1>2, <1>3, <1>4, <1>5, <1>6, <1>7, <1>8, <1>9 DEF Command!Next, Command!Steps

(***************************************************************************)
(* The invariant, and with it CommandSound, holds of every call            *)
(* (src/tool/builtin.rs).                                                  *)
(***************************************************************************)
THEOREM CommandSoundHolds ==
  ASSUME Command!CommandAssumption
  PROVE  Command!Spec => []Command!CommandSound
<1>1. Command!Init => CommandInv
  BY DEF Command!Init, CommandInv, Watching, Command!CommandSound
<1>2. CommandInv /\ [Command!Next]_(Command!commandVars) => CommandInv'
  BY CommandInvStep
<1>3. CommandInv => Command!CommandSound
  BY DEF CommandInv
<1>4. QED
  BY <1>1, <1>2, <1>3, PTL DEF Command!Spec

-----------------------------------------------------------------------------
\* The files agents write side by side (AuthoredFiles): for any number of
\* agents and of writings.

Calls == {"idle", "edit", "text", "skill", "draft", "promote", "promoted", "remove"}
StepType == [do : Calls, held : SUBSET Nat]

FilesType ==
  /\ fileDisk \in [Files!Paths -> SUBSET Nat] /\ writes \in Nat
  /\ step \in [Authors -> StepType]
  /\ look \in [by : Files!Readers, at : {"none", "prompts", "done"},
               seen : SUBSET {"skill", "draft"}, usable : BOOLEAN, crossed : BOOLEAN]

\* What a call will write is not nothing; when it has begun the skill, there is one.
Promotes(a) ==
  /\ step[a].do \in {"skill", "draft", "promote", "promoted", "remove"} => step[a].held # {}
  /\ step[a].do \in {"skill", "promoted", "remove"} => fileDisk["skill"] # {}

\* What an agent holds read is what there is, unless it was overlapped.
Holds(a) ==
  /\ step[a].do = "edit" /\ <<a, "text">> \notin overlapped => step[a].held = fileDisk["text"]
  /\ step[a].do = "promote" /\ <<a, "skill">> \notin overlapped => fileDisk["skill"] = {}
  /\ step[a].do \in {"promote", "promoted", "remove"} /\ <<a, "draft">> \notin overlapped =>
       fileDisk["draft"] \in {{}, step[a].held}

Parts(f) == 0 \in fileDisk[f] => f \in fileSpoiled \/ \E a \in Authors : Files!Filling(a, f)

\* A reader that nothing crossed has seen what was usable, or still can.
Looks ==
  look.usable /\ ~look.crossed /\ look.seen = {} =>
    /\ look.at # "done"
    /\ look.at = "prompts" =>
         fileDisk["draft"] # {} /\ \A a \in Authors : step[a].do \notin {"promoted", "remove"}

FilesInv ==
  /\ FilesType /\ Looks /\ (authored => Files!Usable)
  /\ \A a \in Authors : Promotes(a) /\ Holds(a)
  /\ \A f \in Files!Paths : Parts(f)

(***************************************************************************)
(* What a write to a file overlaps.                                        *)
(***************************************************************************)
LEMMA OthersMarked ==
  ASSUME NEW a \in Authors, NEW f, NEW states, NEW b \in Authors, NEW g
  PROVE  <<b, g>> \in Files!OthersIn(a, f, states)
           <=> b # a /\ g = f /\ <<step[b].do, f>> \in states
BY DEF Files!OthersIn

LEMMA PastOthers ==
  ASSUME NEW a \in Authors, NEW b \in Authors, NEW f \in Files!Paths
  PROVE  b # a => (<<b, f>> \in Files!Past(a) <=> <<b, f>> \in overlapped)
BY DEF Files!Past

(***************************************************************************)
(* The calls of the other agents, when one moves on and one file at most   *)
(* changes: whoever relied on it is marked.                                *)
(***************************************************************************)
LEMMA OthersKept ==
  ASSUME FilesInv, NEW a \in Authors, NEW s \in StepType, NEW f \in Files!Paths,
         NEW v \in SUBSET Nat,
         step' = [step EXCEPT ![a] = s], fileDisk' = [fileDisk EXCEPT ![f] = v],
         \A b \in Authors, g \in Files!Paths :
           b # a /\ <<b, g>> \in overlapped => <<b, g>> \in overlapped',
         v = fileDisk[f] \/ (f = "draft" /\ v = {})
           \/ \A b \in Authors : b # a /\ <<step[b].do, f>> \in Files!Relies => <<b, f>> \in overlapped',
         f = "skill" /\ v = {} => fileDisk[f] = {},
         writes' \in Nat
  PROVE  /\ step' \in [Authors -> StepType] /\ step'[a] = s
         /\ \A b \in Authors : b # a => step'[b] = step[b]
         /\ fileDisk' \in [Files!Paths -> SUBSET Nat] /\ fileDisk'[f] = v
         /\ \A g \in Files!Paths : g # f => fileDisk'[g] = fileDisk[g]
         /\ \A b \in Authors : b # a => Promotes(b)' /\ Holds(b)'
<1>1. /\ step' \in [Authors -> StepType] /\ step'[a] = s
      /\ \A b \in Authors : b # a => step'[b] = step[b]
  BY DEF FilesInv, FilesType
<1>2. /\ fileDisk' \in [Files!Paths -> SUBSET Nat] /\ fileDisk'[f] = v
      /\ \A g \in Files!Paths : g # f => fileDisk'[g] = fileDisk[g]
  BY DEF FilesInv, FilesType
<1>3. "text" \in Files!Paths /\ "skill" \in Files!Paths /\ "draft" \in Files!Paths
  BY DEF Files!Paths
<1>4. ASSUME NEW b \in Authors, b # a
      PROVE  Promotes(b)' /\ Holds(b)'
  <2>1. Promotes(b) /\ Holds(b) /\ step'[b] = step[b]
    BY <1>1, <1>4 DEF FilesInv
  <2>2. fileDisk["skill"] # {} => fileDisk'["skill"] # {}
    BY <1>2, <1>3
  <2>3. Promotes(b)'
    BY <2>1, <2>2 DEF Promotes
  <2>4. \A g \in Files!Paths :
          <<step[b].do, g>> \in Files!Relies /\ <<b, g>> \notin overlapped' =>
            /\ <<b, g>> \notin overlapped
            /\ fileDisk'[g] = fileDisk[g] \/ (g = "draft" /\ fileDisk'[g] = {})
    BY <1>2, <1>4
  <2>5. Holds(b)'
    <3>1. ASSUME step[b].do = "edit", <<b, "text">> \notin overlapped'
          PROVE  step[b].held = fileDisk'["text"]
      <4>1. <<step[b].do, "text">> \in Files!Relies
        BY <3>1 DEF Files!Relies
      <4>2. QED
        BY <1>3, <2>1, <2>4, <3>1, <4>1 DEF Holds
    <3>2. ASSUME step[b].do = "promote", <<b, "skill">> \notin overlapped'
          PROVE  fileDisk'["skill"] = {}
      <4>1. <<step[b].do, "skill">> \in Files!Relies
        BY <3>2 DEF Files!Relies
      <4>2. QED
        BY <1>3, <2>1, <2>4, <3>2, <4>1 DEF Holds
    <3>3. ASSUME step[b].do \in {"promote", "promoted", "remove"}, <<b, "draft">> \notin overlapped'
          PROVE  fileDisk'["draft"] \in {{}, step[b].held}
      <4>1. <<step[b].do, "draft">> \in Files!Relies
        BY <3>3 DEF Files!Relies
      <4>2. QED
        BY <1>3, <2>1, <2>4, <3>3, <4>1 DEF Holds
    <3>4. QED
      BY <2>1, <3>1, <3>2, <3>3 DEF Holds
  <2>6. QED
    BY <2>3, <2>5
<1>5. QED
  BY <1>1, <1>2, <1>4

(***************************************************************************)
(* The first half of a write: the file is in part, and a is filling it.    *)
(***************************************************************************)
LEMMA TruncateKeeps ==
  ASSUME FilesInv, NEW a \in Authors, NEW do \in Calls, NEW f \in Files!Paths,
         NEW content \in SUBSET Nat, Files!Truncate(a, do, f, content),
         <<do, f>> \in Files!Fills, \A g \in Files!Paths : ~Files!Filling(a, g),
         content # {}, writes' \in Nat,
         do = "promoted" => step[a].do = "promote" /\ content = step[a].held,
         authored' => authored \/ f # "text",
         \/ look' = look /\ do # "promoted"
         \/ look' = [look EXCEPT !.crossed = @ \/ look.at = "prompts"]
  PROVE  FilesInv'
<1> DEFINE s == [do |-> do, held |-> content]
<1> DEFINE v == content \cup {0}
<1>1. s \in StepType /\ s.do = do /\ s.held = content /\ v \in SUBSET Nat /\ v # {}
  BY DEF StepType
<1>2. /\ step' = [step EXCEPT ![a] = s] /\ fileDisk' = [fileDisk EXCEPT ![f] = v]
      /\ overlapped' = (overlapped \ {<<a, f>>}) \cup Files!OthersIn(a, f, Files!Relies)
      /\ fileSpoiled' = fileSpoiled \ {f}
  BY DEF Files!Truncate
<1>3. /\ \A b \in Authors, g \in Files!Paths :
           b # a /\ <<b, g>> \in overlapped => <<b, g>> \in overlapped'
      /\ \A b \in Authors : b # a /\ <<step[b].do, f>> \in Files!Relies => <<b, f>> \in overlapped'
      /\ \A g \in Files!Paths : g # f => (<<a, g>> \in overlapped' <=> <<a, g>> \in overlapped)
  BY <1>2, OthersMarked
<1> HIDE DEF s, v
<1>4. /\ step' \in [Authors -> StepType] /\ step'[a] = s
      /\ \A b \in Authors : b # a => step'[b] = step[b]
      /\ fileDisk' \in [Files!Paths -> SUBSET Nat] /\ fileDisk'[f] = v
      /\ \A g \in Files!Paths : g # f => fileDisk'[g] = fileDisk[g]
      /\ \A b \in Authors : b # a => Promotes(b)' /\ Holds(b)'
  BY <1>1, <1>2, <1>3, OthersKept
<1>5. \/ f = "text" /\ do = "text"
      \/ f = "skill" /\ do \in {"skill", "promoted"}
      \/ f = "draft" /\ do = "draft"
  BY DEF Files!Fills
<1>6. "text" \in Files!Paths /\ "skill" \in Files!Paths /\ "draft" \in Files!Paths
  BY DEF Files!Paths
<1>7. Promotes(a)'
  BY <1>1, <1>4, <1>5 DEF Promotes
<1>8. Holds(a)'
  <2>1. Holds(a)
    BY DEF FilesInv
  <2>2. QED
    BY <1>1, <1>3, <1>4, <1>5, <1>6, <2>1 DEF Holds
<1>9. \A g \in Files!Paths : Parts(g)'
  <2>1. Files!Filling(a, f)'
    BY <1>1, <1>4 DEF Files!Filling
  <2>2. ASSUME NEW g \in Files!Paths, g # f, 0 \in fileDisk'[g], g \notin fileSpoiled'
        PROVE  \E b \in Authors : Files!Filling(b, g)'
    <3>1. PICK b \in Authors : Files!Filling(b, g)
      BY <1>2, <1>4, <2>2 DEF FilesInv, Parts
    <3>2. b # a
      BY <3>1
    <3>3. QED
      BY <1>4, <3>1, <3>2 DEF Files!Filling
  <2>3. QED
    BY <2>1, <2>2 DEF Parts
<1>10. authored' => Files!Usable'
  BY <1>1, <1>4, <1>5, <1>6 DEF FilesInv, Files!Usable
<1>11. /\ look' \in [by : Files!Readers, at : {"none", "prompts", "done"},
                     seen : SUBSET {"skill", "draft"}, usable : BOOLEAN, crossed : BOOLEAN]
       /\ look'.at = look.at /\ look'.seen = look.seen /\ look'.usable = look.usable
       /\ look.crossed => look'.crossed
       /\ do = "promoted" /\ look.at = "prompts" => look'.crossed
  BY DEF FilesInv, FilesType
<1>12. Looks'
  <2>1. fileDisk["draft"] # {} => fileDisk'["draft"] # {}
    BY <1>1, <1>4, <1>6
  <2>2. do # "promoted" => step'[a].do \notin {"promoted", "remove"}
    BY <1>1, <1>4, <1>5
  <2>3. Looks
    BY DEF FilesInv
  <2>4. QED
    BY <1>4, <1>11, <2>1, <2>2, <2>3 DEF Looks
<1>13. QED
  BY <1>4, <1>7, <1>8, <1>9, <1>10, <1>11, <1>12 DEF FilesInv, FilesType

(***************************************************************************)
(* The second half, by whichever call began the first.                     *)
(***************************************************************************)
LEMMA FillKeeps ==
  ASSUME FilesInv, NEW a \in Authors, NEW f \in Files!Paths, Files!Filled(a, f),
         NEW s \in StepType, step' = [step EXCEPT ![a] = s],
         \/ s.do = "idle"
         \/ step[a].do = "promoted" /\ s.do = "remove" /\ s.held = step[a].held,
         \A b \in Authors, g \in Files!Paths :
           b # a /\ <<b, g>> \in overlapped => <<b, g>> \in overlapped',
         s.do = "remove" => (<<a, "draft">> \in overlapped' <=> <<a, "draft">> \in overlapped),
         \A b \in Authors : b # a /\ <<step[b].do, f>> \in Files!Relies => <<b, f>> \in overlapped',
         UNCHANGED <<writes, look, authored>>
  PROVE  FilesInv'
<1>1. PICK v \in SUBSET Nat :
        /\ fileDisk' = [fileDisk EXCEPT ![f] = v]
        /\ v = step[a].held \/ v = step[a].held \cup {0}
  <2>1. step[a].held \in SUBSET Nat
    BY DEF FilesInv, FilesType, StepType
  <2>2. CASE fileDisk' = [fileDisk EXCEPT ![f] = step[a].held]
    BY <2>1, <2>2
  <2>3. CASE fileDisk' = [fileDisk EXCEPT ![f] = step[a].held \cup {0}]
    <3>1. step[a].held \cup {0} \in SUBSET Nat
      BY <2>1
    <3>2. QED
      BY <2>3, <3>1
  <2>4. QED
    BY <2>2, <2>3 DEF Files!Filled
<1>2. <<step[a].do, f>> \in Files!Fills
  BY DEF Files!Filled, Files!Filling
<1>3. \/ f = "text" /\ step[a].do = "text"
      \/ f = "skill" /\ step[a].do \in {"skill", "promoted"}
      \/ f = "draft" /\ step[a].do = "draft"
  BY <1>2 DEF Files!Fills
<1>4. f # "text" => v # {}
  BY <1>1, <1>3 DEF FilesInv, Promotes
<1>5. /\ step' \in [Authors -> StepType] /\ step'[a] = s
      /\ \A b \in Authors : b # a => step'[b] = step[b]
      /\ fileDisk' \in [Files!Paths -> SUBSET Nat] /\ fileDisk'[f] = v
      /\ \A g \in Files!Paths : g # f => fileDisk'[g] = fileDisk[g]
      /\ \A b \in Authors : b # a => Promotes(b)' /\ Holds(b)'
  <2>1. writes' \in Nat /\ (f = "skill" /\ v = {} => fileDisk[f] = {})
    BY <1>4 DEF FilesInv, FilesType
  <2>2. QED
    BY <1>1, <2>1, OthersKept
<1>6. "text" \in Files!Paths /\ "skill" \in Files!Paths /\ "draft" \in Files!Paths
  BY DEF Files!Paths
<1>7. Promotes(a)' /\ Holds(a)'
  <2>1. Promotes(a) /\ Holds(a)
    BY DEF FilesInv
  <2>2. CASE s.do = "idle"
    BY <1>5, <2>2 DEF Promotes, Holds
  <2>3. CASE step[a].do = "promoted" /\ s.do = "remove" /\ s.held = step[a].held
    BY <1>3, <1>4, <1>5, <1>6, <2>1, <2>3 DEF Promotes, Holds
  <2>4. QED
    BY <2>2, <2>3
<1>8. \A g \in Files!Paths : Parts(g)'
  <2>1. fileSpoiled' = IF 0 \in fileDisk'[f] THEN fileSpoiled \cup {f} ELSE fileSpoiled \ {f}
    BY DEF Files!Filled
  <2>2. Parts(f)'
    BY <2>1 DEF Parts
  <2>3. ASSUME NEW g \in Files!Paths, g # f, 0 \in fileDisk'[g], g \notin fileSpoiled'
        PROVE  \E b \in Authors : Files!Filling(b, g)'
    <3>1. PICK b \in Authors : Files!Filling(b, g)
      BY <1>5, <2>1, <2>3 DEF FilesInv, Parts
    <3>2. b # a
      BY <1>3, <2>3, <3>1 DEF Files!Filling, Files!Fills
    <3>3. QED
      BY <1>5, <3>1, <3>2 DEF Files!Filling
  <2>4. QED
    BY <2>2, <2>3 DEF Parts
<1>9. authored' => Files!Usable'
  BY <1>4, <1>5, <1>6 DEF FilesInv, Files!Usable
<1>10. Looks'
  <2>1. fileDisk["draft"] # {} => fileDisk'["draft"] # {}
    BY <1>4, <1>5, <1>6
  <2>2. step'[a].do \in {"promoted", "remove"} => step[a].do = "promoted"
    BY <1>5
  <2>3. QED
    BY <1>5, <2>1, <2>2 DEF FilesInv, Looks
<1>11. QED
  BY <1>5, <1>7, <1>8, <1>9, <1>10 DEF FilesInv, FilesType

(***************************************************************************)
(* A call ends in the middle.                                              *)
(***************************************************************************)
LEMMA StopKeeps ==
  ASSUME FilesInv, NEW a \in Authors, Files!Stop(a)
  PROVE  FilesInv'
<1>i. Files!Idle \in StepType /\ Files!Idle.do = "idle"
  BY DEF Files!Idle, StepType, Calls
<1>1. /\ step' = [step EXCEPT ![a] = Files!Idle] /\ UNCHANGED <<writes, look, authored>>
      /\ fileSpoiled' = fileSpoiled \cup {g \in Files!Paths : Files!Filling(a, g)}
  BY DEF Files!Stop
<1>2. PICK f \in Files!Paths, v \in SUBSET Nat :
        /\ fileDisk' = [fileDisk EXCEPT ![f] = v] /\ fileDisk[f] \subseteq v
        /\ v = fileDisk[f] \/ (v = fileDisk[f] \cup {0} /\ Files!Filling(a, f))
        /\ \A b \in Authors, g \in Files!Paths :
             b # a /\ <<b, g>> \in overlapped => <<b, g>> \in overlapped'
        /\ v = fileDisk[f]
             \/ \A b \in Authors : b # a /\ <<step[b].do, f>> \in Files!Relies => <<b, f>> \in overlapped'
  <2>1. fileDisk \in [Files!Paths -> SUBSET Nat]
    BY DEF FilesInv, FilesType
  <2>2. CASE fileDisk' = fileDisk /\ overlapped' = Files!Past(a)
    <3>1. PICK f \in Files!Paths : f = "text"
      BY DEF Files!Paths
    <3>2. fileDisk' = [fileDisk EXCEPT ![f] = fileDisk[f]] /\ fileDisk[f] \in SUBSET Nat
      BY <2>1, <2>2
    <3>3. QED
      BY <2>2, <3>2, PastOthers
  <2>3. CASE \E f \in Files!Paths :
               /\ Files!Filling(a, f) /\ fileDisk' = [fileDisk EXCEPT ![f] = @ \cup {0}]
               /\ overlapped' = Files!Past(a) \cup Files!OthersIn(a, f, Files!Relies \cup Files!Fills)
    <3>1. PICK f \in Files!Paths :
            /\ Files!Filling(a, f) /\ fileDisk' = [fileDisk EXCEPT ![f] = fileDisk[f] \cup {0}]
            /\ overlapped' = Files!Past(a) \cup Files!OthersIn(a, f, Files!Relies \cup Files!Fills)
      BY <2>3
    <3>2. fileDisk[f] \cup {0} \in SUBSET Nat
      BY <2>1
    <3>3. \A b \in Authors : b # a /\ <<step[b].do, f>> \in Files!Relies => <<b, f>> \in overlapped'
      BY <3>1, OthersMarked
    <3>4. \A b \in Authors, g \in Files!Paths :
             b # a /\ <<b, g>> \in overlapped => <<b, g>> \in overlapped'
      BY <3>1, PastOthers
    <3>5. QED
      BY <3>1, <3>2, <3>3, <3>4
  <2>4. QED
    BY <2>2, <2>3 DEF Files!Stop
<1>3. /\ step' \in [Authors -> StepType] /\ step'[a] = Files!Idle
      /\ \A b \in Authors : b # a => step'[b] = step[b]
      /\ fileDisk' \in [Files!Paths -> SUBSET Nat] /\ fileDisk'[f] = v
      /\ \A g \in Files!Paths : g # f => fileDisk'[g] = fileDisk[g]
      /\ \A b \in Authors : b # a => Promotes(b)' /\ Holds(b)'
  <2>1. writes' \in Nat /\ (f = "skill" /\ v = {} => fileDisk[f] = {})
    BY <1>1, <1>2 DEF FilesInv, FilesType
  <2>2. QED
    BY <1>i, <1>1, <1>2, <2>1, OthersKept
<1>4. Promotes(a)' /\ Holds(a)'
  BY <1>i, <1>3 DEF Promotes, Holds
<1>5. ASSUME NEW g \in Files!Paths, 0 \in fileDisk'[g], g \notin fileSpoiled'
      PROVE  \E b \in Authors : Files!Filling(b, g)'
  <2>1. ~Files!Filling(a, g) /\ g \notin fileSpoiled
    BY <1>1, <1>5
  <2>2. 0 \in fileDisk[g]
    BY <1>2, <1>3, <1>5, <2>1
  <2>3. PICK b \in Authors : Files!Filling(b, g)
    BY <2>1, <2>2 DEF FilesInv, Parts
  <2>4. QED
    BY <1>3, <2>1, <2>3 DEF Files!Filling
<1>6. \A g \in Files!Paths : fileDisk[g] # {} => fileDisk'[g] # {}
  BY <1>2, <1>3
<1>7. "text" \in Files!Paths /\ "skill" \in Files!Paths /\ "draft" \in Files!Paths
  BY DEF Files!Paths
<1>8. (authored' => Files!Usable') /\ Looks'
  BY <1>i, <1>1, <1>3, <1>6, <1>7 DEF FilesInv, Files!Usable, Looks
<1>9. QED
  BY <1>1, <1>3, <1>4, <1>5, <1>8 DEF FilesInv, FilesType, Parts

(***************************************************************************)
(* Every step of an agent and of a reader keeps the invariant.             *)
(***************************************************************************)
LEMMA FilesStep ==
  ASSUME FilesInv, [Files!Next]_(Files!fileVars)
  PROVE  FilesInv'
<1>0. /\ FilesType /\ writes \in Nat /\ step \in [Authors -> StepType]
      /\ fileDisk \in [Files!Paths -> SUBSET Nat]
      /\ \A a \in Authors : step[a].do \in Calls /\ step[a].held \in SUBSET Nat
      /\ \A a \in Authors : Promotes(a) /\ Holds(a)
      /\ Looks
  BY DEF FilesInv, FilesType, StepType
<1>i. Files!Idle \in StepType /\ Files!Idle.do = "idle"
  BY DEF Files!Idle, StepType, Calls
<1>p. "text" \in Files!Paths /\ "skill" \in Files!Paths /\ "draft" \in Files!Paths
  BY DEF Files!Paths
<1>w. Files!Write => writes' \in Nat /\ writes' # 0
  BY <1>0 DEF Files!Write
<1>c. /\ \A d \in {"text", "skill", "draft"} : d \in Calls /\ <<d, d>> \in Files!Fills /\ d # "promoted"
      /\ "promoted" \in Calls /\ <<"promoted", "skill">> \in Files!Fills
  BY DEF Calls, Files!Fills
<1>f. \A a \in Authors, f \in Files!Paths :
        Files!Free(a) \/ step[a].do \in {"edit", "promote"} => ~Files!Filling(a, f)
  BY DEF Files!Free, Files!Idle, Files!Filling, Files!Fills
<1>1. ASSUME NEW a \in Authors, Files!EditRead(a) PROVE FilesInv'
  <2> DEFINE s == [do |-> "edit", held |-> fileDisk["text"]]
  <2>1. s \in StepType /\ s.do = "edit" /\ s.held = fileDisk["text"]
    BY <1>0, <1>p DEF StepType, Calls
  <2>2. step' = [step EXCEPT ![a] = s] /\ step[a] = Files!Idle
        /\ UNCHANGED <<fileDisk, writes, look, overlapped, fileSpoiled, authored>>
    BY <1>1 DEF Files!EditRead, Files!Free
  <2> HIDE DEF s
  <2>3. /\ step' \in [Authors -> StepType] /\ step'[a] = s
        /\ \A b \in Authors : b # a => step'[b] = step[b]
    BY <1>0, <2>1, <2>2
  <2>4. \A b \in Authors : Promotes(b)' /\ Holds(b)'
    BY <1>0, <2>1, <2>2, <2>3 DEF Promotes, Holds
  <2>5. \A f \in Files!Paths : \A b \in Authors : Files!Filling(b, f) => Files!Filling(b, f)'
    BY <1>f, <1>1, <2>2, <2>3 DEF Files!Filling, Files!EditRead
  <2>6. \A f \in Files!Paths : Parts(f)'
    BY <2>2, <2>5 DEF FilesInv, Parts
  <2>7. Looks' /\ (authored' => Files!Usable')
    BY <1>0, <2>1, <2>2, <2>3 DEF FilesInv, Looks, Files!Usable
  <2>8. QED
    BY <1>0, <2>2, <2>3, <2>4, <2>6, <2>7 DEF FilesInv, FilesType
<1>2. ASSUME NEW a \in Authors, Files!EditWrite(a) PROVE FilesInv'
  <2> DEFINE content == step[a].held \cup {writes'}
  <2>1. content \in SUBSET Nat /\ content # {} /\ writes' \in Nat
    BY <1>0, <1>2, <1>w DEF Files!EditWrite
  <2>2. /\ Files!Truncate(a, "text", "text", content) /\ look' = look /\ authored' = authored
        /\ step[a].do = "edit"
    BY <1>2 DEF Files!EditWrite
  <2> HIDE DEF content
  <2>3. QED
    BY <1>c, <1>f, <1>p, <2>1, <2>2, TruncateKeeps
<1>3. ASSUME NEW a \in Authors, Files!WriteFile(a) PROVE FilesInv'
  <2>1. {writes'} \in SUBSET Nat /\ {writes'} # {} /\ writes' \in Nat
    BY <1>3, <1>w DEF Files!WriteFile
  <2>2. /\ Files!Truncate(a, "text", "text", {writes'}) /\ look' = look /\ authored' = authored
        /\ Files!Free(a)
    BY <1>3 DEF Files!WriteFile
  <2>3. QED
    BY <1>c, <1>f, <1>p, <2>1, <2>2, TruncateKeeps
<1>4. ASSUME NEW a \in Authors, Files!GenerateSkill(a) PROVE FilesInv'
  <2>1. {writes'} \in SUBSET Nat /\ {writes'} # {} /\ writes' \in Nat
    BY <1>4, <1>w DEF Files!GenerateSkill
  <2>2. Files!Truncate(a, "skill", "skill", {writes'}) /\ look' = look /\ Files!Free(a)
    BY <1>4 DEF Files!GenerateSkill
  <2>3. QED
    BY <1>c, <1>f, <1>p, <2>1, <2>2, TruncateKeeps
<1>5. ASSUME NEW a \in Authors, Files!GeneratePrompt(a) PROVE FilesInv'
  <2>1. {writes'} \in SUBSET Nat /\ {writes'} # {} /\ writes' \in Nat
    BY <1>5, <1>w DEF Files!GeneratePrompt
  <2>2. Files!Truncate(a, "draft", "draft", {writes'}) /\ look' = look /\ Files!Free(a)
    BY <1>5 DEF Files!GeneratePrompt
  <2>3. QED
    BY <1>c, <1>f, <1>p, <2>1, <2>2, TruncateKeeps
<1>6. ASSUME NEW a \in Authors, Files!AppendFile(a) PROVE FilesInv'
  <2> DEFINE v == fileDisk["text"] \cup {writes'}
  <2>1. /\ fileDisk' = [fileDisk EXCEPT !["text"] = v] /\ v \in SUBSET Nat
        /\ overlapped' = overlapped \cup Files!OthersIn(a, "text", Files!Relies \cup Files!Fills)
        /\ step' = step /\ UNCHANGED <<look, fileSpoiled, authored>> /\ step[a] = Files!Idle
        /\ writes' \in Nat /\ (0 \in v => 0 \in fileDisk["text"])
    BY <1>0, <1>p, <1>w, <1>6 DEF Files!AppendFile, Files!Free
  <2> HIDE DEF v
  <2>2. step' = [step EXCEPT ![a] = Files!Idle]
    BY <1>0, <2>1
  <2>3. /\ \A b \in Authors, g \in Files!Paths :
             b # a /\ <<b, g>> \in overlapped => <<b, g>> \in overlapped'
        /\ \A b \in Authors : b # a /\ <<step[b].do, "text">> \in Files!Relies
             => <<b, "text">> \in overlapped'
    BY <2>1, OthersMarked
  <2>4. /\ fileDisk' \in [Files!Paths -> SUBSET Nat] /\ fileDisk'["text"] = v
        /\ \A g \in Files!Paths : g # "text" => fileDisk'[g] = fileDisk[g]
        /\ \A b \in Authors : b # a => Promotes(b)' /\ Holds(b)'
    BY <1>i, <1>p, <2>1, <2>2, <2>3, OthersKept
  <2>5. Promotes(a)' /\ Holds(a)'
    BY <1>i, <2>1 DEF Promotes, Holds
  <2>6. \A f \in Files!Paths : Parts(f)'
    BY <2>1, <2>4 DEF FilesInv, Parts, Files!Filling
  <2>7. Looks' /\ (authored' => Files!Usable')
    BY <1>p, <2>1, <2>4 DEF FilesInv, Looks, Files!Usable
  <2>8. QED
    BY <1>0, <2>1, <2>4, <2>5, <2>6, <2>7 DEF FilesInv, FilesType
<1>7. ASSUME NEW a \in Authors, Files!PromoteRead(a) PROVE FilesInv'
  <2> DEFINE s == [do |-> "promote", held |-> fileDisk["draft"]]
  <2>1. s \in StepType /\ s.do = "promote" /\ s.held = fileDisk["draft"]
    BY <1>0, <1>p DEF StepType, Calls
  <2>2. step' = [step EXCEPT ![a] = s] /\ step[a] = Files!Idle
        /\ UNCHANGED <<fileDisk, writes, look, overlapped, fileSpoiled, authored>>
        /\ fileDisk["draft"] # {} /\ fileDisk["skill"] = {}
    BY <1>7 DEF Files!PromoteRead, Files!Free
  <2> HIDE DEF s
  <2>3. /\ step' \in [Authors -> StepType] /\ step'[a] = s
        /\ \A b \in Authors : b # a => step'[b] = step[b]
    BY <1>0, <2>1, <2>2
  <2>4. \A b \in Authors : Promotes(b)' /\ Holds(b)'
    BY <1>0, <2>1, <2>2, <2>3 DEF Promotes, Holds
  <2>5. \A f \in Files!Paths : \A b \in Authors : Files!Filling(b, f) => Files!Filling(b, f)'
    BY <1>f, <1>7, <2>2, <2>3 DEF Files!Filling, Files!PromoteRead
  <2>6. \A f \in Files!Paths : Parts(f)'
    BY <2>2, <2>5 DEF FilesInv, Parts
  <2>7. Looks' /\ (authored' => Files!Usable')
    BY <1>0, <2>1, <2>2, <2>3 DEF FilesInv, Looks, Files!Usable
  <2>8. QED
    BY <1>0, <2>2, <2>3, <2>4, <2>6, <2>7 DEF FilesInv, FilesType
<1>8. ASSUME NEW a \in Authors, Files!PromoteWrite(a) PROVE FilesInv'
  <2>1. /\ Files!Truncate(a, "promoted", "skill", step[a].held) /\ step[a].do = "promote"
        /\ look' = [look EXCEPT !.crossed = @ \/ look.at = "prompts"]
        /\ UNCHANGED <<writes, authored>>
    BY <1>8 DEF Files!PromoteWrite
  <2>2. step[a].held # {}
    BY <1>0, <2>1 DEF Promotes
  <2>3. QED
    BY <1>0, <1>c, <1>f, <1>p, <2>1, <2>2, TruncateKeeps
<1>9. ASSUME NEW a \in Authors, Files!Fill(a) PROVE FilesInv'
  <2>1. PICK f \in Files!Paths :
          /\ Files!Filled(a, f)
          /\ overlapped' = Files!Past(a) \cup Files!OthersIn(a, f, Files!Relies \cup Files!Fills)
    BY <1>9 DEF Files!Fill
  <2>2. /\ \A b \in Authors, g \in Files!Paths :
             b # a /\ <<b, g>> \in overlapped => <<b, g>> \in overlapped'
        /\ \A b \in Authors : b # a /\ <<step[b].do, f>> \in Files!Relies => <<b, f>> \in overlapped'
    BY <2>1, OthersMarked, PastOthers
  <2>3. step' = [step EXCEPT ![a] = Files!Idle] /\ UNCHANGED <<writes, look, authored>>
    BY <1>9 DEF Files!Fill
  <2>4. QED
    BY <1>i, <2>1, <2>2, <2>3, FillKeeps
<1>10. ASSUME NEW a \in Authors, Files!PromoteFill(a) PROVE FilesInv'
  <2> DEFINE s == [step[a] EXCEPT !.do = "remove"]
  <2>1. s \in StepType /\ s.do = "remove" /\ s.held = step[a].held
    BY <1>0 DEF StepType, Calls
  <2>2. /\ Files!Filled(a, "skill") /\ step[a].do = "promoted"
        /\ step' = [step EXCEPT ![a] = s] /\ UNCHANGED <<writes, look, authored>>
        /\ overlapped' = overlapped \cup Files!OthersIn(a, "skill", Files!Relies \cup Files!Fills)
    BY <1>0, <1>10 DEF Files!PromoteFill
  <2> HIDE DEF s
  <2>3. /\ \A b \in Authors, g \in Files!Paths :
             b # a /\ <<b, g>> \in overlapped => <<b, g>> \in overlapped'
        /\ \A b \in Authors : b # a /\ <<step[b].do, "skill">> \in Files!Relies
             => <<b, "skill">> \in overlapped'
        /\ <<a, "draft">> \in overlapped' <=> <<a, "draft">> \in overlapped
    BY <2>2, OthersMarked
  <2>4. QED
    BY <1>p, <2>1, <2>2, <2>3, FillKeeps
<1>11. ASSUME NEW a \in Authors, Files!PromoteRemove(a) PROVE FilesInv'
  <2>1. /\ step' = [step EXCEPT ![a] = Files!Idle] /\ overlapped' = Files!Past(a)
        /\ UNCHANGED <<writes, look, fileSpoiled, authored>> /\ step[a].do = "remove"
    BY <1>11 DEF Files!PromoteRemove
  <2>2. PICK v \in SUBSET Nat :
          fileDisk' = [fileDisk EXCEPT !["draft"] = v] /\ (v = fileDisk["draft"] \/ v = {})
    <3>1. fileDisk = [fileDisk EXCEPT !["draft"] = fileDisk["draft"]] /\ fileDisk["draft"] \in SUBSET Nat
      BY <1>0, <1>p
    <3>2. QED
      BY <1>11, <3>1 DEF Files!PromoteRemove
  <2>3. \A b \in Authors, g \in Files!Paths :
             b # a /\ <<b, g>> \in overlapped => <<b, g>> \in overlapped'
    BY <2>1, PastOthers
  <2>4. /\ step' \in [Authors -> StepType] /\ step'[a] = Files!Idle
        /\ \A b \in Authors : b # a => step'[b] = step[b]
        /\ fileDisk' \in [Files!Paths -> SUBSET Nat] /\ fileDisk'["draft"] = v
        /\ \A g \in Files!Paths : g # "draft" => fileDisk'[g] = fileDisk[g]
        /\ \A b \in Authors : b # a => Promotes(b)' /\ Holds(b)'
    BY <1>0, <1>i, <1>p, <2>1, <2>2, <2>3, OthersKept
  <2>5. Promotes(a)' /\ Holds(a)'
    BY <1>i, <2>4 DEF Promotes, Holds
  <2>6. \A f \in Files!Paths : Parts(f)'
    <3>1. \A f \in Files!Paths : \A b \in Authors : Files!Filling(b, f) => Files!Filling(b, f)'
      BY <2>1, <2>4 DEF Files!Filling, Files!Fills
    <3>2. \A f \in Files!Paths : 0 \in fileDisk'[f] => 0 \in fileDisk[f]
      BY <2>2, <2>4
    <3>3. QED
      BY <2>1, <3>1, <3>2 DEF FilesInv, Parts
  <2>7. Looks' /\ (authored' => Files!Usable')
    <3>1. fileDisk'["skill"] # {}
      BY <1>0, <1>p, <2>1, <2>4 DEF Promotes
    <3>2. QED
      BY <1>0, <2>1, <3>1 DEF Looks, Files!Usable
  <2>8. QED
    BY <1>0, <2>1, <2>4, <2>5, <2>6, <2>7 DEF FilesInv, FilesType
<1>12. ASSUME NEW a \in Authors, Files!Stop(a) PROVE FilesInv'
  BY <1>12, StopKeeps
<1>13. ASSUME UNCHANGED <<fileDisk, writes, step, overlapped, fileSpoiled, authored>>, Looks',
              look' \in [by : Files!Readers, at : {"none", "prompts", "done"},
                         seen : SUBSET {"skill", "draft"}, usable : BOOLEAN, crossed : BOOLEAN]
       PROVE  FilesInv'
  BY <1>0, <1>13 DEF FilesInv, FilesType, Promotes, Holds, Parts, Files!Filling, Files!Usable
<1>14. ASSUME NEW r \in Files!Readers, Files!LookSkills(r) PROVE FilesInv'
  <2>1. /\ look'.at = "prompts" /\ look'.usable = Files!Usable
        /\ look'.crossed = Files!Refused(r, "skill")
        /\ look'.seen = (IF r # Files!Registry \/ fileDisk["skill"] = {} THEN {} ELSE {"skill"})
        /\ look' \in [by : Files!Readers, at : {"none", "prompts", "done"},
                      seen : SUBSET {"skill", "draft"}, usable : BOOLEAN, crossed : BOOLEAN]
    BY <1>14 DEF Files!LookSkills, Files!Usable, Files!Refused
  <2>2. UNCHANGED <<fileDisk, writes, step, overlapped, fileSpoiled, authored>>
    BY <1>14 DEF Files!LookSkills
  <2>3. ASSUME look'.usable, ~look'.crossed, look'.seen = {}
        PROVE  fileDisk["skill"] = {} /\ fileDisk["draft"] # {}
    BY <1>14, <2>1, <2>3 DEF Files!LookSkills, Files!Usable
  <2>4. Looks'
    BY <1>0, <2>1, <2>2, <2>3 DEF Looks, Promotes
  <2>5. QED
    BY <1>13, <2>1, <2>2, <2>4
<1>15. CASE Files!LookPrompts
  <2>1. /\ look'.at = "done" /\ look'.usable = look.usable /\ look.at = "prompts"
        /\ \/ look'.crossed
           \/ /\ look'.crossed = look.crossed
              /\ look'.seen = (IF fileDisk["draft"] = {} THEN look.seen ELSE look.seen \cup {"draft"})
        /\ look' \in [by : Files!Readers, at : {"none", "prompts", "done"},
                      seen : SUBSET {"skill", "draft"}, usable : BOOLEAN, crossed : BOOLEAN]
    <3> DEFINE now == IF fileDisk["draft"] = {} THEN look.seen ELSE look.seen \cup {"draft"}
    <3>1. now \in SUBSET {"skill", "draft"}
      BY <1>0 DEF FilesType
    <3>2. CASE look' = [[look EXCEPT !.at = "done"] EXCEPT !.seen = now]
      BY <1>0, <1>15, <3>1, <3>2 DEF Files!LookPrompts, FilesType
    <3>3. CASE look' = [[look EXCEPT !.at = "done"] EXCEPT !.crossed = TRUE]
      BY <1>0, <1>15, <3>3 DEF Files!LookPrompts, FilesType
    <3>4. QED
      BY <1>15, <3>2, <3>3 DEF Files!LookPrompts
  <2>2. UNCHANGED <<fileDisk, writes, step, overlapped, fileSpoiled, authored>>
    BY <1>15 DEF Files!LookPrompts
  <2>3. Looks'
    BY <1>0, <2>1, <2>2 DEF Looks
  <2>4. QED
    BY <1>13, <2>1, <2>2, <2>3
<1>16. CASE Files!LookEnds
  <2>1. /\ Files!NoLook.usable = FALSE
        /\ Files!NoLook \in [by : Files!Readers, at : {"none", "prompts", "done"},
                             seen : SUBSET {"skill", "draft"}, usable : BOOLEAN, crossed : BOOLEAN]
    BY DEF Files!NoLook, Files!Readers
  <2>2. QED
    BY <1>13, <1>16, <2>1 DEF Files!LookEnds, Looks
<1>17. CASE UNCHANGED Files!fileVars
  BY <1>0, <1>13, <1>17 DEF Files!fileVars, Looks, FilesType
<1>18. QED
  BY <1>1, <1>2, <1>3, <1>4, <1>5, <1>6, <1>7, <1>8, <1>9, <1>10, <1>11, <1>12, <1>14, <1>15,
     <1>16, <1>17 DEF Files!Next

(***************************************************************************)
(* Something stays usable, what agents hold read is current unless they    *)
(* were overlapped, a file in part has a writer at work or was spoiled,    *)
(* and a reader misses only what crossed it (src/tool/builtin.rs,          *)
(* src/registry.rs).                                                       *)
(***************************************************************************)
THEOREM FilesSoundHolds == Files!Spec => []Files!FilesSound
<1>1. Files!Init => FilesInv
  <2> SUFFICES ASSUME Files!Init PROVE FilesInv
    OBVIOUS
  <2>1. Files!Idle \in StepType /\ Files!Idle.do = "idle"
    BY DEF Files!Idle, StepType, Calls
  <2>2. /\ Files!NoLook.usable = FALSE
        /\ Files!NoLook \in [by : Files!Readers, at : {"none", "prompts", "done"},
                             seen : SUBSET {"skill", "draft"}, usable : BOOLEAN, crossed : BOOLEAN]
    BY DEF Files!NoLook, Files!Readers
  <2>3. FilesType /\ Looks /\ ~authored
    BY <2>1, <2>2 DEF Files!Init, FilesType, Looks
  <2>4. \A a \in Authors : step[a].do = "idle"
    BY <2>1 DEF Files!Init
  <2>5. \A f \in Files!Paths : 0 \notin fileDisk[f]
    BY DEF Files!Init
  <2>6. QED
    BY <2>3, <2>4, <2>5 DEF FilesInv, Promotes, Holds, Parts
<1>2. FilesInv /\ [Files!Next]_(Files!fileVars) => FilesInv'
  BY FilesStep
<1>3. FilesInv => Files!FilesSound
  <2> SUFFICES ASSUME FilesInv PROVE Files!FilesSound
    OBVIOUS
  <2>1. \A a \in Authors : Holds(a)
    BY DEF FilesInv
  <2>2. \A f \in Files!Paths \ fileSpoiled : 0 \in fileDisk[f] => \E a \in Authors : Files!Filling(a, f)
    BY DEF FilesInv, Parts
  <2>3. look.at = "done" /\ look.usable /\ ~look.crossed => look.seen # {}
    BY DEF FilesInv, Looks
  <2>4. QED
    BY <2>1, <2>2, <2>3 DEF FilesInv, Holds, Files!FilesSound
<1>4. QED
  BY <1>1, <1>2, <1>3, PTL DEF Files!Spec

-----------------------------------------------------------------------------
\* Worktrees entered and left side by side (Worktrees): for any number of
\* agents, names, entries and commits.

Exits == {"none", "merge", "remove", "delete"}
SomeName == Trees!NoExit.name
ExitType == [id : Nat, name : Names \cup {SomeName}, at : Exits]

TreesType ==
  /\ nextEntry \in Nat \ {0} /\ commits \in 0 .. MaxCommits
  /\ entries \subseteq Nat \X Names
  /\ dir \in [Names -> {"absent", "clean", "dirty"}]
  /\ DOMAIN branch = Names
  /\ treeLeaving \in [Agents -> ExitType]

\* What a branch can lose without losing a commit.
Safe == base \cup discarded \cup treeExposed \cup Trees!NoBranch

\* A directory has a branch, and a branch that is there holds commits alone.
NameSound(n) ==
  /\ dir[n] # "absent" => Trees!Present(n)
  /\ Trees!Present(n) => 0 \notin branch[n]

\* An exit is of a name's only entry; once it removes, nothing on the branch
\* can be lost; once it deletes, the directory is gone and the branch is not,
\* and no other exit deletes it.
ExitSound(a) ==
  LET n == treeLeaving[a].name IN
  /\ treeLeaving[a].at # "none" =>
       /\ n \in Names
       /\ \A e \in entries : e[2] = n => e[1] = treeLeaving[a].id
  /\ treeLeaving[a].at \in {"remove", "delete"} => branch[n] \subseteq Safe
  /\ treeLeaving[a].at = "delete" =>
       /\ dir[n] = "absent" /\ Trees!Present(n)
       /\ \A b \in Agents : treeLeaving[b].at = "delete" /\ treeLeaving[b].name = n => b = a

Deleted(n) == \E a \in Agents : treeLeaving[a].name = n /\ treeLeaving[a].at = "delete"

EntrySound(e) ==
  /\ \/ dir[e[2]] # "absent" /\ Trees!Present(e[2])
     \/ Deleted(e[2])
     \/ e[2] \in stranded /\ Trees!Present(e[2])
  /\ \A f \in entries : f[2] = e[2] => f = e

TreesKept ==
  /\ 0 \notin base
  /\ \A c \in 1 .. commits : c \in Safe \/ \E n \in Names : c \in branch[n]
  /\ \A n \in Names : NameSound(n)
  /\ \A a \in Agents : ExitSound(a)
  /\ \A e \in entries : EntrySound(e)

TreesInv == TreesType /\ (~reused => TreesKept)

(***************************************************************************)
(* An exit moves on, or is over.                                           *)
(***************************************************************************)
LEMMA ExitMoves ==
  ASSUME TreesType, NEW a \in Agents, NEW place \in Exits,
         (Trees!Go(a, place) /\ place # "none") \/ (Trees!Stop(a) /\ place = "none")
  PROVE  /\ treeLeaving' \in [Agents -> ExitType] /\ treeLeaving'[a].at = place
         /\ place # "none" => /\ treeLeaving'[a].name = treeLeaving[a].name
                              /\ treeLeaving'[a].id = treeLeaving[a].id
         /\ \A b \in Agents : b # a => treeLeaving'[b] = treeLeaving[b]
<1>1. treeLeaving[a] \in ExitType
  BY DEF TreesType
<1>2. CASE Trees!Go(a, place)
  <2> DEFINE x == [treeLeaving[a] EXCEPT !.at = place]
  <2>1. treeLeaving' = [treeLeaving EXCEPT ![a] = x]
    BY <1>2 DEF Trees!Go, TreesType
  <2>2. x \in ExitType /\ x.at = place /\ x.name = treeLeaving[a].name /\ x.id = treeLeaving[a].id
    BY <1>1 DEF ExitType
  <2> HIDE DEF x
  <2>3. QED
    BY <2>1, <2>2 DEF TreesType
<1>3. CASE Trees!Stop(a) /\ place = "none"
  <2>1. Trees!NoExit \in ExitType /\ Trees!NoExit.at = "none"
    BY DEF Trees!NoExit, ExitType, Exits, SomeName
  <2>2. QED
    BY <1>3, <2>1 DEF Trees!Stop, TreesType
<1>4. QED
  BY <1>2, <1>3

(***************************************************************************)
(* A step that leaves the branches alone, and the absence of directories.  *)
(***************************************************************************)
LEMMA NamesUndisturbed ==
  ASSUME TreesKept, UNCHANGED <<branch, commits, treeExposed>>,
         \A n \in Names : dir'[n] = "absent" <=> dir[n] = "absent",
         base \subseteq base', discarded \subseteq discarded'
  PROVE  /\ Safe \subseteq Safe'
         /\ \A c \in 1 .. commits' : c \in Safe' \/ \E n \in Names : c \in branch'[n]
         /\ \A n \in Names : NameSound(n)'
<1>1. Safe \subseteq Safe'
  BY DEF Safe
<1>2. \A n \in Names : NameSound(n)'
  BY DEF TreesKept, NameSound, Trees!Present
<1>3. QED
  BY <1>1, <1>2 DEF TreesKept

(***************************************************************************)
(* Entering a worktree.                                                    *)
(***************************************************************************)
LEMMA EnterStep ==
  ASSUME TreesInv, Trees!EnterWorktree
  PROVE  TreesInv'
<1>0. TreesType
  BY DEF TreesInv
<1>1. PICK n \in Names :
        /\ dir[n] = "absent" /\ ~Trees!Present(n)
        /\ dir' = [dir EXCEPT ![n] = "clean"]
        /\ branch' = [branch EXCEPT ![n] = base]
        /\ entries' = entries \cup {<<nextEntry, n>>}
        /\ reused' = (reused \/ \E a \in Agents : treeLeaving[a].at # "none"
                                                  /\ treeLeaving[a].name = n)
  BY DEF Trees!EnterWorktree
<1>2. nextEntry' = nextEntry + 1
      /\ UNCHANGED <<base, commits, merging, treeLeaving, discarded, treeExposed, stranded>>
  BY DEF Trees!EnterWorktree
<1>3. TreesType'
  BY <1>0, <1>1, <1>2 DEF TreesType
<1>4. ASSUME ~reused' PROVE TreesKept'
  <2>1. TreesKept /\ \A a \in Agents : treeLeaving[a].at # "none" => treeLeaving[a].name # n
    BY <1>1, <1>4 DEF TreesInv
  <2>2. /\ dir'[n] = "clean" /\ branch'[n] = base
        /\ \A m \in Names : m # n => dir'[m] = dir[m] /\ branch'[m] = branch[m]
    BY <1>0, <1>1 DEF TreesType
  <2>3. \A e \in entries : e[2] # n
    BY <1>1, <2>1 DEF TreesKept, EntrySound, Deleted
  <2>4. Safe' = Safe /\ 0 \notin base'
    BY <1>2, <2>1 DEF Safe, TreesKept
  <2>5. ASSUME NEW c \in 1 .. commits' PROVE c \in Safe' \/ \E m \in Names : c \in branch'[m]
    <3>1. c \in 1 .. commits
      BY <1>2
    <3>2. c \in branch[n] => c \in Safe
      BY <1>1 DEF Trees!Present, Safe
    <3>3. QED
      BY <2>1, <2>2, <2>4, <3>1, <3>2 DEF TreesKept
  <2>6. \A m \in Names : NameSound(m)'
    BY <2>1, <2>2 DEF TreesKept, NameSound, Trees!Present, Trees!NoBranch
  <2>7. <<nextEntry, n>>[1] = nextEntry /\ <<nextEntry, n>>[2] = n
    OBVIOUS
  <2>8. ASSUME NEW a \in Agents PROVE ExitSound(a)'
    <3>1. CASE treeLeaving[a].at = "none"
      BY <1>2, <3>1 DEF ExitSound
    <3>2. CASE treeLeaving[a].at # "none"
      <4>1. ExitSound(a) /\ treeLeaving[a].name \in Names \ {n}
        BY <2>1, <3>2 DEF TreesKept, ExitSound
      <4>2. /\ dir'[treeLeaving[a].name] = dir[treeLeaving[a].name]
            /\ branch'[treeLeaving[a].name] = branch[treeLeaving[a].name]
        BY <2>2, <4>1
      <4>3. \A e \in entries' : e[2] = treeLeaving[a].name => e \in entries
        BY <1>1, <2>7, <4>1
      <4>4. QED
        BY <1>2, <2>4, <4>1, <4>2, <4>3 DEF ExitSound, Trees!Present
    <3>3. QED
      BY <3>1, <3>2
  <2>9. ASSUME NEW e \in entries' PROVE EntrySound(e)'
    <3>1. CASE e = <<nextEntry, n>>
      <4>1. Trees!Present(n)'
        BY <2>1, <2>2 DEF TreesKept, Trees!Present, Trees!NoBranch
      <4>2. QED
        BY <1>1, <2>2, <2>3, <2>7, <3>1, <4>1 DEF EntrySound, Trees!Present
    <3>2. CASE e \in entries
      <4>1. EntrySound(e) /\ e[2] \in Names \ {n}
        BY <1>0, <2>1, <2>3, <3>2 DEF TreesKept, TreesType
      <4>2. \A f \in entries' : f[2] = e[2] => f \in entries
        BY <1>1, <2>7, <4>1
      <4>3. Deleted(e[2]) => Deleted(e[2])'
        BY <1>2 DEF Deleted
      <4>4. dir'[e[2]] = dir[e[2]] /\ branch'[e[2]] = branch[e[2]]
        BY <2>2, <4>1
      <4>5. QED
        BY <1>2, <4>1, <4>2, <4>3, <4>4 DEF EntrySound, Trees!Present
    <3>3. QED
      BY <1>1, <3>1, <3>2
  <2>10. QED
    BY <2>4, <2>5, <2>6, <2>8, <2>9 DEF TreesKept
<1>5. QED
  BY <1>3, <1>4 DEF TreesInv

(***************************************************************************)
(* Working in a worktree: what is committed while an exit takes the branch *)
(* away is counted as exposed.                                             *)
(***************************************************************************)
LEMMA WorkStep ==
  ASSUME Trees!WorktreeAssumption, TreesInv, Trees!Edit \/ Trees!Commit
  PROVE  TreesInv'
<1>0. TreesType /\ MaxCommits \in Nat /\ commits \in Nat
  BY DEF TreesInv, TreesType, Trees!WorktreeAssumption
<1>1. CASE Trees!Edit
  <2>1. PICK n \in Names : dir[n] = "clean" /\ dir' = [dir EXCEPT ![n] = "dirty"]
    BY <1>1 DEF Trees!Edit
  <2>2. UNCHANGED <<entries, nextEntry, branch, base, commits, merging, treeLeaving,
                    discarded, treeExposed, reused, stranded>>
    BY <1>1 DEF Trees!Edit
  <2>3. TreesType' /\ \A m \in Names : dir'[m] = "absent" <=> dir[m] = "absent"
    BY <1>0, <2>1, <2>2 DEF TreesType
  <2>4. ASSUME TreesKept PROVE TreesKept'
    <3>1. /\ \A c \in 1 .. commits' : c \in Safe' \/ \E m \in Names : c \in branch'[m]
          /\ \A m \in Names : NameSound(m)'
      BY <2>2, <2>3, <2>4, NamesUndisturbed
    <3>2. \A a \in Agents : ExitSound(a)'
      BY <2>2, <2>3, <2>4 DEF TreesKept, ExitSound, Safe, Trees!Present
    <3>3. \A e \in entries' : EntrySound(e)'
      <4> SUFFICES ASSUME NEW e \in entries' PROVE EntrySound(e)'
        OBVIOUS
      <4>1. e \in entries /\ e[2] \in Names /\ EntrySound(e)
        BY <1>0, <2>2, <2>4 DEF TreesType, TreesKept
      <4>2. Deleted(e[2])' <=> Deleted(e[2])
        BY <2>2 DEF Deleted
      <4>3. QED
        BY <2>2, <2>3, <4>1, <4>2 DEF EntrySound, Trees!Present
    <3>4. QED
      BY <2>2, <2>4, <3>1, <3>2, <3>3 DEF TreesKept
  <2>5. QED
    BY <2>2, <2>3, <2>4 DEF TreesInv
<1>2. CASE Trees!Commit
  <2>1. PICK n \in Names :
          /\ dir[n] = "dirty" /\ dir' = [dir EXCEPT ![n] = "clean"]
          /\ branch' = [branch EXCEPT ![n] = branch[n] \cup {commits + 1}]
          /\ treeExposed' = IF Trees!Leaving(n) THEN treeExposed \cup {commits + 1} ELSE treeExposed
    BY <1>2 DEF Trees!Commit
  <2>2. /\ commits < MaxCommits /\ commits' = commits + 1
        /\ UNCHANGED <<entries, nextEntry, base, merging, treeLeaving, discarded, reused, stranded>>
    BY <1>2 DEF Trees!Commit
  <2>3. /\ \A m \in Names : dir'[m] = "absent" <=> dir[m] = "absent"
        /\ branch'[n] = branch[n] \cup {commits + 1}
        /\ \A m \in Names : m # n => branch'[m] = branch[m]
    BY <1>0, <2>1 DEF TreesType
  <2>4. TreesType'
    BY <1>0, <2>1, <2>2 DEF TreesType
  <2>5. ASSUME TreesKept PROVE TreesKept'
    <3>1. Trees!Present(n) /\ 0 \notin branch[n]
      BY <2>1, <2>5 DEF TreesKept, NameSound
    <3>2. \A m \in Names : NameSound(m)' /\ (Trees!Present(m) => Trees!Present(m)')
      BY <1>0, <2>3, <2>5, <3>1 DEF TreesKept, NameSound, Trees!Present, Trees!NoBranch
    <3>3. Safe \subseteq Safe' /\ (Trees!Leaving(n) => commits + 1 \in Safe')
      BY <2>1, <2>2 DEF Safe
    <3>4. ASSUME NEW c \in 1 .. commits' PROVE c \in Safe' \/ \E m \in Names : c \in branch'[m]
      <4>1. c \in 1 .. commits \/ c = commits + 1
        BY <1>0, <2>2
      <4>2. QED
        BY <2>3, <2>5, <3>3, <4>1 DEF TreesKept
    <3>5. \A a \in Agents : ExitSound(a)'
      BY <2>2, <2>3, <2>5, <3>2, <3>3 DEF TreesKept, ExitSound, Trees!Leaving
    <3>6. \A e \in entries' : EntrySound(e)'
      <4> SUFFICES ASSUME NEW e \in entries' PROVE EntrySound(e)'
        OBVIOUS
      <4>1. e \in entries /\ e[2] \in Names /\ EntrySound(e)
        BY <1>0, <2>2, <2>5 DEF TreesType, TreesKept
      <4>2. Deleted(e[2])' <=> Deleted(e[2])
        BY <2>2 DEF Deleted
      <4>3. (dir[e[2]] # "absent" /\ Trees!Present(e[2]))
              => dir'[e[2]] # "absent" /\ branch'[e[2]] # Trees!NoBranch
        BY <2>3, <3>2, <4>1 DEF Trees!Present
      <4>4. QED
        BY <2>2, <3>2, <4>1, <4>2, <4>3 DEF EntrySound, Trees!Present
    <3>7. QED
      BY <2>2, <2>5, <3>2, <3>4, <3>5, <3>6 DEF TreesKept
  <2>6. QED
    BY <2>2, <2>4, <2>5 DEF TreesInv
<1>3. QED
  BY <1>1, <1>2

(***************************************************************************)
(* Steps that leave every branch and directory where it is: entries may    *)
(* go, exits begin, merge or stop, and none begins to delete.              *)
(***************************************************************************)
LEMMA BranchesStay ==
  ASSUME TreesType, TreesKept, UNCHANGED <<dir, branch, commits, treeExposed>>,
         stranded \subseteq stranded',
         base \subseteq base', discarded \subseteq discarded', 0 \notin base',
         entries' \subseteq entries,
         \A a \in Agents : treeLeaving[a].at = "delete" => treeLeaving'[a] = treeLeaving[a],
         \A a \in Agents :
           treeLeaving'[a] = treeLeaving[a]
             \/ (treeLeaving'[a].at # "delete" /\ ExitSound(a)')
  PROVE  TreesKept'
<1>1. /\ Safe \subseteq Safe'
      /\ \A c \in 1 .. commits' : c \in Safe' \/ \E n \in Names : c \in branch'[n]
      /\ \A n \in Names : NameSound(n)'
  BY NamesUndisturbed
<1>2. ASSUME NEW a \in Agents PROVE ExitSound(a)'
  <2>1. CASE treeLeaving'[a] = treeLeaving[a]
    <3>1. ExitSound(a)
      BY DEF TreesKept
    <3>2. \A b \in Agents : treeLeaving'[b].at = "delete" => treeLeaving'[b] = treeLeaving[b]
      OBVIOUS
    <3>3. QED
      BY <1>1, <2>1, <3>1, <3>2 DEF ExitSound, Trees!Present
  <2>2. QED
    BY <2>1
<1>3. ASSUME NEW e \in entries' PROVE EntrySound(e)'
  <2>1. EntrySound(e) /\ (Deleted(e[2]) => Deleted(e[2])')
    BY DEF TreesKept, Deleted
  <2>2. QED
    BY <2>1 DEF EntrySound, Trees!Present
<1>4. QED
  BY <1>1, <1>2, <1>3 DEF TreesKept

(***************************************************************************)
(* An exit begins, merges, or stops; an entry is kept out of the list; a   *)
(* conflict is settled; the process restarts.                              *)
(***************************************************************************)
LEMMA LeaveStep ==
  ASSUME TreesInv,
         \/ Trees!ExitKeep \/ Trees!Resolve \/ Trees!Restart \/ UNCHANGED Trees!treeVars
         \/ \E a \in Agents : Trees!ExitWorktree(a) \/ Trees!Merge(a)
  PROVE  TreesInv'
<1>0. TreesType /\ (~reused => TreesKept)
  BY DEF TreesInv
<1>1. ASSUME NEW a \in Agents, Trees!ExitWorktree(a) PROVE TreesInv'
  <2>1. PICK e \in entries, act \in {"merge", "discard"} :
          /\ treeLeaving' = [treeLeaving EXCEPT ![a] =
               [id |-> e[1], name |-> e[2], at |-> IF act = "merge" THEN "merge" ELSE "remove"]]
          /\ discarded' = IF act = "discard" THEN discarded \cup branch[e[2]] ELSE discarded
    BY <1>1 DEF Trees!ExitWorktree
  <2>2. /\ ~reused /\ treeLeaving[a] = Trees!NoExit /\ TreesKept
        /\ UNCHANGED <<entries, nextEntry, dir, branch, base, commits, merging, treeExposed, reused, stranded>>
    BY <1>0, <1>1 DEF Trees!ExitWorktree
  <2> DEFINE x == [id |-> e[1], name |-> e[2], at |-> IF act = "merge" THEN "merge" ELSE "remove"]
  <2>3. e[1] \in Nat /\ e[2] \in Names
    BY <1>0 DEF TreesType
  <2>4. x \in ExitType /\ x.at \in {"merge", "remove"} /\ x.name = e[2] /\ x.id = e[1]
        /\ (x.at = "remove" => act = "discard")
    BY <2>3 DEF ExitType, Exits
  <2>5. treeLeaving' = [treeLeaving EXCEPT ![a] = x]
    BY <2>1
  <2> HIDE DEF x
  <2>6. /\ treeLeaving' \in [Agents -> ExitType] /\ treeLeaving'[a] = x
        /\ \A b \in Agents : b # a => treeLeaving'[b] = treeLeaving[b]
    BY <1>0, <2>4, <2>5 DEF TreesType
  <2>7. ExitSound(a)'
    <3>1. \A f \in entries' : f[2] = e[2] => f = e
      BY <2>2 DEF TreesKept, EntrySound
    <3>2. act = "discard" => branch'[e[2]] \subseteq Safe'
      BY <2>1, <2>2 DEF Safe
    <3>3. QED
      BY <2>3, <2>4, <2>6, <3>1, <3>2 DEF ExitSound
  <2>8. discarded \subseteq discarded' /\ treeLeaving[a].at = "none" /\ 0 \notin base'
    BY <2>1, <2>2 DEF Trees!NoExit, TreesKept
  <2>9. \A b \in Agents : treeLeaving[b].at = "delete" => treeLeaving'[b] = treeLeaving[b]
    BY <2>6, <2>8
  <2>10. \A b \in Agents : treeLeaving'[b] = treeLeaving[b]
                             \/ (treeLeaving'[b].at # "delete" /\ ExitSound(b)')
    <3>1. treeLeaving'[a].at # "delete"
      BY <2>4, <2>6
    <3>2. QED
      BY <2>6, <2>7, <3>1
  <2>11. TreesKept'
    BY <1>0, <2>2, <2>8, <2>9, <2>10, BranchesStay
  <2>12. QED
    BY <1>0, <2>2, <2>6, <2>11 DEF TreesInv, TreesType
<1>2. ASSUME NEW a \in Agents, Trees!Merge(a) PROVE TreesInv'
  <2> DEFINE n == treeLeaving[a].name
  <2>1. PICK place \in {"none", "remove"} :
          /\ (Trees!Go(a, place) /\ place # "none") \/ (Trees!Stop(a) /\ place = "none")
          /\ IF place = "remove" THEN Trees!Present(n) /\ base' = base \cup branch[n]
             ELSE base' = base
    BY <1>2 DEF Trees!Merge
  <2>2. /\ treeLeaving[a].at = "merge"
        /\ UNCHANGED <<entries, nextEntry, dir, branch, commits, discarded, treeExposed, reused, stranded>>
    BY <1>2 DEF Trees!Merge
  <2>3. place \in Exits
    BY DEF Exits
  <2>4. /\ treeLeaving' \in [Agents -> ExitType] /\ treeLeaving'[a].at = place
        /\ place # "none" => /\ treeLeaving'[a].name = treeLeaving[a].name
                             /\ treeLeaving'[a].id = treeLeaving[a].id
        /\ \A b \in Agents : b # a => treeLeaving'[b] = treeLeaving[b]
    BY <1>0, <2>1, <2>3, ExitMoves
  <2>5. ASSUME ~reused PROVE TreesKept'
    <3>1. TreesKept /\ ExitSound(a) /\ n \in Names
      BY <1>0, <2>2, <2>5 DEF TreesKept, ExitSound
    <3>2. base \subseteq base' /\ 0 \notin base' /\ (place = "remove" => branch'[n] \subseteq Safe')
      BY <2>1, <2>2, <3>1 DEF TreesKept, NameSound, Safe
    <3>3. ExitSound(a)'
      BY <2>1, <2>2, <2>4, <3>1, <3>2 DEF ExitSound
    <3>4. \A b \in Agents : treeLeaving[b].at = "delete" => treeLeaving'[b] = treeLeaving[b]
      BY <2>2, <2>4
    <3>5. \A b \in Agents : treeLeaving'[b] = treeLeaving[b]
                              \/ (treeLeaving'[b].at # "delete" /\ ExitSound(b)')
      BY <2>4, <3>3
    <3>6. QED
      BY <1>0, <2>2, <3>1, <3>2, <3>4, <3>5, BranchesStay
  <2>6. QED
    BY <1>0, <2>2, <2>4, <2>5 DEF TreesInv, TreesType
<1>3. ASSUME entries' \subseteq entries,
             UNCHANGED <<nextEntry, dir, branch, base, commits, treeLeaving, discarded,
                         treeExposed, reused, stranded>>
      PROVE  TreesInv'
  <2>1. TreesKept => TreesKept'
    <3>1. TreesKept => 0 \notin base'
      BY <1>3 DEF TreesKept
    <3>2. QED
      BY <1>0, <1>3, <3>1, BranchesStay
  <2>2. QED
    BY <1>0, <1>3, <2>1 DEF TreesInv, TreesType
<1>4. CASE Trees!Restart
  <2>1. /\ entries' = {} /\ treeLeaving' = [a \in Agents |-> Trees!NoExit]
        /\ UNCHANGED <<nextEntry, dir, branch, base, commits, merging, discarded,
                       treeExposed, reused, stranded>>
    BY <1>4 DEF Trees!Restart
  <2>2. Trees!NoExit \in ExitType /\ Trees!NoExit.at = "none"
    BY DEF Trees!NoExit, ExitType, Exits, SomeName
  <2>3. TreesType' /\ \A a \in Agents : treeLeaving'[a].at = "none"
    BY <1>0, <2>1, <2>2 DEF TreesType
  <2>4. ASSUME TreesKept PROVE TreesKept'
    <3>1. /\ \A c \in 1 .. commits' : c \in Safe' \/ \E n \in Names : c \in branch'[n]
          /\ \A n \in Names : NameSound(n)'
      BY <2>1, <2>4, NamesUndisturbed
    <3>2. \A a \in Agents : ExitSound(a)'
      BY <2>3 DEF ExitSound
    <3>3. QED
      BY <2>1, <2>4, <3>1, <3>2 DEF TreesKept
  <2>5. QED
    BY <1>0, <2>1, <2>3, <2>4 DEF TreesInv
<1>5. CASE Trees!ExitKeep
  BY <1>3, <1>5 DEF Trees!ExitKeep, Trees!Without
<1>6. CASE Trees!Resolve \/ UNCHANGED Trees!treeVars
  BY <1>3, <1>6 DEF Trees!Resolve, Trees!treeVars
<1>7. QED
  BY <1>1, <1>2, <1>4, <1>5, <1>6

(***************************************************************************)
(* The directory goes: from then on the exit alone deletes the branch.     *)
(***************************************************************************)
LEMMA RemoveStep ==
  ASSUME TreesInv, NEW a \in Agents, Trees!RemoveDir(a)
  PROVE  TreesInv'
<1> DEFINE n == treeLeaving[a].name
<1>0. TreesType /\ (~reused => TreesKept)
  BY DEF TreesInv
<1>1. /\ treeLeaving[a].at = "remove"
      /\ UNCHANGED <<entries, nextEntry, branch, base, commits, merging, discarded,
                     treeExposed, reused, stranded>>
  BY DEF Trees!RemoveDir
<1>2. CASE dir[n] = "clean" /\ dir' = [dir EXCEPT ![n] = "absent"] /\ Trees!Go(a, "delete")
  <2>1. /\ treeLeaving' \in [Agents -> ExitType] /\ treeLeaving'[a].at = "delete"
        /\ treeLeaving'[a].name = n /\ treeLeaving'[a].id = treeLeaving[a].id
        /\ \A b \in Agents : b # a => treeLeaving'[b] = treeLeaving[b]
    <3>1. "delete" \in Exits
      BY DEF Exits
    <3>2. QED
      BY <1>0, <1>2, <3>1, ExitMoves
  <2>2. TreesType'
    BY <1>0, <1>1, <1>2, <2>1 DEF TreesType
  <2>3. ASSUME ~reused PROVE TreesKept'
    <3>1. TreesKept /\ ExitSound(a) /\ n \in Names
      BY <1>0, <1>1, <2>3 DEF TreesKept, ExitSound
    <3>2. /\ dir'[n] = "absent" /\ \A m \in Names : m # n => dir'[m] = dir[m]
          /\ Trees!Present(n)
      BY <1>0, <1>2, <3>1 DEF TreesType, TreesKept, NameSound
    <3>3. \A m \in Names : NameSound(m)'
      BY <1>1, <3>1, <3>2 DEF TreesKept, NameSound, Trees!Present
    <3>4. Safe' = Safe
      BY <1>1 DEF Safe
    <3>5. \A b \in Agents : treeLeaving[b].at = "delete" => treeLeaving[b].name # n
      BY <1>2, <3>1 DEF TreesKept, ExitSound
    <3>6. ASSUME NEW b \in Agents PROVE ExitSound(b)'
      <4>1. CASE b = a
        BY <1>1, <2>1, <3>1, <3>2, <3>4, <3>5, <4>1 DEF ExitSound, Trees!Present
      <4>2. CASE b # a
        <5>1. ExitSound(b) /\ treeLeaving'[b] = treeLeaving[b]
          BY <2>1, <3>1, <4>2 DEF TreesKept
        <5>2. treeLeaving[b].at = "delete" =>
                /\ dir'[treeLeaving[b].name] = "absent"
                /\ \A d \in Agents : treeLeaving'[d].at = "delete"
                     /\ treeLeaving'[d].name = treeLeaving[b].name => d = b
          BY <2>1, <3>2, <3>5, <5>1 DEF ExitSound
        <5>3. QED
          BY <1>1, <3>4, <5>1, <5>2 DEF ExitSound, Trees!Present
      <4>3. QED
        BY <4>1, <4>2
    <3>7. ASSUME NEW e \in entries' PROVE EntrySound(e)'
      <4>1. e \in entries /\ EntrySound(e) /\ e[2] \in Names
        BY <1>0, <1>1, <3>1 DEF TreesKept, TreesType
      <4>2. e[2] = n => Deleted(e[2])'
        BY <2>1 DEF Deleted
      <4>3. Deleted(e[2]) => Deleted(e[2])'
        BY <1>1, <2>1 DEF Deleted
      <4>4. QED
        BY <1>1, <3>2, <4>1, <4>2, <4>3 DEF EntrySound, Trees!Present
    <3>8. QED
      BY <1>1, <3>1, <3>3, <3>4, <3>6, <3>7 DEF TreesKept
  <2>4. QED
    BY <1>1, <2>2, <2>3 DEF TreesInv
<1>3. CASE dir' = dir /\ Trees!Stop(a)
  <2>1. /\ treeLeaving' \in [Agents -> ExitType] /\ treeLeaving'[a].at = "none"
        /\ \A b \in Agents : b # a => treeLeaving'[b] = treeLeaving[b]
    <3>1. "none" \in Exits
      BY DEF Exits
    <3>2. QED
      BY <1>0, <1>3, <3>1, ExitMoves
  <2>2. TreesType'
    BY <1>0, <1>1, <1>3, <2>1 DEF TreesType
  <2>3. ASSUME ~reused PROVE TreesKept'
    <3>1. TreesKept /\ 0 \notin base'
      BY <1>0, <1>1, <2>3 DEF TreesKept
    <3>2. ExitSound(a)'
      BY <2>1 DEF ExitSound
    <3>3. \A b \in Agents : treeLeaving[b].at = "delete" => treeLeaving'[b] = treeLeaving[b]
      BY <1>1, <2>1
    <3>4. \A b \in Agents : treeLeaving'[b] = treeLeaving[b]
                              \/ (treeLeaving'[b].at # "delete" /\ ExitSound(b)')
      BY <2>1, <3>2
    <3>5. QED
      BY <1>0, <1>1, <1>3, <3>1, <3>3, <3>4, BranchesStay
  <2>4. QED
    BY <1>1, <2>2, <2>3 DEF TreesInv
<1>4. QED
  BY <1>2, <1>3 DEF Trees!RemoveDir

(***************************************************************************)
(* The branch goes, and the only entry of its name with it.                *)
(***************************************************************************)
LEMMA DeleteStep ==
  ASSUME TreesInv, NEW a \in Agents, Trees!DeleteBranch(a)
  PROVE  TreesInv'
<1> DEFINE n == treeLeaving[a].name
<1>0. TreesType /\ (~reused => TreesKept)
  BY DEF TreesInv
<1>1. /\ treeLeaving[a].at = "delete" /\ Trees!Stop(a)
      /\ UNCHANGED <<nextEntry, dir, base, commits, merging, discarded, treeExposed, reused>>
  BY DEF Trees!DeleteBranch
<1>2. /\ treeLeaving' \in [Agents -> ExitType] /\ treeLeaving'[a].at = "none"
      /\ \A b \in Agents : b # a => treeLeaving'[b] = treeLeaving[b]
  <2>1. "none" \in Exits
    BY DEF Exits
  <2>2. QED
    BY <1>0, <1>1, <2>1, ExitMoves
<1>3. CASE stranded' = stranded \cup {n} /\ UNCHANGED <<branch, entries>>
  <2>1. TreesType'
    BY <1>0, <1>1, <1>2, <1>3 DEF TreesType
  <2>2. ASSUME ~reused PROVE TreesKept'
    <3>1. TreesKept
      BY <1>0, <2>2
    <3>2. /\ \A c \in 1 .. commits' : c \in Safe' \/ \E m \in Names : c \in branch'[m]
          /\ \A m \in Names : NameSound(m)'
      BY <1>1, <1>3, <3>1, NamesUndisturbed
    <3>3. ASSUME NEW b \in Agents PROVE ExitSound(b)'
      <4>1. CASE b = a
        BY <1>2, <4>1 DEF ExitSound
      <4>2. CASE b # a
        <5>1. ExitSound(b) /\ treeLeaving'[b] = treeLeaving[b]
          BY <1>2, <3>1, <4>2 DEF TreesKept
        <5>2. \A d \in Agents : treeLeaving'[d].at = "delete" => treeLeaving'[d] = treeLeaving[d]
          BY <1>2
        <5>3. Safe' = Safe
          BY <1>1 DEF Safe
        <5>4. QED
          BY <1>1, <1>3, <5>1, <5>2, <5>3 DEF ExitSound, Trees!Present
      <4>3. QED
        BY <4>1, <4>2
    <3>4. ASSUME NEW e \in entries' PROVE EntrySound(e)'
      <4>1. EntrySound(e)
        BY <1>3, <3>1 DEF TreesKept
      <4>2. Deleted(e[2]) => Deleted(e[2])' \/ (e[2] \in stranded' /\ Trees!Present(e[2]))
        BY <1>1, <1>2, <1>3, <3>1 DEF Deleted, TreesKept, ExitSound
      <4>3. QED
        BY <1>1, <1>3, <4>1, <4>2 DEF EntrySound, Trees!Present
    <3>5. QED
      BY <1>1, <3>1, <3>2, <3>3, <3>4 DEF TreesKept
  <2>3. QED
    BY <1>1, <2>1, <2>2 DEF TreesInv
<1>4. CASE /\ branch' = [branch EXCEPT ![n] = Trees!NoBranch]
           /\ entries' = Trees!Without(treeLeaving[a].id) /\ UNCHANGED stranded
  <2>1. entries' \subseteq entries
    BY <1>4 DEF Trees!Without
  <2>2. TreesType'
    BY <1>0, <1>1, <1>2, <1>4, <2>1 DEF TreesType
  <2>3. ASSUME ~reused PROVE TreesKept'
    <3>1. /\ TreesKept /\ ExitSound(a) /\ n \in Names /\ Trees!Present(n) /\ dir[n] = "absent"
          /\ branch[n] \subseteq Safe
          /\ \A b \in Agents : treeLeaving[b].at = "delete" /\ treeLeaving[b].name = n => b = a
          /\ \A e \in entries : e[2] = n => e[1] = treeLeaving[a].id
      BY <1>0, <1>1, <1>4, <2>3 DEF TreesKept, ExitSound
    <3>2. /\ branch'[n] = Trees!NoBranch
          /\ \A m \in Names : m # n => branch'[m] = branch[m]
      BY <1>0, <1>1, <1>4, <3>1 DEF TreesType
    <3>3. Safe' = Safe /\ Trees!NoBranch \subseteq Safe
      BY <1>1, <1>4 DEF Safe
    <3>4. \A c \in 1 .. commits' : c \in Safe' \/ \E m \in Names : c \in branch'[m]
      BY <1>1, <1>4, <3>1, <3>2, <3>3 DEF TreesKept
    <3>5. \A m \in Names : NameSound(m)'
      BY <1>1, <1>4, <3>1, <3>2 DEF TreesKept, NameSound, Trees!Present
    <3>6. ASSUME NEW b \in Agents PROVE ExitSound(b)'
      <4>1. CASE b = a
        BY <1>2, <4>1 DEF ExitSound
      <4>2. CASE b # a
        <5>1. ExitSound(b) /\ treeLeaving'[b] = treeLeaving[b]
          BY <1>2, <3>1, <4>2 DEF TreesKept
        <5>2. treeLeaving[b].at = "delete" => treeLeaving[b].name # n
          BY <3>1, <4>2
        <5>3. treeLeaving[b].at \in {"remove", "delete"} => branch'[treeLeaving[b].name] \subseteq Safe'
          <6>1. treeLeaving[b].at \in {"remove", "delete"} =>
                  treeLeaving[b].name \in Names /\ branch[treeLeaving[b].name] \subseteq Safe
            BY <5>1 DEF ExitSound
          <6>2. QED
            BY <3>2, <3>3, <6>1
        <5>4. treeLeaving[b].at = "delete" =>
                /\ Trees!Present(treeLeaving[b].name)'
                /\ \A d \in Agents : treeLeaving'[d].at = "delete"
                     /\ treeLeaving'[d].name = treeLeaving[b].name => d = b
          <6>1. treeLeaving[b].at = "delete" =>
                  /\ branch'[treeLeaving[b].name] = branch[treeLeaving[b].name]
                  /\ Trees!Present(treeLeaving[b].name)
            BY <3>2, <5>1, <5>2 DEF ExitSound
          <6>2. QED
            BY <1>2, <5>1, <6>1 DEF ExitSound, Trees!Present
        <5>5. QED
          BY <1>1, <1>4, <2>1, <5>1, <5>3, <5>4 DEF ExitSound
      <4>3. QED
        BY <4>1, <4>2
    <3>7. ASSUME NEW e \in entries' PROVE EntrySound(e)'
      <4>1. e \in entries /\ EntrySound(e) /\ e[2] \in Names /\ e[2] # n
        BY <1>0, <1>1, <1>4, <3>1 DEF TreesKept, TreesType, Trees!Without
      <4>2. Deleted(e[2]) => Deleted(e[2])'
        BY <1>2, <4>1 DEF Deleted
      <4>3. QED
        BY <1>1, <1>4, <2>1, <3>2, <4>1, <4>2 DEF EntrySound, Trees!Present
    <3>8. QED
      BY <1>1, <1>4, <3>1, <3>4, <3>5, <3>6, <3>7 DEF TreesKept
  <2>4. QED
    BY <1>1, <2>2, <2>3 DEF TreesInv
<1>5. QED
  BY <1>3, <1>4 DEF Trees!DeleteBranch

(***************************************************************************)
(* While no name is entered again during an exit of it, no commit is lost  *)
(* but by a discard or inside an exit, and every entry of the list can be  *)
(* merged or discarded, unless git would not delete its branch once its    *)
(* directory was gone (src/tool/worktree.rs).                              *)
(***************************************************************************)
THEOREM WorktreesSoundHolds ==
  ASSUME Trees!WorktreeAssumption PROVE Trees!Spec => []Trees!WorktreesSound
<1>1. Trees!Init => TreesInv
  <2> SUFFICES ASSUME Trees!Init PROVE TreesInv
    OBVIOUS
  <2>1. Trees!NoExit \in ExitType /\ Trees!NoExit.at = "none"
    BY DEF Trees!NoExit, ExitType, Exits, SomeName
  <2>2. TreesType /\ \A a \in Agents : treeLeaving[a].at = "none"
    BY <2>1 DEF Trees!Init, TreesType, Trees!WorktreeAssumption
  <2>3. TreesKept
    BY <2>2 DEF Trees!Init, TreesKept, ExitSound, NameSound, Trees!Present
  <2>4. QED
    BY <2>2, <2>3 DEF TreesInv
<1>2. TreesInv /\ [Trees!Next]_(Trees!treeVars) => TreesInv'
  BY EnterStep, WorkStep, LeaveStep, RemoveStep, DeleteStep DEF Trees!Next
<1>3. TreesInv => Trees!WorktreesSound
  <2> SUFFICES ASSUME TreesInv PROVE Trees!WorktreesSound
    OBVIOUS
  <2>1. commits \in 0 .. MaxCommits /\ DOMAIN treeLeaving = Agents
    BY DEF TreesInv, TreesType
  <2>2. ASSUME ~reused
        PROVE  /\ 1 .. commits \subseteq
                    base \cup discarded \cup treeExposed \cup (UNION {branch[n] : n \in Names})
               /\ \A e \in entries :
                    \/ dir[e[2]] # "absent" /\ Trees!Present(e[2])
                    \/ \E a \in Agents : treeLeaving[a].name = e[2] /\ treeLeaving[a].at = "delete"
                    \/ e[2] \in stranded
    <3>1. TreesKept
      BY <2>2 DEF TreesInv
    <3>2. \A c \in 1 .. commits : c \notin Trees!NoBranch
      BY <2>1 DEF Trees!NoBranch
    <3>3. QED
      BY <3>1, <3>2 DEF TreesKept, EntrySound, Deleted, Safe
  <2>3. QED
    BY <2>1, <2>2 DEF Trees!WorktreesSound
<1>4. QED
  BY <1>1, <1>2, <1>3, PTL DEF Trees!Spec

-----------------------------------------------------------------------------
\* The causal graph's file (CausalTree): for any number of agents and nodes.

NodeType == [id : Nat, parent : Int, birth : Nat, ruled : Nat]
TreeType == [nodes : SUBSET NodeType, next : Nat]

Births(nodes) == {n.birth : n \in nodes}

\* The ids of a tree are its own, and the next one is new.
IdsOwn(tree) ==
  /\ \A m \in tree.nodes : m.id < tree.next
  /\ \A m, n \in tree.nodes : m.id = n.id => m = n

CausalType ==
  /\ treeFile \in TreeType \cup {Causal!Torn} /\ IdsOwn(treeFile)
  /\ mem \in [Agents -> TreeType] /\ \A a \in Agents : IdsOwn(mem[a])
  /\ treeDoing \in [Agents -> {"idle", "loaded", "writing"}]
  /\ births \in Nat /\ links.birth \in Nat /\ links.id \in Int
  /\ clashed \in BOOLEAN

\* Rulings fall where they were meant, unless that node was lost to an edit.
RuledRight(tree) == \A n \in tree.nodes : n.ruled \in {0, n.birth} \cup passed

\* The session's link is to a node that was: nobody else ever has its id.
LinkSound(tree) ==
  \/ links.birth \in passed
  \/ /\ links.id < tree.next
     /\ \A n \in tree.nodes : n.id = links.id => n.birth = links.birth

\* What one agent holds: every node of the file that is not passed over.
HoldsTree(a) ==
  /\ RuledRight(mem[a]) /\ LinkSound(mem[a])
  /\ \A m \in treeFile.nodes : m.birth \in passed \/ Causal!Has(mem[a], m)
  /\ treeDoing[a] = "writing" =>
       /\ treeTmp = "open"
       /\ \A b \in Agents : treeDoing[b] = "writing" => a = b

CausalKept ==
  /\ treeFile \in TreeType /\ RuledRight(treeFile) /\ LinkSound(treeFile)
  /\ \A a \in Agents : treeDoing[a] # "idle" => HoldsTree(a)
  /\ \A i \in 1 .. births :
       \/ i \in Births(treeFile.nodes) \cup treeDropped \cup passed
       \/ \E a \in Agents : treeDoing[a] # "idle" /\ i \in Births(mem[a].nodes)

CausalInv == CausalType /\ (~clashed => CausalKept)

(***************************************************************************)
(* A torn file is loaded as an empty tree, any other as it is.             *)
(***************************************************************************)
LEMMA LoadsSound ==
  ASSUME CausalType
  PROVE  /\ Causal!Load \in TreeType /\ IdsOwn(Causal!Load)
         /\ treeFile \in TreeType => Causal!Load = treeFile /\ treeFile # Causal!Torn
         /\ Causal!Torn.nodes = {} /\ Causal!Empty \in TreeType /\ IdsOwn(Causal!Empty)
<1>1. /\ Causal!Torn.next = -1 /\ Causal!Torn.nodes = {}
      /\ Causal!Empty \in TreeType /\ Causal!Empty.nodes = {}
  BY DEF Causal!Torn, Causal!Empty, TreeType
<1>2. treeFile \in TreeType => treeFile # Causal!Torn
  BY <1>1 DEF TreeType
<1>3. IdsOwn(Causal!Empty)
  BY <1>1 DEF IdsOwn
<1>4. QED
  BY <1>1, <1>2, <1>3 DEF Causal!Load, CausalType

(***************************************************************************)
(* An edit: its tree has ids of its own, the nodes of the file, and those  *)
(* that are new.                                                           *)
(***************************************************************************)
LEMMA EditKept ==
  ASSUME CausalInv, NEW a \in Agents, NEW tree \in TreeType, Causal!Edit(a, tree),
         links' = links, births' \in Nat, IdsOwn(tree),
         CausalKept =>
           /\ RuledRight(tree) /\ LinkSound(tree)
           /\ \A m \in treeFile.nodes : Causal!Has(tree, m)
           /\ \A i \in 1 .. births' : i > births => i \in Births(tree.nodes)
  PROVE  CausalInv'
<1>1. /\ treeDoing[a] = "idle" /\ treeDoing' = [treeDoing EXCEPT ![a] = "loaded"]
      /\ mem' = [mem EXCEPT ![a] = tree]
      /\ UNCHANGED <<treeFile, treeTmp, passed, clashed, treeDropped>>
  BY DEF Causal!Edit
<1>2. /\ CausalType /\ treeDoing'[a] = "loaded" /\ mem'[a] = tree
      /\ \A b \in Agents : b # a => treeDoing'[b] = treeDoing[b] /\ mem'[b] = mem[b]
  BY <1>1 DEF CausalInv, CausalType
<1>3. \A b \in Agents : IdsOwn(mem'[b])
  BY <1>2 DEF CausalType
<1>4. CausalType'
  BY <1>1, <1>2, <1>3 DEF CausalType, IdsOwn
<1>5. ASSUME ~clashed' PROVE CausalKept'
  <2>1. CausalKept
    BY <1>1, <1>5 DEF CausalInv
  <2>2. treeFile' \in TreeType /\ RuledRight(treeFile)' /\ LinkSound(treeFile)'
    BY <1>1, <2>1 DEF CausalKept, RuledRight, LinkSound
  <2>3. HoldsTree(a)'
    BY <1>1, <1>2, <2>1 DEF HoldsTree, RuledRight, LinkSound, Causal!Has
  <2>4. ASSUME NEW b \in Agents, b # a, treeDoing'[b] # "idle" PROVE HoldsTree(b)'
    <3>1. HoldsTree(b)
      BY <1>2, <2>1, <2>4 DEF CausalKept
    <3>2. treeDoing'[b] = "writing" =>
            \A c \in Agents : treeDoing'[c] = "writing" => b = c
      BY <1>2, <2>4, <3>1 DEF HoldsTree
    <3>3. QED
      BY <1>1, <1>2, <2>4, <3>1, <3>2 DEF HoldsTree, RuledRight, LinkSound, Causal!Has
  <2>5. ASSUME NEW i \in 1 .. births'
        PROVE  \/ i \in Births(treeFile'.nodes) \cup treeDropped' \cup passed'
               \/ \E b \in Agents : treeDoing'[b] # "idle" /\ i \in Births(mem'[b].nodes)
    <3>1. CASE i > births
      BY <1>2, <2>1, <3>1
    <3>2. CASE ~(i > births)
      <4>1. i \in 1 .. births
        BY <1>2, <3>2 DEF CausalType
      <4>2. QED
        BY <1>1, <1>2, <2>1, <4>1 DEF CausalKept
    <3>3. QED
      BY <3>1, <3>2
  <2>6. QED
    BY <2>2, <2>3, <2>4, <2>5 DEF CausalKept
<1>6. QED
  BY <1>4, <1>5 DEF CausalInv

(***************************************************************************)
(* A new node has an id of its own, and its birth.                         *)
(***************************************************************************)
LEMMA AddStep ==
  ASSUME Causal!CausalAssumption, CausalInv, NEW a \in Agents, Causal!Add(a)
  PROVE  CausalInv'
<1>1. PICK parent \in {Causal!Root} \cup Given :
        Causal!Edit(a, Causal!AddNode(Causal!Load, parent))
  BY DEF Causal!Add
<1>2. births' = births + 1 /\ links' = links /\ births \in Nat /\ CausalType
  BY DEF Causal!Add, CausalInv, CausalType
<1> DEFINE load == Causal!Load
           new == [id |-> load.next, parent |-> parent, birth |-> births + 1, ruled |-> 0]
           tree == Causal!AddNode(load, parent)
<1>3. /\ load \in TreeType /\ IdsOwn(load) /\ links.id \in Int
      /\ CausalKept => load = treeFile /\ RuledRight(load) /\ LinkSound(load)
  BY <1>2, LoadsSound DEF CausalKept, CausalType
<1>4. tree = [nodes |-> load.nodes \cup {new}, next |-> load.next + 1]
  BY DEF Causal!AddNode
<1>5. parent \in Int
  BY DEF Causal!Root, Causal!CausalAssumption
<1> HIDE DEF load
<1>6. /\ new \in NodeType /\ new.id = load.next /\ new.birth = births + 1 /\ new.ruled = 0
      /\ load.next \in Nat /\ load.nodes \subseteq NodeType
  BY <1>2, <1>3, <1>5 DEF NodeType, TreeType
<1> HIDE DEF new, tree
<1>7. tree \in TreeType /\ tree.nodes = load.nodes \cup {new} /\ tree.next = load.next + 1
  BY <1>4, <1>6 DEF TreeType
<1>8. \A m \in load.nodes : m.id \in Nat
  BY <1>6 DEF NodeType
<1>9. IdsOwn(tree)
  BY <1>3, <1>6, <1>7, <1>8 DEF IdsOwn
<1>10. CausalKept =>
         /\ RuledRight(tree) /\ LinkSound(tree)
         /\ \A m \in treeFile.nodes : Causal!Has(tree, m)
  BY <1>3, <1>6, <1>7 DEF RuledRight, LinkSound, Causal!Has
<1>11. \A i \in 1 .. births' : i > births => i \in Births(tree.nodes)
  BY <1>2, <1>6, <1>7 DEF Births
<1>12. Causal!Edit(a, tree)
  BY <1>1 DEF tree, load
<1>13. births' \in Nat /\ links' = links
  BY <1>2
<1>14. CausalKept =>
         /\ RuledRight(tree) /\ LinkSound(tree)
         /\ \A m \in treeFile.nodes : Causal!Has(tree, m)
         /\ \A i \in 1 .. births' : i > births => i \in Births(tree.nodes)
  BY <1>10, <1>11
<1>15. tree \in TreeType
  BY <1>7
<1>16. QED
  BY <1>9, <1>12, <1>13, <1>14, <1>15, EditKept

(***************************************************************************)
(* A ruling falls on the node that is linked, unless that one was passed   *)
(* over.                                                                   *)
(***************************************************************************)
LEMMA RulingStep ==
  ASSUME CausalInv, NEW a \in Agents, Causal!SetStatus(a) \/ Causal!RecordRuling(a)
  PROVE  CausalInv'
<1>1. /\ births' = births /\ links' = links /\ CausalType /\ births \in Nat
      /\ \A i \in 1 .. births' : ~(i > births)
  BY DEF Causal!SetStatus, Causal!RecordRuling, CausalInv, CausalType
<1> DEFINE load == Causal!Load
<1>2. /\ load \in TreeType /\ IdsOwn(load) /\ links.birth \in Nat
      /\ CausalKept => load = treeFile /\ RuledRight(load) /\ LinkSound(load)
  BY <1>1, LoadsSound DEF CausalKept, CausalType
<1>3. CASE Causal!SetStatus(a)
  <2>1. Causal!Edit(a, load)
    BY <1>3 DEF Causal!SetStatus
  <2>2. CausalKept => \A m \in treeFile.nodes : Causal!Has(load, m)
    BY <1>2 DEF Causal!Has
  <2> HIDE DEF load
  <2>3. QED
    BY <1>1, <1>2, <2>1, <2>2, EditKept
<1>4. CASE Causal!RecordRuling(a)
  <2> DEFINE n == Causal!Node(load, links.id)
             ruled == [n EXCEPT !.ruled = links.birth]
             tree == [load EXCEPT !.nodes = (@ \ {n}) \cup {ruled}]
  <2>1. links.id \in Causal!Ids(load) /\ Causal!Edit(a, tree)
    BY <1>4 DEF Causal!RecordRuling
  <2> HIDE DEF load
  <2>2. n \in load.nodes /\ n.id = links.id
    BY <2>1 DEF Causal!Ids, Causal!Node
  <2> HIDE DEF n
  <2>3. n \in NodeType /\ load.nodes \subseteq NodeType
    BY <1>2, <2>2 DEF TreeType
  <2>4. ruled \in NodeType /\ ruled.id = n.id /\ ruled.birth = n.birth /\ ruled.ruled = links.birth
    BY <1>2, <2>3 DEF NodeType
  <2> HIDE DEF ruled
  <2>5. /\ tree \in TreeType /\ tree.next = load.next
        /\ tree.nodes = (load.nodes \ {n}) \cup {ruled}
    BY <1>2, <2>3, <2>4 DEF TreeType
  <2> HIDE DEF tree
  <2>6. IdsOwn(tree)
    BY <1>2, <2>2, <2>4, <2>5 DEF IdsOwn
  <2>7. CausalKept => RuledRight(tree)
    <3>1. CausalKept => links.birth \in {0, n.birth} \cup passed
      BY <1>2, <2>2 DEF LinkSound
    <3>2. QED
      BY <1>2, <2>4, <2>5, <3>1 DEF RuledRight
  <2>8. CausalKept => LinkSound(tree)
    BY <1>2, <2>2, <2>4, <2>5 DEF LinkSound
  <2>9. CausalKept => \A m \in treeFile.nodes : Causal!Has(tree, m)
    BY <1>2, <2>2, <2>4, <2>5 DEF Causal!Has
  <2>10. QED
    BY <1>1, <2>1, <2>5, <2>6, <2>7, <2>8, <2>9, EditKept
<1>5. QED
  BY <1>3, <1>4

(***************************************************************************)
(* The write of the temporary file begins: with no other under way, or the *)
(* two clash.                                                              *)
(***************************************************************************)
LEMMA StartWriteStep ==
  ASSUME CausalInv, NEW a \in Agents, Causal!StartWrite(a)
  PROVE  CausalInv'
<1>1. /\ treeDoing[a] = "loaded" /\ treeDoing' = [treeDoing EXCEPT ![a] = "writing"]
      /\ treeTmp' = "open"
      /\ clashed' = (clashed \/ \E b \in Agents : treeDoing[b] = "writing")
      /\ ~clashed' => UNCHANGED <<passed, treeDropped>>
      /\ UNCHANGED <<treeFile, mem, births, links>>
  BY DEF Causal!StartWrite
<1>2. /\ CausalType /\ treeDoing'[a] = "writing"
      /\ \A b \in Agents : b # a => treeDoing'[b] = treeDoing[b]
      /\ \A b \in Agents : treeDoing'[b] # "idle" <=> treeDoing[b] # "idle"
  BY <1>1 DEF CausalInv, CausalType
<1>3. clashed' \in BOOLEAN
  BY <1>1, <1>2 DEF CausalType
<1>4. CausalType'
  BY <1>1, <1>2, <1>3 DEF CausalType, IdsOwn
<1>5. ASSUME ~clashed' PROVE CausalKept'
  <2>1. CausalKept /\ \A b \in Agents : treeDoing[b] # "writing"
    BY <1>1, <1>5 DEF CausalInv
  <2>2. ASSUME NEW b \in Agents, treeDoing'[b] # "idle" PROVE HoldsTree(b)'
    <3>1. HoldsTree(b) /\ \A c \in Agents : treeDoing'[c] = "writing" => c = a
      BY <1>2, <2>1, <2>2 DEF CausalKept
    <3>2. QED
      BY <1>1, <1>5, <3>1 DEF HoldsTree, RuledRight, LinkSound, Causal!Has
  <2>3. QED
    BY <1>1, <1>2, <1>5, <2>1, <2>2 DEF CausalKept, RuledRight, LinkSound
<1>6. QED
  BY <1>4, <1>5 DEF CausalInv

(***************************************************************************)
(* An agent lets its tree go.                                              *)
(***************************************************************************)
LEMMA LetGo ==
  ASSUME CausalInv, NEW a \in Agents,
         treeDoing' = [treeDoing EXCEPT ![a] = "idle"],
         mem' = [mem EXCEPT ![a] = Causal!Empty],
         UNCHANGED <<births, links, clashed>>,
         treeFile' \in TreeType \cup {Causal!Torn}, IdsOwn(treeFile')
  PROVE  /\ CausalType' /\ treeDoing'[a] = "idle"
         /\ \A b \in Agents : b # a => treeDoing'[b] = treeDoing[b] /\ mem'[b] = mem[b]
<1>1. /\ CausalType /\ treeDoing'[a] = "idle" /\ mem'[a] = Causal!Empty
      /\ \A b \in Agents : b # a => treeDoing'[b] = treeDoing[b] /\ mem'[b] = mem[b]
  BY DEF CausalInv, CausalType
<1>2. Causal!Empty \in TreeType /\ IdsOwn(Causal!Empty)
  BY <1>1, LoadsSound
<1>3. \A b \in Agents : IdsOwn(mem'[b])
  BY <1>1, <1>2 DEF CausalType
<1>4. CausalType'
  BY <1>1, <1>2, <1>3 DEF CausalType
<1>5. QED
  BY <1>1, <1>4

(***************************************************************************)
(* The write ends.  What the others hold without a node that is now in the *)
(* file passes it over; a node that was in the file and is not was passed  *)
(* over by this one.                                                       *)
(***************************************************************************)
LEMMA EndWriteStep ==
  ASSUME CausalInv, NEW a \in Agents, Causal!EndWrite(a)
  PROVE  CausalInv'
<1> DEFINE others == {b \in Agents \ {a} : treeDoing[b] = "writing"}
           holders == {b \in Agents \ {a} : treeDoing[b] # "idle"}
<1>1. /\ treeDoing[a] = "writing" /\ treeDoing' = [treeDoing EXCEPT ![a] = "idle"]
      /\ mem' = [mem EXCEPT ![a] = Causal!Empty]
      /\ UNCHANGED <<births, links, clashed, treeDropped>>
      /\ ~clashed' => passed' = passed \cup
           {n.birth : n \in {m \in treeFile'.nodes : \E b \in holders : ~Causal!Has(mem[b], m)}}
  BY DEF Causal!EndWrite
<1>2. /\ \/ treeFile' \in {mem[a], Causal!Torn, treeFile}
         \/ \E b \in Agents : treeFile' = mem[b]
      /\ treeFile' = mem[a] \/ treeTmp = "absent" \/ others # {}
  BY DEF Causal!EndWrite
<1>3. /\ CausalType /\ IdsOwn(Causal!Torn)
  BY LoadsSound DEF CausalInv, IdsOwn
<1>4. treeFile' \in TreeType \cup {Causal!Torn} /\ IdsOwn(treeFile')
  BY <1>2, <1>3 DEF CausalType
<1>5. /\ CausalType' /\ treeDoing'[a] = "idle"
      /\ \A b \in Agents : b # a => treeDoing'[b] = treeDoing[b] /\ mem'[b] = mem[b]
  BY <1>1, <1>4, LetGo
<1>6. ASSUME ~clashed' PROVE CausalKept'
  <2>1. CausalKept /\ HoldsTree(a)
    BY <1>1, <1>6 DEF CausalInv, CausalKept
  <2>2. treeFile' = mem[a] /\ treeFile' \in TreeType /\ \A b \in Agents \ {a} : treeDoing[b] # "writing"
    BY <1>1, <1>6, <1>2, <1>3, <2>1 DEF HoldsTree, CausalType
  <2>3. RuledRight(treeFile)' /\ LinkSound(treeFile)'
    BY <1>1, <1>6, <2>1, <2>2 DEF HoldsTree, RuledRight, LinkSound
  <2>4. ASSUME NEW b \in Agents, treeDoing'[b] # "idle" PROVE HoldsTree(b)'
    <3>1. b \in holders /\ HoldsTree(b) /\ mem'[b] = mem[b] /\ treeDoing'[b] # "writing"
      BY <1>5, <2>1, <2>2, <2>4 DEF CausalKept
    <3>2. ASSUME NEW m \in treeFile'.nodes, m.birth \notin passed'
          PROVE  Causal!Has(mem[b], m)
      BY <1>1, <1>6, <3>1, <3>2
    <3>3. RuledRight(mem[b])' /\ LinkSound(mem[b])'
      BY <1>1, <1>6, <3>1 DEF HoldsTree, RuledRight, LinkSound
    <3>4. QED
      BY <3>1, <3>2, <3>3 DEF HoldsTree, Causal!Has
  <2>5. ASSUME NEW i \in 1 .. births'
        PROVE  \/ i \in Births(treeFile'.nodes) \cup treeDropped' \cup passed'
               \/ \E b \in Agents : treeDoing'[b] # "idle" /\ i \in Births(mem'[b].nodes)
    <3>1. \/ i \in Births(treeFile.nodes) \cup treeDropped \cup passed
          \/ \E b \in Agents : treeDoing[b] # "idle" /\ i \in Births(mem[b].nodes)
      BY <1>1, <1>6, <2>1 DEF CausalKept
    <3>2. i \in Births(treeFile.nodes) => i \in passed \/ i \in Births(mem[a].nodes)
      BY <2>1 DEF HoldsTree, Births, Causal!Has
    <3>3. QED
      BY <1>1, <1>6, <1>5, <2>2, <3>1, <3>2
  <2>6. QED
    BY <2>2, <2>3, <2>4, <2>5 DEF CausalKept
<1>7. QED
  BY <1>5, <1>6 DEF CausalInv

(***************************************************************************)
(* The process dies with its tree.                                         *)
(***************************************************************************)
LEMMA TreeCrashStep ==
  ASSUME CausalInv, NEW a \in Agents, Causal!Crash(a)
  PROVE  CausalInv'
<1>1. /\ treeDoing' = [treeDoing EXCEPT ![a] = "idle"]
      /\ mem' = [mem EXCEPT ![a] = Causal!Empty]
      /\ UNCHANGED <<treeFile, treeTmp, births, links, passed, clashed>>
      /\ ~clashed' => treeDropped' = treeDropped \cup Births(mem[a].nodes \ Causal!Load.nodes)
  BY DEF Causal!Crash, Births
<1>2. CausalType /\ treeFile' \in TreeType \cup {Causal!Torn} /\ IdsOwn(treeFile')
  BY <1>1 DEF CausalInv, CausalType
<1>3. /\ CausalType' /\ treeDoing'[a] = "idle"
      /\ \A b \in Agents : b # a => treeDoing'[b] = treeDoing[b] /\ mem'[b] = mem[b]
  BY <1>1, <1>2, LetGo
<1>4. ASSUME ~clashed' PROVE CausalKept'
  <2>1. CausalKept /\ Causal!Load = treeFile
    BY <1>1, <1>2, <1>4, LoadsSound DEF CausalInv, CausalKept
  <2>2. treeFile' \in TreeType /\ RuledRight(treeFile)' /\ LinkSound(treeFile)'
    BY <1>1, <2>1 DEF CausalKept, RuledRight, LinkSound
  <2>3. ASSUME NEW b \in Agents, treeDoing'[b] # "idle" PROVE HoldsTree(b)'
    <3>1. /\ HoldsTree(b) /\ mem'[b] = mem[b] /\ treeDoing'[b] = treeDoing[b]
          /\ \A c \in Agents : treeDoing'[c] = "writing" => treeDoing[c] = "writing"
      BY <1>3, <2>1, <2>3 DEF CausalKept
    <3>2. QED
      BY <1>1, <1>4, <3>1 DEF HoldsTree, RuledRight, LinkSound, Causal!Has
  <2>4. ASSUME NEW i \in 1 .. births'
        PROVE  \/ i \in Births(treeFile'.nodes) \cup treeDropped' \cup passed'
               \/ \E b \in Agents : treeDoing'[b] # "idle" /\ i \in Births(mem'[b].nodes)
    <3>1. \/ i \in Births(treeFile.nodes) \cup treeDropped \cup passed
          \/ \E b \in Agents : treeDoing[b] # "idle" /\ i \in Births(mem[b].nodes)
      BY <1>1, <1>4, <2>1 DEF CausalKept
    <3>2. i \in Births(mem[a].nodes) => i \in Births(treeFile.nodes) \cup treeDropped'
      BY <1>1, <1>4, <2>1 DEF Births
    <3>3. QED
      BY <1>1, <1>4, <1>3, <3>1, <3>2
  <2>5. QED
    BY <2>2, <2>3, <2>4 DEF CausalKept
<1>5. QED
  BY <1>3, <1>4 DEF CausalInv

(***************************************************************************)
(* The session links a node of the file: whoever holds a tree has it, or   *)
(* passes it over.                                                         *)
(***************************************************************************)
LEMMA LinkStep ==
  ASSUME CausalInv, Causal!Link
  PROVE  CausalInv'
<1>1. PICK n \in Causal!Load.nodes : links' = [id |-> n.id, birth |-> n.birth]
  BY DEF Causal!Link
<1>2. UNCHANGED <<treeFile, treeTmp, treeDoing, mem, births, passed, clashed, treeDropped>>
  BY DEF Causal!Link
<1>3. CausalType /\ n \in NodeType
  BY <1>1, LoadsSound DEF CausalInv, TreeType
<1>4. links'.id = n.id /\ links'.birth = n.birth /\ n.id \in Int /\ n.birth \in Nat
  BY <1>1, <1>3 DEF NodeType
<1>5. CausalType'
  BY <1>2, <1>3, <1>4 DEF CausalType, IdsOwn
<1>6. ASSUME ~clashed' PROVE CausalKept'
  <2>1. CausalKept /\ n \in treeFile.nodes
    BY <1>1, <1>2, <1>3, <1>6, LoadsSound DEF CausalInv, CausalKept
  <2>2. RuledRight(treeFile)' /\ LinkSound(treeFile)'
    BY <1>2, <1>3, <1>4, <2>1 DEF CausalKept, CausalType, IdsOwn, RuledRight, LinkSound
  <2>3. ASSUME NEW a \in Agents, treeDoing'[a] # "idle" PROVE HoldsTree(a)'
    <3>1. HoldsTree(a) /\ IdsOwn(mem[a])
      BY <1>2, <1>3, <2>1, <2>3 DEF CausalKept, CausalType
    <3>2. n.birth \in passed \/ Causal!Has(mem[a], n)
      BY <2>1, <3>1 DEF HoldsTree
    <3>3. LinkSound(mem[a])'
      BY <1>2, <1>4, <3>1, <3>2 DEF LinkSound, Causal!Has, IdsOwn
    <3>4. QED
      BY <1>2, <3>1, <3>3 DEF HoldsTree, RuledRight, Causal!Has
  <2>4. QED
    BY <1>2, <2>1, <2>2, <2>3 DEF CausalKept
<1>7. QED
  BY <1>5, <1>6 DEF CausalInv

(***************************************************************************)
(* However the edits of any agents overlap: ids are never shared; as long  *)
(* as no two were in the temporary file at a time nothing tears, and a     *)
(* node is lost only to an agent that loaded before it was saved and saved *)
(* after it (src/tool/reason.rs).                                          *)
(***************************************************************************)
THEOREM CausalSoundHolds ==
  ASSUME Causal!CausalAssumption PROVE Causal!Spec => []Causal!CausalSound
<1>1. Causal!Init => CausalInv
  <2> SUFFICES ASSUME Causal!Init PROVE CausalInv
    OBVIOUS
  <2>1. Causal!Empty \in TreeType /\ Causal!Empty.nodes = {} /\ Causal!Empty.next = 0
    BY DEF Causal!Empty, TreeType
  <2>2. /\ treeFile = Causal!Empty /\ mem = [a \in Agents |-> Causal!Empty]
        /\ treeDoing = [a \in Agents |-> "idle"] /\ births = 0 /\ clashed = FALSE
        /\ links.id = -1 /\ links.birth = 0
    BY DEF Causal!Init, Causal!NoLink, Causal!Root
  <2>3. CausalType
    <3>1. IdsOwn(Causal!Empty)
      BY <2>1 DEF IdsOwn
    <3>2. /\ treeFile \in TreeType /\ IdsOwn(treeFile)
          /\ mem \in [Agents -> TreeType] /\ \A a \in Agents : IdsOwn(mem[a])
      BY <2>1, <2>2, <3>1
    <3>3. clashed \in BOOLEAN
      BY <2>2
    <3>4. QED
      BY <2>2, <3>2, <3>3 DEF CausalType
  <2>4. CausalKept
    BY <2>1, <2>2 DEF CausalKept, RuledRight, LinkSound
  <2>5. QED
    BY <2>3, <2>4 DEF CausalInv
<1>2. CausalInv /\ [Causal!Next]_(Causal!causalVars) => CausalInv'
  <2> SUFFICES ASSUME CausalInv, [Causal!Next]_(Causal!causalVars) PROVE CausalInv'
    OBVIOUS
  <2>1. CASE UNCHANGED Causal!causalVars
    BY <2>1 DEF Causal!causalVars, CausalInv, CausalType, CausalKept, IdsOwn, RuledRight,
       LinkSound, HoldsTree, Causal!Has
  <2>2. QED
    BY <2>1, AddStep, RulingStep, StartWriteStep, EndWriteStep, TreeCrashStep, LinkStep
       DEF Causal!Next
<1>3. CausalInv => Causal!CausalSound
  <2> SUFFICES ASSUME CausalInv PROVE Causal!CausalSound
    OBVIOUS
  <2>1. \A m, n \in treeFile.nodes : m.id = n.id => m = n
    BY DEF CausalInv, CausalType, IdsOwn
  <2>2. ASSUME ~clashed
        PROVE  /\ treeFile # Causal!Torn
               /\ Causal!Ended \subseteq {n.birth : n \in treeFile.nodes} \cup treeDropped \cup passed
               /\ \A n \in treeFile.nodes : n.ruled \in {0, n.birth} \cup passed
    <3>1. CausalKept /\ treeFile # Causal!Torn
      BY <2>2, LoadsSound DEF CausalInv, CausalKept
    <3>2. Causal!Ended \subseteq {n.birth : n \in treeFile.nodes} \cup treeDropped \cup passed
      BY <3>1 DEF CausalKept, Causal!Ended, Births
    <3>3. QED
      BY <3>1, <3>2 DEF CausalKept, RuledRight
  <2>3. QED
    BY <2>1, <2>2 DEF Causal!CausalSound
<1>4. QED
  BY <1>1, <1>2, <1>3, PTL DEF Causal!Spec

-----------------------------------------------------------------------------
\* The clients of MCP and language servers (RpcClients): for any number of
\* agents, roots, calls and frames.

Places == {"idle", "want", "reopen", "drop", "init", "call"}
SomeRoot == Rpc!NoCall.root
FrameType == [is : {"reply", "note", "ask"}, id : Int, about : Nat]

RpcType ==
  /\ nextRequest \in Nat \ {0} /\ document \in Nat /\ rpcDisk \in Nat
  /\ frames \in Seq(FrameType)
  /\ asked \subseteq Nat
  /\ rpcCall \in [Agents -> [at : Places, root : Roots \cup {SomeRoot}, read : Nat, id : Nat]]

\* Nothing carries a number that was not given out.
Numbered ==
  /\ \A k \in asked : k < nextRequest
  /\ \A i \in DOMAIN frames : frames[i].is = "reply" => frames[i].id < nextRequest

\* The one call inside, if any, and what its answer will be about.
Held(a) ==
  /\ Rpc!Waiting(a) => client # "none" /\ rpcCall[a].id < nextRequest
  /\ kind = "lsp" /\ rpcCall[a].at = "call" =>
       /\ document = rpcCall[a].read
       /\ \A i \in DOMAIN frames :
            frames[i].is = "reply" /\ frames[i].id = rpcCall[a].id =>
              frames[i].about = rpcCall[a].read

RpcInv ==
  /\ RpcType /\ Numbered /\ wrong = FALSE
  /\ \A a \in Agents : Held(a)
  /\ \A a, b \in Agents : {rpcCall[a].at, rpcCall[b].at} \subseteq Rpc!Inside => a = b
  /\ client = "fresh" => \E a \in Agents : rpcCall[a].at = "init"

(***************************************************************************)
(* A call changes its place and the number it waits for.                   *)
(***************************************************************************)
Moves(a, place, n) == rpcCall' = [rpcCall EXCEPT ![a].at = place, ![a].id = n]
Moved(a, place, n) ==
  /\ rpcCall' \in [Agents -> [at : Places, root : Roots \cup {SomeRoot}, read : Nat, id : Nat]]
  /\ rpcCall'[a].at = place /\ rpcCall'[a].id = n /\ rpcCall'[a].read = rpcCall[a].read
  /\ \A b \in Agents \ {a} : rpcCall'[b] = rpcCall[b]

(***************************************************************************)
(* A call moves from one place to another and is in no third.              *)
(***************************************************************************)
LEMMA CallMoves ==
  ASSUME RpcType, NEW a \in Agents, NEW place \in Places, NEW n \in Nat, Moves(a, place, n)
  PROVE  Moved(a, place, n)
<1> DEFINE c == [[rpcCall[a] EXCEPT !.at = place] EXCEPT !.id = n]
<1>1. rpcCall[a] \in [at : Places, root : Roots \cup {SomeRoot}, read : Nat, id : Nat]
  BY DEF RpcType
<1>2. /\ c \in [at : Places, root : Roots \cup {SomeRoot}, read : Nat, id : Nat]
      /\ c.at = place /\ c.id = n /\ c.read = rpcCall[a].read
  BY <1>1
<1>3. rpcCall' = [rpcCall EXCEPT ![a] = c]
  BY DEF RpcType, Moves
<1> HIDE DEF c
<1>4. QED
  BY <1>2, <1>3 DEF RpcType, Moved

(***************************************************************************)
(* A call moves without a new number, or is over.                          *)
(***************************************************************************)
LEMMA CallMovesOn ==
  ASSUME RpcType, NEW a \in Agents, NEW place \in Places,
         rpcCall' = [rpcCall EXCEPT ![a].at = place] \/ (Rpc!Done(a) /\ place = "idle")
  PROVE  /\ rpcCall' \in [Agents -> [at : Places, root : Roots \cup {SomeRoot}, read : Nat, id : Nat]]
         /\ rpcCall'[a].at = place
         /\ \A b \in Agents \ {a} : rpcCall'[b] = rpcCall[b]
<1>1. rpcCall[a] \in [at : Places, root : Roots \cup {SomeRoot}, read : Nat, id : Nat]
  BY DEF RpcType
<1>2. CASE rpcCall' = [rpcCall EXCEPT ![a].at = place]
  <2>1. rpcCall' = [rpcCall EXCEPT ![a] = [rpcCall[a] EXCEPT !.at = place]]
    BY <1>2
  <2>2. QED
    BY <1>1, <2>1 DEF RpcType
<1>3. CASE Rpc!Done(a) /\ place = "idle"
  BY <1>3 DEF RpcType, Rpc!Done, Rpc!NoCall, SomeRoot, Places
<1>4. QED
  BY <1>2, <1>3

(***************************************************************************)
(* A frame read: the rest are the frames there were.                       *)
(***************************************************************************)
LEMMA RestOfFrames ==
  ASSUME frames \in Seq(FrameType),
         frames' = frames \/ frames' = <<>> \/ (frames # <<>> /\ frames' = Tail(frames))
  PROVE  /\ frames' \in Seq(FrameType)
         /\ \A i \in DOMAIN frames' : \E j \in DOMAIN frames : frames'[i] = frames[j]
<1>1. CASE frames' = frames
  BY <1>1
<1>2. CASE frames' = <<>>
  BY <1>2
<1>3. CASE frames # <<>> /\ frames' = Tail(frames)
  <2>1. Len(frames) \in Nat /\ Len(frames) > 0 /\ DOMAIN frames = 1 .. Len(frames)
    BY <1>3
  <2>2. frames' \in Seq(FrameType)
    BY <1>3
  <2>3. DOMAIN frames' = 1 .. Len(frames) - 1 /\ \A i \in DOMAIN frames' : frames'[i] = frames[i + 1]
    BY <1>3
  <2>5. \A i \in DOMAIN frames' : i + 1 \in DOMAIN frames
    BY <2>1, <2>3
  <2>6. QED
    BY <2>2, <2>3, <2>5
<1>4. QED
  BY <1>1, <1>2, <1>3

(***************************************************************************)
(* A step of the one call inside needs to care for that call alone         *)
(* (the manager's lock in src/tool/mcp.rs and src/tool/lsp.rs).            *)
(***************************************************************************)
LEMMA HolderStep ==
  ASSUME RpcType', Numbered', wrong' = FALSE, NEW a \in Agents,
         \A b \in Agents \ {a} : rpcCall'[b] = rpcCall[b] /\ rpcCall[b].at \notin Rpc!Inside,
         Held(a)', client' = "fresh" => rpcCall'[a].at = "init"
  PROVE  RpcInv'
<1>1. \A b \in Agents \ {a} : rpcCall'[b].at \notin Rpc!Inside
  OBVIOUS
<1>2. \A b \in Agents \ {a} : Held(b)'
  BY <1>1 DEF Held, Rpc!Waiting, Rpc!Inside
<1>3. QED
  BY <1>1, <1>2 DEF RpcInv

(***************************************************************************)
(* Asking: the new number is nobody else's, so no frame carries it yet.    *)
(***************************************************************************)
LEMMA AskStep ==
  ASSUME RpcInv, NEW a \in Agents, NEW place \in {"drop", "call"}, Rpc!Request(a, place),
         document' = IF kind = "lsp" /\ place = "call" THEN rpcCall[a].read ELSE document,
         frames' = frames \/ (frames # <<>> /\ frames' = Tail(frames)),
         client' # "none", client' # "fresh",
         wrong' = FALSE, UNCHANGED <<kind, rpcDisk>>,
         \A b \in Agents \ {a} : rpcCall[b].at \notin Rpc!Inside
  PROVE  RpcInv'
<1>1. /\ rpcCall' \in [Agents -> [at : Places, root : Roots \cup {SomeRoot}, read : Nat, id : Nat]]
      /\ rpcCall'[a].at = place /\ rpcCall'[a].id = nextRequest
      /\ rpcCall'[a].read = rpcCall[a].read
      /\ \A b \in Agents \ {a} : rpcCall'[b] = rpcCall[b]
  <2>1. RpcType /\ nextRequest \in Nat /\ place \in Places
    BY DEF RpcInv, RpcType, Places
  <2>2. Moves(a, place, nextRequest)
    BY DEF Rpc!Request, Moves
  <2>3. Moved(a, place, nextRequest)
    BY <2>1, <2>2, CallMoves
  <2>4. QED
    BY <2>3 DEF Moved
<1>2. asked' = asked \cup {nextRequest} /\ nextRequest' = nextRequest + 1
  BY DEF Rpc!Request
<1>3. /\ frames' \in Seq(FrameType)
      /\ \A i \in DOMAIN frames' : \E j \in DOMAIN frames : frames'[i] = frames[j]
  BY RestOfFrames DEF RpcInv, RpcType
<1>4. rpcCall[a].read \in Nat /\ nextRequest \in Nat
  BY DEF RpcInv, RpcType
<1>5. RpcType'
  BY <1>1, <1>2, <1>3, <1>4 DEF RpcInv, RpcType
<1>6. \A i \in DOMAIN frames' : frames'[i].is = "reply" => frames'[i].id < nextRequest
  BY <1>3 DEF RpcInv, Numbered
<1>7. \A i \in DOMAIN frames' : frames'[i].id \in Int
  <2>1. \A i \in DOMAIN frames' : frames'[i] \in FrameType
    BY <1>3
  <2>2. QED
    BY <2>1 DEF FrameType
<1>8. Numbered'
  BY <1>2, <1>4, <1>6, <1>7 DEF RpcInv, RpcType, Numbered
<1>9. Held(a)'
  BY <1>1, <1>2, <1>4, <1>6, <1>7 DEF Held
<1>10. QED
  BY <1>1, <1>5, <1>8, <1>9, HolderStep

(***************************************************************************)
(* Starting a server: the new client has a numbering of its own.           *)
(***************************************************************************)
LEMMA SpawnRpcStep ==
  ASSUME RpcInv, NEW a \in Agents, Rpc!Spawn(a), client # "fresh",
         wrong' = FALSE, UNCHANGED <<kind, rpcDisk>>,
         \A b \in Agents \ {a} : rpcCall[b].at \notin Rpc!Inside
  PROVE  RpcInv'
<1>1. CASE /\ client' = "fresh" /\ frames' = <<>> /\ asked' = {1}
           /\ nextRequest' = 2 /\ document' = 0
           /\ rpcCall' = [rpcCall EXCEPT ![a].at = "init", ![a].id = 1]
  <2>1. /\ rpcCall' \in [Agents -> [at : Places, root : Roots \cup {SomeRoot}, read : Nat, id : Nat]]
        /\ rpcCall'[a].at = "init" /\ rpcCall'[a].id = 1
        /\ \A b \in Agents \ {a} : rpcCall'[b] = rpcCall[b]
    <3>1. RpcType /\ "init" \in Places /\ Moves(a, "init", 1)
      BY <1>1 DEF RpcInv, Places, Moves
    <3>2. Moved(a, "init", 1)
      BY <3>1, CallMoves
    <3>3. QED
      BY <3>2 DEF Moved
  <2>2. RpcType' /\ Numbered'
    BY <1>1, <2>1 DEF RpcInv, RpcType, Numbered
  <2>3. Held(a)'
    BY <1>1, <2>1 DEF Held
  <2>4. QED
    BY <2>1, <2>2, <2>3, HolderStep
<1>2. CASE Rpc!Done(a) /\ UNCHANGED <<client, frames, asked, nextRequest, document>>
  <2>1. /\ rpcCall' \in [Agents -> [at : Places, root : Roots \cup {SomeRoot}, read : Nat, id : Nat]]
        /\ rpcCall'[a].at = "idle"
        /\ \A b \in Agents \ {a} : rpcCall'[b] = rpcCall[b]
    BY <1>2, CallMovesOn DEF RpcInv, Places
  <2>2. RpcType' /\ Numbered'
    BY <1>2, <2>1 DEF RpcInv, RpcType, Numbered
  <2>3. Held(a)'
    BY <2>1 DEF Held, Rpc!Waiting
  <2>4. QED
    BY <1>2, <2>1, <2>2, <2>3, HolderStep
<1>3. QED
  BY <1>1, <1>2 DEF Rpc!Spawn

(***************************************************************************)
(* The wait ends: whoever was inside leaves, or reopens.                   *)
(***************************************************************************)
LEMMA EndedStep ==
  ASSUME RpcInv, NEW a \in Agents, Rpc!Waiting(a),
         (frames # <<>> /\ Rpc!Ended(a, Tail(frames))) \/ Rpc!Ended(a, frames),
         wrong' = FALSE, UNCHANGED <<kind, rpcDisk>>,
         \A b \in Agents \ {a} : rpcCall[b].at \notin Rpc!Inside
  PROVE  RpcInv'
<1>0. /\ frames \in Seq(FrameType)
      /\ rpcCall[a].at \in {"init", "drop", "call"}
  BY DEF RpcInv, RpcType, Rpc!Waiting
<1>1. PICK place \in {"idle", "reopen"} :
        /\ rpcCall' = [rpcCall EXCEPT ![a].at = place] \/ (Rpc!Done(a) /\ place = "idle")
        /\ \/ client' = "none" /\ frames' = <<>> /\ asked' = {}
           \/ /\ rpcCall[a].at = "call" /\ UNCHANGED <<client, asked>>
              /\ frames' = frames \/ (frames # <<>> /\ frames' = Tail(frames))
        /\ UNCHANGED <<document, nextRequest>>
  BY <1>0 DEF Rpc!Ended, Rpc!Drop
<1>2. /\ rpcCall' \in [Agents -> [at : Places, root : Roots \cup {SomeRoot}, read : Nat, id : Nat]]
      /\ rpcCall'[a].at = place
      /\ \A b \in Agents \ {a} : rpcCall'[b] = rpcCall[b]
  <2>1. place \in Places /\ RpcType
    BY DEF Places, RpcInv
  <2>2. QED
    BY <1>1, <2>1, CallMovesOn
<1>3. /\ frames' \in Seq(FrameType)
      /\ \A i \in DOMAIN frames' : \E j \in DOMAIN frames : frames'[i] = frames[j]
  BY <1>0, <1>1, RestOfFrames
<1>4. RpcType'
  BY <1>1, <1>2, <1>3 DEF RpcInv, RpcType
<1>5. Numbered'
  <2>1. \A i \in DOMAIN frames' : frames'[i].is = "reply" => frames'[i].id < nextRequest'
    BY <1>1, <1>3 DEF RpcInv, Numbered
  <2>2. asked' \subseteq asked /\ nextRequest' = nextRequest
    BY <1>1
  <2>3. QED
    BY <2>1, <2>2 DEF RpcInv, Numbered
<1>6. Held(a)'
  BY <1>2 DEF Held, Rpc!Waiting
<1>7. client' # "fresh"
  <2>1. CASE rpcCall[a].at = "call" /\ client' = client
    BY <2>1 DEF RpcInv, Rpc!Inside
  <2>2. QED
    BY <1>1, <2>1
<1>8. QED
  BY <1>2, <1>4, <1>5, <1>6, <1>7, HolderStep

(***************************************************************************)
(* What the server writes is about the text it was last given, and in the  *)
(* number it was asked in.                                                 *)
(***************************************************************************)
LEMMA FrameArrives ==
  ASSUME RpcInv, NEW f \in FrameType, Rpc!Put(f),
         f.is = "reply" => f.id < nextRequest /\ f.about = document,
         asked' \subseteq asked,
         UNCHANGED <<kind, client, nextRequest, document, rpcDisk, rpcCall, wrong>>
  PROVE  RpcInv'
<1>1. frames \in Seq(FrameType) /\ frames' = Append(frames, f)
  BY DEF RpcInv, RpcType, Rpc!Put
<1>2. /\ frames' \in Seq(FrameType)
      /\ \A i \in DOMAIN frames' : frames'[i] = f \/ \E j \in DOMAIN frames : frames'[i] = frames[j]
  <2>1. /\ Len(frames) \in Nat /\ DOMAIN frames = 1 .. Len(frames)
        /\ DOMAIN frames' = 1 .. Len(frames) + 1 /\ frames'[Len(frames) + 1] = f
        /\ \A i \in DOMAIN frames : frames'[i] = frames[i]
    BY <1>1
  <2>2. QED
    BY <1>1, <2>1
<1>3. RpcType'
  BY <1>2 DEF RpcInv, RpcType
<1>4. Numbered'
  BY <1>2 DEF RpcInv, Numbered
<1>5. ASSUME NEW a \in Agents PROVE Held(a)'
  <2>1. Held(a)
    BY DEF RpcInv
  <2>2. QED
    BY <1>2, <2>1 DEF Held, Rpc!Waiting
<1>6. QED
  BY <1>3, <1>4, <1>5 DEF RpcInv

(***************************************************************************)
(* Every step of a call, of the server and of the file's editor keeps the  *)
(* invariant.                                                              *)
(***************************************************************************)
LEMMA RpcStep ==
  ASSUME RpcInv, [Rpc!Next]_(Rpc!rpcVars)
  PROVE  RpcInv'
<1>0. /\ nextRequest \in Nat \ {0} /\ document \in Nat /\ rpcDisk \in Nat
      /\ frames \in Seq(FrameType)
  BY DEF RpcInv, RpcType
<1>1. ASSUME NEW a \in Agents, Rpc!Begin(a) PROVE RpcInv'
  <2>1. PICK r \in Roots :
          rpcCall' = [rpcCall EXCEPT ![a] = [Rpc!NoCall EXCEPT !.at = "want", !.root = r, !.read = rpcDisk]]
    BY <1>1 DEF Rpc!Begin
  <2> DEFINE c == [Rpc!NoCall EXCEPT !.at = "want", !.root = r, !.read = rpcDisk]
  <2>2. Rpc!NoCall \in [at : Places, root : Roots \cup {SomeRoot}, read : Nat, id : Nat]
    BY DEF Rpc!NoCall, SomeRoot, Places
  <2>3. /\ c \in [at : Places, root : Roots \cup {SomeRoot}, read : Nat, id : Nat]
        /\ c.at = "want"
    <3>1. c = [[[Rpc!NoCall EXCEPT !.at = "want"] EXCEPT !.root = r] EXCEPT !.read = rpcDisk]
      OBVIOUS
    <3>2. "want" \in Places
      BY DEF Places
    <3> HIDE DEF c
    <3>3. QED
      BY <1>0, <2>2, <3>1, <3>2
  <2>11. /\ rpcCall' \in [Agents -> [at : Places, root : Roots \cup {SomeRoot}, read : Nat, id : Nat]]
         /\ rpcCall[a].at = "idle" /\ rpcCall'[a].at = "want"
         /\ \A b \in Agents \ {a} : rpcCall'[b] = rpcCall[b]
    <3>1. rpcCall' = [rpcCall EXCEPT ![a] = c] /\ rpcCall[a].at = "idle"
      BY <1>1, <2>1 DEF Rpc!Begin
    <3> HIDE DEF c
    <3>2. QED
      BY <2>3, <3>1 DEF RpcInv, RpcType
  <2>4. UNCHANGED <<kind, client, nextRequest, frames, asked, document, rpcDisk, wrong>>
    BY <1>1 DEF Rpc!Begin
  <2>5. RpcType' /\ Numbered'
    BY <2>11, <2>4 DEF RpcInv, RpcType, Numbered
  <2>6. ASSUME NEW b \in Agents PROVE Held(b)'
    <3>1. CASE b = a
      BY <2>11, <3>1 DEF Held, Rpc!Waiting
    <3>2. CASE b # a
      BY <2>11, <2>4, <3>2 DEF RpcInv, Held, Rpc!Waiting
    <3>3. QED
      BY <3>1, <3>2
  <2>7. \A b \in Agents : rpcCall'[b].at = rpcCall[b].at \/ (b = a /\ rpcCall'[b].at = "want")
    BY <2>11
  <2>8. client' = "fresh" => \E b \in Agents : rpcCall'[b].at = "init"
    BY <2>11, <2>4 DEF RpcInv
  <2>9. \A b, d \in Agents : {rpcCall'[b].at, rpcCall'[d].at} \subseteq Rpc!Inside => b = d
    BY <2>7 DEF RpcInv, Rpc!Inside
  <2>10. QED
    BY <2>4, <2>5, <2>6, <2>8, <2>9 DEF RpcInv
<1>2. ASSUME NEW a \in Agents, Rpc!Take(a) PROVE RpcInv'
  <2>1. \A b \in Agents : rpcCall[b].at \notin Rpc!Inside
    BY <1>2 DEF Rpc!Take, Rpc!Locked
  <2>2. client # "fresh" /\ UNCHANGED <<kind, rpcDisk, wrong>> /\ wrong' = FALSE
    BY <1>2, <2>1 DEF Rpc!Take, RpcInv, Rpc!Inside
  <2>3. CASE Rpc!Request(a, "drop") /\ client = "ready" /\ UNCHANGED <<client, frames, document>>
    BY <2>1, <2>2, <2>3, AskStep
  <2>4. CASE Rpc!Spawn(a)
    BY <2>1, <2>2, <2>4, SpawnRpcStep
  <2>5. CASE client # "none" /\ Rpc!Ask(a) /\ UNCHANGED <<client, frames>>
    BY <2>1, <2>2, <2>5, AskStep DEF Rpc!Ask
  <2>6. QED
    BY <1>2, <2>3, <2>4, <2>5 DEF Rpc!Take
<1>3. ASSUME NEW a \in Agents, rpcCall[a].at \in Rpc!Inside
      PROVE  /\ \A b \in Agents \ {a} : rpcCall[b].at \notin Rpc!Inside
             /\ client = "fresh" => rpcCall[a].at = "init"
  BY <1>3 DEF RpcInv, Rpc!Inside
<1>4. ASSUME NEW a \in Agents, Rpc!Reopen(a) PROVE RpcInv'
  <2>1. rpcCall[a].at = "reopen" /\ Rpc!Spawn(a) /\ UNCHANGED <<kind, rpcDisk, wrong>>
    BY <1>4 DEF Rpc!Reopen
  <2>2. wrong' = FALSE /\ rpcCall[a].at \in Rpc!Inside
    BY <2>1 DEF RpcInv, Rpc!Inside
  <2>3. QED
    BY <1>3, <2>1, <2>2, SpawnRpcStep
<1>5. ASSUME NEW a \in Agents, Rpc!Receive(a) PROVE RpcInv'
  <2> DEFINE f == Head(frames)
             skip == f.is = "note" \/ ~Rpc!Matches(f, rpcCall[a].id)
             good == f.is = "reply" /\ f.id = rpcCall[a].id
  <2>1. /\ Rpc!Waiting(a) /\ frames # <<>> /\ UNCHANGED <<kind, rpcDisk>>
        /\ wrong' = (wrong \/ (~skip /\ f.is = "reply" /\ ~(good /\ Rpc!Current(a, f))))
    BY <1>5 DEF Rpc!Receive
  <2>2. rpcCall[a].at \in Rpc!Inside /\ rpcCall[a].at \in {"drop", "init", "call"}
    BY <2>1 DEF Rpc!Waiting, Rpc!Inside
  <2>3. f = frames[1] /\ 1 \in DOMAIN frames
    BY <1>0, <2>1
  <2>4. ~skip /\ f.is = "reply" => good /\ Rpc!Current(a, f)
    BY <2>1, <2>3 DEF RpcInv, Held, Rpc!Matches, Rpc!Current
  <2>5. wrong' = FALSE
    <3>1. wrong = FALSE
      BY DEF RpcInv
    <3> HIDE DEF skip, good
    <3>2. QED
      BY <2>1, <2>4, <3>1, Zenon
  <2>6. CASE /\ skip /\ frames' = Tail(frames)
             /\ UNCHANGED <<client, asked, nextRequest, document, rpcCall>>
    <3>1. /\ frames' \in Seq(FrameType)
          /\ \A i \in DOMAIN frames' : \E j \in DOMAIN frames : frames'[i] = frames[j]
      BY <1>0, <2>1, <2>6, RestOfFrames
    <3>2. RpcType'
      BY <2>1, <2>6, <3>1 DEF RpcInv, RpcType
    <3>3. Numbered'
      BY <2>6, <3>1 DEF RpcInv, Numbered
    <3>4. Held(a)'
      BY <2>1, <2>6, <3>1 DEF RpcInv, Held, Rpc!Waiting
    <3>5. QED
      BY <1>3, <2>2, <2>5, <2>6, <3>2, <3>3, <3>4, HolderStep
  <2>7. CASE /\ Rpc!Ask(a) /\ frames' = Tail(frames) /\ client' = "ready"
    BY <1>3, <2>1, <2>2, <2>5, <2>7, AskStep DEF Rpc!Ask
  <2>8. CASE Rpc!Ended(a, Tail(frames))
    BY <1>3, <2>1, <2>2, <2>5, <2>8, EndedStep
  <2>9. QED
    BY <1>5, <2>6, <2>7, <2>8 DEF Rpc!Receive
<1>6. ASSUME NEW a \in Agents, Rpc!Closed(a) PROVE RpcInv'
  <2>1. /\ Rpc!Waiting(a) /\ Rpc!Ended(a, frames) /\ UNCHANGED <<kind, rpcDisk, wrong>>
        /\ rpcCall[a].at \in Rpc!Inside
    BY <1>6 DEF Rpc!Closed, Rpc!Waiting, Rpc!Inside
  <2>2. wrong' = FALSE
    BY <2>1 DEF RpcInv
  <2>3. QED
    BY <1>3, <2>1, <2>2, EndedStep
<1>7. CASE Rpc!Reply
  <2>1. PICK id \in asked : Rpc!Put(Rpc!Frame("reply", id)) /\ asked' = asked \ {id}
    BY <1>7 DEF Rpc!Reply
  <2>2. /\ Rpc!Frame("reply", id) \in FrameType /\ Rpc!Frame("reply", id).id < nextRequest
        /\ Rpc!Frame("reply", id).about = document
    BY <1>0, <2>1 DEF Rpc!Frame, FrameType, RpcInv, RpcType, Numbered
  <2>3. QED
    BY <1>7, <2>1, <2>2, FrameArrives DEF Rpc!Reply
<1>8. CASE Rpc!Unasked
  <2>1. PICK f \in {Rpc!Frame("note", 0), Rpc!Frame("ask", nextRequest - 1)} : Rpc!Put(f)
    BY <1>8 DEF Rpc!Unasked
  <2>2. f \in FrameType /\ f.is # "reply"
    BY <1>0 DEF Rpc!Frame, FrameType
  <2>3. QED
    BY <1>8, <2>1, <2>2, FrameArrives DEF Rpc!Unasked
<1>9. ASSUME asked' \subseteq asked, rpcDisk' \in Nat,
             UNCHANGED <<kind, client, nextRequest, frames, document, rpcCall, wrong>>
      PROVE  RpcInv'
  <2>1. RpcType' /\ Numbered'
    BY <1>9 DEF RpcInv, RpcType, Numbered
  <2>2. \A a \in Agents : Held(a)'
    BY <1>9 DEF RpcInv, Held, Rpc!Waiting
  <2>3. QED
    BY <1>9, <2>1, <2>2 DEF RpcInv
<1>10. CASE Rpc!Dies \/ Rpc!FileChanges \/ UNCHANGED Rpc!rpcVars
  BY <1>0, <1>9, <1>10 DEF Rpc!Dies, Rpc!FileChanges, Rpc!rpcVars
<1>11. QED
  BY <1>1, <1>2, <1>4, <1>5, <1>6, <1>7, <1>8, <1>10 DEF Rpc!Next, Rpc!CallSteps

(***************************************************************************)
(* The answer a call returns is the server's answer to that call, and one  *)
(* call at a time is inside (src/tool/mcp.rs, src/tool/lsp.rs).            *)
(***************************************************************************)
THEOREM RpcSoundHolds == Rpc!Spec => []Rpc!RpcSound
<1>1. Rpc!Init => RpcInv
  <2> SUFFICES ASSUME Rpc!Init PROVE RpcInv
    OBVIOUS
  <2>1. Rpc!NoCall \in [at : Places, root : Roots \cup {SomeRoot}, read : Nat, id : Nat]
        /\ Rpc!NoCall.at = "idle"
    BY DEF Rpc!NoCall, SomeRoot, Places
  <2>2. RpcType /\ Numbered
    BY <2>1 DEF Rpc!Init, RpcType, Numbered
  <2>3. \A a \in Agents : rpcCall[a].at = "idle"
    BY <2>1 DEF Rpc!Init
  <2>4. QED
    BY <2>2, <2>3 DEF Rpc!Init, RpcInv, Held, Rpc!Waiting, Rpc!Inside
<1>2. RpcInv /\ [Rpc!Next]_(Rpc!rpcVars) => RpcInv'
  BY RpcStep
<1>3. RpcInv => Rpc!RpcSound
  BY DEF RpcInv, Held, Rpc!RpcSound
<1>4. QED
  BY <1>1, <1>2, <1>3, PTL DEF Rpc!Spec

-----------------------------------------------------------------------------
\* A review's verdict (Review): for reports of any length.

LineType ==
  [is : {"prose", "verdict", "signals"}, verdict : {"pass", "needs_fix", "rebuild"},
   signals : Verdicts!Signals]

\* `l` is the last line of its kind in the text, or prose if there is none.
IsLast(l, kindOf, lineOf) ==
  \/ l = Verdicts!Prose /\ \A i \in DOMAIN lineOf : lineOf[i].is # kindOf
  \/ /\ l.is = kindOf
     /\ \E i \in DOMAIN lineOf :
          lineOf[i] = l /\ \A j \in DOMAIN lineOf : j > i => lineOf[j].is # kindOf

ReviewInv ==
  /\ report \in Seq(LineType)
  /\ parsed \in [verdict : LineType, signals : LineType]
  /\ IsLast(parsed.verdict, "verdict", report)
  /\ IsLast(parsed.signals, "signals", report)

(***************************************************************************)
(* Every line a reviewer may write is a line.                              *)
(***************************************************************************)
LEMMA LinesTyped == Verdicts!Lines \subseteq LineType /\ Verdicts!Prose \in LineType
<1> USE DEF LineType, Verdicts!Signals, Verdicts!Statuses
<1>1. Verdicts!Prose \in LineType
  BY DEF Verdicts!Prose
<1>2. \A v \in {"pass", "needs_fix", "rebuild"} :
        [Verdicts!Prose EXCEPT !.is = "verdict", !.verdict = v] \in LineType
  BY DEF Verdicts!Prose
<1>3. \A s \in Verdicts!Signals :
        [Verdicts!Prose EXCEPT !.is = "signals", !.signals = s] \in LineType
  BY DEF Verdicts!Prose
<1>4. DOMAIN Verdicts!Severity = {"pass", "needs_fix", "rebuild"}
  BY DEF Verdicts!Severity
<1> HIDE DEF LineType, Verdicts!Signals
<1>5. QED
  BY <1>1, <1>2, <1>3, <1>4 DEF Verdicts!Lines

(***************************************************************************)
(* One line more: the last line of a kind is the new one, or as before.    *)
(***************************************************************************)
LEMMA LastAfterAppend ==
  ASSUME NEW t \in Seq(LineType), NEW l, NEW x \in LineType, NEW k, k # "prose",
         IsLast(l, k, t)
  PROVE  IsLast(IF x.is = k THEN x ELSE l, k, Append(t, x))
<1> DEFINE n == Len(t) + 1
           u == Append(t, x)
<1>1. /\ Len(t) \in Nat /\ DOMAIN t = 1 .. Len(t) /\ DOMAIN u = 1 .. n
      /\ u[n] = x /\ \A i \in DOMAIN t : u[i] = t[i]
  OBVIOUS
<1> HIDE DEF u
<1>2. CASE x.is = k
  <2>1. n \in DOMAIN u /\ \A j \in DOMAIN u : ~(j > n)
    BY <1>1
  <2>2. QED
    BY <1>1, <1>2, <2>1 DEF IsLast, u
<1>3. CASE x.is # k
  <2>1. CASE l = Verdicts!Prose /\ \A i \in DOMAIN t : t[i].is # k
    BY <1>1, <1>3, <2>1 DEF IsLast, u
  <2>2. CASE /\ l.is = k
             /\ \E i \in DOMAIN t : t[i] = l /\ \A j \in DOMAIN t : j > i => t[j].is # k
    <3>1. PICK i \in DOMAIN t : t[i] = l /\ \A j \in DOMAIN t : j > i => t[j].is # k
      BY <2>2
    <3>2. i \in DOMAIN u /\ u[i] = l
      BY <1>1, <3>1
    <3>3. \A j \in DOMAIN u : j > i => u[j].is # k
      BY <1>1, <1>3, <3>1
    <3>4. QED
      BY <1>3, <2>2, <3>2, <3>3 DEF IsLast, u
  <2>3. QED
    BY <2>1, <2>2 DEF IsLast
<1>4. QED
  BY <1>2, <1>3

(***************************************************************************)
(* The parser keeps the last line of either kind (src/review.rs            *)
(* parse_review).                                                          *)
(***************************************************************************)
LEMMA ReviewStep ==
  ASSUME ReviewInv, [Verdicts!Next]_(Verdicts!reviewVars)
  PROVE  ReviewInv'
<1>1. ASSUME NEW x \in Verdicts!Lines, report' = Append(report, x),
             parsed' = Verdicts!ReadLine(parsed, x)
      PROVE  ReviewInv'
  <2>1. x \in LineType /\ parsed \in [verdict : LineType, signals : LineType]
    BY LinesTyped DEF ReviewInv
  <2>2. x.is \in {"prose", "verdict", "signals"}
    BY <2>1 DEF LineType
  <2>3. /\ parsed' \in [verdict : LineType, signals : LineType]
        /\ parsed'.verdict = IF x.is = "verdict" THEN x ELSE parsed.verdict
        /\ parsed'.signals = IF x.is = "signals" THEN x ELSE parsed.signals
    BY <1>1, <2>1, <2>2 DEF Verdicts!ReadLine
  <2>4. report' \in Seq(LineType)
    BY <1>1, <2>1 DEF ReviewInv
  <2>5. IsLast(parsed'.verdict, "verdict", report') /\ IsLast(parsed'.signals, "signals", report')
    BY <1>1, <2>1, <2>3, LastAfterAppend DEF ReviewInv
  <2>6. IsLast(parsed.verdict, "verdict", report)' /\ IsLast(parsed.signals, "signals", report)'
    BY <2>5 DEF IsLast, Verdicts!Prose
  <2>7. QED
    BY <2>3, <2>4, <2>6 DEF ReviewInv, LineType, Verdicts!Signals, Verdicts!Statuses
<1>2. CASE UNCHANGED Verdicts!reviewVars
  BY <1>2 DEF Verdicts!reviewVars, ReviewInv, IsLast, LineType, Verdicts!Signals, Verdicts!Statuses,
     Verdicts!Prose
<1>3. QED
  BY <1>1, <1>2 DEF Verdicts!Next

(***************************************************************************)
(* The verdict is pass only of a line in the agreed form, a verdict of     *)
(* pass and signals without a failure (src/review.rs Verdict::max and      *)
(* Signals::derived).                                                      *)
(***************************************************************************)
LEMMA VerdictIsSeverer ==
  ASSUME ReviewInv
  PROVE  /\ Verdicts!Verdict = "pass" <=>
              /\ parsed # Verdicts!Unparsed /\ parsed.verdict.verdict = "pass"
              /\ parsed.signals.signals.foundation # "fail" /\ parsed.signals.signals.rest # "fail"
         /\ parsed # Verdicts!Unparsed /\ parsed.signals.signals.foundation = "fail" =>
              Verdicts!Verdict = "rebuild"
<1> DEFINE v == parsed.verdict.verdict
           s == parsed.signals.signals
           d == Verdicts!Derived(s)
<1>1. v \in {"pass", "needs_fix", "rebuild"}
  BY DEF ReviewInv, LineType
<1>2. /\ d \in {"pass", "needs_fix", "rebuild"}
      /\ d = "pass" <=> s.foundation # "fail" /\ s.rest # "fail"
      /\ s.foundation = "fail" => d = "rebuild"
  BY DEF Verdicts!Derived
<1>3. Verdicts!Severity["pass"] = 0 /\ Verdicts!Severity["needs_fix"] = 1
      /\ Verdicts!Severity["rebuild"] = 2
  BY DEF Verdicts!Severity
<1> HIDE DEF v, s, d
<1>4. /\ Verdicts!Severer(v, d) = "pass" <=> v = "pass" /\ d = "pass"
      /\ d = "rebuild" => Verdicts!Severer(v, d) = "rebuild"
  BY <1>1, <1>2, <1>3 DEF Verdicts!Severer
<1>5. Verdicts!Verdict = IF parsed = Verdicts!Unparsed THEN "needs_fix" ELSE Verdicts!Severer(v, d)
  BY DEF Verdicts!Verdict, v, d, s
<1>6. QED
  BY <1>2, <1>4, <1>5 DEF v, s

(***************************************************************************)
(* No change passes but by what the reviewer said last, in the agreed form *)
(* (src/review.rs), for every report.                                      *)
(***************************************************************************)
LEMMA ReviewSoundFollows ==
  ASSUME ReviewInv
  PROVE  Verdicts!ReviewSound
<1>1. \A i \in DOMAIN report : /\ report[i].is \in {"prose", "verdict", "signals"}
                               /\ i \in Nat
  <2>1. \A i \in DOMAIN report : report[i] \in LineType /\ i \in Nat
    BY DEF ReviewInv
  <2>2. QED
    BY <2>1 DEF LineType
<1>2. /\ Verdicts!Prose.verdict = "pass" /\ Verdicts!Prose.is = "prose"
      /\ Verdicts!Prose.signals.foundation = "ok" /\ Verdicts!Prose.signals.rest = "ok"
  BY DEF Verdicts!Prose
<1>3. \A i \in Verdicts!LastOf("verdict") : parsed.verdict = report[i]
  BY <1>1 DEF Verdicts!LastOf, ReviewInv, IsLast
<1>4. \A i \in Verdicts!LastOf("signals") : parsed.signals = report[i]
  BY <1>1 DEF Verdicts!LastOf, ReviewInv, IsLast
<1>5. parsed.verdict = Verdicts!Prose \/ \E i \in Verdicts!LastOf("verdict") : TRUE
  BY DEF Verdicts!LastOf, ReviewInv, IsLast
<1>6. parsed.signals = Verdicts!Prose \/ \E i \in Verdicts!LastOf("signals") : TRUE
  BY DEF Verdicts!LastOf, ReviewInv, IsLast
<1>7. parsed = Verdicts!Unparsed <=> parsed.verdict = Verdicts!Prose /\
        parsed.signals = Verdicts!Prose
  BY DEF ReviewInv, Verdicts!Unparsed
<1>8. parsed.verdict = Verdicts!Prose <=> \A i \in DOMAIN report : report[i].is # "verdict"
  BY <1>2 DEF ReviewInv, IsLast
<1>9. parsed.signals = Verdicts!Prose <=> \A i \in DOMAIN report : report[i].is # "signals"
  BY <1>2 DEF ReviewInv, IsLast
<1>10. parsed # Verdicts!Unparsed <=> \E i \in DOMAIN report : report[i].is # "prose"
  BY <1>1, <1>7, <1>8, <1>9
<1>11. parsed.verdict.verdict = "pass" <=>
         \A i \in Verdicts!LastOf("verdict") : report[i].verdict = "pass"
  BY <1>2, <1>3, <1>5
<1>12. parsed.signals.signals.foundation # "fail" /\ parsed.signals.signals.rest # "fail" <=>
         \A i \in Verdicts!LastOf("signals") :
           report[i].signals.foundation # "fail" /\ report[i].signals.rest # "fail"
  BY <1>2, <1>4, <1>6
<1>13. \A i \in Verdicts!LastOf("signals") : parsed # Verdicts!Unparsed
  BY <1>10 DEF Verdicts!LastOf
<1>14. QED
  BY <1>4, <1>10, <1>11, <1>12, <1>13, VerdictIsSeverer DEF Verdicts!ReviewSound

(***************************************************************************)
(* A panicking, silent or rambling reviewer never passes a change          *)
(* (src/review.rs), whatever the length of its report.                     *)
(***************************************************************************)
THEOREM ReviewSoundHolds == Verdicts!Spec => []Verdicts!ReviewSound
<1>1. Verdicts!Init => ReviewInv
  BY LinesTyped DEF Verdicts!Init, Verdicts!Unparsed, ReviewInv, IsLast
<1>2. ReviewInv /\ [Verdicts!Next]_(Verdicts!reviewVars) => ReviewInv'
  BY ReviewStep
<1>3. ReviewInv => Verdicts!ReviewSound
  BY ReviewSoundFollows
<1>4. QED
  BY <1>1, <1>2, <1>3, PTL DEF Verdicts!Spec

-----------------------------------------------------------------------------
\* A verification run (VerifyRun): for any list of scenarios, critical or not,
\* any output of the suite and any number of targets.

Statuses == {"none", "queued", "running", "passed", "failed", "skipped"}
Truths == {"unrun", "succeeded", "failed", "cut"}
Lines == {"passed", "failed"}
Written == Lines \cup {"garbled"}
BoardType ==
  [running : BOOLEAN, passed : Nat, failed : Nat,
   reported : {"no", "error", "result", "cancelled"},
   scenario : [Check!Scenarios -> Statuses], ended : Nat]

VerifyType ==
  /\ phase \in {"start", "suite", "joining", "scenarios", "scenario", "stopped",
                "exploring", "done"}
  /\ parser \in {"reading", "done"}
  /\ pipe \in Seq(Written) /\ read \in Seq(Lines)
  /\ board \in BoardType
  /\ next \in 1 .. Len(Critical) + 1
  /\ truth \in [Check!Scenarios -> Truths]
  /\ stop \in BOOLEAN /\ token \in BOOLEAN /\ suiteLate \in BOOLEAN

\* The dashboard and the suite.
SuiteInv ==
  /\ board.ended = (IF phase = "done" THEN 1 ELSE 0)
  /\ parser = "done" => board.running = FALSE
  /\ phase = "start" => parser = "done" /\ board.reported = "no"
  /\ board.passed = Check!Counted("passed") /\ board.failed = Check!Counted("failed")
  /\ stop => token \/ suiteLate
  /\ board.reported = "cancelled" => token \/ suiteLate
  /\ board.reported = "result" => parser = "done" /\ (pipe = <<>> \/ Head(pipe) = "garbled")

\* A scenario that is over is shown as it went, but for a cancel.
Settled(i) ==
  \/ truth[i] = "succeeded" /\ board.scenario[i] = "passed"
  \/ truth[i] = "failed" /\ board.scenario[i] = "failed"
  \/ token /\ truth[i] # "failed" /\ board.scenario[i] \in {"skipped", "passed"}

Under == {"scenarios", "scenario", "stopped", "exploring"}
Fatal(i) == Critical[i] /\ truth[i] = "failed"

ShownTrue(i) ==
  /\ i < next => Settled(i)
  /\ i >= next => truth[i] = "unrun" /\ board.scenario[i] \notin {"passed", "failed"}
  /\ i > next /\ (phase \in Under \/ next > 1) => board.scenario[i] = "queued"
  /\ Fatal(i) =>
       /\ i = next - 1 /\ phase \in {"stopped", "done"}
       /\ next \in Check!Scenarios => board.scenario[next] = "queued"

\* The scenarios before `next` are over, the others have not begun, and the
\* only critical one that failed is the last that ran.
ScenariosInv ==
  /\ phase \in {"start", "suite", "joining"} => next = 1
  /\ \A i \in Check!Scenarios : ShownTrue(i)
  /\ phase = "stopped" => \E i \in Check!Scenarios : Fatal(i)
  /\ phase = "scenario" => next \in Check!Scenarios
  /\ phase = "exploring" => next \notin Check!Scenarios
  /\ phase = "done" /\ ~token
       => next \notin Check!Scenarios \/ \E i \in Check!Scenarios : Fatal(i)

VerifyInv == VerifyType /\ SuiteInv /\ ScenariosInv

(***************************************************************************)
(* One more line read is one more of its status.                           *)
(***************************************************************************)
LEMMA CountedAfterAppend ==
  ASSUME read \in Seq(Lines), NEW line \in Lines, read' = Append(read, line), NEW status
  PROVE  /\ Check!Counted(status) \in Nat
         /\ Check!Counted(status)' = Check!Counted(status) + IF line = status THEN 1 ELSE 0
<1> DEFINE n == Len(read)
           S == {i \in DOMAIN read : read[i] = status}
           T == {i \in DOMAIN read' : read'[i] = status}
<1>1. n \in Nat /\ DOMAIN read = 1 .. n /\ DOMAIN read' = 1 .. n + 1
      /\ read'[n + 1] = line /\ \A i \in 1 .. n : read'[i] = read[i]
  OBVIOUS
<1>2. T = (IF line = status THEN S \cup {n + 1} ELSE S) /\ n + 1 \notin S
  <2>1. 1 .. n + 1 = (1 .. n) \cup {n + 1} /\ n + 1 \notin 1 .. n
    BY <1>1
  <2> HIDE DEF n
  <2>2. QED
    BY <1>1, <2>1
<1>3. IsFiniteSet(S)
  <2>1. IsFiniteSet(1 .. n) /\ S \in SUBSET (1 .. n)
    BY <1>1, FS_Interval
  <2> HIDE DEF n, S
  <2>2. QED
    BY <2>1, FS_Subset
<1>4. Check!Counted(status) = Cardinality(S) /\ Check!Counted(status)' = Cardinality(T)
  BY DEF Check!Counted, Check!Cardinality, Cardinality
<1> HIDE DEF n, S, T
<1>5. Cardinality(S) \in Nat /\ Cardinality(S \cup {n + 1}) = Cardinality(S) + 1
  BY <1>2, <1>3, FS_CardinalityType, FS_AddElement
<1>6. QED
  BY <1>2, <1>4, <1>5

(***************************************************************************)
(* What the suite does leaves the scenarios as they are.                   *)
(***************************************************************************)
LEMMA ScenariosUndisturbed ==
  ASSUME VerifyInv, UNCHANGED <<next, truth>>, board'.scenario = board.scenario,
         token => token',
         phase' = phase \/ {phase, phase'} \subseteq {"start", "suite", "joining"}
  PROVE  ScenariosInv'
<1>1. next \in 1 .. Len(Critical) + 1
  BY DEF VerifyInv, VerifyType
<1>2. \A i \in Check!Scenarios : i < next => Settled(i)'
  BY DEF VerifyInv, ScenariosInv, ShownTrue, Settled
<1>3. \A i \in Check!Scenarios : Fatal(i)' = Fatal(i)
  BY DEF Fatal
<1>4. phase' \in Under => phase \in Under
  BY DEF Under
<1>5. \A i \in Check!Scenarios : ShownTrue(i)'
  <2> SUFFICES ASSUME NEW i \in Check!Scenarios PROVE ShownTrue(i)'
    OBVIOUS
  <2>1. ShownTrue(i)
    BY DEF VerifyInv, ScenariosInv
  <2>2. phase' # phase => next = 1 /\ phase' \notin {"stopped", "done"} /\ phase \notin {"stopped", "done"}
    BY DEF VerifyInv, ScenariosInv
  <2>3. QED
    BY <1>1, <1>2, <1>3, <1>4, <2>1, <2>2 DEF ShownTrue
<1>6. QED
  BY <1>1, <1>3, <1>5 DEF VerifyInv, ScenariosInv

(***************************************************************************)
(* Phase and dashboard together: the end of the run is counted once.       *)
(***************************************************************************)
LEMMA EndedOnce ==
  ASSUME VerifyInv, phase # "done", phase' = "done", board' = Check!Ended,
         UNCHANGED <<parser, pipe, read>>, stop' => token \/ suiteLate,
         UNCHANGED <<token, suiteLate>>
  PROVE  /\ board' \in BoardType /\ board'.scenario = board.scenario
         /\ SuiteInv'
<1>1. board \in BoardType /\ board.ended = 0
  BY DEF VerifyInv, VerifyType, SuiteInv
<1>2. /\ board' \in BoardType /\ board'.ended = 1
      /\ board'.running = board.running /\ board'.passed = board.passed
      /\ board'.failed = board.failed /\ board'.reported = board.reported
      /\ board'.scenario = board.scenario
  BY <1>1 DEF BoardType, Check!Ended
<1>3. QED
  BY <1>1, <1>2 DEF VerifyInv, SuiteInv, Check!Counted

(***************************************************************************)
(* One scenario is shown anew.                                             *)
(***************************************************************************)
LEMMA ShowScenario ==
  ASSUME board \in BoardType, NEW i \in Check!Scenarios, NEW status \in Statuses,
         Check!Show(i, status)
  PROVE  /\ board' \in BoardType
         /\ board'.scenario = [board.scenario EXCEPT ![i] = status]
         /\ board'.running = board.running /\ board'.passed = board.passed
         /\ board'.failed = board.failed /\ board'.reported = board.reported
         /\ board'.ended = board.ended
<1> DEFINE s == [board.scenario EXCEPT ![i] = status]
<1>1. s \in [Check!Scenarios -> Statuses]
  BY DEF BoardType
<1>2. board' = [board EXCEPT !.scenario = s]
  BY DEF Check!Show
<1> HIDE DEF s
<1>3. board' \in BoardType
  BY <1>1, <1>2 DEF BoardType
<1>4. /\ board'.scenario = s
      /\ board'.running = board.running /\ board'.passed = board.passed
      /\ board'.failed = board.failed /\ board'.reported = board.reported
      /\ board'.ended = board.ended
  BY <1>2 DEF BoardType
<1>5. QED
  BY <1>3, <1>4 DEF s

(***************************************************************************)
(* The steps of the suite, its reader and run_verify's loop over them.     *)
(***************************************************************************)
LEMMA SuiteStep ==
  ASSUME VerifyInv,
         \/ Check!Start \/ Check!Parse \/ Check!ParseEnds \/ Check!Overdue \/ Check!Poll
         \/ Check!Cancel \/ Check!SuiteExits \/ Check!TestsExit \/ Check!ExploreTarget
         \/ UNCHANGED Check!verifyVars
         \/ \E status \in Written : Check!Output(status)
  PROVE  VerifyInv'
<1> USE DEF Check!suiteVars, Check!l4Vars
<1>0. VerifyType /\ SuiteInv /\ board \in BoardType
  BY DEF VerifyInv, VerifyType
<1>1. CASE Check!Start
  <2>1. /\ board' \in BoardType /\ board'.scenario = board.scenario
        /\ board'.ended = board.ended /\ board'.passed = board.passed
        /\ board'.failed = board.failed /\ board'.reported \in {board.reported, "error"}
        /\ parser' = "reading" \/ (parser' = parser /\ board'.running = board.running)
        /\ board'.reported # "result"
    BY <1>0, <1>1 DEF Check!Start, BoardType, SuiteInv
  <2>2. VerifyType'
    BY <1>0, <1>1, <2>1 DEF VerifyType, Check!Start
  <2>3. SuiteInv'
    BY <1>0, <1>1, <2>1 DEF SuiteInv, Check!Start, Check!Counted
  <2>4. ScenariosInv'
    BY <1>1, <2>1, ScenariosUndisturbed DEF Check!Start
  <2>5. QED
    BY <2>2, <2>3, <2>4 DEF VerifyInv
<1>2. CASE Check!Parse
  <2>1. PICK line \in Lines : /\ line = Head(pipe) /\ read' = Append(read, line)
                              /\ board' = Check!Progress(line)
    <3>1. pipe # <<>> /\ Head(pipe) # "garbled" /\ pipe \in Seq(Written)
      BY <1>0, <1>2 DEF Check!Parse, Check!Garbled, VerifyType
    <3>2. Head(pipe) \in Written
      BY <3>1
    <3>3. Head(pipe) \in Lines
      BY <3>1, <3>2 DEF Written
    <3>4. QED
      BY <1>2, <3>3 DEF Check!Parse
  <2>2. /\ read \in Seq(Lines) /\ pipe \in Seq(Written) /\ pipe # <<>> /\ pipe' = Tail(pipe)
        /\ parser = "reading" /\ parser' = parser
    BY <1>0, <1>2 DEF VerifyType, Check!Parse
  <2>3. read' \in Seq(Lines) /\ pipe' \in Seq(Written)
    BY <2>1, <2>2
  <2>4. /\ Check!Counted("passed") \in Nat /\ Check!Counted("failed") \in Nat
        /\ Check!Counted("passed")' = Check!Counted("passed") + IF line = "passed" THEN 1 ELSE 0
        /\ Check!Counted("failed")' = Check!Counted("failed") + IF line = "failed" THEN 1 ELSE 0
    BY <2>1, <2>2, CountedAfterAppend
  <2>5. /\ board' \in BoardType /\ board'.scenario = board.scenario
        /\ board'.ended = board.ended /\ board'.running = board.running
        /\ board'.reported = board.reported
        /\ board'.passed = board.passed + IF line = "passed" THEN 1 ELSE 0
        /\ board'.failed = board.failed + IF line = "failed" THEN 1 ELSE 0
    <3>1. CASE line = "passed"
      <4>1. board' = [board EXCEPT !.passed = board.passed + 1]
        BY <2>1, <3>1 DEF Check!Progress
      <4>2. QED
        BY <1>0, <3>1, <4>1 DEF BoardType
    <3>2. CASE line = "failed"
      <4>1. board' = [board EXCEPT !.failed = board.failed + 1]
        BY <2>1, <3>2 DEF Check!Progress
      <4>2. QED
        BY <1>0, <3>2, <4>1 DEF BoardType
    <3>3. QED
      BY <3>1, <3>2 DEF Lines
  <2>6. VerifyType'
    BY <1>0, <1>2, <2>3, <2>5 DEF VerifyType, Check!Parse
  <2>7. SuiteInv'
    BY <1>0, <1>2, <2>4, <2>5 DEF SuiteInv, Check!Parse
  <2>8. ScenariosInv'
    BY <1>2, <2>5, ScenariosUndisturbed DEF Check!Parse
  <2>9. QED
    BY <2>6, <2>7, <2>8 DEF VerifyInv
<1>3. CASE Check!ParseEnds
  <2>1. PICK how \in {"cancelled", "error", "result"} :
          /\ board' = [board EXCEPT !.running = FALSE, !.reported = how]
          /\ how = "cancelled" => stop
          /\ how = "result" => ~stop
    BY <1>3 DEF Check!ParseEnds
  <2>2. /\ board' \in BoardType /\ board'.scenario = board.scenario
        /\ board'.ended = board.ended /\ board'.running = FALSE
        /\ board'.passed = board.passed /\ board'.failed = board.failed
        /\ board'.reported = how
    BY <1>0, <2>1 DEF BoardType
  <2>3. VerifyType'
    BY <1>0, <1>3, <2>2 DEF VerifyType, Check!ParseEnds
  <2>4. SuiteInv'
    <3>1. /\ UNCHANGED <<phase, pipe, read, stop, token, suiteLate>> /\ parser' = "done"
          /\ ~stop => pipe = <<>> \/ Head(pipe) = "garbled"
      BY <1>3 DEF Check!ParseEnds, Check!Garbled
    <3>2. phase # "start"
      BY <1>0, <1>3 DEF SuiteInv, Check!ParseEnds
    <3>3. QED
      BY <1>0, <2>1, <2>2, <3>1, <3>2 DEF SuiteInv, Check!Counted
  <2>5. ScenariosInv'
    BY <1>3, <2>2, ScenariosUndisturbed DEF Check!ParseEnds
  <2>6. QED
    BY <2>3, <2>4, <2>5 DEF VerifyInv
<1>4. CASE Check!Poll
  <2>1. CASE token /\ phase' = "done" /\ board' = Check!Ended
    <3>1. phase = "suite"
      BY <1>4 DEF Check!Poll
    <3>2. /\ board' \in BoardType /\ board'.scenario = board.scenario /\ SuiteInv'
      BY <1>4, <2>1, <3>1, EndedOnce DEF Check!Poll
    <3>3. VerifyType'
      BY <1>0, <1>4, <3>2 DEF VerifyType, Check!Poll
    <3>4. ScenariosInv'
      BY <1>4, <2>1, <3>1, <3>2
         DEF VerifyInv, VerifyType, ScenariosInv, ShownTrue, Settled, Fatal, Check!Poll, Under
    <3>5. QED
      BY <3>2, <3>3, <3>4 DEF VerifyInv
  <2>2. CASE phase = "suite" /\ phase' = "joining" /\ UNCHANGED board
    <3>1. VerifyType' /\ SuiteInv'
      <4>1. UNCHANGED <<pipe, read, parser, next, truth, suiteLate, token>>
        BY <1>4 DEF Check!Poll
      <4>2. stop' \in BOOLEAN /\ (stop' => stop \/ suiteLate)
        <5>1. stop' = stop \/ (stop' = TRUE /\ suiteLate)
          <6>1. phase' # "done"
            BY <2>2
          <6>2. QED
            BY <1>4, <6>1, Zenon DEF Check!Poll
        <5>2. stop \in BOOLEAN
          BY <1>0 DEF VerifyType
        <5>3. stop' \in BOOLEAN
          BY <5>1, <5>2
        <5>4. stop' => stop \/ suiteLate
          BY <5>1, Zenon
        <5>5. QED
          BY <5>3, <5>4
      <4>3. VerifyType'
        BY <1>0, <2>2, <4>1, <4>2 DEF VerifyType
      <4>4. SuiteInv'
        BY <1>0, <2>2, <4>1, <4>2 DEF SuiteInv, Check!Counted
      <4>5. QED
        BY <4>3, <4>4
    <3>2. ScenariosInv'
      BY <1>4, <2>2, ScenariosUndisturbed DEF Check!Poll
    <3>3. QED
      BY <3>1, <3>2 DEF VerifyInv
  <2>3. QED
    BY <1>4, <2>1, <2>2 DEF Check!Poll
<1>5. ASSUME UNCHANGED <<phase, read, parser, stop, board, next, truth>>,
             token => token', suiteLate => suiteLate', token' \in BOOLEAN,
             suiteLate' \in BOOLEAN, pipe' \in Seq(Written), pipe' = pipe \/ parser = "reading"
      PROVE  VerifyInv'
  <2>1. VerifyType' /\ SuiteInv'
    BY <1>0, <1>5 DEF VerifyType, SuiteInv, Check!Counted
  <2>2. ScenariosInv'
    BY <1>5, ScenariosUndisturbed
  <2>3. QED
    BY <2>1, <2>2 DEF VerifyInv
<1>6. CASE \E status \in Written : Check!Output(status)
  BY <1>0, <1>5, <1>6 DEF Check!Output, VerifyType
<1>7. CASE \/ Check!Overdue \/ Check!Cancel \/ Check!SuiteExits \/ Check!TestsExit
           \/ Check!ExploreTarget \/ UNCHANGED Check!verifyVars
  BY <1>0, <1>5, <1>7 DEF Check!Overdue, Check!Cancel, Check!SuiteExits, Check!TestsExit,
     Check!ExploreTarget, Check!verifyVars, VerifyType
<1>8. QED
  BY <1>1, <1>2, <1>3, <1>4, <1>6, <1>7

(***************************************************************************)
(* The steps of the scenarios, of the exploration, and into them.          *)
(***************************************************************************)
LEMMA ScenariosStep ==
  ASSUME Check!VerifyRunAssumption, VerifyInv,
         \/ Check!Join \/ Check!StartScenario \/ Check!EndScenario \/ Check!EndScenarios
         \/ Check!EndExploration
  PROVE  VerifyInv'
<1> USE DEF Check!suiteVars, Check!l4Vars
<1>0. /\ VerifyType /\ SuiteInv /\ ScenariosInv /\ board \in BoardType
      /\ next \in 1 .. Len(Critical) + 1 /\ Len(Critical) \in Nat
      /\ Check!Scenarios = 1 .. Len(Critical)
  BY DEF VerifyInv, VerifyType, Check!VerifyRunAssumption, Check!Scenarios
<1>1. CASE Check!Join /\ ~token
  <2> DEFINE shown == [i \in Check!Scenarios |-> IF i = 1 THEN "running" ELSE "queued"]
  <2>1. shown \in [Check!Scenarios -> Statuses]
    BY DEF Statuses
  <2>2. board' = [board EXCEPT !.scenario = shown]
    BY <1>1 DEF Check!Join
  <2>3. /\ board' \in BoardType /\ board'.scenario = shown
        /\ board'.running = board.running /\ board'.passed = board.passed
        /\ board'.failed = board.failed /\ board'.reported = board.reported
        /\ board'.ended = board.ended
    <3> HIDE DEF shown
    <3>1. QED
      BY <1>0, <2>1, <2>2 DEF BoardType
  <2>4. VerifyType' /\ SuiteInv'
    BY <1>0, <1>1, <2>3 DEF VerifyType, SuiteInv, Check!Join, Check!Counted
  <2>5. /\ phase = "joining" /\ phase' = "scenarios" /\ UNCHANGED <<next, truth, token>>
        /\ next = 1
    BY <1>0, <1>1 DEF Check!Join, ScenariosInv
  <2>6. ScenariosInv'
    <3>1. ASSUME NEW i \in Check!Scenarios PROVE ShownTrue(i)'
      <4>1. truth[i] = "unrun" /\ board'.scenario[i] = IF i = 1 THEN "running" ELSE "queued"
        BY <1>0, <2>3, <2>5 DEF ScenariosInv, ShownTrue
      <4> HIDE DEF shown
      <4>2. QED
        BY <1>0, <2>5, <4>1 DEF ShownTrue, Fatal
    <3>2. QED
      BY <2>5, <3>1 DEF ScenariosInv
  <2>7. QED
    BY <2>4, <2>6 DEF VerifyInv
<1>2. CASE Check!StartScenario
  <2>1. PICK status \in {"skipped", "running"} :
          /\ Check!Show(next, status)
          /\ IF token THEN status = "skipped" /\ next' = next + 1 /\ phase' = "scenarios"
             ELSE status = "running" /\ next' = next /\ phase' = "scenario"
    BY <1>2 DEF Check!StartScenario
  <2>2. /\ phase = "scenarios" /\ next \in Check!Scenarios
        /\ UNCHANGED <<parser, pipe, read, stop, suiteLate, token, truth>>
    BY <1>2 DEF Check!StartScenario
  <2>3. /\ board' \in BoardType
        /\ board'.scenario = [board.scenario EXCEPT ![next] = status]
        /\ board'.running = board.running /\ board'.passed = board.passed
        /\ board'.failed = board.failed /\ board'.reported = board.reported
        /\ board'.ended = board.ended
    BY <1>0, <2>1, <2>2, ShowScenario DEF Statuses
  <2>4. VerifyType' /\ SuiteInv'
    BY <1>0, <2>1, <2>2, <2>3 DEF VerifyType, SuiteInv, Check!Counted
  <2>5. /\ board'.scenario[next] = status
        /\ \A i \in Check!Scenarios : i # next => board'.scenario[i] = board.scenario[i]
    BY <1>0, <2>2, <2>3 DEF BoardType
  <2>6. ScenariosInv'
    <3>1. ASSUME NEW i \in Check!Scenarios PROVE ShownTrue(i)' /\ ~Fatal(i)
      BY <1>0, <2>1, <2>2, <2>5 DEF ScenariosInv, ShownTrue, Settled, Fatal, Under
    <3>2. QED
      BY <2>1, <2>2, <3>1 DEF ScenariosInv
  <2>7. QED
    BY <2>4, <2>6 DEF VerifyInv
<1>3. CASE Check!EndScenario
  <2>1. PICK how \in {"succeeded", "failed", "cut"} :
          /\ how = "cut" => token
          /\ truth' = [truth EXCEPT ![next] = how]
          /\ Check!Show(next, IF how = "failed" THEN "failed" ELSE "passed")
          /\ phase' = IF how = "failed" /\ Critical[next] THEN "stopped" ELSE "scenarios"
    BY <1>3 DEF Check!EndScenario
  <2>2. /\ phase = "scenario" /\ next \in Check!Scenarios /\ next' = next + 1
        /\ UNCHANGED <<parser, pipe, read, stop, suiteLate, token>>
    BY <1>0, <1>3 DEF Check!EndScenario, ScenariosInv
  <2>3. PICK status \in {"failed", "passed"} :
          /\ status = "failed" <=> how = "failed"
          /\ Check!Show(next, status)
    BY <2>1
  <2>4. /\ board' \in BoardType
        /\ board'.scenario = [board.scenario EXCEPT ![next] = status]
        /\ board'.running = board.running /\ board'.passed = board.passed
        /\ board'.failed = board.failed /\ board'.reported = board.reported
        /\ board'.ended = board.ended
    BY <1>0, <2>2, <2>3, ShowScenario DEF Statuses
  <2>5. truth' \in [Check!Scenarios -> Truths]
    BY <1>0, <2>1 DEF VerifyType, Truths
  <2>6. VerifyType' /\ SuiteInv'
    <3>1. phase' \in {"stopped", "scenarios"}
      BY <2>1
    <3>2. VerifyType'
      BY <1>0, <2>2, <2>4, <2>5, <3>1 DEF VerifyType
    <3>3. SuiteInv'
      BY <1>0, <2>2, <2>4, <3>1 DEF SuiteInv, Check!Counted
    <3>4. QED
      BY <3>2, <3>3
  <2>7. /\ board'.scenario[next] = status /\ truth'[next] = how
        /\ \A i \in Check!Scenarios : i # next =>
             board'.scenario[i] = board.scenario[i] /\ truth'[i] = truth[i]
    BY <1>0, <2>1, <2>2, <2>4 DEF BoardType, VerifyType
  <2>8. ScenariosInv'
    <3>1. ASSUME NEW i \in Check!Scenarios PROVE ~Fatal(i)
      BY <1>0, <2>2 DEF ScenariosInv, ShownTrue
    <3>2. ASSUME NEW i \in Check!Scenarios, i # next PROVE ShownTrue(i)'
      <4>1. i < next' <=> i < next
        BY <1>0, <2>2, <3>2
      <4>2. i < next => Settled(i)'
        BY <1>0, <2>2, <2>7, <3>2 DEF ScenariosInv, ShownTrue, Settled
      <4>3. i >= next' => /\ truth'[i] = "unrun" /\ board'.scenario[i] = "queued"
        BY <1>0, <2>2, <2>7, <3>2 DEF ScenariosInv, ShownTrue, Under
      <4>4. ~Fatal(i)'
        BY <2>7, <3>1, <3>2 DEF Fatal
      <4>5. QED
        BY <1>0, <2>2, <4>1, <4>2, <4>3, <4>4 DEF ShownTrue
    <3>3. ASSUME NEW i \in Check!Scenarios, i = next PROVE ShownTrue(i)'
      <4>1. Settled(i)'
        BY <2>1, <2>2, <2>3, <2>7, <3>3 DEF Settled
      <4>2. Fatal(i)' => phase' = "stopped"
        BY <2>1, <2>7, <3>3 DEF Fatal
      <4>3. next + 1 \in Check!Scenarios => board'.scenario[next + 1] = "queued"
        BY <1>0, <2>2, <2>7 DEF ScenariosInv, ShownTrue, Under
      <4>4. QED
        BY <1>0, <2>2, <3>3, <4>1, <4>2, <4>3 DEF ShownTrue
    <3>4. phase' = "stopped" => \E i \in Check!Scenarios : Fatal(i)'
      BY <2>1, <2>2, <2>7 DEF Fatal
    <3>5. QED
      BY <1>0, <2>1, <2>2, <3>2, <3>3, <3>4 DEF ScenariosInv
  <2>9. QED
    BY <2>6, <2>8 DEF VerifyInv
<1>4. CASE Check!EndScenarios /\ phase' = "exploring"
  <2>1. /\ phase = "scenarios" /\ next \notin Check!Scenarios
        /\ UNCHANGED <<board, parser, pipe, read, stop, suiteLate, token, next, truth>>
    BY <1>4 DEF Check!EndScenarios
  <2>2. VerifyType' /\ SuiteInv'
    BY <1>0, <1>4, <2>1 DEF VerifyType, SuiteInv, Check!Counted
  <2>3. ScenariosInv'
    BY <1>0, <1>4, <2>1 DEF ScenariosInv, ShownTrue, Settled, Fatal, Under
  <2>4. QED
    BY <2>2, <2>3 DEF VerifyInv
<1>5. CASE /\ Check!Join \/ Check!EndScenarios \/ Check!EndExploration
           /\ phase' = "done" /\ board' = Check!Ended
  <2>1. /\ phase \in {"joining", "scenarios", "stopped", "exploring"}
        /\ phase = "joining" => token
        /\ phase = "scenarios" => next \notin Check!Scenarios
        /\ UNCHANGED <<parser, pipe, read, stop, suiteLate, token, next, truth>>
    BY <1>5 DEF Check!Join, Check!EndScenarios, Check!EndExploration
  <2>2. /\ board' \in BoardType /\ board'.scenario = board.scenario /\ SuiteInv'
    BY <1>0, <1>5, <2>1, EndedOnce DEF SuiteInv
  <2>3. VerifyType'
    BY <1>0, <1>5, <2>1, <2>2 DEF VerifyType
  <2>4. ScenariosInv'
    BY <1>0, <1>5, <2>1, <2>2 DEF ScenariosInv, ShownTrue, Settled, Fatal, Under
  <2>5. QED
    BY <2>2, <2>3, <2>4 DEF VerifyInv
<1>6. QED
  BY <1>1, <1>2, <1>3, <1>4, <1>5 DEF Check!Join, Check!EndScenarios, Check!EndExploration

(***************************************************************************)
(* The dashboard shows what the suite and the scenarios did, and nothing   *)
(* is explored after a critical failure (src/agent.rs run_verify).         *)
(***************************************************************************)
THEOREM VerifySoundHolds ==
  ASSUME Check!VerifyRunAssumption PROVE Check!Spec => []Check!VerifySound
<1>0. Len(Critical) \in Nat /\ Check!Scenarios = 1 .. Len(Critical)
  BY DEF Check!VerifyRunAssumption, Check!Scenarios
<1>1. Check!Init => VerifyInv
  <2> SUFFICES ASSUME Check!Init PROVE VerifyInv
    OBVIOUS
  <2>1. Check!Board \in BoardType
    BY DEF Check!Board, BoardType, Statuses
  <2>2. VerifyType
    <3>1. truth \in [Check!Scenarios -> Truths]
      BY DEF Check!Init, Truths
    <3>2. <<>> \in Seq(Lines) /\ <<>> \in Seq(Written)
      OBVIOUS
    <3>3. QED
      <4>1. next \in 1 .. Len(Critical) + 1 /\ board \in BoardType
        BY <1>0, <2>1 DEF Check!Init
      <4>2. QED
        BY <3>1, <3>2, <4>1 DEF Check!Init, VerifyType
  <2>3. \A status : Check!Counted(status) = 0
    <3> TAKE status
    <3>1. {i \in DOMAIN read : read[i] = status} = {}
      <4>1. read = <<>> /\ DOMAIN <<>> = {}
        BY DEF Check!Init
      <4>2. QED
        BY <4>1
    <3>2. Check!Cardinality({}) = Cardinality({})
      BY DEF Check!Cardinality, Cardinality
    <3>3. QED
      BY <3>1, <3>2, FS_EmptySet DEF Check!Counted
  <2>4. SuiteInv
    BY <2>3 DEF Check!Init, SuiteInv, Check!Board
  <2>5. ScenariosInv
    <3>1. /\ next = 1 /\ phase = "start"
          /\ \A i \in Check!Scenarios : truth[i] = "unrun" /\ board.scenario[i] = "none"
      BY DEF Check!Init, Check!Board
    <3>2. ASSUME NEW i \in Check!Scenarios PROVE ShownTrue(i)
      BY <1>0, <3>1 DEF ShownTrue, Fatal, Under
    <3>3. QED
      BY <3>1, <3>2 DEF ScenariosInv
  <2>6. QED
    BY <2>2, <2>4, <2>5 DEF VerifyInv
<1>2. VerifyInv /\ [Check!Next]_(Check!verifyVars) => VerifyInv'
  BY SuiteStep, ScenariosStep DEF Check!Next, Check!Steps, Lines, Written
<1>3. VerifyInv => Check!VerifySound
  <2> SUFFICES ASSUME VerifyInv PROVE Check!VerifySound
    OBVIOUS
  <2>1. next \in 1 .. Len(Critical) + 1
    BY DEF VerifyInv, VerifyType
  <2>2. phase = "exploring" => \A i \in Check!Scenarios : Critical[i] => truth[i] # "failed"
    BY DEF VerifyInv, ScenariosInv, ShownTrue, Fatal
  <2>3. ASSUME NEW i \in Check!Scenarios
        PROVE /\ board.scenario[i] = "passed" => truth[i] = "succeeded" \/ token
              /\ board.scenario[i] = "failed" /\ Critical[i] =>
                   \A j \in Check!Scenarios : j > i =>
                     board.scenario[j] = "queued" /\ truth[j] = "unrun"
    <3>1. ShownTrue(i)
      BY DEF VerifyInv, ScenariosInv
    <3>2. board.scenario[i] = "passed" => truth[i] = "succeeded" \/ token
      BY <1>0, <2>1, <3>1 DEF ShownTrue, Settled
    <3>3. ASSUME board.scenario[i] = "failed", Critical[i], NEW j \in Check!Scenarios, j > i
          PROVE  board.scenario[j] = "queued" /\ truth[j] = "unrun"
      <4>1. i < next
        BY <1>0, <2>1, <3>1, <3>3 DEF ShownTrue
      <4>2. Fatal(i)
        BY <3>1, <3>3, <4>1 DEF ShownTrue, Settled, Fatal
      <4>3. ShownTrue(j) /\ i = next - 1
        BY <3>1, <4>2 DEF VerifyInv, ScenariosInv, ShownTrue
      <4>4. j >= next
        BY <1>0, <2>1, <3>3, <4>3
      <4>5. CASE j = next
        BY <3>1, <4>2, <4>3, <4>4, <4>5 DEF ShownTrue
      <4>6. CASE j > next
        BY <1>0, <2>1, <4>1, <4>3, <4>6 DEF ShownTrue
      <4>7. QED
        BY <1>0, <2>1, <4>4, <4>5, <4>6
    <3>4. QED
      BY <3>2, <3>3
  <2>4. ASSUME phase = "done", ~token
        PROVE  \/ \E i \in Check!Scenarios : Critical[i] /\ truth[i] = "failed"
               \/ \A i \in Check!Scenarios : board.scenario[i] \in {"passed", "failed"}
    <3>1. CASE next \notin Check!Scenarios
      <4>1. ASSUME NEW i \in Check!Scenarios PROVE board.scenario[i] \in {"passed", "failed"}
        <5>1. i < next /\ ShownTrue(i)
          BY <1>0, <2>1, <3>1 DEF VerifyInv, ScenariosInv
        <5>2. QED
          BY <2>4, <5>1 DEF ShownTrue, Settled
      <4>2. QED
        BY <4>1
    <3>2. CASE \E i \in Check!Scenarios : Fatal(i)
      BY <3>2 DEF Fatal
    <3>3. QED
      BY <2>4, <3>1, <3>2 DEF VerifyInv, ScenariosInv
  <2>5. QED
    BY <2>2, <2>3, <2>4 DEF VerifyInv, SuiteInv, Check!VerifySound, Check!Garbled
<1>4. QED
  BY <1>1, <1>2, <1>3, PTL DEF Check!Spec

-----------------------------------------------------------------------------
\* A completion (Completions): for all budgets and delays.

Endpoints == IF Fallback THEN 2 ELSE 1

\* The endpoint is the first or the second of its round.
Turn == IF endpoint = "primary" THEN 0 ELSE 1

\* The attempts of the endpoint under way that were made.
Tried == IF at = "call" THEN attempt - 1 ELSE attempt

CompletionType ==
  /\ at \in {"call", "pause", "failed", "done"}
  /\ endpoint \in {"primary", "fallback"} /\ (endpoint = "fallback" => Fallback)
  /\ attempt \in 1 .. Model!Attempts
  /\ delay \in Nat /\ slept \in Nat /\ calls \in Nat
  /\ retries \in 0 .. MaxRetries
  /\ cancelled \in BOOLEAN /\ doomed \in BOOLEAN /\ refused \in BOOLEAN

\* The calls made, as the digits of a clock: rounds of the agent, endpoints of
\* a round, attempts of an endpoint.
Counted == calls <= (retries * Endpoints + Turn) * Model!Attempts + Tried

CompletionInv ==
  /\ CompletionType /\ Counted
  /\ at = "pause" => attempt < Model!Attempts
  /\ slept <= MaxDelay
  /\ doomed => retries = 0 /\ (at = "failed" => Model!Doomed(result))
  /\ refused => /\ retries = 0 /\ attempt = 1 /\ at # "pause"
                /\ calls <= (IF at = "call" THEN Turn ELSE Turn + 1)
                /\ at = "failed" => Model!Refused(result)
  /\ at = "done" /\ Model!AgentRetries(result) => retries = MaxRetries \/ cancelled

(***************************************************************************)
(* At least one attempt is made, whatever the configuration says           *)
(* (src/provider/retry.rs).                                                *)
(***************************************************************************)
LEMMA AttemptsPositive ==
  ASSUME Model!CompletionsAssumption
  PROVE  Model!Attempts \in Nat \ {0} /\ Endpoints \in {1, 2}
BY DEF Model!CompletionsAssumption, Model!Attempts, Endpoints

(***************************************************************************)
(* The lesser of two numbers.                                              *)
(***************************************************************************)
LEMMA LeastTyped ==
  ASSUME NEW a \in Nat, NEW b \in Nat
  PROVE  Model!Least(a, b) \in Nat /\ Model!Least(a, b) <= b
BY DEF Model!Least

(***************************************************************************)
(* No layer repeats what was refused, nor the agent what is doomed         *)
(* (src/retry.rs, src/provider/retry.rs).                                  *)
(***************************************************************************)
LEMMA NotRepeated ==
  /\ \A e : Model!Doomed(e) => ~Model!AgentRetries(e)
  /\ \A e : Model!Refused(e) => ~Model!AgentRetries(e) /\ ~Model!EndpointRetries(e)
  /\ ~Model!AgentRetries(Model!Reply)
<1>1. \A e : Model!Doomed(e) => ~Model!AgentRetries(e)
  BY DEF Model!AgentRetries
<1>2. \A e : Model!Refused(e) => ~Model!AgentRetries(e)
  <2> SUFFICES ASSUME NEW e, Model!Refused(e) PROVE ~Model!AgentRetries(e)
    OBVIOUS
  <2>1. /\ e.status \notin {"429", "listed5xx", "transport"}
        /\ \A x \in e.body : x \notin {"busy", "down", "code"}
    BY DEF Model!Refused
  <2>2. QED
    BY <2>1 DEF Model!AgentRetries
<1>3. \A e : Model!Refused(e) => ~Model!EndpointRetries(e)
  <2> SUFFICES ASSUME NEW e, Model!Refused(e) PROVE ~Model!EndpointRetries(e)
    OBVIOUS
  <2>1. /\ e.status \notin {"429", "listed5xx", "other5xx"}
        /\ \A x \in e.body : x \notin {"busy", "down", "eof"}
    BY DEF Model!Refused
  <2>2. QED
    BY <2>1 DEF Model!EndpointRetries
<1>4. ~Model!AgentRetries(Model!Reply)
  BY DEF Model!AgentRetries, Model!Reply
<1>5. QED
  BY <1>1, <1>2, <1>3, <1>4

(***************************************************************************)
(* One more call is one more attempt of the endpoint.                      *)
(***************************************************************************)
LEMMA CalledOnce ==
  ASSUME Model!CompletionsAssumption, CompletionType, Counted, at = "call",
         at' \in {"pause", "failed", "done"}, calls' = calls + 1,
         UNCHANGED <<endpoint, attempt, retries>>
  PROVE  Counted'
<1> DEFINE before == (retries * Endpoints + Turn) * Model!Attempts
<1>1. before \in Nat
  BY AttemptsPositive DEF CompletionType, Turn
<1>2. calls <= before + (attempt - 1) /\ calls \in Nat /\ attempt \in Nat
  BY AttemptsPositive DEF CompletionType, Counted, Tried
<1>3. (retries' * Endpoints + Turn') * Model!Attempts = before
  BY DEF Turn
<1>4. Tried' = attempt
  BY DEF Tried
<1> HIDE DEF before
<1>5. calls' <= before + attempt
  BY <1>1, <1>2
<1>6. QED
  BY <1>3, <1>4, <1>5 DEF Counted

(***************************************************************************)
(* A step of any layer keeps the number of calls within the digits before  *)
(* it, and repeats only what may be repeated (src/provider/retry.rs,       *)
(* src/provider/mod.rs, src/agent.rs complete_retrying).                   *)
(***************************************************************************)
LEMMA CompletionStep ==
  ASSUME Model!CompletionsAssumption, CompletionInv, [Model!Next]_(Model!completionVars)
  PROVE  CompletionInv'
<1>0. Model!Attempts \in Nat \ {0} /\ Endpoints \in {1, 2}
  BY AttemptsPositive
<1>a. {MaxAttempts, MaxRetries, FirstDelay, MaxDelay} \subseteq Nat /\ Fallback \in BOOLEAN
  BY DEF Model!CompletionsAssumption
<1> DEFINE A == Model!Attempts
           E == Endpoints
<1>1. CASE Model!Call
  <2>0. /\ at = "call" /\ calls' = calls + 1
        /\ UNCHANGED <<endpoint, attempt, delay, retries, cancelled, slept>>
        /\ calls \in Nat /\ attempt \in Nat
    BY <1>0, <1>1 DEF Model!Call, CompletionInv, CompletionType
  <2>1. CASE at' = "done" /\ result' = Model!Reply /\ UNCHANGED <<doomed, refused>>
    <3>1. ~Model!AgentRetries(result')
      BY <2>1, NotRepeated
    <3>2. CompletionType'
      BY <2>0, <2>1 DEF CompletionInv, CompletionType
    <3>3. Counted'
    BY <2>0, <2>1, CalledOnce DEF CompletionInv
    <3>4. refused => calls' <= Turn' + 1 /\ retries' = 0 /\ attempt' = 1
      BY <2>0, <2>1 DEF CompletionInv, Turn
    <3>5. QED
      BY <2>0, <2>1, <3>1, <3>2, <3>3, <3>4 DEF CompletionInv, Model!AgentRetries
  <2>2. ASSUME NEW e \in Model!Errors,
               IF Model!EndpointRetries(e) /\ attempt < Model!Attempts
               THEN at' = "pause" /\ UNCHANGED result
               ELSE at' = "failed" /\ result' = e,
               doomed' = (doomed /\ Model!Doomed(e)),
               refused' = (refused /\ Model!Refused(e))
        PROVE  CompletionInv'
    <3>1. at' \in {"pause", "failed"} /\ (at' = "pause" => attempt < Model!Attempts)
      BY <2>2
    <3>2. CompletionType'
      BY <2>0, <2>2, <3>1 DEF CompletionInv, CompletionType
    <3>3. Counted'
      BY <2>0, <3>1, CalledOnce DEF CompletionInv
    <3>4. doomed' => retries' = 0 /\ (at' = "failed" => Model!Doomed(result'))
      BY <2>0, <2>2 DEF CompletionInv
    <3>5. refused' => /\ at' = "failed" /\ Model!Refused(result')
                      /\ retries' = 0 /\ attempt' = 1 /\ calls' <= Turn' + 1
      <4> SUFFICES ASSUME refused' PROVE /\ at' = "failed" /\ Model!Refused(result')
                                         /\ retries' = 0 /\ attempt' = 1 /\ calls' <= Turn' + 1
        OBVIOUS
      <4>1. refused /\ Model!Refused(e)
        BY <2>2
      <4>2. at' = "failed" /\ result' = e
        BY <2>2, <4>1, NotRepeated
      <4>3. calls <= Turn /\ retries = 0 /\ attempt = 1
        BY <2>0, <4>1 DEF CompletionInv
      <4>4. Turn' = Turn /\ Turn \in Nat
        BY <2>0 DEF Turn
      <4>5. QED
        BY <2>0, <4>1, <4>2, <4>3, <4>4
    <3>6. slept' <= MaxDelay /\ at' # "done" /\ at' # "call"
      BY <2>0, <3>1 DEF CompletionInv
    <3>7. doomed' => retries' = 0 /\ (at' = "failed" => Model!Doomed(result)')
      BY <3>4 DEF Model!Doomed
    <3>8. refused' => /\ at' = "failed" /\ Model!Refused(result)'
                      /\ retries' = 0 /\ attempt' = 1 /\ calls' <= Turn' + 1
      BY <3>5 DEF Model!Refused
    <3>9. QED
      BY <2>0, <3>1, <3>2, <3>3, <3>6, <3>7, <3>8 DEF CompletionInv
  <2>3. QED
    BY <1>1, <2>1, <2>2 DEF Model!Call
<1>2. CASE Model!Pause
  <2>1. PICK jitter \in 0 .. delay \div 4 : slept' = Model!Least(delay + jitter, MaxDelay)
    BY <1>2 DEF Model!Pause
  <2>2. delay + jitter \in Nat /\ 2 * delay \in Nat
    BY <2>1 DEF CompletionInv, CompletionType
  <2>3. slept' \in Nat /\ slept' <= MaxDelay /\ delay' \in Nat
    BY <1>2, <1>a, <2>1, <2>2, LeastTyped DEF Model!Pause
  <2>4. ~refused /\ at' = "call" /\ (doomed => retries = 0)
    BY <1>2 DEF Model!Pause, CompletionInv
  <2>5. CompletionType' /\ Counted'
    BY <1>0, <1>2, <2>3 DEF Model!Pause, CompletionInv, CompletionType, Counted, Turn, Tried
  <2>6. QED
    BY <1>2, <2>3, <2>4, <2>5 DEF Model!Pause, CompletionInv
<1>3. CASE Model!FallOver
  <2>1. (retries * E + 0) * A + A = (retries * E + 1) * A
    BY <1>0 DEF CompletionInv, CompletionType
  <2>2. calls <= (retries * E + 0) * A + A
    BY <1>0, <1>3 DEF Model!FallOver, CompletionInv, CompletionType, Counted, Turn, Tried
  <2>3. Counted'
    BY <1>0, <1>3, <2>1, <2>2 DEF Model!FallOver, Model!NextEndpoint, Counted, Turn, Tried,
       CompletionInv, CompletionType
  <2>4. CompletionType' /\ at' = "call" /\ attempt' = 1
    BY <1>0, <1>3, <1>a DEF Model!FallOver, Model!NextEndpoint, CompletionInv, CompletionType
  <2>5. refused => calls' <= Turn' /\ retries' = 0
    BY <1>3 DEF Model!FallOver, Model!NextEndpoint, CompletionInv, Turn
  <2>6. QED
    BY <1>3, <2>3, <2>4, <2>5 DEF Model!FallOver, CompletionInv
<1>4. CASE Model!Retry
  <2>1. retries + 1 \in 0 .. MaxRetries /\ Turn = E - 1 /\ retries \in Nat
    BY <1>4, <1>a DEF Model!Retry, Model!Exhausted, CompletionInv, CompletionType, Turn, Endpoints
  <2>2. (retries * E + (E - 1)) * A + A = ((retries + 1) * E + 0) * A
    <3>1. retries * E + (E - 1) = (retries + 1) * E - 1
      BY <1>0, <2>1
    <3>2. (retries + 1) * E \in Nat
      BY <1>0, <2>1
    <3>3. ((retries + 1) * E - 1) * A + A = ((retries + 1) * E) * A
      BY <1>0, <3>2
    <3>4. QED
      BY <3>1, <3>2, <3>3
  <2>3. calls <= (retries * E + (E - 1)) * A + A
    <3>1. calls <= (retries * E + (E - 1)) * A + attempt /\ attempt <= A
      BY <1>4, <2>1 DEF Model!Retry, Model!Exhausted, CompletionInv, CompletionType, Counted, Tried
    <3>2. (retries * E + (E - 1)) * A \in Int /\ calls \in Int /\ attempt \in Int
      BY <1>0, <2>1 DEF CompletionInv, CompletionType
    <3>3. QED
      BY <1>0, <3>1, <3>2
  <2>4. Counted'
    BY <1>0, <1>4, <2>1, <2>2, <2>3 DEF Model!Retry, Model!NextEndpoint, Counted, Turn, Tried,
       CompletionInv, CompletionType
  <2>5. ~doomed /\ ~refused
    <3>1. at = "failed" /\ Model!AgentRetries(result)
      BY <1>4 DEF Model!Retry, Model!Exhausted
    <3>2. QED
      BY <3>1, NotRepeated DEF CompletionInv
  <2>6. CompletionType' /\ at' = "call" /\ slept' <= MaxDelay
    BY <1>0, <1>4, <1>a, <2>1 DEF Model!Retry, Model!NextEndpoint, CompletionInv, CompletionType
  <2>7. QED
    BY <1>4, <2>4, <2>5, <2>6 DEF Model!Retry, CompletionInv
<1>5. CASE Model!GiveUp
  <2>1. Counted' /\ CompletionType' /\ at' = "done" /\ at = "failed"
    BY <1>0, <1>5 DEF Model!GiveUp, Model!Exhausted, CompletionInv, CompletionType, Counted, Turn, Tried
  <2>2. ~(retries < MaxRetries) => retries = MaxRetries
    BY <1>a DEF CompletionInv, CompletionType
  <2>3. Model!AgentRetries(result)' => retries' = MaxRetries \/ cancelled'
    BY <1>5, <2>2 DEF Model!GiveUp, Model!AgentRetries, Model!Doomed
  <2>4. refused => calls' <= Turn' + 1 /\ retries' = 0 /\ attempt' = 1
    BY <1>5, <2>1 DEF Model!GiveUp, CompletionInv, Turn
  <2>5. QED
    BY <1>5, <2>1, <2>3, <2>4 DEF Model!GiveUp, CompletionInv
<1>6. CASE Model!Cancel
  <2>1. CompletionType' /\ Counted' /\ Turn' = Turn
    BY <1>6 DEF Model!Cancel, CompletionInv, CompletionType, Counted, Turn, Tried
  <2>2. /\ at # "done" /\ UNCHANGED <<at, attempt, retries, result, slept, calls, doomed, refused>>
    BY <1>6 DEF Model!Cancel
  <2>3. QED
    BY <2>1, <2>2 DEF CompletionInv, Model!Doomed, Model!Refused
<1>7. CASE UNCHANGED Model!completionVars
  <2>1. CompletionType' /\ Counted' /\ Turn' = Turn
    BY <1>7 DEF Model!completionVars, CompletionInv, CompletionType, Counted, Turn, Tried
  <2>2. UNCHANGED <<at, attempt, retries, result, slept, calls, doomed, refused, cancelled>>
    BY <1>7 DEF Model!completionVars
  <2>3. QED
    BY <2>1, <2>2 DEF CompletionInv, Model!Doomed, Model!Refused, Model!AgentRetries
<1>8. QED
  BY <1>1, <1>2, <1>3, <1>4, <1>5, <1>6, <1>7 DEF Model!Next, Model!Steps

(***************************************************************************)
(* The digits are bounded by the budgets: CompletionSound follows.         *)
(***************************************************************************)
LEMMA WithinBudgets ==
  ASSUME Model!CompletionsAssumption, CompletionInv
  PROVE  Model!CompletionSound
<1>0. Model!Attempts \in Nat \ {0} /\ Endpoints \in {1, 2} /\ MaxRetries \in Nat
  BY AttemptsPositive DEF Model!CompletionsAssumption
<1>1. Turn \in Nat /\ Turn <= Endpoints - 1 /\ Tried \in Nat /\ Tried <= Model!Attempts
  BY <1>0 DEF CompletionInv, CompletionType, Turn, Tried, Endpoints
<1>2. retries \in Nat /\ calls \in Nat /\ retries * Endpoints <= MaxRetries * Endpoints
  BY <1>0 DEF CompletionInv, CompletionType
<1>3. retries * Endpoints + Turn <= (MaxRetries + 1) * Endpoints - 1
  BY <1>0, <1>1, <1>2
<1>4. (retries * Endpoints + Turn) * Model!Attempts
        <= ((MaxRetries + 1) * Endpoints - 1) * Model!Attempts
  <2> DEFINE x == retries * Endpoints + Turn
             y == (MaxRetries + 1) * Endpoints - 1
  <2>1. x \in Int /\ y \in Int /\ x <= y
    BY <1>0, <1>1, <1>2, <1>3
  <2> HIDE DEF x, y
  <2>2. x * Model!Attempts <= y * Model!Attempts
    BY <1>0, <2>1
  <2>3. QED
    BY <2>2 DEF x, y
<1>5. ((MaxRetries + 1) * Endpoints - 1) * Model!Attempts + Model!Attempts
        = (MaxRetries + 1) * Endpoints * Model!Attempts
  BY <1>0
<1>6. calls <= (MaxRetries + 1) * Endpoints * Model!Attempts
  <2> DEFINE u == (retries * Endpoints + Turn) * Model!Attempts
             v == ((MaxRetries + 1) * Endpoints - 1) * Model!Attempts
             w == (MaxRetries + 1) * Endpoints * Model!Attempts
  <2>1. u \in Int /\ v \in Int /\ w \in Int
    BY <1>0, <1>1, <1>2
  <2>2. calls <= u + Tried /\ u <= v /\ v + Model!Attempts = w
    BY <1>4, <1>5 DEF CompletionInv, Counted
  <2> HIDE DEF u, v, w
  <2>3. calls <= w
    BY <1>0, <1>1, <1>2, <2>1, <2>2
  <2>4. QED
    BY <2>3 DEF w
<1>7. doomed => calls <= Endpoints * Model!Attempts
  <2> SUFFICES ASSUME doomed PROVE calls <= Endpoints * Model!Attempts
    OBVIOUS
  <2>1. retries = 0 /\ calls \in Nat
    BY DEF CompletionInv, CompletionType
  <2>2. calls <= (0 * Endpoints + Turn) * Model!Attempts + Tried
    BY <2>1 DEF CompletionInv, Counted
  <2>3. CASE Turn = 0
    <3>1. calls <= Model!Attempts
      BY <1>0, <1>1, <2>1, <2>2, <2>3
    <3>2. QED
      BY <1>0, <2>1, <3>1
  <2>4. CASE Turn = 1
    <3>1. Endpoints = 2
      BY <1>0, <1>1, <2>4
    <3>2. calls <= Model!Attempts + Model!Attempts
      BY <1>0, <1>1, <2>1, <2>2, <2>4
    <3>3. QED
      BY <1>0, <2>1, <3>1, <3>2
  <2>5. QED
    BY <2>3, <2>4 DEF Turn
<1>8. refused => calls <= Endpoints
  BY <1>0, <1>1, <1>2 DEF CompletionInv
<1>9. slept <= MaxDelay /\ (at = "done" /\ Model!AgentRetries(result) => retries = MaxRetries \/ cancelled)
  BY DEF CompletionInv
<1>10. QED
  BY <1>6, <1>7, <1>8, <1>9 DEF Model!CompletionSound, Endpoints

(***************************************************************************)
(* Every completion keeps to the budgets of its three layers together: the *)
(* agent repeats none that met only account limits and overflows, nobody   *)
(* one that met only refusals (src/provider/, src/agent.rs                 *)
(* complete_retrying).                                                     *)
(***************************************************************************)
THEOREM CompletionSoundHolds ==
  ASSUME Model!CompletionsAssumption
  PROVE  Model!Spec => []Model!CompletionSound
<1>1. Model!Init => CompletionInv
  <2>1. Model!Attempts \in Nat \ {0} /\ Endpoints \in {1, 2}
    BY AttemptsPositive
  <2>2. Fallback \in BOOLEAN /\ {MaxRetries, FirstDelay, MaxDelay} \subseteq Nat
    BY DEF Model!CompletionsAssumption
  <2>3. (0 * Endpoints + 0) * Model!Attempts + 0 = 0
    BY <2>1
  <2>4. Model!Init => Counted
    BY <2>3 DEF Model!Init, Counted, Turn, Tried
  <2>5. Model!Init => CompletionType
    <3>1. Model!Init => cancelled \in BOOLEAN
      BY Zenon DEF Model!Init
    <3>a. Model!Init => doomed \in BOOLEAN /\ refused \in BOOLEAN
      BY Zenon DEF Model!Init
    <3>2. Model!Init => retries \in 0 .. MaxRetries /\ attempt \in 1 .. Model!Attempts /\ delay \in Nat
      BY <2>1, <2>2 DEF Model!Init
    <3>3. Model!Init => endpoint = "primary" /\ at = "call" /\ slept = 0 /\ calls = 0
      BY DEF Model!Init
    <3>4. QED
      BY <3>1, <3>a, <3>2, <3>3 DEF CompletionType
  <2>6. Model!Init => /\ at = "call" /\ calls = 0 /\ retries = 0 /\ attempt = 1 /\ slept = 0
                       /\ Turn = 0
    BY DEF Model!Init, Turn
  <2>7. QED
    BY <2>2, <2>4, <2>5, <2>6 DEF CompletionInv
<1>2. CompletionInv /\ [Model!Next]_(Model!completionVars) => CompletionInv'
  BY CompletionStep
<1>3. CompletionInv => Model!CompletionSound
  BY WithinBudgets
<1>4. QED
  BY <1>1, <1>2, <1>3, PTL DEF Model!Spec


-----------------------------------------------------------------------------
\* The components together.

(***************************************************************************)
(* What agents write side by side is kept: files, skills and prompts, the  *)
(* branches of worktrees, the nodes of the causal graph                    *)
(* (src/tool/worktree.rs, src/tool/reason.rs).                             *)
(***************************************************************************)
THEOREM WorkKeptHolds == Files!Spec /\ Trees!Spec /\ Causal!Spec => []WorkKept
<1>1. Trees!WorktreeAssumption /\ Causal!CausalAssumption
  BY AgentComponentsAssumption
<1>2. /\ Files!Spec => []Files!FilesSound
      /\ Trees!Spec => []Trees!WorktreesSound
      /\ Causal!Spec => []Causal!CausalSound
  BY <1>1, FilesSoundHolds, WorktreesSoundHolds, CausalSoundHolds
<1>3. Files!FilesSound /\ Trees!WorktreesSound /\ Causal!CausalSound => WorkKept
  BY DEF WorkKept
<1>4. QED
  BY <1>2, <1>3, PTL

(***************************************************************************)
(* The outcome a caller gets is what happened, for a shell command, a      *)
(* request to a server, a model call, a review and a verification run      *)
(* (src/tool/, src/mcp/, src/provider/, src/review.rs, src/verify/).       *)
(***************************************************************************)
THEOREM OutcomesSoundHolds ==
  Command!Spec /\ Rpc!Spec /\ Model!Spec /\ Verdicts!Spec /\ Check!Spec => []OutcomesSound
<1>1. /\ Command!CommandAssumption /\ Rpc!RpcAssumption /\ Model!CompletionsAssumption
      /\ Verdicts!ReviewAssumption /\ Check!VerifyRunAssumption
  BY AgentComponentsAssumption
<1>2. /\ Command!Spec => []Command!CommandSound
      /\ Rpc!Spec => []Rpc!RpcSound
      /\ Model!Spec => []Model!CompletionSound
      /\ Verdicts!Spec => []Verdicts!ReviewSound
      /\ Check!Spec => []Check!VerifySound
  BY <1>1, CommandSoundHolds, RpcSoundHolds, CompletionSoundHolds, ReviewSoundHolds,
     VerifySoundHolds
<1>3. /\ Command!CommandSound /\ Rpc!RpcSound /\ Model!CompletionSound
      /\ Verdicts!ReviewSound /\ Check!VerifySound
      => OutcomesSound
  BY DEF OutcomesSound
<1>4. QED
  BY <1>2, <1>3, PTL
=============================================================================
