----------------------------- MODULE Transcript ----------------------------
(***************************************************************************)
(* The messages of a conversation as a value (src/message.rs), reduced to  *)
(* what pairs tool calls with their results and inputs with their order.   *)
(*                                                                         *)
(* A thread is the sequence of messages on the active path.  A message has *)
(* a kind, which determines its role, and                                  *)
(*   - `n`: for an input, its number in the order of submission; for a     *)
(*     Tool message, the position of the assistant message it answers;     *)
(*   - `calls`: the calls an assistant message makes, or a Tool message    *)
(*     answers, by their place in the assistant message.  The provider's   *)
(*     correlation id is the pair of both, taken to be unique;             *)
(*   - `cut`: the reply was truncated at max_tokens.                       *)
(***************************************************************************)
EXTENDS Naturals, Sequences

CONSTANT MaxCalls       \* bound: tool calls in one reply

ASSUME MaxCallsAssumption == MaxCalls \in Nat

Calls == 1 .. MaxCalls

\* The queues drained inside a turn, in the order they are drained.
Sources == {"steer", "task", "parent"}

UserKinds == {"prompt", "steer", "parent", "nudge"}
Kinds == UserKinds \cup {"task", "assistant", "tool"}

Message == [kind : Kinds, n : Nat, calls : SUBSET Calls, cut : BOOLEAN]

Input(kind, n) == [kind |-> kind, n |-> n, calls |-> {}, cut |-> FALSE]
Reply(calls, cut) ==
  [kind |-> "assistant", n |-> 0, calls |-> calls, cut |-> cut]
Results(of, calls) ==
  [kind |-> "tool", n |-> of, calls |-> calls, cut |-> FALSE]

\* Call c of the message at position i has a result somewhere in t.
Answered(t, i, c) ==
  \E j \in DOMAIN t : t[j].kind = "tool" /\ t[j].n = i /\ c \in t[j].calls

\* sanitize_unpaired_tool_calls: drop the calls that have no result.
Sanitize(t) ==
  [i \in DOMAIN t |->
     IF t[i].kind = "assistant"
     THEN [t[i] EXCEPT !.calls = {c \in @ : Answered(t, i, c)}]
     ELSE t[i]]

(***************************************************************************)
(* What the provider accepts: the calls of an assistant message are        *)
(* answered by the message that follows it, all of them, and there is no   *)
(* result without its call.                                                *)
(***************************************************************************)
Paired(t) ==
  /\ \A i \in DOMAIN t : t[i].kind = "assistant" /\ t[i].calls # {} =>
       /\ i + 1 \in DOMAIN t
       /\ t[i + 1] = Results(i, t[i].calls)
  /\ \A j \in DOMAIN t : t[j].kind = "tool" =>
       /\ j > 1
       /\ t[j] = Results(j - 1, t[j - 1].calls)
       /\ t[j - 1].kind = "assistant"

\* The positions of the inputs of one source.
InputsOf(t, source) == {i \in DOMAIN t : t[i].kind = source}

\* The first inputs of one source, each once, in the order of submission.
InOrder(t, source, count) ==
  /\ {t[i].n : i \in InputsOf(t, source)} = 1 .. count
  /\ \A i, j \in InputsOf(t, source) : i < j => t[i].n < t[j].n
=============================================================================
