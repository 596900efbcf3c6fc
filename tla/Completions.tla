---------------------------- MODULE Completions -----------------------------
(***************************************************************************)
(* One completion, through the three layers that may repeat it: the agent  *)
(* (complete_retrying in src/agent.rs, with the classifier src/retry.rs),  *)
(* the fallback of src/provider/mod.rs and the client of each endpoint     *)
(* (src/provider/openai.rs over src/provider/retry.rs, which has a         *)
(* classifier and delays of its own).  Both classifiers look for phrases   *)
(* anywhere in the error's text, which holds the status and the whole body *)
(* of the answer; an error is its status with the phrases in its body, by  *)
(* the lists that have them.                                               *)
(***************************************************************************)
EXTENDS Naturals, FiniteSets

CONSTANTS Fallback,      \* a second endpoint is configured
          MaxAttempts,   \* provider_retry_max
          MaxRetries,    \* MAX_RETRIES of the agent
          FirstDelay, MaxDelay,
          MaxPhrases     \* bound: kinds of phrases in one body

CompletionsAssumption ==
  /\ Fallback \in BOOLEAN
  /\ {MaxAttempts, MaxRetries, FirstDelay, MaxDelay, MaxPhrases} \subseteq Nat

VARIABLES at,         \* "call", "pause", "failed" and "done"
          endpoint, attempt, delay,
          retries,    \* of the agent
          cancelled,
          result,     \* the last error that with_retry returned, or the reply
          slept, calls,
          doomed, refused   \* history: all errors met were so

completionVars == <<at, endpoint, attempt, delay, retries, cancelled, result,
                    slept, calls, doomed, refused>>

\* listed5xx: 500, 502, 503, 504 and 524; transport: no answer; unread: one
\* that cannot be read.
Statuses == {"429", "listed5xx", "other5xx", "4xx", "transport", "unread"}

\* account: NON_RETRYABLE; overflow: OVERFLOW; throttling: NON_OVERFLOW only;
\* busy: "rate limit", "too many requests"; down: "timeout" and others in both
\* lists of transient errors; eof: in the endpoint's only; code: in the agent's
\* only, "500" and "request failed" among them.
Phrases == {"account", "overflow", "throttling", "busy", "down", "eof", "code"}

Errors == {e \in [status : Statuses, body : SUBSET Phrases] :
             Cardinality(e.body) <= MaxPhrases}

None == [status |-> "none", body |-> {}]
Reply == [status |-> "reply", body |-> {}]

\* with_retry and provider::retry::is_retryable: by status, then by text.
EndpointRetries(e) ==
  /\ e.status # "unread"
  /\ \/ e.status \in {"429", "listed5xx", "other5xx"}
     \/ e.body \cap {"busy", "down", "eof"} # {}

\* An account limit, or an overflow that is no throttling.
Doomed(e) ==
  \/ "account" \in e.body
  \/ "overflow" \in e.body /\ e.body \cap {"throttling", "busy"} = {}

\* retry::is_retryable: these first, then by text, the status in it.
AgentRetries(e) ==
  /\ ~Doomed(e)
  /\ \/ e.status \in {"429", "listed5xx", "transport"}
     \/ e.body \cap {"busy", "down", "code"} # {}

\* Nothing in the error says that it will pass.
Refused(e) ==
  e.status \in {"4xx", "unread"} /\ e.body \cap {"busy", "down", "eof", "code"} = {}

Attempts == IF MaxAttempts = 0 THEN 1 ELSE MaxAttempts

Least(a, b) == IF a < b THEN a ELSE b

Init ==
  /\ at = "call" /\ endpoint = "primary" /\ attempt = 1 /\ delay = FirstDelay
  /\ retries = 0 /\ cancelled = FALSE /\ result = None /\ slept = 0
  /\ calls = 0 /\ doomed = TRUE /\ refused = TRUE

\* with_retry: one call of an endpoint.
Call ==
  /\ at = "call"
  /\ calls' = calls + 1
  /\ \/ at' = "done" /\ result' = Reply /\ UNCHANGED <<doomed, refused>>
     \/ \E e \in Errors :
          /\ IF EndpointRetries(e) /\ attempt < Attempts
             THEN at' = "pause" /\ UNCHANGED result
             ELSE at' = "failed" /\ result' = e
          /\ doomed' = (doomed /\ Doomed(e))
          /\ refused' = (refused /\ Refused(e))
  /\ UNCHANGED <<endpoint, attempt, delay, retries, cancelled, slept>>

\* The wait before a call of the same endpoint: up to a quarter of jitter more
\* than the delay, which then doubles; neither beyond the maximum.
Pause ==
  /\ at = "pause"
  /\ at' = "call" /\ attempt' = attempt + 1
  /\ \E jitter \in 0 .. delay \div 4 : slept' = Least(delay + jitter, MaxDelay)
  /\ delay' = Least(2 * delay, MaxDelay)
  /\ UNCHANGED <<endpoint, retries, cancelled, result, calls, doomed, refused>>

NextEndpoint(p) ==
  /\ at' = "call" /\ endpoint' = p /\ attempt' = 1 /\ delay' = FirstDelay
  /\ result' = None

\* FallbackProvider: whatever the first endpoint's error, the second is asked.
FallOver ==
  /\ at = "failed" /\ endpoint = "primary" /\ Fallback
  /\ NextEndpoint("fallback")
  /\ UNCHANGED <<retries, cancelled, slept, calls, doomed, refused>>

Exhausted == at = "failed" /\ (endpoint = "fallback" \/ ~Fallback)

\* complete_retrying: from the first endpoint again.
Retry ==
  /\ Exhausted
  /\ retries < MaxRetries /\ AgentRetries(result) /\ ~cancelled
  /\ NextEndpoint("primary") /\ retries' = retries + 1
  /\ slept' = 0
  /\ UNCHANGED <<cancelled, calls, doomed, refused>>

GiveUp ==
  /\ Exhausted
  /\ ~(retries < MaxRetries /\ AgentRetries(result) /\ ~cancelled)
  /\ at' = "done"
  /\ UNCHANGED <<endpoint, attempt, delay, retries, cancelled, result, slept,
                 calls, doomed, refused>>

Cancel ==
  /\ ~cancelled /\ at # "done" /\ cancelled' = TRUE
  /\ UNCHANGED <<at, endpoint, attempt, delay, retries, result, slept, calls,
                 doomed, refused>>

Steps == Call \/ Pause \/ FallOver \/ Retry \/ GiveUp
Next == Steps \/ Cancel

Spec == Init /\ [][Next]_completionVars /\ WF_completionVars(Steps)

-----------------------------------------------------------------------------
(***************************************************************************)
(* The three layers together repeat a completion a bounded number of       *)
(* times and wait no longer than the maximum; the agent does not repeat    *)
(* what met only account limits and overflows, and nobody what met only    *)
(* refusals; what the agent takes for transient is given up only with      *)
(* every budget spent or cancelled.                                        *)
(***************************************************************************)
CompletionSound ==
  LET endpoints == IF Fallback THEN 2 ELSE 1
  IN  /\ calls <= (MaxRetries + 1) * endpoints * Attempts
      /\ slept <= MaxDelay
      /\ doomed => calls <= endpoints * Attempts
      /\ refused => calls <= endpoints
      /\ at = "done" /\ AgentRetries(result) =>
           retries = MaxRetries \/ cancelled

(***************************************************************************)
(* A completion ends, with a reply or with the last error.                 *)
(***************************************************************************)
CompletionEnds == []<>(at = "done" /\ result # None)
=============================================================================
