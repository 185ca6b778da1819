------------------------------ MODULE Requests ------------------------------
(***************************************************************************)
(* The requests of the GitHub client (github/client.rs): callers that share  *)
(* one client, with what it last heard of the rate limit, and the loop that *)
(* throttles, sends and retries each request of an operation.  The host may  *)
(* refuse, fail, ask to wait, or have done what it was asked for while the    *)
(* answer is lost.                                                         *)
(***************************************************************************)
EXTENDS Naturals, Sequences, GitHubOperations

CONSTANTS
  Asked,        \* by task that shares the client: the operations that it calls
  MaxAttempts,  \* MAX_REQUEST_ATTEMPTS
  MaxDelay,     \* MAX_RETRY_DELAY, which is also the longest throttling
  Horizon,      \* bound: how far away a reset may be
  LastMoment    \* bound on the clock

ASSUME RequestsAssumption ==
  /\ MaxAttempts \in Nat /\ MaxDelay \in Nat /\ Horizon \in Nat /\ LastMoment \in Nat
  /\ \A c \in DOMAIN Asked : Asked[c] \subseteq DOMAIN Operations

VARIABLES
  budget,       \* rate_remaining is below the buffer, and rate_reset_at
  moment,       \* the clock
  calls         \* what every asker is doing, and what the host did for it

requestsVars == <<budget, moment, calls>>

Askers == DOMAIN Asked

(***************************************************************************)
(* The host                                                                *)
(***************************************************************************)
\* What can be done again: a reply is made twice, but a file has moved on, a branch
\* and a pull request are there already, and a fork is gone.
CanBeDone(effect, times) ==
  effect \in {"none", "fork", "comment", "close", "edit", "issue"} \/ times = 0

\* How an attempt may end: the kind of the answer, and how often the host has now done
\* what it was asked for.  Refused: forbidden, not found, or another client error.  An
\* answer may be lost on its way, and a gateway may fail after the host did its work.
Answered(request, times) ==
  {[kind |-> k, times |-> times] : k \in {"lost", "limited", "failing", "refused"}}
  \cup IF CanBeDone(request.effect, times)
       THEN {[kind |-> k, times |-> IF request.effect = "none" THEN 0 ELSE times + 1] :
               k \in {"lost", "failing", "unreadable", "ok"}
                       \cup (IF request.needed THEN {"nothing"} ELSE {})}
       ELSE {}

\* Retry-After: none (0), one that is kept and one that is too long.
Hints(kind) ==
  IF kind \in {"limited", "failing"} THEN {0, MaxDelay, MaxAttempts * MaxDelay + 1} ELSE {0}

\* What the headers say of the rate limit: nothing new, enough, or how far away
\* the reset is.
Budgets(kind) ==
  IF kind = "lost" THEN {budget} ELSE
  {budget, [low |-> FALSE, reset |-> 0]}
  \cup {[low |-> TRUE, reset |-> moment + d] : d \in {1, Horizon}}

(***************************************************************************)
(* The client                                                              *)
(***************************************************************************)
\* Seeded fault: what was asked for with POST is asked for again.
IsRetrySafeAlways(method) == method # "PATCH"

\* is_retry_safe
IsRetrySafe(method) == method \in {"GET", "HEAD", "PUT", "DELETE", "OPTIONS"}

Until(time) == IF time > moment THEN time - moment ELSE 0

Shorter(delay) == IF delay < MaxDelay THEN delay ELSE MaxDelay

\* retry_delay: the hint, the time of the reset, or a second or two, which count as
\* nothing against MAX_RETRY_DELAY.
RetryDelay(hint, known) ==
  IF hint > 0 THEN hint ELSE IF known.low THEN Until(known.reset) ELSE 0

\* A rate limit that is too far away is an error.
MayRetry(kind, request, attempt, delay) ==
  /\ IsRetrySafe(request.method) /\ attempt < MaxAttempts
  /\ kind \in {"lost", "failing"} \/ (kind = "limited" /\ delay <= MaxDelay)

\* What is slept before the next attempt: a failure waits no longer than MaxDelay.
Pause(kind, delay) == IF kind = "failing" THEN Shorter(delay) ELSE delay

Idle == [at |-> "idle", operation |-> "none", request |-> 1, attempt |-> 1, until |-> 0,
         times |-> <<>>, ending |-> "none"]

Sequence(call) == Operations[call.operation]

Call(c, operation) ==
  /\ calls[c].at = "idle"
  /\ calls' = [calls EXCEPT ![c] =
       [Idle EXCEPT !.at = "start", !.operation = operation,
                    !.times = [i \in DOMAIN Operations[operation] |-> 0]]]
  /\ UNCHANGED <<budget, moment>>

\* maybe_throttle, once for all attempts.
MaybeThrottle(c) ==
  LET wait == IF budget.low THEN Shorter(Until(budget.reset)) ELSE 0
  IN /\ calls[c].at = "start"
     /\ calls' = [calls EXCEPT ![c].at = IF wait = 0 THEN "ready" ELSE "asleep",
                               ![c].until = IF wait = 0 THEN 0 ELSE moment + wait]
     /\ UNCHANGED <<budget, moment>>

WakeUp(c) ==
  /\ calls[c].at = "asleep" /\ calls[c].until <= moment
  /\ calls' = [calls EXCEPT ![c].at = "ready", ![c].until = 0]
  /\ UNCHANGED <<budget, moment>>

End(call, ending) == [call EXCEPT !.at = "over", !.ending = ending, !.attempt = 1]

\* The next request of the operation, or its end.
Proceed(call) ==
  IF call.request < Len(Sequence(call))
  THEN [call EXCEPT !.at = "start", !.request = @ + 1, !.attempt = 1]
  ELSE End(call, "ok")

\* A good answer: guides are looked for until one is found; ensure_rate_limit looks at
\* what is left.
Accept(call, answer) ==
  CASE answer.kind = "nothing" ->
         End(call, IF call.operation = "ensure_rate_limit" THEN "limited" ELSE "unreadable")
    [] answer.kind = "ok" /\ call.operation = "get_contributing_guide" -> End(call, "ok")
    [] OTHER -> Proceed(call)

\* An attempt of request and request_raw.
Attempt(c, answer, hint, known) ==
  LET call == [calls[c] EXCEPT !.times[calls[c].request] = answer.times]
      request == Sequence(call)[call.request]
      delay == IF answer.kind = "lost" THEN 0 ELSE RetryDelay(hint, known)
      pause == Pause(answer.kind, delay)
  IN /\ calls[c].at = "ready"
     /\ budget' = known
     /\ calls' = [calls EXCEPT ![c] =
          CASE answer.kind \in {"ok", "nothing"} -> Accept(call, answer)
            [] MayRetry(answer.kind, request, call.attempt, delay) ->
                 [call EXCEPT !.at = "asleep", !.attempt = @ + 1, !.until = moment + pause]
            [] answer.kind \notin {"ok", "nothing"} /\ request.error = "absence"
               /\ ~MayRetry(answer.kind, request, call.attempt, delay) -> Proceed(call)
            [] OTHER -> End(call, answer.kind)]
     /\ UNCHANGED moment

Tick ==
  /\ moment < LastMoment /\ moment' = moment + 1
  /\ UNCHANGED <<budget, calls>>

RequestsInit ==
  /\ budget = [low |-> FALSE, reset |-> 0]
  /\ moment = 0
  /\ calls = [c \in Askers |-> Idle]

RequestsNext ==
  \/ Tick
  \/ \E c \in Askers :
       \/ \E o \in Asked[c] : Call(c, o)
       \/ MaybeThrottle(c)
       \/ WakeUp(c)
       \/ /\ calls[c].at = "ready"
          /\ LET call == calls[c]
             IN \E a \in Answered(Sequence(call)[call.request], call.times[call.request]) :
                  \E hint \in Hints(a.kind), known \in Budgets(a.kind) : Attempt(c, a, hint, known)

RequestsSpec == RequestsInit /\ [][RequestsNext]_requestsVars

(***************************************************************************)
(* Properties                                                              *)
(***************************************************************************)
\* What a caller is told is what the host did: after a success each change was made,
\* a comment, an issue, a branch or a pull request once only however many answers
\* were lost; and when the host refused to make it, it was not made and
\* may be asked for again.
OutcomesAreTold ==
  \A c \in Askers :
    LET call == calls[c]
        Method(i) == Sequence(call)[i].method
        Changes(i) == Sequence(call)[i].effect # "none"
    IN \A i \in DOMAIN call.times :
         /\ call.ending = "ok" /\ Changes(i) => call.times[i] > 0
         /\ Method(i) \in {"POST", "PATCH"} => call.times[i] <= 1
         /\ /\ Method(i) \in {"POST", "PATCH"} /\ i = call.request
            /\ call.ending \in {"limited", "refused"}
            => call.times[i] = 0
=============================================================================
