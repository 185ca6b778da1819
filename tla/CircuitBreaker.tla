--------------------------- MODULE CircuitBreaker ---------------------------
(***************************************************************************)
(* orchestrator/circuit_breaker.rs: the breaker a pipeline asks before it  *)
(* spends model calls.  The atomics of the breaker are used by one task at *)
(* a time, so a call is one step.  The clock is reduced to the one bit the *)
(* code asks of it: whether the cooldown since `opened_at' has elapsed.    *)
(***************************************************************************)
EXTENDS Naturals

CONSTANTS FailureThreshold,  \* consecutive failures that open the breaker
          SuccessThreshold   \* successes that close it from half-open

ASSUME ThresholdAssumption ==
  FailureThreshold \in Nat /\ SuccessThreshold \in Nat

BreakerRecord ==
  [mode: {"closed", "open", "half_open"},
   failures: Nat, successes: Nat, cooled: BOOLEAN]

NewBreaker == [mode |-> "closed", failures |-> 0, successes |-> 0, cooled |-> FALSE]

\* allow_request: its answer, and the breaker it leaves behind.
AllowsRequest(b) == b.mode # "open" \/ b.cooled

AfterAllow(b) ==
  IF b.mode = "open" /\ b.cooled THEN [b EXCEPT !.mode = "half_open"] ELSE b

RecordSuccess(b) ==
  LET cleared == [b EXCEPT !.failures = 0] IN
    IF b.mode # "half_open" THEN cleared
    ELSE IF b.successes + 1 >= SuccessThreshold
      THEN [cleared EXCEPT !.mode = "closed", !.successes = 0]
      ELSE [cleared EXCEPT !.successes = @ + 1]

\* Seeded fault: off by one.
RecordFailureLate(b) ==
  LET counted == [b EXCEPT !.failures = @ + 1]
      opened == [counted EXCEPT !.mode = "open", !.cooled = FALSE]
  IN CASE b.mode = "closed" /\ counted.failures > FailureThreshold -> opened
       [] b.mode = "half_open" -> [opened EXCEPT !.successes = 0]
       [] OTHER -> counted

\* Already open: the failure is counted and nothing else.
RecordFailure(b) ==
  LET counted == [b EXCEPT !.failures = @ + 1]
      opened == [counted EXCEPT !.mode = "open", !.cooled = FALSE]
  IN CASE b.mode = "closed" /\ counted.failures >= FailureThreshold -> opened
       [] b.mode = "half_open" -> [opened EXCEPT !.successes = 0]
       [] OTHER -> counted

CoolDown(b) == [b EXCEPT !.cooled = TRUE]

=============================================================================
