------------------------------- MODULE Breaker -------------------------------
(***************************************************************************)
(* The per-user circuit breaker of the sync worker, as operators over one  *)
(* entry of SyncProcessor's circuitBreaker map                              *)
(* (workers/sync-worker/src/workers/syncProcessor.ts).                      *)
(*                                                                          *)
(* A user with no entry in the map behaves as one with the entry Closed.    *)
(* "cooled" says that nextAttemptTime has passed.  failureCount is compared *)
(* with the threshold and nothing else, so it saturates there.              *)
(***************************************************************************)
EXTENDS Naturals

CONSTANTS
    BreakerEnabled,     \* config.performance.enableCircuitBreaker
    Threshold,          \* config.worker.circuitBreakerThreshold (default 5)
    ReloadThreshold     \* failed operations that open a reloaded breaker (3)

ASSUME BreakerAssumption ==
    /\ BreakerEnabled \in BOOLEAN
    /\ Threshold \in Nat \ {0}
    /\ ReloadThreshold \in Nat \ {0}
    /\ ReloadThreshold <= Threshold

BreakerState ==
    [state    : {"closed", "open", "half-open"},
     failures : 0 .. Threshold,
     cooled   : BOOLEAN]

Closed == [state |-> "closed", failures |-> 0, cooled |-> FALSE]

\* isCircuitBreakerOpen: the answer, and what asking leaves behind.
IsOpen(b) == BreakerEnabled /\ b.state = "open" /\ ~b.cooled

Asked(b) ==
    IF BreakerEnabled /\ b.state = "open" /\ b.cooled
    THEN [b EXCEPT !.state = "half-open"]
    ELSE b

\* recordFailure: below the threshold the state is left as it is, half-open
\* included; at the threshold the breaker opens and the cool-down restarts,
\* even if it was open already.
AfterFailure(b) ==
    IF ~BreakerEnabled THEN b
    ELSE IF b.failures + 1 >= Threshold
         THEN [state |-> "open", failures |-> Threshold, cooled |-> FALSE]
         ELSE [b EXCEPT !.failures = @ + 1]

\* recordSuccess: only a half-open breaker is reset.
AfterSuccess(b) ==
    IF BreakerEnabled /\ b.state = "half-open" THEN Closed ELSE b

\* Mutant: a reloaded breaker counts as many failures as would open it.
ReloadedFull(count, cooled) ==
    IF count >= ReloadThreshold
    THEN [state |-> "open", failures |-> Threshold, cooled |-> cooled]
    ELSE Closed

\* loadCircuitBreakerStates: count failed operations were found in the last
\* hour; 15 minutes after the last of them may have passed already.  It does
\* not ask whether the breaker is enabled.
Reloaded(count, cooled) ==
    IF count >= ReloadThreshold
    THEN [state |-> "open",
          failures |-> IF count < Threshold THEN count ELSE Threshold,
          cooled |-> cooled]
    ELSE Closed
==============================================================================
