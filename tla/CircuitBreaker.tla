--------------------------- MODULE CircuitBreaker ---------------------------
(***************************************************************************)
(* platform_sdk/resilience.py: the breaker that OpaClient, ToolResultCache *)
(* and RegistryClient each own one of.  It has no tasks of its own: its    *)
(* methods are synchronous, so each is one operator on the breaker's state *)
(* and the component that owns a breaker interleaves them.                 *)
(*                                                                         *)
(* Two abstractions of the data, neither visible to a caller:              *)
(*   - _open_until is only ever compared with time.monotonic(), so the     *)
(*     state keeps openFor, the time left until then (0 once it passed);   *)
(*   - _failures is only ever compared with failure_threshold (the other   *)
(*     reader is a log line), so it saturates there.                       *)
(***************************************************************************)
EXTENDS Naturals

CONSTANTS FailureThreshold,   \* failure_threshold
          RecoveryTimeout     \* recovery_timeout, in units of the clock

ASSUME BreakerAssumption ==
  /\ FailureThreshold \in Nat \ {0}
  /\ RecoveryTimeout \in Nat

Breaker == [failures : 0..FailureThreshold, openFor : 0..RecoveryTimeout]

\* A breaker as the dataclass builds it: no failure yet, never opened.
ClosedBreaker == [failures |-> 0, openFor |-> 0]

\* Slip: the recovery timeout is forgotten, the breaker waits for a success.
IsOpenForever(cb) == cb.failures >= FailureThreshold

\* The property is_open.
IsOpen(cb) == cb.failures >= FailureThreshold /\ cb.openFor > 0

\* Failures at the threshold and the recovery timeout gone: the state in which
\* is_open lets a call through although no call has succeeded.
Probing(cb) == cb.failures >= FailureThreshold /\ cb.openFor = 0

RecordSuccess(cb) == [cb EXCEPT !.failures = 0]

\* Slip: the timeout starts when the threshold is reached, but a failed probe
\* does not start it again.
RecordFailureOnce(cb) ==
  IF cb.failures + 1 = FailureThreshold
    THEN [failures |-> FailureThreshold, openFor |-> RecoveryTimeout]
    ELSE [cb EXCEPT !.failures = IF cb.failures < FailureThreshold
                                   THEN cb.failures + 1 ELSE FailureThreshold]

RecordFailure(cb) ==
  IF cb.failures + 1 >= FailureThreshold
    THEN [failures |-> FailureThreshold, openFor |-> RecoveryTimeout]
    ELSE [cb EXCEPT !.failures = cb.failures + 1]

\* One unit of time.monotonic() passes.
Elapse(cb) == [cb EXCEPT !.openFor = IF cb.openFor > 0 THEN cb.openFor - 1 ELSE 0]

=============================================================================
