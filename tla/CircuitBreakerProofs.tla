------------------------ MODULE CircuitBreakerProofs ------------------------
(* Facts about the operators of CircuitBreaker, for every threshold and     *)
(* recovery timeout; the proofs about the components that own a breaker     *)
(* cite them.                                                               *)
EXTENDS CircuitBreaker, TLAPS

\* A new breaker is well-formed and lets calls through.
LEMMA ClosedBreakerFact ==
  ClosedBreaker \in Breaker /\ ~IsOpen(ClosedBreaker)
BY BreakerAssumption DEF ClosedBreaker, Breaker, IsOpen

\* record_success() closes the breaker and leaves the deadline alone.
LEMMA RecordSuccessFact ==
  ASSUME NEW cb \in Breaker
  PROVE  /\ RecordSuccess(cb) \in Breaker
         /\ RecordSuccess(cb).failures = 0
         /\ ~IsOpen(RecordSuccess(cb))
BY BreakerAssumption DEF RecordSuccess, Breaker, IsOpen

\* record_failure() counts, and from the threshold on starts the timeout anew.
LEMMA RecordFailureFact ==
  ASSUME NEW cb \in Breaker
  PROVE  /\ RecordFailure(cb) \in Breaker
         /\ RecordFailure(cb).failures =
              IF cb.failures < FailureThreshold THEN cb.failures + 1 ELSE cb.failures
         /\ RecordFailure(cb).failures = FailureThreshold
              => RecordFailure(cb).openFor = RecoveryTimeout
         /\ RecordFailure(cb).failures > 0
BY BreakerAssumption DEF RecordFailure, Breaker

\* The passing of time changes the deadline only.
LEMMA ElapseFact ==
  ASSUME NEW cb \in Breaker
  PROVE  /\ Elapse(cb) \in Breaker
         /\ Elapse(cb).failures = cb.failures
         /\ Elapse(cb).openFor = IF cb.openFor > 0 THEN cb.openFor - 1 ELSE 0
BY BreakerAssumption DEF Elapse, Breaker

=============================================================================
