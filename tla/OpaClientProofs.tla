--------------------------- MODULE OpaClientProofs ---------------------------
(***************************************************************************)
(* The safety of authorize() for every number of callers, attempts and     *)
(* breaker parameters.                                                     *)
(*                                                                         *)
(* None of the properties is inductive alone.  A denial is justified only  *)
(* because the number of requests a call has sent follows its loop         *)
(* variable (AttemptsCounted), and the breaker tracks the outcomes only    *)
(* because its deadline and the age of the last failure move together      *)
(* (BreakerHistory).                                                       *)
(***************************************************************************)
EXTENDS OpaClient, CircuitBreakerProofs, FiniteSetTheorems

AttemptsCounted ==
  \A c \in Calls :
    /\ pc[c] \in {"posting", "backoff"} => posts[c] = attempt[c] + 1 /\ attempt[c] < MaxRetries
    /\ pc[c] = "backoff" => attempt[c] + 1 < MaxRetries

BreakerHistory ==
  /\ cb.failures = streak
  /\ streak = FailureThreshold => cb.openFor = RecoveryTimeout - quiet

IInv == TypeOK /\ AttemptsCounted /\ FailClosed /\ DenialJustified /\ BreakerHistory

-----------------------------------------------------------------------------

LEMMA InitIInv == Init => IInv
<1> SUFFICES ASSUME Init PROVE IInv
  OBVIOUS
<1>1. cb \in Breaker /\ cb.failures = 0
  BY ClosedBreakerFact DEF Init, ClosedBreaker
<1>2. TypeOK
  <2>1. /\ attempt \in [Calls -> 0..MaxRetries] /\ posts \in [Calls -> 0..MaxRetries]
        /\ streak \in 0..FailureThreshold /\ quiet \in 0..RecoveryTimeout
        /\ trickle \in Nat
    BY BreakerAssumption, CallsAssumption DEF Init
  <2>2. /\ pc \in [Calls -> Returned \cup {"posting", "backoff"}]
        /\ last \in [Calls -> Decisions \cup Failures \cup {"none"}]
        /\ closed \in BOOLEAN /\ opaUp \in BOOLEAN
        /\ result \in [Calls -> BOOLEAN]
        /\ probe \in [Calls -> BOOLEAN] /\ denied \in [Calls -> BOOLEAN]
    BY DEF Init, Returned
  <2>3. QED
    BY <1>1, <2>1, <2>2 DEF TypeOK
<1>3. BreakerHistory
  BY <1>1, BreakerAssumption DEF Init, BreakerHistory
<1>4. AttemptsCounted /\ FailClosed /\ DenialJustified
  BY DEF Init, AttemptsCounted, FailClosed, DenialJustified
<1>5. QED
  BY <1>2, <1>3, <1>4 DEF IInv

\* The breaker and its history, one fact per way they change.
LEMMA SuccessKeepsHistory ==
  ASSUME TypeOK, SetBreaker(RecordSuccess(cb)), NoteSuccess
  PROVE  /\ BreakerHistory'
         /\ cb' \in Breaker /\ trickle' \in Nat
         /\ streak' \in 0..FailureThreshold /\ quiet' \in 0..RecoveryTimeout
<1>1. cb \in Breaker /\ trickle \in Nat /\ quiet \in 0..RecoveryTimeout
  BY DEF TypeOK
<1>2. cb' \in Breaker /\ cb'.failures = 0
  BY <1>1, RecordSuccessFact DEF SetBreaker
<1>3. trickle' \in Nat
  BY <1>1 DEF SetBreaker
<1>4. streak' = 0 /\ quiet' = quiet
  BY DEF NoteSuccess
<1>5. QED
  BY <1>1, <1>2, <1>3, <1>4, BreakerAssumption DEF BreakerHistory

LEMMA FailureKeepsHistory ==
  ASSUME TypeOK, BreakerHistory, SetBreaker(RecordFailure(cb)), NoteFailure
  PROVE  /\ BreakerHistory'
         /\ cb' \in Breaker /\ trickle' \in Nat
         /\ streak' \in 0..FailureThreshold /\ quiet' \in 0..RecoveryTimeout
<1>1. cb \in Breaker /\ trickle \in Nat /\ streak \in 0..FailureThreshold
  BY DEF TypeOK
<1>2. /\ cb' \in Breaker
      /\ cb'.failures = IF cb.failures < FailureThreshold THEN cb.failures + 1 ELSE cb.failures
      /\ cb'.failures = FailureThreshold => cb'.openFor = RecoveryTimeout
  BY <1>1, RecordFailureFact DEF SetBreaker
<1>3. trickle' \in Nat
  BY <1>1 DEF SetBreaker
<1>4. quiet' = 0 /\ streak' = IF streak < FailureThreshold THEN streak + 1 ELSE streak
  BY DEF NoteFailure
<1>5. QED
  BY <1>1, <1>2, <1>3, <1>4, BreakerAssumption DEF BreakerHistory

LEMMA NextIInv == IInv /\ [Next]_vars => IInv'
<1> SUFFICES ASSUME IInv, [Next]_vars PROVE IInv'
  OBVIOUS
<1> USE DEF IInv
<1>1. ASSUME NEW c \in Calls, Authorize(c) PROVE IInv'
  <2>1. TypeOK'
    <3>1. /\ attempt' \in [Calls -> 0..MaxRetries] /\ posts' \in [Calls -> 0..MaxRetries]
          /\ trickle' \in Nat
      <4>1. attempt' \in [Calls -> 0..MaxRetries]
        BY <1>1, CallsAssumption DEF Authorize, TypeOK
      <4>2. CASE FailsFast(cb) \/ MaxRetries = 0
        <5>1. posts' = [posts EXCEPT ![c] = 0] /\ trickle' = trickle
          BY <1>1, <4>2 DEF Authorize
        <5>2. QED
          BY <4>1, <5>1, CallsAssumption DEF TypeOK
      <4>3. CASE ~(FailsFast(cb) \/ MaxRetries = 0)
        <5>1. posts' = [posts EXCEPT ![c] = 1] /\ MaxRetries # 0
          BY <1>1, <4>3 DEF Authorize, NotePost
        <5>2. trickle' = IF IsOpen(cb) THEN trickle + 1 ELSE trickle
          BY <1>1, <4>3 DEF Authorize, NotePost
        <5>3. posts' \in [Calls -> 0..MaxRetries]
          BY <5>1, CallsAssumption DEF TypeOK
        <5>4. trickle' \in Nat
          BY <5>2 DEF TypeOK
        <5>5. QED
          BY <4>1, <5>3, <5>4
      <4>4. QED
        BY <4>2, <4>3
    <3>2. /\ pc' \in [Calls -> Returned \cup {"posting", "backoff"}]
          /\ last' \in [Calls -> Decisions \cup Failures \cup {"none"}]
      BY <1>1 DEF Authorize, Return, TypeOK, Returned
    <3>3. Probing(cb) \in BOOLEAN /\ FailsFast(cb) \in BOOLEAN
      BY DEF Probing, FailsFast, IsOpen
    <3>4. /\ probe' \in [Calls -> BOOLEAN] /\ denied' \in [Calls -> BOOLEAN]
          /\ result' \in [Calls -> BOOLEAN]
      BY <1>1, <3>3 DEF Authorize, Return, TypeOK
    <3>5. QED
      BY <1>1, <3>1, <3>2, <3>4 DEF Authorize, TypeOK
  <2>2. AttemptsCounted'
    BY <1>1, CallsAssumption
       DEF Authorize, Return, NotePost, TypeOK, AttemptsCounted, Returned
  <2>3. FailClosed' /\ DenialJustified'
    BY <1>1, CallsAssumption
       DEF Authorize, Return, NotePost, FailsFast, TypeOK, FailClosed, DenialJustified, Returned
  <2>4. BreakerHistory'
    BY <1>1 DEF Authorize, BreakerHistory
  <2>5. QED
    BY <2>1, <2>2, <2>3, <2>4
<1>2. ASSUME NEW c \in Calls, NEW d \in Decisions, Decide(c, d) PROVE IInv'
  <2>1. /\ BreakerHistory'
        /\ cb' \in Breaker /\ trickle' \in Nat
        /\ streak' \in 0..FailureThreshold /\ quiet' \in 0..RecoveryTimeout
    BY <1>2, SuccessKeepsHistory DEF Decide
  <2>2. TypeOK'
    BY <1>2, <2>1 DEF Decide, Return, Granted, TypeOK, Returned
  <2>3. AttemptsCounted'
    BY <1>2 DEF Decide, Return, TypeOK, AttemptsCounted
  <2>4. FailClosed' /\ DenialJustified'
    BY <1>2 DEF Decide, Return, Granted, TypeOK, FailClosed, DenialJustified, Decisions
  <2>5. QED
    BY <2>1, <2>2, <2>3, <2>4
<1>3. ASSUME NEW c \in Calls, HttpError(c) PROVE IInv'
  <2>1. /\ BreakerHistory'
        /\ cb' \in Breaker /\ trickle' \in Nat
        /\ streak' \in 0..FailureThreshold /\ quiet' \in 0..RecoveryTimeout
    BY <1>3, FailureKeepsHistory DEF HttpError
  <2>2. TypeOK'
    BY <1>3, <2>1 DEF HttpError, Return, TypeOK, Returned, Failures
  <2>3. AttemptsCounted'
    BY <1>3 DEF HttpError, Return, TypeOK, AttemptsCounted
  <2>4. FailClosed' /\ DenialJustified'
    BY <1>3 DEF HttpError, Return, TypeOK, FailClosed, DenialJustified
  <2>5. QED
    BY <2>1, <2>2, <2>3, <2>4
<1>4. ASSUME NEW c \in Calls, NEW k \in Transient, TransientError(c, k) PROVE IInv'
  <2>1. /\ BreakerHistory'
        /\ cb' \in Breaker /\ trickle' \in Nat
        /\ streak' \in 0..FailureThreshold /\ quiet' \in 0..RecoveryTimeout
    BY <1>4, FailureKeepsHistory DEF TransientError
  <2>2. CASE AttemptLeft(c)
    <3>1. pc' = [pc EXCEPT ![c] = "backoff"] /\ result' = result
      BY <1>4, <2>2 DEF TransientError
    <3>2. TypeOK'
      BY <1>4, <2>1, <3>1 DEF TransientError, TypeOK, Failures
    <3>3. AttemptsCounted'
      BY <1>4, <2>2, <3>1, CallsAssumption
         DEF TransientError, AttemptLeft, TypeOK, AttemptsCounted
    <3>4. FailClosed' /\ DenialJustified'
      BY <1>4, <3>1 DEF TransientError, TypeOK, FailClosed, DenialJustified
    <3>5. QED
      BY <2>1, <3>2, <3>3, <3>4
  <2>3. CASE ~AttemptLeft(c)
    <3>1. Return(c, FALSE)
      BY <1>4, <2>3 DEF TransientError
    <3>2. TypeOK'
      BY <1>4, <2>1, <3>1 DEF TransientError, Return, TypeOK, Returned, Failures
    <3>3. AttemptsCounted'
      BY <1>4, <3>1 DEF TransientError, Return, TypeOK, AttemptsCounted
    <3>4. posts[c] = MaxRetries
      BY <1>4, <2>3, CallsAssumption
         DEF TransientError, AttemptLeft, TypeOK, AttemptsCounted
    <3>5. FailClosed' /\ DenialJustified'
      BY <1>4, <3>1, <3>4 DEF TransientError, Return, TypeOK, FailClosed, DenialJustified
    <3>6. QED
      BY <2>1, <3>2, <3>3, <3>5
  <2>4. QED
    BY <2>2, <2>3
<1>5. ASSUME NEW c \in Calls, Retry(c) PROVE IInv'
  <2>1. TypeOK'
    BY <1>5, CallsAssumption DEF Retry, NotePost, TypeOK, AttemptsCounted
  <2>2. AttemptsCounted'
    BY <1>5, CallsAssumption DEF Retry, NotePost, TypeOK, AttemptsCounted
  <2>3. FailClosed' /\ DenialJustified'
    BY <1>5 DEF Retry, NotePost, TypeOK, FailClosed, DenialJustified
  <2>4. BreakerHistory'
    BY <1>5 DEF Retry, BreakerHistory
  <2>5. QED
    BY <2>1, <2>2, <2>3, <2>4
<1>6. ASSUME NEW c \in Calls, Cancel(c) PROVE IInv'
  BY <1>6 DEF Cancel, history, TypeOK, AttemptsCounted, FailClosed, DenialJustified,
              BreakerHistory, Returned
<1>7. CASE Close
  BY <1>7 DEF Close, history, TypeOK, AttemptsCounted, FailClosed, DenialJustified,
              BreakerHistory
<1>8. CASE Tick
  <2>1. cb \in Breaker /\ trickle \in Nat /\ quiet \in 0..RecoveryTimeout
    BY DEF TypeOK
  <2>2. /\ cb' \in Breaker /\ cb'.failures = cb.failures
        /\ cb'.openFor = IF cb.openFor > 0 THEN cb.openFor - 1 ELSE 0
    BY <1>8, <2>1, ElapseFact DEF Tick, SetBreaker
  <2>3. quiet' = IF quiet < RecoveryTimeout THEN quiet + 1 ELSE quiet
    BY <1>8 DEF Tick
  <2>4. trickle' \in Nat
    BY <1>8, <2>1 DEF Tick, SetBreaker
  <2>5. TypeOK'
    BY <1>8, <2>1, <2>2, <2>3, <2>4, BreakerAssumption DEF Tick, TypeOK
  <2>6. BreakerHistory'
    BY <1>8, <2>1, <2>2, <2>3, BreakerAssumption DEF Tick, BreakerHistory
  <2>7. AttemptsCounted' /\ FailClosed' /\ DenialJustified'
    BY <1>8 DEF Tick, AttemptsCounted, FailClosed, DenialJustified
  <2>8. QED
    BY <2>5, <2>6, <2>7
<1>9. CASE OpaFlips
  BY <1>9 DEF OpaFlips, code, history, TypeOK, AttemptsCounted, FailClosed,
              DenialJustified, BreakerHistory
<1>10. CASE UNCHANGED vars
  BY <1>10 DEF vars, code, history, TypeOK, AttemptsCounted, FailClosed, DenialJustified,
               BreakerHistory
<1>11. QED
  BY <1>1, <1>2, <1>3, <1>4, <1>5, <1>6, <1>7, <1>8, <1>9, <1>10
     DEF Next, CallStep, Answer

LEMMA Invariance == Spec => []IInv
BY InitIInv, NextIInv, PTL DEF Spec

-----------------------------------------------------------------------------

\* Every state authorize() and its breaker can be in is well-formed; no call
\* ever counts past its configured attempts.
THEOREM TypeCorrect == Spec => []TypeOK
<1>1. IInv => TypeOK
  BY DEF IInv
<1>2. QED
  BY Invariance, <1>1, PTL

\* authorize() fails closed: it grants only on this call's own latest answer.
THEOREM AuthorizeFailsClosed == Spec => []FailClosed
<1>1. IInv => FailClosed
  BY DEF IInv
<1>2. QED
  BY Invariance, <1>1, PTL

\* Every denial has one of the documented causes.
THEOREM DenialsAreJustified == Spec => []DenialJustified
<1>1. IInv => DenialJustified
  BY DEF IInv
<1>2. QED
  BY Invariance, <1>1, PTL

\* The breaker is open exactly when the recorded outcomes say so.
THEOREM BreakerIsFaithful == Spec => []BreakerTracksOutcomes
<1>1. IInv => BreakerTracksOutcomes
  BY BreakerAssumption
     DEF IInv, TypeOK, Breaker, BreakerHistory, BreakerTracksOutcomes, IsOpen
<1>2. QED
  BY Invariance, <1>1, PTL

-----------------------------------------------------------------------------
(* The trickle.  A call that an open breaker lets through is one that was in *)
(* flight when it opened, so every request counted is a retry of a call, and *)
(* no retry is counted twice: the count is the size of a set of them.        *)

Attempts == 1..(MaxRetries - 1)
Retries  == Calls \X Attempts

\* S is a set of retries already sent, as many as were counted.
Sent(S) ==
  /\ S \subseteq Retries
  /\ Cardinality(S) = trickle
  /\ \A c \in Calls, n \in Attempts :
       <<c, n>> \in S /\ pc[c] \in {"posting", "backoff"} => n <= attempt[c]

Trickled ==
  /\ ~IsOpen(cb) => trickle = 0
  /\ \E S \in SUBSET Retries : Sent(S)

LEMMA NothingSent == ASSUME trickle = 0 PROVE \E S \in SUBSET Retries : Sent(S)
<1>1. Sent({})
  BY FS_EmptySet DEF Sent
<1>2. QED
  BY <1>1

LEMMA RetriesFact ==
  /\ IsFiniteSet(Retries)
  /\ Cardinality(Retries) = Cardinality(Calls) * (IF MaxRetries > 0 THEN MaxRetries - 1 ELSE 0)
<1>1. IsFiniteSet(Calls) /\ MaxRetries \in Nat /\ 1 \in Int /\ MaxRetries - 1 \in Int
  BY CallsAssumption
<1>2. /\ IsFiniteSet(Attempts)
      /\ Cardinality(Attempts) = IF 1 > MaxRetries - 1 THEN 0 ELSE (MaxRetries - 1) - 1 + 1
  BY <1>1, FS_Interval DEF Attempts
<1>3. Cardinality(Attempts) = IF MaxRetries > 0 THEN MaxRetries - 1 ELSE 0
  BY <1>1, <1>2
<1>4. IsFiniteSet(Retries) /\ Cardinality(Retries) = Cardinality(Calls) * Cardinality(Attempts)
  BY <1>1, <1>2, FS_Product DEF Retries
<1>5. QED
  BY <1>3, <1>4

\* An outcome is recorded, or time passes: nothing is sent, and a period in
\* which the breaker is open may begin or end.
LEMMA SetBreakerTrickled ==
  ASSUME Trickled, NEW b, SetBreaker(b), attempt' = attempt,
         \A c \in Calls : pc'[c] \in {"posting", "backoff"} => pc[c] \in {"posting", "backoff"}
  PROVE  Trickled'
<1>1. CASE IsOpen(cb) /\ IsOpen(b)
  <2>1. PICK S \in SUBSET Retries : Sent(S)
    BY DEF Trickled
  <2>2. cb' = b /\ trickle' = trickle
    BY <1>1 DEF SetBreaker
  <2>3. Sent(S)'
    BY <2>1, <2>2 DEF Sent, Retries
  <2>4. IsOpen(cb)'
    BY <1>1, <2>2 DEF IsOpen
  <2>5. QED
    BY <2>3, <2>4 DEF Trickled, Sent, Retries
<1>2. CASE ~(IsOpen(cb) /\ IsOpen(b))
  <2>1. trickle' = 0
    BY <1>2 DEF SetBreaker
  <2>2. Sent({})'
    BY <2>1, FS_EmptySet DEF Sent
  <2>3. QED
    BY <2>1, <2>2 DEF Trickled
<1>3. QED
  BY <1>1, <1>2

LEMMA NextTrickled == IInv /\ Trickled /\ [Next]_vars => Trickled'
<1> SUFFICES ASSUME IInv, Trickled, [Next]_vars PROVE Trickled'
  OBVIOUS
<1>0. PICK S \in SUBSET Retries : Sent(S)
  BY DEF Trickled
<1>1. ASSUME UNCHANGED <<cb, trickle, attempt>>,
             \A c \in Calls : pc'[c] \in {"posting", "backoff"} => pc[c] \in {"posting", "backoff"}
      PROVE  Trickled'
  <2>1. Sent(S)'
    BY <1>0, <1>1 DEF Sent, Retries
  <2>2. QED
    BY <1>1, <2>1 DEF Trickled, IsOpen, Sent
<1>2. ASSUME NEW c \in Calls, Authorize(c) PROVE Trickled'
  <2>1. CASE FailsFast(cb) \/ MaxRetries = 0
    <3>1. /\ cb' = cb /\ trickle' = trickle /\ pc' = [pc EXCEPT ![c] = "done"]
          /\ attempt' = [attempt EXCEPT ![c] = 0]
      BY <1>2, <2>1 DEF Authorize, Return
    <3>2. Sent(S)'
      BY <1>0, <3>1 DEF Sent, Retries, IInv, TypeOK
    <3>3. QED
      BY <3>1, <3>2 DEF Trickled, IsOpen, Sent
  <2>2. CASE ~(FailsFast(cb) \/ MaxRetries = 0)
    <3>1. cb' = cb /\ trickle' = 0
      BY <1>2, <2>2 DEF Authorize, FailsFast, NotePost, Trickled
    <3>2. Sent({})'
      BY <3>1, FS_EmptySet DEF Sent
    <3>3. QED
      BY <3>1, <3>2 DEF Trickled, IsOpen
  <2>3. QED
    BY <2>1, <2>2
<1>3. ASSUME NEW c \in Calls, Answer(c) PROVE Trickled'
  <2>1. pc[c] = "posting" /\ attempt' = attempt /\ (\E b : SetBreaker(b))
    BY <1>3 DEF Answer, Decide, HttpError, TransientError
  <2>2. PICK place : pc' = [pc EXCEPT ![c] = place]
    BY <1>3 DEF Answer, Decide, HttpError, TransientError, Return
  <2>3. \A d \in Calls : pc'[d] \in {"posting", "backoff"} => pc[d] \in {"posting", "backoff"}
    BY <2>1, <2>2 DEF IInv, TypeOK
  <2>4. QED
    BY <2>1, <2>3, SetBreakerTrickled
<1>4. ASSUME NEW c \in Calls, Retry(c) PROVE Trickled'
  <2>1. /\ pc[c] = "backoff" /\ cb' = cb /\ pc' = [pc EXCEPT ![c] = "posting"]
        /\ attempt' = [attempt EXCEPT ![c] = attempt[c] + 1]
        /\ trickle' = IF IsOpen(cb) THEN trickle + 1 ELSE trickle
    BY <1>4 DEF Retry, NotePost
  <2>2. CASE ~IsOpen(cb)
    <3>1. trickle' = 0
      BY <2>1, <2>2 DEF Trickled
    <3>2. Sent({})'
      BY <3>1, FS_EmptySet DEF Sent
    <3>3. QED
      BY <2>1, <3>1, <3>2 DEF Trickled, IsOpen
  <2>3. CASE IsOpen(cb)
    <3>1. PICK n \in Attempts : n = attempt[c] + 1
      BY <2>1, CallsAssumption DEF Attempts, IInv, TypeOK, AttemptsCounted
    <3>2. <<c, n>> \in Retries
      BY DEF Retries
    <3>3. PICK T \in SUBSET Retries : T = S \cup {<<c, n>>}
      BY <1>0, <3>2
    <3>4. <<c, n>> \notin S
      BY <1>0, <2>1, <3>1, CallsAssumption DEF Sent, Attempts, IInv, TypeOK
    <3>5. IsFiniteSet(S)
      BY RetriesFact, FS_Subset
    <3>6. Cardinality(T) = trickle + 1
      BY <1>0, <3>3, <3>4, <3>5, FS_AddElement DEF Sent
    <3>7. ASSUME NEW d \in Calls, NEW m \in Attempts, <<d, m>> \in T,
                 pc'[d] \in {"posting", "backoff"}
          PROVE  m <= attempt'[d]
      <4>1. CASE d = c
        <5>1. attempt'[c] = n
          BY <2>1, <3>1 DEF IInv, TypeOK
        <5>2. m = n \/ m <= attempt[c]
          BY <1>0, <2>1, <3>3, <3>7, <4>1 DEF Sent
        <5>3. QED
          BY <3>1, <4>1, <5>1, <5>2, CallsAssumption DEF IInv, TypeOK, Attempts
      <4>2. CASE d # c
        BY <1>0, <2>1, <3>3, <3>7, <4>2 DEF Sent, IInv, TypeOK
      <4>3. QED
        BY <4>1, <4>2
    <3>8. Sent(T)'
      BY <2>1, <2>3, <3>6, <3>7 DEF Sent, Retries
    <3>9. QED
      BY <2>1, <2>3, <3>8 DEF Trickled, IsOpen, Retries
  <2>4. QED
    BY <2>2, <2>3
<1>5. ASSUME NEW c \in Calls, Cancel(c) PROVE Trickled'
  <2>1. \A d \in Calls : pc'[d] \in {"posting", "backoff"} => pc[d] \in {"posting", "backoff"}
    BY <1>5 DEF Cancel, IInv, TypeOK
  <2>2. QED
    BY <1>1, <1>5, <2>1 DEF Cancel, history
<1>6. CASE Tick
  BY <1>6, SetBreakerTrickled DEF Tick
<1>7. CASE Close \/ OpaFlips \/ UNCHANGED vars
  BY <1>1, <1>7 DEF Close, OpaFlips, vars, code, history
<1>8. QED
  BY <1>2, <1>3, <1>4, <1>5, <1>6, <1>7 DEF Next, CallStep

\* While the breaker is open OPA sees at most the remaining attempts of the calls
\* that were in flight when it opened.
THEOREM TrickleIsBounded == Spec => []TrickleBounded
<1>1. Init => Trickled
  <2> SUFFICES ASSUME Init PROVE Trickled
    OBVIOUS
  <2>1. trickle = 0
    BY DEF Init
  <2>2. QED
    BY <2>1, NothingSent DEF Trickled
<1>2. Trickled => TrickleBounded
  <2> SUFFICES ASSUME Trickled PROVE TrickleBounded
    OBVIOUS
  <2>1. PICK S \in SUBSET Retries : Cardinality(S) = trickle
    BY DEF Trickled, Sent
  <2>2. Cardinality(S) <= Cardinality(Retries)
    BY RetriesFact, FS_Subset
  <2>3. QED
    BY <2>1, <2>2, RetriesFact DEF TrickleBounded
<1>3. QED
  BY Invariance, NextTrickled, <1>1, <1>2, PTL DEF Spec

=============================================================================
