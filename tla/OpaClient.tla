------------------------------ MODULE OpaClient ------------------------------
(***************************************************************************)
(* platform_sdk/security.py, class OpaClient: concurrent authorize() calls *)
(* of one event loop sharing one circuit breaker.  authorize() gives up    *)
(* the loop only at the POST and at the sleep between two attempts, so a   *)
(* call is the steps between those awaits: it is admitted or               *)
(* short-circuited, then each answer is handled and either ends the call   *)
(* or leads, through the backoff, to the next attempt.                     *)
(*                                                                         *)
(* The OPA server is external: while it is up an exchange ends in a        *)
(* decision, while it is down in one of the three kinds of exception the   *)
(* code tells apart.                                                       *)
(***************************************************************************)
EXTENDS CircuitBreaker, FiniteSets

CONSTANTS Calls,        \* callers; each makes one authorize() call at a time
          MaxRetries    \* config.opa_max_retries: attempts in all

ASSUME CallsAssumption == IsFiniteSet(Calls) /\ MaxRetries \in Nat

VARIABLES
  cb,        \* self._cb
  closed,    \* aclose() has run: the httpx client refuses every request
  pc,        \* where a call stands
  attempt,   \* the loop variable of authorize(), from 0
  result,    \* what the last authorize() of this caller returned
  opaUp,     \* environment: the OPA server answers
  last,      \* history: how the latest exchange of this call ended
  posts,     \* history: requests this call has sent
  probe,     \* history: the call was admitted past its threshold
  denied,    \* history: the call was short-circuited
  streak,    \* history: outcomes recorded since the last success (saturating)
  quiet,     \* history: time since the last recorded failure (saturating)
  trickle    \* history: requests sent since the breaker last became open

code    == <<cb, closed, pc, attempt, result>>
history == <<last, posts, probe, denied, streak, quiet, trickle>>
vars    == <<code, opaUp, history>>

\* Outcomes of one exchange.  A decision is the "result" of OPA's document: true,
\* another value Python takes for true (an object or a list that is not empty,
\* as a policy package returns, a string, a number), a value it takes for false
\* (false, null, 0, an empty one), or no "result" at all.  The others are the
\* three except clauses.
Decisions == {"true", "truthy", "falsy", "missing"}
Transient == {"timeout", "error"}      \* recorded, then retried
Failures  == Transient \cup {"http_error"}

Returned == {"idle", "done", "cancelled"}

Init ==
  /\ cb = ClosedBreaker
  /\ closed = FALSE
  /\ pc = [c \in Calls |-> "idle"]
  /\ attempt = [c \in Calls |-> 0]
  /\ result = [c \in Calls |-> FALSE]
  /\ opaUp = TRUE
  /\ last = [c \in Calls |-> "none"]
  /\ posts = [c \in Calls |-> 0]
  /\ probe = [c \in Calls |-> FALSE]
  /\ denied = [c \in Calls |-> FALSE]
  /\ streak = 0
  /\ quiet = RecoveryTimeout
  /\ trickle = 0

-----------------------------------------------------------------------------
(* Bookkeeping of the history variables. *)

\* The breaker moves to b; a period in which it is open ends with the count of
\* the requests sent in it.
SetBreaker(b) ==
  /\ cb' = b
  /\ trickle' = IF IsOpen(cb) /\ IsOpen(b) THEN trickle ELSE 0

NoteSuccess == streak' = 0 /\ UNCHANGED quiet

NoteFailure ==
  /\ streak' = IF streak < FailureThreshold THEN streak + 1 ELSE streak
  /\ quiet' = 0

\* Call c sends its request.
NotePost(c, n) ==
  /\ posts' = [posts EXCEPT ![c] = n]
  /\ trickle' = IF IsOpen(cb) THEN trickle + 1 ELSE trickle
-----------------------------------------------------------------------------

\* Slip: the default of .get("result") is a grant.
GrantedByDefault(decision) == decision # "falsy"

\* bool(response.json().get("result", False))
Granted(decision) == decision \in {"true", "truthy"}

\* Slip: the breaker is not consulted on entry.
NeverFailsFast(b) == FALSE

FailsFast(b) == IsOpen(b)

\* Slips: one attempt too few, one too many.
AttemptLeftButOne(c) == attempt[c] < MaxRetries - 2
AttemptLeftAndOne(c) == attempt[c] < MaxRetries

AttemptLeft(c) == attempt[c] < MaxRetries - 1

Return(c, decision) ==
  /\ pc' = [pc EXCEPT ![c] = "done"]
  /\ result' = [result EXCEPT ![c] = decision]

\* Entry of authorize(), up to the first POST: the breaker is consulted here
\* and nowhere else.  A call that makes no attempt is denied.
Authorize(c) ==
  /\ pc[c] \in Returned
  /\ attempt' = [attempt EXCEPT ![c] = 0]
  /\ last' = [last EXCEPT ![c] = "none"]
  /\ probe' = [probe EXCEPT ![c] = Probing(cb)]
  /\ denied' = [denied EXCEPT ![c] = FailsFast(cb)]
  /\ IF FailsFast(cb) \/ MaxRetries = 0
       THEN /\ Return(c, FALSE)
            /\ posts' = [posts EXCEPT ![c] = 0]
            /\ UNCHANGED trickle
       ELSE /\ pc' = [pc EXCEPT ![c] = "posting"]
            /\ NotePost(c, 1)
            /\ UNCHANGED result
  /\ UNCHANGED <<cb, closed, opaUp, streak, quiet>>

\* A 2xx answer: success is recorded whatever the decision, which is returned.
Decide(c, decision) ==
  /\ pc[c] = "posting"
  /\ opaUp /\ ~closed
  /\ last' = [last EXCEPT ![c] = decision]
  /\ SetBreaker(RecordSuccess(cb))
  /\ NoteSuccess
  /\ Return(c, Granted(decision))
  /\ UNCHANGED <<closed, attempt, opaUp, posts, probe, denied>>

\* HTTPStatusError: recorded, denied at once, never retried.
HttpError(c) ==
  /\ pc[c] = "posting"
  /\ ~opaUp /\ ~closed
  /\ last' = [last EXCEPT ![c] = "http_error"]
  /\ SetBreaker(RecordFailure(cb))
  /\ NoteFailure
  /\ Return(c, FALSE)
  /\ UNCHANGED <<closed, attempt, opaUp, posts, probe, denied>>

\* TimeoutException or any other exception: recorded, then the backoff if an
\* attempt is left and the denial if none is.
TransientError(c, kind) ==
  /\ pc[c] = "posting"
  /\ ~opaUp \/ (closed /\ kind = "error")
  /\ last' = [last EXCEPT ![c] = kind]
  /\ SetBreaker(RecordFailure(cb))
  /\ NoteFailure
  /\ IF AttemptLeft(c)
       THEN pc' = [pc EXCEPT ![c] = "backoff"] /\ UNCHANGED result
       ELSE Return(c, FALSE)
  /\ UNCHANGED <<closed, attempt, opaUp, posts, probe, denied>>

\* Slip: the retry waits for the breaker.
RetryWhenClosed(c) ==
  /\ pc[c] = "backoff"
  /\ ~IsOpen(cb)
  /\ attempt' = [attempt EXCEPT ![c] = attempt[c] + 1]
  /\ pc' = [pc EXCEPT ![c] = "posting"]
  /\ NotePost(c, posts[c] + 1)
  /\ UNCHANGED <<cb, closed, result, opaUp, last, probe, denied, streak, quiet>>

\* The sleep is over: the next attempt is sent, whatever the breaker says now.
Retry(c) ==
  /\ pc[c] = "backoff"
  /\ attempt' = [attempt EXCEPT ![c] = attempt[c] + 1]
  /\ pc' = [pc EXCEPT ![c] = "posting"]
  /\ NotePost(c, posts[c] + 1)
  /\ UNCHANGED <<cb, closed, result, opaUp, last, probe, denied, streak, quiet>>

\* The task awaiting authorize() is cancelled at either await (CancelledError
\* is no Exception): nothing is recorded and nothing is returned.
Cancel(c) ==
  /\ pc[c] \in {"posting", "backoff"}
  /\ pc' = [pc EXCEPT ![c] = "cancelled"]
  /\ UNCHANGED <<cb, closed, attempt, result, opaUp, history>>

\* aclose(): requests in flight and later ones fail.
Close ==
  /\ ~closed
  /\ closed' = TRUE
  /\ UNCHANGED <<cb, pc, attempt, result, opaUp, history>>

Tick ==
  /\ cb.openFor > 0 \/ quiet < RecoveryTimeout
  /\ SetBreaker(Elapse(cb))
  /\ quiet' = IF quiet < RecoveryTimeout THEN quiet + 1 ELSE quiet
  /\ UNCHANGED <<closed, pc, attempt, result, opaUp, last, posts, probe, denied, streak>>

\* Environment: the server fails and comes back.
OpaFlips ==
  /\ opaUp' = ~opaUp
  /\ UNCHANGED <<code, history>>

Answer(c) ==
  \/ \E d \in Decisions : Decide(c, d)
  \/ HttpError(c)
  \/ \E k \in Transient : TransientError(c, k)

CallStep(c) == Authorize(c) \/ Answer(c) \/ Retry(c) \/ Cancel(c)

Next == (\E c \in Calls : CallStep(c)) \/ Close \/ Tick \/ OpaFlips

\* Fairness: time passes; httpx ends every request (its timeout is configured
\* in __init__) and asyncio.sleep returns.  Callers owe nothing.
Fairness ==
  /\ WF_vars(Tick)
  /\ \A c \in Calls : WF_vars(Answer(c)) /\ WF_vars(Retry(c))

Spec == Init /\ [][Next]_vars
FairSpec == Spec /\ Fairness

-----------------------------------------------------------------------------
(* Properties *)

TypeOK ==
  /\ cb \in Breaker
  /\ closed \in BOOLEAN
  /\ pc \in [Calls -> Returned \cup {"posting", "backoff"}]
  /\ attempt \in [Calls -> 0..MaxRetries]
  /\ result \in [Calls -> BOOLEAN]
  /\ opaUp \in BOOLEAN
  /\ last \in [Calls -> Decisions \cup Failures \cup {"none"}]
  /\ posts \in [Calls -> 0..MaxRetries]
  /\ probe \in [Calls -> BOOLEAN]
  /\ denied \in [Calls -> BOOLEAN]
  /\ streak \in 0..FailureThreshold
  /\ quiet \in 0..RecoveryTimeout
  /\ trickle \in Nat

\* Fail closed: authorize() returns True only when the latest exchange of this
\* very call was answered with a "result" that Python takes for true.  No
\* outage, no breaker state, no exhausted retry, no document without a result,
\* no other call's answer ever turns into a grant.
FailClosed ==
  \A c \in Calls : pc[c] = "done" /\ result[c] => last[c] \in {"true", "truthy"}

\* A denial has a cause: OPA said no, OPA answered with an HTTP error, the
\* breaker was open on entry, or every one of the configured attempts failed.
\* No call gives up early and none asks more often than configured.
DenialJustified ==
  \A c \in Calls : pc[c] = "done" /\ ~result[c] =>
    \/ last[c] \in {"falsy", "missing", "http_error"}
    \/ denied[c] /\ posts[c] = 0
    \/ posts[c] = MaxRetries /\ last[c] \in Transient \cup {"none"}

\* The breaker is a faithful summary of what the calls recorded, in whatever
\* order their answers came: open exactly when the latest FailureThreshold
\* outcomes were all failures and the latest is younger than RecoveryTimeout.
BreakerTracksOutcomes ==
  IsOpen(cb) <=> streak = FailureThreshold /\ quiet < RecoveryTimeout

\* While the breaker stays open OPA sees at most the remaining attempts of the
\* calls that were in flight when it opened: it is not consulted between
\* attempts, but no new call gets through.
TrickleBounded ==
  trickle <= Cardinality(Calls) * (IF MaxRetries > 0 THEN MaxRetries - 1 ELSE 0)

\* Every call that is not cancelled returns a verdict.
CallsReturn ==
  \A c \in Calls : pc[c] \in {"posting", "backoff"} ~> pc[c] \in Returned

\* The breaker cannot stay open once OPA is back for good, even if no call
\* ever comes to probe it.
BreakerRecovers == <>[](opaUp /\ ~closed) => <>[]~IsOpen(cb)

-----------------------------------------------------------------------------
(* What the documentation says and the code does not do *)

\* resilience.py:36-38: "After the timeout elapses a single probe is allowed
\* through".  Several calls can be past is_open before the first one answers.
SingleProbe ==
  Cardinality({c \in Calls : probe[c] /\ pc[c] = "posting"}) <= 1

=============================================================================
