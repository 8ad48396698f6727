------------------------- MODULE ToolPipelineProofs -------------------------
(***************************************************************************)
(* What cached_tool and authorized_tool promise together, for any number   *)
(* of calls and tools, either order of the decorators, every TTL and every *)
(* timeout of Redis.                                                       *)
(*                                                                         *)
(* The invariant follows a result from the tool into Redis and out again:  *)
(* what Redis holds under a key, or is still on its way there, is the      *)
(* granted, successful answer to the requests of that key (RedisHonest,    *)
(* LateHonest), and its age and the time left to it never exceed the TTL,  *)
(* one timeout and the delay of a SETEX without a client; what a call has  *)
(* in hand answers its own request (ValuesHonest), at an age its stage     *)
(* allows (ValuesAge).                                                     *)
(***************************************************************************)
EXTENDS ToolPipeline, CircuitBreakerProofs

\* Before the tool and before the cache has answered there is nothing in hand.
EmptyHanded ==
  \A c \in Calls : pc[c] \in {"auth", "run"} \/ (pc[c] = "get" /\ c \notin served)
                     => value[c] = None

\* Only calls that await Redis have a request there; what is stored is data.
Requested ==
  /\ \A c \in served : Asking(c)
  /\ \A c \in Calls : pc[c] = "set" => value[c] # None /\ value[c].kind = "data"

\* With the authorization outside, the cache and the tool come after the grant;
\* with the cache outside, the tool does.
GrantFirst ==
  \A c \in Calls : pc[c] = "run" \/ (pc[c] = "get" /\ ~Outside(req[c]))
                     => "granted" \in seen[c]

ValuesHonest ==
  \A c \in Calls : value[c] # None =>
    /\ value[c].of = Trimmed[req[c]]
    /\ value[c].kind # "error" => value[c].granted
    /\ value[c].kind # "error" /\ ~Outside(req[c]) => "granted" \in seen[c]
    /\ value[c].kind # "data" => "refused" \in seen[c] \/ "ran" \in seen[c]

\* The age a result can have when Redis stores it.
SetDelay == RedisTimeout + RedisDelay

\* The ages a result can have, by the stage of its call.
AgeLimit(c) ==
  IF pc[c] = "set" THEN waited[c]
  ELSE IF pc[c] = "get" THEN Ttl + SetDelay + waited[c] ELSE MaxAge

ValuesAge == \A c \in Calls : value[c] # None => value[c].age <= AgeLimit(c)

\* v is a granted, successful answer to every request with the key k.
Answers(v, k) ==
  /\ v.kind = "data"
  /\ v.granted
  /\ \A r \in Requests : CallKey(r) = k => v.of = Trimmed[r]

RedisHonest ==
  \A k \in Keys : redis[k] # None =>
    /\ Answers(redis[k].result, k)
    /\ redis[k].result.age + redis[k].left <= Ttl + SetDelay

LateHonest ==
  \A m \in late : Answers(m.result, m.key) /\ m.result.age <= SetDelay

IInv ==
  /\ TypeOK
  /\ EmptyHanded
  /\ Requested
  /\ GrantFirst
  /\ ValuesHonest
  /\ ValuesAge
  /\ RedisHonest
  /\ LateHonest

-----------------------------------------------------------------------------
(* Keys and results *)

\* Two requests share a key only if they are the same request.
LEMMA KeysDiffer ==
  ASSUME NEW r \in Requests, NEW s \in Requests, CacheKey(r) = CacheKey(s)
  PROVE  r = s
<1>1. /\ "fn" \notin DOMAIN r.kwargs
      /\ "fn" \notin DOMAIN s.kwargs
  BY PipelineAssumption
<1>2. CacheKey(r)["fn"] = r.tool /\ CacheKey(s)["fn"] = s.tool
  BY <1>1 DEF CacheKey
<1>3. DOMAIN CacheKey(r) = DOMAIN r.kwargs \cup {"fn"}
      /\ DOMAIN CacheKey(s) = DOMAIN s.kwargs \cup {"fn"}
  BY DEF CacheKey
<1>4. DOMAIN r.kwargs = DOMAIN s.kwargs
  BY <1>1, <1>3
<1>5. \A a \in DOMAIN r.kwargs : CacheKey(r)[a] = r.kwargs[a]
  BY DEF CacheKey
<1>6. \A a \in DOMAIN s.kwargs : CacheKey(s)[a] = s.kwargs[a]
  BY DEF CacheKey
<1>7. \A a \in DOMAIN r.kwargs : r.kwargs[a] = s.kwargs[a]
  BY <1>4, <1>5, <1>6
<1>8. r.kwargs = s.kwargs
  <2>1. r.kwargs = [a \in DOMAIN r.kwargs |-> r.kwargs[a]]
    BY PipelineAssumption
  <2>2. s.kwargs = [a \in DOMAIN s.kwargs |-> s.kwargs[a]]
    BY PipelineAssumption
  <2>3. QED
    BY <1>4, <1>7, <2>1, <2>2
<1>9. r.tool = s.tool
  BY <1>2
<1>10. QED
  BY <1>8, <1>9, PipelineAssumption

\* Calls with one key are calls of one tool whose arguments are the same once
\* they are trimmed.
LEMMA OneAnswerPerKey ==
  ASSUME NEW r \in Requests, NEW s \in Requests, CallKey(r) = CallKey(s)
  PROVE  Trimmed[r] = Trimmed[s]
<1> DEFINE cached(q) == IF Outside(q) THEN q ELSE Trimmed[q]
<1>1. \A q \in Requests : cached(q) \in Requests /\ cached(q).tool = q.tool
  BY PipelineAssumption
<1>2. cached(r) = cached(s)
  BY <1>1, KeysDiffer DEF CallKey
<1>3. Outside(r) <=> Outside(s)
  BY <1>1, <1>2 DEF Outside
<1>4. QED
  BY <1>2, <1>3

LEMMA AgedFact ==
  ASSUME NEW v \in Value
  PROVE  /\ Aged(v) \in Value
         /\ Aged(v).of = v.of /\ Aged(v).kind = v.kind /\ Aged(v).granted = v.granted
         /\ Aged(v).age <= v.age + 1
         /\ Aged(v) # None
BY PipelineAssumption, NoneAssumption DEF Aged, Value, MaxAge

LEMMA NewValueFact ==
  ASSUME TypeOK, NEW c \in Calls, NEW kind \in Kinds, NEW granted \in BOOLEAN
  PROVE  /\ NewValue(c, kind, granted) \in Value
         /\ NewValue(c, kind, granted).kind = kind
         /\ NewValue(c, kind, granted).of = Trimmed[req[c]]
         /\ NewValue(c, kind, granted).age = 0
         /\ NewValue(c, kind, granted).granted = granted
         /\ NewValue(c, kind, granted) # None
BY PipelineAssumption, NoneAssumption DEF NewValue, Value, MaxAge, TypeOK

LEMMA EntryFact ==
  ASSUME NEW v \in Value
  PROVE  /\ Entry(v) \in Stored /\ Entry(v) # None
         /\ Entry(v).result = v /\ Entry(v).left = Ttl
BY PipelineAssumption, NoneAssumption DEF Entry, Stored

LEMMA StagesFact ==
  ASSUME NEW r
  PROVE  /\ MissStage(r) \in {"auth", "run"} /\ CacheStage(r) \in {"get", "auth", "run"}
         /\ MissStage(r) = "run" => ~Outside(r)
         /\ GrantStage(r) \in {"get", "auth", "run"}
         /\ GrantStage(r) # "auth" \/ Outside(r)
         /\ FirstStage(r) \in {"get", "auth"}
         /\ FirstStage(r) = "get" => Outside(r)
BY DEF MissStage, CacheStage, GrantStage, FirstStage

-----------------------------------------------------------------------------
(* The invariant *)

LEMMA InitIInv == Init => IInv
<1> SUFFICES ASSUME Init PROVE IInv
  OBVIOUS
<1>1. TypeOK
  <2>1. cb \in Breaker
    BY ClosedBreakerFact DEF Init
  <2>2. waited \in [Calls -> 0..RedisTimeout]
    BY PipelineAssumption DEF Init
  <2>3. enabled \in BOOLEAN
    BY DEF Init, CacheBuilt
  <2>4. QED
    BY <2>1, <2>2, <2>3 DEF Init, TypeOK, Stages
<1>2. EmptyHanded /\ Requested /\ GrantFirst
  BY DEF Init, EmptyHanded, Requested, GrantFirst
<1>3. ValuesHonest /\ ValuesAge /\ RedisHonest /\ LateHonest
  BY DEF Init, ValuesHonest, ValuesAge, RedisHonest, LateHonest
<1>4. QED
  BY <1>1, <1>2, <1>3 DEF IInv

LEMMA InvokeStep ==
  ASSUME IInv, NEW c \in Calls, NEW r \in Requests, Invoke(c, r) PROVE IInv'
<1> USE DEF IInv, TypeOK
<1>1. FirstStage(r) \in {"get", "auth"} /\ (FirstStage(r) = "get" => Outside(r))
  BY StagesFact
<1>2. c \notin served
  BY DEF Invoke, Requested, Asking
<1>3. TypeOK'
  BY <1>1 DEF Invoke, Goto, Holds, Stages
<1>4. EmptyHanded'
  BY <1>1, <1>2 DEF Invoke, Goto, Holds, EmptyHanded
<1>5. Requested'
  BY <1>1, <1>2 DEF Invoke, Goto, Holds, Requested, Asking
<1>6. GrantFirst'
  BY <1>1 DEF Invoke, Goto, GrantFirst, Outside
<1>7. ValuesHonest'
  BY DEF Invoke, Holds, ValuesHonest, Outside
<1>8. ValuesAge'
  BY DEF Invoke, Goto, Holds, ValuesAge, AgeLimit
<1>9. RedisHonest' /\ LateHonest'
  BY DEF Invoke, RedisHonest, LateHonest, Answers
<1>10. QED
  BY <1>3, <1>4, <1>5, <1>6, <1>7, <1>8, <1>9

LEMMA RefusedStep ==
  ASSUME IInv, NEW c \in Calls, Refused(c) PROVE IInv'
<1> USE DEF IInv, TypeOK
<1> DEFINE v == NewValue(c, "error", FALSE)
<1>1. v \in Value /\ v.kind = "error" /\ v.of = Trimmed[req[c]] /\ v.age = 0 /\ v # None
  BY NewValueFact DEF Kinds
<1> HIDE DEF v
<1>2. value' = [value EXCEPT ![c] = v] /\ pc' = [pc EXCEPT ![c] = "idle"]
  BY DEF Refused, Goto, Holds, v
<1>3. c \notin served
  BY DEF Refused, Requested, Asking
<1>4. TypeOK'
  BY <1>1, <1>2 DEF Refused, Stages
<1>5. EmptyHanded'
  BY <1>2 DEF Refused, EmptyHanded
<1>6. Requested'
  BY <1>2, <1>3 DEF Refused, Requested, Asking
<1>7. GrantFirst'
  BY <1>2 DEF Refused, GrantFirst, Outside
<1>8. ValuesHonest'
  BY <1>1, <1>2 DEF Refused, ValuesHonest, Outside
<1>9. ValuesAge'
  BY <1>1, <1>2, PipelineAssumption DEF Refused, ValuesAge, AgeLimit, MaxAge
<1>10. RedisHonest' /\ LateHonest'
  BY DEF Refused, RedisHonest, LateHonest, Answers
<1>11. QED
  BY <1>4, <1>5, <1>6, <1>7, <1>8, <1>9, <1>10

LEMMA GrantedStep ==
  ASSUME IInv, NEW c \in Calls, Granted(c) PROVE IInv'
<1> USE DEF IInv, TypeOK
<1>1. PICK stage \in {"get", "run"} : pc' = [pc EXCEPT ![c] = stage]
  BY StagesFact DEF Granted, Goto, GrantStage, CacheStage, MissStage
<1>2. value[c] = None /\ c \notin served
  BY DEF Granted, EmptyHanded, Requested, Asking
<1>3. TypeOK'
  BY <1>1 DEF Granted, Stages
<1>4. EmptyHanded' /\ Requested'
  BY <1>1, <1>2 DEF Granted, EmptyHanded, Requested, Asking
<1>5. GrantFirst'
  BY <1>1 DEF Granted, GrantFirst, Outside
<1>6. ValuesHonest'
  BY DEF Granted, ValuesHonest, Outside
<1>7. ValuesAge'
  BY <1>1, <1>2 DEF Granted, ValuesAge, AgeLimit
<1>8. RedisHonest' /\ LateHonest'
  BY DEF Granted, RedisHonest, LateHonest, Answers
<1>9. QED
  BY <1>3, <1>4, <1>5, <1>6, <1>7, <1>8

LEMMA ToolEndsStep ==
  ASSUME IInv, NEW c \in Calls, NEW kind \in Kinds, ToolEnds(c, kind) PROVE IInv'
<1> USE DEF IInv, TypeOK
<1>1. "granted" \in seen[c]
  BY DEF ToolEnds, GrantFirst
<1> DEFINE v == NewValue(c, kind, TRUE)
<1>2. v \in Value /\ v.kind = kind /\ v.of = Trimmed[req[c]] /\ v.age = 0 /\ v # None /\ v.granted
  BY NewValueFact
<1>3. value' = [value EXCEPT ![c] = v]
  BY <1>1 DEF ToolEnds, Holds
<1> HIDE DEF v
<1>4. PICK stage \in {"idle", "set"} :
             pc' = [pc EXCEPT ![c] = stage] /\ (stage = "set" => kind = "data")
  BY DEF ToolEnds, Goto, IsErrorResponse, Kinds
<1>5. c \notin served
  BY DEF ToolEnds, Requested, Asking
<1>6. TypeOK'
  BY <1>2, <1>3, <1>4 DEF ToolEnds, Stages
<1>7. EmptyHanded'
  BY <1>3, <1>4 DEF ToolEnds, EmptyHanded
<1>8. Requested'
  BY <1>2, <1>3, <1>4, <1>5 DEF ToolEnds, Requested, Asking
<1>9. GrantFirst'
  BY <1>4 DEF ToolEnds, GrantFirst, Outside
<1>10. ValuesHonest'
  BY <1>1, <1>2, <1>3 DEF ToolEnds, ValuesHonest, Outside
<1>11. ValuesAge'
  BY <1>2, <1>3, <1>4, PipelineAssumption DEF ToolEnds, ValuesAge, AgeLimit, MaxAge
<1>12. RedisHonest' /\ LateHonest'
  BY DEF ToolEnds, RedisHonest, LateHonest, Answers
<1>13. QED
  BY <1>6, <1>7, <1>8, <1>9, <1>10, <1>11, <1>12

-----------------------------------------------------------------------------
(* The two requests to Redis *)

LEMMA StoredFact ==
  ASSUME IInv, NEW k \in Keys, redis[k] # None
  PROVE  /\ redis[k] \in Stored /\ redis[k].result \in Value /\ redis[k].left \in 0..Ttl
         /\ redis[k].result # None /\ redis[k].result.age <= Ttl + SetDelay
         /\ redis[k].result.of \in Requests
<1>1. redis[k] \in Stored
  BY DEF IInv, TypeOK
<1>2. redis[k].result \in Value /\ redis[k].left \in 0..Ttl
  BY <1>1 DEF Stored
<1>3. redis[k].result.age \in 0..(MaxAge + 1) /\ redis[k].result.of \in Requests
  BY <1>2 DEF Value
<1>4. redis[k].result.age + redis[k].left <= Ttl + SetDelay
  BY DEF IInv, RedisHonest
<1>5. QED
  BY <1>1, <1>2, <1>3, <1>4, NoneAssumption, PipelineAssumption DEF MaxAge, SetDelay

LEMMA SetServed ==
  ASSUME IInv, NEW c \in Calls, RedisServes(c), pc[c] = "set" PROVE IInv'
<1> USE DEF IInv, TypeOK
<1> DEFINE k == CallKey(req[c])
           e == Entry(value[c])
<1>1. k \in Keys
  BY DEF Keys
<1>2. value[c] # None /\ value[c] \in Value /\ value[c].kind = "data"
  BY DEF Requested
<1>3. e \in Stored /\ e # None /\ e.result = value[c] /\ e.left = Ttl
  BY <1>2, EntryFact
<1>4. /\ value[c].of = Trimmed[req[c]] /\ value[c].granted
      /\ value[c].age <= waited[c] /\ waited[c] \in 0..RedisTimeout
      /\ value[c].age \in Nat
  BY <1>2 DEF ValuesHonest, ValuesAge, AgeLimit, Value
<1>5. redis' = [redis EXCEPT ![k] = e]
  BY DEF RedisServes
<1> HIDE DEF k, e
<1>6. /\ UNCHANGED <<cb, enabled, late, pc, req, waited, seen, value>>
      /\ served' = served \cup {c}
  BY DEF RedisServes
<1>7. TypeOK'
  BY <1>1, <1>3, <1>5, <1>6
<1>8. EmptyHanded' /\ Requested' /\ GrantFirst' /\ ValuesHonest'
  BY <1>6 DEF RedisServes, EmptyHanded, Requested, Asking, GrantFirst, Outside, ValuesHonest
<1>9. ValuesAge'
  BY <1>6 DEF ValuesAge, AgeLimit
<1>10. Answers(e.result, k) /\ e.result.age + e.left <= Ttl + SetDelay
  <2>1. e.result.age + e.left <= Ttl + SetDelay
    BY <1>3, <1>4, PipelineAssumption DEF SetDelay
  <2>2. \A r \in Requests : CallKey(r) = k => e.result.of = Trimmed[r]
    BY <1>3, <1>4, OneAnswerPerKey DEF k
  <2>3. QED
    BY <1>2, <1>3, <1>4, <2>1, <2>2 DEF Answers
<1>11. RedisHonest' /\ LateHonest'
  <2>1. RedisHonest'
    BY <1>1, <1>5, <1>10 DEF RedisHonest, Answers
  <2>2. LateHonest'
    BY <1>6 DEF LateHonest, Answers
  <2>3. QED
    BY <2>1, <2>2
<1>12. QED
  BY <1>7, <1>8, <1>9, <1>11

LEMMA GetServed ==
  ASSUME IInv, NEW c \in Calls, RedisServes(c), pc[c] = "get" PROVE IInv'
<1> USE DEF IInv, TypeOK
<1> DEFINE k == CallKey(req[c])
           v == IF redis[k] = None THEN None ELSE redis[k].result
<1>1. k \in Keys
  BY DEF Keys
<1>2. value' = [value EXCEPT ![c] = v]
  BY DEF RedisServes, Holds
<1>3. v # None => /\ v \in Value /\ v.age <= Ttl + SetDelay
                  /\ v.kind = "data" /\ v.granted /\ v.of = Trimmed[req[c]]
  <2>1. SUFFICES ASSUME redis[k] # None
                 PROVE  /\ v \in Value /\ v.age <= Ttl + SetDelay
                        /\ v.kind = "data" /\ v.granted /\ v.of = Trimmed[req[c]]
    OBVIOUS
  <2>2. v = redis[k].result
    BY <2>1
  <2>3. Answers(v, k)
    BY <1>1, <2>1, <2>2 DEF RedisHonest
  <2>4. QED
    BY <1>1, <2>1, <2>2, <2>3, StoredFact DEF Answers
<1> HIDE DEF k, v
<1>4. /\ UNCHANGED <<cb, enabled, late, pc, req, waited, seen, redis>>
      /\ served' = served \cup {c}
  BY DEF RedisServes
<1>5. TypeOK'
  BY <1>2, <1>3, <1>4
<1>6. EmptyHanded' /\ Requested' /\ GrantFirst'
  BY <1>2, <1>4 DEF RedisServes, EmptyHanded, Requested, Asking, GrantFirst, Outside
<1>7. ValuesHonest'
  BY <1>2, <1>3, <1>4 DEF ValuesHonest, GrantFirst, Outside
<1>8. ValuesAge'
  <2>1. v # None => v.age \in Nat
    BY <1>3, PipelineAssumption DEF Value, MaxAge
  <2>2. waited[c] \in Nat
    BY PipelineAssumption
  <2>3. v # None => v.age <= Ttl + SetDelay + waited[c]
    BY <1>3, <2>1, <2>2, PipelineAssumption DEF SetDelay
  <2>4. QED
    BY <1>2, <1>4, <2>3 DEF ValuesAge, AgeLimit
<1>9. RedisHonest' /\ LateHonest'
  BY <1>4 DEF RedisHonest, LateHonest, Answers
<1>10. QED
  BY <1>5, <1>6, <1>7, <1>8, <1>9

\* The end of a request to Redis, with its reply or without: what the call has
\* then, and where it goes.
LEMMA RequestEnds ==
  ASSUME IInv, NEW c \in Calls, Asking(c), NEW v \in {value[c], None},
         NEW stage \in {MissStage(req[c]), "idle"}, HangsUp(c),
         value' = [value EXCEPT ![c] = v], pc' = [pc EXCEPT ![c] = stage],
         stage # "idle" => v = None /\ pc[c] = "get",
         UNCHANGED late \/ Abandons(c),
         cb' \in Breaker, UNCHANGED <<enabled, redis, req, seen>>
  PROVE  IInv'
<1> USE DEF IInv, TypeOK
<1>1. stage \in {"idle", "auth", "run"} /\ (stage = "run" => ~Outside(req[c]))
  BY StagesFact
<1>2. TypeOK' /\ LateHonest'
  <2>1. CASE UNCHANGED late
    <3>1. TypeOK'
      BY <1>1, <2>1, PipelineAssumption DEF HangsUp, Stages
    <3>2. QED
      BY <2>1, <3>1 DEF LateHonest, Answers
  <2>2. CASE ~UNCHANGED late
    <3> DEFINE m == [key |-> CallKey(req[c]), result |-> value[c]]
    <3>1. pc[c] = "set" /\ late' = late \cup {m}
      BY <2>2 DEF Abandons
    <3>2. value[c] # None /\ value[c] \in Value /\ value[c].kind = "data"
      BY <3>1 DEF Requested
    <3>3. m \in [key : Keys, result : Value]
      BY <3>2 DEF Keys
    <3>4. TypeOK'
      BY <1>1, <3>1, <3>3, PipelineAssumption DEF HangsUp, Stages
    <3>5. Answers(m.result, m.key)
      BY <3>2, OneAnswerPerKey DEF ValuesHonest, Answers
    <3>6. m.result.age <= SetDelay
      <4>1. value[c].age <= waited[c] /\ waited[c] \in 0..RedisTimeout
        BY <3>1, <3>2 DEF ValuesAge, AgeLimit
      <4>2. value[c].age \in Nat
        BY <3>2, PipelineAssumption DEF Value, MaxAge
      <4>3. QED
        BY <4>1, <4>2, PipelineAssumption DEF SetDelay
    <3> HIDE DEF m
    <3>7. LateHonest'
      BY <3>1, <3>5, <3>6 DEF LateHonest, Answers
    <3>8. QED
      BY <3>4, <3>7
  <2>3. QED
    BY <2>1, <2>2
<1>3. EmptyHanded'
  BY <1>1 DEF HangsUp, EmptyHanded
<1>4. Requested'
  BY <1>1 DEF HangsUp, Requested, Asking
<1>5. GrantFirst'
  BY <1>1 DEF GrantFirst, Outside
<1>6. ValuesHonest'
  BY DEF ValuesHonest, Outside
<1>7. ValuesAge'
  <2>1. value[c] # None => value[c].age \in Nat /\ value[c].age <= AgeLimit(c)
    BY PipelineAssumption DEF ValuesAge, Value, MaxAge
  <2>2. waited[c] \in 0..RedisTimeout
    OBVIOUS
  <2>3. value[c] # None => value[c].age <= MaxAge
    BY <2>1, <2>2, PipelineAssumption DEF AgeLimit, Asking, MaxAge, SetDelay
  <2>4. v # None => v.age <= MaxAge
    BY <2>3
  <2>5. \A d \in Calls : d # c => waited'[d] = waited[d]
    BY DEF HangsUp
  <2>6. QED
    BY <1>1, <2>4, <2>5 DEF ValuesAge, AgeLimit
<1>8. RedisHonest'
  BY DEF RedisHonest, Answers
<1>9. QED
  BY <1>2, <1>3, <1>4, <1>5, <1>6, <1>7, <1>8

LEMMA RedisAnswersStep ==
  ASSUME IInv, NEW c \in Calls, RedisAnswers(c) PROVE IInv'
<1>1. Asking(c)
  BY DEF RedisAnswers, IInv, Requested
<1>2. cb' \in Breaker
  BY RecordSuccessFact DEF RedisAnswers, IInv, TypeOK
<1>3. value' = [value EXCEPT ![c] = value[c]]
  BY DEF RedisAnswers, IInv, TypeOK
<1>4. PICK stage \in {MissStage(req[c]), "idle"} :
             /\ pc' = [pc EXCEPT ![c] = stage]
             /\ stage # "idle" => value[c] = None
  BY DEF RedisAnswers, Goto
<1>5. value[c] = None => pc[c] = "get"
  BY <1>1 DEF Asking, IInv, Requested
<1>6. HangsUp(c) /\ UNCHANGED late /\ UNCHANGED <<enabled, redis, req, seen>>
  BY DEF RedisAnswers
<1>7. value[c] \in {value[c], None}
  OBVIOUS
<1>8. QED
  BY <1>1, <1>2, <1>3, <1>4, <1>5, <1>6, <1>7, RequestEnds

LEMMA RedisRaisesStep ==
  ASSUME IInv, NEW c \in Calls, RedisRaises(c) PROVE IInv'
<1>1. cb' \in Breaker
  BY RecordFailureFact DEF RedisRaises, IInv, TypeOK
<1>2. CASE pc[c] = "get"
  BY <1>1, <1>2, RequestEnds DEF RedisRaises, Raised, Goto, Holds
<1>3. CASE pc[c] = "set"
  <2>1. value' = [value EXCEPT ![c] = value[c]] /\ pc' = [pc EXCEPT ![c] = "idle"]
    BY <1>3 DEF RedisRaises, Raised, Goto, IInv, TypeOK
  <2>2. Asking(c) /\ HangsUp(c) /\ Abandons(c) /\ UNCHANGED <<enabled, redis, req, seen>>
    BY DEF RedisRaises
  <2>3. value[c] \in {value[c], None} /\ "idle" \in {MissStage(req[c]), "idle"}
    OBVIOUS
  <2>4. QED
    BY <1>1, <2>1, <2>2, <2>3, RequestEnds
<1>4. QED
  BY <1>2, <1>3 DEF RedisRaises, Asking

-----------------------------------------------------------------------------
(* The clock and Redis itself *)

\* A SETEX without a client is carried out, or lost.
LEMMA LateStep ==
  ASSUME IInv, LateServed \/ LateLost PROVE IInv'
<1> USE DEF IInv, TypeOK
<1>1. UNCHANGED <<cb, enabled, pc, req, served, waited, value, seen>>
  BY DEF LateServed, LateLost
<1>2. PICK m \in late : /\ late' = late \ {m}
                       /\ redis' \in {redis, [redis EXCEPT ![m.key] = Entry(m.result)]}
  BY DEF LateServed, LateLost
<1>3. m.key \in Keys /\ m.result \in Value
  OBVIOUS
<1>4. Answers(m.result, m.key) /\ m.result.age <= SetDelay
  BY DEF LateHonest
<1>5. PICK e : e = Entry(m.result)
  OBVIOUS
<1>6. e \in Stored /\ e # None /\ e.result = m.result /\ e.left = Ttl
  BY <1>3, <1>5, EntryFact
<1>7. redis' = redis \/ redis' = [redis EXCEPT ![m.key] = e]
  BY <1>2, <1>5
<1>8. m.result.age + Ttl <= Ttl + SetDelay
  <2>1. m.result.age \in Nat
    BY <1>3, PipelineAssumption DEF Value, MaxAge
  <2>2. QED
    BY <1>4, <2>1, PipelineAssumption DEF SetDelay
<1>9. TypeOK'
  BY <1>1, <1>2, <1>3, <1>6, <1>7
<1>10. RedisHonest'
  BY <1>3, <1>4, <1>6, <1>7, <1>8 DEF RedisHonest, Answers
<1>11. LateHonest'
  BY <1>2 DEF LateHonest, Answers
<1>12. QED
  BY <1>1, <1>9, <1>10, <1>11 DEF EmptyHanded, Requested, Asking, GrantFirst, Outside,
                                 ValuesHonest, ValuesAge, AgeLimit

LEMMA TickStep == ASSUME IInv, Tick PROVE IInv'
<1> USE DEF IInv, TypeOK
<1>1. UNCHANGED <<enabled, pc, req, served, seen>> /\ cb' \in Breaker
  BY ElapseFact DEF Tick
<1>2. waited' \in [Calls -> 0..RedisTimeout]
  BY PipelineAssumption DEF Tick
<1>3. ASSUME NEW c \in Calls
      PROVE  /\ value[c] = None => value'[c] = None
             /\ value[c] # None =>
                  /\ value'[c] \in Value /\ value'[c] # None
                  /\ value'[c].of = value[c].of /\ value'[c].kind = value[c].kind
                  /\ value'[c].granted = value[c].granted
                  /\ value'[c].age <= IF Asking(c) THEN value[c].age + 1 ELSE value[c].age
  <2>1. value'[c] = IF Asking(c) /\ value[c] # None THEN Aged(value[c]) ELSE value[c]
    BY DEF Tick
  <2>2. value[c] # None => value[c] \in Value /\ value[c].age \in Nat
    BY PipelineAssumption DEF Value, MaxAge
  <2>3. QED
    BY <2>1, <2>2, AgedFact
<1>4. value' \in [Calls -> Value \cup {None}]
  <2>1. DOMAIN value' = Calls /\ value' = [c \in Calls |-> value'[c]]
    BY DEF Tick
  <2>2. QED
    BY <1>3, <2>1
<1>5. ASSUME NEW k \in Keys, redis'[k] # None
      PROVE  /\ redis[k] # None /\ redis'[k] \in Stored
             /\ redis'[k].result.of = redis[k].result.of
             /\ redis'[k].result.kind = redis[k].result.kind
             /\ redis'[k].result.granted = redis[k].result.granted
             /\ redis'[k].result.age + redis'[k].left <= redis[k].result.age + redis[k].left
  <2>1. redis[k] # None /\ redis[k].left # 0
        /\ redis'[k] = [result |-> Aged(redis[k].result), left |-> redis[k].left - 1]
    BY <1>5 DEF Tick
  <2>2. redis[k].result \in Value /\ redis[k].left \in 1..Ttl
    BY <2>1, StoredFact, PipelineAssumption
  <2>3. redis'[k].result = Aged(redis[k].result) /\ redis'[k].left = redis[k].left - 1
    BY <2>1
  <2>4. redis'[k] \in Stored
    BY <2>1, <2>2, AgedFact, PipelineAssumption DEF Stored
  <2>5. redis[k].result.age \in Nat /\ Aged(redis[k].result).age \in Nat
    BY <2>2, AgedFact, PipelineAssumption DEF Value, MaxAge
  <2>6. QED
    BY <2>1, <2>2, <2>3, <2>4, <2>5, AgedFact, PipelineAssumption
<1>6. redis' \in [Keys -> Stored \cup {None}]
  <2>1. redis' = [k \in Keys |-> redis'[k]]
    BY DEF Tick
  <2>2. QED
    BY <1>5, <2>1
<1>7. EmptyHanded' /\ Requested' /\ GrantFirst'
  BY <1>1, <1>3 DEF EmptyHanded, Requested, Asking, GrantFirst, Outside
<1>8. ValuesHonest'
  BY <1>1, <1>3 DEF ValuesHonest, Outside
<1>9. ValuesAge'
  <2> SUFFICES ASSUME NEW c \in Calls, value'[c] # None
               PROVE  value'[c].age <= AgeLimit(c)'
    BY DEF ValuesAge
  <2>1. value[c] # None /\ value[c].age <= AgeLimit(c)
    BY <1>3 DEF ValuesAge
  <2>2. value[c].age \in Nat /\ value'[c].age \in Nat
    BY <1>3, <2>1, PipelineAssumption DEF Value, MaxAge
  <2>3. waited'[c] = IF Asking(c) THEN waited[c] + 1 ELSE 0
    BY DEF Tick
  <2>4. waited[c] \in Nat
    BY PipelineAssumption
  <2>5. CASE Asking(c)
    BY <1>1, <1>3, <2>1, <2>2, <2>3, <2>4, <2>5, PipelineAssumption DEF AgeLimit, Asking, SetDelay
  <2>6. CASE ~Asking(c)
    BY <1>1, <1>3, <2>1, <2>2, <2>6, PipelineAssumption DEF AgeLimit, Asking, MaxAge, SetDelay
  <2>7. QED
    BY <2>5, <2>6
<1>10. RedisHonest'
  <2> SUFFICES ASSUME NEW k \in Keys, redis'[k] # None
               PROVE  /\ Answers(redis'[k].result, k)
                      /\ redis'[k].result.age + redis'[k].left <= Ttl + SetDelay
    BY DEF RedisHonest, Answers
  <2>1. redis'[k] \in Stored /\ redis[k] \in Stored
    BY <1>5
  <2>2. /\ redis'[k].result.age \in Nat /\ redis'[k].left \in Nat
        /\ redis[k].result.age \in Nat /\ redis[k].left \in Nat
    BY <2>1, PipelineAssumption DEF Stored, Value, MaxAge
  <2>3. Answers(redis'[k].result, k)
    BY <1>5 DEF RedisHonest, Answers
  <2>4. redis[k].result.age + redis[k].left <= Ttl + SetDelay
    BY <1>5 DEF RedisHonest
  <2>5. QED
    BY <1>5, <2>2, <2>3, <2>4, PipelineAssumption DEF SetDelay
<1>11. late' \subseteq [key : Keys, result : Value] /\ LateHonest'
  <2>1. ASSUME NEW n \in late'
        PROVE  /\ n \in [key : Keys, result : Value]
               /\ Answers(n.result, n.key) /\ n.result.age <= SetDelay
    <3>1. PICK m \in late : n = [m EXCEPT !.result = Aged(@)]
      BY DEF Tick
    <3>2. m \in [key : Keys, result : Value] /\ Answers(m.result, m.key)
      BY DEF LateHonest
    <3>3. n.key = m.key /\ n.result = Aged(m.result)
      BY <3>1, <3>2
    <3>4. m.result.age < SetDelay
      BY DEF Tick, SetDelay
    <3>5. m.result.age \in Nat /\ Aged(m.result).age \in Nat
      BY <3>2, AgedFact, PipelineAssumption DEF Value, MaxAge
    <3>6. n \in [key : Keys, result : Value]
      BY <3>1, <3>2, AgedFact
    <3>7. Answers(n.result, n.key)
      BY <3>2, <3>3, AgedFact DEF Answers
    <3>8. n.result.age <= SetDelay
      BY <3>2, <3>3, <3>4, <3>5, AgedFact, PipelineAssumption DEF SetDelay
    <3>9. QED
      BY <3>6, <3>7, <3>8
  <2>2. QED
    BY <2>1 DEF LateHonest, Answers
<1>12. QED
  BY <1>1, <1>2, <1>4, <1>6, <1>7, <1>8, <1>9, <1>10, <1>11

LEMMA NextIInv == IInv /\ [Next]_vars => IInv'
<1> SUFFICES ASSUME IInv, [Next]_vars PROVE IInv'
  OBVIOUS
<1>1. ASSUME NEW c \in Calls, RedisServes(c) PROVE IInv'
  BY <1>1, SetServed, GetServed DEF RedisServes, Asking
<1>2. CASE RedisRestarts
  <2>1. UNCHANGED <<cb, enabled, late, pc, req, served, waited, value, seen>>
    BY <1>2 DEF RedisRestarts
  <2>2. redis' = [k \in Keys |-> None]
    BY <1>2 DEF RedisRestarts
  <2>3. TypeOK' /\ RedisHonest' /\ LateHonest'
    BY <2>1, <2>2 DEF IInv, TypeOK, RedisHonest, LateHonest, Answers
  <2>4. QED
    BY <2>1, <2>3 DEF IInv, EmptyHanded, Requested, Asking, GrantFirst, Outside, ValuesHonest,
                      ValuesAge, AgeLimit
<1>3. CASE UNCHANGED vars
  BY <1>3 DEF vars, IInv, TypeOK, EmptyHanded, Requested, Asking, GrantFirst, Outside,
              ValuesHonest, ValuesAge, AgeLimit, RedisHonest, LateHonest, Answers
<1>4. QED
  BY <1>1, <1>2, <1>3, InvokeStep, RefusedStep, GrantedStep, ToolEndsStep, RedisAnswersStep,
     RedisRaisesStep, LateStep, TickStep DEF Next, CacheStep

LEMMA Invariance == Spec => []IInv
BY InitIInv, NextIInv, PTL DEF Spec

-----------------------------------------------------------------------------

\* Calls, the cache and Redis are always well-formed.
THEOREM PipelineTypes == Spec => []TypeOK
<1>1. IInv => TypeOK
  BY DEF IInv
<1>2. QED
  BY Invariance, <1>1, PTL

\* authorized_tool and cached_tool together never return the answer to another
\* request or an ungranted run's.
THEOREM ResultsAreAuthorized == Spec => []ResultsAuthorized
<1>1. IInv => ResultsAuthorized
  BY DEF IInv, ValuesHonest, ResultsAuthorized, Returned
<1>2. QED
  BY Invariance, <1>1, PTL

\* No error is ever served from the cache or made by it.
THEOREM ErrorsAreTheCallsOwn == Spec => []ErrorsHaveCause
<1>1. IInv => ErrorsHaveCause
  BY DEF IInv, ValuesHonest, ErrorsHaveCause, Returned
<1>2. QED
  BY Invariance, <1>1, PTL

\* No result outlives the TTL, the two requests to Redis and the delay of a SETEX
\* whose client has given up.
THEOREM ResultsAreFresh == Spec => []StaleBounded
<1>1. IInv => StaleBounded
  BY DEF IInv, ValuesAge, AgeLimit, StaleBounded, Returned
<1>2. QED
  BY Invariance, <1>1, PTL

=============================================================================
