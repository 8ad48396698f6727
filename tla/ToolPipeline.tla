----------------------------- MODULE ToolPipeline -----------------------------
(***************************************************************************)
(* platform_sdk/authorized_tool.py, cache.py: a tool of an MCP server with *)
(* the decorators authorized_tool and cached_tool around it, in either     *)
(* order, over one ToolResultCache that the calls share.                   *)
(*                                                                         *)
(* A call is a task of the event loop; it awaits the policy (the model of  *)
(* OpaClient says how that ends), the tool and two requests to Redis.  A   *)
(* request is served at Redis before its reply arrives, so one that fails  *)
(* at the client may have been carried out, and a SETEX may be carried out *)
(* when its client has long given up.                                      *)
(*                                                                         *)
(* A result is its kind, the request it answers, its age since the tool    *)
(* produced it and whether that run of the tool was granted.               *)
(***************************************************************************)
EXTENDS CircuitBreaker, FiniteSets

CONSTANTS
  Calls,          \* tasks that call tools
  Requests,       \* what they call: a tool and its keyword arguments
  Trimmed,        \* the request with its required input stripped and cut
  CacheOutside,   \* the tools with cached_tool around authorized_tool
  Ttl,            \* _ttl, in units of the clock
  RedisTimeout,   \* socket_timeout, in units of the clock
  RedisDelay,     \* how long a SETEX may outlive its client's patience
  MaxLate,        \* bound: commands without a client at one time
  None

ASSUME PipelineAssumption ==
  /\ Ttl \in Nat \ {0}
  /\ RedisTimeout \in Nat /\ RedisDelay \in Nat
  /\ Trimmed \in [Requests -> Requests]
  /\ \A r \in Requests :
       /\ r = [tool |-> r.tool, kwargs |-> r.kwargs]
       /\ r.kwargs = [a \in DOMAIN r.kwargs |-> r.kwargs[a]]
       /\ "fn" \notin DOMAIN r.kwargs
       /\ Trimmed[r].tool = r.tool

VARIABLES
  cb,         \* ToolResultCache._cb
  enabled,    \* there is a cache: not None, and its _redis is not None
  redis,      \* environment: what Redis holds
  late,       \* environment: SETEX commands on their way whose client gave up
  pc,         \* what each call awaits
  req,        \* what it was called with
  served,     \* the calls whose request Redis has carried out
  waited,     \* how long its request to Redis is under way
  value,      \* the result it has in hand, is sent by Redis, or returned
  seen        \* history: what happened to it: granted, refused, ran

vars == <<cb, enabled, redis, late, pc, req, served, waited, value, seen>>

MaxAge == Ttl + 2 * RedisTimeout + RedisDelay

-----------------------------------------------------------------------------
(* Errors, keys and the construction of the cache *)

\* An error (make_error's JSON, or the "ERROR:" prefix), and every ToolResponse:
\* its JSON has the key "error" also when the tool succeeded.
IsErrorResponse(kind) == kind \in {"error", "envelope"}

\* Slip: the name of the function is left out.
CacheKeyOfArguments(r) == r.kwargs

\* {"fn": fn_name, **kwargs}: an argument named fn would replace the name.
CacheKey(r) == [a \in DOMAIN r.kwargs \cup {"fn"} |->
                  IF a \in DOMAIN r.kwargs THEN r.kwargs[a] ELSE r.tool]

\* from_config and from_env: None without a host or without the library.
CacheBuilt(host, library) == host /\ library

\* The key of a call: inside authorized_tool the wrapper of cached_tool is given
\* the trimmed arguments, outside of it those of the caller.
Outside(r) == r.tool \in CacheOutside
CallKey(r) == CacheKey(IF Outside(r) THEN r ELSE Trimmed[r])

Keys   == {CallKey(r) : r \in Requests}
Kinds  == {"data", "envelope", "error"}
Value  == [kind : Kinds, of : Requests, age : 0..MaxAge + 1, granted : BOOLEAN]
Stored == [result : Value, left : 0..Ttl]
Stages == {"idle", "get", "auth", "run", "set"}

ASSUME NoneAssumption == None \notin Value \cup Stored

Init ==
  /\ cb = ClosedBreaker
  /\ \E host, library \in BOOLEAN : enabled = CacheBuilt(host, library)
  /\ redis = [k \in Keys |-> None]
  /\ late = {}
  /\ pc = [c \in Calls |-> "idle"]
  /\ req \in [Calls -> Requests]
  /\ served = {}
  /\ waited = [c \in Calls |-> 0]
  /\ value = [c \in Calls |-> None]
  /\ seen = [c \in Calls |-> {}]

-----------------------------------------------------------------------------
(* The stages of a call *)

\* self._redis is None or self._cb.is_open; or the cache itself is None.
Bypassed == ~enabled \/ IsOpen(cb)

\* What follows a cache that has no value, what a look at the cache leads to,
\* what follows a grant, and what a call starts with.
MissStage(r)  == IF Outside(r) THEN "auth" ELSE "run"
CacheStage(r) == IF Bypassed THEN MissStage(r) ELSE "get"
GrantStage(r) == IF Outside(r) THEN "run" ELSE CacheStage(r)
FirstStage(r) == IF Outside(r) THEN CacheStage(r) ELSE "auth"

Asking(c) == pc[c] \in {"get", "set"}

Goto(c, stage) == pc' = [pc EXCEPT ![c] = stage]

Holds(c, v) == value' = [value EXCEPT ![c] = v]

\* The tool, like the policy, is given the trimmed arguments in either order.
NewValue(c, kind, granted) ==
  [kind |-> kind, of |-> Trimmed[req[c]], age |-> 0, granted |-> granted]

\* The request to Redis is over.
HangsUp(c) ==
  /\ served' = served \ {c}
  /\ waited' = [waited EXCEPT ![c] = 0]

Invoke(c, r) ==
  /\ pc[c] = "idle"
  /\ req' = [req EXCEPT ![c] = r]
  /\ Goto(c, FirstStage(r))
  /\ Holds(c, None)
  /\ seen' = [seen EXCEPT ![c] = {}]
  /\ UNCHANGED <<cb, enabled, redis, late, served, waited>>

\* No OPA client yet, an empty required input, or a denial.
Refused(c) ==
  /\ pc[c] = "auth"
  /\ Holds(c, NewValue(c, "error", FALSE))
  /\ Goto(c, "idle")
  /\ seen' = [seen EXCEPT ![c] = @ \cup {"refused"}]
  /\ UNCHANGED <<cb, enabled, redis, late, req, served, waited>>

Granted(c) ==
  /\ pc[c] = "auth"
  /\ Goto(c, GrantStage(req[c]))
  /\ seen' = [seen EXCEPT ![c] = @ \cup {"granted"}]
  /\ UNCHANGED <<cb, enabled, redis, late, req, served, waited, value>>

\* The tool ends, or raises (kind "error"): what is no error is stored.
ToolEnds(c, kind) ==
  /\ pc[c] = "run"
  /\ Holds(c, NewValue(c, kind, "granted" \in seen[c]))
  /\ Goto(c, IF IsErrorResponse(kind) \/ Bypassed THEN "idle" ELSE "set")
  /\ seen' = [seen EXCEPT ![c] = @ \cup {"ran"}]
  /\ UNCHANGED <<cb, enabled, redis, late, req, served, waited>>

-----------------------------------------------------------------------------
(* ToolResultCache.get and set *)

\* Slip: a result is kept for twice its time.
EntryKeptTwice(v) == [result |-> v, left |-> 2 * Ttl]

\* What the command SETEX leaves under the key.
Entry(v) == [result |-> v, left |-> Ttl]

\* Redis carries out the GET or the SETEX.  It may be down: nothing obliges it to.
RedisServes(c) ==
  /\ Asking(c) /\ c \notin served
  /\ served' = served \cup {c}
  /\ LET k == CallKey(req[c]) IN
       IF pc[c] = "set"
         THEN redis' = [redis EXCEPT ![k] = Entry(value[c])] /\ UNCHANGED value
         ELSE /\ Holds(c, IF redis[k] = None THEN None ELSE redis[k].result)
              /\ UNCHANGED redis
  /\ UNCHANGED <<cb, enabled, late, pc, req, waited, seen>>

\* The reply arrives: get() returns the value or None, set() returns.
RedisAnswers(c) ==
  /\ c \in served
  /\ cb' = RecordSuccess(cb)
  /\ Goto(c, IF value[c] = None THEN MissStage(req[c]) ELSE "idle")
  /\ HangsUp(c)
  /\ UNCHANGED <<enabled, redis, late, req, value, seen>>

\* Slip: an error of Redis is an error of the call.
RaisedAsError(c) == IF pc[c] = "get" THEN Goto(c, "idle") /\ Holds(c, NewValue(c, "error", FALSE))
                                     ELSE Goto(c, "idle") /\ UNCHANGED value

\* The exception is swallowed: get() answers None, set() returns.
Raised(c) == IF pc[c] = "get" THEN Goto(c, MissStage(req[c])) /\ Holds(c, None)
                              ELSE Goto(c, "idle") /\ UNCHANGED value

\* A SETEX that Redis has not carried out when its client gives up is lost, or
\* it is still on its way.
Abandons(c) ==
  \/ UNCHANGED late
  \/ /\ pc[c] = "set" /\ c \notin served
     /\ Cardinality(late) < MaxLate
     /\ late' = late \cup {[key |-> CallKey(req[c]), result |-> value[c]]}

\* The request raises: no connection, a lost reply or the socket timeout.
RedisRaises(c) ==
  /\ Asking(c)
  /\ Abandons(c)
  /\ cb' = RecordFailure(cb)
  /\ Raised(c)
  /\ HangsUp(c)
  /\ UNCHANGED <<enabled, redis, req, seen>>

-----------------------------------------------------------------------------
(* Environment *)

\* Redis carries out a command whose client has given up, with a fresh TTL; or
\* the command is lost.
LateServed ==
  /\ \E m \in late :
       /\ redis' = [redis EXCEPT ![m.key] = Entry(m.result)]
       /\ late' = late \ {m}
  /\ UNCHANGED <<cb, enabled, pc, req, served, waited, value, seen>>

LateLost ==
  /\ \E m \in late : late' = late \ {m}
  /\ UNCHANGED <<cb, enabled, redis, pc, req, served, waited, value, seen>>

Aged(v) == [v EXCEPT !.age = IF @ <= MaxAge THEN @ + 1 ELSE @]

\* A unit of time passes: results grow older, entries expire, no request to
\* Redis outlasts the socket timeout and no command without a client its delay.
Tick ==
  /\ \A c \in Calls : Asking(c) => waited[c] < RedisTimeout
  /\ \A m \in late : m.result.age < RedisTimeout + RedisDelay
  /\ late' = {[m EXCEPT !.result = Aged(@)] : m \in late}
  /\ cb' = Elapse(cb)
  /\ waited' = [c \in Calls |-> IF Asking(c) THEN waited[c] + 1 ELSE 0]
  /\ value' = [c \in Calls |-> IF Asking(c) /\ value[c] # None THEN Aged(value[c]) ELSE value[c]]
  /\ redis' = [k \in Keys |->
                 IF redis[k] = None \/ redis[k].left = 0 THEN None
                   ELSE [result |-> Aged(redis[k].result), left |-> redis[k].left - 1]]
  /\ UNCHANGED <<enabled, pc, req, served, seen>>

\* Redis is restarted without its data.
RedisRestarts ==
  /\ redis' = [k \in Keys |-> None]
  /\ UNCHANGED <<cb, enabled, late, pc, req, served, waited, value, seen>>

CacheStep(c) == RedisAnswers(c) \/ RedisRaises(c)

Next ==
  \/ \E c \in Calls, r \in Requests : Invoke(c, r)
  \/ \E c \in Calls : Refused(c) \/ Granted(c)
  \/ \E c \in Calls, kind \in Kinds : ToolEnds(c, kind)
  \/ \E c \in Calls : RedisServes(c) \/ CacheStep(c)
  \/ LateServed \/ LateLost
  \/ Tick
  \/ RedisRestarts

Spec == Init /\ [][Next]_vars

-----------------------------------------------------------------------------

TypeOK ==
  /\ cb \in Breaker
  /\ enabled \in BOOLEAN
  /\ redis \in [Keys -> Stored \cup {None}]
  /\ late \subseteq [key : Keys, result : Value]
  /\ pc \in [Calls -> Stages]
  /\ req \in [Calls -> Requests]
  /\ served \subseteq Calls
  /\ waited \in [Calls -> 0..RedisTimeout]
  /\ value \in [Calls -> Value \cup {None}]
  /\ seen \in [Calls -> SUBSET {"granted", "refused", "ran"}]

Returned(c) == pc[c] = "idle" /\ value[c] # None

\* authorized_tool and cached_tool together: what a call returns answers its
\* own request, trimmed as the policy and the tool are given it, was produced by
\* a granted run of the tool, and when the authorization is the outer decorator
\* this very call was granted.
ResultsAuthorized ==
  \A c \in Calls : Returned(c) =>
    /\ value[c].of = Trimmed[req[c]]
    /\ value[c].kind # "error" => value[c].granted
    /\ value[c].kind # "error" /\ ~Outside(req[c]) => "granted" \in seen[c]

\* cached_tool: an error (or an envelope, which may hold one) is never served from
\* the cache and never due to it: the call was refused or ran the tool itself.
ErrorsHaveCause ==
  \A c \in Calls : Returned(c) /\ value[c].kind # "data" =>
    "refused" \in seen[c] \/ "ran" \in seen[c]

\* ToolResultCache: no call returns a result older than the TTL, the two requests
\* to Redis and the time for which Redis can still be sent a SETEX on which the
\* client has given up, however calls with one key overlap.  The code limits all
\* of them but the last.
StaleBounded == \A c \in Calls : Returned(c) => value[c].age <= MaxAge

=============================================================================
