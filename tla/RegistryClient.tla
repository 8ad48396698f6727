--------------------------- MODULE RegistryClient ---------------------------
(***************************************************************************)
(* platform_sdk/registry/client.py, class RegistryClient, the reading      *)
(* side: lookup() with its cache, circuit breaker and fall-back to stale   *)
(* entries, and the background task that refreshes the whole cache.  All   *)
(* run on one event loop and give it up only at an HTTP request or a       *)
(* sleep; a lookup holds the cache entry it read before its request.       *)
(*                                                                         *)
(* The registry is external.  A request is answered from the registry's    *)
(* contents at one moment and the answer travels for a while, so answers   *)
(* to two requests may arrive in either order.  The HTTP client gives up   *)
(* after RequestTimeout.                                                   *)
(*                                                                         *)
(* time.monotonic() is only ever subtracted from, so the state keeps ages  *)
(* instead of stamps, saturated where no comparison can tell them apart.   *)
(***************************************************************************)
EXTENDS CircuitBreaker

CONSTANTS
  Names,           \* services
  Versions,        \* what the registry may say of a service
  Lookups,         \* tasks that call lookup()
  Refresh,         \* refresh_seconds
  StaleMax,        \* stale_cache_max_seconds
  RequestTimeout,  \* the timeout of the HTTP client
  NoEntry,         \* a name that is not in the cache
  Gone,            \* the registry's 404
  Garbled          \* a 200 whose body does not validate

ASSUME RegistryAssumption ==
  /\ Refresh \in Nat \ {0} /\ StaleMax \in Nat /\ RequestTimeout \in Nat
  /\ Refresh <= StaleMax      \* the defaults are 30 and 300 seconds
  /\ NoEntry \notin [value : Versions, age : Nat, dataAge : Nat]
  /\ Gone \notin Versions /\ Garbled \notin Versions /\ Gone # Garbled

VARIABLES
  cb,        \* self._cb
  cache,     \* self._cache
  at,        \* where each lookup is
  asked,     \* the name it looks up
  snapshot,  \* its local variable cached
  waited,    \* how long its request has been out
  answer,    \* the answer travelling back to it
  result,    \* how its latest lookup() ended
  task,      \* where the refresh task is
  left,      \* what is left of its sleep
  taskWait,  \* how long its request has been out
  listing,   \* the answer travelling back to it
  registry,  \* environment: the registry's contents
  health     \* environment: "up", "down", or "incompatible" bodies

lookupVars  == <<at, asked, snapshot, waited, answer, result>>
refreshVars == <<task, left, taskWait, listing>>
envVars     == <<registry, health>>
vars == <<cb, cache, lookupVars, refreshVars, envVars>>

-----------------------------------------------------------------------------
(* Cache entries: value, age (time since fetched_at) and, as history,      *)
(* dataAge (time since the registry produced the value).                   *)

MaxDataAge == StaleMax + RequestTimeout

Entry  == [value : Versions, age : 0..StaleMax, dataAge : 0..MaxDataAge]
Cached == Entry \cup {NoEntry}

Answer == [value : Versions \cup {Gone, Garbled}, dataAge : 0..RequestTimeout]

NewEntry(v, d) == [value |-> v, age |-> 0, dataAge |-> d]

\* Slips: an entry counts as fresh as long as it is usable, and as usable
\* whatever its age.
FreshWhileUsable(e) == e # NoEntry /\ e.age < StaleMax
UsableForever(e) == e # NoEntry

Fresh(e)  == e # NoEntry /\ e.age < Refresh
Usable(e) == e # NoEntry /\ e.age < StaleMax

UpTo(n, max) == IF n < max THEN n + 1 ELSE n

Older(e) ==
  IF e = NoEntry THEN NoEntry
  ELSE [e EXCEPT !.age = UpTo(e.age, StaleMax), !.dataAge = UpTo(e.dataAge, MaxDataAge)]

\* How a lookup ends: it returns a value (of some age), or raises
\* ServiceNotFound or pydantic's ValidationError.
Found(e) == [kind |-> "found", value |-> e.value, dataAge |-> e.dataAge]
NotFound == [kind |-> "not_found", value |-> Gone, dataAge |-> 0]
Invalid  == [kind |-> "invalid", value |-> Garbled, dataAge |-> 0]
Pending  == [kind |-> "pending", value |-> Gone, dataAge |-> 0]

StaleOrRaise(e) == IF Usable(e) THEN Found(e) ELSE NotFound

Blank == [value |-> Gone, dataAge |-> 0]
NoListing == [names |-> [n \in Names |-> Gone], dataAge |-> 0]

Init ==
  /\ cb = ClosedBreaker
  /\ cache = [n \in Names |-> NoEntry]
  /\ at = [i \in Lookups |-> "idle"]
  /\ asked \in [Lookups -> Names]
  /\ snapshot = [i \in Lookups |-> NoEntry]
  /\ waited = [i \in Lookups |-> 0]
  /\ answer = [i \in Lookups |-> Blank]
  /\ result = [i \in Lookups |-> Pending]
  /\ task = "off" /\ left = 0 /\ taskWait = 0 /\ listing = NoListing
  /\ registry \in [Names -> Versions \cup {Gone}]
  /\ health \in {"up", "down"}

-----------------------------------------------------------------------------
(* lookup *)

\* The lookup is over and its locals are gone.
Ends(i, outcome) ==
  /\ at' = [at EXCEPT ![i] = "idle"]
  /\ result' = [result EXCEPT ![i] = outcome]
  /\ snapshot' = [snapshot EXCEPT ![i] = NoEntry]
  /\ waited' = [waited EXCEPT ![i] = 0]
  /\ answer' = [answer EXCEPT ![i] = Blank]
  /\ UNCHANGED <<refreshVars, envVars>>

\* lookup(n) answered without a request: from a fresh entry, or because the
\* breaker is open.
LookupAtOnce(i, n) ==
  /\ at[i] = "idle"
  /\ Fresh(cache[n]) \/ IsOpen(cb)
  /\ asked' = [asked EXCEPT ![i] = n]
  /\ Ends(i, IF Fresh(cache[n]) THEN Found(cache[n]) ELSE StaleOrRaise(cache[n]))
  /\ UNCHANGED <<cb, cache>>

\* lookup(n) up to its request.
LookupAsks(i, n) ==
  /\ at[i] = "idle"
  /\ ~Fresh(cache[n]) /\ ~IsOpen(cb)
  /\ at' = [at EXCEPT ![i] = "asking"]
  /\ asked' = [asked EXCEPT ![i] = n]
  /\ snapshot' = [snapshot EXCEPT ![i] = cache[n]]
  /\ result' = [result EXCEPT ![i] = Pending]
  /\ UNCHANGED <<cb, cache, waited, answer, refreshVars, envVars>>

\* A 200 that validates: success is recorded and the entry cached, stamped with
\* the time of its arrival.
LookupFound(i) ==
  /\ at[i] = "answered"
  /\ answer[i].value \in Versions
  /\ LET e == NewEntry(answer[i].value, answer[i].dataAge)
     IN  /\ cache' = [cache EXCEPT ![asked[i]] = e]
         /\ Ends(i, Found(e))
  /\ cb' = RecordSuccess(cb)
  /\ UNCHANGED asked

\* A 404 or a body that does not validate: raised past the except clause, so
\* neither the breaker nor the cache hears of it.
LookupRejected(i) ==
  /\ at[i] = "answered"
  /\ answer[i].value \notin Versions
  /\ Ends(i, IF answer[i].value = Gone THEN NotFound ELSE Invalid)
  /\ UNCHANGED <<cb, cache, asked>>

\* Slip: a failed request is repeated instead.
LookupRepeats(i) ==
  /\ at[i] \in {"asking", "answered"}
  /\ health = "down"
  /\ cb' = RecordFailure(cb)
  /\ at' = [at EXCEPT ![i] = "asking"]
  /\ UNCHANGED <<cache, asked, snapshot, waited, answer, result, refreshVars, envVars>>

\* RequestError, a 5xx or another 4xx: recorded, then the entry read before the
\* request decides, at its present age.
LookupFails(i) ==
  /\ at[i] \in {"asking", "answered"}
  /\ health = "down"
  /\ cb' = RecordFailure(cb)
  /\ Ends(i, StaleOrRaise(snapshot[i]))
  /\ UNCHANGED <<cache, asked>>

LookupStarts(i) == \E n \in Names : LookupAtOnce(i, n) \/ LookupAsks(i, n)
LookupEnds(i)   == LookupFound(i) \/ LookupRejected(i) \/ LookupFails(i)

-----------------------------------------------------------------------------
(* The refresh task *)

Sleep == task' = "sleeping" /\ left' = Refresh /\ taskWait' = 0 /\ listing' = NoListing

\* start_refresh(): idempotent while the task exists.
StartRefresh ==
  /\ task = "off"
  /\ Sleep
  /\ UNCHANGED <<cb, cache, lookupVars, envVars>>

\* stop_refresh(): the task is cancelled where it stands.
StopRefresh ==
  /\ task # "off"
  /\ task' = "off" /\ left' = 0 /\ taskWait' = 0 /\ listing' = NoListing
  /\ UNCHANGED <<cb, cache, lookupVars, envVars>>

RefreshAsks ==
  /\ task = "sleeping"
  /\ left = 0
  /\ task' = "asking"
  /\ UNCHANGED <<cb, cache, lookupVars, left, taskWait, listing, envVars>>

\* Slips: the entries are not validated; only missing names are filled in.
ValidatesAnything(n) == listing.names[n] # Gone
ValidatesMissing(n) == listing.names[n] \in Versions /\ cache[n] = NoEntry

\* RegistryEntry.model_validate(raw) succeeds.
Validates(n) == listing.names[n] \in Versions

\* The entries of the body replace those in the cache, one by one, up to the
\* first that does not validate; names the body lacks keep their entry.
RefreshStores ==
  /\ task = "answered"
  /\ LET valid == {n \in Names : Validates(n)}
         whole == \A n \in Names : listing.names[n] # Garbled
     IN \E stored \in SUBSET valid :
          /\ whole => stored = valid
          /\ cache' = [n \in Names |-> IF n \in stored
                                         THEN NewEntry(listing.names[n], listing.dataAge)
                                         ELSE cache[n]]
  /\ Sleep
  /\ UNCHANGED <<cb, lookupVars, envVars>>

\* A failed request or another status: nothing happens, the breaker included.
RefreshFails ==
  /\ task \in {"asking", "answered"}
  /\ health = "down"
  /\ Sleep
  /\ UNCHANGED <<cb, cache, lookupVars, envVars>>

-----------------------------------------------------------------------------
(* The registry and the clock *)

\* The registry answers a lookup from its contents of this moment.
ServesLookup(i) ==
  /\ at[i] = "asking"
  /\ health # "down"
  /\ at' = [at EXCEPT ![i] = "answered"]
  /\ \E v \in {registry[asked[i]]} \cup (IF health = "incompatible" THEN {Garbled} ELSE {}) :
       answer' = [answer EXCEPT ![i] = [value |-> v, dataAge |-> 0]]
  /\ UNCHANGED <<cb, cache, asked, snapshot, waited, result, refreshVars, envVars>>

\* It answers the listing; an incompatible body garbles any of its entries.
ServesListing ==
  /\ task = "asking"
  /\ health # "down"
  /\ task' = "answered"
  /\ \E bad \in SUBSET Names :
       /\ health = "up" => bad = {}
       /\ listing' = [names |-> [n \in Names |->
                        IF n \in bad /\ registry[n] # Gone THEN Garbled ELSE registry[n]],
                      dataAge |-> 0]
  /\ UNCHANGED <<cb, cache, lookupVars, left, taskWait, envVars>>

\* Services register, change and deregister.
RegistryChanges ==
  /\ \E n \in Names, v \in Versions \cup {Gone} : registry' = [registry EXCEPT ![n] = v]
  /\ UNCHANGED <<cb, cache, lookupVars, refreshVars, health>>

HealthChanges ==
  /\ health' \in {"up", "down", "incompatible"} \ {health}
  /\ UNCHANGED <<cb, cache, lookupVars, refreshVars, registry>>

Out == {"asking", "answered"}

\* A unit of time.  No request is out for longer than its timeout.
Tick ==
  /\ \A i \in Lookups : at[i] \in Out => waited[i] < RequestTimeout
  /\ task \in Out => taskWait < RequestTimeout
  /\ cb' = Elapse(cb)
  /\ cache' = [n \in Names |-> Older(cache[n])]
  /\ snapshot' = [i \in Lookups |-> Older(snapshot[i])]
  /\ waited' = [i \in Lookups |-> IF at[i] \in Out THEN waited[i] + 1 ELSE waited[i]]
  /\ answer' = [i \in Lookups |-> IF at[i] = "answered"
                  THEN [answer[i] EXCEPT !.dataAge = answer[i].dataAge + 1]
                  ELSE answer[i]]
  /\ left' = IF task = "sleeping" /\ left > 0 THEN left - 1 ELSE left
  /\ taskWait' = IF task \in Out THEN taskWait + 1 ELSE taskWait
  /\ listing' = IF task = "answered"
                  THEN [listing EXCEPT !.dataAge = listing.dataAge + 1]
                  ELSE listing
  /\ UNCHANGED <<at, asked, result, task, envVars>>

Next ==
  \/ \E i \in Lookups : LookupStarts(i) \/ LookupEnds(i) \/ ServesLookup(i)
  \/ StartRefresh
  \/ StopRefresh
  \/ RefreshAsks
  \/ RefreshStores
  \/ RefreshFails
  \/ ServesListing
  \/ RegistryChanges
  \/ HealthChanges
  \/ Tick

Spec == Init /\ [][Next]_vars

\* Time passes, a registry that is not down answers before the timeout, the
\* event loop delivers what arrived and reports what failed.
Fairness ==
  /\ WF_vars(Tick)
  /\ \A i \in Lookups : WF_vars(LookupEnds(i) \/ ServesLookup(i))
  /\ WF_vars(RefreshAsks)
  /\ WF_vars(ServesListing \/ RefreshStores \/ RefreshFails)

FairSpec == Spec /\ Fairness

=============================================================================
