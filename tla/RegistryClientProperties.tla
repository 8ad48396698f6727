---------------------- MODULE RegistryClientProperties ----------------------
(***************************************************************************)
(* What a caller of lookup() may rely on, and what the documentation adds. *)
(***************************************************************************)
EXTENDS RegistryClient

Outcome == [kind : {"found", "not_found", "invalid", "pending"},
            value : Versions \cup {Gone, Garbled}, dataAge : 0..MaxDataAge]

TypeOK ==
  /\ cb \in Breaker
  /\ cache \in [Names -> Cached]
  /\ at \in [Lookups -> Out \cup {"idle"}]
  /\ asked \in [Lookups -> Names]
  /\ snapshot \in [Lookups -> Cached]
  /\ waited \in [Lookups -> 0..RequestTimeout]
  /\ answer \in [Lookups -> Answer]
  /\ result \in [Lookups -> Outcome]
  /\ task \in Out \cup {"off", "sleeping"}
  /\ left \in 0..Refresh
  /\ taskWait \in 0..RequestTimeout
  /\ listing \in [names : [Names -> Versions \cup {Gone, Garbled}], dataAge : 0..RequestTimeout]
  /\ registry \in [Names -> Versions \cup {Gone}]
  /\ health \in {"up", "down", "incompatible"}

\* Whatever the outage, the order of the answers and the races with the refresh
\* task, lookup() never returns what the registry said longer ago than
\* stale_cache_max_seconds plus the time one answer may travel.
BoundedStaleness ==
  \A i \in Lookups : result[i].kind = "found" => result[i].dataAge < MaxDataAge

\* lookup() falls back on an entry past its refresh time only in an outage it
\* has noticed: at that moment the breaker has a failure on record.
StaleOnlyInOutage ==
  [][\A i \in Lookups :
       result'[i] # result[i] /\ result'[i].kind = "found"
         /\ result'[i].dataAge >= Refresh + RequestTimeout
       => cb'.failures > 0]_vars

\* lookup() returns or raises.
LookupsEnd == \A i \in Lookups : at[i] # "idle" ~> at[i] = "idle"

\* While the refresh task runs and the registry stays up, the cache comes to
\* agree with what the registry settles on and stays so: no answer that was
\* overtaken is left in it.
CacheConverges ==
  \A n \in Names, v \in Versions :
    <>[](health = "up" /\ registry[n] = v /\ task # "off")
      => <>[](cache[n] # NoEntry /\ cache[n].value = v)

-----------------------------------------------------------------------------
(* What the documentation says and the code does not do *)

LookupRaises(i) ==
  at[i] # "idle" /\ at'[i] = "idle" /\ result'[i].kind = "not_found"

\* registry/exceptions.py:10, ServiceNotFound: "not in the registry (or only
\* stale-too-old cache available)".  A lookup that fails after the refresh task
\* filled the cache raises although a fresh entry is there.
NotFoundMeansNoUsableEntry ==
  [][\A i \in Lookups : LookupRaises(i) /\ at[i] = "asking" => ~Usable(cache[asked[i]])]_vars

=============================================================================
