------------------------------ MODULE McpService ------------------------------
(***************************************************************************)
(* platform_sdk/base/mcp_service.py and base/application.py: one service   *)
(* object whose lifespan FastMCP runs once per SSE connection, whose       *)
(* authorizer, cache and pool those connections share, and which           *)
(* run_with_registration registers from a background thread.  With them    *)
(* the writing side of registry/client.py: register_self, the heartbeat    *)
(* task and deregister.                                                    *)
(*                                                                         *)
(* A process that runs _register or _deregister is a connection, or one of *)
(* the two coroutines of the background loop, Up and Down.  Each _register *)
(* makes a client of its own, named after it; self.registry is the latest. *)
(* A resource is named after the connection that made it.                  *)
(*                                                                         *)
(* A request is in the network until the registry serves it or it is lost, *)
(* which its sender need not live to see.  External: the registry, which   *)
(* lists a service on POST and drops it on DELETE or when it hears nothing *)
(* from it.                                                                *)
(***************************************************************************)
EXTENDS Naturals, FiniteSets

CONSTANTS Conns, Up, Down, None, Injected,
          Kinds   \* of resources: some of authorizer, cache, pool

ASSUME ServiceAssumption ==
  /\ Kinds \subseteq {"authorizer", "cache", "pool"}
  /\ Up \notin Conns /\ Down \notin Conns \cup {Up}
  /\ {None, Injected} \cap (Conns \cup {Up, Down}) = {}

Procs   == Conns \cup {Up, Down}
Clients == Conns \cup {Up}

VARIABLES
  pc,        \* where each process is
  main,      \* where the main thread of run_with_registration is
  registry,  \* self.registry
  beat,      \* the loop each client's heartbeat task runs in
  field,     \* self._authorizer, self._cache, self._db_pool
  owned,     \* the _owns flags that are set
  open,      \* the resources of each kind that are open
  net,       \* environment: the requests under way
  answered,  \* environment: whose request was answered
  listed,    \* environment: the registry offers the service
  evicted,   \* history: the registry dropped it by itself
  discovery, \* REGISTRY_URL is set
  broke,     \* history: the kinds whose close broke off
  clean      \* history: nothing raised, timed out or overlapped

resources == <<field, owned, open>>
outside   == <<net, answered, listed, evicted>>
history   == <<discovery, broke>>
vars      == <<pc, main, registry, beat, resources, outside, clean, history>>

-----------------------------------------------------------------------------

\* Awaits of a lifespan at which it may raise; a kind stands for its close.
Awaits  == {"registering", "pooling", "starting", "stopping", "deleting"} \cup Kinds
Over    == {"unborn", "ended", "failed"}
Loop(p) == IF p \in Conns THEN "server" ELSE "background"

Request(p, op) == [op |-> op, by |-> p]

Goto(p, place) == pc' = [pc EXCEPT ![p] = place]

Init ==
  /\ pc = [p \in Procs |-> "unborn"]
  /\ main \in {"waiting", "running"}   \* run_with_registration, or mcp.run alone
  /\ registry = None
  /\ beat = [x \in Clients |-> "off"]
  /\ field \in [Kinds -> {None, Injected}]
  /\ owned = {}
  /\ open = [k \in Kinds |-> {}]
  /\ net = {} /\ answered = {} /\ listed = FALSE /\ evicted = FALSE
  /\ discovery \in BOOLEAN
  /\ broke = {} /\ clean = TRUE

\* The exception ends a lifespan; run_with_registration logs it and goes on.
Fails(p) ==
  /\ Goto(p, IF p \in Conns THEN "failed" ELSE "ended")
  /\ clean' = FALSE

-----------------------------------------------------------------------------
(* _register *)

\* The pool is created across an await unless there is one; then on_startup.
CreateFrom(f) == IF "pool" \in Kinds /\ f["pool"] = None THEN "pooling" ELSE "starting"

\* What a lifespan does next: create the authorizer and the cache that are not
\* there, at once.
CreateResources(c) ==
  LET missing == {k \in Kinds \ {"pool"} : field[k] = None} IN
  /\ field' = [k \in Kinds |-> IF k \in missing THEN c ELSE field[k]]
  /\ owned' = owned \cup missing
  /\ open' = [k \in Kinds |-> IF k \in missing THEN open[k] \cup {c} ELSE open[k]]
  /\ Goto(c, CreateFrom(field'))

Registered(p) == IF p \in Conns THEN CreateResources(p)
                                ELSE Goto(p, "ended") /\ UNCHANGED resources

Alone == clean' = (clean /\ \A c \in Conns : pc[c] \in Over)

\* A connection comes in, or the background loop is up: a client is made and
\* its POST goes out.
RegisterStarts(p) ==
  /\ pc[p] = "unborn"
  /\ main = IF p = Up THEN "waiting" ELSE "running"
  /\ p # Down
  /\ discovery
  /\ registry' = p
  /\ net' = net \cup {Request(p, "POST")}
  /\ Goto(p, "registering")
  /\ Alone
  /\ UNCHANGED <<main, beat, resources, answered, listed, evicted, history>>

\* No REGISTRY_URL: _register returns at once.
RegisterSkipped(p) ==
  /\ pc[p] = "unborn"
  /\ main = IF p = Up THEN "waiting" ELSE "running"
  /\ p # Down
  /\ ~discovery
  /\ Alone
  /\ Registered(p)
  /\ UNCHANGED <<main, registry, beat, outside, history>>

\* register_self returns: the heartbeat is started on what self.registry is by
\* now, which may be another's client, or None.
RegisterReturns(p) ==
  /\ pc[p] = "registering" /\ p \in answered
  /\ answered' = answered \ {p}
  /\ IF registry = None
       THEN Fails(p) /\ UNCHANGED <<beat, resources>>
       ELSE /\ beat' = [beat EXCEPT ![registry] = IF @ = "off" THEN Loop(p) ELSE @]
            /\ Registered(p)
            /\ UNCHANGED clean
  /\ UNCHANGED <<main, registry, net, listed, evicted, history>>

-----------------------------------------------------------------------------
(* The lifespan of a connection *)

PoolCreated(c) ==
  /\ pc[c] = "pooling"
  /\ field' = [field EXCEPT !["pool"] = c]
  /\ owned' = owned \cup {"pool"}
  /\ open' = [open EXCEPT !["pool"] = @ \cup {c}]
  /\ Goto(c, "starting")
  /\ UNCHANGED <<main, registry, beat, outside, clean, history>>

\* on_startup returns; the connection closes and on_shutdown is called.
Started(c) ==
  /\ pc[c] = "starting"
  /\ Goto(c, "live")
  /\ UNCHANGED <<main, registry, beat, resources, outside, clean, history>>

Closes(c) ==
  /\ pc[c] = "live"
  /\ Goto(c, "stopping")
  /\ UNCHANGED <<main, registry, beat, resources, outside, clean, history>>

\* An await of the lifespan raises, or is cancelled with the connection.
Breaks(c) ==
  /\ pc[c] \in Awaits
  /\ Fails(c)
  /\ broke' = broke \cup ({pc[c]} \cap Kinds)
  /\ answered' = answered \ {c}
  /\ UNCHANGED <<main, registry, beat, resources, net, listed, evicted, discovery>>

\* The order of the teardown.
Before(k) == CASE k = "authorizer" -> {} [] k = "cache" -> {"authorizer"}
               [] k = "pool" -> {"authorizer", "cache"}

\* Only a resource the service owns, and that is there.
ToClose(f, k) == k \in owned /\ f[k] # None

\* Teardown goes on with the first of the kinds in rest that is to be closed.
CloseNext(c, f, rest) ==
  LET due == {k \in rest : ToClose(f, k)} IN
  IF due = {}
    THEN Goto(c, "ended") /\ UNCHANGED open
    ELSE LET k == CHOOSE k \in due : Before(k) \cap due = {} IN
         /\ Goto(c, k)
         /\ open' = [open EXCEPT ![k] = @ \ {f[k]}]

\* Slip: the attribute keeps the resource that was closed.
FieldKept(k) == field

\* self._authorizer = None, after the await.
FieldCleared(k) == [field EXCEPT ![k] = None]

Closed(c, k) ==
  /\ pc[c] = k
  /\ field' = FieldCleared(k)
  /\ CloseNext(c, field', {j \in Kinds : k \in Before(j)})
  /\ UNCHANGED <<main, registry, beat, owned, outside, clean, history>>

-----------------------------------------------------------------------------
(* _deregister *)

\* Slip: the lifespan returns once it has deregistered.
DeregisteredAndDone(p) == Goto(p, "ended") /\ UNCHANGED resources

Deregistered(p) == IF p \in Conns THEN CloseNext(p, field, Kinds) /\ UNCHANGED <<field, owned>>
                                  ELSE Goto(p, "ended") /\ UNCHANGED resources

MayDeregister(p) == IF p = Down THEN main = "exiting" /\ pc[p] = "unborn"
                                ELSE p # Up /\ pc[p] = "stopping"

\* The tasks of self.registry are cancelled and awaited, which raises for a
\* task of the other loop; then the DELETE goes out.
DeregisterStarts(p) ==
  /\ MayDeregister(p)
  /\ IF registry = None
       THEN Deregistered(p) /\ UNCHANGED <<registry, beat, net, clean>>
       ELSE /\ beat' = [beat EXCEPT ![registry] = "off"]
            /\ UNCHANGED resources
            /\ IF beat[registry] \in {"off", Loop(p)}
                 THEN /\ net' = net \cup {Request(p, "DELETE")}
                      /\ Goto(p, "deleting")
                      /\ UNCHANGED <<registry, clean>>
                 ELSE Fails(p) /\ registry' = None /\ UNCHANGED net
  /\ UNCHANGED <<main, answered, listed, evicted, history>>

\* deregister() returns, whatever came of it; finally closes and forgets what
\* self.registry is by now, and raises if another has forgotten it already.
DeregisterReturns(p) ==
  /\ pc[p] = "deleting"
  /\ answered' = answered \ {p}
  /\ registry' = None
  /\ IF registry = None
       THEN Fails(p) /\ UNCHANGED resources
       ELSE Deregistered(p) /\ clean' = (clean /\ p \in answered)
  /\ UNCHANGED <<main, beat, net, listed, evicted, history>>

-----------------------------------------------------------------------------
(* run_with_registration *)

\* Slip: the result is awaited without a timeout.
WaitsForever(p) == pc[p] = "ended"

\* fut.result(timeout=10): the coroutine is over, or goes on by itself.
WaitIsOver(p) == pc[p] # "unborn"

MainServes ==
  /\ main = "waiting" /\ WaitIsOver(Up)
  /\ main' = "running"
  /\ clean' = (clean /\ pc[Up] = "ended")
  /\ UNCHANGED <<pc, registry, beat, resources, outside, history>>

\* _register of the background loop fails, which is logged; late or not.
UpFails ==
  /\ pc[Up] = "registering"
  /\ Fails(Up)
  /\ answered' = answered \ {Up}
  /\ UNCHANGED <<main, registry, beat, resources, net, listed, evicted, history>>

\* mcp.run returns; the tasks of its loop are over.
ServerStops ==
  /\ main = "running"
  /\ \A c \in Conns : pc[c] \in Over
  /\ main' = IF pc[Up] = "unborn" THEN "exited" ELSE "exiting"
  /\ beat' = [x \in Clients |-> IF beat[x] = "server" THEN "off" ELSE beat[x]]
  /\ UNCHANGED <<pc, registry, resources, outside, clean, history>>

\* The background loop is drained and the process ends.
MainExits ==
  /\ main = "exiting" /\ WaitIsOver(Down)
  /\ main' = "exited"
  /\ beat' = [x \in Clients |-> "off"]
  /\ pc' = [p \in Procs |-> IF p \in Conns THEN pc[p] ELSE "ended"]
  /\ clean' = (clean /\ pc[Down] = "ended")
  /\ UNCHANGED <<registry, resources, outside, history>>

-----------------------------------------------------------------------------
(* The network and the registry *)

Served(m) ==
  /\ m \in net
  /\ net' = net \ {m}
  /\ listed' = (m.op = "POST")
  /\ answered' = IF pc[m.by] \in {"registering", "deleting"} THEN answered \cup {m.by}
                                                             ELSE answered
  /\ UNCHANGED <<pc, main, registry, beat, resources, evicted, clean, history>>

RequestLost(m) ==
  /\ m \in net
  /\ net' = net \ {m}
  /\ UNCHANGED <<pc, main, registry, beat, resources, answered, listed, evicted, clean, history>>

\* The reaper drops a service it has not heard from; no heartbeat brings it back.
Evicts ==
  /\ listed
  /\ listed' = FALSE /\ evicted' = TRUE
  /\ UNCHANGED <<pc, main, registry, beat, resources, net, answered, clean, history>>

Next ==
  \/ \E p \in Procs : RegisterStarts(p) \/ RegisterSkipped(p) \/ RegisterReturns(p)
                      \/ DeregisterStarts(p) \/ DeregisterReturns(p)
  \/ \E c \in Conns : PoolCreated(c) \/ Started(c) \/ Closes(c)
                      \/ Breaks(c)
  \/ \E c \in Conns, k \in Kinds : Closed(c, k)
  \/ UpFails \/ MainServes \/ ServerStops \/ MainExits
  \/ \E m \in net : Served(m) \/ RequestLost(m)
  \/ Evicts

Spec == Init /\ [][Next]_vars

\* The background thread starts its coroutines and the two waits time out;
\* nothing is owed by the registry, the network or the connections.
Fairness ==
  /\ WF_vars(RegisterStarts(Up) \/ RegisterSkipped(Up)) /\ WF_vars(DeregisterStarts(Down))
  /\ WF_vars(MainServes) /\ WF_vars(MainExits)

FairSpec == Spec /\ Fairness

-----------------------------------------------------------------------------

\* lifespan, with any number of connections: an attribute holds a closed resource
\* only while a connection is at closing it, or after one broke off there.
FieldsOpen ==
  \A k \in Kinds \ broke : field[k] \in Conns /\ field[k] \notin open[k] =>
    \E c \in Conns : pc[c] = k

\* lifespan, with connections that do not overlap and nothing that raises: a live
\* connection has every resource open and is the one that is registered, and once
\* it is gone nothing is left open and no heartbeat runs on its client.
AloneIsSafe ==
  clean => /\ \A c \in Conns : pc[c] = "live" =>
                \A k \in Kinds : field[k] = Injected \/ field[k] \in open[k]
           /\ (\A c \in Conns : pc[c] \in Over) =>
                \A k \in Kinds : open[k] = {}
           /\ \A c \in Conns : beat[c] # "off" => registry = c
           /\ main = "exited" => ~listed

\* run_with_registration: a registry that does not answer delays the service and
\* its exit, but stops neither.
ServesAndExits ==
  /\ main = "waiting" ~> main = "running"
  /\ main = "exiting" ~> main = "exited"

\* Claimed by run_with_registration ("Register with the platform registry, run
\* FastMCP, deregister on exit"): a service that has registered and whose server
\* runs is listed, unless the registry dropped it or something went wrong.
ListedWhileServing ==
  main = "running" /\ discovery /\ pc[Up] = "ended" /\ clean /\ ~evicted => listed

=============================================================================
