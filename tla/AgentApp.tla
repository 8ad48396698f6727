------------------------------- MODULE AgentApp -------------------------------
(***************************************************************************)
(* platform_sdk/fastapi_app/base.py, class BaseAgentApp: the lifespan of   *)
(* an agent, from registration over the lookups of its dependencies and    *)
(* the connects of their bridges to its hooks, and back.  A host may use a *)
(* BridgeHealthMatrix of its own instead; host says which one runs.        *)
(*                                                                         *)
(* Outside: the hooks an agent overrides, the stores it makes and the      *)
(* registry, each of which may raise, the answers to lookups (see          *)
(* RegistryClient), and what the registry makes of a POST or a DELETE.     *)
(* Every call of the lifespan that may take time or raise is a stage.      *)
(***************************************************************************)
EXTENDS BridgeHealth

VARIABLES
  host,        \* "matrix", or how the app finds its servers
  registered,  \* self.registry is set and its heartbeat runs
  store,       \* the conversation store: none, open, closed
  listed,      \* environment: the registry offers the agent to its peers
  deleted,     \* history: what became of the DELETE: none, served, failed
  raised       \* history: the stage that raised, if one did

registry == <<registered, listed, deleted>>
app  == <<host, registry, store, raised>>
vars == <<matrix, app>>

\* Slip: the service is not taken from the registry.
AfterWithoutDeregister ==
  [context |-> "lookup", checkpointer |-> "store", store |-> "dependencies",
   dependencies |-> "on_started", on_started |-> "serving", on_shutdown |-> "flush",
   deregister |-> "flush", flush |-> "store_disconnect", store_disconnect |-> "leaving"]

\* The stages that are one call of the agent's own code or of its stores, and
\* the stage after each if it does not raise.
After ==
  [context |-> "lookup", checkpointer |-> "store", store |-> "dependencies",
   dependencies |-> "on_started", on_started |-> "serving", on_shutdown |-> "deregister",
   deregister |-> "flush", flush |-> "store_disconnect", store_disconnect |-> "leaving"]

CallsOut == DOMAIN After

Init ==
  /\ HealthInit
  /\ host \in {"matrix", "mcp_dependencies", "mcp_servers"}
  /\ registered = FALSE /\ listed = FALSE /\ deleted = "none"
  /\ store = "none"
  /\ raised = "nothing"

-----------------------------------------------------------------------------
(* Startup *)

\* _register: the registry lists the agent and the heartbeat starts, or there is
\* no registry to register with.
RegisterSelf ==
  /\ stage = "new" /\ host # "matrix"
  /\ \E yes \in BOOLEAN : registered' = yes /\ listed' = yes
  /\ stage' = "context"
  /\ UNCHANGED <<bridges, connecting, todo, leaving, result, status>>
  /\ UNCHANGED <<host, deleted, store, raised>>

\* _register raises and the app does not start; its POST may have been served.
RegisterFails ==
  /\ stage = "new" /\ host # "matrix"
  /\ listed' \in BOOLEAN
  /\ stage' = "failed"
  /\ raised' = "new"
  /\ UNCHANGED <<bridges, connecting, todo, leaving, result, status>>
  /\ UNCHANGED <<host, registered, deleted, store>>

\* The registry drops an agent it hears nothing from, or that somebody deletes.
RegistryDrops ==
  /\ listed
  /\ listed' = FALSE
  /\ UNCHANGED <<matrix, host, registered, deleted, store, raised>>

\* One turn of the loop over the servers: a lookup that finds a healthy entry
\* makes a bridge, anything else skips the name for good; without a registry
\* the lookup raises.  mcp_servers asks nobody.
FindServer(n) ==
  /\ stage = "lookup" /\ n \in todo
  /\ todo' = todo \ {n}
  /\ \/ known' = known \cup {n} /\ (host = "mcp_servers" \/ registered)
     \/ known' = known /\ host = "mcp_dependencies"
  /\ UNCHANGED <<bridge, connecting, leaving, result, status, stage, app>>

ConnectBridges ==
  /\ stage = "lookup" /\ todo = {}
  /\ GatherConnects
  /\ stage' = "connect"
  /\ UNCHANGED <<known, todo, leaving, result, status, app>>

BridgesConnected ==
  /\ stage = "connect" /\ connecting = {}
  /\ stage' = "checkpointer"
  /\ UNCHANGED <<bridges, connecting, todo, leaving, result, status, app>>

-----------------------------------------------------------------------------
(* The calls of the agent's own code, starting and stopping *)

\* The store is there once connect() has returned, if the agent wants one.
StoreAfter(s) ==
  IF s = "store" THEN {"none", "open"}
  ELSE IF s = "store_disconnect" /\ store = "open" THEN {"closed"} ELSE {store}

\* _deregister stops the heartbeat, sends the DELETE and clears self.registry, also
\* when it raises.  A DELETE that fails is logged and forgotten.
RegistryAfter(s) ==
  IF s = "deregister" /\ registered
  THEN /\ registered' = FALSE
       /\ deleted' \in {"served", "failed"}
       /\ listed' = (listed /\ deleted' = "failed")
  ELSE UNCHANGED registry

\* What the next loop goes through.
TodoAfter(s) == CASE s = "lookup" -> Names [] s = "leaving" -> known [] OTHER -> todo

CallReturns ==
  /\ stage \in CallsOut
  /\ stage' = After[stage]
  /\ store' \in StoreAfter(stage)
  /\ RegistryAfter(stage)
  /\ todo' = TodoAfter(stage')
  /\ UNCHANGED <<bridges, connecting, leaving, result, status, host, raised>>

\* An exception leaves the lifespan where it is.
CallRaises ==
  /\ stage \in CallsOut
  /\ stage' = "failed"
  /\ raised' = stage
  /\ store' \in StoreAfter(stage) \cup {store}
  /\ RegistryAfter(stage)
  /\ UNCHANGED <<bridges, connecting, todo, leaving, result, status, host>>

\* The server is told to stop: the code after the yield.
Shutdown ==
  /\ stage = "serving" /\ host # "matrix"
  /\ stage' = "on_shutdown"
  /\ UNCHANGED <<bridges, connecting, todo, leaving, result, status, app>>

-----------------------------------------------------------------------------

AppStep ==
  \/ RegisterSelf \/ RegisterFails \/ RegistryDrops
  \/ \E n \in Names : FindServer(n)
  \/ ConnectBridges \/ BridgesConnected \/ CallReturns \/ CallRaises \/ Shutdown

Loops == \/ \E n \in Names : ConnectReturns(n) \/ DisconnectNext(n) \/ DisconnectReturns(n)
         \/ DisconnectsDone

Next ==
  \/ \E n \in Names : BridgeMoves(n) /\ UNCHANGED app
  \/ \E n \in Names : BridgeEnds(n) /\ UNCHANGED app
  \/ Loops /\ UNCHANGED app
  \/ host = "matrix" /\ MatrixStep /\ UNCHANGED app
  \/ AppStep

Spec == Init /\ [][Next]_vars

\* The event loop resumes what is ready, startup_timeout ends connect(), lookups
\* end (RegistryClient), a bridge that is not asking ends when told (BridgeContract),
\* and the code of the agent returns or raises.  No server has to answer initialize(),
\* and nobody has to start or stop the agent.
Fairness ==
  /\ \A n \in Names : WF_vars(BridgeEnds(n) /\ UNCHANGED app)
  /\ WF_vars(Loops /\ UNCHANGED app)
  /\ WF_vars(ConnectAllReturns /\ UNCHANGED app)
  /\ \A n \in Names : WF_vars(FindServer(n))
  /\ WF_vars(ConnectBridges \/ BridgesConnected)
  /\ WF_vars(CallReturns \/ CallRaises)

FairSpec == Spec /\ Fairness

-----------------------------------------------------------------------------

\* BridgeHealthMatrix.readiness: a bridge reported as reconnecting is one that
\* still seeks its session or is being stopped, and after disconnect_all the
\* agent is unavailable.
ReportedTruthfully ==
  /\ \A n \in known : BridgeStatus(n) = "reconnecting" =>
       bridge[n].life = "seeking" \/ bridge[n].told
  /\ stage = "stopped" => Readiness = "unavailable"

\* The registry offers the agent only because a DELETE failed and was forgotten.
Unlisted == listed => deleted = "failed"

\* lifespan: an agent that stopped without an exception has left nothing behind:
\* no bridge task, no heartbeat, no open store, and no entry of the registry but
\* one whose DELETE failed; and one whose shutdown raised after on_shutdown() has
\* at least left no heartbeat and no other entry.
LeavesNothing ==
  /\ stage = "stopped" =>
       \A n \in Names : bridge[n].life = "off" /\ ~registered /\ Unlisted /\ store # "open"
  /\ raised \in {"deregister", "flush", "store_disconnect"} => ~registered /\ Unlisted

\* lifespan: no bridge is told to stop while the registry still offers the agent
\* to its peers, unless the agent has asked to be dropped and the request failed.
UnlistedFirst == (\E n \in Names : bridge[n].told) => Unlisted

\* lifespan: startup ends, in service or with an exception, whatever the servers
\* do; and shutdown ends unless some server never answers initialize().
Starting == {"context", "lookup", "connect", "connect_all",
             "checkpointer", "store", "dependencies", "on_started"}
Stopping == {"on_shutdown", "deregister", "flush", "store_disconnect", "leaving"}

LifespanMoves ==
  /\ stage \in Starting ~> stage \in {"serving", "failed"}
  /\ (\A n \in Names : []<>(bridge[n].life # "asking"))
       => (stage \in Stopping ~> stage \in {"stopped", "failed"})

=============================================================================
