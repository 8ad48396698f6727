----------------------------- MODULE BridgeHealth -----------------------------
(***************************************************************************)
(* platform_sdk/bridge_health.py, class BridgeHealthMatrix, over bridges   *)
(* that behave as BridgeSteps says: register, connect_all, disconnect_all  *)
(* and readiness.  AgentApp runs its own loops over the same bridges.      *)
(*                                                                         *)
(* connect_all awaits the connects together and records what each saw when *)
(* it returned only after the last one has; the bridges move meanwhile.    *)
(* connect() does not raise, so nothing is ever "failed".                  *)
(***************************************************************************)
EXTENDS BridgeSteps

CONSTANTS Names,   \* the servers an agent may depend on
          NoName

ASSUME NamesAssumption == NoName \notin Names

VARIABLES
  bridge,      \* the bridge of each name, once there is one
  known,       \* the names in _bridges
  connecting,  \* the connect() calls that have not returned
  todo,        \* the names a for loop has not come to
  leaving,     \* whose disconnect() is awaited
  result,      \* what each connect() saw when it returned
  status,      \* _startup_status
  stage        \* how far the host is

bridges == <<bridge, known>>
matrix  == <<bridges, connecting, todo, leaving, result, status, stage>>

HealthInit ==
  /\ bridge = [n \in Names |-> NewBridge]
  /\ known = {} /\ connecting = {} /\ todo = {}
  /\ leaving = NoName
  /\ result = [n \in Names |-> "none"]
  /\ status = [n \in Names |-> "none"]
  /\ stage = "new"

-----------------------------------------------------------------------------

\* By itself a bridge finds a session, gets through its handshake and loses it.
BridgeMoves(n) ==
  /\ \E b \in Opened(bridge[n]) \cup Settled(bridge[n]) \cup Lost(bridge[n]) :
       bridge' = [bridge EXCEPT ![n] = b]
  /\ UNCHANGED <<known, connecting, todo, leaving, result, status, stage>>

\* A bridge that was told to stop does, once it is not asking any more.
BridgeEnds(n) ==
  /\ \E b \in Ended(bridge[n]) : bridge' = [bridge EXCEPT ![n] = b]
  /\ UNCHANGED <<known, connecting, todo, leaving, result, status, stage>>

\* Every connect() of the gather starts.
GatherConnects ==
  /\ bridge' = [n \in Names |-> IF n \in known THEN Seeking ELSE bridge[n]]
  /\ connecting' = known

\* Slip: startup_timeout is forgotten.
ConnectEndsUp(n) == n \in connecting /\ IsConnected(bridge[n])

\* One of them ends: connected, or startup_timeout is over.
ConnectEnds(n) == n \in connecting

ConnectReturns(n) ==
  /\ ConnectEnds(n)
  /\ connecting' = connecting \ {n}
  /\ result' = [result EXCEPT ![n] = IF IsConnected(bridge[n]) THEN "connected"
                                                               ELSE "reconnecting"]
  /\ UNCHANGED <<bridges, todo, leaving, status, stage>>

\* The next disconnect() of the loop: the bridge is told to stop and awaited.
DisconnectNext(n) ==
  /\ stage = "leaving" /\ leaving = NoName
  /\ n \in todo
  /\ todo' = todo \ {n}
  /\ \E b \in Told(bridge[n]) : bridge' = [bridge EXCEPT ![n] = b]
  /\ leaving' = n
  /\ UNCHANGED <<known, connecting, result, status, stage>>

\* Slip: the loop does not wait for a bridge to end.
NotAwaited(n) == TRUE

Gone(n) == bridge[n].life = "off"

DisconnectReturns(n) ==
  /\ leaving = n /\ Gone(n)
  /\ leaving' = NoName
  /\ status' = [status EXCEPT ![n] = "disconnected"]
  /\ UNCHANGED <<bridges, connecting, todo, result, stage>>

DisconnectsDone ==
  /\ stage = "leaving" /\ leaving = NoName /\ todo = {}
  /\ stage' = "stopped"
  /\ UNCHANGED <<bridges, connecting, todo, leaving, result, status>>

-----------------------------------------------------------------------------
(* The matrix *)

Register(n) ==
  /\ stage = "new" /\ n \notin known
  /\ known' = known \cup {n}
  /\ status' = [status EXCEPT ![n] = "registered"]
  /\ UNCHANGED <<bridge, connecting, todo, leaving, result, stage>>

ConnectAll ==
  /\ stage = "new"
  /\ GatherConnects
  /\ stage' = "connect_all"
  /\ UNCHANGED <<known, todo, leaving, result, status>>

ConnectAllReturns ==
  /\ stage = "connect_all" /\ connecting = {}
  /\ status' = [n \in Names |-> IF n \in known THEN result[n] ELSE status[n]]
  /\ stage' = "serving"
  /\ UNCHANGED <<bridges, connecting, todo, leaving, result>>

DisconnectAll ==
  /\ stage = "serving"
  /\ todo' = known
  /\ stage' = "leaving"
  /\ UNCHANGED <<bridges, connecting, leaving, result, status>>

\* Slip: what startup recorded is reported without a look at the bridge.
StatusOfStartup(n) == IF status[n] \in {"connected", "reconnecting"} THEN status[n] ELSE "disconnected"

\* readiness: the state of the bridge first, then what startup recorded.
BridgeStatus(n) ==
  IF IsConnected(bridge[n]) THEN "connected"
  ELSE IF status[n] = "reconnecting" THEN "reconnecting" ELSE "disconnected"

Readiness ==
  LET connected == {n \in known : BridgeStatus(n) = "connected"} IN
  IF connected = known /\ known # {} THEN "ok"
  ELSE IF connected # {} THEN "degraded" ELSE "unavailable"

MatrixStep ==
  \/ \E n \in Names : Register(n)
  \/ ConnectAll \/ ConnectAllReturns \/ DisconnectAll

=============================================================================
