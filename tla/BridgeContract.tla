---------------------------- MODULE BridgeContract ----------------------------
(* The abstract specification of one MCPToolBridge: see BridgeSteps. *)
EXTENDS BridgeSteps

VARIABLE bridge

Init == bridge = NewBridge

Next == bridge' \in Started(bridge) \cup Opened(bridge) \cup Settled(bridge) \cup Lost(bridge)
                      \cup Told(bridge) \cup Killed(bridge) \cup Ended(bridge)

End == bridge' \in Ended(bridge)

\* Safety, and the promise of disconnect(): a bridge told to stop does, unless it
\* is asking for ever.
Safety == Init /\ [][Next]_bridge
Spec == Safety /\ WF_bridge(End)

=============================================================================
