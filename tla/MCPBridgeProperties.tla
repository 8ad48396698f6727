------------------------- MODULE MCPBridgeProperties -------------------------
(***************************************************************************)
(* What MCPBridge promises to the code around it, and what its             *)
(* documentation promises beyond that.                                     *)
(***************************************************************************)
EXTENDS MCPBridge

TypeOK ==
  /\ session \in Session /\ current \in Session /\ bgTask \in Session
  /\ stop \subseteq Loops /\ connected \subseteq Session
  /\ pc \in [Loops -> Running \cup {"unborn", "done"}]
  /\ failures \in [Loops -> 0..6]
  /\ slept \in [Loops -> 0..(MaxDelay - 1)]
  /\ waits \in [Loops -> Session]
  /\ raised \subseteq Loops /\ cancelled \subseteq Loops
  /\ link \in [Loops -> BOOLEAN]
  /\ serverUp \in BOOLEAN
  /\ op \in [Callers -> {"idle", "connecting", "disconnecting"}]
  /\ on \in [Callers -> Session]
  /\ call \in [Tools -> {"idle", "invoke", "list"}]
  /\ held \in [Tools -> Session \cup {Closed}]

\* The published session is always one its own loop is still inside of: a loop
\* that gave up, backs off or ended never leaves a dead session behind for the
\* tool closures to find, whichever way it left the async with.
SessionHasOwner == session # NoLoop => pc[session] \in Attached

\* The other direction: the session a loop holds open is the one the bridge
\* publishes, so a healthy connection is never hidden from the tools.
HeldSessionPublished == \A l \in Loops : pc[l] \in {"handshake", "holding"} => session = l

\* A single task owns the connection: whatever runs is the task disconnect()
\* would stop and wait for.
NoOrphanLoop == \A l \in Loops : LoopRuns(l) => bgTask = l /\ current = l

\* A tool call in flight talks through the session the bridge publishes or
\* through one that is already closed, never through one nobody will close.
CallsUsePublishedSession ==
  \A t \in Tools : call[t] # "idle" => held[t] \in {session, Closed}

\* A loop ends only because disconnect() asked it to or its task was cancelled:
\* no sequence of failures makes the bridge give up.
NeverGivesUp == \A l \in Loops : pc[l] = "done" => l \in stop \cup cancelled

\* When disconnect() returns, the loop it stopped is over and no session is
\* left, however the loop was interrupted.
DisconnectStops ==
  [][\A a \in Callers : op[a] = "disconnecting" /\ op'[a] = "idle"
       => session' = NoLoop /\ \A l \in Loops : pc'[l] \in {"unborn", "done"}]_vars

\* Once stop is requested a loop finishes the attempt it is in and starts no
\* other: it does not enter the transport again.
NoAttemptAfterStop ==
  [][\A l \in Loops : pc[l] # "opening" /\ pc'[l] = "opening" => l \notin stop]_vars

\* The server answers initialize(), or the connection breaks.  The code puts no
\* timeout on it, so whatever waits for the loop can wait for the server.
HandshakesEnd == \A l \in Loops : []<>(pc[l] # "handshake")

\* disconnect() returns, unless a server keeps initialize() waiting.
DisconnectEnds ==
  HandshakesEnd => \A a \in Callers : op[a] = "disconnecting" ~> op[a] = "idle"

\* With the server back for good and answering, a loop nobody stops gets a ready
\* session, however many attempts failed before.
Reconnects ==
  <>[]serverUp /\ HandshakesEnd => \A l \in Loops :
    LoopRuns(l) ~> (Ready(l) \/ l \in stop \cup cancelled)

\* A tool invocation returns, even if the server never answers and even if the
\* bridge reconnects underneath it.
InvocationsReturn == \A t \in Tools : call[t] = "invoke" ~> call[t] = "idle"

-----------------------------------------------------------------------------
(* What the documentation says and the code does not do *)

\* mcp_bridge.py:302-303: connect() and disconnect() "are safe to call from any
\* other task".  A connect() during a disconnect() replaces the stop event the
\* first loop reads, which goes on, and disconnect() waits for it for ever, with
\* a server that answers every initialize().
DisconnectEndsUnlessCancelled ==
  HandshakesEnd => \A a \in Callers : op[a] = "disconnecting" ~> op[a] = "idle" \/ cancelled # {}

-----------------------------------------------------------------------------
(* The bridge implements what it promises. *)

\* The bridge as the code that holds it sees it.
AbstractBridge ==
  [life   |-> IF session # NoLoop
                THEN IF pc[session] = "handshake" THEN "asking" ELSE "up"
                ELSE IF \E l \in Loops : LoopRuns(l) THEN "seeking" ELSE "off",
   told   |-> current \in stop,
   killed |-> current \in cancelled]

Contract == INSTANCE BridgeContract WITH bridge <- AbstractBridge

\* connect(), disconnect(), the loop and everything that may cancel it, seen from
\* outside, are a bridge that comes back after every loss and ends when told to,
\* unless a server keeps it asking.
ImplementsContract == Contract!Spec

=============================================================================
