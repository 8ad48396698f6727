--------------------------- MODULE MCPBridgeProofs ---------------------------
(***************************************************************************)
(* The safety of MCPToolBridge for any number of loops, callers and tool   *)
(* tasks and every cap of the backoff.                                     *)
(*                                                                         *)
(* Types and SessionHasOwner hold however connect() and disconnect()       *)
(* overlap.  The rest holds when connect() is called on an idle bridge     *)
(* only, which is how the SDK calls it; it rests on one fact, that the     *)
(* running loop is the one the bridge and every waiting disconnect() know  *)
(* (WaitsForTheTask, NoOrphanLoop).                                        *)
(***************************************************************************)
EXTENDS MCPBridgeProperties, TLAPS

\* A disconnect() in progress waits for the task of the bridge; when the
\* bridge has no task any more, another disconnect() has seen it end.
WaitsForTheTask ==
  \A a \in Callers : op[a] = "disconnecting" => on[a] \in Loops /\ bgTask \in {NoLoop, on[a]}

CancellingIsCancelled == \A l \in Loops : pc[l] = "cancelling" => l \in cancelled

CallsHoldSomething == \A t \in Tools : call[t] # "idle" => held[t] # NoLoop

Owned == TypeOK /\ SessionHasOwner

\* What the running loop, the bridge and the tasks waiting for it agree on.
Agreed ==
  /\ HeldSessionPublished
  /\ NoOrphanLoop
  /\ CallsUsePublishedSession
  /\ NeverGivesUp
  /\ WaitsForTheTask
  /\ CancellingIsCancelled
  /\ CallsHoldSomething

IInv == Owned /\ Agreed

-----------------------------------------------------------------------------
(* The backoff. *)

LEMMA DelayFact ==
  ASSUME NEW n \in 0..6
  PROVE  Delay(n) \in 1..MaxDelay /\ OneMore(n) \in 0..6
<1>1. CASE n = 6
  BY <1>1, BridgeAssumption DEF Delay, OneMore, Powers
<1>2. CASE n \in 0..5
  BY <1>2, BridgeAssumption DEF Delay, OneMore, Powers
<1>3. QED
  BY <1>1, <1>2

-----------------------------------------------------------------------------
(* Types and the owner of the session. *)

LEMMA InitOwned == Init => Owned
BY BridgeAssumption DEF Init, Owned, TypeOK, SessionHasOwner, Session, Running, Attached

\* Every way out of an attempt keeps Owned: the session is cleared.
LEMMA AfterAttemptFact ==
  ASSUME Owned, NEW l \in Loops, NEW n \in 0..6, AfterAttempt(l, n),
         link' \in [Loops -> BOOLEAN], call' = call,
         held' \in [Tools -> Session \cup {Closed}]
  PROVE  Owned'
<1>1. pc' \in [Loops -> Running \cup {"unborn", "done"}]
  BY DEF AfterAttempt, Goto, Owned, TypeOK, Running
<1>2. slept' \in [Loops -> 0..(MaxDelay - 1)]
  BY BridgeAssumption DEF AfterAttempt, Owned, TypeOK
<1>3. session' = NoLoop /\ failures' \in [Loops -> 0..6]
  BY DEF AfterAttempt, Finally, Owned, TypeOK
<1>4. TypeOK'
  BY <1>1, <1>2, <1>3 DEF AfterAttempt, Owned, TypeOK, callers, Session
<1>5. QED
  BY <1>3, <1>4 DEF Owned, SessionHasOwner

LEMMA DisownFact ==
  ASSUME TypeOK, NEW l \in Loops, Disown(l)
  PROVE  /\ link' \in [Loops -> BOOLEAN] /\ call' = call
         /\ held' \in [Tools -> Session \cup {Closed}]
BY DEF Disown, TypeOK

LEMMA NextOwned == Owned /\ [Next]_vars => Owned'
<1> SUFFICES ASSUME Owned, [Next]_vars PROVE Owned'
  OBVIOUS
<1> USE DEF Owned, TypeOK, SessionHasOwner, Session, Running, Attached, Goto,
            bridge, task, callers, tools
<1>1. ASSUME NEW l \in Loops, LoopStarts(l) PROVE Owned'
  BY <1>1 DEF LoopStarts, NextAttempt
<1>2. ASSUME NEW l \in Loops, TransportOpens(l) PROVE Owned'
  BY <1>2 DEF TransportOpens
<1>3. ASSUME NEW l \in Loops, HandshakeCompletes(l) PROVE Owned'
  BY <1>3 DEF HandshakeCompletes
<1>4. ASSUME NEW l \in Loops, HoldEnds(l) PROVE Owned'
  BY <1>4 DEF HoldEnds
<1>5. ASSUME NEW l \in Loops, ConnectionLost(l) PROVE Owned'
  BY <1>5 DEF ConnectionLost
<1>6. ASSUME NEW l \in Loops, OpenFails(l) PROVE Owned'
  <2>1. OneMore(failures[l]) \in 0..6
    BY DelayFact
  <2>2. QED
    BY <1>6, <2>1, AfterAttemptFact DEF OpenFails
<1>7. ASSUME NEW l \in Loops, Unwound(l) PROVE Owned'
  <2>1. failures[l] \in 0..6 /\ OneMore(failures[l]) \in 0..6
    BY DelayFact
  <2>2. PICK n \in 0..6 : AfterAttempt(l, n)
    BY <1>7, <2>1 DEF Unwound
  <2>3. Disown(l)
    BY <1>7 DEF Unwound
  <2>4. QED
    BY <2>2, <2>3, DisownFact, AfterAttemptFact
<1>8. ASSUME NEW l \in Loops, SliceEnds(l) PROVE Owned'
  <2>1. slept' \in [Loops -> 0..(MaxDelay - 1)]
    BY <1>8, DelayFact, BridgeAssumption DEF SliceEnds, SlicesLeft
  <2>2. pc' \in [Loops -> Running \cup {"unborn", "done"}]
    BY <1>8 DEF SliceEnds, NextAttempt
  <2>3. session # NoLoop => pc'[session] = pc[session]
    BY <1>8 DEF SliceEnds, NextAttempt
  <2>4. QED
    BY <1>8, <2>1, <2>2, <2>3 DEF SliceEnds
<1>9. ASSUME NEW l \in Loops, LoopCancelled(l) PROVE Owned'
  BY <1>9 DEF LoopCancelled, LoopRuns
<1>10. ASSUME NEW l \in Loops, CancelUnwound(l) PROVE Owned'
  BY <1>10, DisownFact DEF CancelUnwound, Finally
<1>11. ASSUME NEW a \in Callers, NEW l \in Loops, Connect(a, l) PROVE Owned'
  BY <1>11 DEF Connect
<1>12. ASSUME NEW a \in Callers, ConnectReturns(a) PROVE Owned'
  BY <1>12 DEF ConnectReturns
<1>13. ASSUME NEW a \in Callers, Disconnect(a) PROVE Owned'
  BY <1>13 DEF Disconnect, StopSet
<1>14. ASSUME NEW a \in Callers, DisconnectReturns(a) PROVE Owned'
  BY <1>14 DEF DisconnectReturns
<1>15. ASSUME NEW t \in Tools, NEW kind \in {"invoke", "list"}, UseTool(t, kind)
       PROVE  Owned'
  BY <1>15 DEF UseTool
<1>16. ASSUME NEW t \in Tools, Answered(t) \/ SessionGone(t) \/ CallTimesOut(t)
       PROVE  Owned'
  BY <1>16 DEF Answered, SessionGone, CallTimesOut, ToolReturns
<1>17. CASE ServerFails
  BY <1>17 DEF ServerFails
<1>18. CASE ServerRecovers
  BY <1>18 DEF ServerRecovers
<1>19. CASE UNCHANGED vars
  BY <1>19 DEF vars
<1>20. QED
  BY <1>1, <1>2, <1>3, <1>4, <1>5, <1>6, <1>7, <1>8, <1>9, <1>10, <1>11, <1>12, <1>13,
     <1>14, <1>15, <1>16, <1>17, <1>18, <1>19 DEF Next, LoopStep, LoopMoves

LEMMA AlwaysOwned == Spec => []Owned
BY InitOwned, NextOwned, PTL DEF Spec

-----------------------------------------------------------------------------

\* The bridge's state is well-formed; in particular the sleep never outlasts
\* the cap of the backoff.
THEOREM TypeCorrect == Spec => []TypeOK
<1>1. Owned => TypeOK
  BY DEF Owned
<1>2. QED
  BY AlwaysOwned, <1>1, PTL

\* No dead session is ever left behind for the tools, even when connect() and
\* disconnect() overlap.
THEOREM SessionsAreOwned == Spec => []SessionHasOwner
<1>1. Owned => SessionHasOwner
  BY DEF Owned
<1>2. QED
  BY AlwaysOwned, <1>1, PTL

-----------------------------------------------------------------------------
(* One owner.  From here on connect() is called on an idle bridge only.  Only *)
(* one loop runs, so a published session is that loop's.                      *)

LEMMA InitAgreed == Init => Agreed
BY DEF Init, Agreed, HeldSessionPublished, NoOrphanLoop, LoopRuns, Running, Attached,
       CallsUsePublishedSession, NeverGivesUp, WaitsForTheTask, CancellingIsCancelled,
       CallsHoldSomething

LEMMA SingleOwnerFact ==
  ASSUME IInv, NEW l \in Loops, LoopRuns(l)
  PROVE  /\ session \in {NoLoop, l}
         /\ \A m \in Loops : LoopRuns(m) => m = l
         /\ current = l /\ bgTask = l /\ l \in Loops
         /\ \A t \in Tools : call[t] # "idle" => held[t] \in {l, Closed}
BY DEF IInv, Owned, Agreed, TypeOK, Session, SessionHasOwner, LoopRuns, Running, NoOrphanLoop,
       CallsUsePublishedSession, CallsHoldSomething

\* A step of a loop that leaves the bridge and its callers alone.
LEMMA QuietLoopStep ==
  ASSUME IInv, NEW l \in Loops, LoopRuns(l), NEW p \in Running \cup {"done"}, Goto(l, p),
         p \in {"handshake", "holding"} => session = l,
         p = "cancelling" => l \in cancelled', p = "done" => l \in stop \cup cancelled',
         UNCHANGED <<session, current, bgTask, stop, callers, tools>>,
         cancelled \subseteq cancelled'
  PROVE  Agreed'
<1>1. pc' = [pc EXCEPT ![l] = p] /\ pc \in [Loops -> Running \cup {"unborn", "done"}]
  BY DEF Goto, IInv, Owned, TypeOK
<1>2. \A m \in Loops : pc'[m] = IF m = l THEN p ELSE pc[m]
  BY <1>1
<1>3. HeldSessionPublished' /\ NoOrphanLoop'
  BY <1>2 DEF IInv, Agreed, HeldSessionPublished, NoOrphanLoop, LoopRuns
<1>4. NeverGivesUp' /\ CancellingIsCancelled'
  BY <1>2 DEF IInv, Agreed, NeverGivesUp, CancellingIsCancelled
<1>5. CallsUsePublishedSession' /\ CallsHoldSomething' /\ WaitsForTheTask'
  BY DEF IInv, Agreed, CallsUsePublishedSession, CallsHoldSomething, WaitsForTheTask, tools,
         callers
<1>6. QED
  BY <1>3, <1>4, <1>5 DEF Agreed

\* A step by which a loop leaves its attempt: the session is cleared and the
\* calls that hold it are left with a closed one.
LEMMA LeavingLoopStep ==
  ASSUME IInv, NEW l \in Loops, LoopRuns(l), NEW p \in {"backoff", "done"}, Goto(l, p),
         p = "done" => l \in stop \cup cancelled, session' = NoLoop,
         \A t \in Tools : call'[t] # "idle" => held'[t] = Closed,
         UNCHANGED <<current, bgTask, stop, cancelled, callers>>
  PROVE  Agreed'
<1>1. pc' = [pc EXCEPT ![l] = p] /\ pc \in [Loops -> Running \cup {"unborn", "done"}]
  BY DEF Goto, IInv, Owned, TypeOK
<1>2. \A m \in Loops : pc'[m] = IF m = l THEN p ELSE pc[m]
  BY <1>1
<1>3. \A m \in Loops : LoopRuns(m)' => m = l /\ p = "backoff"
  BY <1>2, SingleOwnerFact DEF LoopRuns, Running, Attached
<1>4. HeldSessionPublished' /\ NoOrphanLoop'
  <2>1. current' = l /\ bgTask' = l
    BY SingleOwnerFact
  <2>2. \A m \in Loops : pc'[m] \notin {"handshake", "holding"}
    BY <1>2, <1>3 DEF LoopRuns, Running, Attached
  <2>3. QED
    BY <1>3, <2>1, <2>2 DEF HeldSessionPublished, NoOrphanLoop
<1>5. NeverGivesUp' /\ CancellingIsCancelled'
  BY <1>2 DEF IInv, Agreed, NeverGivesUp, CancellingIsCancelled
<1>6. CallsUsePublishedSession' /\ CallsHoldSomething'
  BY BridgeAssumption DEF CallsUsePublishedSession, CallsHoldSomething
<1>7. WaitsForTheTask'
  BY DEF IInv, Agreed, WaitsForTheTask, callers
<1>8. QED
  BY <1>4, <1>5, <1>6, <1>7 DEF Agreed

LEMMA CallsDisowned ==
  ASSUME IInv, NEW l \in Loops, LoopRuns(l), Disown(l)
  PROVE  \A t \in Tools : call'[t] # "idle" => held'[t] = Closed
BY SingleOwnerFact DEF IInv, Owned, TypeOK, Disown

LEMMA NextAgreed == ASSUME ~Overlap PROVE IInv /\ [Next]_vars => Agreed'
<1> SUFFICES ASSUME IInv, [Next]_vars PROVE Agreed'
  OBVIOUS
<1> USE DEF Running, Attached
<1>1. ASSUME NEW l \in Loops, LoopStarts(l) PROVE Agreed'
  <2>1. LoopRuns(l)
    BY <1>1 DEF LoopStarts, LoopRuns
  <2>2. PICK p \in {"done", "opening"} : Goto(l, p) /\ (p = "done" => StopRequested)
    BY <1>1 DEF LoopStarts, NextAttempt
  <2>3. p = "done" => l \in stop
    BY <2>1, <2>2, SingleOwnerFact DEF StopRequested
  <2>4. QED
    BY <1>1, <2>1, <2>2, <2>3, QuietLoopStep DEF LoopStarts, bridge
<1>2. ASSUME NEW l \in Loops, TransportOpens(l) PROVE Agreed'
  <2>1. LoopRuns(l) /\ pc[l] = "opening"
    BY <1>2 DEF TransportOpens, LoopRuns
  <2>2. \A m \in Loops : pc'[m] = IF m = l THEN "handshake" ELSE pc[m]
    BY <1>2 DEF TransportOpens, Goto, IInv, Owned, TypeOK
  <2>3. session = NoLoop
    BY <2>1, SingleOwnerFact DEF IInv, Owned, SessionHasOwner
  <2>4. \A t \in Tools : call[t] # "idle" => held[t] = Closed
    BY <2>3 DEF IInv, Agreed, CallsUsePublishedSession, CallsHoldSomething
  <2>5. HeldSessionPublished' /\ NoOrphanLoop'
    BY <1>2, <2>1, <2>2, SingleOwnerFact
       DEF TransportOpens, HeldSessionPublished, NoOrphanLoop, LoopRuns
  <2>6. CallsUsePublishedSession' /\ CallsHoldSomething'
    BY <1>2, <2>4, BridgeAssumption
       DEF TransportOpens, CallsUsePublishedSession, CallsHoldSomething, tools
  <2>7. NeverGivesUp' /\ CancellingIsCancelled' /\ WaitsForTheTask'
    BY <1>2, <2>2 DEF TransportOpens, IInv, Agreed, NeverGivesUp, CancellingIsCancelled,
                      WaitsForTheTask, callers
  <2>8. QED
    BY <2>5, <2>6, <2>7 DEF Agreed
<1>3. ASSUME NEW l \in Loops, HandshakeCompletes(l) PROVE Agreed'
  <2>1. LoopRuns(l) /\ session = l
    BY <1>3 DEF HandshakeCompletes, LoopRuns, IInv, Agreed, HeldSessionPublished
  <2>2. QED
    BY <1>3, <2>1, QuietLoopStep DEF HandshakeCompletes
<1>4. ASSUME NEW l \in Loops, HoldEnds(l) PROVE Agreed'
  BY <1>4, QuietLoopStep DEF HoldEnds, LoopRuns, bridge
<1>5. ASSUME NEW l \in Loops, ConnectionLost(l) PROVE Agreed'
  BY <1>5, QuietLoopStep DEF ConnectionLost, LoopRuns, bridge
<1>6. ASSUME NEW l \in Loops, NEW n, AfterAttempt(l, n), LoopRuns(l),
             \A t \in Tools : call'[t] # "idle" => held'[t] = Closed
      PROVE  Agreed'
  <2>1. PICK p \in {"done", "backoff"} : Goto(l, p) /\ (p = "done" => StopRequested)
    BY <1>6 DEF AfterAttempt
  <2>2. p = "done" => l \in stop
    BY <1>6, <2>1, SingleOwnerFact DEF StopRequested
  <2>3. QED
    BY <1>6, <2>1, <2>2, LeavingLoopStep DEF AfterAttempt, Finally
<1>7. ASSUME NEW l \in Loops, OpenFails(l) PROVE Agreed'
  <2>1. LoopRuns(l) /\ pc[l] = "opening"
    BY <1>7 DEF OpenFails, LoopRuns
  <2>2. session = NoLoop
    BY <2>1, SingleOwnerFact DEF IInv, Owned, SessionHasOwner
  <2>3. \A t \in Tools : call[t] # "idle" => held[t] = Closed
    BY <2>2 DEF IInv, Agreed, CallsUsePublishedSession, CallsHoldSomething
  <2>4. QED
    BY <1>6, <1>7, <2>1, <2>3 DEF OpenFails, tools
<1>8. ASSUME NEW l \in Loops, Unwound(l) PROVE Agreed'
  <2>1. LoopRuns(l) /\ Disown(l)
    BY <1>8 DEF Unwound, LoopRuns
  <2>2. PICK n : AfterAttempt(l, n)
    BY <1>8 DEF Unwound
  <2>3. QED
    BY <1>6, <2>1, <2>2, CallsDisowned
<1>9. ASSUME NEW l \in Loops, SliceEnds(l) PROVE Agreed'
  <2>1. LoopRuns(l) /\ pc[l] = "backoff"
    BY <1>9 DEF SliceEnds, LoopRuns
  <2>2. pc \in [Loops -> Running \cup {"unborn", "done"}]
    BY DEF IInv, Owned, TypeOK
  <2>3. PICK p \in {"done", "opening", "backoff"} :
               Goto(l, p) /\ (p = "done" => StopRequested)
    <3>1. CASE SlicesLeft(l) /\ ~StopRequested
      BY <1>9, <2>1, <2>2, <3>1 DEF SliceEnds, Goto
    <3>2. CASE ~(SlicesLeft(l) /\ ~StopRequested)
      BY <1>9, <3>2 DEF SliceEnds, NextAttempt
    <3>3. QED
      BY <3>1, <3>2
  <2>4. p = "done" => l \in stop
    BY <2>1, <2>3, SingleOwnerFact DEF StopRequested
  <2>5. QED
    BY <1>9, <2>1, <2>3, <2>4, QuietLoopStep DEF SliceEnds, bridge
<1>10. ASSUME NEW l \in Loops, LoopCancelled(l) PROVE Agreed'
  <2>1. PICK p \in {"cancelling", "done"} : Goto(l, p)
    BY <1>10 DEF LoopCancelled
  <2>2. QED
    BY <1>10, <2>1, QuietLoopStep DEF LoopCancelled, bridge
<1>11. ASSUME NEW l \in Loops, CancelUnwound(l) PROVE Agreed'
  <2>1. LoopRuns(l) /\ l \in cancelled
    BY <1>11 DEF CancelUnwound, LoopRuns, IInv, Agreed, CancellingIsCancelled
  <2>2. QED
    BY <1>11, <2>1, CallsDisowned, LeavingLoopStep DEF CancelUnwound, Finally
<1>12. ASSUME NEW a \in Callers, NEW l \in Loops, Connect(a, l) PROVE Agreed'
  <2>1. Idle
    BY <1>12 DEF Connect
  <2>2. \A m \in Loops : ~LoopRuns(m)
    BY <2>1, BridgeAssumption DEF Idle, IInv, Agreed, NoOrphanLoop, LoopRuns
  <2>3. \A m \in Loops : pc'[m] = IF m = l THEN "start" ELSE pc[m]
    BY <1>12 DEF Connect, Goto, IInv, Owned, TypeOK
  <2>4. HeldSessionPublished' /\ NoOrphanLoop'
    BY <1>12, <2>2, <2>3 DEF Connect, HeldSessionPublished, NoOrphanLoop, LoopRuns
  <2>5. \A b \in Callers : op'[b] # "disconnecting"
    BY <1>12, <2>1 DEF Connect, Idle, IInv, Owned, TypeOK
  <2>6. NeverGivesUp' /\ CancellingIsCancelled' /\ WaitsForTheTask'
    BY <1>12, <2>3, <2>5 DEF Connect, IInv, Agreed, NeverGivesUp, CancellingIsCancelled,
                             WaitsForTheTask
  <2>7. CallsUsePublishedSession' /\ CallsHoldSomething'
    BY <1>12 DEF Connect, IInv, Agreed, CallsUsePublishedSession, CallsHoldSomething, tools
  <2>8. QED
    BY <2>4, <2>6, <2>7 DEF Agreed
<1>13. ASSUME NEW a \in Callers, ConnectReturns(a) PROVE Agreed'
  <2>1. WaitsForTheTask'
    BY <1>13 DEF ConnectReturns, IInv, Owned, TypeOK, Agreed, WaitsForTheTask, bridge
  <2>2. QED
    BY <1>13, <2>1 DEF ConnectReturns, bridge, task, tools, IInv, Agreed, HeldSessionPublished,
                       NoOrphanLoop, LoopRuns, CallsUsePublishedSession, NeverGivesUp,
                       CancellingIsCancelled, CallsHoldSomething
<1>14. ASSUME NEW a \in Callers, Disconnect(a) PROVE Agreed'
  <2>1. NoOrphanLoop' /\ WaitsForTheTask'
    <3>1. CASE bgTask # NoLoop /\ pc[bgTask] # "done"
      BY <1>14, <3>1 DEF Disconnect, IInv, Owned, TypeOK, Session, Agreed, WaitsForTheTask,
                         NoOrphanLoop, LoopRuns, task
    <3>2. CASE bgTask = NoLoop \/ pc[bgTask] = "done"
      <4>1. \A m \in Loops : ~LoopRuns(m)
        BY <3>2, BridgeAssumption DEF IInv, Agreed, NoOrphanLoop, LoopRuns
      <4>2. QED
        BY <1>14, <3>2, <4>1 DEF Disconnect, IInv, Agreed, WaitsForTheTask, NoOrphanLoop,
                                 LoopRuns, task, callers
    <3>3. QED
      BY <3>1, <3>2
  <2>2. stop \subseteq stop'
    BY <1>14 DEF Disconnect, StopSet
  <2>3. QED
    BY <1>14, <2>1, <2>2 DEF Disconnect, task, tools, IInv, Agreed, HeldSessionPublished,
                             CallsUsePublishedSession, NeverGivesUp, CancellingIsCancelled,
                             CallsHoldSomething
<1>15. ASSUME NEW a \in Callers, DisconnectReturns(a) PROVE Agreed'
  <2>1. \A m \in Loops : ~LoopRuns(m)
    BY <1>15, BridgeAssumption DEF DisconnectReturns, AwaitedIsDone, IInv, Agreed,
                                   WaitsForTheTask, NoOrphanLoop, LoopRuns
  <2>2. NoOrphanLoop'
    BY <1>15, <2>1 DEF DisconnectReturns, NoOrphanLoop, LoopRuns, task
  <2>3. bgTask' \in {bgTask, NoLoop}
    BY <1>15 DEF DisconnectReturns
  <2>4. WaitsForTheTask'
    BY <1>15, <2>3 DEF DisconnectReturns, IInv, Owned, TypeOK, Agreed, WaitsForTheTask
  <2>5. QED
    BY <1>15, <2>2, <2>4 DEF DisconnectReturns, task, tools, IInv, Agreed,
                             HeldSessionPublished, CallsUsePublishedSession, NeverGivesUp,
                             CancellingIsCancelled, CallsHoldSomething
<1>16. ASSUME UNCHANGED <<bridge, task, callers>>, CallsUsePublishedSession',
              CallsHoldSomething'
       PROVE  Agreed'
  BY <1>16 DEF bridge, task, callers, IInv, Agreed, HeldSessionPublished, NoOrphanLoop,
               LoopRuns, NeverGivesUp, WaitsForTheTask, CancellingIsCancelled
<1>17. ASSUME NEW t \in Tools, NEW kind \in {"invoke", "list"}, UseTool(t, kind)
       PROVE  Agreed'
  <2>1. CallsUsePublishedSession' /\ CallsHoldSomething'
    BY <1>17 DEF UseTool, bridge, IInv, Owned, TypeOK, Agreed, CallsUsePublishedSession,
                 CallsHoldSomething
  <2>2. QED
    BY <1>16, <1>17, <2>1 DEF UseTool
<1>18. ASSUME NEW t \in Tools, Answered(t) \/ SessionGone(t) \/ CallTimesOut(t)
       PROVE  Agreed'
  <2>1. ToolReturns(t)
    BY <1>18 DEF Answered, SessionGone, CallTimesOut
  <2>2. CallsUsePublishedSession' /\ CallsHoldSomething'
    BY <2>1 DEF ToolReturns, bridge, IInv, Owned, TypeOK, Agreed, CallsUsePublishedSession,
                CallsHoldSomething
  <2>3. QED
    BY <1>16, <2>1, <2>2 DEF ToolReturns
<1>19. ASSUME UNCHANGED <<bridge, task, callers, tools>> PROVE Agreed'
  <2>1. CallsUsePublishedSession' /\ CallsHoldSomething'
    BY <1>19 DEF bridge, tools, IInv, Agreed, CallsUsePublishedSession, CallsHoldSomething
  <2>2. QED
    BY <1>16, <1>19, <2>1
<1>20. QED
  BY <1>1, <1>2, <1>3, <1>4, <1>5, <1>7, <1>8, <1>9, <1>10, <1>11, <1>12, <1>13, <1>14,
     <1>15, <1>17, <1>18, <1>19
     DEF Next, LoopStep, LoopMoves, ServerFails, ServerRecovers, vars

LEMMA Invariance == ASSUME ~Overlap PROVE Spec => []IInv
<1>1. Init => IInv
  BY InitOwned, InitAgreed DEF IInv
<1>2. IInv /\ [Next]_vars => IInv'
  BY NextOwned, NextAgreed DEF IInv
<1>3. QED
  BY <1>1, <1>2, PTL DEF Spec

-----------------------------------------------------------------------------

\* Whatever runs is the task disconnect() would stop and wait for.
THEOREM OneOwner == ASSUME ~Overlap PROVE Spec => []NoOrphanLoop
<1>1. IInv => NoOrphanLoop
  BY DEF IInv, Agreed
<1>2. QED
  BY Invariance, <1>1, PTL

\* A connection its loop holds open is the one the bridge publishes.
THEOREM SessionsArePublished == ASSUME ~Overlap PROVE Spec => []HeldSessionPublished
<1>1. IInv => HeldSessionPublished
  BY DEF IInv, Agreed
<1>2. QED
  BY Invariance, <1>1, PTL

\* A tool call never talks through a session that nobody will close.
THEOREM CallsHoldTheSession == ASSUME ~Overlap PROVE Spec => []CallsUsePublishedSession
<1>1. IInv => CallsUsePublishedSession
  BY DEF IInv, Agreed
<1>2. QED
  BY Invariance, <1>1, PTL

\* No sequence of failures ends the reconnect loop.
THEOREM LoopNeverGivesUp == ASSUME ~Overlap PROVE Spec => []NeverGivesUp
<1>1. IInv => NeverGivesUp
  BY DEF IInv, Agreed
<1>2. QED
  BY Invariance, <1>1, PTL

\* When disconnect() returns, nothing runs and no session is left.
THEOREM DisconnectLeavesNothing == ASSUME ~Overlap PROVE Spec => DisconnectStops
<1>1. IInv /\ [Next]_vars
        => [\A a \in Callers : op[a] = "disconnecting" /\ op'[a] = "idle"
              => session' = NoLoop /\ \A l \in Loops : pc'[l] \in {"unborn", "done"}]_vars
  <2> SUFFICES ASSUME IInv, Next, NEW a \in Callers, op[a] = "disconnecting", op'[a] = "idle"
               PROVE  session' = NoLoop /\ \A l \in Loops : pc'[l] \in {"unborn", "done"}
    OBVIOUS
  <2>1. op # op'
    BY DEF IInv, Owned, TypeOK
  <2>2. \/ \E b \in Callers, l \in Loops : Connect(b, l)
        \/ \E b \in Callers : ConnectReturns(b) \/ Disconnect(b) \/ DisconnectReturns(b)
    BY <2>1 DEF Next, LoopStep, LoopMoves, callers, LoopStarts, TransportOpens, HandshakeCompletes,
                HoldEnds, ConnectionLost, OpenFails, AfterAttempt, Unwound, SliceEnds,
                LoopCancelled, CancelUnwound, UseTool, Answered, SessionGone, CallTimesOut,
                ToolReturns, ServerFails, ServerRecovers
  <2>3. PICK b \in Callers : DisconnectReturns(b)
    BY <2>2 DEF IInv, Owned, TypeOK, Connect, ConnectReturns, Disconnect, callers
  <2>4. \A l \in Loops : ~LoopRuns(l)
    BY <2>3, BridgeAssumption DEF DisconnectReturns, AwaitedIsDone, IInv, Agreed,
                                  WaitsForTheTask, NoOrphanLoop, LoopRuns, Running, Attached
  <2>5. session = NoLoop /\ \A l \in Loops : pc[l] \in {"unborn", "done"}
    BY <2>4 DEF IInv, Owned, TypeOK, Session, SessionHasOwner, LoopRuns, Running
  <2>6. QED
    BY <2>3, <2>5 DEF DisconnectReturns, task
<1>2. QED
  BY Invariance, <1>1, PTL DEF Spec, DisconnectStops

\* Once stop is requested no further attempt starts.
THEOREM StopIsHeeded == ASSUME ~Overlap PROVE Spec => NoAttemptAfterStop
<1>1. IInv /\ [Next]_vars
        => [\A l \in Loops : pc[l] # "opening" /\ pc'[l] = "opening" => l \notin stop]_vars
  <2> SUFFICES ASSUME IInv, Next, NEW l \in Loops, pc[l] # "opening", pc'[l] = "opening"
               PROVE  l \notin stop
    OBVIOUS
  <2> USE DEF Goto
  <2>1. pc \in [Loops -> Running \cup {"unborn", "done"}]
    BY DEF IInv, Owned, TypeOK
  <2>2. \E m \in Loops : LoopStarts(m) \/ SliceEnds(m)
    <3>1. ~(\E a \in Callers, m \in Loops : Connect(a, m))
      BY <2>1 DEF Connect
    <3>2. ~(\E a \in Callers : ConnectReturns(a) \/ Disconnect(a) \/ DisconnectReturns(a))
      BY DEF ConnectReturns, Disconnect, DisconnectReturns, task
    <3>3. ~(\E t \in Tools, kind \in {"invoke", "list"} : UseTool(t, kind))
      BY DEF UseTool, task
    <3>4. ~(\E t \in Tools : Answered(t) \/ SessionGone(t) \/ CallTimesOut(t))
      BY DEF Answered, SessionGone, CallTimesOut, ToolReturns, task
    <3>5. ~ServerFails /\ ~ServerRecovers
      BY DEF ServerFails, ServerRecovers, task
    <3>6. PICK m \in Loops : LoopStep(m) \/ LoopCancelled(m)
      BY <3>1, <3>2, <3>3, <3>4, <3>5 DEF Next
    <3>7. LoopStarts(m) \/ SliceEnds(m)
      BY <2>1, <3>6 DEF LoopStep, LoopMoves, LoopCancelled, TransportOpens, HandshakeCompletes, HoldEnds,
                        ConnectionLost, OpenFails, AfterAttempt, Unwound, CancelUnwound
    <3>8. QED
      BY <3>7
  <2>3. PICK m \in Loops : LoopStarts(m) \/ SliceEnds(m)
    BY <2>2
  <2>4. m = l /\ ~StopRequested
    BY <2>1, <2>3 DEF LoopStarts, SliceEnds, NextAttempt
  <2>5. LoopRuns(l)
    BY <2>3, <2>4 DEF LoopStarts, SliceEnds, LoopRuns, Running
  <2>6. QED
    BY <2>4, <2>5, SingleOwnerFact DEF StopRequested
<1>2. QED
  BY Invariance, <1>1, PTL DEF Spec, NoAttemptAfterStop

-----------------------------------------------------------------------------
(* MCPToolBridge implements the safety part of BridgeContract, when connect() *)
(* is called on an idle bridge only: the initial states map to initial        *)
(* states, and every step maps to a step of the contract or to a stutter.     *)
(* Beside IInv the mapping needs that a fresh loop was neither told to stop   *)
(* nor cancelled, and that a cancelled one is on its way out.                 *)

Fresh == \A l \in Loops : pc[l] = "unborn" => l \notin stop \cup cancelled /\ l # current

CancelledLeaves == \A l \in cancelled : pc[l] \in {"cancelling", "done"}

RInv == IInv /\ Fresh /\ CancelledLeaves

\* The bridge seen from outside, field by field.
Life   == IF session # NoLoop THEN IF pc[session] = "handshake" THEN "asking" ELSE "up"
            ELSE IF \E l \in Loops : LoopRuns(l) THEN "seeking" ELSE "off"
Told   == current \in stop
Killed == current \in cancelled

LEMMA Mapping ==
  /\ AbstractBridge = [life |-> Life, told |-> Told, killed |-> Killed]
  /\ AbstractBridge' = [life |-> Life', told |-> Told', killed |-> Killed']
  /\ Life \in {"off", "seeking", "asking", "up"}
  /\ Told \in BOOLEAN /\ Told' \in BOOLEAN /\ Killed \in BOOLEAN /\ Killed' \in BOOLEAN
BY DEF AbstractBridge, Life, Told, Killed

-----------------------------------------------------------------------------
(* The steps of the contract in terms of the three fields. *)

LEMMA Unchanged ==
  ASSUME Life' = Life, Told' = Told, Killed' = Killed
  PROVE  [Contract!Next]_AbstractBridge
<1>1. AbstractBridge' = AbstractBridge
  BY Mapping
<1>2. QED
  BY <1>1

LEMMA StartedFact ==
  ASSUME Life = "off", Life' = "seeking", ~Told', ~Killed'
  PROVE  [Contract!Next]_AbstractBridge
<1>1. AbstractBridge.life = "off"
  BY Mapping
<1>2. AbstractBridge' = [life |-> "seeking", told |-> FALSE, killed |-> FALSE]
  BY Mapping
<1>3. AbstractBridge' \in Contract!Started(AbstractBridge)
  BY <1>1, <1>2 DEF Contract!Started, Contract!Seeking, Contract!BridgeIs
<1>4. QED
  BY <1>3 DEF Contract!Next

LEMMA OpenedFact ==
  ASSUME Life = "seeking", Life' = "asking", Told' = Told, Killed' = Killed
  PROVE  [Contract!Next]_AbstractBridge
<1>1. AbstractBridge' \in Contract!Opened(AbstractBridge)
  BY Mapping DEF Contract!Opened, Contract!BridgeIs
<1>2. QED
  BY <1>1 DEF Contract!Next

LEMMA SettledFact ==
  ASSUME Life = "asking", Life' = "up", Told' = Told, Killed' = Killed
  PROVE  [Contract!Next]_AbstractBridge
<1>1. AbstractBridge' \in Contract!Settled(AbstractBridge)
  BY Mapping DEF Contract!Settled, Contract!BridgeIs
<1>2. QED
  BY <1>1 DEF Contract!Next

LEMMA LostFact ==
  ASSUME Life = "up", ~Told, Life' = "seeking", Told' = Told, Killed' = Killed
  PROVE  [Contract!Next]_AbstractBridge
<1>1. AbstractBridge' \in Contract!Lost(AbstractBridge)
  BY Mapping DEF Contract!Lost, Contract!BridgeIs
<1>2. QED
  BY <1>1 DEF Contract!Next

LEMMA ToldFact ==
  ASSUME Life' = Life, Told', Killed' = Killed
  PROVE  [Contract!Next]_AbstractBridge
<1>1. AbstractBridge' = [life |-> Life, told |-> TRUE, killed |-> Killed]
  BY Mapping
<1>2. AbstractBridge.life = Life /\ AbstractBridge.killed = Killed
  BY Mapping
<1>3. AbstractBridge' \in Contract!Told(AbstractBridge)
  BY <1>1, <1>2 DEF Contract!Told, Contract!BridgeIs
<1>4. QED
  BY <1>3 DEF Contract!Next

LEMMA KilledFact ==
  ASSUME Life # "off", ~Killed, Killed', Told' = Told,
         Life' \in IF Life = "seeking" THEN {"seeking", "off"} ELSE {"up"}
  PROVE  [Contract!Next]_AbstractBridge
<1>1. AbstractBridge' = [life |-> Life', told |-> Told, killed |-> TRUE]
  BY Mapping
<1>2. AbstractBridge.life = Life /\ AbstractBridge.told = Told /\ ~AbstractBridge.killed
  BY Mapping
<1>3. AbstractBridge' \in Contract!Killed(AbstractBridge)
  BY <1>1, <1>2 DEF Contract!Killed, Contract!BridgeIs
<1>4. QED
  BY <1>3 DEF Contract!Next

LEMMA EndedFact ==
  ASSUME Life \in {"seeking", "up"}, Told \/ Killed, Life' = "off", Told' = Told, Killed' = Killed
  PROVE  [Contract!Next]_AbstractBridge
<1>1. AbstractBridge' \in Contract!Ended(AbstractBridge)
  BY Mapping DEF Contract!Ended, Contract!BridgeIs
<1>2. QED
  BY <1>1 DEF Contract!Next

-----------------------------------------------------------------------------
(* A step of the running loop. *)

LEMMA RunningFact ==
  ASSUME IInv, NEW l \in Loops, LoopRuns(l)
  PROVE  /\ session \in {NoLoop, l}
         /\ Life = IF session = NoLoop THEN "seeking"
                   ELSE IF pc[l] = "handshake" THEN "asking" ELSE "up"
         /\ Told = (l \in stop)
         /\ Killed = (l \in cancelled)
         /\ session # NoLoop => pc[l] \in Attached
<1>1. session # NoLoop => session = l
  BY SingleOwnerFact DEF IInv, Owned, TypeOK, Session, SessionHasOwner, LoopRuns, Running
<1>2. QED
  BY <1>1, SingleOwnerFact DEF Life, Told, Killed, IInv, Owned, SessionHasOwner

LEMMA MovedFact ==
  ASSUME IInv, NEW l \in Loops, LoopRuns(l), NEW p \in Running \cup {"done"}, Goto(l, p),
         current' = current, session' \in {NoLoop, l}
  PROVE  /\ Life' = IF session' # NoLoop THEN IF p = "handshake" THEN "asking" ELSE "up"
                    ELSE IF p \in Running THEN "seeking" ELSE "off"
         /\ Told' = (l \in stop')
         /\ Killed' = (l \in cancelled')
<1>1. \A m \in Loops : pc'[m] = IF m = l THEN p ELSE pc[m]
  BY DEF Goto, IInv, Owned, TypeOK
<1>2. \A m \in Loops : LoopRuns(m)' <=> m = l /\ p \in Running
  BY <1>1, SingleOwnerFact DEF LoopRuns
<1>3. current = l
  BY SingleOwnerFact
<1>4. QED
  BY <1>1, <1>2, <1>3 DEF Life, Told, Killed

LEMMA LoopKeepsRInv ==
  ASSUME RInv, NEW l \in Loops, LoopRuns(l), NEW p \in Running \cup {"done"}, Goto(l, p),
         stop' = stop, current' = current, cancelled' \in {cancelled, cancelled \cup {l}},
         l \in cancelled' => p \in {"cancelling", "done"}
  PROVE  Fresh' /\ CancelledLeaves'
<1>1. \A m \in Loops : pc'[m] = IF m = l THEN p ELSE pc[m]
  BY DEF Goto, RInv, IInv, Owned, TypeOK
<1>2. cancelled \subseteq Loops
  BY DEF RInv, IInv, Owned, TypeOK
<1>3. Fresh'
  BY <1>1 DEF RInv, Fresh, Running, Attached
<1>4. CancelledLeaves'
  BY <1>1, <1>2 DEF RInv, CancelledLeaves
<1>5. QED
  BY <1>3, <1>4

\* A loop that moves on without touching the bridge, or ends as it was told to.
LEMMA LoopMovesOn ==
  ASSUME RInv, NEW l \in Loops, LoopRuns(l), pc[l] # "cancelling",
         NEW p \in (Running \ {"cancelling", "handshake"}) \cup {"done"}, Goto(l, p),
         p = "done" => StopRequested /\ session = NoLoop,
         UNCHANGED <<session, current, stop, cancelled>>
  PROVE  [Contract!Next]_AbstractBridge /\ Fresh' /\ CancelledLeaves'
<1>1. IInv /\ current = l
  BY SingleOwnerFact DEF RInv
<1>2. [Contract!Next]_AbstractBridge
  <2>1. CASE p = "done"
    BY <1>1, <2>1, RunningFact, MovedFact, EndedFact DEF StopRequested, Running, Attached
  <2>2. CASE p # "done"
    <3>1. Told' = Told /\ Killed' = Killed
      BY <1>1, RunningFact, MovedFact
    <3>2. Life' = Life \/ (Life = "asking" /\ Life' = "up")
      BY <1>1, <2>2, RunningFact, MovedFact
    <3>3. QED
      BY <3>1, <3>2, Unchanged, SettledFact
  <2>3. QED
    BY <2>1, <2>2
<1>3. l \notin cancelled
  BY DEF RInv, CancelledLeaves, LoopRuns, Running, Attached
<1>4. QED
  BY <1>2, <1>3, LoopKeepsRInv

\* A loop that leaves an attempt: it ends if it was told to, and otherwise has
\* lost the session it may have had.
LEMMA AttemptLeft ==
  ASSUME RInv, NEW l \in Loops, LoopRuns(l), pc[l] \notin {"cancelling", "handshake"},
         NEW n, AfterAttempt(l, n)
  PROVE  [Contract!Next]_AbstractBridge /\ Fresh' /\ CancelledLeaves'
<1>1. IInv /\ current = l /\ l \notin cancelled
  BY SingleOwnerFact DEF RInv, CancelledLeaves, LoopRuns, Running, Attached
<1>2. session' = NoLoop /\ UNCHANGED <<current, stop, cancelled>>
  BY DEF AfterAttempt, Finally
<1>3. CASE StopRequested
  <2>1. Goto(l, "done")
    BY <1>3 DEF AfterAttempt
  <2>2. Life' = "off" /\ Told' = Told /\ Killed' = Killed
    BY <1>1, <1>2, <2>1, RunningFact, MovedFact DEF Running, Attached
  <2>3. Told /\ Life \in {"seeking", "up"}
    BY <1>1, <1>3, RunningFact DEF StopRequested
  <2>4. QED
    BY <1>1, <1>2, <2>1, <2>2, <2>3, EndedFact, LoopKeepsRInv
<1>4. CASE ~StopRequested
  <2>1. Goto(l, "backoff")
    BY <1>4 DEF AfterAttempt
  <2>2. Life' = "seeking" /\ Told' = Told /\ Killed' = Killed
    BY <1>1, <1>2, <2>1, RunningFact, MovedFact DEF Running
  <2>3. ~Told /\ Life \in {"seeking", "up"}
    BY <1>1, <1>4, RunningFact DEF StopRequested
  <2>4. [Contract!Next]_AbstractBridge
    BY <2>2, <2>3, LostFact, Unchanged
  <2>5. QED
    BY <1>1, <1>2, <2>1, <2>4, LoopKeepsRInv DEF Running
<1>5. QED
  BY <1>3, <1>4

LEMMA StutterFact ==
  ASSUME RInv, UNCHANGED <<session, current, stop, pc, cancelled>>
  PROVE  [Contract!Next]_AbstractBridge /\ Fresh' /\ CancelledLeaves'
<1>1. Life' = Life /\ Told' = Told /\ Killed' = Killed
  BY DEF Life, Told, Killed, LoopRuns
<1>2. Fresh' /\ CancelledLeaves'
  BY DEF RInv, Fresh, CancelledLeaves
<1>3. QED
  BY <1>1, <1>2, Unchanged

-----------------------------------------------------------------------------

LEMMA InitContract == Init => Fresh /\ CancelledLeaves /\ Contract!Init
<1> SUFFICES ASSUME Init PROVE Fresh /\ CancelledLeaves /\ Contract!Init
  OBVIOUS
<1>1. Fresh /\ CancelledLeaves
  BY BridgeAssumption DEF Init, Fresh, CancelledLeaves
<1>2. Life = "off" /\ ~Told /\ ~Killed
  BY DEF Init, Life, Told, Killed, LoopRuns, Running, Attached
<1>3. AbstractBridge = [life |-> "off", told |-> FALSE, killed |-> FALSE]
  BY <1>2, Mapping
<1>4. QED
  BY <1>1, <1>3 DEF Contract!Init, Contract!NewBridge, Contract!BridgeIs

LEMMA NextContract ==
  ASSUME ~Overlap, RInv, [Next]_vars
  PROVE  [Contract!Next]_AbstractBridge /\ Fresh' /\ CancelledLeaves'
<1> DEFINE Goal == [Contract!Next]_AbstractBridge /\ Fresh' /\ CancelledLeaves'
<1>0. IInv /\ pc \in [Loops -> Running \cup {"unborn", "done"}]
  BY DEF RInv, IInv, Owned, TypeOK
<1>1. ASSUME NEW l \in Loops, LoopStarts(l) PROVE Goal
  <2>1. LoopRuns(l) /\ pc[l] = "start" /\ session = NoLoop
    BY <1>0, <1>1, RunningFact DEF LoopStarts, LoopRuns, Running, Attached
  <2>2. PICK p \in {"done", "opening"} : Goto(l, p) /\ (p = "done" => StopRequested)
    BY <1>1 DEF LoopStarts, NextAttempt
  <2>3. UNCHANGED <<session, current, stop, cancelled>>
    BY <1>1 DEF LoopStarts, bridge
  <2>4. p \in (Running \ {"cancelling", "handshake"}) \cup {"done"}
    BY DEF Running
  <2>5. QED
    BY <2>1, <2>2, <2>3, <2>4, LoopMovesOn
<1>2. ASSUME NEW l \in Loops, TransportOpens(l) PROVE Goal
  <2>1. LoopRuns(l) /\ session = NoLoop
    BY <1>0, <1>2, RunningFact DEF TransportOpens, LoopRuns, Running, Attached
  <2>2. Goto(l, "handshake") /\ session' = l /\ UNCHANGED <<current, stop, cancelled>>
    BY <1>2 DEF TransportOpens
  <2>3. Life = "seeking" /\ Told' = Told /\ Killed' = Killed
    BY <1>0, <2>1, <2>2, RunningFact, MovedFact DEF Running, Attached
  <2>4. Life' = "asking"
    BY <1>0, <2>1, <2>2, MovedFact, BridgeAssumption DEF Running, Attached
  <2>5. l \notin cancelled
    BY <1>2 DEF TransportOpens, RInv, CancelledLeaves
  <2>6. QED
    BY <2>1, <2>2, <2>3, <2>4, <2>5, OpenedFact, LoopKeepsRInv DEF Running, Attached
<1>3. ASSUME NEW l \in Loops, HandshakeCompletes(l) \/ HoldEnds(l) \/ ConnectionLost(l)
      PROVE  Goal
  <2>1. LoopRuns(l) /\ pc[l] # "cancelling"
    BY <1>3 DEF HandshakeCompletes, HoldEnds, ConnectionLost, LoopRuns, Running, Attached
  <2>2. PICK p \in {"holding", "closing", "failing"} : Goto(l, p)
    BY <1>3 DEF HandshakeCompletes, HoldEnds, ConnectionLost
  <2>3. UNCHANGED <<session, current, stop, cancelled>>
    BY <1>3 DEF HandshakeCompletes, HoldEnds, ConnectionLost, bridge
  <2>4. p \in (Running \ {"cancelling", "handshake"}) \cup {"done"} /\ p # "done"
    BY DEF Running, Attached
  <2>5. QED
    BY <2>1, <2>2, <2>3, <2>4, LoopMovesOn
<1>4. ASSUME NEW l \in Loops, OpenFails(l) \/ Unwound(l) PROVE Goal
  <2>1. LoopRuns(l) /\ pc[l] \notin {"cancelling", "handshake"}
    BY <1>4 DEF OpenFails, Unwound, LoopRuns, Running, Attached
  <2>2. PICK n : AfterAttempt(l, n)
    BY <1>4 DEF OpenFails, Unwound
  <2>3. QED
    BY <2>1, <2>2, AttemptLeft
<1>5. ASSUME NEW l \in Loops, SliceEnds(l) PROVE Goal
  <2>1. LoopRuns(l) /\ pc[l] = "backoff" /\ session = NoLoop
    BY <1>0, <1>5, RunningFact DEF SliceEnds, LoopRuns, Running, Attached
  <2>2. PICK p \in {"done", "opening", "backoff"} :
               Goto(l, p) /\ (p = "done" => StopRequested)
    <3>1. CASE SlicesLeft(l) /\ ~StopRequested
      BY <1>0, <1>5, <2>1, <3>1 DEF SliceEnds, Goto
    <3>2. CASE ~(SlicesLeft(l) /\ ~StopRequested)
      BY <1>5, <3>2 DEF SliceEnds, NextAttempt
    <3>3. QED
      BY <3>1, <3>2
  <2>3. UNCHANGED <<session, current, stop, cancelled>>
    BY <1>5 DEF SliceEnds, bridge
  <2>4. p \in (Running \ {"cancelling", "handshake"}) \cup {"done"}
    BY DEF Running
  <2>5. QED
    BY <2>1, <2>2, <2>3, <2>4, LoopMovesOn
<1>6. ASSUME NEW l \in Loops, LoopCancelled(l) PROVE Goal
  <2>1. LoopRuns(l) /\ cancelled' = cancelled \cup {l} /\ UNCHANGED <<session, current, stop>>
    BY <1>6 DEF LoopCancelled, bridge
  <2>2. l \notin cancelled
    BY <1>6 DEF LoopCancelled, RInv, CancelledLeaves, LoopRuns, Running, Attached
  <2>3. PICK p \in {"cancelling", "done"} :
               Goto(l, p) /\ (p = "done" => session = NoLoop)
    BY <1>0, <1>6, <2>1, RunningFact DEF LoopCancelled
  <2>4. p \in Running \cup {"done"}
    BY DEF Running, Attached
  <2>5. /\ Life # "off" /\ ~Killed /\ Killed' /\ Told' = Told
        /\ Life' \in IF Life = "seeking" THEN {"seeking", "off"} ELSE {"up"}
    BY <1>0, <2>1, <2>2, <2>3, <2>4, RunningFact, MovedFact DEF Running, Attached
  <2>6. QED
    BY <2>1, <2>3, <2>4, <2>5, KilledFact, LoopKeepsRInv
<1>7. ASSUME NEW l \in Loops, CancelUnwound(l) PROVE Goal
  <2>1. LoopRuns(l) /\ l \in cancelled
    BY <1>0, <1>7 DEF CancelUnwound, LoopRuns, Running, Attached, IInv, Agreed,
                      CancellingIsCancelled
  <2>2. Goto(l, "done") /\ session' = NoLoop /\ UNCHANGED <<current, stop, cancelled>>
    BY <1>7 DEF CancelUnwound, Finally
  <2>3. Life \in {"seeking", "up"} /\ Killed /\ Life' = "off" /\ Told' = Told /\ Killed' = Killed
    BY <1>0, <1>7, <2>1, <2>2, RunningFact, MovedFact DEF CancelUnwound, Running, Attached
  <2>4. QED
    BY <2>1, <2>2, <2>3, EndedFact, LoopKeepsRInv
<1>8. ASSUME NEW a \in Callers, NEW l \in Loops, Connect(a, l) PROVE Goal
  <2>1. \A m \in Loops : ~LoopRuns(m)
    BY <1>0, <1>8, BridgeAssumption DEF Connect, Idle, IInv, Agreed, NoOrphanLoop, LoopRuns,
                                         Running, Attached
  <2>2. session = NoLoop
    BY <1>0, <2>1 DEF IInv, Owned, TypeOK, Session, SessionHasOwner, LoopRuns, Running
  <2>3. \A m \in Loops : pc'[m] = IF m = l THEN "start" ELSE pc[m]
    BY <1>0, <1>8 DEF Connect, Goto
  <2>4. pc[l] = "unborn" /\ current' = l /\ UNCHANGED <<session, stop, cancelled>>
    BY <1>8 DEF Connect
  <2>5. l \notin stop \cup cancelled
    BY <2>4 DEF RInv, Fresh
  <2>6. Life = "off" /\ Life' = "seeking" /\ ~Told' /\ ~Killed'
    BY <2>1, <2>2, <2>3, <2>4, <2>5 DEF Life, Told, Killed, LoopRuns, Running
  <2>7. Fresh' /\ CancelledLeaves'
    BY <2>3, <2>4, <2>5 DEF RInv, Fresh, CancelledLeaves, IInv, Owned, TypeOK
  <2>8. QED
    BY <2>6, <2>7, StartedFact
<1>9. ASSUME NEW a \in Callers, Disconnect(a) PROVE Goal
  <2>1. UNCHANGED <<session, current, pc, cancelled>> /\ stop' = stop \cup ({current} \ {NoLoop})
    BY <1>9 DEF Disconnect, StopSet, task
  <2>2. CASE current = NoLoop
    BY <2>1, <2>2, StutterFact
  <2>3. CASE current # NoLoop
    <3>1. Life' = Life /\ Told' /\ Killed' = Killed
      BY <2>1, <2>3 DEF Life, Told, Killed, LoopRuns
    <3>2. Fresh' /\ CancelledLeaves'
      BY <2>1 DEF RInv, Fresh, CancelledLeaves
    <3>3. QED
      BY <3>1, <3>2, ToldFact
  <2>4. QED
    BY <2>2, <2>3
<1>10. ASSUME NEW a \in Callers, ConnectReturns(a) \/ DisconnectReturns(a) PROVE Goal
  BY <1>10, StutterFact DEF ConnectReturns, DisconnectReturns, bridge, task
<1>11. ASSUME UNCHANGED <<bridge, task>> PROVE Goal
  BY <1>11, StutterFact DEF bridge, task
<1>12. QED
  BY <1>1, <1>2, <1>3, <1>4, <1>5, <1>6, <1>7, <1>8, <1>9, <1>10, <1>11
     DEF Next, LoopStep, LoopMoves, UseTool, Answered, SessionGone, CallTimesOut, ToolReturns,
         ServerFails, ServerRecovers, vars

-----------------------------------------------------------------------------

\* Seen from outside, connect(), disconnect(), the reconnect loop and whatever
\* cancels it are a bridge that comes back after every loss and is off for good
\* only after it was told to stop or killed: the safety part of
\* ImplementsContract, for any number of loops, callers and tool tasks.
THEOREM BridgeImplementsContract == ASSUME ~Overlap PROVE Spec => Contract!Safety
<1>1. Init => RInv /\ Contract!Init
  BY InitOwned, InitAgreed, InitContract DEF IInv, RInv
<1>2. RInv /\ [Next]_vars => RInv' /\ [Contract!Next]_AbstractBridge
  BY NextOwned, NextAgreed, NextContract DEF IInv, RInv
<1>3. QED
  BY <1>1, <1>2, PTL DEF Spec, Contract!Safety

=============================================================================
