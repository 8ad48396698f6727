------------------------------ MODULE MCPBridge ------------------------------
(***************************************************************************)
(* platform_sdk/mcp_bridge.py, class MCPToolBridge: the background task    *)
(* that owns the SSE connection (_reconnect_loop), the tasks that start    *)
(* and stop it (connect, disconnect) and the tool calls that borrow the    *)
(* session it publishes (the closures of _make_invoke_fn and               *)
(* get_langchain_tools).                                                   *)
(*                                                                         *)
(* Everything runs on one event loop, so an action is the code between two *)
(* awaits.  connect() makes two fresh events and a fresh task each time,   *)
(* so a member of Loops names all three: the task, its _stop_event and its *)
(* _connected_event.  The loop does not keep the events it was started     *)
(* with: it reads the attributes of the bridge, which a later connect()    *)
(* replaces together; current is the connect() they belong to.             *)
(*                                                                         *)
(* External, modelled from how the code uses them: sse_client and          *)
(* ClientSession (entering, initialize, an exception out of the async with *)
(* when the connection is lost), asyncio tasks, and the MCP server.        *)
(***************************************************************************)
EXTENDS Naturals, Sequences

CONSTANTS
  Loops,      \* the connect() calls made in a run
  Callers,    \* tasks that call connect() and disconnect()
  Tools,      \* tasks that use the tools
  NoLoop,     \* None
  Closed,     \* a session object whose connection is gone
  MaxDelay,   \* the cap of the backoff, 60 in the code
  Overlap     \* may connect() be called while the bridge is in use?

ASSUME BridgeAssumption ==
  /\ NoLoop \notin Loops
  /\ Closed \notin Loops \cup {NoLoop}
  /\ MaxDelay \in 1..60
  /\ Overlap \in BOOLEAN

VARIABLES
  session,    \* self._session: whose connection it belongs to
  current,    \* self._stop_event and self._connected_event: whose they are
  bgTask,     \* self._bg_task
  stop,       \* the stop events that are set
  connected,  \* the connected events that are set
  pc,         \* where each loop task is
  failures,   \* its consecutive_failures
  slept,      \* its elapsed
  waits,      \* the stop event whose wait() it is in
  raised,     \* the loops that ended in CancelledError
  link,       \* environment: the connection of a loop is alive
  serverUp,   \* environment: the MCP server accepts and answers
  op,         \* what each caller is inside of
  on,         \* the event or task it waits for
  call,       \* what each tool task is inside of
  held,       \* the session it captured
  cancelled   \* history: the loops something cancelled

bridge  == <<session, current, bgTask, stop, connected>>
task    == <<pc, failures, slept, waits, raised, cancelled>>
callers == <<op, on>>
tools   == <<call, held>>
vars    == <<bridge, task, link, serverUp, callers, tools>>

-----------------------------------------------------------------------------
(* The backoff: delay = min(2 ** consecutive_failures, MaxDelay). *)

Powers == <<1, 2, 4, 8, 16, 32, 64>>

Delay(n) == IF Powers[n + 1] < MaxDelay THEN Powers[n + 1] ELSE MaxDelay

\* consecutive_failures + 1, saturated where the delay no longer grows.
OneMore(n) == IF Powers[n + 1] < MaxDelay THEN n + 1 ELSE n

-----------------------------------------------------------------------------

Session == Loops \cup {NoLoop}

\* Inside the async with: the transport is open or being closed.
Attached == {"handshake", "holding", "closing", "failing", "cancelling"}
Running  == Attached \cup {"start", "opening", "backoff"}

LoopRuns(l) == pc[l] \in Running

\* Nobody is inside connect() or disconnect() and the task, if any, is over.
Idle ==
  /\ \A a \in Callers : op[a] = "idle"
  /\ bgTask # NoLoop => pc[bgTask] = "done"

\* self._stop_event.is_set(), read through the attribute.
StopRequested == current \in stop

\* The session is initialized and its loop holds it open.
Ready(l) == session = l /\ pc[l] = "holding" /\ link[l]

Init ==
  /\ session = NoLoop /\ current = NoLoop /\ bgTask = NoLoop
  /\ stop = {} /\ connected = {}
  /\ pc = [l \in Loops |-> "unborn"]
  /\ failures = [l \in Loops |-> 0]
  /\ slept = [l \in Loops |-> 0]
  /\ waits = [l \in Loops |-> NoLoop]
  /\ raised = {} /\ cancelled = {}
  /\ link = [l \in Loops |-> FALSE]
  /\ serverUp \in BOOLEAN
  /\ op = [a \in Callers |-> "idle"]
  /\ on = [a \in Callers |-> NoLoop]
  /\ call = [t \in Tools |-> "idle"]
  /\ held = [t \in Tools |-> NoLoop]

-----------------------------------------------------------------------------
(* _reconnect_loop *)

Goto(l, place) == pc' = [pc EXCEPT ![l] = place]

\* Slips: the loop does not look at the stop event before another attempt; it
\* gives up once the backoff has reached its cap.
NextAttemptAlways(l) == Goto(l, "opening")
NextAttemptLimited(l) ==
  Goto(l, IF StopRequested \/ Delay(failures[l]) = MaxDelay THEN "done" ELSE "opening")

\* The test of the outer while: another attempt, or the end of the task.
NextAttempt(l) == Goto(l, IF StopRequested THEN "done" ELSE "opening")

LoopStarts(l) ==
  /\ pc[l] = "start"
  /\ NextAttempt(l)
  /\ UNCHANGED <<bridge, failures, slept, waits, raised, cancelled, link,
                 serverUp, callers, tools>>

\* sse_client and ClientSession are entered: the session is published before
\* it is initialized.
TransportOpens(l) ==
  /\ pc[l] = "opening"
  /\ serverUp
  /\ session' = l
  /\ link' = [link EXCEPT ![l] = TRUE]
  /\ Goto(l, "handshake")
  /\ UNCHANGED <<current, bgTask, stop, connected, failures, slept, waits, raised,
                 cancelled, serverUp, callers, tools>>

\* initialize() returns: the failure count is reset, the waiters of the current
\* connect() are released and the loop waits for the current stop event.
HandshakeCompletes(l) ==
  /\ pc[l] = "handshake"
  /\ link[l]
  /\ failures' = [failures EXCEPT ![l] = 0]
  /\ connected' = connected \cup {current}
  /\ waits' = [waits EXCEPT ![l] = current]
  /\ Goto(l, "holding")
  /\ UNCHANGED <<session, current, bgTask, stop, slept, raised, cancelled, link,
                 serverUp, callers, tools>>

\* The awaited stop event is set: the exit stack starts to unwind.
HoldEnds(l) ==
  /\ pc[l] = "holding"
  /\ waits[l] \in stop
  /\ Goto(l, "closing")
  /\ UNCHANGED <<bridge, failures, slept, waits, raised, cancelled, link, serverUp,
                 callers, tools>>

\* The connection is lost: the exception unwinds the exit stack.
ConnectionLost(l) ==
  /\ pc[l] \in {"handshake", "holding"}
  /\ ~link[l]
  /\ Goto(l, "failing")
  /\ UNCHANGED <<bridge, failures, slept, waits, raised, cancelled, link, serverUp,
                 callers, tools>>

\* Slip: the session is cleared only on the way to another attempt.
FinallyUnlessStopped == session' = IF StopRequested THEN session ELSE NoLoop

\* finally: self._session = None
Finally == session' = NoLoop

\* What follows the try statement: stop, or back off and try again.
AfterAttempt(l, n) ==
  /\ failures' = [failures EXCEPT ![l] = n]
  /\ Finally
  /\ IF StopRequested
       THEN Goto(l, "done") /\ UNCHANGED slept
       ELSE Goto(l, "backoff") /\ slept' = [slept EXCEPT ![l] = 0]
  /\ UNCHANGED <<current, bgTask, stop, connected, waits, raised, cancelled, serverUp,
                 callers>>

\* The server cannot be reached.
OpenFails(l) ==
  /\ pc[l] = "opening"
  /\ ~serverUp
  /\ AfterAttempt(l, OneMore(failures[l]))
  /\ UNCHANGED <<link, tools>>

\* Calls that captured the session of l are left with a closed one.
Disown(l) ==
  /\ link' = [link EXCEPT ![l] = FALSE]
  /\ held' = [t \in Tools |-> IF held[t] = l THEN Closed ELSE held[t]]
  /\ UNCHANGED call

\* The exit stack is unwound.  Closing may itself raise, which counts as a
\* failure.
Unwound(l) ==
  /\ \/ pc[l] = "failing" /\ AfterAttempt(l, OneMore(failures[l]))
     \/ pc[l] = "closing" /\ \E n \in {failures[l], OneMore(failures[l])} :
                                AfterAttempt(l, n)
  /\ Disown(l)

\* Slip: one slice too many.
SlicesLeftAndOne(l) == slept[l] + 1 <= Delay(failures[l])

\* elapsed < delay, after the slice that is ending.
SlicesLeft(l) == slept[l] + 1 < Delay(failures[l])

\* One slice of the sleep is over.
SliceEnds(l) ==
  /\ pc[l] = "backoff"
  /\ IF SlicesLeft(l) /\ ~StopRequested
       THEN slept' = [slept EXCEPT ![l] = slept[l] + 1] /\ UNCHANGED pc
       ELSE NextAttempt(l) /\ UNCHANGED slept
  /\ UNCHANGED <<bridge, failures, waits, raised, cancelled, link, serverUp,
                 callers, tools>>

\* Cancellation reaches the task: inside the try it unwinds the exit stack, in
\* the sleep or before the first step it ends the task with CancelledError.
LoopCancelled(l) ==
  /\ LoopRuns(l) /\ pc[l] # "cancelling"
  /\ cancelled' = cancelled \cup {l}
  /\ IF pc[l] \in Attached \cup {"opening"}
       THEN Goto(l, "cancelling") /\ UNCHANGED raised
       ELSE Goto(l, "done") /\ raised' = raised \cup {l}
  /\ UNCHANGED <<bridge, failures, slept, waits, link, serverUp, callers, tools>>

\* except CancelledError: break, with the finally clause.
CancelUnwound(l) ==
  /\ pc[l] = "cancelling"
  /\ Finally
  /\ Goto(l, "done")
  /\ Disown(l)
  /\ UNCHANGED <<current, bgTask, stop, connected, failures, slept, waits, raised,
                 cancelled, serverUp, callers>>

\* What the loop does without an answer of the server to initialize().
LoopMoves(l) ==
  \/ LoopStarts(l)
  \/ TransportOpens(l)
  \/ HoldEnds(l)
  \/ ConnectionLost(l)
  \/ OpenFails(l)
  \/ Unwound(l)
  \/ SliceEnds(l)
  \/ CancelUnwound(l)

LoopStep(l) == LoopMoves(l) \/ HandshakeCompletes(l)

-----------------------------------------------------------------------------
(* connect and disconnect *)

\* Without Overlap the bridge is used the way the SDK's own callers use it:
\* connect() on an idle bridge only.
Connect(a, l) ==
  /\ op[a] = "idle"
  /\ pc[l] = "unborn"
  /\ Overlap \/ Idle
  /\ current' = l
  /\ bgTask' = l
  /\ Goto(l, "start")
  /\ op' = [op EXCEPT ![a] = "connecting"]
  /\ on' = [on EXCEPT ![a] = l]
  /\ UNCHANGED <<session, stop, connected, failures, slept, waits, raised, cancelled,
                 link, serverUp, tools>>

\* connect() returns: the event is set, or startup_timeout is over (or zero).
ConnectReturns(a) ==
  /\ op[a] = "connecting"
  /\ op' = [op EXCEPT ![a] = "idle"]
  /\ on' = [on EXCEPT ![a] = NoLoop]
  /\ UNCHANGED <<bridge, task, link, serverUp, tools>>

\* Slip: only a connected bridge is told to stop.
StopSetIfConnected == IF session = NoLoop THEN stop ELSE stop \cup ({current} \ {NoLoop})

\* if self._stop_event: self._stop_event.set()
StopSet == stop \cup ({current} \ {NoLoop})

\* disconnect(): set the stop event, then await the task unless it is done.
Disconnect(a) ==
  /\ op[a] = "idle"
  /\ stop' = StopSet
  /\ IF bgTask # NoLoop /\ pc[bgTask] # "done"
       THEN /\ op' = [op EXCEPT ![a] = "disconnecting"]
            /\ on' = [on EXCEPT ![a] = bgTask]
            /\ UNCHANGED bgTask
       ELSE bgTask' = NoLoop /\ UNCHANGED callers
  /\ UNCHANGED <<session, current, connected, task, link, serverUp, tools>>

\* Slip: disconnect() does not wait for the task.
AwaitedReturnsAtOnce(a) == TRUE

\* await self._bg_task
AwaitedIsDone(a) == pc[on[a]] = "done"

\* The awaited task is done.  Its CancelledError is not an Exception: it leaves
\* disconnect() before _bg_task is cleared.
DisconnectReturns(a) ==
  /\ op[a] = "disconnecting"
  /\ AwaitedIsDone(a)
  /\ bgTask' = IF on[a] \in raised THEN bgTask ELSE NoLoop
  /\ op' = [op EXCEPT ![a] = "idle"]
  /\ on' = [on EXCEPT ![a] = NoLoop]
  /\ UNCHANGED <<session, current, stop, connected, task, link, serverUp, tools>>

-----------------------------------------------------------------------------
(* Tool calls: invoke() and get_langchain_tools() *)

\* Without a session both return at once (the message, the empty list).
UseTool(t, kind) ==
  /\ call[t] = "idle"
  /\ session # NoLoop
  /\ call' = [call EXCEPT ![t] = kind]
  /\ held' = [held EXCEPT ![t] = session]
  /\ UNCHANGED <<bridge, task, link, serverUp, callers>>

ToolReturns(t) ==
  /\ call' = [call EXCEPT ![t] = "idle"]
  /\ held' = [held EXCEPT ![t] = NoLoop]
  /\ UNCHANGED <<bridge, task, link, serverUp, callers>>

\* The server answers over the captured session.
Answered(t) ==
  /\ call[t] # "idle"
  /\ held[t] \in Loops /\ link[held[t]]
  /\ ToolReturns(t)

\* The captured session is closed: the request raises, which invoke() turns
\* into an error string and get_langchain_tools() lets through.
SessionGone(t) ==
  /\ call[t] # "idle"
  /\ held[t] = Closed
  /\ ToolReturns(t)

\* Slip: call_tool is awaited without wait_for.
CallNeverTimesOut(t) == FALSE /\ ToolReturns(t)

\* wait_for around call_tool; list_tools has no timeout of its own.
CallTimesOut(t) ==
  /\ call[t] = "invoke"
  /\ ToolReturns(t)

-----------------------------------------------------------------------------
(* Environment *)

\* The server goes down, and every connection with it, or comes back.
ServerFails ==
  /\ serverUp
  /\ serverUp' = FALSE
  /\ link' = [l \in Loops |-> FALSE]
  /\ UNCHANGED <<bridge, task, callers, tools>>

ServerRecovers ==
  /\ ~serverUp
  /\ serverUp' = TRUE
  /\ UNCHANGED <<bridge, task, link, callers, tools>>

Next ==
  \/ \E l \in Loops : LoopStep(l) \/ LoopCancelled(l)
  \/ \E a \in Callers, l \in Loops : Connect(a, l)
  \/ \E a \in Callers : ConnectReturns(a) \/ Disconnect(a) \/ DisconnectReturns(a)
  \/ \E t \in Tools, kind \in {"invoke", "list"} : UseTool(t, kind)
  \/ \E t \in Tools : Answered(t) \/ SessionGone(t) \/ CallTimesOut(t)
  \/ ServerFails
  \/ ServerRecovers

Spec == Init /\ [][Next]_vars

\* The event loop runs every ready task, the timeouts of sse_client end every
\* attempt to open the transport, startup_timeout ends connect() and
\* tool_call_timeout a call.  Nobody has to call anything and the server owes
\* nothing, not even an answer to initialize(), which no timeout ends.
Fairness ==
  /\ \A l \in Loops : WF_vars(LoopMoves(l))
  /\ \A a \in Callers : WF_vars(ConnectReturns(a)) /\ WF_vars(DisconnectReturns(a))
  /\ \A t \in Tools : WF_vars(SessionGone(t)) /\ WF_vars(CallTimesOut(t))

FairSpec == Spec /\ Fairness

=============================================================================
