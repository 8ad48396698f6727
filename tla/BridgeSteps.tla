------------------------------ MODULE BridgeSteps ------------------------------
(***************************************************************************)
(* What MCPToolBridge promises the code that holds one: a bridge is off,   *)
(* seeking a session, asking (the session is published, the server has not *)
(* answered initialize()) or up; it takes a session up and loses it by     *)
(* itself, comes back to seeking after every loss, and is off for good     *)
(* only after it was told to stop, or after something killed its task.     *)
(*                                                                         *)
(* One operator per kind of step, from a bridge to the bridges it may      *)
(* become: BridgeContract is the specification made of them, which         *)
(* MCPBridge implements, and AgentApp runs a matrix of bridges on them.    *)
(***************************************************************************)
EXTENDS Naturals

Bridge == [life : {"off", "seeking", "asking", "up"}, told : BOOLEAN, killed : BOOLEAN]

\* A bridge by its fields.
BridgeIs(life, told, killed) == [life |-> life, told |-> told, killed |-> killed]

NewBridge == BridgeIs("off", FALSE, FALSE)

\* connect() on a bridge that is off.
Seeking == BridgeIs("seeking", FALSE, FALSE)
Started(b) == {s \in {Seeking} : b.life = "off"}

\* The loop publishes a session, also when it was told to stop meanwhile.
Opened(b) == {s \in {BridgeIs("asking", b.told, b.killed)} : b.life = "seeking"}

\* The handshake is over: initialize() returned, or its connection broke.
Settled(b) == {s \in {BridgeIs("up", b.told, b.killed)} : b.life = "asking"}

\* The session is lost: the loop backs off and seeks another.
Lost(b) == {s \in {BridgeIs("seeking", b.told, b.killed)} : b.life = "up" /\ ~b.told}

\* disconnect() sets the stop event; it has one once connect() was called.
Told(b) == {BridgeIs(b.life, TRUE, b.killed)}

\* The task is cancelled: between two attempts it may be over at once, within
\* one it leaves the handshake if it is there and closes the connection.
Killed(b) == {s \in {BridgeIs(l, b.told, TRUE) :
                        l \in IF b.life = "seeking" THEN {"seeking", "off"} ELSE {"up"}} :
                b.life # "off" /\ ~b.killed}

\* The loop ends, and its session with it.
Ended(b) == {s \in {BridgeIs("off", b.told, b.killed)} :
               b.life \in {"seeking", "up"} /\ (b.told \/ b.killed)}

\* is_connected: there is a session.
IsConnected(b) == b.life \in {"asking", "up"}

=============================================================================
