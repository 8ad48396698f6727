----------------------------- MODULE AgentProofs -----------------------------
(***************************************************************************)
(* Three sides of an agent. The first is its lifespan (AgentApp): what it  *)
(* leaves behind and what its readiness says, for any number of servers,   *)
(* whichever host runs the bridges.                                        *)
(*                                                                         *)
(* The invariant relates the stage of the host to the bridges: nothing is  *)
(* told to stop before the last loop (ToldLate), which leaves off every    *)
(* bridge it has been through (Passed), and a bridge that was started is   *)
(* off only if it was told to stop (OffWhenTold).                          *)
(*                                                                         *)
(* The second is what its model is sent (Compaction), for any history and  *)
(* every limit. What the recursive functions Tokens and Only compute is    *)
(* proved by induction over sequences, which the theorem WFMin gives: its  *)
(* parameters are sets, so it yields the least number of a set, and that   *)
(* yields induction for a set of numbers and for a set of sequences.       *)
(*                                                                         *)
(* The third is the configuration it is built from (ConfigLoader), for     *)
(* files that nest as deep as one likes, by induction over the depth.      *)
(***************************************************************************)
EXTENDS AgentApp, Compaction, ConfigLoader, SequenceTheorems, WellFoundedInduction, TLAPS

-----------------------------------------------------------------------------
(* The lifespan of an agent *)


Stages == CallsOut \cup {"new", "lookup", "connect", "connect_all", "serving", "leaving",
                         "stopped", "failed"}
Statuses == {"none", "registered", "connected", "reconnecting", "disconnected"}

TypeOK ==
  /\ bridge \in [Names -> Bridge]
  /\ known \subseteq Names /\ connecting \subseteq Names /\ todo \subseteq Names
  /\ leaving \in Names \cup {NoName}
  /\ result \in [Names -> Statuses] /\ status \in [Names -> Statuses]
  /\ stage \in Stages
  /\ host \in {"matrix", "mcp_dependencies", "mcp_servers"}
  /\ registered \in BOOLEAN /\ listed \in BOOLEAN
  /\ deleted \in {"none", "served", "failed"}
  /\ store \in {"none", "open", "closed"}

\* Only the last loop tells a bridge to stop, and nothing kills one.
ToldLate ==
  \A n \in Names : ~bridge[n].killed /\ (bridge[n].told => stage \in {"leaving", "stopped"})

\* The agent is registered until _deregister, and the registry offers no other,
\* unless the DELETE failed or the registration did.
Listed ==
  /\ registered => /\ host # "matrix"
                   /\ stage \notin {"new", "flush", "store_disconnect", "leaving", "stopped"}
  /\ listed => registered \/ deleted = "failed" \/ raised = "new"

\* A matrix goes through its own stages, and holds no store.
MatrixStages ==
  host = "matrix" => stage \in {"new", "connect_all", "serving", "leaving", "stopped"}
                     /\ store = "none"

\* A bridge that nobody knows was never started, nor one the last loop is done with.
Passed ==
  /\ \A n \in Names \ known : bridge[n].life = "off"
  /\ stage \in {"leaving", "stopped"} =>
       \A n \in Names : bridge[n].life = "off" \/ n \in todo \/ n = leaving
  /\ stage = "stopped" => todo = {} /\ leaving = NoName
  /\ stage \in {"leaving", "stopped"} => store # "open"

OffWhenTold ==
  \A n \in Names :
    n \in connecting \/ result[n] = "reconnecting" \/ status[n] = "reconnecting"
      => bridge[n].life # "off" \/ bridge[n].told

\* What has raised.
Failed ==
  /\ raised # "nothing" => stage = "failed"
  /\ raised \in {"deregister", "flush", "store_disconnect"} => ~registered

IInv == TypeOK /\ ToldLate /\ Listed /\ MatrixStages /\ Passed /\ OffWhenTold /\ Failed

-----------------------------------------------------------------------------
(* The bridges by themselves *)

LEMMA MovesFact ==
  ASSUME NEW b \in Bridge, NEW a \in Opened(b) \cup Settled(b) \cup Lost(b)
  PROVE  a \in Bridge /\ b.life # "off" /\ a.life # "off" /\ a.told = b.told
         /\ a.killed = b.killed
BY DEF Bridge, Opened, Settled, Lost, BridgeIs

LEMMA EndsFact ==
  ASSUME NEW b \in Bridge, NEW a \in Ended(b)
  PROVE  a \in Bridge /\ a.life = "off" /\ a.told = b.told /\ a.killed = b.killed
         /\ (b.told \/ b.killed)
BY DEF Bridge, Ended, BridgeIs

LEMMA ToldFact ==
  ASSUME NEW b \in Bridge, NEW a \in Told(b)
  PROVE  a \in Bridge /\ a.life = b.life /\ a.told /\ a.killed = b.killed
<1>1. a = [life |-> b.life, told |-> TRUE, killed |-> b.killed]
  BY DEF Told, BridgeIs
<1>2. a.told = TRUE /\ a.life = b.life /\ a.killed = b.killed
  BY <1>1
<1>3. a \in Bridge
  BY <1>1 DEF Bridge
<1>4. QED
  BY <1>2, <1>3

LEMMA NewFact ==
  /\ NewBridge \in Bridge /\ NewBridge.life = "off" /\ ~NewBridge.told /\ ~NewBridge.killed
  /\ Seeking \in Bridge /\ Seeking.life = "seeking" /\ ~Seeking.told /\ ~Seeking.killed
BY DEF NewBridge, Seeking, Bridge, BridgeIs

LEMMA AfterFact ==
  /\ CallsOut = {"context", "checkpointer", "store", "dependencies", "on_started", "on_shutdown",
                 "deregister", "flush", "store_disconnect"}
  /\ \A s \in CallsOut : After[s] \in CallsOut \cup {"lookup", "serving", "leaving"}
  /\ \A s \in CallsOut : After[s] = "leaving" <=> s = "store_disconnect"
  /\ \A s \in CallsOut : After[s] \in {"flush", "store_disconnect"}
                           => s \in {"deregister", "flush"}
BY DEF CallsOut, After

-----------------------------------------------------------------------------

LEMMA InitIInv == Init => IInv
BY NewFact, NamesAssumption
   DEF Init, HealthInit, IInv, TypeOK, Stages, Statuses, ToldLate, Listed, MatrixStages,
       Passed, OffWhenTold, Failed

LEMMA BridgeMovesStep ==
  ASSUME IInv, NEW n \in Names, BridgeMoves(n), UNCHANGED app PROVE IInv'
<1> USE DEF IInv, app, registry
<1>1. PICK b \in Opened(bridge[n]) \cup Settled(bridge[n]) \cup Lost(bridge[n]) :
              bridge' = [bridge EXCEPT ![n] = b]
  BY DEF BridgeMoves
<1>2. bridge[n] \in Bridge
  BY DEF TypeOK
<1>3. b \in Bridge /\ bridge[n].life # "off" /\ b.life # "off" /\ b.told = bridge[n].told
      /\ b.killed = bridge[n].killed
  BY <1>2, MovesFact
<1>4. UNCHANGED <<known, connecting, todo, leaving, result, status, stage>>
  BY DEF BridgeMoves
<1>5. TypeOK' /\ ToldLate' /\ OffWhenTold'
  BY <1>1, <1>3, <1>4 DEF TypeOK, ToldLate, OffWhenTold
<1>6. Passed'
  BY <1>1, <1>3, <1>4 DEF TypeOK, Passed
<1>7. QED
  BY <1>4, <1>5, <1>6 DEF Listed, MatrixStages, Failed

LEMMA BridgeEndsStep ==
  ASSUME IInv, NEW n \in Names, BridgeEnds(n), UNCHANGED app PROVE IInv'
<1> USE DEF IInv, app, registry
<1>1. PICK b \in Ended(bridge[n]) : bridge' = [bridge EXCEPT ![n] = b]
  BY DEF BridgeEnds
<1>2. bridge[n] \in Bridge
  BY DEF TypeOK
<1>3. b \in Bridge /\ b.life = "off" /\ b.told = bridge[n].told /\ b.killed = bridge[n].killed
      /\ (bridge[n].told \/ bridge[n].killed)
  BY <1>2, EndsFact
<1>4. UNCHANGED <<known, connecting, todo, leaving, result, status, stage>>
  BY DEF BridgeEnds
<1>5. TypeOK' /\ ToldLate' /\ OffWhenTold'
  BY <1>1, <1>3, <1>4 DEF TypeOK, ToldLate, OffWhenTold
<1>6. Passed'
  BY <1>1, <1>3, <1>4 DEF TypeOK, Passed
<1>7. QED
  BY <1>4, <1>5, <1>6 DEF Listed, MatrixStages, Failed

\* Every connect() of the gather starts, from a stage before the first bridge.
LEMMA ConnectsStep ==
  ASSUME IInv, GatherConnects, stage \in {"new", "lookup"},
         stage' \in {"connect", "connect_all"},
         host = "matrix" => stage' = "connect_all", registered => stage' = "connect",
         UNCHANGED <<known, todo, leaving, result, status, app>>
  PROVE  IInv'
<1> USE DEF IInv, app, registry
<1>1. \A n \in Names : bridge'[n] = IF n \in known THEN Seeking ELSE bridge[n]
  BY DEF GatherConnects
<1>2. TypeOK'
  BY NewFact DEF GatherConnects, TypeOK, Stages
<1>3. ToldLate' /\ OffWhenTold'
  BY <1>1, NewFact DEF GatherConnects, TypeOK, ToldLate, OffWhenTold
<1>4. Passed'
  BY <1>1, NewFact DEF TypeOK, Passed
<1>5. Listed' /\ MatrixStages' /\ Failed'
  BY DEF Listed, MatrixStages, Failed
<1>6. QED
  BY <1>2, <1>3, <1>4, <1>5

LEMMA LoopsStep == ASSUME IInv, Loops, UNCHANGED app PROVE IInv'
<1> USE DEF IInv, app, registry
<1>1. ASSUME NEW n \in Names, ConnectReturns(n) PROVE IInv'
  <2>1. UNCHANGED <<bridge, known, todo, leaving, status, stage>>
        /\ connecting' \subseteq connecting /\ n \in connecting
    BY <1>1 DEF ConnectReturns, ConnectEnds, bridges
  <2>2. PICK r \in {"connected", "reconnecting"} : result' = [result EXCEPT ![n] = r]
    BY <1>1 DEF ConnectReturns
  <2>3. TypeOK' /\ OffWhenTold'
    BY <2>1, <2>2 DEF TypeOK, Statuses, OffWhenTold
  <2>4. QED
    BY <2>1, <2>3 DEF ToldLate, Listed, MatrixStages, Passed, Failed
<1>2. ASSUME NEW n \in Names, DisconnectNext(n) PROVE IInv'
  <2>1. PICK b \in Told(bridge[n]) : bridge' = [bridge EXCEPT ![n] = b]
    BY <1>2 DEF DisconnectNext
  <2>2. b \in Bridge /\ b.life = bridge[n].life /\ b.told /\ b.killed = bridge[n].killed
    BY ToldFact DEF TypeOK
  <2>3. /\ stage = "leaving" /\ leaving = NoName /\ todo' = todo \ {n} /\ leaving' = n
        /\ UNCHANGED <<known, connecting, result, status, stage>>
    BY <1>2 DEF DisconnectNext
  <2>4. TypeOK' /\ ToldLate' /\ OffWhenTold'
    BY <2>1, <2>2, <2>3 DEF TypeOK, ToldLate, OffWhenTold
  <2>5. Passed'
    BY <2>1, <2>2, <2>3, NamesAssumption DEF TypeOK, Passed
  <2>6. QED
    BY <2>3, <2>4, <2>5 DEF Listed, MatrixStages, Failed
<1>3. ASSUME NEW n \in Names, DisconnectReturns(n) PROVE IInv'
  <2>1. /\ leaving = n /\ bridge[n].life = "off" /\ leaving' = NoName
        /\ status' = [status EXCEPT ![n] = "disconnected"]
        /\ UNCHANGED <<bridge, known, connecting, todo, result, stage>>
    BY <1>3 DEF DisconnectReturns, Gone, bridges
  <2>2. TypeOK' /\ ToldLate' /\ OffWhenTold' /\ Passed'
    BY <2>1 DEF TypeOK, Statuses, ToldLate, OffWhenTold, Passed
  <2>3. QED
    BY <2>1, <2>2 DEF Listed, MatrixStages, Failed
<1>4. CASE DisconnectsDone
  <2>1. /\ stage = "leaving" /\ leaving = NoName /\ todo = {} /\ stage' = "stopped"
        /\ UNCHANGED <<bridge, known, connecting, todo, leaving, result, status>>
    BY <1>4 DEF DisconnectsDone, bridges
  <2>2. TypeOK' /\ ToldLate' /\ OffWhenTold' /\ Passed'
    BY <2>1 DEF TypeOK, Stages, ToldLate, OffWhenTold, Passed
  <2>3. QED
    BY <2>1, <2>2 DEF Listed, MatrixStages, Failed
<1>5. QED
  BY <1>1, <1>2, <1>3, <1>4 DEF Loops

LEMMA MatrixSteps == ASSUME IInv, host = "matrix", MatrixStep, UNCHANGED app PROVE IInv'
<1> USE DEF IInv, app, registry
<1>0. ~registered
  BY DEF Listed, TypeOK
<1>1. ASSUME NEW n \in Names, Register(n) PROVE IInv'
  BY <1>1 DEF Register, TypeOK, Statuses, ToldLate, Listed, MatrixStages, Passed, OffWhenTold,
              Failed
<1>2. CASE ConnectAll
  BY <1>0, <1>2, ConnectsStep DEF ConnectAll
<1>3. CASE ConnectAllReturns
  BY <1>0, <1>3 DEF ConnectAllReturns, bridges, TypeOK, Stages, ToldLate, Listed, MatrixStages,
                    Passed, OffWhenTold, Failed
<1>4. CASE DisconnectAll
  BY <1>0, <1>4 DEF DisconnectAll, bridges, TypeOK, Stages, ToldLate, Listed, MatrixStages,
                    Passed, OffWhenTold, Failed
<1>5. QED
  BY <1>1, <1>2, <1>3, <1>4 DEF MatrixStep

\* What _deregister leaves is well-formed.
LEMMA RegistryTypes ==
  ASSUME TypeOK, NEW s, RegistryAfter(s)
  PROVE  registered' \in BOOLEAN /\ listed' \in BOOLEAN
         /\ deleted' \in {"none", "served", "failed"}
<1>1. CASE s = "deregister" /\ registered
  BY <1>1 DEF RegistryAfter, TypeOK
<1>2. CASE ~(s = "deregister" /\ registered)
  BY <1>2 DEF RegistryAfter, registry, TypeOK
<1>3. QED
  BY <1>1, <1>2

LEMMA AppSteps == ASSUME IInv, AppStep PROVE IInv'
<1> USE DEF IInv, app, registry, bridges
<1>1. CASE RegisterSelf
  <2>1. /\ stage = "new" /\ host # "matrix" /\ stage' = "context"
        /\ UNCHANGED <<bridge, known, connecting, todo, leaving, result, status>>
        /\ UNCHANGED <<host, deleted, store, raised>>
    BY <1>1 DEF RegisterSelf
  <2>2. registered' \in BOOLEAN /\ listed' = registered'
    BY <1>1 DEF RegisterSelf
  <2>3. TypeOK'
    BY <2>1, <2>2, AfterFact DEF TypeOK, Stages
  <2>4. Listed' /\ MatrixStages' /\ Failed'
    BY <2>1, <2>2 DEF Listed, MatrixStages, Failed
  <2>5. ToldLate' /\ Passed' /\ OffWhenTold'
    BY <2>1 DEF ToldLate, Passed, OffWhenTold
  <2>6. QED
    BY <2>3, <2>4, <2>5
<1>9. CASE RegisterFails
  BY <1>9, AfterFact DEF RegisterFails, TypeOK, Stages, ToldLate, Listed, MatrixStages, Passed,
                         OffWhenTold, Failed
<1>10. CASE RegistryDrops
  BY <1>10 DEF RegistryDrops, matrix, TypeOK, ToldLate, Listed, MatrixStages, Passed,
               OffWhenTold, Failed
<1>2. ASSUME NEW n \in Names, FindServer(n) PROVE IInv'
  BY <1>2 DEF FindServer, TypeOK, ToldLate, Listed, MatrixStages, Passed, OffWhenTold, Failed
<1>3. CASE ConnectBridges
  <2>1. host # "matrix"
    BY <1>3 DEF ConnectBridges, MatrixStages
  <2>2. QED
    BY <1>3, <2>1, ConnectsStep DEF ConnectBridges
<1>4. CASE BridgesConnected
  BY <1>4, AfterFact DEF BridgesConnected, TypeOK, Stages, ToldLate, Listed, MatrixStages,
                         Passed, OffWhenTold, Failed
<1>5. CASE CallReturns
  <2>1. /\ stage \in CallsOut /\ stage' = After[stage] /\ store' \in StoreAfter(stage)
        /\ RegistryAfter(stage)
        /\ todo' = TodoAfter(stage')
        /\ UNCHANGED <<bridge, known, connecting, leaving, result, status, host, raised>>
    BY <1>5 DEF CallReturns
  <2>2. stage' \in CallsOut \cup {"lookup", "serving", "leaving"} /\ host # "matrix"
    BY <2>1, AfterFact DEF MatrixStages
  <2>3. store' \in {"none", "open", "closed"} /\ (stage' = "leaving" => store' # "open")
    BY <2>1, AfterFact DEF StoreAfter, TypeOK
  <2>4. TypeOK'
    <3>1. todo' \subseteq Names
      BY <2>1 DEF TodoAfter, TypeOK
    <3>2. QED
      BY <2>1, <2>2, <2>3, <3>1, RegistryTypes DEF TypeOK, Stages
  <2>5. ToldLate' /\ OffWhenTold'
    BY <2>1, AfterFact DEF ToldLate, OffWhenTold
  <2>6. Listed' /\ MatrixStages' /\ Failed'
    BY <2>1, <2>2, AfterFact DEF RegistryAfter, Listed, MatrixStages, Failed
  <2>7. Passed'
    BY <2>1, <2>2, <2>3, AfterFact DEF TodoAfter, Passed
  <2>8. QED
    BY <2>4, <2>5, <2>6, <2>7
<1>6. CASE CallRaises
  <2>1. /\ stage \in CallsOut /\ stage' = "failed"
        /\ raised' = stage /\ store' \in StoreAfter(stage) \cup {store}
        /\ RegistryAfter(stage)
        /\ UNCHANGED <<bridge, known, connecting, todo, leaving, result, status, host>>
    BY <1>6 DEF CallRaises
  <2>2. TypeOK'
    BY <2>1, RegistryTypes DEF StoreAfter, TypeOK, Stages
  <2>3. ToldLate' /\ OffWhenTold' /\ Passed'
    BY <2>1, AfterFact DEF ToldLate, OffWhenTold, Passed
  <2>4. Listed' /\ MatrixStages' /\ Failed'
    <3>1. raised = "nothing" /\ host # "matrix"
      BY <2>1, AfterFact DEF Failed, MatrixStages
    <3>2. raised' = "deregister" => ~registered'
      BY <2>1 DEF RegistryAfter
    <3>3. QED
      BY <2>1, <3>1, <3>2, AfterFact DEF RegistryAfter, Listed, MatrixStages, Failed
  <2>5. QED
    BY <2>2, <2>3, <2>4
<1>7. CASE Shutdown
  BY <1>7, AfterFact DEF Shutdown, TypeOK, Stages, ToldLate, Listed, MatrixStages, Passed,
                         OffWhenTold, Failed
<1>8. QED
  BY <1>1, <1>2, <1>3, <1>4, <1>5, <1>6, <1>7, <1>9, <1>10 DEF AppStep

LEMMA Invariance == Spec => []IInv
<1>1. IInv /\ [Next]_vars => IInv'
  <2>1. ASSUME IInv, UNCHANGED vars PROVE IInv'
    BY <2>1 DEF vars, matrix, bridges, app, registry, IInv, TypeOK, ToldLate, Listed, MatrixStages, Passed,
                OffWhenTold, Failed
  <2>2. QED
    BY <2>1, BridgeMovesStep, BridgeEndsStep, LoopsStep, MatrixSteps, AppSteps DEF Next
<1>2. QED
  BY <1>1, InitIInv, PTL DEF Spec

-----------------------------------------------------------------------------

\* No bridge is told to stop while the registry still offers the agent, unless
\* its DELETE failed.
THEOREM UnlistedBeforeBridgesStop == Spec => []UnlistedFirst
<1>1. IInv => UnlistedFirst
  BY DEF IInv, ToldLate, Listed, Failed, UnlistedFirst, Unlisted
<1>2. QED
  BY Invariance, <1>1, PTL

\* An agent that stopped leaves no bridge task, no heartbeat, no open store, and
\* no entry of the registry but one whose DELETE failed.
THEOREM StoppedAgentLeavesNothing == Spec => []LeavesNothing
<1>1. IInv => LeavesNothing
  BY NamesAssumption DEF IInv, TypeOK, Listed, Passed, Failed, LeavesNothing, Unlisted
<1>2. QED
  BY Invariance, <1>1, PTL

\* readiness never reports what is not so.
THEOREM ReadinessIsTruthful == Spec => []ReportedTruthfully
<1>1. ASSUME IInv PROVE ReportedTruthfully
  <2>1. \A n \in known : BridgeStatus(n) = "reconnecting" =>
          bridge[n].life = "seeking" \/ bridge[n].told
    BY <1>1 DEF IInv, TypeOK, Bridge, OffWhenTold, BridgeStatus, IsConnected
  <2>2. stage = "stopped" => Readiness = "unavailable"
    <3>1. ASSUME stage = "stopped" PROVE \A n \in known : ~IsConnected(bridge[n])
      BY <1>1, <3>1, NamesAssumption DEF IInv, TypeOK, Passed, IsConnected
    <3>2. ASSUME stage = "stopped" PROVE {n \in known : BridgeStatus(n) = "connected"} = {}
      BY <3>1, <3>2 DEF BridgeStatus
    <3>3. QED
      BY <3>2 DEF Readiness
  <2>3. QED
    BY <2>1, <2>2 DEF ReportedTruthfully
<1>2. QED
  BY Invariance, <1>1, PTL

-----------------------------------------------------------------------------
(* Compaction: induction, and what the recursive functions of its messages *)
(* compute.                                                                *)

\* Every set of naturals that is not empty has a least one.
LEMMA LeastNumber ==
  ASSUME NEW S, S \subseteq Nat, S # {}
  PROVE  \E x \in S : \A y \in S : x <= y
<1> DEFINE Less == OpToRel(<, Nat)
<1>1. \A x, y \in Nat : x < y => <<x, y>> \in Less
  BY DEF OpToRel
<1>2. IsWellFoundedOn(Less, Nat)
  BY NatLessThanWellFounded
<1> HIDE DEF Less
<1>3. PICK x \in S : \A y \in S : ~(<<y, x>> \in Less)
  BY <1>2, WFMin
<1>4. \A y \in S : ~(y < x)
  BY <1>1, <1>3
<1>5. QED
  BY <1>4

\* Induction over the naturals, for a set of them.
LEMMA NaturalInduction ==
  ASSUME NEW P, 0 \in P, \A n \in Nat : n \in P => n + 1 \in P
  PROVE  Nat \subseteq P
<1> SUFFICES ASSUME Nat \ P # {} PROVE FALSE
  OBVIOUS
<1>1. PICK x \in Nat \ P : \A y \in Nat \ P : x <= y
  BY LeastNumber
<1>2. x # 0 /\ x - 1 \in Nat /\ x - 1 < x
  OBVIOUS
<1>3. x - 1 \in P
  BY <1>1, <1>2
<1>4. QED
  BY <1>1, <1>2, <1>3

\* Induction over sequences, for a set of them.
LEMMA SequenceInduction ==
  ASSUME NEW S, NEW P, <<>> \in P, \A s \in Seq(S), e \in S : s \in P => Append(s, e) \in P
  PROVE  Seq(S) \subseteq P
<1> DEFINE Q == {n \in Nat : \A s \in Seq(S) : Len(s) = n => s \in P}
<1>1. 0 \in Q
  BY EmptySeq
<1>2. ASSUME NEW n \in Nat, n \in Q
      PROVE  n + 1 \in Q
  <2>1. ASSUME NEW s \in Seq(S), Len(s) = n + 1
        PROVE  s \in P
    <3>1. s # <<>>
      BY <2>1, EmptySeq
    <3>2. PICK front \in Seq(S), e \in S : s = Append(front, e)
      BY <3>1, SequenceEmptyOrAppend
    <3>3. Len(front) = n
      BY <2>1, <3>2, AppendProperties, LenProperties
    <3>4. front \in P
      BY <1>2, <3>3
    <3>5. QED
      BY <3>2, <3>4
  <2>2. QED
    BY <2>1
<1>3. Nat \subseteq Q
  <2> HIDE DEF Q
  <2>1. QED
    BY <1>1, <1>2, NaturalInduction
<1>4. \A s \in Seq(S) : Len(s) \in Nat
  BY LenProperties
<1>5. QED
  BY <1>3, <1>4

\* A recursion over the prefixes of a sequence is a function: step[i] makes
\* the value for i elements of the value for i - 1.
Steps(V, v, n, step) == v \in V /\ n \in Nat /\ step \in [1 .. n -> [V -> V]]
TakesSteps(V, v, n, step) ==
  \E f \in [0 .. n -> V] : f[0] = v /\ \A i \in 1 .. n : f[i] = step[i][f[i - 1]]

LEMMA Recursion ==
  ASSUME NEW V, NEW v, NEW n, NEW step, Steps(V, v, n, step)
  PROVE  TakesSteps(V, v, n, step)
<1> USE DEF Steps
<1> DEFINE Upto(m, f) == f[0] = v /\ \A i \in 1 .. m : f[i] = step[i][f[i - 1]]
<1> DEFINE P == {m \in Nat : m <= n => \E f \in [0 .. m -> V] : Upto(m, f)}
<1>1. 0 \in P
  <2>1. [i \in 0 .. 0 |-> v] \in [0 .. 0 -> V] /\ Upto(0, [i \in 0 .. 0 |-> v])
    OBVIOUS
  <2>2. QED
    BY <2>1
<1>2. ASSUME NEW m \in Nat, m \in P
      PROVE  m + 1 \in P
  <2>1. ASSUME m + 1 <= n
        PROVE  \E f \in [0 .. m + 1 -> V] : Upto(m + 1, f)
    <3>1. PICK f \in [0 .. m -> V] : Upto(m, f)
      BY <1>2, <2>1
    <3> DEFINE g == [i \in 0 .. m + 1 |-> IF i <= m THEN f[i] ELSE step[m + 1][f[m]]]
    <3>2. f[m] \in V /\ m + 1 \in 1 .. n
      BY <2>1
    <3>3. step[m + 1] \in [V -> V]
      BY <3>2
    <3>4. step[m + 1][f[m]] \in V
      BY <3>2, <3>3
    <3>5. g \in [0 .. m + 1 -> V]
      BY <3>4
    <3>6. \A i \in 0 .. m : g[i] = f[i]
      OBVIOUS
    <3>7. g[m + 1] = step[m + 1][f[m]]
      OBVIOUS
    <3> HIDE DEF g
    <3>8. \A i \in 1 .. m + 1 : g[i] = step[i][g[i - 1]]
      <4>1. TAKE i \in 1 .. m + 1
      <4>2. CASE i = m + 1
        BY <4>2, <3>6, <3>7
      <4>3. CASE i \in 1 .. m
        <5>1. i - 1 \in 0 .. m /\ i \in 0 .. m
          BY <4>3
        <5>2. QED
          BY <3>1, <3>6, <4>3, <5>1
      <4>4. QED
        BY <4>2, <4>3
    <3>9. g[0] = v
      BY <3>1, <3>6
    <3>10. QED
      BY <3>5, <3>8, <3>9
  <2>2. QED
    BY <2>1
<1>3. n \in P
  <2>1. n \in Nat
    OBVIOUS
  <2> HIDE DEF P
  <2>2. QED
    BY <1>1, <1>2, <2>1, NaturalInduction
<1>4. QED
  BY <1>3 DEF TakesSteps

\* Two recursions that take the same steps have the same values.
InStep(n, f, g) ==
  n \in Nat /\ f[0] = g[0] /\ \A i \in 1 .. n : f[i - 1] = g[i - 1] => f[i] = g[i]
Alike(n, f, g) == \A i \in 0 .. n : f[i] = g[i]

LEMMA SameRecursion ==
  ASSUME NEW n, NEW f, NEW g, InStep(n, f, g)
  PROVE  Alike(n, f, g)
<1> USE DEF InStep
<1> DEFINE P == {i \in Nat : i <= n => f[i] = g[i]}
<1>1. 0 \in P
  OBVIOUS
<1>2. ASSUME NEW i \in Nat, i \in P
      PROVE  i + 1 \in P
  <2>1. ASSUME i + 1 <= n
        PROVE  f[i + 1] = g[i + 1]
    <3>1. i + 1 \in 1 .. n /\ f[i] = g[i] /\ (i + 1) - 1 = i
      BY <1>2, <2>1
    <3>2. QED
      BY <3>1
  <2>2. QED
    BY <2>1
<1>3. Nat \subseteq P
  <2> HIDE DEF P
  <2>1. QED
    BY <1>1, <1>2, NaturalInduction
<1>4. QED
  BY <1>3 DEF Alike

-----------------------------------------------------------------------------
Message == [role : System \cup Spoken, tokens : Nat]

\* A message is of one of the two classes.
LEMMA Classes == System \cap Spoken = {}
BY DEF System, Spoken

CountsTokens(s, sum) ==
  /\ sum \in [0 .. Len(s) -> Nat] /\ sum[0] = 0
  /\ \A i \in 1 .. Len(s) : sum[i] = sum[i - 1] + s[i].tokens
  /\ Tokens(s) = sum[Len(s)]

LEMMA TokensFunction ==
  ASSUME NEW s, s \in Seq(Message)
  PROVE  \E sum : CountsTokens(s, sum)
<1> DEFINE n == Len(s)
<1> DEFINE step == [i \in 1 .. n |-> [v \in Nat |-> v + s[i].tokens]]
<1> DEFINE sum == CHOOSE f : f = [i \in 0 .. n |-> IF i = 0 THEN 0 ELSE f[i - 1] + s[i].tokens]
<1> HIDE DEF sum, step, n
<1>1. n \in Nat /\ \A i \in 1 .. n : s[i].tokens \in Nat
  <2>1. n \in Nat /\ s \in [1 .. n -> Message]
    BY LenProperties DEF n
  <2>2. QED
    BY <2>1 DEF Message
<1>2. step \in [1 .. n -> [Nat -> Nat]]
  BY <1>1 DEF step
<1>3. \A i \in 1 .. n, v \in Nat : step[i][v] = v + s[i].tokens
  BY DEF step
<1>4. PICK g \in [0 .. n -> Nat] : g[0] = 0 /\ \A i \in 1 .. n : g[i] = step[i][g[i - 1]]
  <2>1. Steps(Nat, 0, n, step)
    BY <1>1, <1>2 DEF Steps
  <2>2. TakesSteps(Nat, 0, n, step)
    BY <2>1, Recursion
  <2>3. QED
    BY <2>2 DEF TakesSteps
<1>5. g = [i \in 0 .. n |-> IF i = 0 THEN 0 ELSE g[i - 1] + s[i].tokens]
  <2>1. \A i \in 0 .. n : g[i] = IF i = 0 THEN 0 ELSE g[i - 1] + s[i].tokens
    <3>1. TAKE i \in 0 .. n
    <3>2. CASE i # 0
      <4>1. i \in 1 .. n /\ i - 1 \in 0 .. n
        BY <1>1, <3>2
      <4>2. g[i - 1] \in Nat
        BY <4>1
      <4>3. QED
        BY <1>3, <1>4, <3>2, <4>1, <4>2
    <3>3. QED
      BY <1>4, <3>2
  <2>2. QED
    BY <2>1
<1>6. sum = [i \in 0 .. n |-> IF i = 0 THEN 0 ELSE sum[i - 1] + s[i].tokens]
  BY <1>5 DEF sum
<1>7. Tokens(s) = sum[n]
  BY DEF Tokens, n, sum
<1>8. sum[0] = 0 /\ \A i \in 1 .. n : sum[i] = sum[i - 1] + s[i].tokens
  BY <1>1, <1>6
<1>9. \A i \in 0 .. n : sum[i] = g[i]
  <2>1. \A i \in 1 .. n : sum[i - 1] = g[i - 1] => sum[i] = g[i]
    <3>1. TAKE i \in 1 .. n
    <3>2. i - 1 \in 0 .. n
      BY <1>1
    <3>3. g[i - 1] \in Nat
      BY <3>2
    <3>4. QED
      BY <1>3, <1>4, <1>8, <3>3
  <2>2. QED
    <3>1. InStep(n, sum, g)
      BY <1>1, <1>4, <1>8, <2>1 DEF InStep
    <3>2. Alike(n, sum, g)
      BY <3>1, SameRecursion
    <3>3. QED
      BY <3>2 DEF Alike
<1>10. sum \in [0 .. n -> Nat]
  <2>1. \A i \in 0 .. n : sum[i] \in Nat
    BY <1>9
  <2>2. QED
    BY <1>6, <2>1
<1>11. QED
  BY <1>7, <1>8, <1>10 DEF n, CountsTokens

PicksOut(roles, s, kept) ==
  /\ kept \in [0 .. Len(s) -> Seq(Message)] /\ kept[0] = <<>>
  /\ \A i \in 1 .. Len(s) :
       kept[i] = IF s[i].role \in roles THEN Append(kept[i - 1], s[i]) ELSE kept[i - 1]
  /\ Only(roles, s) = kept[Len(s)]

LEMMA OnlyFunction ==
  ASSUME NEW roles, NEW s, s \in Seq(Message)
  PROVE  \E kept : PicksOut(roles, s, kept)
<1> DEFINE n == Len(s)
<1> DEFINE step == [i \in 1 .. n |-> [v \in Seq(Message) |-> IF s[i].role \in roles THEN Append(v, s[i]) ELSE v]]
<1> DEFINE kept == CHOOSE f : f = [i \in 0 .. n |->
                     IF i = 0 THEN <<>> ELSE IF s[i].role \in roles THEN Append(f[i - 1], s[i]) ELSE f[i - 1]]
<1> HIDE DEF kept, step, n
<1>1. n \in Nat /\ \A i \in 1 .. n : s[i] \in Message
  BY LenProperties DEF n
<1>2. step \in [1 .. n -> [Seq(Message) -> Seq(Message)]]
  <2>1. \A i \in 1 .. n, v \in Seq(Message) : Append(v, s[i]) \in Seq(Message)
    BY <1>1, AppendProperties
  <2>2. QED
    BY <2>1 DEF step
<1>3. \A i \in 1 .. n, v \in Seq(Message) : step[i][v] = IF s[i].role \in roles THEN Append(v, s[i]) ELSE v
  BY DEF step
<1>4. PICK g \in [0 .. n -> Seq(Message)] : g[0] = <<>> /\ \A i \in 1 .. n : g[i] = step[i][g[i - 1]]
  <2>1. <<>> \in Seq(Message)
    BY EmptySeq
  <2>2. Steps(Seq(Message), <<>>, n, step)
    BY <1>1, <1>2, <2>1 DEF Steps
  <2>3. TakesSteps(Seq(Message), <<>>, n, step)
    BY <2>2, Recursion
  <2>4. QED
    BY <2>3 DEF TakesSteps
<1>5. \A i \in 1 .. n : i \in 0 .. n /\ i - 1 \in 0 .. n
  BY <1>1
<1>6. \A i \in 1 .. n : g[i] = IF s[i].role \in roles THEN Append(g[i - 1], s[i]) ELSE g[i - 1]
  <2>1. TAKE i \in 1 .. n
  <2>2. g[i - 1] \in Seq(Message)
    BY <1>5
  <2>3. QED
    BY <1>3, <1>4, <2>2
<1>7. g = [i \in 0 .. n |->
             IF i = 0 THEN <<>> ELSE IF s[i].role \in roles THEN Append(g[i - 1], s[i]) ELSE g[i - 1]]
  <2>1. \A i \in 0 .. n : i # 0 => i \in 1 .. n
    BY <1>1
  <2>2. QED
    BY <1>4, <1>6, <2>1
<1>8. kept = [i \in 0 .. n |->
                IF i = 0 THEN <<>> ELSE IF s[i].role \in roles THEN Append(kept[i - 1], s[i]) ELSE kept[i - 1]]
  BY <1>7 DEF kept
<1>9. Only(roles, s) = kept[n]
  BY DEF Only, n, kept
<1>10. kept[0] = <<>> /\ \A i \in 1 .. n :
         kept[i] = IF s[i].role \in roles THEN Append(kept[i - 1], s[i]) ELSE kept[i - 1]
  <2>1. 0 \in 0 .. n /\ \A i \in 1 .. n : i \in 0 .. n /\ i # 0
    BY <1>1
  <2>2. QED
    BY <1>8, <2>1
<1>11. \A i \in 0 .. n : kept[i] = g[i]
  <2>1. \A i \in 1 .. n : kept[i - 1] = g[i - 1] => kept[i] = g[i]
    BY <1>6, <1>10
  <2>2. InStep(n, kept, g)
    BY <1>1, <1>4, <1>10, <2>1 DEF InStep
  <2>3. Alike(n, kept, g)
    BY <2>2, SameRecursion
  <2>4. QED
    BY <2>3 DEF Alike
<1>12. kept \in [0 .. n -> Seq(Message)]
  <2>1. \A i \in 0 .. n : kept[i] \in Seq(Message)
    BY <1>11
  <2>2. QED
    BY <1>8, <2>1
<1>13. QED
  BY <1>9, <1>10, <1>12 DEF n, PicksOut

\* The messages before the last one are those of the shorter sequence.
LEMMA TokensAppend ==
  ASSUME NEW s \in Seq(Message), NEW m \in Message
  PROVE  Tokens(Append(s, m)) = Tokens(s) + m.tokens /\ Tokens(s) \in Nat
<1> DEFINE longer == Append(s, m)
<1> DEFINE n == Len(s)
<1>1. /\ n \in Nat /\ longer \in Seq(Message) /\ Len(longer) = n + 1
      /\ \A i \in 1 .. n : longer[i] = s[i]
      /\ longer[n + 1] = m
  BY LenProperties, AppendProperties
<1> HIDE DEF longer, n
<1>2. PICK f : CountsTokens(s, f)
  BY TokensFunction
<1>3. PICK g : CountsTokens(longer, g)
  BY <1>1, TokensFunction
<1>4. \A i \in 0 .. n : f[i] = g[i]
  <2>1. ASSUME NEW i \in 1 .. n, f[i - 1] = g[i - 1]
        PROVE  f[i] = g[i]
    <3>1. i \in 1 .. n + 1
      BY <1>1
    <3>2. f[i] = f[i - 1] + s[i].tokens
      BY <1>2 DEF CountsTokens, n
    <3>3. g[i] = g[i - 1] + longer[i].tokens
      BY <1>1, <1>3, <3>1 DEF CountsTokens
    <3>4. QED
      BY <1>1, <2>1, <3>2, <3>3
  <2>2. InStep(n, f, g)
    BY <1>1, <1>2, <1>3, <2>1 DEF InStep, CountsTokens
  <2>3. QED
    BY <2>2, SameRecursion DEF Alike
<1>5. f[n] = g[n] /\ g[n + 1] = g[n] + m.tokens /\ f[n] \in Nat
  <2>1. n \in 0 .. n /\ n + 1 \in 1 .. n + 1 /\ (n + 1) - 1 = n
    BY <1>1
  <2>2. g[n + 1] = g[(n + 1) - 1] + longer[n + 1].tokens
    BY <1>1, <1>3, <2>1 DEF CountsTokens
  <2>3. f[n] \in Nat
    BY <1>2, <2>1 DEF CountsTokens, n
  <2>4. QED
    BY <1>1, <1>4, <2>1, <2>2, <2>3
<1>6. QED
  BY <1>1, <1>2, <1>3, <1>5 DEF longer, n, CountsTokens

LEMMA OnlyAppend ==
  ASSUME NEW roles, NEW s \in Seq(Message), NEW m \in Message
  PROVE  /\ Only(roles, s) \in Seq(Message)
         /\ Only(roles, Append(s, m)) =
              IF m.role \in roles THEN Append(Only(roles, s), m) ELSE Only(roles, s)
<1> DEFINE longer == Append(s, m)
<1> DEFINE n == Len(s)
<1>1. /\ n \in Nat /\ longer \in Seq(Message) /\ Len(longer) = n + 1
      /\ \A i \in 1 .. n : longer[i] = s[i]
      /\ longer[n + 1] = m
  BY LenProperties, AppendProperties
<1> HIDE DEF longer, n
<1>2. PICK f : PicksOut(roles, s, f)
  BY OnlyFunction
<1>3. PICK g : PicksOut(roles, longer, g)
  BY <1>1, OnlyFunction
<1>4. \A i \in 0 .. n : f[i] = g[i]
  <2>1. ASSUME NEW i \in 1 .. n, f[i - 1] = g[i - 1]
        PROVE  f[i] = g[i]
    <3>1. i \in 1 .. n + 1
      BY <1>1
    <3>2. f[i] = IF s[i].role \in roles THEN Append(f[i - 1], s[i]) ELSE f[i - 1]
      BY <1>2 DEF PicksOut, n
    <3>3. g[i] = IF longer[i].role \in roles THEN Append(g[i - 1], longer[i]) ELSE g[i - 1]
      BY <1>1, <1>3, <3>1 DEF PicksOut
    <3>4. QED
      BY <1>1, <2>1, <3>2, <3>3
  <2>2. InStep(n, f, g)
    BY <1>1, <1>2, <1>3, <2>1 DEF InStep, PicksOut
  <2>3. QED
    BY <2>2, SameRecursion DEF Alike
<1>5. /\ f[n] = g[n] /\ f[n] \in Seq(Message)
      /\ g[n + 1] = IF m.role \in roles THEN Append(g[n], m) ELSE g[n]
  <2>1. n \in 0 .. n /\ n + 1 \in 1 .. n + 1 /\ (n + 1) - 1 = n
    BY <1>1
  <2>2. g[n + 1] = IF longer[n + 1].role \in roles THEN Append(g[(n + 1) - 1], longer[n + 1]) ELSE g[(n + 1) - 1]
    BY <1>1, <1>3, <2>1 DEF PicksOut
  <2>3. f[n] \in Seq(Message)
    BY <1>2, <2>1 DEF PicksOut, n
  <2>4. QED
    BY <1>1, <1>4, <2>1, <2>2, <2>3
<1>6. QED
  BY <1>1, <1>2, <1>3, <1>5 DEF longer, n, PicksOut

LEMMA OfNone ==
  Tokens(<<>>) = 0 /\ \A roles : Only(roles, <<>>) = <<>>
<1>1. <<>> \in Seq(Message) /\ Len(<<>>) = 0
  BY EmptySeq
<1>2. Tokens(<<>>) = 0
  <2>1. PICK sum : CountsTokens(<<>>, sum)
    BY <1>1, TokensFunction
  <2>2. QED
    BY <1>1, <2>1 DEF CountsTokens
<1>3. ASSUME NEW roles PROVE Only(roles, <<>>) = <<>>
  <2>1. PICK kept : PicksOut(roles, <<>>, kept)
    BY <1>1, OnlyFunction
  <2>2. QED
    BY <1>1, <2>1 DEF PicksOut
<1>4. QED
  BY <1>2, <1>3

-----------------------------------------------------------------------------
LEMMA OfMessages ==
  ASSUME NEW s \in Seq(Message)
  PROVE  Tokens(s) \in Nat /\ \A roles : Only(roles, s) \in Seq(Message)
<1>1. [role |-> "ai", tokens |-> 0] \in Message
  BY DEF Message, Spoken
<1>2. QED
  BY <1>1, TokensAppend, OnlyAppend

\* Both operators take a concatenation apart.
LEMMA AppendToConcat ==
  ASSUME NEW s \in Seq(Message), NEW t \in Seq(Message), NEW m \in Message
  PROVE  s \o Append(t, m) = Append(s \o t, m) /\ s \o t \in Seq(Message)
<1>1. <<m>> \in Seq(Message) /\ Append(t, m) = t \o <<m>>
  BY AppendIsConcat
<1>2. s \o t \in Seq(Message)
  BY ConcatProperties
<1>3. Append(s \o t, m) = (s \o t) \o <<m>>
  BY <1>2, AppendIsConcat
<1>4. (s \o t) \o <<m>> = s \o (t \o <<m>>)
  BY <1>1, ConcatAssociative
<1>5. QED
  BY <1>1, <1>2, <1>3, <1>4

LEMMA MessagesAssociate ==
  ASSUME NEW x \in Seq(Message), NEW y \in Seq(Message), NEW z \in Seq(Message)
  PROVE  (x \o y) \o z = x \o (y \o z)
BY ConcatAssociative

LEMMA OfConcat ==
  ASSUME NEW roles, NEW s \in Seq(Message), NEW t \in Seq(Message)
  PROVE  /\ Tokens(s \o t) = Tokens(s) + Tokens(t)
         /\ Only(roles, s \o t) = Only(roles, s) \o Only(roles, t)
<1> DEFINE P == {u \in Seq(Message) : /\ Tokens(s \o u) = Tokens(s) + Tokens(u)
                                      /\ Only(roles, s \o u) = Only(roles, s) \o Only(roles, u)}
<1>1. Tokens(s) \in Nat /\ Only(roles, s) \in Seq(Message)
  BY OfMessages
<1>2. <<>> \in P
  <2>1. s \o <<>> = s /\ Only(roles, s) \o <<>> = Only(roles, s) /\ <<>> \in Seq(Message)
    BY <1>1, ConcatEmptySeq, EmptySeq
  <2>2. QED
    BY <1>1, <2>1, OfNone
<1>3. ASSUME NEW u \in Seq(Message), NEW m \in Message, u \in P
      PROVE  Append(u, m) \in P
  <2>1. s \o Append(u, m) = Append(s \o u, m)
    BY AppendToConcat
  <2>2. s \o u \in Seq(Message) /\ Append(u, m) \in Seq(Message)
    BY ConcatProperties, AppendProperties
  <2>3. Tokens(s \o Append(u, m)) = Tokens(s) + Tokens(Append(u, m))
    <3>1. /\ Tokens(Append(s \o u, m)) = Tokens(s \o u) + m.tokens
          /\ Tokens(Append(u, m)) = Tokens(u) + m.tokens /\ Tokens(u) \in Nat
      BY <2>2, TokensAppend
    <3>2. m.tokens \in Nat
      BY DEF Message
    <3>3. QED
      BY <1>1, <1>3, <2>1, <3>1, <3>2
  <2>4. Only(roles, s \o Append(u, m)) = Only(roles, s) \o Only(roles, Append(u, m))
    <3>1. /\ Only(roles, Append(s \o u, m)) =
                IF m.role \in roles THEN Append(Only(roles, s \o u), m) ELSE Only(roles, s \o u)
          /\ Only(roles, Append(u, m)) =
                IF m.role \in roles THEN Append(Only(roles, u), m) ELSE Only(roles, u)
          /\ Only(roles, u) \in Seq(Message)
      BY <2>2, OnlyAppend
    <3>2. Append(Only(roles, s) \o Only(roles, u), m) = Only(roles, s) \o Append(Only(roles, u), m)
      <4> DEFINE a == Only(roles, s)
      <4> DEFINE b == Only(roles, u)
      <4>1. a \in Seq(Message) /\ b \in Seq(Message)
        BY <1>1, <3>1
      <4> HIDE DEF a, b
      <4>2. a \o Append(b, m) = Append(a \o b, m)
        BY <4>1, AppendToConcat
      <4>3. QED
        BY <4>2 DEF a, b
    <3>3. QED
      BY <1>3, <2>1, <3>1, <3>2
  <2>5. QED
    BY <2>2, <2>3, <2>4
<1>4. Seq(Message) \subseteq P
  <2> HIDE DEF P
  <2>1. QED
    BY <1>2, <1>3, SequenceInduction
<1>5. QED
  BY <1>4

LEMMA OfOne ==
  ASSUME NEW roles, NEW m \in Message
  PROVE  /\ Tokens(<<m>>) = m.tokens
         /\ Only(roles, <<m>>) = IF m.role \in roles THEN <<m>> ELSE <<>>
<1>1. <<>> \in Seq(Message) /\ Append(<<>>, m) = <<m>>
  BY EmptySeq, AppendProperties
<1>2. m.tokens \in Nat
  BY DEF Message
<1>3. QED
  <2>1. Tokens(Append(<<>>, m)) = Tokens(<<>>) + m.tokens
    BY <1>1, TokensAppend
  <2>2. Only(roles, Append(<<>>, m)) = IF m.role \in roles THEN Append(Only(roles, <<>>), m) ELSE Only(roles, <<>>)
    BY <1>1, OnlyAppend
  <2>3. QED
    BY <1>1, <1>2, <2>1, <2>2, OfNone

\* What is picked out weighs no more than what it is picked from, and nothing
\* of it is left when it is picked from again.
LEMMA OnlyFacts ==
  ASSUME NEW roles, NEW s \in Seq(Message)
  PROVE  /\ Tokens(Only(roles, s)) \in Nat /\ Tokens(Only(roles, s)) <= Tokens(s)
         /\ Only(roles, Only(roles, s)) = Only(roles, s)
<1> DEFINE P == {t \in Seq(Message) :
                  /\ Tokens(t) \in Nat /\ Only(roles, t) \in Seq(Message)
                  /\ Tokens(Only(roles, t)) \in Nat /\ Tokens(Only(roles, t)) <= Tokens(t)
                  /\ Only(roles, Only(roles, t)) = Only(roles, t)}
<1>1. <<>> \in P
  <2>1. PICK e : e = <<>>
    OBVIOUS
  <2>2. e \in Seq(Message) /\ Tokens(e) = 0 /\ Only(roles, e) = e
    BY <2>1, OfNone, EmptySeq
  <2>3. Tokens(Only(roles, e)) = 0 /\ Only(roles, Only(roles, e)) = Only(roles, e)
    BY <2>2
  <2>4. /\ Tokens(e) \in Nat /\ Tokens(Only(roles, e)) \in Nat
        /\ Tokens(Only(roles, e)) <= Tokens(e)
    BY <2>2, <2>3
  <2>5. e \in P
    BY <2>2, <2>3, <2>4
  <2>6. QED
    BY <2>1, <2>5
<1>2. ASSUME NEW t \in Seq(Message), NEW m \in Message, t \in P
      PROVE  Append(t, m) \in P
  <2>1. m.tokens \in Nat /\ Append(t, m) \in Seq(Message)
    BY AppendProperties DEF Message
  <2>2. /\ Tokens(Append(t, m)) = Tokens(t) + m.tokens
        /\ Only(roles, Append(t, m)) = IF m.role \in roles THEN Append(Only(roles, t), m) ELSE Only(roles, t)
    BY TokensAppend, OnlyAppend
  <2>3. CASE m.role \in roles
    <3>1. /\ Tokens(Append(Only(roles, t), m)) = Tokens(Only(roles, t)) + m.tokens
          /\ Only(roles, Append(Only(roles, t), m)) = Append(Only(roles, Only(roles, t)), m)
          /\ Append(Only(roles, t), m) \in Seq(Message)
      BY <1>2, <2>3, TokensAppend, OnlyAppend, AppendProperties
    <3>2. Only(roles, Append(t, m)) = Append(Only(roles, t), m)
      BY <2>2, <2>3
    <3>3. /\ Tokens(Append(t, m)) \in Nat
          /\ Tokens(Only(roles, Append(t, m))) \in Nat
          /\ Tokens(Only(roles, Append(t, m))) <= Tokens(Append(t, m))
      BY <1>2, <2>1, <2>2, <3>1, <3>2
    <3>4. /\ Only(roles, Only(roles, Append(t, m))) = Only(roles, Append(t, m))
          /\ Only(roles, Append(t, m)) \in Seq(Message)
      BY <1>2, <3>1, <3>2
    <3>5. QED
      BY <2>1, <3>3, <3>4
  <2>4. CASE m.role \notin roles
    BY <1>2, <2>1, <2>2, <2>4
  <2>5. QED
    BY <2>3, <2>4
<1>3. Seq(Message) \subseteq P
  <2> HIDE DEF P
  <2>1. QED
    BY <1>1, <1>2, SequenceInduction
<1>4. QED
  BY <1>3

LEMMA OnlyOfRole ==
  ASSUME NEW roles, NEW s \in Seq(Message)
  PROVE  \A i \in 1 .. Len(Only(roles, s)) : Only(roles, s)[i].role \in roles
<1> DEFINE P == {t \in Seq(Message) : \A i \in 1 .. Len(Only(roles, t)) : Only(roles, t)[i].role \in roles}
<1>1. <<>> \in P
  BY OfNone, EmptySeq
<1>2. ASSUME NEW t \in Seq(Message), NEW m \in Message, t \in P
      PROVE  Append(t, m) \in P
  <2> DEFINE kept == Only(roles, t)
  <2>1. /\ Append(t, m) \in Seq(Message) /\ kept \in Seq(Message)
        /\ Only(roles, Append(t, m)) = IF m.role \in roles THEN Append(kept, m) ELSE kept
    BY AppendProperties, OnlyAppend
  <2>2. \A i \in 1 .. Len(kept) : kept[i].role \in roles
    BY <1>2
  <2> HIDE DEF kept
  <2>3. m.role \in roles => \A i \in 1 .. Len(Append(kept, m)) : Append(kept, m)[i].role \in roles
    <3>1. /\ Len(kept) \in Nat /\ Len(Append(kept, m)) = Len(kept) + 1
          /\ \A i \in 1 .. Len(kept) : Append(kept, m)[i] = kept[i]
          /\ Append(kept, m)[Len(kept) + 1] = m
      BY <2>1, AppendProperties, LenProperties
    <3>2. \A i \in 1 .. Len(kept) + 1 : i \in 1 .. Len(kept) \/ i = Len(kept) + 1
      BY <3>1
    <3>3. QED
      BY <2>2, <3>1, <3>2
  <2>4. \A i \in 1 .. Len(Only(roles, Append(t, m))) : Only(roles, Append(t, m))[i].role \in roles
    <3>1. CASE m.role \in roles
      BY <2>1, <2>3, <3>1
    <3>2. CASE m.role \notin roles
      BY <2>1, <2>2, <3>2
    <3>3. QED
      BY <3>1, <3>2
  <2>5. QED
    BY <2>1, <2>4
<1>3. Seq(Message) \subseteq P
  <2> HIDE DEF P
  <2>1. QED
    BY <1>1, <1>2, SequenceInduction
<1>4. QED
  BY <1>3

\* Nothing is picked out of messages of another role.
LEMMA OnlyOfOthers ==
  ASSUME NEW roles, NEW s \in Seq(Message), \A i \in 1 .. Len(s) : s[i].role \notin roles
  PROVE  Only(roles, s) = <<>>
<1> DEFINE P == {t \in Seq(Message) : (\A i \in 1 .. Len(t) : t[i].role \notin roles) => Only(roles, t) = <<>>}
<1>1. <<>> \in P
  BY OfNone, EmptySeq
<1>2. ASSUME NEW t \in Seq(Message), NEW m \in Message, t \in P
      PROVE  Append(t, m) \in P
  <2>1. /\ Append(t, m) \in Seq(Message) /\ Len(t) \in Nat /\ Len(Append(t, m)) = Len(t) + 1
        /\ \A i \in 1 .. Len(t) : Append(t, m)[i] = t[i]
        /\ Append(t, m)[Len(t) + 1] = m
    BY AppendProperties, LenProperties
  <2>2. ASSUME \A i \in 1 .. Len(Append(t, m)) : Append(t, m)[i].role \notin roles
        PROVE  Only(roles, Append(t, m)) = <<>>
    <3>1. m.role \notin roles
      BY <2>1, <2>2
    <3>2. \A i \in 1 .. Len(t) : t[i].role \notin roles
      <4>1. \A i \in 1 .. Len(t) : i \in 1 .. Len(t) + 1
        BY <2>1
      <4>2. QED
        BY <2>1, <2>2, <4>1
    <3>3. QED
      BY <1>2, <3>1, <3>2, OnlyAppend
  <2>3. QED
    BY <2>1, <2>2
<1>3. Seq(Message) \subseteq P
  <2> HIDE DEF P
  <2>1. QED
    BY <1>1, <1>2, SequenceInduction
<1>4. QED
  BY <1>3

LEMMA NoOtherIsSystem ==
  ASSUME NEW s \in Seq(Message)
  PROVE  Only(Spoken, Only(System, s)) = <<>>
<1> DEFINE systems == Only(System, s)
<1>1. systems \in Seq(Message) /\ \A i \in 1 .. Len(systems) : systems[i].role \in System
  BY OfMessages, OnlyOfRole
<1> HIDE DEF systems
<1>2. \A i \in 1 .. Len(systems) : systems[i].role \notin Spoken
  BY <1>1, Classes
<1>3. Only(Spoken, systems) = <<>>
  BY <1>1, <1>2, OnlyOfOthers
<1>4. QED
  BY <1>3 DEF systems

\* What ends with t has t as a suffix.
LEMMA SuffixOfConcat ==
  ASSUME NEW S, NEW s \in Seq(S), NEW t \in Seq(S)
  PROVE  IsSuffix(t, s \o t)
<1> DEFINE u == s \o t
<1>1. /\ u \in Seq(S) /\ Len(u) = Len(s) + Len(t) /\ Len(s) \in Nat /\ Len(t) \in Nat
      /\ \A i \in 1 .. Len(t) : u[Len(s) + i] = t[i]
  <2>1. /\ u \in Seq(S) /\ Len(u) = Len(s) + Len(t) /\ Len(s) \in Nat /\ Len(t) \in Nat
        /\ \A i \in 1 .. Len(s) + Len(t) : u[i] = IF i <= Len(s) THEN s[i] ELSE t[i - Len(s)]
    BY ConcatProperties, LenProperties
  <2> HIDE DEF u
  <2>2. ASSUME NEW i \in 1 .. Len(t) PROVE u[Len(s) + i] = t[i]
    <3>1. Len(s) + i \in 1 .. Len(s) + Len(t) /\ ~(Len(s) + i <= Len(s)) /\ (Len(s) + i) - Len(s) = i
      BY <2>1
    <3>2. QED
      BY <2>1, <3>1
  <2>3. QED
    BY <2>1, <2>2
<1> HIDE DEF u
<1> DEFINE n == Len(t)
<1> DEFINE rt == Reverse(t)
<1> DEFINE ru == Reverse(u)
<1>2. /\ rt \in Seq(S) /\ Len(rt) = n /\ \A i \in 1 .. n : rt[i] = t[(n - i) + 1]
      /\ ru \in Seq(S) /\ Len(ru) = Len(u) /\ \A i \in 1 .. Len(u) : ru[i] = u[(Len(u) - i) + 1]
  <2>1. ASSUME NEW w \in Seq(S)
        PROVE  /\ Reverse(w) \in Seq(S) /\ Len(Reverse(w)) = Len(w)
               /\ \A i \in 1 .. Len(w) : Reverse(w)[i] = w[(Len(w) - i) + 1]
    <3>1. Len(w) \in Nat /\ \A i \in 1 .. Len(w) : w[i] \in S
      BY LenProperties, ElementOfSeq
    <3>2. \A i \in 1 .. Len(w) : (Len(w) - i) + 1 \in 1 .. Len(w)
      BY <3>1
    <3>3. \A i \in 1 .. Len(w) : w[(Len(w) - i) + 1] \in S
      BY <3>1, <3>2
    <3>4. QED
      BY <3>1, <3>3, IsASeq DEF Reverse
  <2>2. QED
    BY <1>1, <2>1
<1> HIDE DEF rt, ru
<1>3. \A i \in 1 .. n : rt[i] = ru[i]
  <2>1. TAKE i \in 1 .. n
  <2>2. /\ i \in 1 .. Len(u) /\ (n - i) + 1 \in 1 .. n
        /\ (Len(u) - i) + 1 = Len(s) + ((n - i) + 1)
    BY <1>1
  <2>3. QED
    BY <1>1, <1>2, <2>2
<1>4. SubSeq(rt, 1, n) = SubSeq(ru, 1, n)
  <2>1. ASSUME NEW w \in Seq(S), n <= Len(w)
        PROVE  /\ SubSeq(w, 1, n) \in Seq(S) /\ Len(SubSeq(w, 1, n)) = n
               /\ \A i \in 1 .. n : SubSeq(w, 1, n)[i] = w[i]
    <3>1. \A i \in 1 .. n : w[i] \in S
      BY <1>1, <2>1, LenProperties, ElementOfSeq
    <3>2. n \in Nat /\ (n - 1) + 1 = n /\ \A i \in 1 .. n : (1 + i) - 1 = i
      BY <1>1
    <3>3. /\ SubSeq(w, 1, n) \in Seq(S) /\ Len(SubSeq(w, 1, n)) = IF 1 <= n THEN (n - 1) + 1 ELSE 0
          /\ \A i \in 1 .. (n - 1) + 1 : SubSeq(w, 1, n)[i] = w[(1 + i) - 1]
      BY <3>1, <3>2, SubSeqProperties
    <3>4. QED
      BY <3>2, <3>3
  <2>2. n <= Len(rt) /\ n <= Len(ru)
    BY <1>1, <1>2
  <2>3. \A i \in 1 .. n : SubSeq(rt, 1, n)[i] = SubSeq(ru, 1, n)[i]
    BY <1>2, <1>3, <2>1, <2>2
  <2>4. QED
    BY <1>2, <2>1, <2>2, <2>3, SeqEqual
<1>5. QED
  BY <1>1, <1>2, <1>4 DEF IsSuffix, IsPrefix, u, rt, ru

-----------------------------------------------------------------------------
(* Trimming, the guard and the modifiers *)

\* The system messages of a conversation come first.
SystemsFirst(messages) ==
  \A i, j \in 1 .. Len(messages) : i < j /\ IsSystem(messages[j]) => IsSystem(messages[i])

LEMMA FirstAndRest ==
  ASSUME NEW S, NEW s \in Seq(S), s # <<>>
  PROVE  s = <<s[1]>> \o Tail(s) /\ s[1] \in S /\ Tail(s) \in Seq(S) /\ Len(s) \in Nat \ {0}
<1>1. Len(s) \in Nat \ {0}
  BY EmptySeq
<1>2. 1 \in 1 .. Len(s) /\ Len(s) \in 1 .. Len(s)
  BY <1>1
<1>3. SubSeq(s, 1, Len(s)) = <<s[1]>> \o SubSeq(s, 1 + 1, Len(s))
  BY <1>2, SubSeqRecursiveFirst
<1>4. SubSeq(s, 1, Len(s)) = s /\ Tail(s) = SubSeq(s, 2, Len(s)) /\ Tail(s) \in Seq(S)
  BY SubSeqFull, TailIsSubSeq, HeadTailProperties
<1>5. s[1] \in S
  BY <1>2, ElementOfSeq
<1>6. QED
  BY <1>1, <1>3, <1>4, <1>5

\* A message of the role that comes first comes first of those picked out.
LEMMA OnlyFirst ==
  ASSUME NEW s \in Seq(Message), s # <<>>, IsSystem(s[1])
  PROVE  Only(System, s) # <<>> /\ Only(System, s)[1] = s[1]
<1>1. s = <<s[1]>> \o Tail(s) /\ s[1] \in Message /\ Tail(s) \in Seq(Message)
  BY FirstAndRest
<1>2. <<s[1]>> \in Seq(Message) /\ Len(<<s[1]>>) = 1 /\ <<s[1]>>[1] = s[1]
  BY <1>1
<1>3. Only(System, s) = <<s[1]>> \o Only(System, Tail(s)) /\ Only(System, Tail(s)) \in Seq(Message)
  <2>1. Only(System, <<s[1]>> \o Tail(s)) = Only(System, <<s[1]>>) \o Only(System, Tail(s))
    BY <1>1, <1>2, OfConcat
  <2>2. Only(System, <<s[1]>>) = <<s[1]>>
    BY <1>1, OfOne DEF IsSystem
  <2>3. Only(System, Tail(s)) \in Seq(Message)
    BY <1>1, OfMessages
  <2>4. QED
    BY <1>1, <2>1, <2>2, <2>3
<1>4. /\ Len(<<s[1]>> \o Only(System, Tail(s))) = 1 + Len(Only(System, Tail(s)))
      /\ (<<s[1]>> \o Only(System, Tail(s)))[1] = s[1]
      /\ Len(Only(System, Tail(s))) \in Nat
  BY <1>2, <1>3, ConcatProperties, LenProperties
<1>5. QED
  BY <1>3, <1>4, EmptySeq

\* Where there is one of another role, and the system messages come first, the
\* last message is of another role.
LEMMA LastIsOther ==
  ASSUME NEW s \in Seq(Message), SystemsFirst(s), Only(Spoken, s) # <<>>
  PROVE  \E front \in Seq(Message), m \in Message : s = Append(front, m) /\ m.role \in Spoken
<1>1. s # <<>>
  BY OfNone
<1>2. PICK front \in Seq(Message), m \in Message : s = Append(front, m)
  BY <1>1, SequenceEmptyOrAppend
<1>3. Len(s) \in Nat /\ Len(s) = Len(front) + 1 /\ Len(front) \in Nat /\ s[Len(s)] = m
  BY <1>2, AppendProperties, LenProperties
<1>4. CASE m.role \in System
  <2>1. \A i \in 1 .. Len(s) : IsSystem(s[i])
    <3>1. TAKE i \in 1 .. Len(s)
    <3>2. IsSystem(s[Len(s)]) /\ Len(s) \in 1 .. Len(s)
      BY <1>3, <1>4 DEF IsSystem
    <3>3. CASE i < Len(s)
      BY <3>2, <3>3 DEF SystemsFirst
    <3>4. CASE i = Len(s)
      BY <3>2, <3>4
    <3>5. QED
      BY <1>3, <3>3, <3>4
  <2>2. \A i \in 1 .. Len(s) : s[i].role \notin Spoken
    BY <2>1, Classes DEF IsSystem
  <2>3. QED
    BY <2>2, OnlyOfOthers
<1>5. QED
  BY <1>2, <1>4 DEF Message

-----------------------------------------------------------------------------
\* What is trimmed lies between a leading system message and the end.
Trims(messages, limit, head, pre, sub) ==
  /\ messages = head \o (pre \o sub) /\ TrimMessages(messages, limit) = head \o sub
  /\ IF messages # <<>> /\ IsSystem(messages[1]) THEN head = <<messages[1]>> ELSE head = <<>>
  /\ Tokens(head) + Tokens(sub) <= limit \/ Tokens(sub) = 0

\* Nothing longer would have fitted.
Longest(limit, head, pre, sub) ==
  \A p, q \in Seq(Message) :
    pre \o sub = p \o q /\ Tokens(head) + Tokens(q) <= limit => Len(q) <= Len(sub)

\* The end of a concatenation is its second part.
LEMMA EndOfConcat ==
  ASSUME NEW S, NEW p \in Seq(S), NEW q \in Seq(S)
  PROVE  SubSeq(p \o q, Len(p) + 1, Len(p \o q)) = q
<1> DEFINE a == Len(p) + 1
<1> DEFINE s == p \o q
<1>1. /\ Len(p) \in Nat /\ Len(q) \in Nat /\ s \in Seq(S) /\ Len(s) = Len(p) + Len(q)
      /\ \A i \in 1 .. Len(p) + Len(q) : s[i] = IF i <= Len(p) THEN p[i] ELSE q[i - Len(p)]
  BY ConcatProperties, LenProperties
<1> HIDE DEF s
<1>2. \A i \in a .. Len(s) : s[i] \in S
  <2>1. \A i \in a .. Len(s) : i \in 1 .. Len(s)
    BY <1>1
  <2>2. QED
    BY <1>1, <2>1, ElementOfSeq
<1>3. /\ SubSeq(s, a, Len(s)) \in Seq(S) /\ Len(SubSeq(s, a, Len(s))) = Len(q)
      /\ \A i \in 1 .. Len(q) : SubSeq(s, a, Len(s))[i] = s[(a + i) - 1]
  <2>1. a \in Int /\ Len(s) \in Int /\ (Len(s) - a) + 1 = Len(q) /\ (a <= Len(s) \/ Len(q) = 0)
    BY <1>1
  <2>2. /\ SubSeq(s, a, Len(s)) \in Seq(S)
        /\ Len(SubSeq(s, a, Len(s))) = IF a <= Len(s) THEN (Len(s) - a) + 1 ELSE 0
        /\ \A i \in 1 .. (Len(s) - a) + 1 : SubSeq(s, a, Len(s))[i] = s[(a + i) - 1]
    BY <1>2, <2>1, SubSeqProperties
  <2>3. QED
    BY <1>1, <2>1, <2>2
<1>4. \A i \in 1 .. Len(q) : s[(a + i) - 1] = q[i]
  <2>1. TAKE i \in 1 .. Len(q)
  <2>2. (a + i) - 1 \in 1 .. Len(p) + Len(q) /\ ~((a + i) - 1 <= Len(p)) /\ ((a + i) - 1) - Len(p) = i
    BY <1>1
  <2>3. QED
    BY <1>1, <2>2
<1>5. QED
  BY <1>3, <1>4, SeqEqual DEF s

LEMMA TrimFacts ==
  ASSUME NEW messages \in Seq(Message), NEW limit \in Int
  PROVE  \E head, pre, sub \in Seq(Message) :
           Trims(messages, limit, head, pre, sub) /\ Longest(limit, head, pre, sub)
<1> DEFINE leads == messages # <<>> /\ IsSystem(messages[1])
<1> DEFINE head == IF leads THEN <<messages[1]>> ELSE <<>>
<1> DEFINE rest == IF leads THEN Tail(messages) ELSE messages
<1> DEFINE room == IF limit > Tokens(head) THEN limit - Tokens(head) ELSE 0
<1> DEFINE n == Len(rest)
<1> DEFINE Fits(i) == Tokens(SubSeq(rest, i, n)) <= room
<1> DEFINE first == CHOOSE i \in 1 .. n + 1 :
                      /\ Tokens(SubSeq(rest, i, n)) <= room
                      /\ \A j \in 1 .. i - 1 : Tokens(SubSeq(rest, j, n)) > room
<1>1. TrimMessages(messages, limit) = head \o SubSeq(rest, first, n)
  BY DEF TrimMessages
<1>2. head \in Seq(Message) /\ rest \in Seq(Message) /\ messages = head \o rest
  <2>1. CASE leads
    <3>1. messages = <<messages[1]>> \o Tail(messages) /\ messages[1] \in Message /\ Tail(messages) \in Seq(Message)
      BY <2>1, FirstAndRest
    <3>2. <<messages[1]>> \in Seq(Message)
      BY <3>1
    <3>3. QED
      BY <2>1, <3>1, <3>2
  <2>2. CASE ~leads
    BY <2>2, EmptySeq, ConcatEmptySeq
  <2>3. QED
    BY <2>1, <2>2
<1>3. IF messages # <<>> /\ IsSystem(messages[1]) THEN head = <<messages[1]>> ELSE head = <<>>
  OBVIOUS
<1> HIDE DEF head, rest, leads
<1>4. Tokens(head) \in Nat /\ n \in Nat /\ room \in Nat
  <2>1. Tokens(head) \in Nat
    BY <1>2, OfMessages
  <2>2. QED
    BY <1>2, <2>1, LenProperties
<1>5. /\ room + Tokens(head) <= limit \/ room = 0
      /\ \A t \in Nat : Tokens(head) + t <= limit => t <= room
  BY <1>4
<1> HIDE DEF room, n
<1>6. \A i \in 1 .. n + 1 : SubSeq(rest, i, n) \in Seq(Message) /\ Tokens(SubSeq(rest, i, n)) \in Nat
  <2>1. TAKE i \in 1 .. n + 1
  <2>2. \A k \in i .. n : rest[k] \in Message
    <3>1. \A k \in i .. n : k \in 1 .. Len(rest)
      BY <1>4 DEF n
    <3>2. QED
      BY <1>2, <3>1, ElementOfSeq
  <2>3. SubSeq(rest, i, n) \in Seq(Message)
    BY <1>4, <2>2, SubSeqProperties
  <2>4. QED
    BY <2>3, OfMessages
<1>7. Tokens(SubSeq(rest, n + 1, n)) = 0
  <2>1. SubSeq(rest, n + 1, n) = <<>>
    BY <1>4, SubSeqEmpty
  <2>2. QED
    BY <2>1, OfNone
<1>8. \E i \in 1 .. n + 1 : Fits(i) /\ \A j \in 1 .. i - 1 : Tokens(SubSeq(rest, j, n)) > room
  <2> DEFINE F == {i \in 1 .. n + 1 : Fits(i)}
  <2>1. F \subseteq Nat /\ n + 1 \in F
    BY <1>4, <1>7
  <2>2. PICK i \in F : \A j \in F : i <= j
    BY <2>1, LeastNumber
  <2>3. \A j \in 1 .. i - 1 : j \in 1 .. n + 1 /\ ~(i <= j)
    BY <1>4, <2>2
  <2>4. \A j \in 1 .. i - 1 : Tokens(SubSeq(rest, j, n)) > room
    BY <1>4, <1>6, <2>2, <2>3
  <2>5. QED
    BY <2>2, <2>4
<1>9. /\ first \in 1 .. n + 1 /\ Tokens(SubSeq(rest, first, n)) <= room
      /\ \A j \in 1 .. first - 1 : Tokens(SubSeq(rest, j, n)) > room
  BY <1>8
<1> HIDE DEF first
<1>10. rest = SubSeq(rest, 1, first - 1) \o SubSeq(rest, first, n)
  <2>1. /\ 1 \in 1 .. Len(rest) + 1 /\ first - 1 \in 1 - 1 .. Len(rest) /\ n \in first - 1 .. Len(rest)
        /\ (first - 1) + 1 = first
    BY <1>4, <1>9 DEF n
  <2>2. SubSeq(rest, 1, first - 1) \o SubSeq(rest, (first - 1) + 1, n) = SubSeq(rest, 1, n)
    BY <1>2, <2>1, ConcatAdjacentSubSeq
  <2>3. SubSeq(rest, 1, n) = rest
    BY <1>2, SubSeqFull DEF n
  <2>4. QED
    BY <2>1, <2>2, <2>3
<1>11. SubSeq(rest, 1, first - 1) \in Seq(Message)
  <2>1. \A k \in 1 .. first - 1 : rest[k] \in Message
    <3>1. \A k \in 1 .. first - 1 : k \in 1 .. Len(rest)
      BY <1>4, <1>9 DEF n
    <3>2. QED
      BY <1>2, <3>1, ElementOfSeq
  <2>2. QED
    BY <1>9, <2>1, SubSeqProperties
<1>12. Tokens(head) + Tokens(SubSeq(rest, first, n)) <= limit \/ Tokens(SubSeq(rest, first, n)) = 0
  BY <1>4, <1>5, <1>6, <1>9
<1>13. Trims(messages, limit, head, SubSeq(rest, 1, first - 1), SubSeq(rest, first, n))
  BY <1>1, <1>2, <1>3, <1>10, <1>12 DEF Trims
<1>14. ASSUME NEW p \in Seq(Message), NEW q \in Seq(Message), rest = p \o q,
              Tokens(head) + Tokens(q) <= limit
       PROVE  Len(q) <= Len(SubSeq(rest, first, n))
  <2>1. Len(p) \in Nat /\ Len(q) \in Nat /\ n = Len(p) + Len(q)
    BY <1>14, ConcatProperties, LenProperties DEF n
  <2>2. SubSeq(rest, Len(p) + 1, n) = q
    BY <1>14, EndOfConcat DEF n
  <2>3. Tokens(q) <= room /\ Tokens(q) \in Nat
    BY <1>5, <1>14, OfMessages
  <2>4. ASSUME Len(p) + 1 \in 1 .. first - 1
        PROVE  FALSE
    <3>1. Tokens(SubSeq(rest, Len(p) + 1, n)) > room
      BY <1>9, <2>4
    <3>2. Tokens(q) > room
      BY <2>2, <3>1
    <3>3. QED
      BY <1>4, <2>3, <3>2
  <2>5. first <= Len(p) + 1
    BY <1>4, <1>9, <2>1, <2>4
  <2>6. Len(SubSeq(rest, first, n)) = (n - first) + 1
    <3>1. \A k \in first .. n : rest[k] \in Message
      <4>1. \A k \in first .. n : k \in 1 .. Len(rest)
        BY <1>4, <1>9 DEF n
      <4>2. QED
        BY <1>2, <4>1, ElementOfSeq
    <3>2. Len(SubSeq(rest, first, n)) = IF first <= n THEN (n - first) + 1 ELSE 0
      BY <1>4, <1>9, <3>1, SubSeqProperties
    <3>3. QED
      BY <1>4, <1>9, <3>2
  <2>7. QED
    BY <1>4, <1>9, <2>1, <2>5, <2>6
<1>15. Longest(limit, head, SubSeq(rest, 1, first - 1), SubSeq(rest, first, n))
  BY <1>10, <1>14 DEF Longest
<1>16. QED
  BY <1>2, <1>6, <1>9, <1>11, <1>13, <1>15

\* What compaction makes of messages whose system messages come first: it keeps
\* their end, the request among them, and a leading system message, and what
\* it keeps weighs no more than the limit, or is one message besides those of
\* the system, or nothing.
Compacts(messages, limit, sent) ==
  /\ sent \in Seq(Message)
  /\ IsSuffix(Only(Spoken, sent), Only(Spoken, messages))
  /\ Only(Spoken, messages) # <<>> /\ Len(messages) >= 2 => Only(Spoken, sent) # <<>>
  /\ messages # <<>> /\ IsSystem(messages[1]) => sent # <<>> /\ sent[1] = messages[1]
  /\ Tokens(sent) <= limit \/ Len(Only(Spoken, sent)) <= 1 \/ Tokens(Only(Spoken, sent)) = 0

LEMMA IsOwnSuffix ==
  ASSUME NEW s \in Seq(Message)
  PROVE  IsSuffix(s, s)
<1>1. <<>> \in Seq(Message) /\ <<>> \o s = s
  BY EmptySeq, ConcatEmptySeq
<1>2. IsSuffix(s, <<>> \o s)
  BY <1>1, SuffixOfConcat
<1>3. QED
  BY <1>1, <1>2

LEMMA FitsAsItIs ==
  ASSUME NEW messages \in Seq(Message), NEW limit, Tokens(messages) <= limit
  PROVE  Compacts(messages, limit, messages)
BY IsOwnSuffix, OfMessages DEF Compacts

LEMMA SystemAndLastCompacts ==
  ASSUME NEW messages \in Seq(Message), NEW limit
  PROVE  Compacts(messages, limit, SystemAndLast(messages))
<1> DEFINE systems == Only(System, messages)
<1> DEFINE others == Only(Spoken, messages)
<1> DEFINE last == IF others = <<>> THEN <<>> ELSE <<others[Len(others)]>>
<1> DEFINE sent == SystemAndLast(messages)
<1>1. sent = systems \o last
  BY DEF SystemAndLast
<1>2. systems \in Seq(Message) /\ others \in Seq(Message)
  BY OfMessages
<1>3. Only(Spoken, systems) = <<>> /\ Only(Spoken, others) = others
  BY OnlyFacts, NoOtherIsSystem
<1> HIDE DEF systems, others, sent
<1>4. \E before \in Seq(Message) : /\ others = before \o last /\ last \in Seq(Message) /\ Len(last) <= 1
                                   /\ Only(Spoken, last) = last
  <2>1. CASE others = <<>>
    <3>1. last = others
      BY <2>1
    <3>2. others = others \o others /\ Len(others) = 0
      BY <1>2, <2>1, EmptySeq, ConcatEmptySeq
    <3>3. Len(last) <= 1
      BY <3>1, <3>2
    <3> HIDE DEF last
    <3>4. QED
      BY <1>2, <1>3, <3>1, <3>2, <3>3
  <2>2. CASE others # <<>>
    <3>1. PICK before \in Seq(Message), m \in Message : others = Append(before, m)
      BY <1>2, <2>2, SequenceEmptyOrAppend
    <3>2. /\ Len(others) = Len(before) + 1 /\ others[Len(others)] = m
          /\ others = before \o <<m>> /\ <<m>> \in Seq(Message) /\ Len(<<m>>) = 1
      BY <3>1, AppendProperties, AppendIsConcat
    <3>3. last = <<m>>
      BY <2>2, <3>2
    <3>4. m.role \in Spoken
      <4>1. Len(others) \in 1 .. Len(others)
        BY <3>1, <3>2, LenProperties
      <4>2. \A i \in 1 .. Len(others) : others[i].role \in Spoken
        BY OnlyOfRole DEF others
      <4>3. QED
        BY <3>2, <4>1, <4>2
    <3>5. Only(Spoken, last) = last
      <4>1. Only(Spoken, <<m>>) = <<m>>
        BY <3>4, OfOne
      <4>2. QED
        BY <3>3, <4>1
    <3> HIDE DEF last
    <3>6. others = before \o last /\ last \in Seq(Message) /\ Len(last) <= 1
      BY <3>2, <3>3
    <3>7. QED
      BY <3>5, <3>6
  <2>3. QED
    BY <2>1, <2>2
<1> HIDE DEF last
<1>5. PICK before \in Seq(Message) : /\ others = before \o last /\ last \in Seq(Message) /\ Len(last) <= 1
                                     /\ Only(Spoken, last) = last
  BY <1>4
<1>6. sent \in Seq(Message) /\ Only(Spoken, sent) = last
  <2>1. Only(Spoken, systems \o last) = Only(Spoken, systems) \o Only(Spoken, last)
    BY <1>2, <1>5, OfConcat
  <2>2. QED
    BY <1>1, <1>2, <1>3, <1>5, <2>1, ConcatProperties, ConcatEmptySeq
<1>7. IsSuffix(last, others)
  BY <1>5, SuffixOfConcat
<1>8. others # <<>> => last # <<>>
  BY DEF last
<1>9. ASSUME messages # <<>>, IsSystem(messages[1])
      PROVE  sent # <<>> /\ sent[1] = messages[1]
  <2>1. systems # <<>> /\ systems[1] = messages[1]
    BY <1>9, OnlyFirst DEF systems
  <2>2. /\ Len(systems) \in Nat \ {0} /\ Len(last) \in Nat /\ Len(systems \o last) = Len(systems) + Len(last)
        /\ \A i \in 1 .. Len(systems) + Len(last) :
             (systems \o last)[i] = IF i <= Len(systems) THEN systems[i] ELSE last[i - Len(systems)]
    BY <1>2, <1>5, <2>1, EmptySeq, ConcatProperties, LenProperties
  <2>3. (systems \o last)[1] = systems[1]
    BY <2>2
  <2>4. systems \o last # <<>>
    BY <2>2, EmptySeq
  <2>5. QED
    BY <1>1, <2>1, <2>3, <2>4
<1>10. QED
  BY <1>5, <1>6, <1>7, <1>8, <1>9 DEF Compacts, others, sent

LEMMA TrimmedCompacts ==
  ASSUME NEW messages \in Seq(Message), SystemsFirst(messages), NEW limit \in Int,
         ~TooFew(TrimMessages(messages, limit), messages)
  PROVE  Compacts(messages, limit, TrimMessages(messages, limit))
<1>1. PICK head, pre, sub \in Seq(Message) : Trims(messages, limit, head, pre, sub)
  BY TrimFacts
<1> DEFINE sent == TrimMessages(messages, limit)
<1>2. /\ messages = head \o (pre \o sub) /\ sent = head \o sub
      /\ IF messages # <<>> /\ IsSystem(messages[1]) THEN head = <<messages[1]>> ELSE head = <<>>
      /\ Tokens(head) + Tokens(sub) <= limit \/ Tokens(sub) = 0
  BY <1>1 DEF Trims
<1> HIDE DEF sent
<1>3. sent \in Seq(Message) /\ pre \o sub \in Seq(Message) /\ Len(sent) = Len(head) + Len(sub)
  BY <1>2, ConcatProperties
<1>4. Only(Spoken, head) = <<>>
  <2>1. CASE head = <<>>
    BY <2>1, OfNone
  <2>2. CASE head # <<>>
    <3>1. messages # <<>> /\ IsSystem(messages[1]) /\ head = <<messages[1]>>
      BY <1>2, <2>2
    <3>2. messages[1] \in Message /\ messages[1].role \notin Spoken
      BY <3>1, FirstAndRest, Classes DEF IsSystem
    <3>3. QED
      BY <3>1, <3>2, OfOne
  <2>3. QED
    BY <2>1, <2>2
<1>5. Only(Spoken, sent) = Only(Spoken, sub) /\ Only(Spoken, messages) = Only(Spoken, pre) \o Only(Spoken, sub)
  <2>1. /\ Only(Spoken, head \o sub) = Only(Spoken, head) \o Only(Spoken, sub)
        /\ Only(Spoken, head \o (pre \o sub)) = Only(Spoken, head) \o Only(Spoken, pre \o sub)
        /\ Only(Spoken, pre \o sub) = Only(Spoken, pre) \o Only(Spoken, sub)
    BY <1>3, OfConcat
  <2>2. Only(Spoken, sub) \in Seq(Message) /\ Only(Spoken, pre \o sub) \in Seq(Message)
    BY <1>3, OfMessages
  <2>3. QED
    BY <1>2, <1>4, <2>1, <2>2, ConcatEmptySeq
<1>6. IsSuffix(Only(Spoken, sent), Only(Spoken, messages))
  <2>1. Only(Spoken, sub) \in Seq(Message) /\ Only(Spoken, pre) \in Seq(Message)
    BY OfMessages
  <2>2. QED
    BY <1>5, <2>1, SuffixOfConcat
<1>7. ASSUME Only(Spoken, messages) # <<>>, Len(messages) >= 2
      PROVE  Only(Spoken, sent) # <<>>
  <2>1. Len(sent) >= 2
    <3>1. ~(Len(sent) < 2) /\ Len(sent) \in Nat
      BY <1>3, <1>7, LenProperties DEF TooFew, sent
    <3>2. QED
      BY <3>1
  <2>2. sub # <<>>
    <3>1. Len(head) <= 1 /\ Len(head) \in Nat /\ Len(sub) \in Nat
      <4>1. CASE head = <<>>
        BY <4>1, EmptySeq, LenProperties
      <4>2. CASE head = <<messages[1]>>
        BY <4>2, LenProperties
      <4>3. QED
        BY <1>2, <4>1, <4>2
    <3>2. Len(sub) # 0
      BY <1>3, <2>1, <3>1
    <3>3. QED
      BY <3>2, EmptySeq
  <2>3. PICK front \in Seq(Message), m \in Message : messages = Append(front, m) /\ m.role \in Spoken
    BY <1>7, LastIsOther
  <2>4. PICK before \in Seq(Message), last \in Message : sub = Append(before, last)
    BY <2>2, SequenceEmptyOrAppend
  <2>5. last = m
    <3>1. \E w \in Seq(Message) : messages = Append(w, last)
      <4> DEFINE middle == pre \o before
      <4>1. pre \o sub = Append(middle, last) /\ middle \in Seq(Message)
        BY <2>4, AppendToConcat
      <4> HIDE DEF middle
      <4>2. head \o Append(middle, last) = Append(head \o middle, last) /\ head \o middle \in Seq(Message)
        BY <4>1, AppendToConcat
      <4>3. QED
        BY <1>2, <4>1, <4>2
    <3>2. PICK w \in Seq(Message) : messages = Append(w, last)
      BY <3>1
    <3>3. Append(front, m) = Append(w, last)
      BY <2>3, <3>2
    <3>4. QED
      BY <3>3, AppendInjective
  <2>6. Only(Spoken, sub) = Append(Only(Spoken, before), last) /\ Only(Spoken, before) \in Seq(Message)
    <3>1. /\ Only(Spoken, Append(before, last)) =
               IF last.role \in Spoken THEN Append(Only(Spoken, before), last) ELSE Only(Spoken, before)
          /\ Only(Spoken, before) \in Seq(Message)
      BY OnlyAppend
    <3>2. last.role \in Spoken
      BY <2>3, <2>5
    <3>3. QED
      BY <2>4, <3>1, <3>2
  <2>7. Only(Spoken, sub) # <<>>
    <3> DEFINE x == Only(Spoken, before)
    <3>1. x \in Seq(Message) /\ Only(Spoken, sub) = Append(x, last)
      BY <2>6
    <3> HIDE DEF x
    <3>2. Append(x, last) # <<>>
      BY <3>1, AppendProperties
    <3>3. QED
      BY <3>1, <3>2
  <2>8. QED
    BY <1>5, <2>7
<1>8. ASSUME messages # <<>>, IsSystem(messages[1])
      PROVE  sent # <<>> /\ sent[1] = messages[1]
  <2>1. head = <<messages[1]>> /\ Len(head) = 1 /\ head[1] = messages[1] /\ Len(sub) \in Nat
    BY <1>2, <1>8, LenProperties
  <2>2. \A i \in 1 .. Len(head) + Len(sub) : (head \o sub)[i] = IF i <= Len(head) THEN head[i] ELSE sub[i - Len(head)]
    BY ConcatProperties
  <2>3. (head \o sub)[1] = messages[1]
    BY <2>1, <2>2
  <2>4. Len(sent) # 0
    BY <1>3, <2>1
  <2>5. QED
    BY <1>2, <2>3, <2>4, EmptySeq
<1>9. Tokens(sent) <= limit \/ Tokens(Only(Spoken, sent)) = 0
  <2>1. Tokens(sent) = Tokens(head) + Tokens(sub)
    BY <1>2, OfConcat
  <2>2. Tokens(Only(Spoken, sub)) \in Nat /\ Tokens(Only(Spoken, sub)) <= Tokens(sub)
    BY OnlyFacts
  <2>3. QED
    BY <1>2, <1>5, <2>1, <2>2
<1>10. QED
  BY <1>3, <1>6, <1>7, <1>8, <1>9 DEF Compacts, sent

LEMMA ApplyCompacts ==
  ASSUME NEW messages \in Seq(Message), SystemsFirst(messages), NEW limit \in Int
  PROVE  Compacts(messages, limit, Apply(messages, limit))
BY FitsAsItIs, SystemAndLastCompacts, TrimmedCompacts DEF Apply

-----------------------------------------------------------------------------
(* What fits is kept *)

LEMMA OnlyShorter ==
  ASSUME NEW roles, NEW s \in Seq(Message)
  PROVE  Len(Only(roles, s)) \in Nat /\ Len(Only(roles, s)) <= Len(s) /\ Len(s) \in Nat
<1> DEFINE P == {t \in Seq(Message) : Len(Only(roles, t)) <= Len(t)}
<1>1. <<>> \in P
  <2>1. <<>> \in Seq(Message) /\ Len(<<>>) = 0 /\ Only(roles, <<>>) = <<>>
    BY EmptySeq, OfNone
  <2>2. QED
    BY <2>1
<1>2. ASSUME NEW t \in Seq(Message), NEW m \in Message, t \in P
      PROVE  Append(t, m) \in P
  <2> DEFINE kept == Only(roles, t)
  <2>1. kept \in Seq(Message) /\ Only(roles, Append(t, m)) = IF m.role \in roles THEN Append(kept, m) ELSE kept
    BY OnlyAppend
  <2>2. Len(kept) <= Len(t)
    BY <1>2
  <2> HIDE DEF kept
  <2>3. /\ Append(t, m) \in Seq(Message) /\ Len(Append(t, m)) = Len(t) + 1 /\ Len(t) \in Nat
        /\ Len(Append(kept, m)) = Len(kept) + 1 /\ Len(kept) \in Nat
    BY <2>1, AppendProperties, LenProperties
  <2>4. Len(Only(roles, Append(t, m))) <= Len(Append(t, m))
    BY <2>1, <2>2, <2>3
  <2>5. QED
    BY <2>3, <2>4
<1>3. Seq(Message) \subseteq P
  <2> HIDE DEF P
  <2>1. QED
    BY <1>1, <1>2, SequenceInduction
<1>4. Only(roles, s) \in Seq(Message)
  BY OfMessages
<1>5. QED
  BY <1>3, <1>4, LenProperties

\* A conversation is its system messages and then what was said.
LEMMA SystemsThenSpoken ==
  ASSUME NEW s \in Seq(Message), SystemsFirst(s)
  PROVE  s = Only(System, s) \o Only(Spoken, s)
<1> DEFINE P == {t \in Seq(Message) : SystemsFirst(t) => t = Only(System, t) \o Only(Spoken, t)}
<1>1. <<>> \in P
  <2>1. <<>> \in Seq(Message) /\ Only(System, <<>>) = <<>> /\ Only(Spoken, <<>>) = <<>>
    BY EmptySeq, OfNone
  <2>2. PICK e \in Seq(Message) : e = <<>>
    BY <2>1
  <2>3. e \o e = e
    BY <2>2, ConcatEmptySeq
  <2>4. QED
    BY <2>1, <2>2, <2>3
<1>2. ASSUME NEW t \in Seq(Message), NEW m \in Message, t \in P
      PROVE  Append(t, m) \in P
  <2> DEFINE a == Only(System, t)
  <2> DEFINE b == Only(Spoken, t)
  <2>1. /\ a \in Seq(Message) /\ Only(System, Append(t, m)) = IF m.role \in System THEN Append(a, m) ELSE a
        /\ b \in Seq(Message) /\ Only(Spoken, Append(t, m)) = IF m.role \in Spoken THEN Append(b, m) ELSE b
    BY OnlyAppend
  <2>2. SystemsFirst(t) => t = a \o b
    BY <1>2
  <2>3. (\A i \in 1 .. Len(t) : t[i].role \notin Spoken) => b = <<>>
    BY OnlyOfOthers
  <2> HIDE DEF a, b
  <2>4. /\ Append(t, m) \in Seq(Message) /\ Len(t) \in Nat /\ Len(Append(t, m)) = Len(t) + 1
        /\ \A i \in 1 .. Len(t) : Append(t, m)[i] = t[i]
        /\ Append(t, m)[Len(t) + 1] = m
    BY AppendProperties, LenProperties
  <2>5. SUFFICES ASSUME SystemsFirst(Append(t, m))
                 PROVE  Append(t, m) = Only(System, Append(t, m)) \o Only(Spoken, Append(t, m))
    BY <2>4
  <2>6. SystemsFirst(t)
    <3>1. \A i \in 1 .. Len(t) : i \in 1 .. Len(Append(t, m))
      BY <2>4
    <3>2. QED
      BY <2>4, <2>5, <3>1 DEF SystemsFirst
  <2>7. CASE m.role \in System
    <3>1. \A i \in 1 .. Len(t) : IsSystem(t[i])
      <4>1. TAKE i \in 1 .. Len(t)
      <4>2. i \in 1 .. Len(Append(t, m)) /\ Len(t) + 1 \in 1 .. Len(Append(t, m)) /\ i < Len(t) + 1
        BY <2>4
      <4>3. IsSystem(Append(t, m)[Len(t) + 1])
        BY <2>4, <2>7 DEF IsSystem
      <4>4. QED
        BY <2>4, <2>5, <4>2, <4>3 DEF SystemsFirst
    <3>2. b = <<>> /\ m.role \notin Spoken
      BY <2>3, <2>7, <3>1, Classes DEF IsSystem
    <3>3. t = a
      BY <2>1, <2>2, <2>6, <3>2, ConcatEmptySeq
    <3>4. Append(a, m) \in Seq(Message)
      BY <2>1, AppendProperties
    <3>5. Append(a, m) \o b = Append(a, m)
      BY <3>2, <3>4, ConcatEmptySeq
    <3>6. QED
      BY <2>1, <2>7, <3>2, <3>3, <3>5
  <2>8. CASE m.role \notin System
    <3>1. m.role \in Spoken
      BY <2>8 DEF Message
    <3>2. Append(a \o b, m) = a \o Append(b, m)
      BY <2>1, AppendToConcat
    <3>3. QED
      BY <2>1, <2>2, <2>6, <2>8, <3>1, <3>2
  <2>9. QED
    BY <2>7, <2>8
<1>3. Seq(Message) \subseteq P
  <2> HIDE DEF P
  <2>1. QED
    BY <1>1, <1>2, SequenceInduction
<1>4. QED
  BY <1>3

\* Of two ways to take a sequence apart, the shorter beginning begins the longer.
LEMMA BeginningOfConcat ==
  ASSUME NEW pre \in Seq(Message), NEW sub \in Seq(Message), NEW p \in Seq(Message), NEW q \in Seq(Message),
         pre \o sub = p \o q, Len(pre) <= Len(p)
  PROVE  LET r == SubSeq(p, Len(pre) + 1, Len(p)) IN r \in Seq(Message) /\ p = pre \o r
<1> DEFINE a == Len(pre)
<1> DEFINE b == Len(p)
<1>1. a \in Nat /\ b \in Nat /\ a <= b /\ Len(sub) \in Nat /\ Len(q) \in Nat
  BY LenProperties
<1>2. \A i \in 1 .. a : pre[i] = p[i]
  <2>1. TAKE i \in 1 .. a
  <2>2. i \in 1 .. Len(pre) + Len(sub) /\ i \in 1 .. Len(p) + Len(q) /\ i <= Len(pre) /\ i <= Len(p)
    BY <1>1
  <2>3. (pre \o sub)[i] = pre[i] /\ (p \o q)[i] = p[i]
    BY <2>2, ConcatProperties
  <2>4. QED
    BY <2>3
<1>3. \A i, j \in 1 .. b + 1 : SubSeq(p, i, j - 1) \in Seq(Message)
  <2>1. TAKE i, j \in 1 .. b + 1
  <2>2. \A k \in i .. j - 1 : p[k] \in Message
    <3>1. \A k \in i .. j - 1 : k \in 1 .. Len(p)
      BY <1>1
    <3>2. QED
      BY <3>1, ElementOfSeq
  <2>3. i \in Int /\ j - 1 \in Int
    BY <1>1
  <2>4. QED
    BY <2>2, <2>3, SubSeqProperties
<1>4. SubSeq(p, 1, a) = pre
  <2>1. \A k \in 1 .. a : p[k] \in Message
    <3>1. \A k \in 1 .. a : k \in 1 .. Len(p)
      BY <1>1
    <3>2. QED
      BY <3>1, ElementOfSeq
  <2>2. a \in Int /\ (a - 1) + 1 = a /\ \A i \in 1 .. a : (1 + i) - 1 = i
    BY <1>1
  <2>3. /\ SubSeq(p, 1, a) \in Seq(Message) /\ Len(SubSeq(p, 1, a)) = IF 1 <= a THEN (a - 1) + 1 ELSE 0
        /\ \A i \in 1 .. (a - 1) + 1 : SubSeq(p, 1, a)[i] = p[(1 + i) - 1]
    BY <2>1, <2>2, SubSeqProperties
  <2>4. Len(SubSeq(p, 1, a)) = a /\ \A i \in 1 .. a : SubSeq(p, 1, a)[i] = pre[i]
    BY <1>1, <1>2, <2>2, <2>3
  <2>5. QED
    BY <2>3, <2>4, SeqEqual
<1>5. SubSeq(p, 1, a) \o SubSeq(p, a + 1, b) = SubSeq(p, 1, b)
  <2>1. 1 \in 1 .. Len(p) + 1 /\ a \in 1 - 1 .. Len(p) /\ b \in a .. Len(p)
    BY <1>1
  <2>2. QED
    BY <2>1, ConcatAdjacentSubSeq
<1>6. SubSeq(p, 1, b) = p
  BY SubSeqFull
<1>7. SubSeq(p, a + 1, b) \in Seq(Message)
  <2>1. a + 1 \in 1 .. b + 1 /\ b + 1 \in 1 .. b + 1 /\ (b + 1) - 1 = b
    BY <1>1
  <2>2. QED
    BY <1>3, <2>1
<1>8. QED
  BY <1>4, <1>5, <1>6, <1>7

\* Of what was said, trimming keeps every end that fits.
KeepsWhatFits(messages, limit, sent) ==
  LET said == Only(Spoken, messages)
  IN \A i \in 1 .. Len(said) : TurnFits(i, messages, limit) => Len(Only(Spoken, sent)) > Len(said) - i

LEMMA SplitLater ==
  ASSUME NEW x \in Seq(Message), NEW y \in Seq(Message), NEW z \in Seq(Message)
  PROVE  x \o y \in Seq(Message) /\ x \o (y \o z) = (x \o y) \o z
<1>1. x \o y \in Seq(Message)
  BY ConcatProperties
<1>2. QED
  BY <1>1, MessagesAssociate

\* A shorter beginning has no more of what was said.
LEMMA BeginningSaysLess ==
  ASSUME NEW pre \in Seq(Message), NEW sub \in Seq(Message), NEW p \in Seq(Message), NEW z \in Seq(Message),
         pre \o sub = p \o z, Len(z) <= Len(sub)
  PROVE  Len(Only(Spoken, pre)) <= Len(Only(Spoken, p)) /\ Len(Only(Spoken, pre)) \in Nat
<1>1. Len(pre) <= Len(p)
  <2>1. Len(pre \o sub) = Len(pre) + Len(sub) /\ Len(p \o z) = Len(p) + Len(z)
    BY ConcatProperties
  <2>2. Len(pre) \in Nat /\ Len(sub) \in Nat /\ Len(p) \in Nat /\ Len(z) \in Nat
    BY LenProperties
  <2>3. QED
    BY <2>1, <2>2
<1> DEFINE r == SubSeq(p, Len(pre) + 1, Len(p))
<1>2. r \in Seq(Message) /\ p = pre \o r
  BY <1>1, BeginningOfConcat
<1> HIDE DEF r
<1>3. Only(Spoken, p) = Only(Spoken, pre) \o Only(Spoken, r)
  BY <1>2, OfConcat
<1>4. Only(Spoken, pre) \in Seq(Message) /\ Only(Spoken, r) \in Seq(Message)
  BY <1>2, OfMessages
<1>5. Len(Only(Spoken, p)) = Len(Only(Spoken, pre)) + Len(Only(Spoken, r))
  BY <1>3, <1>4, ConcatProperties
<1>6. Len(Only(Spoken, pre)) \in Nat /\ Len(Only(Spoken, r)) \in Nat
  BY <1>2, OnlyShorter
<1>7. QED
  BY <1>5, <1>6

\* Nor has a beginning with system messages more than what is said in it.
LEMMA OnlyTheRestSpeaks ==
  ASSUME NEW x \in Seq(Message), NEW y \in Seq(Message), Only(Spoken, x) = <<>>
  PROVE  Len(Only(Spoken, x \o y)) <= Len(y) /\ Len(y) \in Nat /\ Len(Only(Spoken, x \o y)) \in Nat
<1>1. Only(Spoken, x \o y) = Only(Spoken, x) \o Only(Spoken, y) /\ Only(Spoken, y) \in Seq(Message)
  BY OfConcat, OfMessages
<1>2. Only(Spoken, x \o y) = Only(Spoken, y)
  BY <1>1, ConcatEmptySeq
<1>3. QED
  BY <1>2, OnlyShorter

LEMMA TrimKeepsWhatFits ==
  ASSUME NEW messages \in Seq(Message), SystemsFirst(messages), NEW limit \in Int
  PROVE  KeepsWhatFits(messages, limit, TrimMessages(messages, limit))
<1> DEFINE said == Only(Spoken, messages)
<1> DEFINE sent == TrimMessages(messages, limit)
<1>1. PICK head, pre, sub \in Seq(Message) :
        Trims(messages, limit, head, pre, sub) /\ Longest(limit, head, pre, sub)
  BY TrimFacts
<1> DEFINE rest == pre \o sub
<1>2. /\ messages = head \o rest /\ sent = head \o sub /\ rest \in Seq(Message)
      /\ IF messages # <<>> /\ IsSystem(messages[1]) THEN head = <<messages[1]>> ELSE head = <<>>
  BY <1>1, ConcatProperties DEF Trims
<1>3. /\ Only(Spoken, head) = <<>>
      /\ Tokens(head) = IF messages # <<>> /\ IsSystem(messages[1]) THEN messages[1].tokens ELSE 0
  <2>1. CASE messages # <<>> /\ IsSystem(messages[1])
    <3>1. head = <<messages[1]>> /\ messages[1] \in Message /\ messages[1].role \notin Spoken
      BY <1>2, <2>1, FirstAndRest, Classes DEF IsSystem
    <3>2. QED
      BY <2>1, <3>1, OfOne
  <2>2. CASE ~(messages # <<>> /\ IsSystem(messages[1]))
    BY <1>2, <2>2, OfNone
  <2>3. QED
    BY <2>1, <2>2
<1>4. Only(Spoken, sent) = Only(Spoken, sub) /\ said = Only(Spoken, rest)
  <2>1. /\ Only(Spoken, head \o sub) = Only(Spoken, head) \o Only(Spoken, sub)
        /\ Only(Spoken, head \o rest) = Only(Spoken, head) \o Only(Spoken, rest)
    BY <1>2, OfConcat
  <2>2. Only(Spoken, sub) \in Seq(Message) /\ Only(Spoken, rest) \in Seq(Message)
    BY <1>2, OfMessages
  <2>3. QED
    BY <1>2, <1>3, <2>1, <2>2, ConcatEmptySeq
<1>5. said = Only(Spoken, pre) \o Only(Spoken, sub)
  BY <1>4, OfConcat
<1> HIDE DEF sent
<1>6. SystemsFirst(rest)
  <2>1. Len(head) \in Nat /\ Len(rest) \in Nat
    BY <1>2, LenProperties
  <2>2. /\ Len(messages) = Len(head) + Len(rest)
        /\ \A i \in 1 .. Len(head) + Len(rest) :
             messages[i] = IF i <= Len(head) THEN head[i] ELSE rest[i - Len(head)]
    BY <1>2, ConcatProperties
  <2> HIDE DEF rest
  <2>3. \A i \in 1 .. Len(rest) : Len(head) + i \in 1 .. Len(messages) /\ messages[Len(head) + i] = rest[i]
    <3>1. TAKE i \in 1 .. Len(rest)
    <3>2. /\ Len(head) + i \in 1 .. Len(head) + Len(rest) /\ ~(Len(head) + i <= Len(head))
          /\ (Len(head) + i) - Len(head) = i
      BY <2>1
    <3>3. QED
      BY <2>2, <3>2
  <2>4. \A i, j \in 1 .. Len(rest) : i < j => Len(head) + i < Len(head) + j
    BY <2>1
  <2>5. QED
    BY <2>3, <2>4 DEF SystemsFirst
<1> DEFINE systems == Only(System, rest)
<1>7. /\ rest = systems \o said /\ systems \in Seq(Message) /\ said \in Seq(Message)
      /\ Only(Spoken, systems) = <<>>
  BY <1>2, <1>4, <1>6, SystemsThenSpoken, NoOtherIsSystem, OfMessages
<1> HIDE DEF systems
<1> SUFFICES ASSUME NEW i \in 1 .. Len(said), TurnFits(i, messages, limit)
             PROVE  Len(Only(Spoken, sub)) > Len(said) - i
  BY <1>4 DEF KeepsWhatFits, sent
<1> DEFINE n == Len(said)
<1> DEFINE u == SubSeq(said, 1, i - 1)
<1> DEFINE q == SubSeq(said, i, n)
<1>8. n \in Nat /\ Tokens(head) + Tokens(q) <= limit
  BY <1>3, <1>7, LenProperties DEF TurnFits
<1> HIDE DEF said
<1>9. u \in Seq(Message) /\ q \in Seq(Message) /\ Len(u) = i - 1 /\ Len(q) = (n - i) + 1 /\ said = u \o q
  <2>1. i \in 1 .. n /\ i - 1 \in Int
    BY <1>8
  <2>2. (\A k \in 1 .. i - 1 : said[k] \in Message) /\ (\A k \in i .. n : said[k] \in Message)
    <3>1. (\A k \in 1 .. i - 1 : k \in 1 .. Len(said)) /\ (\A k \in i .. n : k \in 1 .. Len(said))
      BY <1>8, <2>1
    <3>2. QED
      BY <1>7, <3>1, ElementOfSeq
  <2>3. u \in Seq(Message) /\ Len(u) = IF 1 <= i - 1 THEN ((i - 1) - 1) + 1 ELSE 0
    BY <2>1, <2>2, SubSeqProperties
  <2>4. q \in Seq(Message) /\ Len(q) = IF i <= n THEN (n - i) + 1 ELSE 0
    BY <1>8, <2>1, <2>2, SubSeqProperties
  <2>5. u \o q = said
    <3>1. 1 \in 1 .. Len(said) + 1 /\ i - 1 \in 1 - 1 .. Len(said) /\ n \in i - 1 .. Len(said) /\ (i - 1) + 1 = i
      BY <1>8, <2>1
    <3>2. SubSeq(said, 1, i - 1) \o SubSeq(said, (i - 1) + 1, n) = SubSeq(said, 1, n)
      BY <1>7, <3>1, ConcatAdjacentSubSeq
    <3>3. SubSeq(said, 1, n) = said
      BY <1>7, SubSeqFull
    <3>4. QED
      BY <3>1, <3>2, <3>3
  <2>6. QED
    BY <1>8, <2>1, <2>3, <2>4, <2>5
<1> HIDE DEF u, q, n, rest
<1>10. systems \o u \in Seq(Message) /\ rest = (systems \o u) \o q
  <2>1. systems \in Seq(Message)
    BY <1>7
  <2>2. systems \o u \in Seq(Message) /\ systems \o (u \o q) = (systems \o u) \o q
    BY <1>9, <2>1, SplitLater
  <2>3. rest = systems \o (u \o q)
    BY <1>7, <1>9
  <2>4. QED
    BY <2>2, <2>3
<1>11. pre \o sub = (systems \o u) \o q
  BY <1>10 DEF rest
<1>12. Len(q) <= Len(sub)
  BY <1>1, <1>8, <1>9, <1>10, <1>11 DEF Longest
<1>13. Len(Only(Spoken, pre)) <= i - 1 /\ Len(Only(Spoken, pre)) \in Nat
  <2>1. systems \in Seq(Message) /\ Only(Spoken, systems) = <<>>
    BY <1>7
  <2>2. Len(Only(Spoken, pre)) <= Len(Only(Spoken, systems \o u)) /\ Len(Only(Spoken, pre)) \in Nat
    BY <1>9, <1>10, <1>11, <1>12, BeginningSaysLess
  <2>3. Len(Only(Spoken, systems \o u)) <= Len(u) /\ Len(Only(Spoken, systems \o u)) \in Nat
    BY <1>9, <2>1, OnlyTheRestSpeaks
  <2>4. QED
    BY <1>8, <1>9, <2>2, <2>3
<1>14. n = Len(Only(Spoken, pre)) + Len(Only(Spoken, sub)) /\ Len(Only(Spoken, sub)) \in Nat
  <2>1. Only(Spoken, pre) \in Seq(Message) /\ Only(Spoken, sub) \in Seq(Message)
    BY OfMessages
  <2>2. QED
    BY <1>5, <2>1, ConcatProperties, LenProperties DEF n
<1>15. QED
  BY <1>8, <1>13, <1>14 DEF n

LEMMA ApplyKeepsRequests ==
  ASSUME NEW messages \in Seq(Message), SystemsFirst(messages), NEW limit \in Int
  PROVE  KeepsRequests(Apply(messages, limit), messages, limit)
<1> DEFINE said == Only(Spoken, messages)
<1> DEFINE trimmed == TrimMessages(messages, limit)
<1>1. said \in Seq(Message) /\ Len(said) \in Nat /\ DOMAIN said = 1 .. Len(said)
  BY OfMessages, LenProperties
<1>2. \A sent : KeepsWhatFits(messages, limit, sent) => KeepsRequests(sent, messages, limit)
  BY <1>1 DEF KeepsWhatFits, KeepsRequests
<1>3. KeepsWhatFits(messages, limit, messages)
  <2>1. \A i \in 1 .. Len(said) : Len(said) > Len(said) - i
    BY <1>1
  <2>2. QED
    BY <2>1 DEF KeepsWhatFits
<1>4. KeepsWhatFits(messages, limit, trimmed)
  BY TrimKeepsWhatFits
<1>5. ASSUME TooFew(trimmed, messages)
      PROVE  KeepsWhatFits(messages, limit, SystemAndLast(messages))
  <2> DEFINE kept == Only(Spoken, SystemAndLast(messages))
  <2>1. trimmed \in Seq(Message)
    <3>1. PICK head, pre, sub \in Seq(Message) : Trims(messages, limit, head, pre, sub)
      BY TrimFacts
    <3>2. QED
      BY <3>1, ConcatProperties DEF Trims
  <2>2. Len(Only(Spoken, trimmed)) \in Nat /\ Len(Only(Spoken, trimmed)) <= Len(trimmed) /\ Len(trimmed) < 2
        /\ Len(trimmed) \in Nat
    BY <1>5, <2>1, OnlyShorter DEF TooFew
  <2> HIDE DEF said, trimmed
  <2>3. ASSUME NEW i \in 1 .. Len(said), TurnFits(i, messages, limit)
        PROVE  Len(kept) > Len(said) - i
    <3>1. Len(Only(Spoken, trimmed)) > Len(said) - i
      BY <1>4, <2>3 DEF KeepsWhatFits, said
    <3>2. Len(said) - i = 0 /\ Len(said) # 0
      <4>1. PICK x \in Nat, y \in Nat : x = Len(Only(Spoken, trimmed)) /\ y = Len(said)
        BY <1>1, <2>2
      <4>2. x < 2 /\ x > y - i /\ i \in 1 .. y
        BY <2>2, <2>3, <3>1, <4>1
      <4>3. y - i = 0 /\ y # 0
        BY <4>1, <4>2
      <4>4. QED
        BY <4>1, <4>3
    <3>3. said # <<>>
      BY <3>2, EmptySeq
    <3>4. kept # <<>> /\ kept \in Seq(Message)
      <4>1. Compacts(messages, limit, SystemAndLast(messages))
        BY SystemAndLastCompacts
      <4>2. Len(messages) >= 2
        BY <1>5 DEF TooFew
      <4>3. QED
        BY <3>3, <4>1, <4>2, OfMessages DEF Compacts, said
    <3>5. Len(kept) \in Nat /\ Len(kept) # 0
      BY <3>4, EmptySeq, LenProperties
    <3>6. QED
      BY <3>2, <3>5
  <2>4. QED
    BY <2>3 DEF KeepsWhatFits, said
<1>6. QED
  BY <1>2, <1>3, <1>4, <1>5 DEF Apply

-----------------------------------------------------------------------------
(* The prompt and the turns of a conversation *)

LEMMA PromptFacts ==
  ASSUME NEW prompt \in Prompts
  PROVE  /\ prompt \in Seq(Message) /\ Len(prompt) \in {0, 1} /\ Tokens(prompt) \in Nat
         /\ prompt # <<>> => Len(prompt) = 1 /\ IsSystem(prompt[1])
         /\ Only(Spoken, prompt) = <<>>
<1>1. CASE prompt = <<>>
  BY <1>1, EmptySeq, OfNone
<1>2. CASE prompt # <<>>
  <2>1. PICK n \in MessageTokens : prompt = <<[role |-> "system", tokens |-> n]>>
    BY <1>2 DEF Prompts
  <2>2. PICK m \in Message : m.role \in System /\ prompt = <<m>>
    BY <2>1, CompactionAssumption DEF Message, System
  <2>3. m.role \notin Spoken /\ IsSystem(m) /\ m.tokens \in Nat
    BY <2>2, Classes DEF IsSystem, Message
  <2>4. /\ prompt \in Seq(Message) /\ Len(prompt) = 1 /\ prompt[1] = m
        /\ Tokens(prompt) = m.tokens /\ Only(Spoken, prompt) = <<>>
    BY <2>2, <2>3, OfOne
  <2>5. QED
    BY <2>3, <2>4
<1>3. QED
  BY <1>1, <1>2

LEMMA WithPromptFacts ==
  ASSUME NEW prompt \in Prompts, NEW messages \in Seq(Message)
  PROVE  /\ WithPrompt(prompt, messages) \in Seq(Message)
         /\ Only(Spoken, WithPrompt(prompt, messages)) = Only(Spoken, messages)
         /\ Tokens(WithPrompt(prompt, messages)) <= Tokens(messages) + Tokens(prompt)
         /\ messages # <<>> /\ IsSystem(messages[1]) => WithPrompt(prompt, messages) = messages
         /\ SystemsFirst(messages) => SystemsFirst(WithPrompt(prompt, messages))
<1> DEFINE added == prompt # <<>> /\ (messages = <<>> \/ ~IsSystem(messages[1]))
<1>1. Tokens(prompt) \in Nat /\ Tokens(messages) \in Nat /\ Only(Spoken, messages) \in Seq(Message)
  BY PromptFacts, OfMessages
<1>2. CASE ~added
  <2>1. WithPrompt(prompt, messages) = messages
    BY <1>2 DEF WithPrompt
  <2>2. QED
    BY <1>1, <2>1
<1>3. CASE added
  <2>1. WithPrompt(prompt, messages) = prompt \o messages
    BY <1>3 DEF WithPrompt
  <2>2. /\ prompt \in Seq(Message) /\ Len(prompt) = 1 /\ IsSystem(prompt[1])
        /\ Only(Spoken, prompt) = <<>>
    BY <1>3, PromptFacts
  <2>3. /\ Only(Spoken, prompt \o messages) = <<>> \o Only(Spoken, messages)
        /\ Tokens(prompt \o messages) = Tokens(prompt) + Tokens(messages)
    <3>1. Only(Spoken, prompt \o messages) = Only(Spoken, prompt) \o Only(Spoken, messages)
      BY <2>2, OfConcat
    <3>2. Tokens(prompt \o messages) = Tokens(prompt) + Tokens(messages)
      BY <2>2, OfConcat
    <3>3. QED
      BY <2>2, <3>1, <3>2
  <2>4. <<>> \o Only(Spoken, messages) = Only(Spoken, messages)
    BY <1>1, ConcatEmptySeq
  <2>5. /\ prompt \o messages \in Seq(Message) /\ Len(prompt \o messages) = 1 + Len(messages)
        /\ Len(messages) \in Nat
        /\ \A i \in 1 .. 1 + Len(messages) :
             (prompt \o messages)[i] = IF i <= 1 THEN prompt[i] ELSE messages[i - 1]
    <3>1. prompt \o messages \in Seq(Message) /\ Len(prompt \o messages) = Len(prompt) + Len(messages)
      BY <2>2, ConcatProperties
    <3>2. \A i \in 1 .. Len(prompt) + Len(messages) :
            (prompt \o messages)[i] = IF i <= Len(prompt) THEN prompt[i] ELSE messages[i - Len(prompt)]
      BY <2>2, ConcatProperties
    <3>3. Len(messages) \in Nat
      BY LenProperties
    <3>4. QED
      BY <2>2, <3>1, <3>2, <3>3
  <2>6. ASSUME SystemsFirst(messages)
        PROVE  SystemsFirst(prompt \o messages)
    <3> DEFINE all == prompt \o messages
    <3>1. ASSUME NEW i \in 1 .. 1 + Len(messages), NEW j \in 1 .. 1 + Len(messages),
                 i < j, IsSystem(all[j])
          PROVE  IsSystem(all[i])
      <4>1. CASE i = 1
        BY <2>2, <2>5, <4>1
      <4>2. CASE i # 1
        <5>1. /\ i - 1 \in 1 .. Len(messages) /\ j - 1 \in 1 .. Len(messages) /\ i - 1 < j - 1
              /\ all[i] = messages[i - 1] /\ all[j] = messages[j - 1]
          BY <2>5, <3>1, <4>2
        <5>2. QED
          BY <2>6, <3>1, <5>1 DEF SystemsFirst
      <4>3. QED
        BY <4>1, <4>2
    <3>2. QED
      BY <2>5, <3>1 DEF SystemsFirst
  <2>7. QED
    BY <1>1, <1>3, <2>1, <2>3, <2>4, <2>5, <2>6
<1>4. QED
  BY <1>2, <1>3

-----------------------------------------------------------------------------
IsChat(c) ==
  c = [pc |-> c.pc, prompt |-> c.prompt, history |-> c.history, sent |-> c.sent, config |-> c.config]

\* The conversation is well formed, and what the model was sent is what the
\* modifier makes of it.
ChatInv ==
  \/ chat.pc = "unbuilt"
  \/ /\ chat.pc \in {"turn", "asked"} /\ IsChat(chat) /\ chat.prompt \in Prompts
     /\ chat.config.enable_compaction \in BOOLEAN /\ chat.config.context_token_limit \in Int
     /\ chat.history \in Seq(Message) /\ SystemsFirst(chat.history)
     /\ chat.pc = "asked" =>
          chat.sent = AgentBuilderModifier(chat.config, chat.prompt, chat.history)

LEMMA ChatInitFact == CompactionInit => ChatInv
BY DEF CompactionInit, ChatInv

LEMMA BuildStep ==
  ASSUME NEW enabled \in BOOLEAN, NEW limit \in TokenLimits, NEW prompt \in Prompts,
         Build(enabled, limit, prompt)
  PROVE  ChatInv'
<1>1. /\ chat'.pc = "turn" /\ chat'.prompt = prompt /\ chat'.history = <<>>
      /\ chat'.config.enable_compaction = enabled /\ chat'.config.context_token_limit = limit
      /\ IsChat(chat')
  BY DEF Build, IsChat
<1>2. limit \in Int
  BY CompactionAssumption
<1>3. <<>> \in Seq(Message) /\ SystemsFirst(<<>>)
  BY EmptySeq DEF SystemsFirst
<1>4. QED
  BY <1>1, <1>2, <1>3 DEF ChatInv

LEMMA SayStep ==
  ASSUME ChatInv, NEW message \in [role : System \cup Spoken, tokens : MessageTokens], Say(message)
  PROVE  ChatInv'
<1>1. /\ chat.pc \in {"turn", "asked"} /\ IsChat(chat)
      /\ chat.history \in Seq(Message) /\ SystemsFirst(chat.history)
  BY DEF Say, ChatInv
<1>2. /\ chat'.pc = "turn" /\ chat'.prompt = chat.prompt
      /\ chat'.history = Append(chat.history, message)
      /\ chat'.config = chat.config
      /\ IsChat(chat')
  BY <1>1 DEF Say, IsChat
<1>3. message \in Message
  BY CompactionAssumption DEF Message
<1>4. /\ Append(chat.history, message) \in Seq(Message) /\ Len(chat.history) \in Nat
      /\ Len(Append(chat.history, message)) = Len(chat.history) + 1
      /\ \A i \in 1 .. Len(chat.history) : Append(chat.history, message)[i] = chat.history[i]
      /\ Append(chat.history, message)[Len(chat.history) + 1] = message
      /\ DOMAIN chat.history = 1 .. Len(chat.history)
  BY <1>1, <1>3, AppendProperties, LenProperties
<1>5. SystemsFirst(Append(chat.history, message))
  <2> DEFINE longer == Append(chat.history, message)
  <2>1. ASSUME NEW i \in 1 .. Len(chat.history) + 1, NEW j \in 1 .. Len(chat.history) + 1,
               i < j, IsSystem(longer[j])
        PROVE  IsSystem(longer[i])
    <3>1. i \in 1 .. Len(chat.history) /\ longer[i] = chat.history[i]
      BY <1>4, <2>1
    <3>2. CASE j = Len(chat.history) + 1
      <4>1. IsSystem(message)
        BY <1>4, <2>1, <3>2
      <4>2. QED
        BY <1>4, <3>1, <4>1 DEF Say
    <3>3. CASE j # Len(chat.history) + 1
      <4>1. j \in 1 .. Len(chat.history) /\ longer[j] = chat.history[j]
        BY <1>4, <3>3
      <4>2. QED
        BY <1>1, <2>1, <3>1, <4>1 DEF SystemsFirst
    <3>4. QED
      BY <3>2, <3>3
  <2>2. QED
    BY <1>4, <2>1 DEF SystemsFirst
<1>6. QED
  BY <1>1, <1>2, <1>4, <1>5 DEF ChatInv

LEMMA AskModelStep ==
  ASSUME ChatInv, AskModel
  PROVE  ChatInv'
<1>1. chat.pc = "turn" /\ IsChat(chat)
  BY DEF AskModel, ChatInv
<1>2. /\ chat'.pc = "asked" /\ chat'.prompt = chat.prompt
      /\ chat'.history = chat.history /\ chat'.config = chat.config /\ IsChat(chat')
      /\ chat'.sent = AgentBuilderModifier(chat.config, chat.prompt, chat.history)
  BY <1>1 DEF AskModel, IsChat
<1>3. QED
  BY <1>1, <1>2 DEF ChatInv

\* Whatever was said, and whatever the limit, what the model is sent is what
\* the property asks for.
LEMMA ModifiersKeepRequest ==
  ASSUME ChatInv
  PROVE  RequestReachesModel
<1> SUFFICES ASSUME chat.pc = "asked", chat.config.enable_compaction
             PROVE  RequestReachesModel
  BY DEF RequestReachesModel
<1> DEFINE history == chat.history
<1> DEFINE limit == chat.config.context_token_limit
<1> DEFINE prompt == chat.prompt
<1> DEFINE sent == chat.sent
<1> DEFINE trimmed == Apply(history, limit)
<1>1. /\ history \in Seq(Message) /\ SystemsFirst(history) /\ limit \in Int /\ prompt \in Prompts
      /\ sent = AgentBuilderModifier(chat.config, prompt, history)
  BY DEF ChatInv
<1>2. sent = WithPrompt(prompt, trimmed)
  BY <1>1 DEF AgentBuilderModifier, CompactionModifier
<1>3. Compacts(history, limit, trimmed) /\ KeepsRequests(trimmed, history, limit)
  BY <1>1, ApplyCompacts, ApplyKeepsRequests
<1> HIDE DEF trimmed, history, limit, prompt, sent
<1>4. trimmed \in Seq(Message) /\ Tokens(trimmed) \in Nat /\ Tokens(prompt) \in Nat
  BY <1>1, <1>3, OfMessages, PromptFacts DEF Compacts
<1>5. /\ sent \in Seq(Message) /\ Only(Spoken, sent) = Only(Spoken, trimmed) /\ Tokens(sent) \in Nat
      /\ Tokens(sent) <= Tokens(trimmed) + Tokens(prompt)
      /\ trimmed # <<>> /\ IsSystem(trimmed[1]) => sent = trimmed
  BY <1>1, <1>2, <1>4, WithPromptFacts, OfMessages
<1>6. history # <<>> /\ IsSystem(history[1]) => Only(System, sent)[1] = history[1]
  BY <1>3, <1>4, <1>5, OnlyFirst DEF Compacts
<1>7. Tokens(trimmed) <= limit => Tokens(sent) <= limit + Tokens(prompt)
  BY <1>1, <1>4, <1>5
<1>8. KeepsTheEnd(sent, history, limit + Tokens(prompt))
  BY <1>3, <1>5, <1>6, <1>7 DEF KeepsTheEnd, Compacts
<1>9. KeepsRequests(sent, history, limit)
  BY <1>3, <1>5 DEF KeepsRequests
<1>10. QED
  BY <1>8, <1>9 DEF RequestReachesModel, history, limit, prompt, sent

LEMMA ChatStep ==
  ASSUME ChatInv, [CompactionNext]_chat
  PROVE  ChatInv'
<1>1. CASE UNCHANGED chat
  BY <1>1 DEF ChatInv
<1>2. CASE CompactionNext
  BY <1>2, BuildStep, SayStep, AskModelStep DEF CompactionNext
<1>3. QED
  BY <1>1, <1>2

\* Whatever is said, however long it is and whatever the limit, every call of
\* the model gets the end of the conversation, and a request of the user unless
\* the turn it began has outgrown the limit.
THEOREM RequestAlwaysReachesModel == CompactionSpec => []RequestReachesModel
<1>1. CompactionInit => ChatInv
  BY ChatInitFact
<1>2. ChatInv /\ [CompactionNext]_chat => ChatInv'
  BY ChatStep
<1>3. ChatInv => RequestReachesModel
  BY ModifiersKeepRequest
<1>4. QED
  BY <1>1, <1>2, <1>3, PTL DEF CompactionSpec

-----------------------------------------------------------------------------
(* The configuration of an agent *)

\* The functions by depth are what their definitions say: for each there is a
\* function that satisfies its equation, by induction over the depth.
NodesOver(mappings) == Leaves \cup Items \cup [type : {"map"}, entries : mappings]
Deeper(n, mappings) == UNION {[keys -> NodesOver(mappings)] : keys \in SUBSET Keys[n]}
Join(k, path) == <<k>> \o path
Under(k, leaves) == {<<Join(k, l[1]), l[2]>> : l \in leaves}
LeavesAt(k, node, below) == IF HasEntries(node) THEN Under(k, below[node.entries]) ELSE {<<<<k>>, node>>}
LeavesStep(n, below) ==
  [entries \in Mappings[n] |-> UNION {LeavesAt(k, entries[k], below) : k \in DOMAIN entries}]
NodeMerged(base, overlay, k, below) ==
  CASE k \notin DOMAIN overlay -> base[k]
    [] k \in DOMAIN base \cap DOMAIN overlay /\ IsMap(base[k]) /\ IsMap(overlay[k]) ->
         Map(below[base[k].entries][overlay[k].entries])
    [] OTHER -> overlay[k]
MergeStep(n, below) ==
  [base \in Mappings[n] |-> [overlay \in Mappings[n] |->
     [k \in DOMAIN base \cup DOMAIN overlay |-> NodeMerged(base, overlay, k, below)]]]

Depth == Len(Keys)

LEMMA DepthFact == Depth \in Nat \ {0} /\ \A n \in 1 .. Depth : Keys[n] \subseteq STRING
<1>1. Keys \in Seq(SUBSET STRING) /\ Keys # <<>>
  BY ConfigAssumption
<1>2. Depth \in Nat /\ \A n \in 1 .. Depth : Keys[n] \in SUBSET STRING
  BY <1>1, LenProperties DEF Depth
<1>3. Depth # 0
  BY <1>1, EmptySeq DEF Depth
<1>4. QED
  BY <1>2, <1>3

LEMMA MappingsExist ==
  \E f : f = [n \in 0 .. Depth |-> IF n = 0 THEN {NoEntries} ELSE Deeper(n, f[n - 1])]
<1> DEFINE Upto(m, f) == f = [n \in 0 .. m |-> IF n = 0 THEN {NoEntries} ELSE Deeper(n, f[n - 1])]
<1> DEFINE P == {m \in Nat : \E f : Upto(m, f)}
<1>1. 0 \in P
  <2> DEFINE f == [n \in 0 .. 0 |-> {NoEntries}]
  <2>1. Upto(0, f)
    OBVIOUS
  <2>2. QED
    BY <2>1
<1>2. ASSUME NEW m \in Nat, m \in P
      PROVE  m + 1 \in P
  <2>1. PICK f : Upto(m, f)
    BY <1>2
  <2> DEFINE g == [n \in 0 .. m + 1 |-> IF n \in 0 .. m THEN f[n] ELSE Deeper(m + 1, f[m])]
  <2>2. \A n \in 0 .. m : g[n] = f[n]
    OBVIOUS
  <2>3. g[m + 1] = Deeper(m + 1, f[m])
    OBVIOUS
  <2>4. g = [n \in 0 .. m + 1 |-> g[n]]
    OBVIOUS
  <2> HIDE DEF g
  <2>5. \A n \in 0 .. m + 1 : g[n] = IF n = 0 THEN {NoEntries} ELSE Deeper(n, g[n - 1])
    <3>1. TAKE n \in 0 .. m + 1
    <3>2. CASE n = m + 1
      BY <2>2, <2>3, <3>2
    <3>3. CASE n \in 0 .. m
      <4>1. f[n] = IF n = 0 THEN {NoEntries} ELSE Deeper(n, f[n - 1])
        BY <2>1, <3>3
      <4>2. n # 0 => n - 1 \in 0 .. m
        BY <3>3
      <4>3. QED
        BY <2>2, <3>3, <4>1, <4>2
    <3>4. QED
      BY <3>2, <3>3
  <2>6. Upto(m + 1, g)
    BY <2>4, <2>5
  <2>7. QED
    BY <2>6
<1>3. Depth \in P
  <2> HIDE DEF P
  <2>1. Nat \subseteq P
    BY <1>1, <1>2, NaturalInduction
  <2>2. QED
    BY <2>1, DepthFact
<1>4. QED
  BY <1>3

LEMMA MappingsFact ==
  /\ Mappings[0] = {NoEntries}
  /\ \A n \in 1 .. Depth : Mappings[n] = Deeper(n, Mappings[n - 1])
<1>1. Mappings = [n \in 0 .. Depth |-> IF n = 0 THEN {NoEntries} ELSE Deeper(n, Mappings[n - 1])]
  BY MappingsExist DEF Mappings, Deeper, NodesOver, Depth
<1>2. 0 \in 0 .. Depth /\ \A n \in 1 .. Depth : n \in 0 .. Depth /\ n # 0
  BY DepthFact
<1>3. Mappings[0] = {NoEntries}
  BY <1>1, <1>2
<1>4. \A n \in 1 .. Depth : Mappings[n] = Deeper(n, Mappings[n - 1])
  BY <1>1, <1>2
<1>5. QED
  BY <1>3, <1>4

LEMMA LeavesOfNothing == \A x : LeavesStep(0, x) = [entries \in {NoEntries} |-> {}]
<1>1. TAKE x
<1>2. LeavesStep(0, x) = [entries \in {NoEntries} |-> UNION {LeavesAt(k, entries[k], x) : k \in DOMAIN entries}]
  BY MappingsFact DEF LeavesStep
<1>3. DOMAIN NoEntries = {}
  BY DEF NoEntries
<1>4. UNION {LeavesAt(k, NoEntries[k], x) : k \in DOMAIN NoEntries} = {}
  BY <1>3
<1>5. QED
  BY <1>2, <1>4

LEMMA MergeOfNothing == \A x : MergeStep(0, x) = [base \in {NoEntries} |-> [overlay \in {NoEntries} |-> NoEntries]]
<1>1. TAKE x
<1>2. MergeStep(0, x) = [base \in {NoEntries} |-> [overlay \in {NoEntries} |->
        [k \in DOMAIN base \cup DOMAIN overlay |-> NodeMerged(base, overlay, k, x)]]]
  BY MappingsFact DEF MergeStep
<1>3. DOMAIN NoEntries = {}
  BY DEF NoEntries
<1>4. [k \in DOMAIN NoEntries \cup DOMAIN NoEntries |-> NodeMerged(NoEntries, NoEntries, k, x)] = NoEntries
  BY <1>3 DEF NoEntries
<1>5. QED
  BY <1>2, <1>4

LEMMA LeavesExist ==
  \E f : f = [n \in 0 .. Depth |-> LeavesStep(n, f[n - 1])]
<1> DEFINE Upto(m, f) == f = [n \in 0 .. m |-> LeavesStep(n, f[n - 1])]
<1> DEFINE P == {m \in Nat : \E f : Upto(m, f)}
<1>1. 0 \in P
  <2> DEFINE f == [n \in 0 .. 0 |-> [entries \in {NoEntries} |-> {}]]
  <2>1. f = [n \in 0 .. 0 |-> LeavesStep(n, f[n - 1])]
    <3>1. \A n \in 0 .. 0 : n = 0
      OBVIOUS
    <3>2. \A n \in 0 .. 0 : LeavesStep(n, f[n - 1]) = [entries \in {NoEntries} |-> {}]
      BY <3>1, LeavesOfNothing
    <3>3. QED
      BY <3>2
  <2>2. QED
    BY <2>1
<1>2. ASSUME NEW m \in Nat, m \in P
      PROVE  m + 1 \in P
  <2>1. PICK f : Upto(m, f)
    BY <1>2
  <2> DEFINE g == [n \in 0 .. m + 1 |-> IF n \in 0 .. m THEN f[n] ELSE LeavesStep(m + 1, f[m])]
  <2>2. \A n \in 0 .. m : g[n] = f[n]
    OBVIOUS
  <2>3. g[m + 1] = LeavesStep(m + 1, f[m])
    OBVIOUS
  <2>4. g = [n \in 0 .. m + 1 |-> g[n]]
    OBVIOUS
  <2> HIDE DEF g
  <2>5. \A n \in 0 .. m + 1 : g[n] = LeavesStep(n, g[n - 1])
    <3>1. TAKE n \in 0 .. m + 1
    <3>2. CASE n = m + 1
      BY <2>2, <2>3, <3>2
    <3>3. CASE n = 0
      <4>1. g[n] = LeavesStep(n, f[n - 1])
        BY <2>1, <2>2, <3>3
      <4>2. LeavesStep(0, f[n - 1]) = [entries \in {NoEntries} |-> {}] /\ LeavesStep(0, g[n - 1]) = [entries \in {NoEntries} |-> {}]
        BY LeavesOfNothing
      <4>3. QED
        BY <3>3, <4>1, <4>2
    <3>4. CASE n \in 1 .. m
      <4>1. n \in 0 .. m /\ n - 1 \in 0 .. m
        BY <3>4
      <4>2. f[n] = LeavesStep(n, f[n - 1])
        BY <2>1, <4>1
      <4>3. QED
        BY <2>2, <4>1, <4>2
    <3>5. QED
      BY <3>2, <3>3, <3>4
  <2>6. Upto(m + 1, g)
    BY <2>4, <2>5
  <2>7. QED
    BY <2>6
<1>3. Depth \in P
  <2> HIDE DEF P
  <2>1. Nat \subseteq P
    BY <1>1, <1>2, NaturalInduction
  <2>2. QED
    BY <2>1, DepthFact
<1>4. QED
  BY <1>3

LEMMA LeavesFact == \A n \in 0 .. Depth : LeavesIn[n] = LeavesStep(n, LeavesIn[n - 1])
<1>1. LeavesIn = [n \in 0 .. Depth |-> LeavesStep(n, LeavesIn[n - 1])]
  BY LeavesExist DEF LeavesIn, LeavesStep, LeavesAt, Under, Join, Depth
<1>2. QED
  BY <1>1

LEMMA MergesExist ==
  \E f : f = [n \in 0 .. Depth |-> MergeStep(n, f[n - 1])]
<1> DEFINE Upto(m, f) == f = [n \in 0 .. m |-> MergeStep(n, f[n - 1])]
<1> DEFINE P == {m \in Nat : \E f : Upto(m, f)}
<1>1. 0 \in P
  <2> DEFINE f == [n \in 0 .. 0 |-> [base \in {NoEntries} |-> [overlay \in {NoEntries} |-> NoEntries]]]
  <2>1. f = [n \in 0 .. 0 |-> MergeStep(n, f[n - 1])]
    <3>1. \A n \in 0 .. 0 : n = 0
      OBVIOUS
    <3>2. \A n \in 0 .. 0 : MergeStep(n, f[n - 1]) = [base \in {NoEntries} |-> [overlay \in {NoEntries} |-> NoEntries]]
      BY <3>1, MergeOfNothing
    <3>3. QED
      BY <3>2
  <2>2. QED
    BY <2>1
<1>2. ASSUME NEW m \in Nat, m \in P
      PROVE  m + 1 \in P
  <2>1. PICK f : Upto(m, f)
    BY <1>2
  <2> DEFINE g == [n \in 0 .. m + 1 |-> IF n \in 0 .. m THEN f[n] ELSE MergeStep(m + 1, f[m])]
  <2>2. \A n \in 0 .. m : g[n] = f[n]
    OBVIOUS
  <2>3. g[m + 1] = MergeStep(m + 1, f[m])
    OBVIOUS
  <2>4. g = [n \in 0 .. m + 1 |-> g[n]]
    OBVIOUS
  <2> HIDE DEF g
  <2>5. \A n \in 0 .. m + 1 : g[n] = MergeStep(n, g[n - 1])
    <3>1. TAKE n \in 0 .. m + 1
    <3>2. CASE n = m + 1
      BY <2>2, <2>3, <3>2
    <3>3. CASE n = 0
      <4>1. g[n] = MergeStep(n, f[n - 1])
        BY <2>1, <2>2, <3>3
      <4>2. MergeStep(0, f[n - 1]) = [base \in {NoEntries} |-> [overlay \in {NoEntries} |-> NoEntries]] /\ MergeStep(0, g[n - 1]) = [base \in {NoEntries} |-> [overlay \in {NoEntries} |-> NoEntries]]
        BY MergeOfNothing
      <4>3. QED
        BY <3>3, <4>1, <4>2
    <3>4. CASE n \in 1 .. m
      <4>1. n \in 0 .. m /\ n - 1 \in 0 .. m
        BY <3>4
      <4>2. f[n] = MergeStep(n, f[n - 1])
        BY <2>1, <4>1
      <4>3. QED
        BY <2>2, <4>1, <4>2
    <3>5. QED
      BY <3>2, <3>3, <3>4
  <2>6. Upto(m + 1, g)
    BY <2>4, <2>5
  <2>7. QED
    BY <2>6
<1>3. Depth \in P
  <2> HIDE DEF P
  <2>1. Nat \subseteq P
    BY <1>1, <1>2, NaturalInduction
  <2>2. QED
    BY <2>1, DepthFact
<1>4. QED
  BY <1>3

LEMMA MergesFact == \A n \in 0 .. Depth : Merges[n] = MergeStep(n, Merges[n - 1])
<1>1. Merges = [n \in 0 .. Depth |-> MergeStep(n, Merges[n - 1])]
  BY MergesExist DEF Merges, MergeStep, NodeMerged, Depth
<1>2. QED
  BY <1>1

\* Paths: sequences of keys, a leaf's never empty.
Path == Seq(STRING) \ {<<>>}

LEMMA PathFact == ASSUME NEW p \in Seq(STRING) PROVE Len(p) \in Nat /\ (p # <<>> <=> Len(p) >= 1)
<1>1. Len(p) \in Nat
  BY LenProperties
<1>2. p = <<>> <=> Len(p) = 0
  BY EmptySeq
<1>3. QED
  BY <1>1, <1>2

LEMMA PrefixFact ==
  ASSUME NEW p \in Seq(STRING), NEW q \in Seq(STRING)
  PROVE  IsPrefix(p, q) <=> Len(p) <= Len(q) /\ \A i \in 1 .. Len(p) : p[i] = q[i]
<1>1. Len(p) \in Nat /\ Len(q) \in Nat
  BY LenProperties
<1> DEFINE m == Len(p)
<1>2. SubSeq(p, 1, m) = p
  BY SubSeqFull
<1>3. CASE m <= Len(q)
  <2>1. SubSeq(q, 1, m) \in Seq(STRING) /\ Len(SubSeq(q, 1, m)) = m
    <3>1. 1 \in 1 .. Len(q) + 1 /\ m \in 1 - 1 .. Len(q)
      BY <1>1, <1>3
    <3>2. QED
      BY <1>1, <3>1, SubSeqProperties
  <2>2. \A i \in 1 .. m : SubSeq(q, 1, m)[i] = q[i]
    <3>1. 1 \in 1 .. Len(q) + 1 /\ m \in 1 - 1 .. Len(q)
      BY <1>1, <1>3
    <3>2. QED
      BY <1>1, <3>1, SubSeqProperties
  <2>3. p = SubSeq(q, 1, m) <=> \A i \in 1 .. m : p[i] = SubSeq(q, 1, m)[i]
    BY <1>1, <2>1, SeqEqual
  <2>4. QED
    BY <1>2, <1>3, <2>2, <2>3 DEF IsPrefix
<1>4. CASE ~(m <= Len(q))
  BY <1>4 DEF IsPrefix
<1>5. QED
  BY <1>3, <1>4

LEMMA OnePath ==
  ASSUME NEW k \in STRING
  PROVE  <<k>> \in Path /\ <<k>> \in Seq(STRING) /\ Len(<<k>>) = 1 /\ <<k>>[1] = k
<1> DEFINE one == <<k>>
<1>1. PICK none : none = <<>>
  OBVIOUS
<1>2. one = Append(none, k)
  BY <1>1
<1> HIDE DEF one
<1>3. none \in Seq(STRING) /\ Len(none) = 0
  BY <1>1, EmptySeq
<1>4. one \in Seq(STRING) /\ Len(one) = Len(none) + 1 /\ one[Len(none) + 1] = k
  BY <1>2, <1>3, AppendProperties
<1>5. Len(one) = 1 /\ one[1] = k
  <2>1. Len(none) + 1 = 1
    BY <1>3
  <2>2. QED
    BY <1>4, <2>1
<1>6. one # none
  BY <1>3, <1>5
<1>7. QED
  BY <1>1, <1>4, <1>5, <1>6 DEF Path, one

LEMMA JoinFact ==
  ASSUME NEW k \in STRING, NEW p \in Seq(STRING)
  PROVE  /\ Join(k, p) \in Path /\ Len(Join(k, p)) = Len(p) + 1 /\ Join(k, p)[1] = k
         /\ \A i \in 1 .. Len(p) : Join(k, p)[i + 1] = p[i]
<1> DEFINE one == <<k>>
<1>2. one \in Seq(STRING) /\ Len(one) = 1 /\ one[1] = k
  BY OnePath
<1> HIDE DEF one
<1>3. Len(p) \in Nat
  BY LenProperties
<1>4. /\ one \o p \in Seq(STRING) /\ Len(one \o p) = Len(one) + Len(p)
      /\ \A i \in 1 .. Len(one) + Len(p) : (one \o p)[i] = IF i <= Len(one) THEN one[i] ELSE p[i - Len(one)]
  BY <1>2, ConcatProperties
<1>5. \A i \in 1 .. Len(p) : (one \o p)[i + 1] = p[i]
  <2>1. TAKE i \in 1 .. Len(p)
  <2>2. i + 1 \in 1 .. Len(one) + Len(p) /\ ~(i + 1 <= Len(one)) /\ (i + 1) - Len(one) = i
    BY <1>2, <1>3
  <2>3. QED
    BY <1>4, <2>2
<1>6. (one \o p)[1] = k
  <2>1. 1 \in 1 .. Len(one) + Len(p) /\ 1 <= Len(one)
    BY <1>2, <1>3
  <2>2. QED
    BY <1>2, <1>4, <2>1
<1>7. one \o p # <<>>
  BY <1>2, <1>3, <1>4, PathFact
<1>8. Join(k, p) = one \o p
  BY DEF Join, one
<1>9. Join(k, p) \in Path /\ Len(Join(k, p)) = Len(p) + 1
  BY <1>2, <1>3, <1>4, <1>7, <1>8 DEF Path
<1>10. QED
  BY <1>5, <1>6, <1>8, <1>9

LEMMA JoinPrefix ==
  ASSUME NEW k \in STRING, NEW p \in Seq(STRING), NEW q \in Seq(STRING)
  PROVE  IsPrefix(Join(k, p), Join(k, q)) <=> IsPrefix(p, q)
<1> DEFINE a == Join(k, p)
<1> DEFINE b == Join(k, q)
<1>1. /\ a \in Seq(STRING) /\ Len(a) = Len(p) + 1 /\ a[1] = k /\ \A i \in 1 .. Len(p) : a[i + 1] = p[i]
      /\ b \in Seq(STRING) /\ Len(b) = Len(q) + 1 /\ b[1] = k /\ \A i \in 1 .. Len(q) : b[i + 1] = q[i]
  BY JoinFact DEF Path
<1> HIDE DEF a, b
<1>2. Len(p) \in Nat /\ Len(q) \in Nat
  BY LenProperties
<1>3. IsPrefix(a, b) <=> Len(a) <= Len(b) /\ \A i \in 1 .. Len(a) : a[i] = b[i]
  BY <1>1, PrefixFact
<1>4. IsPrefix(p, q) <=> Len(p) <= Len(q) /\ \A i \in 1 .. Len(p) : p[i] = q[i]
  BY PrefixFact
<1>5. ASSUME IsPrefix(a, b) PROVE IsPrefix(p, q)
  <2>1. Len(p) <= Len(q)
    BY <1>1, <1>2, <1>3, <1>5
  <2>2. \A i \in 1 .. Len(p) : p[i] = q[i]
    <3>1. TAKE i \in 1 .. Len(p)
    <3>2. i + 1 \in 1 .. Len(a) /\ i \in 1 .. Len(q)
      BY <1>1, <1>2, <2>1
    <3>3. a[i + 1] = b[i + 1]
      BY <1>3, <1>5, <3>2
    <3>4. QED
      BY <1>1, <3>2, <3>3
  <2>3. QED
    BY <1>4, <2>1, <2>2
<1>6. ASSUME IsPrefix(p, q) PROVE IsPrefix(a, b)
  <2>1. Len(p) <= Len(q) /\ Len(a) <= Len(b)
    BY <1>1, <1>2, <1>4, <1>6
  <2>2. \A i \in 1 .. Len(a) : a[i] = b[i]
    <3>1. TAKE i \in 1 .. Len(a)
    <3>2. CASE i = 1
      BY <1>1, <3>2
    <3>3. CASE i # 1
      <4>1. i - 1 \in 1 .. Len(p) /\ i - 1 \in 1 .. Len(q) /\ (i - 1) + 1 = i
        BY <1>1, <1>2, <2>1, <3>3
      <4>2. p[i - 1] = q[i - 1]
        BY <1>4, <1>6, <4>1
      <4>3. a[(i - 1) + 1] = p[i - 1] /\ b[(i - 1) + 1] = q[i - 1]
        BY <1>1, <4>1
      <4>4. QED
        BY <4>1, <4>2, <4>3
    <3>4. QED
      BY <3>2, <3>3
  <2>3. QED
    BY <1>3, <2>1, <2>2
<1>7. QED
  BY <1>5, <1>6 DEF a, b

LEMMA PrefixStart ==
  ASSUME NEW p \in Path, NEW q \in Path
  PROVE  /\ IsPrefix(p, q) => p[1] = q[1]
         /\ Len(p) = 1 /\ p[1] = q[1] => IsPrefix(p, q)
<1>1. p \in Seq(STRING) /\ q \in Seq(STRING) /\ Len(p) \in Nat /\ Len(q) \in Nat /\ Len(p) >= 1 /\ Len(q) >= 1
  BY PathFact DEF Path
<1>2. IsPrefix(p, q) <=> Len(p) <= Len(q) /\ \A i \in 1 .. Len(p) : p[i] = q[i]
  BY <1>1, PrefixFact
<1>3. 1 \in 1 .. Len(p)
  BY <1>1
<1>4. QED
  BY <1>1, <1>2, <1>3

\* What a mapping is, and that it has leaves unless it is empty.
SubMappings(n) == [type : {"map"}, entries : Mappings[n - 1]]
IsMapping(n, e) ==
  /\ DOMAIN e \subseteq Keys[n] /\ e = [k \in DOMAIN e |-> e[k]]
  /\ \A k \in DOMAIN e : e[k] \in Leaves \cup Items \/ e[k] \in SubMappings(n)

LEMMA MappingIs ==
  ASSUME NEW n \in 1 .. Depth, NEW e
  PROVE  e \in Mappings[n] <=> IsMapping(n, e)
<1> DEFINE S == NodesOver(Mappings[n - 1])
<1>1. e \in Mappings[n] <=> \E keys \in SUBSET Keys[n] : e \in [keys -> S]
  BY MappingsFact DEF Deeper
<1>2. \A x : x \in S <=> x \in Leaves \cup Items \/ x \in SubMappings(n)
  BY DEF NodesOver, SubMappings
<1> HIDE DEF S
<1>3. ASSUME e \in Mappings[n]
      PROVE  IsMapping(n, e)
  <2>1. PICK keys \in SUBSET Keys[n] : e \in [keys -> S]
    BY <1>1, <1>3
  <2>2. DOMAIN e = keys /\ e = [k \in keys |-> e[k]] /\ \A k \in keys : e[k] \in S
    BY <2>1
  <2>3. QED
    BY <1>2, <2>2 DEF IsMapping
<1>4. ASSUME IsMapping(n, e)
      PROVE  e \in Mappings[n]
  <2>1. \A k \in DOMAIN e : e[k] \in S
    BY <1>2, <1>4 DEF IsMapping
  <2>2. e \in [DOMAIN e -> S]
    BY <1>4, <2>1 DEF IsMapping
  <2>3. QED
    BY <1>1, <1>4, <2>2 DEF IsMapping
<1>5. QED
  BY <1>3, <1>4

LEMMA EmptyMapping ==
  ASSUME NEW e, e = [k \in DOMAIN e |-> e[k]]
  PROVE  e = NoEntries <=> DOMAIN e = {}
<1>1. DOMAIN NoEntries = {}
  BY DEF NoEntries
<1>2. DOMAIN e = {} => e = NoEntries
  BY DEF NoEntries
<1>3. QED
  BY <1>1, <1>2

LEMMA NothingIsMapping == \A n \in 0 .. Depth : NoEntries \in Mappings[n]
<1>1. TAKE n \in 0 .. Depth
<1>2. CASE n = 0
  BY <1>2, MappingsFact
<1>3. CASE n # 0
  <2>1. n \in 1 .. Depth
    BY <1>3, DepthFact
  <2>2. DOMAIN NoEntries = {} /\ NoEntries = [k \in DOMAIN NoEntries |-> NoEntries[k]]
    BY DEF NoEntries
  <2>3. IsMapping(n, NoEntries)
    BY <2>2 DEF IsMapping
  <2>4. QED
    BY <2>1, <2>3, MappingIs
<1>4. QED
  BY <1>2, <1>3

\* What a key of a mapping holds: a leaf or a mapping.
LEMMA NodeIs ==
  ASSUME NEW n \in 1 .. Depth, NEW e \in Mappings[n], NEW k \in DOMAIN e
  PROVE  /\ k \in STRING
         /\ ~IsMap(e[k]) => e[k] \in Leaves \cup Items
         /\ IsMap(e[k]) => /\ e[k] \in SubMappings(n) /\ e[k] = Map(e[k].entries)
                           /\ e[k].entries \in Mappings[n - 1]
<1>1. IsMapping(n, e)
  BY MappingIs
<1>2. k \in STRING
  BY <1>1, DepthFact DEF IsMapping
<1>3. e[k] \in SubMappings(n) => /\ IsMap(e[k]) /\ e[k] = Map(e[k].entries)
                                 /\ e[k].entries \in Mappings[n - 1]
  BY DEF SubMappings, Map, IsMap
<1>4. e[k] \in Leaves \cup Items => ~IsMap(e[k])
  BY ConfigAssumption DEF Items, IsMap
<1>5. QED
  BY <1>1, <1>2, <1>3, <1>4 DEF IsMapping

LEMMA SubMapping ==
  ASSUME NEW n \in 1 .. Depth, NEW e \in Mappings[n - 1]
  PROVE  Map(e) \in SubMappings(n) /\ IsMap(Map(e)) /\ Map(e).entries = e
BY DEF SubMappings, Map, IsMap

At(n, e, k) == IF k \in DOMAIN e THEN LeavesAt(k, e[k], LeavesIn[n - 1]) ELSE {}

LEMMA LeavesAre ==
  ASSUME NEW n \in 1 .. Depth, NEW e \in Mappings[n]
  PROVE  \A l : l \in LeavesIn[n][e] <=> \E k \in DOMAIN e : l \in At(n, e, k)
<1>1. n \in 0 .. Depth
  BY DepthFact
<1>2. LeavesIn[n] = LeavesStep(n, LeavesIn[n - 1])
  BY <1>1, LeavesFact
<1>3. LeavesIn[n][e] = UNION {LeavesAt(k, e[k], LeavesIn[n - 1]) : k \in DOMAIN e}
  BY <1>2 DEF LeavesStep
<1>4. QED
  BY <1>3 DEF At

LEMMA NoLeaves == \A n \in 0 .. Depth : LeavesIn[n][NoEntries] = {}
<1>1. TAKE n \in 0 .. Depth
<1>2. NoEntries \in Mappings[n] /\ DOMAIN NoEntries = {}
  BY NothingIsMapping DEF NoEntries
<1>3. LeavesIn[n][NoEntries] = UNION {LeavesAt(k, NoEntries[k], LeavesIn[n - 1]) : k \in DOMAIN NoEntries}
  BY <1>2, LeavesFact DEF LeavesStep
<1>4. QED
  BY <1>2, <1>3

IsLeaf(l) == l[1] \in Path
HasLeaves(n) ==
  \A e \in Mappings[n] : /\ \A l \in LeavesIn[n][e] : IsLeaf(l)
                         /\ e # NoEntries => \E l : l \in LeavesIn[n][e]

\* The leaves below a key begin with it, and there are some: what it holds, if
\* that has no entries, and else leaves with longer paths.
LEMMA LeavesBelow ==
  ASSUME NEW n \in 1 .. Depth, HasLeaves(n - 1), NEW e \in Mappings[n], NEW k \in DOMAIN e
  PROVE  /\ k \in STRING
         /\ \A l \in At(n, e, k) : IsLeaf(l) /\ l[1][1] = k /\ Len(l[1]) \in Nat
         /\ \E l : l \in At(n, e, k)
         /\ ~HasEntries(e[k]) => \A l \in At(n, e, k) : Len(l[1]) = 1 /\ l[2] = e[k]
         /\ HasEntries(e[k]) => \A l \in At(n, e, k) : Len(l[1]) > 1
<1>1. k \in STRING
  BY NodeIs
<1>2. CASE ~HasEntries(e[k])
  <2>1. At(n, e, k) = {<<<<k>>, e[k]>>}
    BY <1>2 DEF At, LeavesAt
  <2> DEFINE path == <<k>>
  <2> DEFINE leaf == <<path, e[k]>>
  <2>2. path \in Path /\ path[1] = k /\ Len(path) = 1
    BY <1>1, OnePath
  <2> HIDE DEF path
  <2>3. leaf[1] = path /\ leaf[2] = e[k]
    OBVIOUS
  <2>4. At(n, e, k) = {leaf}
    BY <2>1 DEF path
  <2> HIDE DEF leaf
  <2>5. IsLeaf(leaf) /\ leaf[1][1] = k /\ Len(leaf[1]) = 1 /\ leaf[2] = e[k]
    BY <2>2, <2>3 DEF IsLeaf
  <2>6. QED
    BY <1>1, <1>2, <2>4, <2>5
<1>3. CASE HasEntries(e[k])
  <2> DEFINE below == LeavesIn[n - 1][e[k].entries]
  <2>1. At(n, e, k) = Under(k, below)
    BY <1>3 DEF At, LeavesAt
  <2>2. e[k].entries \in Mappings[n - 1] /\ e[k].entries # NoEntries
    BY <1>3, NodeIs DEF HasEntries
  <2>3. (\A l \in below : IsLeaf(l)) /\ \E l : l \in below
    BY <2>2 DEF HasLeaves
  <2> HIDE DEF below
  <2>4. ASSUME NEW l \in below
        PROVE  Join(k, l[1]) \in Path /\ Join(k, l[1])[1] = k /\ Len(Join(k, l[1])) \in Nat /\ Len(Join(k, l[1])) > 1
    <3>1. l[1] \in Seq(STRING) /\ Len(l[1]) \in Nat /\ Len(l[1]) >= 1
      BY <2>3, PathFact DEF IsLeaf, Path
    <3>2. Join(k, l[1]) \in Path /\ Join(k, l[1])[1] = k /\ Len(Join(k, l[1])) = Len(l[1]) + 1
      BY <1>1, <3>1, JoinFact
    <3>3. QED
      BY <3>1, <3>2
  <2>5. \A l \in Under(k, below) : IsLeaf(l) /\ l[1][1] = k /\ Len(l[1]) \in Nat /\ Len(l[1]) > 1
    BY <2>4 DEF Under, IsLeaf
  <2>6. \E l : l \in Under(k, below)
    BY <2>3 DEF Under
  <2>7. QED
    BY <1>1, <1>3, <2>1, <2>5, <2>6
<1>4. QED
  BY <1>2, <1>3

LEMMA AllHaveLeaves == \A n \in 0 .. Depth : HasLeaves(n)
<1> DEFINE P == {n \in Nat : n <= Depth => HasLeaves(n)}
<1>1. 0 \in P
  <2>1. HasLeaves(0)
    BY MappingsFact, NoLeaves, DepthFact DEF HasLeaves
  <2>2. QED
    BY <2>1
<1>2. ASSUME NEW m \in Nat, m \in P
      PROVE  m + 1 \in P
  <2> DEFINE n == m + 1
  <2>1. SUFFICES ASSUME n <= Depth
                 PROVE  HasLeaves(n)
    OBVIOUS
  <2>2. n \in 1 .. Depth /\ n - 1 = m /\ HasLeaves(n - 1)
    BY <1>2, <2>1, DepthFact
  <2> HIDE DEF n
  <2>3. ASSUME NEW e \in Mappings[n]
        PROVE  /\ \A l \in LeavesIn[n][e] : IsLeaf(l)
               /\ e # NoEntries => \E l : l \in LeavesIn[n][e]
    <3>1. \A l : l \in LeavesIn[n][e] <=> \E k \in DOMAIN e : l \in At(n, e, k)
      BY <2>2, LeavesAre
    <3>2. \A k \in DOMAIN e : (\A l \in At(n, e, k) : IsLeaf(l)) /\ \E l : l \in At(n, e, k)
      BY <2>2, LeavesBelow
    <3>3. e # NoEntries => \E k : k \in DOMAIN e
      <4>1. e = [k \in DOMAIN e |-> e[k]]
        BY <2>2, MappingIs DEF IsMapping
      <4>2. QED
        BY <4>1, EmptyMapping
    <3>4. QED
      BY <3>1, <3>2, <3>3
  <2>4. QED
    BY <2>3 DEF HasLeaves
<1>3. Nat \subseteq P
  <2> HIDE DEF P
  <2>1. QED
    BY <1>1, <1>2, NaturalInduction
<1>4. QED
  BY <1>3, DepthFact

\* The merge of two mappings is a mapping with the leaves of MergedLeaves.
Related(l, o) == IsPrefix(o[1], l[1]) \/ IsPrefix(l[1], o[1])

LEMMA MergedLeavesAre ==
  ASSUME NEW base, NEW overlay
  PROVE  \A l : l \in MergedLeaves(base, overlay) <=>
                  \/ l \in overlay /\ \A b \in base : ~Yields(l, b)
                  \/ l \in base /\ \A o \in overlay : ~Overrides(o, l)
BY DEF MergedLeaves

\* Only leaves with related paths affect each other.
LEMMA Affects ==
  ASSUME NEW o, NEW b
  PROVE  (Yields(o, b) => Related(b, o)) /\ (Overrides(o, b) <=> Related(b, o) /\ ~Yields(o, b))
BY DEF Yields, Overrides, Related, IsStrictPrefix

GoodMerge(n, b, o) ==
  /\ Merges[n][b][o] \in Mappings[n]
  /\ Merges[n][b][o] = NoEntries <=> b = NoEntries /\ o = NoEntries
  /\ \A l : l \in LeavesIn[n][Merges[n][b][o]] <=> l \in MergedLeaves(LeavesIn[n][b], LeavesIn[n][o])
GoodMerges(n) == \A b, o \in Mappings[n] : GoodMerge(n, b, o)

LEMMA MergeIs ==
  ASSUME NEW n \in 0 .. Depth, NEW b \in Mappings[n], NEW o \in Mappings[n]
  PROVE  Merges[n][b][o] = [k \in DOMAIN b \cup DOMAIN o |-> NodeMerged(b, o, k, Merges[n - 1])]
<1>1. Merges[n] = MergeStep(n, Merges[n - 1])
  BY MergesFact
<1>2. QED
  BY <1>1 DEF MergeStep

LEMMA NothingMerges == GoodMerges(0)
<1>1. Merges[0][NoEntries][NoEntries] = NoEntries
  <2>1. 0 \in 0 .. Depth
    BY DepthFact
  <2>2. Merges[0] = MergeStep(0, Merges[0 - 1])
    BY <2>1, MergesFact
  <2>3. Merges[0] = [base \in {NoEntries} |-> [overlay \in {NoEntries} |-> NoEntries]]
    BY <2>2, MergeOfNothing
  <2>4. QED
    BY <2>3
<1>2. \A l : ~(l \in MergedLeaves({}, {}))
  BY MergedLeavesAre
<1>3. \A b, o \in Mappings[0] : b = NoEntries /\ o = NoEntries
  BY MappingsFact
<1>4. GoodMerge(0, NoEntries, NoEntries)
  BY <1>1, <1>2, MappingsFact, NoLeaves, DepthFact DEF GoodMerge
<1>5. QED
  BY <1>3, <1>4 DEF GoodMerges

\* Leaves affect each other below a key as they do without it.
LEMMA AffectsUnder ==
  ASSUME NEW k \in STRING, NEW b, NEW o, IsLeaf(b), IsLeaf(o)
  PROVE  LET down(l) == <<Join(k, l[1]), l[2]>>
         IN (Yields(down(o), down(b)) <=> Yields(o, b)) /\ (Overrides(down(o), down(b)) <=> Overrides(o, b))
<1> DEFINE p == Join(k, o[1])
<1> DEFINE q == Join(k, b[1])
<1>1. b[1] \in Seq(STRING) /\ o[1] \in Seq(STRING)
  BY DEF IsLeaf, Path
<1>2. (IsPrefix(p, q) <=> IsPrefix(o[1], b[1])) /\ (IsPrefix(q, p) <=> IsPrefix(b[1], o[1]))
  BY <1>1, JoinPrefix
<1>3. p = q <=> o[1] = b[1]
  <2>1. ASSUME p = q PROVE o[1] = b[1]
    <3>1. /\ Len(p) = Len(o[1]) + 1 /\ \A i \in 1 .. Len(o[1]) : p[i + 1] = o[1][i]
          /\ Len(q) = Len(b[1]) + 1 /\ \A i \in 1 .. Len(b[1]) : q[i + 1] = b[1][i]
      BY <1>1, JoinFact
    <3>2. Len(o[1]) \in Nat /\ Len(b[1]) \in Nat
      BY <1>1, LenProperties
    <3> HIDE DEF p, q
    <3>3. Len(o[1]) = Len(b[1]) /\ \A i \in 1 .. Len(o[1]) : o[1][i] = b[1][i]
      BY <2>1, <3>1, <3>2
    <3>4. QED
      BY <1>1, <3>3, SeqEqual
  <2>2. QED
    BY <2>1
<1> HIDE DEF p, q
<1>4. (Yields(<<p, o[2]>>, <<q, b[2]>>) <=> Yields(o, b)) /\ (Overrides(<<p, o[2]>>, <<q, b[2]>>) <=> Overrides(o, b))
  BY <1>2, <1>3 DEF Yields, Overrides, IsStrictPrefix
<1>5. QED
  BY <1>4 DEF p, q

LEMMA UnderMerged ==
  ASSUME NEW k \in STRING, NEW base, NEW overlay, \A l \in base : IsLeaf(l), \A l \in overlay : IsLeaf(l)
  PROVE  \A l : l \in Under(k, MergedLeaves(base, overlay)) <=>
                  l \in MergedLeaves(Under(k, base), Under(k, overlay))
<1> DEFINE Down(l) == <<Join(k, l[1]), l[2]>>
<1> DEFINE b == Under(k, base)
<1> DEFINE o == Under(k, overlay)
<1>1. \A x \in base, y \in overlay : /\ Yields(Down(y), Down(x)) <=> Yields(y, x)
                                     /\ Overrides(Down(y), Down(x)) <=> Overrides(y, x)
  BY AffectsUnder
<1>2. \A leaves, l : l \in Under(k, leaves) <=> \E m \in leaves : l = Down(m)
  BY DEF Under
<1> HIDE DEF Down
<1>3. (\A l : l \in b <=> \E m \in base : l = Down(m)) /\ (\A l : l \in o <=> \E m \in overlay : l = Down(m))
  BY <1>2
<1> HIDE DEF b, o
<1>4. \A m \in overlay : (\A x \in b : ~Yields(Down(m), x)) <=> (\A x \in base : ~Yields(m, x))
  BY <1>1, <1>3
<1>5. \A m \in base : (\A y \in o : ~Overrides(y, Down(m))) <=> (\A y \in overlay : ~Overrides(y, m))
  BY <1>1, <1>3
<1>6. TAKE l
<1>7. ASSUME l \in Under(k, MergedLeaves(base, overlay))
      PROVE  l \in MergedLeaves(b, o)
  <2>1. PICK m \in MergedLeaves(base, overlay) : l = Down(m)
    BY <1>2, <1>7
  <2>2. \/ m \in overlay /\ \A x \in base : ~Yields(m, x)
        \/ m \in base /\ \A y \in overlay : ~Overrides(y, m)
    BY <2>1, MergedLeavesAre
  <2>3. \/ l \in o /\ \A x \in b : ~Yields(l, x)
        \/ l \in b /\ \A y \in o : ~Overrides(y, l)
    BY <1>3, <1>4, <1>5, <2>1, <2>2
  <2>4. QED
    BY <2>3, MergedLeavesAre
<1>8. ASSUME l \in MergedLeaves(b, o)
      PROVE  l \in Under(k, MergedLeaves(base, overlay))
  <2>1. \/ l \in o /\ \A x \in b : ~Yields(l, x)
        \/ l \in b /\ \A y \in o : ~Overrides(y, l)
    BY <1>8, MergedLeavesAre
  <2>2. PICK m : /\ l = Down(m)
                 /\ \/ m \in overlay /\ \A x \in base : ~Yields(m, x)
                    \/ m \in base /\ \A y \in overlay : ~Overrides(y, m)
    <3>1. CASE l \in o /\ \A x \in b : ~Yields(l, x)
      BY <1>3, <1>4, <3>1
    <3>2. CASE l \in b /\ \A y \in o : ~Overrides(y, l)
      BY <1>3, <1>5, <3>2
    <3>3. QED
      BY <2>1, <3>1, <3>2
  <2>3. m \in MergedLeaves(base, overlay)
    BY <2>2, MergedLeavesAre
  <2>4. QED
    BY <1>2, <2>2, <2>3
<1>9. QED
  BY <1>7, <1>8 DEF b, o

\* The overlay's leaves below a key are the merged ones, if it does not hold a
\* mapping while the base has entries there.
LEMMA OverlayWins ==
  ASSUME NEW n \in 1 .. Depth, NEW b \in Mappings[n], NEW o \in Mappings[n], NEW k \in DOMAIN o,
         ~(k \in DOMAIN b /\ HasEntries(b[k]) /\ IsMap(o[k]))
  PROVE  \A l : l \in MergedLeaves(At(n, b, k), At(n, o, k)) <=> l \in At(n, o, k)
<1> DEFINE A == At(n, b, k)
<1> DEFINE B == At(n, o, k)
<1>1. HasLeaves(n - 1)
  BY AllHaveLeaves, DepthFact
<1>2. /\ \A x \in B : IsLeaf(x) /\ x[1][1] = k /\ Len(x[1]) \in Nat
      /\ \E x : x \in B
      /\ ~HasEntries(o[k]) => \A x \in B : Len(x[1]) = 1 /\ x[2] = o[k]
      /\ HasEntries(o[k]) => \A x \in B : Len(x[1]) > 1
  BY <1>1, LeavesBelow
<1>3. ASSUME NEW l \in A, NEW x \in B
      PROVE  Related(l, x) /\ ~Yields(x, l)
  <2>1. k \in DOMAIN b
    BY DEF At
  <2>2. /\ IsLeaf(l) /\ l[1][1] = k /\ Len(l[1]) \in Nat
        /\ ~HasEntries(b[k]) => Len(l[1]) = 1
    BY <1>1, <2>1, LeavesBelow
  <2> HIDE DEF A, B
  <2>3. l[1] \in Path /\ x[1] \in Path /\ l[1][1] = x[1][1] /\ IsLeaf(x) /\ Len(x[1]) \in Nat
    BY <1>2, <2>2 DEF IsLeaf
  <2>4. Len(l[1]) = 1 \/ (Len(x[1]) = 1 /\ x[2] = o[k] /\ ~IsMap(o[k]))
    <3>1. CASE ~HasEntries(b[k])
      BY <2>2, <3>1
    <3>2. CASE HasEntries(b[k])
      <4>1. ~IsMap(o[k]) /\ ~HasEntries(o[k])
        BY <2>1, <3>2 DEF HasEntries
      <4>2. QED
        BY <1>2, <4>1
    <3>3. QED
      BY <3>1, <3>2
  <2>5. IsPrefix(l[1], x[1]) \/ IsPrefix(x[1], l[1])
    BY <2>3, <2>4, PrefixStart
  <2>6. Len(l[1]) = 1 => ~IsStrictPrefix(x[1], l[1])
    <3>1. SUFFICES ASSUME Len(l[1]) = 1, IsPrefix(x[1], l[1])
                   PROVE  x[1] = l[1]
      BY DEF IsStrictPrefix
    <3>2. x[1] \in Seq(STRING) /\ l[1] \in Seq(STRING) /\ Len(x[1]) >= 1
      BY <2>3, PathFact DEF Path
    <3>3. Len(x[1]) <= Len(l[1]) /\ \A i \in 1 .. Len(x[1]) : x[1][i] = l[1][i]
      BY <3>1, <3>2, PrefixFact
    <3>4. Len(x[1]) = Len(l[1])
      BY <2>3, <3>1, <3>2, <3>3
    <3>5. QED
      BY <3>2, <3>3, <3>4, SeqEqual
  <2>7. QED
    BY <2>4, <2>5, <2>6 DEF Related, Yields
<1> HIDE DEF A, B
<1>4. \A l : l \in MergedLeaves(A, B) <=> \/ l \in B /\ \A x \in A : ~Yields(l, x)
                                          \/ l \in A /\ \A x \in B : ~Overrides(x, l)
  BY MergedLeavesAre
<1>5. \A l \in A : \E x \in B : Overrides(x, l)
  BY <1>2, <1>3, Affects
<1>6. \A l : l \in MergedLeaves(A, B) <=> l \in B
  BY <1>3, <1>4, <1>5
<1>7. QED
  BY <1>6 DEF A, B

\* The base's are, if the overlay has nothing there or {} instead of entries.
LEMMA BaseStays ==
  ASSUME NEW n \in 1 .. Depth, NEW b \in Mappings[n], NEW o \in Mappings[n], NEW k \in DOMAIN b,
         k \in DOMAIN o => HasEntries(b[k]) /\ IsMap(o[k]) /\ ~HasEntries(o[k])
  PROVE  \A l : l \in MergedLeaves(At(n, b, k), At(n, o, k)) <=> l \in At(n, b, k)
<1> DEFINE A == At(n, b, k)
<1> DEFINE B == At(n, o, k)
<1>1. HasLeaves(n - 1)
  BY AllHaveLeaves, DepthFact
<1>2. /\ \A l \in A : IsLeaf(l) /\ l[1][1] = k /\ Len(l[1]) \in Nat
      /\ \E l : l \in A
      /\ HasEntries(b[k]) => \A l \in A : Len(l[1]) > 1
  BY <1>1, LeavesBelow
<1>3. ASSUME NEW l \in A, NEW x \in B
      PROVE  Yields(x, l)
  <2>1. k \in DOMAIN o
    BY DEF At
  <2>2. IsLeaf(x) /\ x[1][1] = k /\ Len(x[1]) = 1 /\ IsMap(x[2])
    BY <1>1, <2>1, LeavesBelow
  <2> HIDE DEF A, B
  <2>3. l[1] \in Path /\ x[1] \in Path /\ l[1][1] = x[1][1] /\ Len(l[1]) > 1
    BY <1>2, <2>1, <2>2 DEF IsLeaf
  <2>4. IsPrefix(x[1], l[1])
    BY <2>2, <2>3, PrefixStart
  <2>5. x[1] # l[1]
    <3>1. ~(1 > 1)
      OBVIOUS
    <3>2. QED
      BY <2>2, <2>3, <3>1
  <2>6. QED
    BY <2>2, <2>4, <2>5 DEF Yields, IsStrictPrefix
<1> HIDE DEF A, B
<1>4. \A l : l \in MergedLeaves(A, B) <=> \/ l \in B /\ \A x \in A : ~Yields(l, x)
                                          \/ l \in A /\ \A x \in B : ~Overrides(x, l)
  BY MergedLeavesAre
<1>5. \A l : l \in MergedLeaves(A, B) <=> l \in A
  BY <1>2, <1>3, <1>4, Affects
<1>6. QED
  BY <1>5 DEF A, B

\* What becomes of one key of two mappings.
LEMMA KeyMerges ==
  ASSUME NEW n \in 1 .. Depth, GoodMerges(n - 1),
         NEW b \in Mappings[n], NEW o \in Mappings[n], NEW k \in DOMAIN b \cup DOMAIN o
  PROVE  LET node == NodeMerged(b, o, k, Merges[n - 1])
         IN /\ k \in Keys[n]
            /\ node \in Leaves \cup Items \/ node \in SubMappings(n)
            /\ \A l : l \in LeavesAt(k, node, LeavesIn[n - 1]) <=>
                        l \in MergedLeaves(At(n, b, k), At(n, o, k))
<1> DEFINE node == NodeMerged(b, o, k, Merges[n - 1])
<1> DEFINE below == LeavesIn[n - 1]
<1> DEFINE A == At(n, b, k)
<1> DEFINE B == At(n, o, k)
<1>1. k \in Keys[n] /\ k \in STRING
  <2>1. IsMapping(n, b) /\ IsMapping(n, o)
    BY MappingIs
  <2>2. QED
    BY <2>1, DepthFact DEF IsMapping
<1>2. HasLeaves(n - 1) /\ n - 1 \in 0 .. Depth
  BY AllHaveLeaves, DepthFact
<1> SUFFICES /\ node \in Leaves \cup Items \/ node \in SubMappings(n)
             /\ \A l : l \in LeavesAt(k, node, below) <=> l \in MergedLeaves(A, B)
  BY <1>1
<1>3. CASE k \notin DOMAIN o
  <2>1. k \in DOMAIN b /\ node = b[k]
    BY <1>3 DEF NodeMerged
  <2>2. node \in Leaves \cup Items \/ node \in SubMappings(n)
    BY <2>1, NodeIs
  <2>3. A = LeavesAt(k, node, below)
    BY <2>1 DEF At
  <2>4. \A l : l \in MergedLeaves(A, B) <=> l \in A
    BY <1>3, <2>1, BaseStays
  <2> HIDE DEF A, B, node, below
  <2>5. QED
    BY <2>2, <2>3, <2>4
<1>4. CASE k \in DOMAIN b /\ k \in DOMAIN o /\ IsMap(b[k]) /\ IsMap(o[k])
  <2> DEFINE eb == b[k].entries
  <2> DEFINE eo == o[k].entries
  <2> DEFINE merged == Merges[n - 1][eb][eo]
  <2>1. node = Map(merged)
    BY <1>4 DEF NodeMerged
  <2>2. eb \in Mappings[n - 1] /\ eo \in Mappings[n - 1] /\ b[k] = Map(eb) /\ o[k] = Map(eo)
    BY <1>4, NodeIs
  <2>3. (HasEntries(b[k]) <=> eb # NoEntries) /\ (HasEntries(o[k]) <=> eo # NoEntries)
    BY <1>4 DEF HasEntries
  <2>4. A = LeavesAt(k, b[k], below) /\ B = LeavesAt(k, o[k], below)
    BY <1>4 DEF At
  <2>5. GoodMerge(n - 1, eb, eo)
    BY <2>2 DEF GoodMerges
  <2>6. below[NoEntries] = {}
    BY <1>2, NoLeaves
  <2>7. /\ eb # NoEntries => A = Under(k, below[eb])
        /\ eo # NoEntries => B = Under(k, below[eo])
    BY <2>3, <2>4 DEF LeavesAt
  <2>8. /\ eo = NoEntries /\ eb # NoEntries => \A l : l \in MergedLeaves(A, B) <=> l \in A
        /\ eb = NoEntries => \A l : l \in MergedLeaves(A, B) <=> l \in B
    BY <1>4, <2>3, BaseStays, OverlayWins
  <2> HIDE DEF A, B, node, eb, eo
  <2>9. /\ merged \in Mappings[n - 1] /\ (merged = NoEntries <=> eb = NoEntries /\ eo = NoEntries)
        /\ \A l : l \in below[merged] <=> l \in MergedLeaves(below[eb], below[eo])
    BY <2>5 DEF GoodMerge
  <2> HIDE DEF merged
  <2>10. node \in SubMappings(n) /\ IsMap(node) /\ node.entries = merged
    BY <2>1, <2>9, SubMapping
  <2>11. merged # NoEntries => LeavesAt(k, node, below) = Under(k, below[merged])
    BY <2>10 DEF LeavesAt, HasEntries
  <2>12. below[merged] = MergedLeaves(below[eb], below[eo])
    BY <2>9
  <2>13. CASE eb # NoEntries /\ eo # NoEntries
    <3> DEFINE x == below[eb]
    <3> DEFINE y == below[eo]
    <3>1. (\A l \in x : IsLeaf(l)) /\ (\A l \in y : IsLeaf(l))
      BY <1>2, <2>2 DEF HasLeaves
    <3>2. A = Under(k, x) /\ B = Under(k, y) /\ below[merged] = MergedLeaves(x, y)
      BY <2>7, <2>12, <2>13
    <3> HIDE DEF x, y
    <3>3. \A l : l \in Under(k, MergedLeaves(x, y)) <=> l \in MergedLeaves(Under(k, x), Under(k, y))
      BY <1>1, <3>1, UnderMerged
    <3>4. LeavesAt(k, node, below) = Under(k, MergedLeaves(x, y))
      BY <2>9, <2>11, <2>13, <3>2
    <3>5. QED
      BY <2>10, <3>2, <3>3, <3>4
  <2>14. CASE eo = NoEntries /\ eb # NoEntries
    <3> DEFINE x == below[eb]
    <3>1. \A l : l \in MergedLeaves(x, {}) <=> l \in x
      BY MergedLeavesAre
    <3>2. below[merged] = x
      BY <2>6, <2>12, <2>14, <3>1
    <3>3. LeavesAt(k, node, below) = A
      BY <2>7, <2>9, <2>11, <2>14, <3>2
    <3>4. QED
      BY <2>8, <2>10, <2>14, <3>3
  <2>15. CASE eb = NoEntries
    <3> DEFINE y == below[eo]
    <3>1. \A l : l \in MergedLeaves({}, y) <=> l \in y
      BY MergedLeavesAre
    <3>2. below[merged] = y
      BY <2>6, <2>12, <2>15, <3>1
    <3>3. LeavesAt(k, node, below) = B
      <4>1. CASE eo = NoEntries
        BY <2>1, <2>2, <2>4, <2>9, <2>15, <4>1
      <4>2. CASE eo # NoEntries
        BY <2>7, <2>9, <2>11, <3>2, <4>2
      <4>3. QED
        BY <4>1, <4>2
    <3>4. QED
      BY <2>8, <2>10, <2>15, <3>3
  <2>16. QED
    BY <2>13, <2>14, <2>15
<1>5. CASE k \in DOMAIN o /\ ~(k \in DOMAIN b /\ IsMap(b[k]) /\ IsMap(o[k]))
  <2>1. node = o[k]
    BY <1>5 DEF NodeMerged
  <2>2. node \in Leaves \cup Items \/ node \in SubMappings(n)
    BY <1>5, <2>1, NodeIs
  <2>3. B = LeavesAt(k, node, below)
    BY <1>5, <2>1 DEF At
  <2>4. ~(k \in DOMAIN b /\ HasEntries(b[k]) /\ IsMap(o[k]))
    BY <1>5 DEF HasEntries
  <2>5. \A l : l \in MergedLeaves(A, B) <=> l \in B
    BY <1>5, <2>4, OverlayWins
  <2> HIDE DEF A, B, node, below
  <2>6. QED
    BY <2>2, <2>3, <2>5
<1>6. QED
  BY <1>3, <1>4, <1>5

\* Leaves below different keys are not related, so that what happens key by
\* key happens to the whole.
LEMMA MergeByKeys ==
  ASSUME NEW n \in 1 .. Depth, NEW b \in Mappings[n], NEW o \in Mappings[n]
  PROVE  \A l : l \in MergedLeaves(LeavesIn[n][b], LeavesIn[n][o]) <=>
                  \E k \in DOMAIN b \cup DOMAIN o : l \in MergedLeaves(At(n, b, k), At(n, o, k))
<1> DEFINE D == DOMAIN b \cup DOMAIN o
<1>1. HasLeaves(n - 1)
  BY AllHaveLeaves, DepthFact
<1>2. /\ \A l : l \in LeavesIn[n][b] <=> \E k \in D : l \in At(n, b, k)
      /\ \A l : l \in LeavesIn[n][o] <=> \E k \in D : l \in At(n, o, k)
  BY LeavesAre DEF At
<1>3. \A k \in D : /\ \A l \in At(n, b, k) : l[1] \in Path /\ l[1][1] = k
                   /\ \A l \in At(n, o, k) : l[1] \in Path /\ l[1][1] = k
  BY <1>1, LeavesBelow DEF At, IsLeaf
<1>4. \A k, j \in D : \A l \in At(n, b, k), x \in At(n, o, j) : Related(l, x) => k = j
  BY <1>3, PrefixStart DEF Related
<1> HIDE DEF D
<1>5. \A k \in D : \A l \in At(n, o, k) :
        (\A x \in LeavesIn[n][b] : ~Yields(l, x)) <=> \A x \in At(n, b, k) : ~Yields(l, x)
  <2>1. TAKE k \in D
  <2>2. TAKE l \in At(n, o, k)
  <2>3. \A x \in LeavesIn[n][b] : Yields(l, x) => x \in At(n, b, k)
    BY <1>2, <1>4, Affects
  <2>4. QED
    BY <1>2, <2>3
<1>6. \A k \in D : \A l \in At(n, b, k) :
        (\A x \in LeavesIn[n][o] : ~Overrides(x, l)) <=> \A x \in At(n, o, k) : ~Overrides(x, l)
  <2>1. TAKE k \in D
  <2>2. TAKE l \in At(n, b, k)
  <2>3. \A x \in LeavesIn[n][o] : Overrides(x, l) => x \in At(n, o, k)
    BY <1>2, <1>4, Affects
  <2>4. QED
    BY <1>2, <2>3
<1>7. TAKE l
<1>8. ASSUME l \in MergedLeaves(LeavesIn[n][b], LeavesIn[n][o])
      PROVE  \E k \in D : l \in MergedLeaves(At(n, b, k), At(n, o, k))
  <2>1. CASE l \in LeavesIn[n][o] /\ \A x \in LeavesIn[n][b] : ~Yields(l, x)
    <3>1. PICK k \in D : l \in At(n, o, k)
      BY <1>2, <2>1
    <3>2. \A x \in At(n, b, k) : ~Yields(l, x)
      BY <1>5, <2>1, <3>1
    <3>3. QED
      BY <3>1, <3>2, MergedLeavesAre
  <2>2. CASE l \in LeavesIn[n][b] /\ \A x \in LeavesIn[n][o] : ~Overrides(x, l)
    <3>1. PICK k \in D : l \in At(n, b, k)
      BY <1>2, <2>2
    <3>2. \A x \in At(n, o, k) : ~Overrides(x, l)
      BY <1>6, <2>2, <3>1
    <3>3. QED
      BY <3>1, <3>2, MergedLeavesAre
  <2>3. QED
    BY <1>8, <2>1, <2>2, MergedLeavesAre
<1>9. ASSUME NEW k \in D, l \in MergedLeaves(At(n, b, k), At(n, o, k))
      PROVE  l \in MergedLeaves(LeavesIn[n][b], LeavesIn[n][o])
  <2>1. CASE l \in At(n, o, k) /\ \A x \in At(n, b, k) : ~Yields(l, x)
    <3>1. l \in LeavesIn[n][o] /\ \A x \in LeavesIn[n][b] : ~Yields(l, x)
      BY <1>2, <1>5, <2>1
    <3>2. QED
      BY <3>1, MergedLeavesAre
  <2>2. CASE l \in At(n, b, k) /\ \A x \in At(n, o, k) : ~Overrides(x, l)
    <3>1. l \in LeavesIn[n][b] /\ \A x \in LeavesIn[n][o] : ~Overrides(x, l)
      BY <1>2, <1>6, <2>2
    <3>2. QED
      BY <3>1, MergedLeavesAre
  <2>3. QED
    BY <1>9, <2>1, <2>2, MergedLeavesAre
<1>10. QED
  BY <1>8, <1>9 DEF D

LEMMA MergesDeeper ==
  ASSUME NEW n \in 1 .. Depth, GoodMerges(n - 1), NEW b \in Mappings[n], NEW o \in Mappings[n]
  PROVE  GoodMerge(n, b, o)
<1> DEFINE D == DOMAIN b \cup DOMAIN o
<1> DEFINE m == Merges[n][b][o]
<1> DEFINE Node(k) == NodeMerged(b, o, k, Merges[n - 1])
<1>1. n \in 0 .. Depth
  BY DepthFact
<1>2. m = [k \in D |-> Node(k)]
  BY <1>1, MergeIs
<1>3. \A k \in D : /\ k \in Keys[n] /\ (Node(k) \in Leaves \cup Items \/ Node(k) \in SubMappings(n))
                   /\ \A l : l \in LeavesAt(k, Node(k), LeavesIn[n - 1]) <=>
                               l \in MergedLeaves(At(n, b, k), At(n, o, k))
  BY KeyMerges
<1> HIDE DEF m, Node
<1>4. DOMAIN m = D /\ m = [k \in DOMAIN m |-> m[k]] /\ \A k \in D : m[k] = Node(k)
  BY <1>2
<1>5. m \in Mappings[n]
  <2>1. IsMapping(n, m)
    BY <1>3, <1>4 DEF IsMapping
  <2>2. QED
    BY <2>1, MappingIs
<1>6. m = NoEntries <=> b = NoEntries /\ o = NoEntries
  <2>1. b = [k \in DOMAIN b |-> b[k]] /\ o = [k \in DOMAIN o |-> o[k]]
    BY MappingIs DEF IsMapping
  <2>2. (m = NoEntries <=> DOMAIN m = {}) /\ (b = NoEntries <=> DOMAIN b = {}) /\ (o = NoEntries <=> DOMAIN o = {})
    BY <1>4, <2>1, EmptyMapping
  <2>3. QED
    BY <1>4, <2>2
<1>7. \A l : l \in LeavesIn[n][m] <=> l \in MergedLeaves(LeavesIn[n][b], LeavesIn[n][o])
  <2>1. \A l : l \in LeavesIn[n][m] <=> \E k \in D : l \in At(n, m, k)
    BY <1>4, <1>5, LeavesAre
  <2>2. \A k \in D : At(n, m, k) = LeavesAt(k, Node(k), LeavesIn[n - 1])
    BY <1>4 DEF At
  <2>3. \A l : l \in MergedLeaves(LeavesIn[n][b], LeavesIn[n][o]) <=>
                 \E k \in D : l \in MergedLeaves(At(n, b, k), At(n, o, k))
    BY MergeByKeys
  <2> HIDE DEF D
  <2>4. QED
    BY <1>3, <2>1, <2>2, <2>3
<1>8. QED
  BY <1>5, <1>6, <1>7 DEF GoodMerge, m

LEMMA AllMergesGood == \A n \in 0 .. Depth : GoodMerges(n)
<1> DEFINE P == {n \in Nat : n <= Depth => GoodMerges(n)}
<1>1. 0 \in P
  BY NothingMerges
<1>2. ASSUME NEW m \in Nat, m \in P
      PROVE  m + 1 \in P
  <2> DEFINE n == m + 1
  <2>1. SUFFICES ASSUME n <= Depth
                 PROVE  GoodMerges(n)
    OBVIOUS
  <2>2. n \in 1 .. Depth /\ n - 1 = m /\ GoodMerges(n - 1)
    BY <1>2, <2>1, DepthFact
  <2> HIDE DEF n
  <2>3. QED
    BY <2>2, MergesDeeper DEF GoodMerges
<1>3. Nat \subseteq P
  <2> HIDE DEF P
  <2>1. QED
    BY <1>1, <1>2, NaturalInduction
<1>4. QED
  BY <1>3, DepthFact

\* What is loaded, and why it is not a variable that it fails for.
IsDeployment(d) ==
  /\ DOMAIN d = {"pc", "base", "overlay", "remarks", "named", "documented", "environ", "check", "result"}
  /\ Entries(d.base) \in Mappings[Depth] /\ Entries(d.overlay) \in Mappings[Depth]
  /\ d.environ \subseteq Variables

LEMMA LeavesOfMerged ==
  ASSUME NEW d, IsDeployment(d)
  PROVE  LeavesOf(Merged(d)) = MergedLeaves(LeavesOf(Entries(d.base)), LeavesOf(Entries(d.overlay)))
<1> DEFINE b == Entries(d.base)
<1> DEFINE o == Entries(d.overlay)
<1>1. b \in Mappings[Depth] /\ o \in Mappings[Depth] /\ Depth \in 0 .. Depth
  BY DepthFact DEF IsDeployment
<1> HIDE DEF b, o
<1>2. GoodMerge(Depth, b, o)
  BY <1>1, AllMergesGood DEF GoodMerges
<1>3. LeavesIn[Depth][Merges[Depth][b][o]] = MergedLeaves(LeavesIn[Depth][b], LeavesIn[Depth][o])
  BY <1>2 DEF GoodMerge
<1>4. QED
  BY <1>3 DEF LeavesOf, Merged, DeepMerge, Depth, b, o

LEMMA RunsAre ==
  /\ \A e, r : r \in Runs(e) <=> \E l \in LeavesOf(e) : \E s \in Strings(l[2]) : r \in RunsIn(s)
  /\ \A e, v : v \in References(e) <=> \E r \in Runs(e) : Refers(r) /\ v = r.text
<1>1. ASSUME NEW leaves
      PROVE  \A r : r \in UNION {RunsIn(s) : s \in UNION {Strings(l[2]) : l \in leaves}} <=>
                      \E l \in leaves : \E s \in Strings(l[2]) : r \in RunsIn(s)
  OBVIOUS
<1>2. \A e, r : r \in Runs(e) <=> \E l \in LeavesOf(e) : \E s \in Strings(l[2]) : r \in RunsIn(s)
  BY <1>1 DEF Runs
<1>3. \A e, v : v \in References(e) <=> \E r \in Runs(e) : Refers(r) /\ v = r.text
  BY DEF References
<1>4. QED
  BY <1>2, <1>3

\* A reference in what is merged is in one of the files: check-env-example finds
\* it, or some dollar of it is written as an escape.
LEMMA ReferencesAreScanned ==
  ASSUME NEW d, IsDeployment(d)
  PROVE  References(Merged(d)) \subseteq ScanYamlVars(d) \cup EscapedReferences(d)
<1>1. \A l \in LeavesOf(Merged(d)) : l \in LeavesOf(Entries(d.base)) \/ l \in LeavesOf(Entries(d.overlay))
  BY LeavesOfMerged DEF MergedLeaves
<1>2. Runs(Merged(d)) \subseteq FileRuns(d)
  BY <1>1, RunsAre DEF FileRuns
<1>3. ASSUME NEW r \in FileRuns(d), Refers(r)
      PROVE  r.text \in ScanYamlVars(d) \cup EscapedReferences(d)
  <2>1. CASE r.plain = r.dollars
    <3>1. r.text \in Variables /\ r.plain % 2 = 1
      BY <1>3, <2>1 DEF Refers
    <3>2. QED
      BY <1>3, <3>1 DEF ScanYamlVars
  <2>2. CASE r.plain # r.dollars
    BY <1>3, <2>2 DEF EscapedReferences
  <2>3. QED
    BY <2>1, <2>2
<1>4. QED
  BY <1>2, <1>3, RunsAre

LEMMA SubstituteStringSame ==
  ASSUME NEW leaf, NEW environ, environ \subseteq Variables, \A r \in RunsIn(leaf) : Refers(r) => r.text \in environ
  PROVE  SubstituteString(leaf, environ) = SubstituteString(leaf, Variables)
<1>1. CASE leaf.type = "string"
  <2>1. \A i \in DOMAIN leaf.runs : SubstituteRun(leaf.runs[i], environ) = SubstituteRun(leaf.runs[i], Variables)
    <3>1. TAKE i \in DOMAIN leaf.runs
    <3>2. leaf.runs[i] \in RunsIn(leaf)
      BY <1>1 DEF RunsIn, ToSet
    <3>3. Refers(leaf.runs[i]) => leaf.runs[i].text \in environ /\ leaf.runs[i].text \in Variables
      BY <3>2
    <3>4. QED
      BY <3>3 DEF SubstituteRun
  <2>2. [i \in DOMAIN leaf.runs |-> SubstituteRun(leaf.runs[i], environ)]
          = [i \in DOMAIN leaf.runs |-> SubstituteRun(leaf.runs[i], Variables)]
    BY <2>1
  <2>3. QED
    BY <2>2 DEF SubstituteString
<1>2. CASE leaf.type # "string"
  BY <1>2 DEF SubstituteString
<1>3. QED
  BY <1>1, <1>2

LEMMA SubstituteSame ==
  ASSUME NEW node, NEW environ, environ \subseteq Variables,
         \A s \in Strings(node) : \A r \in RunsIn(s) : Refers(r) => r.text \in environ
  PROVE  SubstituteLeaf(node, environ) = SubstituteLeaf(node, Variables)
<1>1. \A s \in Strings(node) : SubstituteString(s, environ) = SubstituteString(s, Variables)
  BY SubstituteStringSame
<1>2. CASE node.type = "list"
  <2>1. \A item \in node.items : SubstituteString(item[2], environ) = SubstituteString(item[2], Variables)
    BY <1>1, <1>2 DEF Strings
  <2>2. {<<item[1], SubstituteString(item[2], environ)>> : item \in node.items}
          = {<<item[1], SubstituteString(item[2], Variables)>> : item \in node.items}
    BY <2>1
  <2>3. QED
    BY <1>2, <2>2 DEF SubstituteLeaf
<1>3. CASE node.type # "list"
  BY <1>1, <1>3 DEF Strings, SubstituteLeaf
<1>4. QED
  BY <1>2, <1>3

\* The checks: only the sixth is for the variables, and none says "loaded".
LEMMA ChecksAre ==
  ASSUME NEW d
  PROVE  /\ DOMAIN Checks(d) = 1 .. 7
         /\ \A i \in 1 .. 7 : Checks(d)[i].phase # "loaded"
         /\ \A i \in 1 .. 7 : Checks(d)[i].phase = "substitute" => i = 6
         /\ Checks(d)[6].phase = "substitute" /\ Checks(d)[6].errors = References(Merged(d)) \ d.environ
BY DEF Checks

LEMMA LoadedIs ==
  ASSUME NEW d
  PROVE  \/ /\ \A i \in 1 .. 7 : Checks(d)[i].errors = {}
            /\ Loaded(d) = [phase |-> "loaded", errors |-> {},
                 leaves |-> {<<l[1], SubstituteLeaf(l[2], d.environ)>> : l \in LeavesOf(Merged(d))}]
         \/ \E i \in 1 .. 7 : Checks(d)[i].errors # {} /\ Loaded(d) = Checks(d)[i]
<1> DEFINE failed == {i \in DOMAIN Checks(d) : Checks(d)[i].errors # {}}
<1>1. failed = {i \in 1 .. 7 : Checks(d)[i].errors # {}}
  BY ChecksAre
<1>2. CASE failed = {}
  BY <1>1, <1>2 DEF Loaded
<1>3. CASE failed # {}
  <2>1. failed \subseteq Nat
    BY <1>1
  <2> HIDE DEF failed
  <2>2. \E x \in failed : \A y \in failed : x <= y
    BY <1>3, <2>1, LeastNumber
  <2>3. Min(failed) \in failed
    BY <2>2 DEF Min
  <2>4. Loaded(d) = Checks(d)[Min(failed)]
    BY <1>3 DEF Loaded, failed
  <2>5. QED
    BY <1>1, <2>3, <2>4
<1>4. QED
  BY <1>2, <1>3

LEMMA LoadedFact ==
  ASSUME NEW d, IsDeployment(d)
  PROVE  /\ Checked(d) = "OK" /\ d.documented \subseteq d.environ /\ Loaded(d).phase = "substitute" =>
              Loaded(d).errors \subseteq EscapedReferences(d)
         /\ Loaded(d).phase = "loaded" =>
              Loaded(d).leaves = {<<l[1], SubstituteLeaf(l[2], Variables)>> :
                l \in MergedLeaves(LeavesOf(Entries(d.base)), LeavesOf(Entries(d.overlay)))}
<1> DEFINE missing == References(Merged(d)) \ d.environ
<1>1. ASSUME Checked(d) = "OK", d.documented \subseteq d.environ, Loaded(d).phase = "substitute"
      PROVE  Loaded(d).errors \subseteq EscapedReferences(d)
  <2>1. ScanYamlVars(d) \subseteq d.documented
    BY <1>1 DEF Checked
  <2>2. missing \subseteq EscapedReferences(d)
    BY <1>1, <2>1, ReferencesAreScanned
  <2>3. PICK i \in 1 .. 7 : Loaded(d) = Checks(d)[i]
    BY <1>1, LoadedIs
  <2>4. i = 6
    BY <1>1, <2>3, ChecksAre
  <2>5. Loaded(d).errors = missing
    BY <2>3, <2>4, ChecksAre
  <2>6. QED
    BY <2>2, <2>5
<1>2. ASSUME Loaded(d).phase = "loaded"
      PROVE  Loaded(d).leaves = {<<l[1], SubstituteLeaf(l[2], Variables)>> : l \in LeavesOf(Merged(d))}
  <2>1. /\ \A i \in 1 .. 7 : Checks(d)[i].errors = {}
        /\ Loaded(d).leaves = {<<l[1], SubstituteLeaf(l[2], d.environ)>> : l \in LeavesOf(Merged(d))}
    <3>1. ASSUME NEW i \in 1 .. 7, Loaded(d) = Checks(d)[i]
          PROVE  FALSE
      <4>1. Checks(d)[i].phase # "loaded"
        BY ChecksAre
      <4>2. QED
        BY <1>2, <3>1, <4>1
    <3>2. /\ \A i \in 1 .. 7 : Checks(d)[i].errors = {}
          /\ Loaded(d) = [phase |-> "loaded", errors |-> {},
               leaves |-> {<<l[1], SubstituteLeaf(l[2], d.environ)>> : l \in LeavesOf(Merged(d))}]
      BY <3>1, LoadedIs
    <3>3. QED
      BY <3>2
  <2>2. References(Merged(d)) \subseteq d.environ
    <3>1. Checks(d)[6].errors = {}
      BY <2>1
    <3>2. missing = {}
      BY <3>1, ChecksAre
    <3>3. QED
      BY <3>2
  <2>3. \A l \in LeavesOf(Merged(d)) : \A s \in Strings(l[2]) : \A r \in RunsIn(s) :
          Refers(r) => r.text \in d.environ
    BY <2>2, RunsAre
  <2>4. \A l \in LeavesOf(Merged(d)) : SubstituteLeaf(l[2], d.environ) = SubstituteLeaf(l[2], Variables)
    BY <2>3, SubstituteSame DEF IsDeployment
  <2>5. QED
    BY <2>1, <2>4
<1>3. QED
  BY <1>1, <1>2, LeavesOfMerged

LEMMA ResultsSame ==
  ASSUME NEW d, NEW e, e.base = d.base, e.overlay = d.overlay, e.remarks = d.remarks, e.named = d.named,
         e.documented = d.documented, e.environ = d.environ
  PROVE  Checked(e) = Checked(d) /\ Loaded(e) = Loaded(d)
<1>1. ScanYamlVars(e) = ScanYamlVars(d)
  BY DEF ScanYamlVars, FileRuns
<1>2. Checked(e) = Checked(d)
  BY <1>1 DEF Checked
<1>3. Merged(e) = Merged(d)
  BY DEF Merged
<1>4. Checks(e) = Checks(d)
  BY <1>3 DEF Checks
<1>5. Loaded(e) = Loaded(d)
  BY <1>3, <1>4 DEF Loaded
<1>6. QED
  BY <1>2, <1>5

ConfigInv ==
  \/ deployment.pc = "none"
  \/ /\ deployment.pc \in {"deployed", "checked", "loaded"} /\ IsDeployment(deployment)
     /\ deployment.pc # "deployed" => deployment.check = Checked(deployment)
     /\ deployment.pc = "loaded" => deployment.result = Loaded(deployment)

LEMMA DeployStep ==
  ASSUME Deploy
  PROVE  ConfigInv'
<1>1. PICK base \in Files, overlay \in Files, environ \in SUBSET Variables :
        /\ deployment'.pc = "deployed" /\ deployment'.base = base /\ deployment'.overlay = overlay
        /\ deployment'.environ = environ
        /\ DOMAIN deployment' = {"pc", "base", "overlay", "remarks", "named", "documented", "environ", "check", "result"}
  <2>1. PICK base, overlay \in Files, remarks, documented, environ \in SUBSET Variables, named \in BOOLEAN :
          deployment' = [pc |-> "deployed", base |-> base, overlay |-> overlay, remarks |-> remarks,
                         named |-> named, documented |-> documented, environ |-> environ,
                         check |-> "none", result |-> [phase |-> "none", errors |-> {}]]
    BY DEF Deploy
  <2>2. QED
    BY <2>1
<1>2. \A file \in Files : Entries(file) \in Mappings[Depth]
  <2>1. NoEntries \in Mappings[Depth]
    BY NothingIsMapping, DepthFact
  <2>2. QED
    BY <2>1 DEF Files, Entries, Depth
<1>3. QED
  BY <1>1, <1>2 DEF ConfigInv, IsDeployment

LEMMA CheckStep ==
  ASSUME ConfigInv, CheckEnvExample
  PROVE  ConfigInv'
<1> DEFINE d == deployment
<1> DEFINE e == deployment'
<1>1. d.pc = "deployed" /\ e = [d EXCEPT !.pc = "checked", !.check = Checked(d)] /\ IsDeployment(d)
  BY DEF CheckEnvExample, ConfigInv
<1>2. /\ e.pc = "checked" /\ e.check = Checked(d) /\ DOMAIN e = DOMAIN d
      /\ e.base = d.base /\ e.overlay = d.overlay /\ e.remarks = d.remarks /\ e.named = d.named
      /\ e.documented = d.documented /\ e.environ = d.environ
  BY <1>1 DEF IsDeployment
<1>3. Checked(e) = Checked(d)
  BY <1>2, ResultsSame
<1>4. IsDeployment(e)
  BY <1>1, <1>2 DEF IsDeployment
<1>5. QED
  BY <1>2, <1>3, <1>4 DEF ConfigInv

LEMMA LoadStep ==
  ASSUME ConfigInv, LoadConfig
  PROVE  ConfigInv'
<1> DEFINE d == deployment
<1> DEFINE e == deployment'
<1>1. /\ d.pc = "checked" /\ d.check = Checked(d) /\ IsDeployment(d)
      /\ e = [d EXCEPT !.pc = "loaded", !.result = Loaded(d)]
  BY DEF LoadConfig, ConfigInv
<1>2. /\ e.pc = "loaded" /\ e.result = Loaded(d) /\ e.check = d.check /\ DOMAIN e = DOMAIN d
      /\ e.base = d.base /\ e.overlay = d.overlay /\ e.remarks = d.remarks /\ e.named = d.named
      /\ e.documented = d.documented /\ e.environ = d.environ
  BY <1>1 DEF IsDeployment
<1>3. Checked(e) = Checked(d) /\ Loaded(e) = Loaded(d)
  BY <1>2, ResultsSame
<1>4. IsDeployment(e)
  BY <1>1, <1>2 DEF IsDeployment
<1>5. QED
  BY <1>1, <1>2, <1>3, <1>4 DEF ConfigInv

\* A deployment that check-env-example accepts, in an environment that sets all
\* it documents, fails for no variable but one whose reference is written with
\* an escape, and what is loaded is leaf by leaf the overlay's or else the
\* base's, however deep the files nest.
THEOREM CheckedConfigAlwaysLoads == ConfigSpec => []CheckedConfigLoads
<1>1. ConfigInit => ConfigInv
  BY DEF ConfigInit, ConfigInv
<1>2. ASSUME ConfigInv, [ConfigNext]_deployment
      PROVE  ConfigInv'
  <2>1. CASE UNCHANGED deployment
    BY <1>2, <2>1 DEF ConfigInv
  <2>2. CASE ConfigNext
    BY <1>2, <2>2, DeployStep, CheckStep, LoadStep DEF ConfigNext
  <2>3. QED
    BY <1>2, <2>1, <2>2
<1>3. ASSUME ConfigInv
      PROVE  CheckedConfigLoads
  <2> SUFFICES ASSUME deployment.pc = "loaded" PROVE CheckedConfigLoads
    BY DEF CheckedConfigLoads
  <2>1. IsDeployment(deployment) /\ deployment.check = Checked(deployment) /\ deployment.result = Loaded(deployment)
    BY <1>3 DEF ConfigInv
  <2>2. QED
    BY <2>1, LoadedFact DEF CheckedConfigLoads
<1>4. QED
  BY <1>1, <1>2, <1>3, PTL DEF ConfigSpec

=============================================================================
