-------------------------- MODULE McpServiceProofs --------------------------
(***************************************************************************)
(* What the connections of an MCP service find and leave behind, for any   *)
(* number of connections and any choice of resources.                      *)
(*                                                                         *)
(* FieldsOpen holds however the connections overlap.  AloneIsSafe needs to *)
(* know who is where as long as nothing overlapped and nothing failed      *)
(* (Exclusive): then the one lifespan that runs owns the resources         *)
(* (Holdings), self.registry accounts for the heartbeat that runs          *)
(* (Registration), and the service is listed only while it, or a request   *)
(* under way, does (Requests).                                             *)
(***************************************************************************)
EXTENDS McpService, TLAPS

Stages == {"unborn", "ended", "failed", "live", "registering", "pooling", "starting", "stopping",
           "deleting", "authorizer", "cache", "pool"}

TypeOK ==
  /\ pc \in [Procs -> Stages]
  /\ pc[Up] \in {"unborn", "registering", "ended"}
  /\ pc[Down] \in {"unborn", "deleting", "ended"}
  /\ \A c \in Conns : pc[c] \in {"unborn", "ended", "failed", "live", "registering", "pooling",
                                 "starting", "stopping", "deleting"} \cup Kinds
  /\ \A c \in Conns : pc[c] = "pooling" => "pool" \in Kinds
  /\ main \in {"waiting", "running", "exiting", "exited"}
  /\ registry \in Clients \cup {None}
  /\ beat \in [Clients -> {"off", "server", "background"}]
  /\ field \in [Kinds -> Conns \cup {None, Injected}]
  /\ owned \subseteq Kinds
  /\ open \in [Kinds -> SUBSET Conns]
  /\ net \subseteq [op : {"POST", "DELETE"}, by : Procs]
  /\ answered \subseteq Procs
  /\ listed \in BOOLEAN /\ clean \in BOOLEAN /\ broke \subseteq Kinds

\* One lifespan at a time, and the two coroutines before and after them.
Exclusive ==
  /\ clean => \A c, d \in Conns : pc[c] \notin Over /\ pc[d] \notin Over => c = d
  /\ main = "waiting" => pc[Down] = "unborn" /\ \A c \in Conns : pc[c] = "unborn"
  /\ main \in {"exiting", "exited"} => \A c \in Conns : pc[c] \in Over
  /\ pc[Down] # "unborn" => main \in {"exiting", "exited"}
  /\ clean /\ pc[Up] = "registering" => main = "waiting"

OwnedHere == \A k \in Kinds : field[k] \in Conns => k \in owned

Here(k) == field[k] = Injected \/ field[k] \in open[k]

Holdings ==
  /\ \A k \in Kinds : open[k] \subseteq {field[k]}
  /\ \A c \in Conns : pc[c] \in {"starting", "live", "stopping", "deleting"} =>
       \A k \in Kinds : Here(k)
  /\ \A c \in Conns : pc[c] = "pooling" =>
       /\ field["pool"] = None
       /\ \A k \in Kinds \ {"pool"} : Here(k)
  /\ (\A c \in Conns : pc[c] \in Over \cup {"registering"}) => \A k \in Kinds : field[k] \notin Conns
  /\ \A c \in Conns, k \in Kinds : pc[c] = k =>
       /\ open[k] = {}
       /\ \A j \in Kinds \cap Before(k) : field[j] \notin Conns

\* Who is registered, whose heartbeat runs and what is under way.
Registration ==
  /\ \A c \in Conns : beat[c] # "off" => registry = c
  /\ registry \in Conns =>
       pc[registry] \in {"registering", "pooling", "starting", "live", "stopping", "deleting"}
  /\ registry = Up => pc[Up] # "unborn"
  /\ \A p \in Procs : pc[p] = "deleting" => \A c \in Conns : beat[c] = "off"
  /\ \A p \in Procs : pc[p] = "registering" => registry # None
  /\ pc[Down] = "ended" => registry = None

Requests ==
  /\ \A m \in net : /\ m.by \notin answered
                    /\ pc[m.by] = IF m.op = "POST" THEN "registering" ELSE "deleting"
  /\ \A p \in answered : pc[p] \in {"registering", "deleting"}
  /\ listed => registry # None
  /\ \A p \in answered : pc[p] = "deleting" => ~listed
  /\ main = "exited" => ~listed

Safe == Holdings /\ Registration /\ Requests

RInv == TypeOK /\ Exclusive /\ OwnedHere /\ (clean => Safe)

-----------------------------------------------------------------------------

LEMMA BeforeFact ==
  /\ Before("authorizer") = {}
  /\ Before("cache") = {"authorizer"}
  /\ Before("pool") = {"authorizer", "cache"}
BY DEF Before

LEMMA DistinctFact ==
  /\ Up \notin Conns /\ Down \notin Conns /\ Up # Down
  /\ None \notin Conns /\ Injected \notin Conns /\ None \notin Clients
  /\ Kinds \subseteq {"authorizer", "cache", "pool"}
  /\ Over = {"unborn", "ended", "failed"}
BY ServiceAssumption DEF Clients, Over

\* The teardown takes the kinds in their order.
LEMMA FirstDue ==
  ASSUME NEW due \in SUBSET Kinds, due # {}
  PROVE  \E k \in due : Before(k) \cap due = {}
<1>1. due \subseteq {"authorizer", "cache", "pool"}
  BY DistinctFact
<1>2. CASE "authorizer" \in due
  BY <1>2, BeforeFact
<1>3. CASE "authorizer" \notin due /\ "cache" \in due
  BY <1>3, BeforeFact
<1>4. CASE "authorizer" \notin due /\ "cache" \notin due
  <2>1. "pool" \in due
    BY <1>1, <1>4
  <2>2. QED
    BY <1>4, <2>1, BeforeFact
<1>5. QED
  BY <1>2, <1>3, <1>4

LEMMA CloseNextFact ==
  ASSUME NEW c, NEW f, NEW rest \in SUBSET Kinds, CloseNext(c, f, rest)
  PROVE  \/ /\ Goto(c, "ended") /\ open' = open
            /\ \A k \in rest : ~ToClose(f, k)
         \/ \E k \in rest : /\ ToClose(f, k) /\ Goto(c, k)
                            /\ open' = [open EXCEPT ![k] = @ \ {f[k]}]
                            /\ \A j \in rest \cap Before(k) : ~ToClose(f, j)
<1> DEFINE due == {k \in rest : ToClose(f, k)}
<1>1. CASE due = {}
  BY <1>1 DEF CloseNext
<1>2. CASE due # {}
  <2> DEFINE k == CHOOSE k \in due : Before(k) \cap due = {}
  <2>1. \E j \in due : Before(j) \cap due = {}
    BY <1>2, FirstDue
  <2>2. k \in due /\ Before(k) \cap due = {}
    BY <2>1
  <2>3. Goto(c, k) /\ open' = [open EXCEPT ![k] = @ \ {f[k]}]
    BY <1>2 DEF CloseNext
  <2> HIDE DEF k
  <2>4. \A j \in rest \cap Before(k) : ~ToClose(f, j)
    BY <2>2
  <2>5. QED
    BY <2>2, <2>3, <2>4
<1>3. QED
  BY <1>1, <1>2

LEMMA GotoFact ==
  ASSUME pc \in [Procs -> Stages], NEW p \in Procs, NEW place \in Stages, Goto(p, place)
  PROVE  /\ pc' \in [Procs -> Stages] /\ pc'[p] = place
         /\ \A q \in Procs \ {p} : pc'[q] = pc[q]
BY DEF Goto

LEMMA StagesFact ==
  /\ Kinds \subseteq Stages
  /\ Conns \subseteq Procs /\ Up \in Procs /\ Down \in Procs
  /\ Conns \subseteq Clients /\ Up \in Clients /\ Down \notin Clients
BY ServiceAssumption DEF Stages, Procs, Clients

\* What CreateResources makes.
LEMMA CreateFact ==
  ASSUME TypeOK, NEW c \in Conns, CreateResources(c)
  PROVE  /\ field' \in [Kinds -> Conns \cup {None, Injected}]
         /\ owned' \subseteq Kinds /\ owned \subseteq owned'
         /\ open' \in [Kinds -> SUBSET Conns]
         /\ pc' \in [Procs -> Stages] /\ \A q \in Procs \ {c} : pc'[q] = pc[q]
         /\ \A k \in Kinds : IF k # "pool" /\ field[k] = None
              THEN field'[k] = c /\ open'[k] = open[k] \cup {c} /\ k \in owned'
              ELSE field'[k] = field[k] /\ open'[k] = open[k]
         /\ \/ pc'[c] = "pooling" /\ "pool" \in Kinds /\ field'["pool"] = None
            \/ pc'[c] = "starting" /\ ("pool" \in Kinds => field'["pool"] # None)
<1> DEFINE missing == {k \in Kinds \ {"pool"} : field[k] = None}
<1>1. /\ field' = [k \in Kinds |-> IF k \in missing THEN c ELSE field[k]]
      /\ owned' = owned \cup missing
      /\ open' = [k \in Kinds |-> IF k \in missing THEN open[k] \cup {c} ELSE open[k]]
      /\ Goto(c, CreateFrom(field'))
  BY DEF CreateResources
<1>2. /\ field' \in [Kinds -> Conns \cup {None, Injected}]
      /\ owned' \subseteq Kinds /\ owned \subseteq owned'
      /\ open' \in [Kinds -> SUBSET Conns]
  BY <1>1 DEF TypeOK
<1>3. \A k \in Kinds : IF k # "pool" /\ field[k] = None
        THEN field'[k] = c /\ open'[k] = open[k] \cup {c} /\ k \in owned'
        ELSE field'[k] = field[k] /\ open'[k] = open[k]
  BY <1>1
<1>4. PICK f : f = field'
  OBVIOUS
<1>5. \/ CreateFrom(f) = "pooling" /\ "pool" \in Kinds /\ f["pool"] = None
      \/ CreateFrom(f) = "starting" /\ ("pool" \in Kinds => f["pool"] # None)
  BY DEF CreateFrom
<1>6. CreateFrom(f) \in Stages
  BY <1>5 DEF Stages
<1>7. Goto(c, CreateFrom(f))
  BY <1>1, <1>4
<1>8. pc' \in [Procs -> Stages] /\ pc'[c] = CreateFrom(f) /\ \A q \in Procs \ {c} : pc'[q] = pc[q]
  BY <1>6, <1>7, GotoFact, StagesFact DEF TypeOK
<1>9. QED
  BY <1>2, <1>3, <1>4, <1>5, <1>8

\* What a step of the teardown closes.
LEMMA CloseFact ==
  ASSUME TypeOK, NEW c \in Conns, NEW f \in [Kinds -> Conns \cup {None, Injected}],
         NEW rest \in SUBSET Kinds, CloseNext(c, f, rest)
  PROVE  /\ open' \in [Kinds -> SUBSET Conns]
         /\ pc' \in [Procs -> Stages] /\ \A q \in Procs \ {c} : pc'[q] = pc[q]
         /\ pc'[c] \in {"ended"} \cup Kinds
         /\ \/ /\ pc'[c] = "ended" /\ open' = open
               /\ \A k \in rest : ~ToClose(f, k)
            \/ \E k \in rest : /\ ToClose(f, k) /\ pc'[c] = k
                               /\ open'[k] = open[k] \ {f[k]}
                               /\ \A j \in Kinds \ {k} : open'[j] = open[j]
                               /\ \A j \in rest \cap Before(k) : ~ToClose(f, j)
<1>1. CASE Goto(c, "ended") /\ open' = open /\ \A k \in rest : ~ToClose(f, k)
  <2>1. "ended" \in Stages
    BY DEF Stages
  <2>2. QED
    BY <1>1, <2>1, GotoFact, StagesFact DEF TypeOK
<1>2. ASSUME NEW k \in rest, ToClose(f, k), Goto(c, k), open' = [open EXCEPT ![k] = @ \ {f[k]}],
             \A j \in rest \cap Before(k) : ~ToClose(f, j)
      PROVE  /\ open' \in [Kinds -> SUBSET Conns]
             /\ pc' \in [Procs -> Stages] /\ \A q \in Procs \ {c} : pc'[q] = pc[q]
             /\ pc'[c] = k
             /\ open'[k] = open[k] \ {f[k]}
             /\ \A j \in Kinds \ {k} : open'[j] = open[j]
  <2>1. k \in Stages /\ k \in Kinds
    BY StagesFact
  <2>2. /\ pc' \in [Procs -> Stages] /\ pc'[c] = k
        /\ \A q \in Procs \ {c} : pc'[q] = pc[q]
    BY <1>2, <2>1, GotoFact, StagesFact DEF TypeOK
  <2>3. /\ open' \in [Kinds -> SUBSET Conns] /\ open'[k] = open[k] \ {f[k]}
        /\ \A j \in Kinds \ {k} : open'[j] = open[j]
    BY <1>2, <2>1 DEF TypeOK
  <2>4. QED
    BY <2>2, <2>3
<1>3. \/ /\ Goto(c, "ended") /\ open' = open
         /\ \A k \in rest : ~ToClose(f, k)
      \/ \E k \in rest : /\ ToClose(f, k) /\ Goto(c, k)
                         /\ open' = [open EXCEPT ![k] = @ \ {f[k]}]
                         /\ \A j \in rest \cap Before(k) : ~ToClose(f, j)
  BY CloseNextFact
<1>4. QED
  BY <1>1, <1>2, <1>3

LEMMA RegisterTyped ==
  ASSUME TypeOK, NEW p \in Procs, RegisterStarts(p) \/ RegisterSkipped(p) \/ RegisterReturns(p)
  PROVE  TypeOK'
<1> USE DistinctFact, StagesFact
<1>0. {"registering", "ended", "failed", "unborn"} \subseteq Stages
  BY DEF Stages
<1>1. CASE RegisterStarts(p)
  <2>1. p \in Conns \cup {Up}
    BY <1>1 DEF RegisterStarts, Procs
  <2>2. pc' \in [Procs -> Stages] /\ pc'[p] = "registering" /\ \A q \in Procs \ {p} : pc'[q] = pc[q]
    BY <1>0, <1>1, GotoFact DEF RegisterStarts, TypeOK
  <2>3. Request(p, "POST") \in [op : {"POST", "DELETE"}, by : Procs]
    BY DEF Request
  <2>4. clean' \in BOOLEAN
    BY <1>1 DEF RegisterStarts, Alone
  <2>5. QED
    BY <1>1, <2>1, <2>2, <2>3, <2>4 DEF RegisterStarts, TypeOK, resources, history, Clients
<1>2. ASSUME Registered(p), p # Down, UNCHANGED <<main, registry, listed, broke>>,
             beat' \in [Clients -> {"off", "server", "background"}],
             net' \subseteq [op : {"POST", "DELETE"}, by : Procs], answered' \subseteq Procs,
             clean' \in BOOLEAN
      PROVE  TypeOK'
  <2>1. CASE p \in Conns
    <3>1. CreateResources(p)
      BY <1>2, <2>1 DEF Registered
    <3>2. pc'[p] \in {"pooling", "starting"}
      BY <2>1, <3>1, CreateFact
    <3>3. pc' \in [Procs -> Stages] /\ \A q \in Procs \ {p} : pc'[q] = pc[q]
      BY <2>1, <3>1, CreateFact
    <3>4. /\ \A c \in Conns : pc'[c] = "pooling" => "pool" \in Kinds
          /\ pc'[Up] \in {"unborn", "registering", "ended"}
          /\ pc'[Down] \in {"unborn", "deleting", "ended"}
          /\ \A c \in Conns : pc'[c] \in {"unborn", "ended", "failed", "live", "registering", "pooling",
                                 "starting", "stopping", "deleting"} \cup Kinds
      BY <2>1, <3>1, <3>2, <3>3, CreateFact DEF TypeOK
    <3>5. /\ field' \in [Kinds -> Conns \cup {None, Injected}]
          /\ owned' \subseteq Kinds /\ open' \in [Kinds -> SUBSET Conns]
      BY <2>1, <3>1, CreateFact
    <3>6. QED
      BY <1>2, <3>3, <3>4, <3>5 DEF TypeOK
  <2>2. CASE p = Up
    <3>1. Goto(p, "ended") /\ UNCHANGED resources
      BY <1>2, <2>2 DEF Registered
    <3>2. pc' \in [Procs -> Stages] /\ pc'[p] = "ended" /\ \A q \in Procs \ {p} : pc'[q] = pc[q]
      BY <1>0, <3>1, GotoFact DEF TypeOK
    <3>3. QED
      BY <1>2, <2>2, <3>1, <3>2 DEF TypeOK, resources
  <2>3. QED
    BY <1>2, <2>1, <2>2 DEF Procs
<1>3. CASE RegisterSkipped(p)
  <2>1. clean' \in BOOLEAN
    BY <1>3 DEF RegisterSkipped, Alone
  <2>2. Registered(p) /\ p # Down /\ UNCHANGED <<main, registry, listed, broke, beat, net, answered>>
    BY <1>3 DEF RegisterSkipped, outside, history
  <2>3. QED
    BY <1>2, <2>1, <2>2 DEF TypeOK
<1>4. CASE RegisterReturns(p)
  <2>1. p # Down /\ UNCHANGED <<main, registry, net, listed, broke>>
    BY <1>4 DEF RegisterReturns, history, TypeOK
  <2>2. answered' \subseteq Procs
    BY <1>4 DEF RegisterReturns, TypeOK
  <2>3. CASE registry = None
    <3>1. Fails(p) /\ UNCHANGED <<beat, resources>>
      BY <1>4, <2>3 DEF RegisterReturns
    <3>2. /\ pc' \in [Procs -> Stages] /\ \A q \in Procs \ {p} : pc'[q] = pc[q]
          /\ pc'[p] = IF p \in Conns THEN "failed" ELSE "ended"
      BY <1>0, <3>1, GotoFact DEF TypeOK, Fails
    <3>3. clean' \in BOOLEAN
      BY <3>1 DEF Fails
    <3>4. QED
      BY <2>1, <2>2, <3>1, <3>2, <3>3 DEF TypeOK, resources, Procs
  <2>4. CASE registry # None
    <3>1. beat' = [beat EXCEPT ![registry] = IF @ = "off" THEN Loop(p) ELSE @]
          /\ Registered(p) /\ UNCHANGED clean
      BY <1>4, <2>4 DEF RegisterReturns
    <3>2. Loop(p) \in {"off", "server", "background"}
      BY DEF Loop
    <3>3. beat' \in [Clients -> {"off", "server", "background"}]
      BY <3>1, <3>2 DEF TypeOK
    <3>4. QED
      BY <1>2, <2>1, <2>2, <3>1, <3>3 DEF TypeOK
  <2>5. QED
    BY <2>3, <2>4
<1>5. QED
  BY <1>1, <1>3, <1>4

LEMMA DeregisterTyped ==
  ASSUME TypeOK, NEW p \in Procs, DeregisterStarts(p) \/ DeregisterReturns(p)
  PROVE  TypeOK'
<1> USE DistinctFact, StagesFact
<1>0. {"deleting", "ended", "failed"} \subseteq Stages
  BY DEF Stages
<1>1. p \in Conns \cup {Down}
  BY DEF DeregisterStarts, DeregisterReturns, MayDeregister, Procs, TypeOK
<1>2. ASSUME Deregistered(p), UNCHANGED <<main, beat, listed, broke>>,
             registry' \in Clients \cup {None}, net' = net, answered' \subseteq Procs,
             clean' \in BOOLEAN
      PROVE  TypeOK'
  <2>1. CASE p \in Conns
    <3>1. CloseNext(p, field, Kinds) /\ UNCHANGED <<field, owned>>
      BY <1>2, <2>1 DEF Deregistered
    <3>2. field \in [Kinds -> Conns \cup {None, Injected}] /\ Kinds \in SUBSET Kinds
      BY DEF TypeOK
    <3>3. /\ open' \in [Kinds -> SUBSET Conns]
          /\ pc' \in [Procs -> Stages] /\ \A q \in Procs \ {p} : pc'[q] = pc[q]
          /\ pc'[p] \in {"ended"} \cup Kinds
      BY <2>1, <3>1, <3>2, CloseFact
    <3>4. QED
      BY <1>2, <2>1, <3>1, <3>3 DEF TypeOK
  <2>2. CASE p = Down
    <3>1. Goto(p, "ended") /\ UNCHANGED resources
      BY <1>2, <2>2 DEF Deregistered
    <3>2. pc' \in [Procs -> Stages] /\ pc'[p] = "ended" /\ \A q \in Procs \ {p} : pc'[q] = pc[q]
      BY <1>0, <3>1, GotoFact DEF TypeOK
    <3>3. QED
      BY <1>2, <2>2, <3>1, <3>2 DEF TypeOK, resources
  <2>3. QED
    BY <1>1, <2>1, <2>2
<1>3. ASSUME Fails(p), UNCHANGED <<main, resources, listed, broke>>, net' = net,
             registry' \in Clients \cup {None}, answered' \subseteq Procs,
             beat' \in [Clients -> {"off", "server", "background"}]
      PROVE  TypeOK'
  <2>1. /\ pc' \in [Procs -> Stages] /\ \A q \in Procs \ {p} : pc'[q] = pc[q]
        /\ pc'[p] = IF p \in Conns THEN "failed" ELSE "ended"
    BY <1>0, <1>3, GotoFact DEF TypeOK, Fails
  <2>2. clean' \in BOOLEAN
    BY <1>3 DEF Fails
  <2>3. QED
    BY <1>1, <1>3, <2>1, <2>2 DEF TypeOK, resources
<1>4. CASE DeregisterStarts(p)
  <2>1. UNCHANGED <<main, answered, listed, broke>>
    BY <1>4 DEF DeregisterStarts, history
  <2>2. CASE registry = None
    BY <1>2, <1>4, <2>1, <2>2 DEF DeregisterStarts, TypeOK
  <2>3. CASE registry # None
    <3>1. /\ beat' = [beat EXCEPT ![registry] = "off"] /\ UNCHANGED resources
          /\ \/ /\ net' = net \cup {Request(p, "DELETE")} /\ Goto(p, "deleting")
                /\ UNCHANGED <<registry, clean>>
             \/ Fails(p) /\ registry' = None /\ UNCHANGED net
      BY <1>4, <2>3 DEF DeregisterStarts
    <3>2. beat' \in [Clients -> {"off", "server", "background"}]
      BY <3>1 DEF TypeOK
    <3>3. CASE Fails(p) /\ registry' = None /\ UNCHANGED net
      BY <1>3, <2>1, <3>1, <3>2, <3>3 DEF TypeOK
    <3>4. CASE net' = net \cup {Request(p, "DELETE")} /\ Goto(p, "deleting") /\ UNCHANGED <<registry, clean>>
      <4>1. pc' \in [Procs -> Stages] /\ pc'[p] = "deleting" /\ \A q \in Procs \ {p} : pc'[q] = pc[q]
        BY <1>0, <3>4, GotoFact DEF TypeOK
      <4>2. Request(p, "DELETE") \in [op : {"POST", "DELETE"}, by : Procs]
        BY DEF Request
      <4>3. QED
        BY <1>1, <2>1, <3>1, <3>2, <3>4, <4>1, <4>2 DEF TypeOK, resources
    <3>5. QED
      BY <3>1, <3>3, <3>4
  <2>4. QED
    BY <2>2, <2>3
<1>5. CASE DeregisterReturns(p)
  <2>1. UNCHANGED <<main, beat, net, listed, broke>> /\ registry' = None /\ answered' = answered \ {p}
    BY <1>5 DEF DeregisterReturns, history
  <2>2. CASE registry = None
    BY <1>3, <1>5, <2>1, <2>2 DEF DeregisterReturns, TypeOK
  <2>3. CASE registry # None
    BY <1>2, <1>5, <2>1, <2>3 DEF DeregisterReturns, TypeOK
  <2>4. QED
    BY <2>2, <2>3
<1>6. QED
  BY <1>4, <1>5

LEMMA TypeStep == TypeOK /\ [Next]_vars => TypeOK'
<1> SUFFICES ASSUME TypeOK, [Next]_vars PROVE TypeOK'
  OBVIOUS
<1> USE DistinctFact, StagesFact
<1>0. {"ended", "failed", "starting", "live", "stopping"} \subseteq Stages
  BY DEF Stages
<1>1. ASSUME NEW p \in Procs, RegisterStarts(p) \/ RegisterSkipped(p) \/ RegisterReturns(p)
      PROVE  TypeOK'
  BY <1>1, RegisterTyped
<1>2. ASSUME NEW p \in Procs, DeregisterStarts(p) \/ DeregisterReturns(p) PROVE TypeOK'
  BY <1>2, DeregisterTyped
<1>3. ASSUME NEW c \in Conns, PoolCreated(c) PROVE TypeOK'
  <2>1. /\ pc' \in [Procs -> Stages] /\ pc'[c] = "starting" /\ \A q \in Procs \ {c} : pc'[q] = pc[q]
    BY <1>0, <1>3, GotoFact DEF TypeOK, PoolCreated
  <2>2. "pool" \notin Kinds => field' = field /\ open' = open
    BY <1>3 DEF PoolCreated, TypeOK
  <2>3. QED
    BY <1>3, <2>1 DEF PoolCreated, TypeOK, outside, history
<1>4. ASSUME NEW c \in Conns, Started(c) \/ Closes(c) PROVE TypeOK'
  <2>1. /\ pc' \in [Procs -> Stages] /\ pc'[c] \in {"live", "stopping"}
        /\ \A q \in Procs \ {c} : pc'[q] = pc[q]
    BY <1>0, <1>4, GotoFact DEF TypeOK, Started, Closes
  <2>2. QED
    BY <1>4, <2>1 DEF Started, Closes, TypeOK, resources, outside, history
<1>5. ASSUME NEW c \in Conns, Breaks(c) PROVE TypeOK'
  <2>1. /\ pc' \in [Procs -> Stages] /\ pc'[c] = "failed" /\ \A q \in Procs \ {c} : pc'[q] = pc[q]
    BY <1>0, <1>5, GotoFact DEF TypeOK, Breaks, Fails
  <2>2. QED
    BY <1>5, <2>1 DEF Breaks, Fails, TypeOK, resources
<1>6. ASSUME NEW c \in Conns, NEW k \in Kinds, Closed(c, k) PROVE TypeOK'
  <2>1. PICK f : f = field'
    OBVIOUS
  <2>2. f \in [Kinds -> Conns \cup {None, Injected}]
    BY <1>6, <2>1 DEF Closed, FieldCleared, TypeOK
  <2>3. PICK rest \in SUBSET Kinds : CloseNext(c, f, rest)
    BY <1>6, <2>1 DEF Closed
  <2>4. /\ open' \in [Kinds -> SUBSET Conns]
        /\ pc' \in [Procs -> Stages] /\ \A q \in Procs \ {c} : pc'[q] = pc[q]
        /\ pc'[c] \in {"ended"} \cup Kinds
    BY <2>2, <2>3, CloseFact
  <2>5. QED
    BY <1>6, <2>1, <2>2, <2>4 DEF Closed, TypeOK, outside, history
<1>7. CASE UpFails
  <2>1. /\ pc' \in [Procs -> Stages] /\ pc'[Up] = "ended" /\ \A q \in Procs \ {Up} : pc'[q] = pc[q]
    BY <1>0, <1>7, GotoFact DEF TypeOK, UpFails, Fails
  <2>2. QED
    BY <1>7, <2>1 DEF UpFails, Fails, TypeOK, resources, history
<1>8. CASE MainServes
  BY <1>8 DEF MainServes, TypeOK, resources, outside, history
<1>9. CASE ServerStops
  BY <1>9 DEF ServerStops, TypeOK, resources, outside, history
<1>10. CASE MainExits
  BY <1>0, <1>10 DEF MainExits, TypeOK, resources, outside, history
<1>11. ASSUME NEW m \in net, Served(m) PROVE TypeOK'
  BY <1>11 DEF Served, TypeOK, resources, history
<1>12. ASSUME NEW m \in net, RequestLost(m) PROVE TypeOK'
  BY <1>12 DEF RequestLost, TypeOK, resources, history
<1>13. CASE Evicts
  BY <1>13 DEF Evicts, TypeOK, resources, history
<1>14. CASE UNCHANGED vars
  BY <1>14 DEF vars, TypeOK, resources, outside, history
<1>15. QED
  BY <1>1, <1>2, <1>3, <1>4, <1>5, <1>6, <1>7, <1>8, <1>9, <1>10, <1>11, <1>12, <1>13, <1>14 DEF Next

-----------------------------------------------------------------------------
(* FieldsOpen *)

\* A step that leaves the resources and every connection at its close alone.
LEMMA FieldsKept ==
  ASSUME FieldsOpen, UNCHANGED resources, broke \subseteq broke',
         \A c \in Conns, k \in Kinds \ broke' : pc[c] = k => pc'[c] = k
  PROVE  FieldsOpen'
BY DEF FieldsOpen, resources

LEMMA FieldsOpenCreate ==
  ASSUME TypeOK, FieldsOpen, NEW c \in Conns, CreateResources(c), pc[c] \notin Kinds,
         broke' = broke
  PROVE  FieldsOpen'
<1>1. \A q \in Conns \ {c} : pc'[q] = pc[q]
  BY CreateFact, StagesFact
<1>2. \A k \in Kinds : IF k # "pool" /\ field[k] = None
        THEN field'[k] = c /\ open'[k] = open[k] \cup {c}
        ELSE field'[k] = field[k] /\ open'[k] = open[k]
  BY CreateFact, Zenon
<1>3. QED
  BY <1>1, <1>2 DEF FieldsOpen

LEMMA FieldsOpenClose ==
  ASSUME TypeOK, NEW c \in Conns, NEW f \in [Kinds -> Conns \cup {None, Injected}],
         NEW rest \in SUBSET Kinds, CloseNext(c, f, rest),
         f = field', broke' = broke,
         \A k \in Kinds \ broke : f[k] \in Conns /\ f[k] \notin open[k] =>
           \E d \in Conns \ {c} : pc[d] = k
  PROVE  FieldsOpen'
<1>1. \A q \in Conns \ {c} : pc'[q] = pc[q]
  BY CloseFact, StagesFact
<1>2. CASE open' = open
  BY <1>1, <1>2 DEF FieldsOpen
<1>3. ASSUME NEW k \in rest, pc'[c] = k, \A j \in Kinds \ {k} : open'[j] = open[j]
      PROVE  FieldsOpen'
  BY <1>1, <1>3 DEF FieldsOpen
<1>4. \/ open' = open
      \/ \E k \in rest : pc'[c] = k /\ \A j \in Kinds \ {k} : open'[j] = open[j]
  BY CloseFact
<1>5. QED
  BY <1>2, <1>3, <1>4

LEMMA FieldsOpenStep == TypeOK /\ FieldsOpen /\ [Next]_vars => FieldsOpen'
<1> SUFFICES ASSUME TypeOK, FieldsOpen, [Next]_vars PROVE FieldsOpen'
  OBVIOUS
<1> USE DistinctFact, StagesFact
<1>0. field \in [Kinds -> Conns \cup {None, Injected}] /\ pc \in [Procs -> Stages]
  BY DEF TypeOK
<1>1. ASSUME NEW p \in Procs, Registered(p), pc[p] \notin Kinds, broke' = broke PROVE FieldsOpen'
  <2>1. CASE p \in Conns
    BY <1>1, <2>1, FieldsOpenCreate DEF Registered
  <2>2. CASE p \notin Conns
    BY <1>0, <1>1, <2>2, FieldsKept DEF Registered, Goto
  <2>3. QED
    BY <2>1, <2>2
<1>2. ASSUME NEW p \in Procs, Deregistered(p), pc[p] \notin Kinds, broke' = broke PROVE FieldsOpen'
  <2>1. CASE p \in Conns
    <3>1. CloseNext(p, field, Kinds) /\ field' = field
      BY <1>2, <2>1 DEF Deregistered
    <3>2. \A k \in Kinds \ broke : field[k] \in Conns /\ field[k] \notin open[k] =>
            \E d \in Conns \ {p} : pc[d] = k
      BY <1>2, <2>1 DEF FieldsOpen
    <3>3. Kinds \in SUBSET Kinds
      OBVIOUS
    <3>4. QED
      BY <1>0, <1>2, <2>1, <3>1, <3>2, <3>3, FieldsOpenClose
  <2>2. CASE p \notin Conns
    BY <1>0, <1>2, <2>2, FieldsKept DEF Deregistered, Goto
  <2>3. QED
    BY <2>1, <2>2
<1>3. ASSUME NEW p \in Procs, RegisterStarts(p) PROVE FieldsOpen'
  BY <1>0, <1>3, FieldsKept DEF RegisterStarts, Goto, history
<1>4. ASSUME NEW p \in Procs, RegisterSkipped(p) PROVE FieldsOpen'
  BY <1>1, <1>4 DEF RegisterSkipped, history
<1>5. ASSUME NEW p \in Procs, RegisterReturns(p) PROVE FieldsOpen'
  <2>1. pc[p] \notin Kinds /\ broke' = broke
    BY <1>5 DEF RegisterReturns, history
  <2>2. CASE registry = None
    BY <1>0, <1>5, <2>1, <2>2, FieldsKept DEF RegisterReturns, Fails, Goto
  <2>3. CASE registry # None
    BY <1>1, <1>5, <2>1, <2>3 DEF RegisterReturns
  <2>4. QED
    BY <2>2, <2>3
<1>6. ASSUME NEW p \in Procs, DeregisterStarts(p) PROVE FieldsOpen'
  <2>1. pc[p] \notin Kinds /\ broke' = broke
    BY <1>6 DEF DeregisterStarts, MayDeregister, history
  <2>2. CASE registry = None
    BY <1>2, <1>6, <2>1, <2>2 DEF DeregisterStarts
  <2>3. CASE registry # None
    <3>1. UNCHANGED resources /\ \A q \in Procs \ {p} : pc'[q] = pc[q]
      BY <1>0, <1>6, <2>3 DEF DeregisterStarts, Fails, Goto
    <3>2. QED
      BY <2>1, <3>1, FieldsKept
  <2>4. QED
    BY <2>2, <2>3
<1>7. ASSUME NEW p \in Procs, DeregisterReturns(p) PROVE FieldsOpen'
  <2>1. pc[p] \notin Kinds /\ broke' = broke
    BY <1>7 DEF DeregisterReturns, history
  <2>2. CASE registry = None
    BY <1>0, <1>7, <2>1, <2>2, FieldsKept DEF DeregisterReturns, Fails, Goto
  <2>3. CASE registry # None
    BY <1>2, <1>7, <2>1, <2>3 DEF DeregisterReturns
  <2>4. QED
    BY <2>2, <2>3
<1>8. ASSUME NEW c \in Conns, PoolCreated(c) PROVE FieldsOpen'
  <2>1. \A q \in Procs \ {c} : pc'[q] = pc[q]
    BY <1>0, <1>8 DEF PoolCreated, Goto
  <2>2. "pool" \in Kinds /\ field'["pool"] = c /\ open'["pool"] = open["pool"] \cup {c}
    BY <1>8 DEF PoolCreated, TypeOK
  <2>3. \A k \in Kinds \ {"pool"} : field'[k] = field[k] /\ open'[k] = open[k]
    BY <1>8 DEF PoolCreated, TypeOK
  <2>4. pc[c] \notin Kinds /\ broke' = broke
    BY <1>8 DEF PoolCreated, history
  <2>5. QED
    BY <2>1, <2>2, <2>3, <2>4 DEF FieldsOpen
<1>9. ASSUME NEW c \in Conns, Started(c) \/ Closes(c) PROVE FieldsOpen'
  BY <1>0, <1>9, FieldsKept DEF Started, Closes, Goto, history
<1>10. ASSUME NEW c \in Conns, Breaks(c) PROVE FieldsOpen'
  <2>1. \A q \in Procs \ {c} : pc'[q] = pc[q]
    BY <1>0, <1>10 DEF Breaks, Fails, Goto
  <2>2. pc[c] \in Kinds => pc[c] \in broke'
    BY <1>10 DEF Breaks
  <2>3. UNCHANGED resources /\ broke \subseteq broke'
    BY <1>10 DEF Breaks
  <2>4. QED
    BY <2>1, <2>2, <2>3, FieldsKept
<1>11. ASSUME NEW c \in Conns, NEW k \in Kinds, Closed(c, k) PROVE FieldsOpen'
  <2>1. PICK f : f = field'
    OBVIOUS
  <2>2. /\ f \in [Kinds -> Conns \cup {None, Injected}]
        /\ f[k] = None /\ \A j \in Kinds \ {k} : f[j] = field[j]
    BY <1>11, <2>1 DEF Closed, FieldCleared, TypeOK
  <2>3. PICK rest \in SUBSET Kinds : CloseNext(c, f, rest)
    BY <1>11, <2>1 DEF Closed
  <2>4. pc[c] = k /\ broke' = broke
    BY <1>11 DEF Closed, history
  <2>5. \A j \in Kinds \ broke : f[j] \in Conns /\ f[j] \notin open[j] =>
          \E d \in Conns \ {c} : pc[d] = j
    BY <2>2, <2>4 DEF FieldsOpen
  <2>6. QED
    BY <2>1, <2>2, <2>3, <2>4, <2>5, FieldsOpenClose
<1>12. CASE UpFails
  BY <1>0, <1>12, FieldsKept DEF UpFails, Fails, Goto, history
<1>13. CASE MainServes \/ ServerStops
  BY <1>13, FieldsKept DEF MainServes, ServerStops, history
<1>14. CASE MainExits
  BY <1>14, FieldsKept DEF MainExits, history
<1>15. ASSUME NEW m \in net, Served(m) \/ RequestLost(m) PROVE FieldsOpen'
  BY <1>15, FieldsKept DEF Served, RequestLost, history
<1>16. CASE Evicts
  BY <1>16, FieldsKept DEF Evicts, history
<1>17. CASE UNCHANGED vars
  BY <1>17, FieldsKept DEF vars, history
<1>18. QED
  BY <1>3, <1>4, <1>5, <1>6, <1>7, <1>8, <1>9, <1>10, <1>11, <1>12, <1>13, <1>14, <1>15, <1>16,
     <1>17 DEF Next

LEMMA TypeInit == Init => TypeOK
<1> SUFFICES ASSUME Init PROVE TypeOK
  OBVIOUS
<1> USE DistinctFact, StagesFact
<1>1. "unborn" \in Stages
  BY DEF Stages
<1>2. pc \in [Procs -> Stages] /\ \A p \in Procs : pc[p] = "unborn"
  BY <1>1 DEF Init
<1>3. QED
  BY <1>2 DEF Init, TypeOK

LEMMA FieldsOpenInit == Init => FieldsOpen
BY DistinctFact DEF Init, FieldsOpen

\* lifespan, however the connections overlap and whatever raises: an attribute
\* never keeps a closed resource behind a teardown that went through.
THEOREM FieldsAreOpen == Spec => []FieldsOpen
<1>1. TypeOK /\ FieldsOpen /\ [Next]_vars => (TypeOK /\ FieldsOpen)'
  BY TypeStep, FieldsOpenStep
<1>2. Init => TypeOK /\ FieldsOpen
  BY TypeInit, FieldsOpenInit
<1>3. QED
  BY <1>1, <1>2, PTL DEF Spec

-----------------------------------------------------------------------------
(* AloneIsSafe *)

\* A step of a process moves no other.
LEMMA MovesOne ==
  ASSUME TypeOK, NEW p \in Procs,
         \/ RegisterStarts(p) \/ RegisterSkipped(p) \/ RegisterReturns(p)
         \/ DeregisterStarts(p) \/ DeregisterReturns(p)
         \/ p \in Conns /\ (\/ PoolCreated(p) \/ Started(p) \/ Closes(p) \/ Breaks(p)
                            \/ \E k \in Kinds : Closed(p, k))
         \/ p = Up /\ UpFails
  PROVE  \A q \in Procs \ {p} : pc'[q] = pc[q]
<1> USE DistinctFact, StagesFact
<1>0. pc \in [Procs -> Stages] /\ field \in [Kinds -> Conns \cup {None, Injected}]
  BY DEF TypeOK
<1>1. ASSUME NEW place, Goto(p, place) PROVE \A q \in Procs \ {p} : pc'[q] = pc[q]
  BY <1>0, <1>1 DEF Goto
<1>2. ASSUME Registered(p) PROVE \A q \in Procs \ {p} : pc'[q] = pc[q]
  BY <1>1, <1>2 DEF Registered, CreateResources
<1>3. ASSUME NEW f, NEW rest \in SUBSET Kinds, CloseNext(p, f, rest)
      PROVE  \A q \in Procs \ {p} : pc'[q] = pc[q]
  BY <1>1, <1>3, CloseNextFact
<1>4. ASSUME Deregistered(p) PROVE \A q \in Procs \ {p} : pc'[q] = pc[q]
  BY <1>1, <1>3, <1>4 DEF Deregistered
<1>5. CASE RegisterStarts(p) \/ RegisterSkipped(p) \/ RegisterReturns(p)
  BY <1>1, <1>2, <1>5 DEF RegisterStarts, RegisterSkipped, RegisterReturns, Fails
<1>6. CASE DeregisterStarts(p) \/ DeregisterReturns(p)
  BY <1>1, <1>4, <1>6 DEF DeregisterStarts, DeregisterReturns, Fails
<1>7. ASSUME NEW k \in Kinds, Closed(p, k) PROVE \A q \in Procs \ {p} : pc'[q] = pc[q]
  <2>1. PICK f : f = field'
    OBVIOUS
  <2>2. CloseNext(p, f, {j \in Kinds : k \in Before(j)})
    BY <1>7, <2>1 DEF Closed
  <2>3. {j \in Kinds : k \in Before(j)} \in SUBSET Kinds
    OBVIOUS
  <2>4. QED
    BY <1>3, <2>2, <2>3
<1>8. CASE PoolCreated(p) \/ Started(p) \/ Closes(p) \/ Breaks(p) \/ (p = Up /\ UpFails)
  BY <1>1, <1>8 DEF PoolCreated, Started, Closes, Breaks, UpFails, Fails
<1>9. QED
  BY <1>5, <1>6, <1>7, <1>8

\* What broke off or overlapped once is never alone again.
LEMMA CleanBefore == TypeOK /\ [Next]_vars /\ clean' => clean
BY DEF TypeOK, Next, vars, RegisterStarts, RegisterSkipped, RegisterReturns, DeregisterStarts,
       DeregisterReturns, PoolCreated, Started, Closes, Breaks, Closed, UpFails, MainServes,
       ServerStops, MainExits, Served, RequestLost, Evicts, Fails, Alone

\* A step of a process that keeps the main thread where it is.
LEMMA ExclusiveMove ==
  ASSUME TypeOK, Exclusive, NEW p \in Procs, \A q \in Procs \ {p} : pc'[q] = pc[q],
         main' = main, clean' => clean,
         p \in Conns => \/ pc[p] \notin Over
                        \/ main = "running" /\ (clean' => \A c \in Conns : pc[c] \in Over),
         p = Up => (pc'[Up] = "registering" => main = "waiting"),
         p = Down => main = "exiting"
  PROVE  Exclusive'
<1> USE DistinctFact, StagesFact
<1>1. CASE p \in Conns
  <2>1. main = "running"
    BY <1>1 DEF Exclusive, TypeOK
  <2>2. clean' => \A c \in Conns \ {p} : pc[c] \in Over
    BY <1>1 DEF Exclusive
  <2>3. pc'[Up] = pc[Up] /\ pc'[Down] = pc[Down]
    BY <1>1
  <2>4. QED
    BY <1>1, <2>1, <2>2, <2>3 DEF Exclusive
<1>2. CASE p = Up
  BY <1>2 DEF Exclusive
<1>3. CASE p = Down
  BY <1>3 DEF Exclusive
<1>4. QED
  BY <1>1, <1>2, <1>3 DEF Procs

LEMMA ExclusiveStep == TypeOK /\ Exclusive /\ [Next]_vars => Exclusive'
<1> SUFFICES ASSUME TypeOK, Exclusive, [Next]_vars PROVE Exclusive'
  OBVIOUS
<1> USE DistinctFact, StagesFact, CleanBefore
<1>0. clean' => clean
  OBVIOUS
<1>1. ASSUME NEW p \in Procs, RegisterStarts(p) \/ RegisterSkipped(p) PROVE Exclusive'
  <2>1. /\ main' = main /\ p # Down
        /\ main = IF p = Up THEN "waiting" ELSE "running"
        /\ clean' => \A c \in Conns : pc[c] \in Over
    BY <1>1 DEF RegisterStarts, RegisterSkipped, Alone
  <2>2. QED
    BY <1>0, <1>1, <2>1, MovesOne, ExclusiveMove
<1>2. ASSUME NEW p \in Procs, RegisterReturns(p) PROVE Exclusive'
  <2>1. main' = main /\ pc[p] = "registering" /\ p # Down
    BY <1>2 DEF RegisterReturns, TypeOK
  <2>2. p = Up => pc'[Up] # "registering"
    BY <1>2 DEF RegisterReturns, Fails, Registered, Goto, TypeOK
  <2>3. QED
    BY <1>0, <1>2, <2>1, <2>2, MovesOne, ExclusiveMove
<1>3. ASSUME NEW p \in Procs, DeregisterStarts(p) \/ DeregisterReturns(p) PROVE Exclusive'
  <2>1. main' = main /\ p # Up
    BY <1>3 DEF DeregisterStarts, DeregisterReturns, MayDeregister, TypeOK
  <2>2. p \in Conns => pc[p] \notin Over
    BY <1>3 DEF DeregisterStarts, DeregisterReturns, MayDeregister
  <2>3. CASE p = Down => main = "exiting"
    BY <1>0, <1>3, <2>1, <2>2, <2>3, MovesOne, ExclusiveMove
  <2>4. CASE p = Down /\ main # "exiting"
    <3>1. DeregisterReturns(Down) /\ pc[Down] = "deleting"
      BY <1>3, <2>4 DEF DeregisterStarts, DeregisterReturns, MayDeregister
    <3>2. main = "exited"
      BY <2>4, <3>1 DEF Exclusive
    <3>3. \A q \in Procs \ {Down} : pc'[q] = pc[q]
      BY <3>1, MovesOne
    <3>4. QED
      BY <1>0, <2>1, <3>2, <3>3 DEF Exclusive
  <2>5. QED
    BY <2>3, <2>4
<1>4. ASSUME NEW c \in Conns, PoolCreated(c) \/ Started(c) \/ Closes(c) \/ Breaks(c)
      PROVE  Exclusive'
  <2>1. main' = main /\ pc[c] \notin Over
    BY <1>4 DEF PoolCreated, Started, Closes, Breaks, Awaits
  <2>2. QED
    BY <1>0, <1>4, <2>1, MovesOne, ExclusiveMove
<1>5. ASSUME NEW c \in Conns, NEW k \in Kinds, Closed(c, k) PROVE Exclusive'
  <2>1. main' = main /\ pc[c] \notin Over
    BY <1>5 DEF Closed
  <2>2. QED
    BY <1>0, <1>5, <2>1, MovesOne, ExclusiveMove
<1>6. CASE UpFails
  <2>1. main' = main /\ pc'[Up] # "registering"
    BY <1>6 DEF UpFails, Fails, Goto, TypeOK
  <2>2. QED
    BY <1>0, <1>6, <2>1, MovesOne, ExclusiveMove
<1>7. CASE MainServes
  BY <1>7 DEF MainServes, Exclusive
<1>8. CASE ServerStops
  BY <1>8 DEF ServerStops, Exclusive
<1>9. CASE MainExits
  <2>1. /\ main = "exiting" /\ main' = "exited" /\ \A c \in Conns : pc'[c] = pc[c]
        /\ pc'[Up] = "ended" /\ pc'[Down] = "ended"
    BY <1>9 DEF MainExits
  <2>2. QED
    BY <1>0, <2>1 DEF Exclusive
<1>10. ASSUME NEW m \in net, Served(m) \/ RequestLost(m) PROVE Exclusive'
  BY <1>10 DEF Served, RequestLost, Exclusive
<1>11. CASE Evicts \/ UNCHANGED vars
  BY <1>11 DEF Evicts, vars, Exclusive
<1>12. QED
  BY <1>1, <1>2, <1>3, <1>4, <1>5, <1>6, <1>7, <1>8, <1>9, <1>10, <1>11 DEF Next

LEMMA OwnedStep == TypeOK /\ OwnedHere /\ [Next]_vars => OwnedHere'
<1> SUFFICES ASSUME TypeOK, OwnedHere, [Next]_vars PROVE OwnedHere'
  OBVIOUS
<1> USE DistinctFact, StagesFact
<1>1. ASSUME UNCHANGED <<field, owned>> PROVE OwnedHere'
  BY <1>1 DEF OwnedHere
<1>2. ASSUME NEW p \in Procs, Registered(p) PROVE OwnedHere'
  <2>1. CASE p \in Conns
    <3>1. CreateResources(p)
      BY <1>2, <2>1 DEF Registered
    <3>2. owned \subseteq owned'
      BY <2>1, <3>1, CreateFact
    <3>3. \A k \in Kinds : k \in owned' \/ field'[k] = field[k]
      BY <2>1, <3>1, CreateFact, Zenon
    <3>4. QED
      BY <3>2, <3>3 DEF OwnedHere
  <2>2. CASE p \notin Conns
    BY <1>1, <1>2, <2>2 DEF Registered, resources
  <2>3. QED
    BY <2>1, <2>2
<1>3. ASSUME NEW p \in Procs, RegisterStarts(p) \/ RegisterSkipped(p) \/ RegisterReturns(p)
      PROVE  OwnedHere'
  BY <1>1, <1>2, <1>3 DEF RegisterStarts, RegisterSkipped, RegisterReturns, resources
<1>4. ASSUME NEW p \in Procs, DeregisterStarts(p) \/ DeregisterReturns(p) PROVE OwnedHere'
  BY <1>1, <1>4 DEF DeregisterStarts, DeregisterReturns, Deregistered, resources
<1>5. ASSUME NEW c \in Conns, PoolCreated(c) PROVE OwnedHere'
  BY <1>5 DEF PoolCreated, OwnedHere, TypeOK
<1>6. ASSUME NEW c \in Conns, NEW k \in Kinds, Closed(c, k) PROVE OwnedHere'
  BY <1>6 DEF Closed, FieldCleared, OwnedHere, TypeOK
<1>7. ASSUME NEW c \in Conns, Started(c) \/ Closes(c) \/ Breaks(c) PROVE OwnedHere'
  BY <1>1, <1>7 DEF Started, Closes, Breaks, resources
<1>8. CASE UpFails \/ MainServes \/ ServerStops \/ MainExits \/ Evicts \/ UNCHANGED vars
  BY <1>1, <1>8 DEF UpFails, MainServes, ServerStops, MainExits, Evicts, vars, resources
<1>9. ASSUME NEW m \in net, Served(m) \/ RequestLost(m) PROVE OwnedHere'
  BY <1>1, <1>9 DEF Served, RequestLost, resources
<1>10. QED
  BY <1>3, <1>4, <1>5, <1>6, <1>7, <1>8, <1>9 DEF Next

\* A lifespan that starts with nothing made.
LEMMA HoldingsCreate ==
  ASSUME TypeOK, Holdings, NEW c \in Conns, CreateResources(c),
         pc[c] \in {"unborn", "registering"}, \A q \in Conns \ {c} : pc[q] \in Over
  PROVE  Holdings'
<1> USE DistinctFact, StagesFact
<1>1. \A q \in Conns \ {c} : pc'[q] \in Over
  BY CreateFact
<1>2. \A k \in Kinds : field[k] \in {None, Injected} /\ open[k] = {}
  <2>1. \A q \in Conns : pc[q] \in Over \cup {"registering"}
    OBVIOUS
  <2>2. \A k \in Kinds : field[k] \notin Conns /\ field[k] \in Conns \cup {None, Injected}
    BY <2>1 DEF Holdings, TypeOK
  <2>3. \A k \in Kinds : open[k] \subseteq {field[k]} /\ open[k] \subseteq Conns
    BY DEF Holdings, TypeOK
  <2>4. QED
    BY <2>2, <2>3
<1>3. \A k \in Kinds : \/ k # "pool" /\ field'[k] = c /\ open'[k] = {c}
                       \/ field'[k] = field[k] /\ open'[k] = {} /\ (k = "pool" \/ field[k] = Injected)
  <2>1. \A k \in Kinds : IF k # "pool" /\ field[k] = None
          THEN field'[k] = c /\ open'[k] = open[k] \cup {c}
          ELSE field'[k] = field[k] /\ open'[k] = open[k]
    BY CreateFact, Zenon
  <2>2. QED
    BY <1>2, <2>1
<1>4. \A k \in Kinds : (k # "pool" => Here(k)') /\ open'[k] \subseteq {field'[k]}
  BY <1>3 DEF Here
<1>5. \/ pc'[c] = "pooling" /\ field'["pool"] = None
      \/ pc'[c] = "starting" /\ ("pool" \in Kinds => field'["pool"] # None)
  BY CreateFact
<1>6. CASE pc'[c] = "pooling" /\ field'["pool"] = None
  BY <1>1, <1>4, <1>6 DEF Holdings
<1>7. CASE pc'[c] = "starting" /\ ("pool" \in Kinds => field'["pool"] # None)
  <2>1. "pool" \in Kinds => field'["pool"] = Injected
    BY <1>2, <1>3, <1>7
  <2>2. \A k \in Kinds : Here(k)'
    BY <1>4, <2>1 DEF Here
  <2>3. QED
    BY <1>1, <1>4, <1>7, <2>2 DEF Holdings
<1>8. QED
  BY <1>5, <1>6, <1>7

\* A step of the teardown, with what it need not look at closed already.
LEMMA HoldingsClose ==
  ASSUME TypeOK, NEW c \in Conns, NEW f \in [Kinds -> Conns \cup {None, Injected}],
         NEW rest \in SUBSET Kinds, CloseNext(c, f, rest), f = field',
         \A q \in Conns \ {c} : pc[q] \in Over,
         \A k \in Kinds : open[k] \subseteq {f[k]},
         \A k \in Kinds : f[k] \in Conns => k \in owned,
         \A k \in Kinds \ rest : f[k] \notin Conns
  PROVE  Holdings'
<1> USE DistinctFact, StagesFact
<1>1. \A q \in Conns \ {c} : pc'[q] \in Over
  BY CloseFact
<1>2. \A k \in Kinds : ~ToClose(f, k) => f[k] \notin Conns
  BY DEF ToClose
<1>3. CASE pc'[c] = "ended" /\ open' = open /\ \A k \in rest : ~ToClose(f, k)
  <2>1. \A k \in Kinds : f[k] \notin Conns
    BY <1>2, <1>3
  <2>2. QED
    BY <1>1, <1>3, <2>1 DEF Holdings
<1>4. ASSUME NEW k \in rest, pc'[c] = k, open'[k] = open[k] \ {f[k]},
             \A j \in Kinds \ {k} : open'[j] = open[j],
             \A j \in rest \cap Before(k) : ~ToClose(f, j)
      PROVE  Holdings'
  <2>1. open'[k] = {}
    BY <1>4
  <2>2. \A j \in Kinds \cap Before(k) : f[j] \notin Conns
    BY <1>2, <1>4
  <2>3. \A j \in Kinds : open'[j] \subseteq {f[j]}
    BY <1>4, <2>1
  <2>4. k \in {"authorizer", "cache", "pool"}
    OBVIOUS
  <2>5. QED
    BY <1>1, <1>4, <2>1, <2>2, <2>3, <2>4 DEF Holdings
<1>5. \/ pc'[c] = "ended" /\ open' = open /\ \A k \in rest : ~ToClose(f, k)
      \/ \E k \in rest : /\ pc'[c] = k /\ open'[k] = open[k] \ {f[k]}
                         /\ \A j \in Kinds \ {k} : open'[j] = open[j]
                         /\ \A j \in rest \cap Before(k) : ~ToClose(f, j)
  BY CloseFact
<1>6. QED
  BY <1>3, <1>4, <1>5

\* A step that makes and closes nothing.
LEMMA HoldingsKept ==
  ASSUME TypeOK, Holdings, UNCHANGED <<field, open>>,
         \A c \in Conns : \/ pc'[c] = pc[c]
                          \/ pc[c] = "unborn" /\ pc'[c] = "registering"
                          \/ {pc[c], pc'[c]} \subseteq {"starting", "live", "stopping", "deleting"}
  PROVE  Holdings'
<1> USE DistinctFact
<1>1. \A k \in Kinds : Here(k)' = Here(k)
  BY DEF Here
<1>2. (\A c \in Conns : pc'[c] \in Over \cup {"registering"}) =>
        \A c \in Conns : pc[c] \in Over \cup {"registering"}
  OBVIOUS
<1>3. \A c \in Conns, k \in Kinds : pc'[c] = k => pc[c] = k
  OBVIOUS
<1>4. QED
  BY <1>1, <1>2, <1>3 DEF Holdings

LEMMA HoldingsStep ==
  ASSUME TypeOK, Exclusive, OwnedHere, Holdings, clean, clean', [Next]_vars
  PROVE  Holdings'
<1> USE DistinctFact, StagesFact
<1>0. field \in [Kinds -> Conns \cup {None, Injected}] /\ pc \in [Procs -> Stages]
  BY DEF TypeOK
<1>1. ASSUME NEW p \in Procs, Registered(p), pc[p] \in {"unborn", "registering"},
             \A q \in Conns \ {p} : pc[q] \in Over
      PROVE  Holdings'
  <2>1. CASE p \in Conns
    BY <1>1, <2>1, HoldingsCreate DEF Registered
  <2>2. CASE p \notin Conns
    BY <1>0, <1>1, <2>2, HoldingsKept DEF Registered, resources, Goto
  <2>3. QED
    BY <2>1, <2>2
<1>2. ASSUME NEW p \in Procs, Deregistered(p), p \in Conns => pc[p] \notin Over PROVE Holdings'
  <2>1. CASE p \in Conns
    <3>1. CloseNext(p, field, Kinds) /\ field' = field
      BY <1>2, <2>1 DEF Deregistered
    <3>2. \A q \in Conns \ {p} : pc[q] \in Over
      BY <1>2, <2>1 DEF Exclusive
    <3>3. Kinds \in SUBSET Kinds
      OBVIOUS
    <3>4. \A k \in Kinds : open[k] \subseteq {field[k]}
      BY DEF Holdings
    <3>5. \A k \in Kinds : field[k] \in Conns => k \in owned
      BY DEF OwnedHere
    <3>6. QED
      BY <1>0, <2>1, <3>1, <3>2, <3>3, <3>4, <3>5, HoldingsClose
  <2>2. CASE p \notin Conns
    BY <1>0, <1>2, <2>2, HoldingsKept DEF Deregistered, resources, Goto
  <2>3. QED
    BY <2>1, <2>2
<1>3. ASSUME NEW p \in Procs, RegisterStarts(p) PROVE Holdings'
  BY <1>0, <1>3, HoldingsKept DEF RegisterStarts, resources, Goto
<1>4. ASSUME NEW p \in Procs, RegisterSkipped(p) PROVE Holdings'
  BY <1>1, <1>4 DEF RegisterSkipped, Alone
<1>5. ASSUME NEW p \in Procs, RegisterReturns(p) PROVE Holdings'
  <2>1. Registered(p) /\ pc[p] = "registering"
    BY <1>5 DEF RegisterReturns, Fails
  <2>2. \A q \in Conns \ {p} : pc[q] \in Over
    BY <2>1 DEF Exclusive, Procs, TypeOK
  <2>3. QED
    BY <1>1, <2>1, <2>2
<1>6. ASSUME NEW p \in Procs, DeregisterStarts(p) PROVE Holdings'
  <2>1. p \in Conns => pc[p] = "stopping"
    BY <1>6 DEF DeregisterStarts, MayDeregister
  <2>2. CASE registry = None
    BY <1>2, <1>6, <2>1, <2>2 DEF DeregisterStarts
  <2>3. CASE registry # None
    <3>1. UNCHANGED resources /\ Goto(p, "deleting")
      BY <1>6, <2>3 DEF DeregisterStarts, Fails
    <3>2. QED
      BY <1>0, <2>1, <3>1, HoldingsKept DEF resources, Goto
  <2>4. QED
    BY <2>2, <2>3
<1>7. ASSUME NEW p \in Procs, DeregisterReturns(p) PROVE Holdings'
  BY <1>2, <1>7 DEF DeregisterReturns, Fails
<1>8. ASSUME NEW c \in Conns, PoolCreated(c) PROVE Holdings'
  <2>1. \A q \in Conns \ {c} : pc'[q] \in Over
    BY <1>8, MovesOne DEF PoolCreated, Exclusive
  <2>2. pc'[c] = "starting"
    BY <1>0, <1>8 DEF PoolCreated, Goto
  <2>3. "pool" \in Kinds /\ field["pool"] = None /\ \A k \in Kinds \ {"pool"} : Here(k)
    BY <1>8 DEF PoolCreated, Holdings, TypeOK
  <2>4. open["pool"] = {}
    BY <2>3 DEF Holdings, TypeOK
  <2>5. field'["pool"] = c /\ open'["pool"] = {c}
    BY <1>8, <2>3, <2>4 DEF PoolCreated, TypeOK
  <2>6. \A k \in Kinds \ {"pool"} : field'[k] = field[k] /\ open'[k] = open[k]
    BY <1>8 DEF PoolCreated, TypeOK
  <2>7. \A k \in Kinds : Here(k)' /\ open'[k] \subseteq {field'[k]}
    BY <2>3, <2>5, <2>6 DEF Here, Holdings
  <2>8. QED
    BY <2>1, <2>2, <2>7 DEF Holdings
<1>9. ASSUME NEW c \in Conns, Started(c) \/ Closes(c) PROVE Holdings'
  BY <1>0, <1>9, HoldingsKept DEF Started, Closes, resources, Goto
<1>10. ASSUME NEW c \in Conns, NEW k \in Kinds, Closed(c, k) PROVE Holdings'
  <2>1. PICK f : f = field'
    OBVIOUS
  <2>2. PICK rest \in SUBSET Kinds : rest = {j \in Kinds : k \in Before(j)}
    OBVIOUS
  <2>3. /\ f \in [Kinds -> Conns \cup {None, Injected}]
        /\ f[k] = None /\ \A j \in Kinds \ {k} : f[j] = field[j]
    BY <1>10, <2>1 DEF Closed, FieldCleared, TypeOK
  <2>4. CloseNext(c, f, rest) /\ pc[c] = k
    BY <1>10, <2>1, <2>2 DEF Closed
  <2>5. open[k] = {} /\ \A j \in Kinds \cap Before(k) : field[j] \notin Conns
    BY <2>4 DEF Holdings
  <2>6. \A j \in Kinds \ rest : f[j] \notin Conns
    <3>1. Kinds \ rest \subseteq {k} \cup Before(k)
      BY <2>2, BeforeFact
    <3>2. QED
      BY <2>3, <2>5, <3>1
  <2>7. \A q \in Conns \ {c} : pc[q] \in Over
    BY <2>4 DEF Exclusive
  <2>8. \A j \in Kinds : open[j] \subseteq {f[j]} /\ (f[j] \in Conns => j \in owned)
    BY <2>3, <2>5 DEF Holdings, OwnedHere
  <2>9. QED
    BY <2>1, <2>3, <2>4, <2>6, <2>7, <2>8, HoldingsClose
<1>11. ASSUME NEW c \in Conns, Breaks(c) PROVE Holdings'
  BY <1>11 DEF Breaks, Fails
<1>12. CASE UpFails
  BY <1>12 DEF UpFails, Fails
<1>13. CASE MainServes \/ ServerStops \/ Evicts \/ UNCHANGED vars
  BY <1>13, HoldingsKept DEF MainServes, ServerStops, Evicts, vars, resources
<1>14. CASE MainExits
  BY <1>14, HoldingsKept DEF MainExits, resources
<1>15. ASSUME NEW m \in net, Served(m) \/ RequestLost(m) PROVE Holdings'
  BY <1>15, HoldingsKept DEF Served, RequestLost, resources
<1>16. QED
  BY <1>3, <1>4, <1>5, <1>6, <1>7, <1>8, <1>9, <1>10, <1>11, <1>12, <1>13, <1>14, <1>15 DEF Next

\* Nobody registers while another deregisters.
LEMMA NotBoth ==
  ASSUME TypeOK, Exclusive, clean, NEW p \in Procs, NEW q \in Procs,
         pc[p] = "registering", pc[q] = "deleting"
  PROVE  FALSE
<1> USE DistinctFact, StagesFact
<1>1. p \in Conns \cup {Up} /\ q \in Conns \cup {Down}
  BY DEF TypeOK, Procs
<1>2. CASE p = Up
  BY <1>1, <1>2 DEF Exclusive
<1>3. CASE p \in Conns /\ q = Down
  BY <1>3 DEF Exclusive
<1>4. CASE p \in Conns /\ q \in Conns
  BY <1>4 DEF Exclusive
<1>5. QED
  BY <1>1, <1>2, <1>3, <1>4

\* A step of a lifespan that neither begins nor ends a request.
LEMMA RegistrationKept ==
  ASSUME TypeOK, Registration, Requests, NEW p \in Procs, p # Down, p # Up,
         UNCHANGED <<main, registry, beat, net, answered, listed>>,
         \A q \in Procs \ {p} : pc'[q] = pc[q],
         pc[p] \notin {"registering", "deleting"}, pc'[p] \notin {"registering", "deleting"},
         registry = p => pc'[p] \in {"pooling", "starting", "live", "stopping"}
  PROVE  Registration' /\ Requests'
<1> USE DistinctFact, StagesFact
<1>1. p \in Conns
  BY DEF Procs
<1>2. Registration'
  BY <1>1 DEF Registration, TypeOK
<1>3. Requests'
  <2>1. \A m \in net : m.by \in Procs
    BY DEF TypeOK
  <2>2. answered \subseteq Procs
    BY DEF TypeOK
  <2>3. QED
    BY <2>1, <2>2 DEF Requests
<1>4. QED
  BY <1>2, <1>3

LEMMA RegistrationStarts ==
  ASSUME TypeOK, Exclusive, Registration, Requests, clean', NEW p \in Procs,
         RegisterStarts(p)
  PROVE  Registration' /\ Requests'
<1> USE DistinctFact, StagesFact
<1>1. /\ p # Down /\ p \in Clients /\ pc[p] = "unborn" /\ registry' = p /\ main \in {"waiting", "running"}
      /\ net' = net \cup {Request(p, "POST")} /\ UNCHANGED <<main, beat, answered, listed>>
      /\ \A c \in Conns : pc[c] \in Over
  BY DEF RegisterStarts, Alone, Clients, Procs
<1>2. pc'[p] = "registering" /\ \A q \in Procs \ {p} : pc'[q] = pc[q]
  BY DEF RegisterStarts, Goto, TypeOK
<1>3. pc[Down] = "unborn"
  BY <1>1 DEF Exclusive
<1>4. \A c \in Conns : beat[c] = "off"
  BY <1>1 DEF Registration
<1>5. Registration'
  <2>1. \A c \in Conns : beat'[c] = "off"
    BY <1>1, <1>4
  <2>2. QED
    BY <1>1, <1>2, <1>3, <2>1 DEF Registration
<1>6. Requests'
  <2>1. \A m \in net : m.by \in Procs \ {p}
    BY <1>1 DEF Requests, TypeOK
  <2>2. answered \subseteq Procs \ {p}
    BY <1>1 DEF Requests, TypeOK
  <2>3. Request(p, "POST").by = p /\ Request(p, "POST").op = "POST"
    BY DEF Request
  <2>4. registry' # None
    BY <1>1
  <2>5. \A m \in net' : m \in net \/ m = Request(p, "POST")
    BY <1>1
  <2>6. \A m \in net' : /\ m.by \notin answered'
                        /\ pc'[m.by] = IF m.op = "POST" THEN "registering" ELSE "deleting"
    BY <1>1, <1>2, <2>1, <2>2, <2>3, <2>5 DEF Requests
  <2>7. QED
    BY <1>1, <1>2, <2>2, <2>4, <2>6 DEF Requests
<1>7. QED
  BY <1>5, <1>6

LEMMA RegistrationReturns ==
  ASSUME TypeOK, Exclusive, Registration, Requests, clean, clean', NEW p \in Procs,
         RegisterReturns(p)
  PROVE  Registration' /\ Requests'
<1> USE DistinctFact, StagesFact
<1>1. /\ pc[p] = "registering" /\ p \in answered /\ answered' = answered \ {p}
      /\ registry # None /\ Registered(p)
      /\ beat' = [beat EXCEPT ![registry] = IF @ = "off" THEN Loop(p) ELSE @]
      /\ UNCHANGED <<main, registry, net, listed>>
  BY DEF RegisterReturns, Fails
<1>2. \A q \in Procs \ {p} : pc'[q] = pc[q]
  BY MovesOne
<1>3. IF p \in Conns THEN pc'[p] \in {"pooling", "starting"} ELSE pc'[p] = "ended" /\ p = Up
  <2>1. CASE p \in Conns
    BY <1>1, <2>1, CreateFact DEF Registered
  <2>2. CASE p \notin Conns
    BY <1>1, <2>2 DEF Registered, Goto, TypeOK, Procs
  <2>3. QED
    BY <2>1, <2>2
<1>4. \A q \in Procs : pc[q] # "deleting"
  BY <1>1, NotBoth
<1>5. \A q \in Procs : pc'[q] # "deleting"
  BY <1>2, <1>3, <1>4
<1>6. \A c \in Conns : beat'[c] # "off" => registry = c
  BY <1>1 DEF Registration, TypeOK
<1>7. Registration'
  <2>1. registry \in Conns =>
          pc'[registry] \in {"registering", "pooling", "starting", "live", "stopping", "deleting"}
    BY <1>2, <1>3 DEF Registration
  <2>2. registry = Up => pc'[Up] # "unborn"
    BY <1>2, <1>3 DEF Registration
  <2>3. pc'[Down] = "ended" => registry = None
    BY <1>2, <1>3 DEF Registration
  <2>4. QED
    BY <1>1, <1>5, <1>6, <2>1, <2>2, <2>3 DEF Registration
<1>8. Requests'
  <2>1. \A m \in net : m.by \in Procs \ {p}
    BY <1>1 DEF Requests, TypeOK
  <2>2. answered' \subseteq Procs \ {p}
    BY <1>1 DEF TypeOK
  <2>3. QED
    BY <1>1, <1>2, <2>1, <2>2 DEF Requests
<1>9. QED
  BY <1>7, <1>8

LEMMA RegistrationLeaves ==
  ASSUME TypeOK, Exclusive, Registration, Requests, clean, clean', NEW p \in Procs,
         DeregisterStarts(p)
  PROVE  Registration' /\ Requests'
<1> USE DistinctFact, StagesFact
<1>1. /\ IF p = Down THEN pc[p] = "unborn" ELSE p \in Conns /\ pc[p] = "stopping"
      /\ UNCHANGED <<main, answered, listed>>
  BY DEF DeregisterStarts, MayDeregister, Procs
<1>2. \A q \in Procs \ {p} : pc'[q] = pc[q]
  BY MovesOne
<1>3. \A m \in net : m.by \in Procs \ {p}
  BY <1>1 DEF Requests, TypeOK
<1>4. answered \subseteq Procs \ {p}
  BY <1>1 DEF Requests, TypeOK
<1>5. CASE registry = None
  <2>1. Deregistered(p) /\ UNCHANGED <<registry, beat, net>>
    BY <1>5 DEF DeregisterStarts
  <2>2. CASE p \in Conns
    <3>1. CloseNext(p, field, Kinds) /\ field \in [Kinds -> Conns \cup {None, Injected}]
      BY <2>1, <2>2 DEF Deregistered, TypeOK
    <3>2. Kinds \in SUBSET Kinds
      OBVIOUS
    <3>3. pc'[p] \in {"ended"} \cup Kinds
      BY <2>2, <3>1, <3>2, CloseFact
    <3>4. QED
      BY <1>1, <1>2, <1>5, <2>1, <2>2, <3>3, RegistrationKept
  <2>3. CASE p = Down
    <3>1. pc'[p] = "ended"
      BY <2>1, <2>3 DEF Deregistered, Goto, TypeOK
    <3>2. Registration'
      BY <1>1, <1>2, <1>5, <2>1, <2>3, <3>1 DEF Registration
    <3>3. Requests'
      BY <1>1, <1>2, <1>3, <1>4, <2>1, <3>1 DEF Requests
    <3>4. QED
      BY <3>2, <3>3
  <2>4. QED
    BY <1>1, <2>2, <2>3
<1>6. CASE registry # None
  <2>1. /\ beat' = [beat EXCEPT ![registry] = "off"]
        /\ net' = net \cup {Request(p, "DELETE")} /\ UNCHANGED registry /\ Goto(p, "deleting")
    BY <1>6 DEF DeregisterStarts, Fails
  <2>2. pc'[p] = "deleting"
    BY <2>1 DEF Goto, TypeOK
  <2>3. \A c \in Conns : beat'[c] = "off"
    BY <2>1 DEF Registration, TypeOK
  <2>4. Registration'
    BY <1>1, <1>2, <1>6, <2>1, <2>2, <2>3 DEF Registration
  <2>5. Requests'
    <3>1. Request(p, "DELETE").by = p /\ Request(p, "DELETE").op = "DELETE"
      BY DEF Request
    <3>2. \A m \in net' : m \in net \/ m = Request(p, "DELETE")
      BY <2>1
    <3>3. \A m \in net' : /\ m.by \notin answered
                          /\ pc'[m.by] = IF m.op = "POST" THEN "registering" ELSE "deleting"
      BY <1>2, <1>3, <1>4, <2>2, <3>1, <3>2 DEF Requests
    <3>4. QED
      BY <1>1, <1>2, <1>4, <2>1, <3>3 DEF Requests
  <2>6. QED
    BY <2>4, <2>5
<1>7. QED
  BY <1>5, <1>6

LEMMA RegistrationLeft ==
  ASSUME TypeOK, Exclusive, Registration, Requests, clean, clean', NEW p \in Procs,
         DeregisterReturns(p)
  PROVE  Registration' /\ Requests'
<1> USE DistinctFact, StagesFact
<1>1. /\ pc[p] = "deleting" /\ p \in answered /\ answered' = answered \ {p}
      /\ registry' = None /\ Deregistered(p)
      /\ UNCHANGED <<main, beat, net, listed>>
  BY DEF DeregisterReturns, Fails
<1>2. \A q \in Procs \ {p} : pc'[q] = pc[q]
  BY MovesOne
<1>3. pc'[p] \in {"ended"} \cup Kinds
  <2>1. CASE p \in Conns
    <3>1. CloseNext(p, field, Kinds) /\ field \in [Kinds -> Conns \cup {None, Injected}]
      BY <1>1, <2>1 DEF Deregistered, TypeOK
    <3>2. Kinds \in SUBSET Kinds
      OBVIOUS
    <3>3. QED
      BY <2>1, <3>1, <3>2, CloseFact
  <2>2. CASE p \notin Conns
    BY <1>1, <2>2 DEF Deregistered, Goto, TypeOK
  <2>3. QED
    BY <2>1, <2>2
<1>4. \A q \in Procs : pc'[q] # "registering"
  BY <1>1, <1>2, <1>3, NotBoth
<1>5. \A c \in Conns : beat[c] = "off"
  BY <1>1 DEF Registration
<1>6. ~listed
  BY <1>1 DEF Requests
<1>7. Registration'
  BY <1>1, <1>4, <1>5 DEF Registration
<1>8. Requests'
  <2>1. \A m \in net : m.by \in Procs \ {p}
    BY <1>1 DEF Requests, TypeOK
  <2>2. answered' \subseteq Procs \ {p}
    BY <1>1 DEF TypeOK
  <2>3. QED
    BY <1>1, <1>2, <1>6, <2>1, <2>2 DEF Requests
<1>9. QED
  BY <1>7, <1>8

LEMMA RegistrationServed ==
  ASSUME TypeOK, Exclusive, Registration, Requests, clean, NEW m \in net, Served(m)
  PROVE  Registration' /\ Requests'
<1> USE DistinctFact, StagesFact
<1>1. /\ net' = net \ {m} /\ listed' = (m.op = "POST") /\ answered' = answered \cup {m.by}
      /\ UNCHANGED <<pc, main, registry, beat>>
  BY DEF Served, Requests
<1>2. m.by \in Procs /\ m.op \in {"POST", "DELETE"}
  BY DEF TypeOK
<1>3. Registration'
  BY <1>1 DEF Registration
<1>4. \A n \in net \ {m} : n.by # m.by
  <2>1. \A n \in net : n.by = m.by => n.op = m.op
    BY DEF Requests, TypeOK
  <2>2. \A n \in net : n.by = m.by /\ n.op = m.op => n = m
    BY DEF TypeOK
  <2>3. QED
    BY <2>1, <2>2
<1>5. CASE m.op = "POST"
  <2>1. pc[m.by] = "registering"
    BY <1>5 DEF Requests
  <2>2. \A q \in Procs : pc[q] # "deleting"
    BY <1>2, <2>1, NotBoth
  <2>3. registry # None
    BY <1>2, <2>1 DEF Registration
  <2>4. main # "exited"
    BY <1>2, <2>1 DEF Exclusive, TypeOK, Procs
  <2>5. QED
    BY <1>1, <1>2, <1>3, <1>4, <2>1, <2>2, <2>3, <2>4 DEF Requests, TypeOK
<1>6. CASE m.op = "DELETE"
  <2>1. pc[m.by] = "deleting" /\ ~listed'
    BY <1>1, <1>6 DEF Requests
  <2>2. QED
    BY <1>1, <1>3, <1>4, <2>1 DEF Requests
<1>7. QED
  BY <1>2, <1>5, <1>6

LEMMA RegistrationStep ==
  ASSUME TypeOK, Exclusive, Registration, Requests, clean, clean', [Next]_vars
  PROVE  Registration' /\ Requests'
<1> USE DistinctFact, StagesFact
<1>0. pc \in [Procs -> Stages] /\ field \in [Kinds -> Conns \cup {None, Injected}]
  BY DEF TypeOK
<1>1. ASSUME NEW p \in Procs, RegisterStarts(p) \/ RegisterReturns(p) \/ DeregisterStarts(p)
                              \/ DeregisterReturns(p)
      PROVE  Registration' /\ Requests'
  BY <1>1, RegistrationStarts, RegistrationReturns, RegistrationLeaves, RegistrationLeft
<1>2. ASSUME NEW p \in Procs, RegisterSkipped(p) PROVE Registration' /\ Requests'
  <2>1. /\ pc[p] = "unborn" /\ p # Down /\ Registered(p)
        /\ UNCHANGED <<main, registry, beat, net, answered, listed>>
    BY <1>2 DEF RegisterSkipped, outside
  <2>2. \A q \in Procs \ {p} : pc'[q] = pc[q]
    BY <1>2, MovesOne
  <2>3. CASE p \in Conns
    <3>1. pc'[p] \in {"pooling", "starting"}
      BY <2>1, <2>3, CreateFact DEF Registered
    <3>2. QED
      BY <2>1, <2>2, <2>3, <3>1, RegistrationKept
  <2>4. CASE p = Up
    <3>1. pc'[Up] = "ended"
      BY <1>0, <2>1, <2>4 DEF Registered, Goto
    <3>2. Registration'
      BY <2>1, <2>2, <2>4, <3>1 DEF Registration
    <3>3. \A m \in net : m.by \in Procs \ {p}
      BY <2>1 DEF Requests, TypeOK
    <3>4. answered \subseteq Procs \ {p}
      BY <2>1 DEF Requests, TypeOK
    <3>5. Requests'
      BY <2>1, <2>2, <3>3, <3>4 DEF Requests
    <3>6. QED
      BY <3>2, <3>5
  <2>5. QED
    BY <2>1, <2>3, <2>4 DEF Procs
<1>3. ASSUME NEW c \in Conns, PoolCreated(c) \/ Started(c) \/ Closes(c)
      PROVE  Registration' /\ Requests'
  <2>1. /\ pc[c] \in {"pooling", "starting", "live"} /\ pc'[c] \in {"starting", "live", "stopping"}
        /\ UNCHANGED <<main, registry, beat, net, answered, listed>>
    BY <1>0, <1>3 DEF PoolCreated, Started, Closes, Goto, outside
  <2>2. \A q \in Procs \ {c} : pc'[q] = pc[q]
    BY <1>3, MovesOne
  <2>3. QED
    BY <2>1, <2>2, RegistrationKept
<1>4. ASSUME NEW c \in Conns, NEW k \in Kinds, Closed(c, k) PROVE Registration' /\ Requests'
  <2>1. PICK f : f = field'
    OBVIOUS
  <2>2. f \in [Kinds -> Conns \cup {None, Injected}]
    BY <1>4, <2>1 DEF Closed, FieldCleared, TypeOK
  <2>3. PICK rest \in SUBSET Kinds : CloseNext(c, f, rest)
    BY <1>4, <2>1 DEF Closed
  <2>4. pc'[c] \in {"ended"} \cup Kinds
    BY <2>2, <2>3, CloseFact
  <2>5. pc[c] = k /\ UNCHANGED <<main, registry, beat, net, answered, listed>>
    BY <1>4 DEF Closed, outside
  <2>6. registry # c
    BY <2>5 DEF Registration
  <2>7. \A q \in Procs \ {c} : pc'[q] = pc[q]
    BY <1>4, MovesOne
  <2>8. QED
    BY <2>4, <2>5, <2>6, <2>7, RegistrationKept
<1>5. ASSUME NEW c \in Conns, Breaks(c) PROVE Registration' /\ Requests'
  BY <1>5 DEF Breaks, Fails
<1>6. CASE UpFails
  BY <1>6 DEF UpFails, Fails
<1>7. CASE MainServes
  BY <1>7 DEF MainServes, Registration, Requests, outside
<1>8. CASE ServerStops
  <2>1. UNCHANGED <<pc, registry, net, answered, listed>>
    BY <1>8 DEF ServerStops, outside
  <2>2. \A c \in Conns : beat'[c] # "off" => beat[c] # "off"
    BY <1>8 DEF ServerStops
  <2>3. Registration'
    BY <2>1, <2>2 DEF Registration
  <2>4. main' = "exited" => ~listed
    <3>1. SUFFICES ASSUME main' = "exited" PROVE ~listed
      OBVIOUS
    <3>2. pc[Up] = "unborn" /\ \A c \in Conns : pc[c] \in Over
      BY <1>8, <3>1 DEF ServerStops
    <3>3. registry = None
      BY <3>2 DEF Registration, TypeOK, Clients
    <3>4. QED
      BY <3>3 DEF Requests
  <2>5. QED
    BY <2>1, <2>3, <2>4 DEF Requests
<1>9. CASE MainExits
  <2>1. /\ main = "exiting" /\ main' = "exited" /\ pc[Down] = "ended"
        /\ \A x \in Clients : beat'[x] = "off" /\ UNCHANGED <<registry, net, answered, listed>>
        /\ pc' = [p \in Procs |-> IF p \in Conns THEN pc[p] ELSE "ended"]
    BY <1>9 DEF MainExits, WaitIsOver, outside
  <2>2. registry = None /\ ~listed
    BY <2>1 DEF Registration, Requests
  <2>3. pc[Up] # "registering" /\ pc[Up] # "deleting"
    BY <2>1 DEF Exclusive, TypeOK
  <2>4. \A p \in Procs : pc'[p] = pc[p] \/ (p \in {Up, Down} /\ pc'[p] = "ended")
    BY <2>1 DEF Procs
  <2>5. Registration'
    BY <2>1, <2>2, <2>3, <2>4 DEF Registration
  <2>6. \A p \in Procs : pc[p] \in {"registering", "deleting"} => pc'[p] = pc[p]
    BY <2>1, <2>3, <2>4
  <2>7. \A p \in Procs : pc'[p] = "deleting" => pc[p] = "deleting"
    BY <2>4
  <2>8. Requests'
    <3>1. \A m \in net : m.by \in Procs
      BY DEF TypeOK
    <3>2. answered \subseteq Procs
      BY DEF TypeOK
    <3>3. \A m \in net : pc[m.by] \in {"registering", "deleting"}
      BY DEF Requests
    <3>4. QED
      BY <2>1, <2>2, <2>6, <2>7, <3>1, <3>2, <3>3 DEF Requests
  <2>9. QED
    BY <2>5, <2>8
<1>10. ASSUME NEW m \in net, Served(m) PROVE Registration' /\ Requests'
  BY <1>10, RegistrationServed
<1>11. ASSUME NEW m \in net, RequestLost(m) PROVE Registration' /\ Requests'
  BY <1>11 DEF RequestLost, Registration, Requests
<1>12. CASE Evicts
  BY <1>12 DEF Evicts, Registration, Requests
<1>13. CASE UNCHANGED vars
  BY <1>13 DEF vars, outside, Registration, Requests
<1>14. QED
  BY <1>1, <1>2, <1>3, <1>4, <1>5, <1>6, <1>7, <1>8, <1>9, <1>10, <1>11, <1>12, <1>13 DEF Next

LEMMA RInit == Init => RInv
<1> SUFFICES ASSUME Init PROVE RInv
  OBVIOUS
<1> USE DistinctFact, StagesFact
<1>1. /\ \A p \in Procs : pc[p] = "unborn"
      /\ \A k \in Kinds : field[k] \in {None, Injected} /\ open[k] = {}
      /\ main \in {"waiting", "running"} /\ registry = None
      /\ \A x \in Clients : beat[x] = "off"
      /\ net = {} /\ answered = {} /\ ~listed
  BY DEF Init
<1>2. Exclusive /\ OwnedHere
  BY <1>1 DEF Exclusive, OwnedHere
<1>3. Holdings
  BY <1>1 DEF Holdings
<1>4. Registration /\ Requests
  BY <1>1 DEF Registration, Requests
<1>5. QED
  BY <1>2, <1>3, <1>4, TypeInit DEF RInv, Safe

LEMMA RStep == RInv /\ [Next]_vars => RInv'
<1> SUFFICES ASSUME RInv, [Next]_vars PROVE RInv'
  OBVIOUS
<1>1. TypeOK' /\ Exclusive' /\ OwnedHere'
  BY TypeStep, ExclusiveStep, OwnedStep DEF RInv
<1>2. ASSUME clean' PROVE Safe'
  <2>1. clean /\ TypeOK /\ Exclusive /\ OwnedHere
    BY <1>2, CleanBefore DEF RInv
  <2>2. Holdings /\ Registration /\ Requests
    BY <2>1 DEF RInv, Safe
  <2>3. QED
    BY <1>2, <2>1, <2>2, HoldingsStep, RegistrationStep DEF Safe
<1>3. QED
  BY <1>1, <1>2 DEF RInv

LEMMA RSafe == RInv => AloneIsSafe
<1> SUFFICES ASSUME RInv, clean PROVE AloneIsSafe
  BY DEF AloneIsSafe
<1> USE DistinctFact, StagesFact
<1>1. TypeOK /\ Holdings /\ Registration /\ Requests
  BY DEF RInv, Safe
<1>2. \A c \in Conns : pc[c] = "live" =>
        \A k \in Kinds : field[k] = Injected \/ field[k] \in open[k]
  BY <1>1 DEF Holdings, Here
<1>3. (\A c \in Conns : pc[c] \in Over) => \A k \in Kinds : open[k] = {}
  <2>1. \A k \in Kinds : open[k] \subseteq {field[k]} /\ open[k] \subseteq Conns
    BY <1>1 DEF Holdings, TypeOK
  <2>2. (\A c \in Conns : pc[c] \in Over) => \A k \in Kinds : field[k] \notin Conns
    BY <1>1 DEF Holdings
  <2>3. QED
    BY <2>1, <2>2
<1>4. /\ \A c \in Conns : beat[c] # "off" => registry = c
      /\ main = "exited" => ~listed
  BY <1>1 DEF Registration, Requests
<1>5. QED
  BY <1>2, <1>3, <1>4 DEF AloneIsSafe

\* lifespan and run_with_registration, while nothing overlaps and nothing raises:
\* a live connection finds its resources open, the last one leaves none open and
\* no heartbeat running, and the process that has exited is not listed.
THEOREM AloneIsAlwaysSafe == Spec => []AloneIsSafe
<1>1. Spec => []RInv
  BY RInit, RStep, PTL DEF Spec
<1>2. QED
  BY <1>1, RSafe, PTL
=============================================================================
