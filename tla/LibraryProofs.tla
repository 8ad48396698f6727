---------------------------- MODULE LibraryProofs ----------------------------
(***************************************************************************)
(* Three of the components that MCLibrary checks one at a time: the cache  *)
(* of PromptManager, for any number of threads, names and values and every *)
(* time to live; the identity of a request, for any accounts, claims and   *)
(* number of rotations; and the introspection of a schema, for any         *)
(* databases and number of commits while it runs.                          *)
(***************************************************************************)
EXTENDS Prompts, Identity, SchemaIntrospection, TLAPS

-----------------------------------------------------------------------------
(* PromptManager: an entry is no younger by its time stamp than the answer   *)
(* it stems from, what a call found valid is so for the length of the call,  *)
(* and what an invalidation is to drop is among the keys it has yet to       *)
(* delete.                                                                   *)

Entries == [value : PromptValues, age : 0 .. Ancient, doomed : SUBSET Threads]

Reads   == [pc : {"looking", "valid", "asked"}, key : PromptKeys, waited : Nat]
Serves  == [pc : {"served"}, waited : Nat, value : PromptValues, lag : 0 .. Ancient]
Deletes == [pc : {"deleting"}, keys : SUBSET PromptKeys]
Others  == [pc : {"none", "raised", "invalidated"}]

PromptTypes ==
  /\ DOMAIN cachedPrompt \subseteq PromptKeys
  /\ cachedPrompt \in [DOMAIN cachedPrompt -> Entries]
  /\ given \in [PromptKeys -> [PromptValues -> 0 .. Ancient]]
  /\ calling \in [Threads -> Reads \cup Serves \cup Deletes \cup Others]

EntryIsGiven ==
  \A key \in DOMAIN cachedPrompt : given[key][cachedPrompt[key].value] <= cachedPrompt[key].age

ValidForTheCall ==
  \A t \in Threads :
    (calling[t].pc = "valid" /\ Has(calling[t].key)) =>
      cachedPrompt[calling[t].key].age < PromptTtl + calling[t].waited

\* Nothing is ever found valid if the time to live is 0.
ValidAsked == \A t \in Threads : calling[t].pc = "valid" => PromptTtl + calling[t].waited > 0

DoomedAreKnown ==
  \A key \in DOMAIN cachedPrompt : \A t \in cachedPrompt[key].doomed :
    calling[t].pc = "deleting" /\ key \in calling[t].keys

PromptInv ==
  /\ PromptTypes /\ EntryIsGiven /\ ValidForTheCall /\ ValidAsked /\ DoomedAreKnown
  /\ PromptsAreRecent

\* What a call knows of itself.
LEMMA CallFacts ==
  ASSUME PromptTypes, NEW t \in Threads
  PROVE  /\ Getting(t) => calling[t] \in Reads
         /\ calling[t].pc = "deleting" => calling[t] \in Deletes
         /\ calling[t].pc = "served" => calling[t] \in Serves
BY DEF PromptTypes, Reads, Serves, Deletes, Others, Getting

LEMMA NowFact ==
  ASSUME PromptTypes, NEW t \in Threads, NEW call \in Reads \cup Serves \cup Deletes \cup Others,
         Now(t, call)
  PROVE  /\ calling' \in [Threads -> Reads \cup Serves \cup Deletes \cup Others]
         /\ calling'[t] = call
         /\ \A u \in Threads \ {t} : calling'[u] = calling[u]
BY DEF PromptTypes, Now

LEMMA AncientFact == Ancient \in Nat /\ Ancient > PromptTtl + PromptDelay
BY PromptAssumption DEF Ancient

LEMMA PromptInitFact == PromptInit => PromptInv
<1> SUFFICES ASSUME PromptInit PROVE PromptInv
  OBVIOUS
<1>1. DOMAIN cachedPrompt = {} /\ \A t \in Threads : calling[t] = NoCall
  BY DEF PromptInit
<1>2. PromptTypes
  BY <1>1, AncientFact DEF PromptInit, PromptTypes, Entries, Others, NoCall
<1>3. QED
  BY <1>1, <1>2 DEF PromptInv, EntryIsGiven, ValidForTheCall, ValidAsked, DoomedAreKnown,
                    PromptsAreRecent, NoCall, Has

\* A call that neither serves nor deletes moves on, and the dictionary stays.
LEMMA MovesOn ==
  ASSUME PromptInv, NEW t \in Threads, NEW call \in Reads \cup Serves \cup Deletes \cup Others,
         Now(t, call), UNCHANGED <<cachedPrompt, given>>,
         calling[t].pc # "deleting",
         call.pc = "valid" => Has(call.key) /\ Valid(cachedPrompt[call.key]),
         call.pc = "served" => call.lag = 0 \/ call.lag < PromptTtl + call.waited,
         call.pc # "invalidated"
  PROVE  PromptInv'
<1>1. PromptTypes' /\ calling'[t] = call /\ \A u \in Threads \ {t} : calling'[u] = calling[u]
  BY NowFact DEF PromptInv, PromptTypes
<1>2. EntryIsGiven' /\ DoomedAreKnown'
  BY <1>1 DEF PromptInv, PromptTypes, Entries, EntryIsGiven, DoomedAreKnown
<1>3. call.pc = "valid" =>
        (Has(call.key) => cachedPrompt[call.key].age < PromptTtl + call.waited)
  <2>1. SUFFICES ASSUME call.pc = "valid"
                 PROVE  cachedPrompt[call.key].age < PromptTtl + call.waited
    OBVIOUS
  <2>2. call.waited \in Nat
    BY <2>1 DEF Reads, Serves, Deletes, Others
  <2>3. cachedPrompt[call.key].age \in Nat
    BY <2>1, AncientFact DEF PromptInv, PromptTypes, Entries, Has
  <2>4. QED
    BY <2>1, <2>2, <2>3, PromptAssumption DEF Valid
<1>4. ValidForTheCall'
  BY <1>1, <1>3 DEF PromptInv, ValidForTheCall, Has
<1>5. PromptsAreRecent'
  BY <1>1 DEF PromptInv, PromptsAreRecent
<1>6. ValidAsked'
  <2>1. SUFFICES ASSUME call.pc = "valid" PROVE PromptTtl + call.waited > 0
    BY <1>1 DEF PromptInv, ValidAsked
  <2>2. call.waited \in Nat /\ cachedPrompt[call.key].age \in Nat
    BY <2>1, AncientFact DEF PromptInv, PromptTypes, Entries, Has, Reads, Serves, Deletes, Others
  <2>3. QED
    BY <2>1, <2>2, PromptAssumption DEF Valid
<1>7. QED
  BY <1>1, <1>2, <1>4, <1>5, <1>6 DEF PromptInv

LEMMA LooksStep ==
  ASSUME PromptInv, NEW t \in Threads, NEW key \in PromptKeys, GetLooks(t, key)
  PROVE  PromptInv'
<1> DEFINE call == [pc |-> IF Has(key) THEN "looking" ELSE "asked", key |-> key, waited |-> 0]
<1>1. call \in Reads /\ call.pc \notin {"valid", "served", "invalidated"}
  BY DEF Reads
<1>2. Now(t, call) /\ UNCHANGED <<cachedPrompt, given>> /\ calling[t].pc # "deleting"
  BY DEF GetLooks, Under
<1> HIDE DEF call
<1>3. QED
  BY <1>1, <1>2, MovesOn

LEMMA ChecksStep ==
  ASSUME PromptInv, NEW t \in Threads, GetChecks(t)
  PROVE  PromptInv'
<1>1. calling[t] \in Reads /\ calling[t].pc = "looking" /\ UNCHANGED <<cachedPrompt, given>>
  BY CallFacts DEF GetChecks, Getting, PromptInv
<1>2. CASE ~Has(calling[t].key)
  <2>1. Now(t, [pc |-> "raised"]) /\ [pc |-> "raised"] \in Others
    BY <1>2 DEF GetChecks, Raises, Others
  <2>2. QED
    BY <1>1, <2>1, MovesOn
<1>3. CASE Has(calling[t].key)
  <2> DEFINE pc == IF Valid(cachedPrompt[calling[t].key]) THEN "valid" ELSE "asked"
             call == [calling[t] EXCEPT !.pc = pc]
  <2>1. Now(t, call)
    BY <1>3 DEF GetChecks, At
  <2>2. call \in Reads /\ call.pc = pc /\ call.key = calling[t].key
    BY <1>1 DEF Reads
  <2>3. pc \in {"valid", "asked"} /\ (pc = "valid" => Valid(cachedPrompt[calling[t].key]))
    OBVIOUS
  <2> HIDE DEF call, pc
  <2>4. QED
    BY <1>1, <1>3, <2>1, <2>2, <2>3, MovesOn
<1>4. QED
  BY <1>2, <1>3

LEMMA ReadsStep ==
  ASSUME PromptInv, NEW t \in Threads, GetReads(t)
  PROVE  PromptInv'
<1>1. calling[t] \in Reads /\ calling[t].pc = "valid" /\ UNCHANGED <<cachedPrompt, given>>
  BY CallFacts DEF GetReads, Getting, PromptInv
<1>2. CASE ~Has(calling[t].key)
  <2>1. Now(t, [pc |-> "raised"]) /\ [pc |-> "raised"] \in Others
    BY <1>2 DEF GetReads, Raises, Others
  <2>2. QED
    BY <1>1, <2>1, MovesOn
<1>3. CASE Has(calling[t].key)
  <2> DEFINE key  == calling[t].key
             entry == cachedPrompt[key]
             lag == given[key][entry.value]
             call == [pc |-> "served", waited |-> calling[t].waited, value |-> entry.value, lag |-> lag]
  <2>1. Now(t, call)
    BY <1>3 DEF GetReads, Served
  <2>2. /\ key \in PromptKeys /\ calling[t].waited \in Nat
        /\ entry.value \in PromptValues /\ entry.age \in 0 .. Ancient
        /\ lag \in 0 .. Ancient
    BY <1>1, <1>3 DEF PromptInv, PromptTypes, Entries, Reads, Has
  <2>3. lag <= entry.age /\ entry.age < PromptTtl + calling[t].waited
    BY <1>1, <1>3 DEF PromptInv, EntryIsGiven, ValidForTheCall, Has
  <2>4. lag < PromptTtl + calling[t].waited
    BY <2>2, <2>3, AncientFact, PromptAssumption
  <2>5. call \in Serves /\ call.pc = "served" /\ call.lag = lag /\ call.waited = calling[t].waited
    BY <2>2 DEF Serves
  <2> HIDE DEF call, lag, entry, key
  <2>6. QED
    BY <1>1, <2>1, <2>4, <2>5, MovesOn
<1>4. QED
  BY <1>2, <1>3

LEMMA ReturnsStep ==
  ASSUME PromptInv, NEW t \in Threads, NEW value \in PromptValues, GetReturns(t, value)
  PROVE  PromptInv'
<1> DEFINE key  == calling[t].key
           call == [pc |-> "served", waited |-> calling[t].waited, value |-> value, lag |-> 0]
<1>1. calling[t] \in Reads /\ key \in PromptKeys /\ calling[t].waited \in Nat
      /\ calling[t].pc = "asked"
  BY CallFacts DEF GetReturns, Getting, PromptInv, Reads
<1>2. /\ given' = [given EXCEPT ![key][value] = 0] /\ Now(t, call) /\ cachedPrompt' = With(key, value)
  BY DEF GetReturns, Served
<1>3. call \in Serves /\ call.pc = "served" /\ call.lag = 0
  BY <1>1, AncientFact DEF Serves
<1>4. /\ DOMAIN cachedPrompt' = DOMAIN cachedPrompt \cup {key}
      /\ cachedPrompt'[key] = [value |-> value, age |-> 0, doomed |-> {}]
      /\ \A k \in DOMAIN cachedPrompt \ {key} : cachedPrompt'[k] = cachedPrompt[k]
      /\ cachedPrompt' = [k \in DOMAIN cachedPrompt' |-> cachedPrompt'[k]]
  BY <1>2 DEF With
<1> HIDE DEF call
<1>5. /\ calling' \in [Threads -> Reads \cup Serves \cup Deletes \cup Others]
      /\ calling'[t] = call /\ \A u \in Threads \ {t} : calling'[u] = calling[u]
  BY <1>2, <1>3, NowFact DEF PromptInv
<1>6. /\ given' \in [PromptKeys -> [PromptValues -> 0 .. Ancient]]
      /\ given'[key][value] = 0
      /\ \A k \in PromptKeys, v \in PromptValues : given'[k][v] <= given[k][v]
  <2>1. given \in [PromptKeys -> [PromptValues -> 0 .. Ancient]]
    BY DEF PromptInv, PromptTypes
  <2>2. /\ given'[key] = [given[key] EXCEPT ![value] = 0]
        /\ \A k \in PromptKeys \ {key} : given'[k] = given[k]
        /\ given' \in [PromptKeys -> [PromptValues -> 0 .. Ancient]]
    BY <1>1, <1>2, <2>1, AncientFact
  <2>3. QED
    BY <1>1, <2>1, <2>2, AncientFact
<1> HIDE DEF key
<1>7. PromptTypes'
  <2>1. cachedPrompt'[key] \in Entries
    BY <1>4, AncientFact DEF Entries
  <2>2. \A k \in DOMAIN cachedPrompt' : k \in PromptKeys /\ cachedPrompt'[k] \in Entries
    BY <1>1, <1>4, <2>1 DEF PromptInv, PromptTypes
  <2>3. cachedPrompt' \in [DOMAIN cachedPrompt' -> Entries]
    BY <1>4, <2>2
  <2>4. QED
    BY <1>5, <1>6, <2>2, <2>3 DEF PromptTypes
<1>8. EntryIsGiven'
  <2>1. SUFFICES ASSUME NEW k \in DOMAIN cachedPrompt'
                 PROVE  given'[k][cachedPrompt'[k].value] <= cachedPrompt'[k].age
    BY DEF EntryIsGiven
  <2>2. CASE k = key
    BY <1>4, <1>6, <2>2
  <2>3. CASE k # key
    <3>1. /\ k \in DOMAIN cachedPrompt /\ cachedPrompt'[k] = cachedPrompt[k]
          /\ cachedPrompt[k] \in Entries /\ k \in PromptKeys
          /\ given[k][cachedPrompt[k].value] <= cachedPrompt[k].age
      BY <1>4, <2>1, <2>3 DEF PromptInv, PromptTypes, EntryIsGiven
    <3>2. /\ given'[k][cachedPrompt[k].value] \in 0 .. Ancient
          /\ given[k][cachedPrompt[k].value] \in 0 .. Ancient
          /\ given'[k][cachedPrompt[k].value] <= given[k][cachedPrompt[k].value]
          /\ cachedPrompt[k].age \in 0 .. Ancient
      BY <1>6, <3>1 DEF PromptInv, PromptTypes, Entries
    <3>3. QED
      BY <3>1, <3>2, AncientFact
  <2>4. QED
    BY <2>2, <2>3
<1>9. ValidForTheCall'
  <2>1. SUFFICES ASSUME NEW u \in Threads, calling'[u].pc = "valid",
                        calling'[u].key \in DOMAIN cachedPrompt'
                 PROVE  cachedPrompt'[calling'[u].key].age < PromptTtl + calling'[u].waited
    BY DEF ValidForTheCall, Has
  <2>2. u # t /\ calling'[u] = calling[u]
    BY <1>3, <1>5, <2>1
  <2>3. calling[u] \in Reads
    BY <2>1, <2>2, CallFacts DEF Getting, PromptInv
  <2>4. CASE calling[u].key = key
    <3>1. cachedPrompt'[key].age = 0
      BY <1>4
    <3>2. PromptTtl + calling[u].waited > 0
      BY <2>1, <2>2 DEF PromptInv, ValidAsked
    <3>3. QED
      BY <2>2, <2>4, <3>1, <3>2
  <2>5. CASE calling[u].key # key
    BY <1>4, <2>1, <2>2, <2>5 DEF PromptInv, ValidForTheCall, Has
  <2>6. QED
    BY <2>4, <2>5
<1>10. DoomedAreKnown'
  <2>1. SUFFICES ASSUME NEW k \in DOMAIN cachedPrompt', NEW u \in cachedPrompt'[k].doomed
                 PROVE  calling'[u].pc = "deleting" /\ k \in calling'[u].keys
    BY DEF DoomedAreKnown
  <2>2. k # key
    BY <1>4, <2>1
  <2>3. k \in DOMAIN cachedPrompt /\ u \in cachedPrompt[k].doomed /\ cachedPrompt[k] \in Entries
    BY <1>4, <2>1, <2>2 DEF PromptInv, PromptTypes
  <2>4. u \in Threads /\ calling[u].pc = "deleting" /\ k \in calling[u].keys
    BY <2>3 DEF PromptInv, DoomedAreKnown, Entries
  <2>5. QED
    BY <1>1, <1>5, <2>4
<1>11. PromptsAreRecent'
  BY <1>3, <1>4, <1>5 DEF PromptInv, PromptsAreRecent
<1>12. ValidAsked'
  BY <1>3, <1>5 DEF PromptInv, ValidAsked
<1>13. QED
  BY <1>7, <1>8, <1>9, <1>10, <1>11, <1>12 DEF PromptInv

\* An entry of the dictionary stays, goes, or is to go.
LEMMA DeletesStep ==
  ASSUME PromptInv, NEW t \in Threads, NEW key \in PromptKeys, InvalidateDeletes(t, key)
  PROVE  PromptInv'
<1>1. calling[t] \in Deletes /\ calling[t].pc = "deleting" /\ key \in calling[t].keys
      /\ UNCHANGED given
  BY CallFacts DEF InvalidateDeletes, PromptInv
<1>2. CASE Has(key)
  <2> DEFINE call == [calling[t] EXCEPT !.keys = @ \ {key}]
  <2>1. /\ call \in Deletes /\ call.pc = "deleting" /\ call.keys = calling[t].keys \ {key}
        /\ Now(t, call)
    BY <1>1, <1>2 DEF InvalidateDeletes, Deletes
  <2>2. /\ DOMAIN cachedPrompt' = DOMAIN cachedPrompt \ {key}
        /\ \A k \in DOMAIN cachedPrompt' : cachedPrompt'[k] = cachedPrompt[k]
        /\ cachedPrompt' \in [DOMAIN cachedPrompt' -> Entries]
    BY <1>2 DEF InvalidateDeletes, Without, PromptInv, PromptTypes
  <2> HIDE DEF call
  <2>3. PromptTypes' /\ calling'[t] = call /\ \A u \in Threads \ {t} : calling'[u] = calling[u]
    BY <1>1, <2>1, <2>2, NowFact DEF PromptInv, PromptTypes
  <2>4. EntryIsGiven'
    BY <1>1, <2>2 DEF PromptInv, EntryIsGiven
  <2>5. ValidForTheCall' /\ ValidAsked'
    BY <2>1, <2>2, <2>3 DEF PromptInv, ValidForTheCall, ValidAsked, Has
  <2>6. DoomedAreKnown'
    <3>1. SUFFICES ASSUME NEW k \in DOMAIN cachedPrompt', NEW u \in cachedPrompt'[k].doomed
                   PROVE  calling'[u].pc = "deleting" /\ k \in calling'[u].keys
      BY DEF DoomedAreKnown
    <3>2. /\ k # key /\ k \in DOMAIN cachedPrompt /\ u \in cachedPrompt[k].doomed
          /\ cachedPrompt[k] \in Entries
      BY <2>2, <3>1 DEF PromptInv, PromptTypes
    <3>3. u \in Threads /\ calling[u].pc = "deleting" /\ k \in calling[u].keys
      BY <3>2 DEF PromptInv, DoomedAreKnown, Entries
    <3>4. QED
      BY <2>1, <2>3, <3>2, <3>3
  <2>7. PromptsAreRecent'
    BY <2>1, <2>2, <2>3 DEF PromptInv, PromptsAreRecent
  <2>8. QED
    BY <2>3, <2>4, <2>5, <2>6, <2>7 DEF PromptInv
<1>3. CASE ~Has(key)
  <2>1. Now(t, [pc |-> "raised"]) /\ [pc |-> "raised"] \in Others /\ cachedPrompt' = Spared(t)
    BY <1>3 DEF InvalidateDeletes, Raises, Others
  <2>2. /\ calling' \in [Threads -> Reads \cup Serves \cup Deletes \cup Others]
        /\ calling'[t].pc = "raised" /\ \A u \in Threads \ {t} : calling'[u] = calling[u]
    BY <2>1, NowFact DEF PromptInv
  <2>3. /\ DOMAIN cachedPrompt' = DOMAIN cachedPrompt
        /\ \A k \in DOMAIN cachedPrompt :
             /\ cachedPrompt'[k] \in Entries
             /\ cachedPrompt'[k].value = cachedPrompt[k].value
             /\ cachedPrompt'[k].age = cachedPrompt[k].age
             /\ cachedPrompt'[k].doomed = cachedPrompt[k].doomed \ {t}
    BY <2>1 DEF Spared, PromptInv, PromptTypes, Entries
  <2>4. cachedPrompt' \in [DOMAIN cachedPrompt' -> Entries]
    BY <2>1, <2>3 DEF Spared
  <2>5. PromptTypes'
    BY <1>1, <2>2, <2>3, <2>4 DEF PromptInv, PromptTypes
  <2>6. EntryIsGiven'
    BY <1>1, <2>3 DEF PromptInv, EntryIsGiven
  <2>7. ValidForTheCall' /\ ValidAsked'
    BY <2>2, <2>3 DEF PromptInv, ValidForTheCall, ValidAsked, Has
  <2>8. DoomedAreKnown'
    <3>1. SUFFICES ASSUME NEW k \in DOMAIN cachedPrompt', NEW u \in cachedPrompt'[k].doomed
                   PROVE  calling'[u].pc = "deleting" /\ k \in calling'[u].keys
      BY DEF DoomedAreKnown
    <3>2. /\ u # t /\ u \in cachedPrompt[k].doomed /\ cachedPrompt[k] \in Entries
      BY <2>3, <3>1 DEF PromptInv, PromptTypes
    <3>3. u \in Threads /\ calling[u].pc = "deleting" /\ k \in calling[u].keys
      BY <2>3, <3>2 DEF PromptInv, DoomedAreKnown, Entries
    <3>4. QED
      BY <2>2, <3>2, <3>3
  <2>9. PromptsAreRecent'
    BY <2>2, <2>3 DEF PromptInv, PromptsAreRecent
  <2>10. QED
    BY <2>5, <2>6, <2>7, <2>8, <2>9 DEF PromptInv
<1>4. QED
  BY <1>2, <1>3

LEMMA InvalidatesStep ==
  ASSUME PromptInv, NEW t \in Threads, NEW name \in PromptNames, InvalidateStarts(t, name)
  PROVE  PromptInv'
<1> DEFINE call == [pc |-> "deleting", keys |-> KeysToRemove(name) \cap DOMAIN cachedPrompt]
<1>1. /\ call \in Deletes /\ call.pc = "deleting"
      /\ call.keys = KeysNamed(name) \cap DOMAIN cachedPrompt
      /\ Now(t, call) /\ ~Under(t) /\ UNCHANGED given
  BY DEF InvalidateStarts, Deletes, KeysToRemove, PromptInv, PromptTypes
<1>2. /\ DOMAIN cachedPrompt' = DOMAIN cachedPrompt
      /\ \A k \in DOMAIN cachedPrompt :
           /\ cachedPrompt'[k] \in Entries
           /\ cachedPrompt'[k].value = cachedPrompt[k].value
           /\ cachedPrompt'[k].age = cachedPrompt[k].age
           /\ cachedPrompt'[k].doomed =
                IF k \in KeysNamed(name) THEN cachedPrompt[k].doomed \cup {t}
                                         ELSE cachedPrompt[k].doomed
      /\ cachedPrompt' \in [DOMAIN cachedPrompt' -> Entries]
  <2>1. /\ cachedPrompt' = [k \in DOMAIN cachedPrompt |->
                              IF k \in KeysNamed(name)
                              THEN [cachedPrompt[k] EXCEPT !.doomed = @ \cup {t}]
                              ELSE cachedPrompt[k]]
        /\ \A k \in DOMAIN cachedPrompt : cachedPrompt[k] \in Entries
    BY DEF InvalidateStarts, PromptInv, PromptTypes
  <2>2. DOMAIN cachedPrompt' = DOMAIN cachedPrompt
    BY <2>1
  <2>3. \A k \in DOMAIN cachedPrompt :
           /\ cachedPrompt'[k] \in Entries
           /\ cachedPrompt'[k].value = cachedPrompt[k].value
           /\ cachedPrompt'[k].age = cachedPrompt[k].age
           /\ cachedPrompt'[k].doomed =
                IF k \in KeysNamed(name) THEN cachedPrompt[k].doomed \cup {t}
                                         ELSE cachedPrompt[k].doomed
    BY <2>1 DEF Entries
  <2>4. cachedPrompt' \in [DOMAIN cachedPrompt' -> Entries]
    BY <2>1, <2>3
  <2>5. QED
    BY <2>2, <2>3, <2>4
<1> HIDE DEF call
<1>3. /\ calling' \in [Threads -> Reads \cup Serves \cup Deletes \cup Others]
      /\ calling'[t] = call /\ \A u \in Threads \ {t} : calling'[u] = calling[u]
  BY <1>1, NowFact DEF PromptInv
<1>4. PromptTypes'
  BY <1>1, <1>2, <1>3 DEF PromptInv, PromptTypes
<1>5. EntryIsGiven'
  BY <1>1, <1>2 DEF PromptInv, EntryIsGiven
<1>6. ValidForTheCall' /\ ValidAsked'
  BY <1>1, <1>2, <1>3 DEF PromptInv, ValidForTheCall, ValidAsked, Has
<1>7. DoomedAreKnown'
  <2>1. SUFFICES ASSUME NEW k \in DOMAIN cachedPrompt', NEW u \in cachedPrompt'[k].doomed
                 PROVE  calling'[u].pc = "deleting" /\ k \in calling'[u].keys
    BY DEF DoomedAreKnown
  <2>2. cachedPrompt[k] \in Entries /\ k \in DOMAIN cachedPrompt
    BY <1>2, <2>1 DEF PromptInv, PromptTypes
  <2>3. \A v \in cachedPrompt[k].doomed : v # t
    BY <1>1, <2>2 DEF PromptInv, DoomedAreKnown, Under
  <2>4. CASE u = t
    <3>1. k \in KeysNamed(name)
      BY <1>2, <2>1, <2>2, <2>3, <2>4
    <3>2. QED
      BY <1>1, <1>3, <2>2, <2>4, <3>1
  <2>5. CASE u # t
    <3>1. u \in cachedPrompt[k].doomed
      BY <1>2, <2>1, <2>2, <2>5
    <3>2. u \in Threads /\ calling[u].pc = "deleting" /\ k \in calling[u].keys
      BY <2>2, <3>1 DEF PromptInv, DoomedAreKnown, Entries
    <3>3. QED
      BY <1>3, <2>5, <3>2
  <2>6. QED
    BY <2>4, <2>5
<1>8. PromptsAreRecent'
  <2>1. \A u \in Threads : calling'[u].pc \in {"served", "invalidated"} =>
                            u # t /\ calling'[u] = calling[u]
    BY <1>1, <1>3
  <2>2. \A u \in Threads \ {t} : \A k \in DOMAIN cachedPrompt :
          u \notin cachedPrompt[k].doomed => u \notin cachedPrompt'[k].doomed
    BY <1>2
  <2>3. QED
    BY <1>2, <2>1, <2>2 DEF PromptInv, PromptsAreRecent
<1>9. QED
  BY <1>4, <1>5, <1>6, <1>7, <1>8 DEF PromptInv

LEMMA DoneStep ==
  ASSUME PromptInv, NEW t \in Threads, InvalidateReturns(t) \/ ClearCache(t)
  PROVE  PromptInv'
<1> DEFINE call == [pc |-> "invalidated"]
<1>1. call \in Others /\ call.pc = "invalidated" /\ Now(t, call) /\ UNCHANGED given
  BY DEF InvalidateReturns, ClearCache, Others
<1>2. /\ DOMAIN cachedPrompt' \subseteq DOMAIN cachedPrompt
      /\ \A k \in DOMAIN cachedPrompt' : cachedPrompt'[k] = cachedPrompt[k]
      /\ cachedPrompt' \in [DOMAIN cachedPrompt' -> Entries]
  BY DEF InvalidateReturns, ClearCache, Without, PromptInv, PromptTypes
<1> HIDE DEF call
<1>3. /\ calling' \in [Threads -> Reads \cup Serves \cup Deletes \cup Others]
      /\ calling'[t] = call /\ \A u \in Threads \ {t} : calling'[u] = calling[u]
  BY <1>1, NowFact DEF PromptInv
<1>4. PromptTypes'
  BY <1>1, <1>2, <1>3 DEF PromptInv, PromptTypes
<1>5. EntryIsGiven'
  BY <1>1, <1>2 DEF PromptInv, EntryIsGiven
<1>6. ValidForTheCall' /\ ValidAsked'
  BY <1>1, <1>2, <1>3 DEF PromptInv, ValidForTheCall, ValidAsked, Has
<1>7. \A k \in DOMAIN cachedPrompt' : t \notin cachedPrompt'[k].doomed
  <2>1. CASE InvalidateReturns(t)
    BY <2>1 DEF InvalidateReturns, PromptInv, DoomedAreKnown
  <2>2. CASE ClearCache(t)
    BY <2>2 DEF ClearCache, Without, PromptInv, PromptTypes
  <2>3. QED
    BY <2>1, <2>2
<1>8. DoomedAreKnown'
  <2>1. SUFFICES ASSUME NEW k \in DOMAIN cachedPrompt', NEW u \in cachedPrompt'[k].doomed
                 PROVE  calling'[u].pc = "deleting" /\ k \in calling'[u].keys
    BY DEF DoomedAreKnown
  <2>2. u # t /\ u \in cachedPrompt[k].doomed /\ cachedPrompt[k] \in Entries /\ k \in DOMAIN cachedPrompt
    BY <1>2, <1>7, <2>1 DEF PromptInv, PromptTypes
  <2>3. u \in Threads /\ calling[u].pc = "deleting" /\ k \in calling[u].keys
    BY <2>2 DEF PromptInv, DoomedAreKnown, Entries
  <2>4. QED
    BY <1>3, <2>2, <2>3
<1>9. PromptsAreRecent'
  BY <1>1, <1>2, <1>3, <1>7 DEF PromptInv, PromptsAreRecent
<1>10. QED
  BY <1>4, <1>5, <1>6, <1>8, <1>9 DEF PromptInv

LEMMA TickStep == ASSUME PromptInv, PromptTick PROVE PromptInv'
<1>1. /\ DOMAIN cachedPrompt' = DOMAIN cachedPrompt
      /\ \A k \in DOMAIN cachedPrompt :
           /\ cachedPrompt[k] \in Entries /\ k \in PromptKeys
           /\ cachedPrompt'[k].value = cachedPrompt[k].value
           /\ cachedPrompt'[k].age = Later(cachedPrompt[k].age)
           /\ cachedPrompt'[k].doomed = cachedPrompt[k].doomed
           /\ cachedPrompt'[k] = [cachedPrompt[k] EXCEPT !.age = Later(@)]
      /\ cachedPrompt' = [k \in DOMAIN cachedPrompt' |-> cachedPrompt'[k]]
  BY DEF PromptTick, PromptInv, PromptTypes, Entries
<1>2. \A a, b \in 0 .. Ancient : /\ Later(a) \in 0 .. Ancient /\ Later(a) <= a + 1
                                 /\ a <= b => Later(a) <= Later(b)
  BY AncientFact DEF Later
<1>3. \A t \in Threads :
        /\ ~Getting(t) => calling'[t] = calling[t]
        /\ Getting(t) => /\ calling[t] \in Reads /\ calling'[t] \in Reads
                         /\ calling'[t].pc = calling[t].pc
                         /\ calling'[t].key = calling[t].key
                         /\ calling'[t].waited = calling[t].waited + 1
  <2>1. SUFFICES ASSUME NEW t \in Threads
                 PROVE  /\ ~Getting(t) => calling'[t] = calling[t]
                        /\ Getting(t) => /\ calling[t] \in Reads /\ calling'[t] \in Reads
                                         /\ calling'[t].pc = calling[t].pc
                                         /\ calling'[t].key = calling[t].key
                                         /\ calling'[t].waited = calling[t].waited + 1
    OBVIOUS
  <2>2. calling'[t] = IF Getting(t) THEN [calling[t] EXCEPT !.waited = @ + 1] ELSE calling[t]
    BY DEF PromptTick
  <2>3. Getting(t) => calling[t] \in Reads
    BY CallFacts DEF PromptInv
  <2>4. QED
    BY <2>2, <2>3 DEF Reads
<1>4. PromptTypes'
  <2>1. cachedPrompt' \in [DOMAIN cachedPrompt' -> Entries]
    BY <1>1, <1>2 DEF Entries
  <2>2. given' \in [PromptKeys -> [PromptValues -> 0 .. Ancient]]
    BY <1>2 DEF PromptTick, PromptInv, PromptTypes
  <2>3. calling' \in [Threads -> Reads \cup Serves \cup Deletes \cup Others]
    BY <1>3 DEF PromptTick, PromptInv, PromptTypes
  <2>4. QED
    BY <1>1, <2>1, <2>2, <2>3 DEF PromptInv, PromptTypes
<1>5. EntryIsGiven'
  <2>1. SUFFICES ASSUME NEW k \in DOMAIN cachedPrompt
                 PROVE  given'[k][cachedPrompt'[k].value] <= cachedPrompt'[k].age
    BY <1>1 DEF EntryIsGiven
  <2>2. /\ cachedPrompt[k].value \in PromptValues /\ cachedPrompt[k].age \in 0 .. Ancient
        /\ given[k][cachedPrompt[k].value] \in 0 .. Ancient
        /\ given[k][cachedPrompt[k].value] <= cachedPrompt[k].age
        /\ given'[k][cachedPrompt[k].value] = Later(given[k][cachedPrompt[k].value])
    BY <1>1 DEF PromptTick, PromptInv, PromptTypes, EntryIsGiven, Entries
  <2>3. QED
    BY <1>1, <1>2, <2>2
<1>6. ValidForTheCall' /\ ValidAsked'
  <2>1. SUFFICES ASSUME NEW t \in Threads, calling'[t].pc = "valid"
                 PROVE  /\ calling'[t].key \in DOMAIN cachedPrompt' =>
                             cachedPrompt'[calling'[t].key].age < PromptTtl + calling'[t].waited
                        /\ PromptTtl + calling'[t].waited > 0
    BY DEF ValidForTheCall, ValidAsked, Has
  <2>2. /\ calling[t].pc = "valid" /\ calling[t].waited \in Nat
        /\ calling'[t].key = calling[t].key /\ calling'[t].waited = calling[t].waited + 1
    <3>1. Getting(t)
      BY <1>3, <2>1 DEF Getting
    <3>2. QED
      BY <1>3, <2>1, <3>1 DEF Reads
  <2>3. ASSUME calling[t].key \in DOMAIN cachedPrompt
        PROVE  cachedPrompt'[calling[t].key].age < PromptTtl + calling'[t].waited
    <3>1. /\ cachedPrompt[calling[t].key].age < PromptTtl + calling[t].waited
          /\ cachedPrompt[calling[t].key].age \in 0 .. Ancient
      BY <1>1, <2>2, <2>3 DEF PromptInv, ValidForTheCall, Has, Entries
    <3>2. /\ cachedPrompt'[calling[t].key].age <= cachedPrompt[calling[t].key].age + 1
          /\ cachedPrompt'[calling[t].key].age \in 0 .. Ancient
      BY <1>1, <1>2, <2>3, <3>1
    <3>3. QED
      BY <2>2, <3>1, <3>2, PromptAssumption, AncientFact
  <2>4. QED
    BY <1>1, <2>2, <2>3, PromptAssumption
<1>7. DoomedAreKnown'
  <2>1. SUFFICES ASSUME NEW k \in DOMAIN cachedPrompt, NEW u \in cachedPrompt[k].doomed
                 PROVE  calling'[u].pc = "deleting" /\ k \in calling'[u].keys
    BY <1>1 DEF DoomedAreKnown
  <2>2. u \in Threads /\ calling[u].pc = "deleting" /\ k \in calling[u].keys
    BY <1>1 DEF PromptInv, DoomedAreKnown, Entries
  <2>3. QED
    BY <1>3, <2>2 DEF Getting
<1>8. PromptsAreRecent'
  <2>1. \A t \in Threads : calling'[t].pc \in {"served", "invalidated"} => calling'[t] = calling[t]
    BY <1>3 DEF Getting
  <2>2. QED
    BY <1>1, <2>1 DEF PromptInv, PromptsAreRecent
<1>9. QED
  BY <1>4, <1>5, <1>6, <1>7, <1>8 DEF PromptInv

\* What get_prompt() serves is recent, and what invalidate_cache() was to drop is
\* gone when it returns: for every number of threads, names and values, every time
\* to live and however the accesses of the calls to the dictionary interleave.
THEOREM ServedPromptsAreRecent == PromptSpec => []PromptsAreRecent
<1>1. PromptInv /\ [PromptNext]_promptVars => PromptInv'
  <2>1. SUFFICES ASSUME PromptInv, [PromptNext]_promptVars PROVE PromptInv'
    OBVIOUS
  <2>2. ASSUME UNCHANGED promptVars PROVE PromptInv'
    BY <2>1, <2>2
       DEF promptVars, PromptInv, PromptTypes, EntryIsGiven, ValidForTheCall, ValidAsked,
           DoomedAreKnown, PromptsAreRecent, Has, Entries
  <2>3. ASSUME NEW t \in Threads, InvalidateInterrupted(t) PROVE PromptInv'
    <3>1. Now(t, [pc |-> "raised"]) /\ [pc |-> "raised"] \in Others
          /\ UNCHANGED <<cachedPrompt, given>> /\ calling[t].pc # "deleting"
      BY <2>3 DEF InvalidateInterrupted, Raises, Others, Under
    <3>2. QED
      BY <2>1, <3>1, MovesOn
  <2>4. QED
    BY <2>1, <2>2, <2>3, LooksStep, ChecksStep, ReadsStep, ReturnsStep, DeletesStep,
       InvalidatesStep, DoneStep, TickStep
       DEF PromptNext
<1>2. QED
  BY <1>1, PromptInitFact, PTL DEF PromptSpec, PromptInv

-----------------------------------------------------------------------------
(* The identity of a request: a context is made once from the claims and    *)
(* making it again changes nothing; and as long as the rotation is orderly, *)
(* a verifier is at most one generation ahead of its signer and of what the *)
(* signer has signed.                                                       *)

\* What a verified request acts on is the context of the user's claims.
Identified ==
  /\ session.kind = "context" => session.ctx = AgentContext(session.claims, "rm")
  /\ header # Nothing => header.payload = AgentContext(header.claims, "rm")
  /\ request.kind = "verified" => request.ctx = AgentContext(request.claims, "rm")

LEMMA NormalisedOnce ==
  ASSUME NEW claims
  PROVE  AgentContext(AgentContext(claims, "rm"), "readonly") = AgentContext(claims, "rm")
BY DEF AgentContext, Get

LEMMA ShownIsPermitted ==
  ASSUME NEW claims
  PROVE  Shown(AgentContext(claims, "rm")) = Permitted(claims)
<1> DEFINE ctx == AgentContext(claims, "rm")
<1>1. \A a \in Accounts : (RowFiltersCrm(ctx) = {} \/ a \in RowFiltersCrm(ctx)) <=> CanAccessAccount(ctx, a)
  <2> HIDE DEF ctx
  <2>1. CASE SeesAll(ctx)
    BY <2>1 DEF RowFiltersCrm, CanAccessAccount
  <2>2. CASE ~SeesAll(ctx) /\ ctx.assigned_account_ids # {}
    BY <2>2 DEF RowFiltersCrm, CanAccessAccount
  <2>3. CASE ~SeesAll(ctx) /\ ctx.assigned_account_ids = {}
    BY <2>3, AccountsAssumption DEF RowFiltersCrm, CanAccessAccount
  <2>4. QED
    BY <2>1, <2>2, <2>3
<1>2. \A level \in {"compliance_full", "aml_view"} :
        level \in ctx.compliance_clearance
          <=> level \in Get(claims, "compliance_clearance", {"standard"})
  BY DEF AgentContext
<1> HIDE DEF ctx
<1>3. Shown(ctx).rows = Permitted(claims).rows
  BY <1>1 DEF Shown, Permitted, ctx
<1>4. Shown(ctx).columns = Permitted(claims).columns
  <2> DEFINE cleared == Get(claims, "compliance_clearance", {"standard"})
  <2>1. /\ Shown(ctx).columns = {"compliance", "aml"} \ ColMask(ctx)
        /\ Permitted(claims).columns =
             {family \in {"compliance", "aml"} :
                (CASE family = "compliance" -> "compliance_full"
                   [] family = "aml" -> "aml_view") \in cleared}
    BY DEF Shown, Permitted
  <2> HIDE DEF cleared
  <2>2. /\ "compliance" \in Shown(ctx).columns <=> "compliance_full" \in ctx.compliance_clearance
        /\ "aml" \in Shown(ctx).columns <=> "aml_view" \in ctx.compliance_clearance
    BY <2>1 DEF ColMask
  <2>3. /\ "compliance" \in Permitted(claims).columns <=> "compliance_full" \in cleared
        /\ "aml" \in Permitted(claims).columns <=> "aml_view" \in cleared
    BY <2>1
  <2>4. QED
    BY <1>2, <2>1, <2>2, <2>3 DEF cleared
<1>5. Shown(ctx) = [rows |-> Shown(ctx).rows, columns |-> Shown(ctx).columns]
      /\ Permitted(claims) = [rows |-> Permitted(claims).rows, columns |-> Permitted(claims).columns]
  BY DEF Shown, Permitted
<1>6. QED
  BY <1>3, <1>4, <1>5 DEF ctx

LEMMA IdentifiedStep ==
  ASSUME Identified, [IdNext]_idVars
  PROVE  Identified'
<1>1. ASSUME UNCHANGED <<session, header, request>> PROVE Identified'
  BY <1>1 DEF Identified
<1>2. CASE FromJwt
  BY <1>2 DEF FromJwt, Identified
<1>3. CASE ToHeader
  BY <1>3 DEF ToHeader, Identified
<1>4. ASSUME NEW fallback, Receive(fallback) PROVE Identified'
  BY <1>4, NormalisedOnce DEF Receive, FromHeader, Identified
<1>5. QED
  BY <1>1, <1>2, <1>3, <1>4 DEF IdNext, Launch, Rotate, Retire, Login, idVars

IdTypes ==
  /\ configured \in (SUBSET {"jwt", "hmac"}) \cup {{"not launched"}}
  /\ generation \in [Services -> Nat]
  /\ retired \subseteq Services

BeforeLaunch == ~Up => token = Nothing /\ session = Nothing /\ header = Nothing /\ request = Nothing

\* What the secret of an artefact is, by the generation that signed it.
JwtOf(g) == IF "jwt" \in configured THEN <<"jwt", g>> ELSE <<"default", 0>>
HmacOf(g) == IF "hmac" \in configured THEN <<"hmac", g>> ELSE JwtOf(g)

Signed ==
  /\ token # Nothing => token.secret = JwtOf(token.generation)
  /\ header # Nothing => header.secret = HmacOf(header.generation)

\* The verifier is no older than the signer and what it signed, and newer by a
\* generation only while it still knows the secrets before.
Covered(signer, verifier, artefact) ==
  /\ generation[signer] <= generation[verifier]
  /\ generation[verifier] <= generation[signer] + 1
  /\ verifier \in retired => generation[verifier] = generation[signer]
  /\ artefact # Nothing =>
       /\ artefact.generation \in Nat
       /\ artefact.generation <= generation[signer]
       /\ generation[verifier] <= artefact.generation + 1
       /\ verifier \in retired => artefact.generation = generation[verifier]

Orderly == Covered("ui", "agent", token) /\ Covered("agent", "server", header)

\* What a refusal takes.
RefusedFor ==
  /\ session.kind = "refused" => disorderly
  /\ request.kind = "fallback" => disorderly \/ NoPrevious

RotationInv ==
  /\ IdTypes /\ BeforeLaunch /\ Signed
  /\ ~disorderly => Orderly
  /\ RefusedFor

LEMMA RotationInit == IdInit => RotationInv
<1> SUFFICES ASSUME IdInit PROVE RotationInv
  OBVIOUS
<1>1. IdTypes /\ BeforeLaunch /\ Signed /\ RefusedFor
  BY DEF IdInit, IdTypes, BeforeLaunch, Signed, RefusedFor, NoPrevious, Nothing
<1>2. Orderly
  <2>1. /\ generation["ui"] = 0 /\ generation["agent"] = 0 /\ generation["server"] = 0
        /\ retired = {} /\ token = Nothing /\ header = Nothing
    BY DEF IdInit, Services
  <2>2. QED
    BY <2>1 DEF Orderly, Covered
<1>3. QED
  BY <1>1, <1>2 DEF RotationInv

LEMMA Secrets ==
  ASSUME IdTypes, Up, NEW s \in Services
  PROVE  /\ JwtSecret(s) = {JwtOf(generation[s])}
         /\ HmacSecret(s) = {HmacOf(generation[s])}
BY DEF JwtSecret, HmacSecret, Setting, JwtOf, HmacOf

\* A verifier that covers what was signed accepts it.
LEMMA Accepted ==
  ASSUME RotationInv, ~disorderly, Up
  PROVE  /\ token # Nothing => token.secret \in AcceptedForJwt("agent")
         /\ header # Nothing =>
              \/ header.secret \in AcceptedForHeader("server")
              \/ "jwt" \in configured /\ "hmac" \notin configured
                 /\ header.generation < generation["server"]
<1>1. /\ {"agent", "server", "ui"} \subseteq Services
      /\ \A s \in Services : generation[s] \in Nat
  BY DEF Services, RotationInv, IdTypes
<1>2. \A s \in Services, family \in configured :
        (generation[s] > 0 /\ s \notin retired) =>
          <<family, generation[s] - 1>> \in Previous(s, family)
  BY DEF Previous
<1>3. ASSUME token # Nothing PROVE token.secret \in AcceptedForJwt("agent")
  <2>1. /\ token.generation \in Nat /\ token.generation <= generation["agent"]
        /\ generation["agent"] <= token.generation + 1
        /\ "agent" \in retired => token.generation = generation["agent"]
    BY <1>1, <1>3 DEF RotationInv, Orderly, Covered
  <2>2. token.secret = JwtOf(token.generation)
    BY <1>3 DEF RotationInv, Signed
  <2>3. JwtOf(generation["agent"]) \in AcceptedForJwt("agent")
    BY <1>1, Secrets DEF AcceptedForJwt, RotationInv
  <2>4. CASE token.generation = generation["agent"]
    BY <2>2, <2>3, <2>4
  <2>5. CASE "jwt" \notin configured
    BY <2>2, <2>3, <2>5 DEF JwtOf
  <2>6. CASE token.generation # generation["agent"] /\ "jwt" \in configured
    <3>1. token.generation = generation["agent"] - 1 /\ generation["agent"] > 0 /\ "agent" \notin retired
      BY <1>1, <2>1, <2>6
    <3>2. <<"jwt", generation["agent"] - 1>> \in Previous("agent", "jwt")
      BY <1>1, <1>2, <2>6, <3>1
    <3>3. QED
      BY <2>2, <2>6, <3>1, <3>2 DEF JwtOf, AcceptedForJwt
  <2>7. QED
    BY <2>4, <2>5, <2>6
<1>4. ASSUME header # Nothing,
             ~("jwt" \in configured /\ "hmac" \notin configured
               /\ header.generation < generation["server"])
      PROVE  header.secret \in AcceptedForHeader("server")
  <2>1. /\ header.generation \in Nat /\ header.generation <= generation["server"]
        /\ generation["server"] <= header.generation + 1
        /\ "server" \in retired => header.generation = generation["server"]
    BY <1>1, <1>4 DEF RotationInv, Orderly, Covered
  <2>2. header.secret = HmacOf(header.generation)
    BY <1>4 DEF RotationInv, Signed
  <2>3. HmacOf(generation["server"]) \in AcceptedForHeader("server")
    BY <1>1, Secrets DEF AcceptedForHeader, RotationInv
  <2>4. CASE header.generation = generation["server"]
    BY <2>2, <2>3, <2>4
  <2>5. CASE "hmac" \notin configured /\ header.generation # generation["server"]
    <3>1. "jwt" \notin configured
      BY <1>1, <1>4, <2>1, <2>5
    <3>2. QED
      BY <2>2, <2>3, <2>5, <3>1 DEF HmacOf, JwtOf
  <2>6. CASE header.generation # generation["server"] /\ "hmac" \in configured
    <3>1. header.generation = generation["server"] - 1 /\ generation["server"] > 0 /\ "server" \notin retired
      BY <1>1, <2>1, <2>6
    <3>2. <<"hmac", generation["server"] - 1>> \in Previous("server", "hmac")
      BY <1>1, <1>2, <2>6, <3>1
    <3>3. QED
      BY <2>2, <2>6, <3>1, <3>2 DEF HmacOf, AcceptedForHeader
  <2>7. QED
    BY <2>4, <2>5, <2>6
<1>5. QED
  BY <1>3, <1>4

LEMMA IdTypesStep ==
  ASSUME IdTypes, [IdNext]_idVars
  PROVE  IdTypes'
<1>1. ASSUME UNCHANGED <<configured, generation, retired>> PROVE IdTypes'
  BY <1>1 DEF IdTypes
<1>2. ASSUME NEW families \in SUBSET {"jwt", "hmac"}, NEW environment, Launch(families, environment)
      PROVE  IdTypes'
  BY <1>2 DEF Launch, IdTypes
<1>3. ASSUME NEW s \in Services, Rotate(s) PROVE IdTypes'
  <2>1. /\ generation' = [generation EXCEPT ![s] = @ + 1]
        /\ retired' \subseteq retired /\ configured' = configured
    BY <1>3 DEF Rotate
  <2>2. \A t \in Services : generation[t] \in Nat
    BY DEF IdTypes
  <2>3. generation' \in [Services -> Nat]
    <3>1. generation \in [Services -> Nat]
      BY DEF IdTypes
    <3>2. generation[s] \in Nat
      BY <1>3, <2>2
    <3>3. generation[s] + 1 \in Nat
      BY <3>2
    <3>4. QED
      BY <1>3, <2>1, <3>1, <3>3
  <2>4. QED
    BY <2>1, <2>3 DEF IdTypes
<1>4. ASSUME NEW s \in Services, Retire(s) PROVE IdTypes'
  BY <1>4 DEF Retire, IdTypes
<1>5. QED
  BY <1>1, <1>2, <1>3, <1>4
     DEF IdNext, Login, FromJwt, ToHeader, Receive, idVars

\* The services, one by one, and whom each verifies.
LEMMA ServiceFacts ==
  ASSUME IdTypes
  PROVE  /\ "ui" \in Services /\ "agent" \in Services /\ "server" \in Services
         /\ generation["ui"] \in Nat /\ generation["agent"] \in Nat /\ generation["server"] \in Nat
         /\ Signer("agent") = "ui" /\ Signer("server") = "agent" /\ Signer("ui") = "none"
         /\ Verifier("ui") = "agent" /\ Verifier("agent") = "server" /\ Verifier("server") = "none"
         /\ Artefact("agent") = token /\ Artefact("server") = header
BY DEF IdTypes, Services, Signer, Verifier, Artefact

LEMMA RotateStep ==
  ASSUME RotationInv, NEW s \in Services, Rotate(s), ~disorderly'
  PROVE  Orderly'
<1>1. /\ ~disorderly /\ ~Behind(s)
      /\ Verifier(s) # "none" => ~(generation[Verifier(s)] <= generation[s])
  BY Zenon DEF Rotate
<1>2. Orderly /\ IdTypes
  BY <1>1 DEF RotationInv
<1>3. /\ generation' = [generation EXCEPT ![s] = @ + 1] /\ retired' = retired \ {s}
      /\ token' = token /\ header' = header
  BY DEF Rotate
<1>4. /\ token # Nothing => token.generation \in Nat
      /\ header # Nothing => header.generation \in Nat
  BY <1>2 DEF Orderly, Covered
<1>5. CASE s = "ui"
  <2>1. /\ generation'["ui"] = generation["ui"] + 1 /\ generation'["agent"] = generation["agent"]
        /\ generation'["server"] = generation["server"]
        /\ "agent" \in retired' <=> "agent" \in retired
        /\ "server" \in retired' <=> "server" \in retired
    BY <1>2, <1>3, <1>5 DEF IdTypes, Services
  <2>2. ~(generation["agent"] <= generation["ui"])
    BY <1>1, <1>2, <1>5, ServiceFacts
  <2>3. QED
    BY <1>2, <1>3, <1>4, <2>1, <2>2, ServiceFacts DEF Orderly, Covered
<1>6. CASE s = "agent"
  <2>1. /\ generation'["agent"] = generation["agent"] + 1 /\ generation'["ui"] = generation["ui"]
        /\ generation'["server"] = generation["server"]
        /\ "agent" \notin retired'
        /\ "server" \in retired' <=> "server" \in retired
    BY <1>2, <1>3, <1>6 DEF IdTypes, Services
  <2>2. /\ ~(generation["server"] <= generation["agent"])
        /\ ~(generation["ui"] < generation["agent"])
        /\ token # Nothing => ~(token.generation < generation["agent"])
    BY <1>1, <1>2, <1>6, ServiceFacts DEF Behind
  <2>3. QED
    BY <1>2, <1>3, <1>4, <2>1, <2>2, ServiceFacts DEF Orderly, Covered
<1>7. CASE s = "server"
  <2>1. /\ generation'["server"] = generation["server"] + 1 /\ generation'["ui"] = generation["ui"]
        /\ generation'["agent"] = generation["agent"]
        /\ "server" \notin retired'
        /\ "agent" \in retired' <=> "agent" \in retired
    BY <1>2, <1>3, <1>7 DEF IdTypes, Services
  <2>2. /\ ~(generation["agent"] < generation["server"])
        /\ header # Nothing => ~(header.generation < generation["server"])
    BY <1>1, <1>2, <1>7, ServiceFacts DEF Behind
  <2>3. QED
    BY <1>2, <1>3, <1>4, <2>1, <2>2, ServiceFacts DEF Orderly, Covered
<1>8. QED
  BY <1>5, <1>6, <1>7 DEF Services

LEMMA RetireStep ==
  ASSUME RotationInv, NEW s \in Services, Retire(s), ~disorderly'
  PROVE  Orderly'
<1>1. ~disorderly /\ ~Behind(s)
  BY Zenon DEF Retire
<1>2. Orderly /\ IdTypes
  BY <1>1 DEF RotationInv
<1>3. generation' = generation /\ token' = token /\ header' = header /\ retired' = retired \cup {s}
  BY DEF Retire
<1>4. /\ token # Nothing => token.generation \in Nat
      /\ header # Nothing => header.generation \in Nat
  BY <1>2 DEF Orderly, Covered
<1>5. s = "agent" => /\ ~(generation["ui"] < generation["agent"])
                     /\ token # Nothing => ~(token.generation < generation["agent"])
  BY <1>1, <1>2, ServiceFacts DEF Behind
<1>6. s = "server" => /\ ~(generation["agent"] < generation["server"])
                      /\ header # Nothing => ~(header.generation < generation["server"])
  BY <1>1, <1>2, ServiceFacts DEF Behind
<1>7. Covered("ui", "agent", token)'
  BY <1>2, <1>3, <1>4, <1>5, ServiceFacts DEF Orderly, Covered
<1>8. Covered("agent", "server", header)'
  BY <1>2, <1>3, <1>4, <1>6, ServiceFacts DEF Orderly, Covered
<1>9. QED
  BY <1>7, <1>8 DEF Orderly

LEMMA RotationStep ==
  ASSUME RotationInv, [IdNext]_idVars
  PROVE  RotationInv'
<1>1. IdTypes /\ IdTypes'
  BY IdTypesStep DEF RotationInv
<1>2. ASSUME NEW families \in SUBSET {"jwt", "hmac"}, NEW environment, Launch(families, environment)
      PROVE  RotationInv'
  <2>1. /\ token = Nothing /\ session = Nothing /\ header = Nothing /\ request = Nothing
        /\ UNCHANGED <<generation, retired, token, session, header, request, disorderly>>
    BY <1>2 DEF Launch, RotationInv, BeforeLaunch, Up
  <2>2. BeforeLaunch' /\ Signed' /\ RefusedFor'
    BY <2>1 DEF BeforeLaunch, Signed, RefusedFor, NoPrevious, Nothing
  <2>3. ~disorderly' => Orderly'
    BY <2>1 DEF RotationInv, Orderly, Covered
  <2>4. QED
    BY <1>1, <2>2, <2>3 DEF RotationInv
<1>3. ASSUME NEW s \in Services, Rotate(s) \/ Retire(s)
      PROVE  RotationInv'
  <2>1. UNCHANGED <<configured, token, session, header, request>> /\ (~disorderly' => ~disorderly)
    BY <1>3, Zenon DEF Rotate, Retire
  <2>2. BeforeLaunch' /\ Signed'
    BY <2>1 DEF RotationInv, BeforeLaunch, Up, Signed, JwtOf, HmacOf
  <2>3. RefusedFor'
    BY <2>1, Zenon DEF RotationInv, RefusedFor, NoPrevious
  <2>4. ~disorderly' => Orderly'
    BY <1>3, RotateStep, RetireStep
  <2>5. QED
    BY <1>1, <2>2, <2>3, <2>4 DEF RotationInv
<1>4. ASSUME NEW claims, Login(claims) PROVE RotationInv'
  <2>1. /\ Up /\ UNCHANGED <<configured, generation, retired, session, header, request, disorderly>>
    BY <1>4 DEF Login
  <2>2. token' = [kind |-> "token", claims |-> claims, secret |-> JwtOf(generation["ui"]),
                  generation |-> generation["ui"]]
    BY <1>1, <1>4, <2>1, Secrets, ServiceFacts DEF Login
  <2>3. token'.secret = JwtOf(token'.generation) /\ token'.generation = generation["ui"]
    BY <2>2
  <2>4. BeforeLaunch' /\ Signed' /\ RefusedFor'
    BY <2>1, <2>3 DEF RotationInv, BeforeLaunch, Up, Signed, JwtOf, HmacOf, RefusedFor, NoPrevious
  <2>5. ~disorderly' => Orderly'
    BY <1>1, <2>1, <2>3, ServiceFacts DEF RotationInv, Orderly, Covered
  <2>6. QED
    BY <1>1, <2>4, <2>5 DEF RotationInv
<1>5. CASE FromJwt
  <2>1. /\ token # Nothing
        /\ UNCHANGED <<configured, generation, retired, token, header, request, disorderly>>
        /\ token.secret \in AcceptedForJwt("agent") => session'.kind = "context"
    BY <1>5 DEF FromJwt
  <2>2. Up
    BY <2>1 DEF RotationInv, BeforeLaunch
  <2>3. RefusedFor'
    <3>1. CASE disorderly
      BY <2>1, <3>1 DEF RefusedFor
    <3>2. CASE ~disorderly
      <4>1. session'.kind = "context"
        BY <2>1, <2>2, <3>2, Accepted
      <4>2. QED
        BY <2>1, <4>1 DEF RotationInv, RefusedFor, NoPrevious
    <3>3. QED
      BY <3>1, <3>2
  <2>4. BeforeLaunch' /\ Signed'
    BY <2>1, <2>2 DEF RotationInv, BeforeLaunch, Up, Signed, JwtOf, HmacOf
  <2>5. ~disorderly' => Orderly'
    BY <2>1 DEF RotationInv, Orderly, Covered
  <2>6. QED
    BY <1>1, <2>3, <2>4, <2>5 DEF RotationInv
<1>6. CASE ToHeader
  <2>1. /\ session.kind = "context"
        /\ UNCHANGED <<configured, generation, retired, token, session, request, disorderly>>
    BY <1>6 DEF ToHeader
  <2>2. Up
    BY <2>1 DEF RotationInv, BeforeLaunch, Nothing
  <2>3. header' = [kind |-> "header", payload |-> session.ctx, claims |-> session.claims,
                   secret |-> HmacOf(generation["agent"]), generation |-> generation["agent"]]
    BY <1>1, <1>6, <2>2, Secrets, ServiceFacts DEF ToHeader
  <2>4. header'.secret = HmacOf(header'.generation) /\ header'.generation = generation["agent"]
    BY <2>3
  <2>5. BeforeLaunch' /\ Signed' /\ RefusedFor'
    BY <2>1, <2>2, <2>4 DEF RotationInv, BeforeLaunch, Up, Signed, JwtOf, HmacOf, RefusedFor, NoPrevious
  <2>6. ~disorderly' => Orderly'
    BY <1>1, <2>1, <2>4, ServiceFacts DEF RotationInv, Orderly, Covered
  <2>7. QED
    BY <1>1, <2>5, <2>6 DEF RotationInv
<1>7. ASSUME NEW fallback, Receive(fallback) PROVE RotationInv'
  <2>1. /\ header # Nothing
        /\ UNCHANGED <<configured, generation, retired, token, session, header, disorderly>>
        /\ header.secret \in AcceptedForHeader("server") => request'.kind = "verified"
    BY <1>7 DEF Receive
  <2>2. Up
    BY <2>1 DEF RotationInv, BeforeLaunch
  <2>3. RefusedFor'
    <3>1. CASE disorderly
      BY <2>1, <3>1 DEF RotationInv, RefusedFor
    <3>2. CASE ~disorderly /\ header.secret \in AcceptedForHeader("server")
      BY <2>1, <3>2 DEF RotationInv, RefusedFor
    <3>3. CASE ~disorderly /\ header.secret \notin AcceptedForHeader("server")
      <4>1. "jwt" \in configured /\ "hmac" \notin configured
            /\ header.generation < generation["server"]
        BY <2>1, <2>2, <3>3, Accepted
      <4>2. request'.kind = "fallback" /\ request'.older
        BY <1>7, <3>3, <4>1 DEF Receive
      <4>3. QED
        BY <2>1, <4>1, <4>2 DEF RotationInv, RefusedFor, NoPrevious
    <3>4. QED
      BY <3>1, <3>2, <3>3
  <2>4. BeforeLaunch' /\ Signed'
    BY <2>1, <2>2 DEF RotationInv, BeforeLaunch, Up, Signed, JwtOf, HmacOf
  <2>5. ~disorderly' => Orderly'
    BY <2>1 DEF RotationInv, Orderly, Covered
  <2>6. QED
    BY <1>1, <2>3, <2>4, <2>5 DEF RotationInv
<1>8. ASSUME UNCHANGED idVars PROVE RotationInv'
  BY <1>8 DEF idVars, RotationInv, IdTypes, BeforeLaunch, Up, Signed, JwtOf, HmacOf, Orderly, Covered,
              RefusedFor, NoPrevious
<1>9. QED
  BY <1>2, <1>3, <1>4, <1>5, <1>6, <1>7, <1>8 DEF IdNext

\* A verified request shows what the claims of the user permit, however old its
\* header is and however often the secrets were rotated since, and nothing is
\* refused but by a redeployment out of order or a header signed with JWT_SECRET
\* alone: for any accounts and claims, and any number of rotations.
THEOREM RotationIsTransparent == IdSpec => []RotationKeepsIdentity
<1>1. IdInit => Identified
  <2>1. SUFFICES ASSUME IdInit PROVE Identified
    OBVIOUS
  <2>2. session = Nothing /\ header = Nothing /\ request = Nothing /\ Nothing.kind = "nothing"
    BY <2>1 DEF IdInit, Nothing
  <2>3. QED
    BY <2>2 DEF Identified
<1>2. Identified /\ RotationInv => RotationKeepsIdentity
  BY ShownIsPermitted DEF Identified, RotationInv, RefusedFor, RotationKeepsIdentity
<1>3. IdSpec => [](Identified /\ RotationInv)
  BY <1>1, RotationInit, IdentifiedStep, RotationStep, PTL DEF IdSpec
<1>4. QED
  BY <1>2, <1>3, PTL

-----------------------------------------------------------------------------
(* introspect_schema: what was read of the database was true at some time  *)
(* of the run, and lacks nothing that was true all along; each query makes *)
(* that so of what it reads, and a commit leaves it so.                    *)

\* What each kind of fact says.
LEMMA FactsSay ==
  ASSUME NEW db
  PROVE  /\ \A t : <<"table", t>> \in Facts(db) <=> t \in DOMAIN db.tables /\ Columns(db, t) # {}
         /\ \A t : <<"comment", t>> \in Facts(db) <=> t \in DOMAIN db.tables /\ db.tables[t].comment
         /\ \A t, c : <<"column", t, c>> \in Facts(db) <=> t \in DOMAIN db.tables /\ c \in Columns(db, t)
         /\ \A t, k : <<"key", t, k>> \in Facts(db) <=> t \in DOMAIN db.tables /\ k # {} /\ k = db.tables[t].key
         /\ \A t, c, n : <<"enum", t, c, n>> \in Facts(db) <=>
              /\ t \in DOMAIN db.tables /\ c \in Columns(db, t) \cap EnumNames
              /\ n \in 1 .. EnumThreshold /\ n = Distinct(db, t, c)
         /\ \A fk : <<"foreign", fk>> \in Facts(db) <=> fk \in FetchForeignKeys(db)
<1>1. \A f : f \in Facts(db) <=> \/ \E t \in DOMAIN db.tables : f \in FactsOf(db, t)
                                 \/ f \in {<<"foreign", fk>> : fk \in FetchForeignKeys(db)}
  BY DEF Facts, FetchForeignKeys
<1>2. \A t, f : f \in FactsOf(db, t) <=>
        \/ \E c \in Columns(db, t) : f = <<"column", t, c>>
        \/ \E c \in Columns(db, t) \cap EnumNames :
             Distinct(db, t, c) \in 1 .. EnumThreshold /\ f = <<"enum", t, c, Distinct(db, t, c)>>
        \/ Columns(db, t) # {} /\ f = <<"table", t>>
        \/ db.tables[t].comment /\ f = <<"comment", t>>
        \/ db.tables[t].key # {} /\ f = <<"key", t, db.tables[t].key>>
  BY DEF FactsOf
<1>3. \A f : f \in Facts(db) <=>
        \/ \E t \in DOMAIN db.tables :
             \/ \E c \in Columns(db, t) : f = <<"column", t, c>>
             \/ \E c \in Columns(db, t) \cap EnumNames :
                  Distinct(db, t, c) \in 1 .. EnumThreshold /\ f = <<"enum", t, c, Distinct(db, t, c)>>
             \/ Columns(db, t) # {} /\ f = <<"table", t>>
             \/ db.tables[t].comment /\ f = <<"comment", t>>
             \/ db.tables[t].key # {} /\ f = <<"key", t, db.tables[t].key>>
        \/ \E fk \in FetchForeignKeys(db) : f = <<"foreign", fk>>
  BY <1>1, <1>2
<1>4. \A t : <<"table", t>> \in Facts(db) <=> t \in DOMAIN db.tables /\ Columns(db, t) # {}
  BY <1>3
<1>5. \A t : <<"comment", t>> \in Facts(db) <=> t \in DOMAIN db.tables /\ db.tables[t].comment
  BY <1>3
<1>6. \A t, c : <<"column", t, c>> \in Facts(db) <=> t \in DOMAIN db.tables /\ c \in Columns(db, t)
  BY <1>3
<1>7. \A t, k : <<"key", t, k>> \in Facts(db) <=> t \in DOMAIN db.tables /\ k # {} /\ k = db.tables[t].key
  BY <1>3
<1>8. \A t, c, n : <<"enum", t, c, n>> \in Facts(db) <=>
              /\ t \in DOMAIN db.tables /\ c \in Columns(db, t) \cap EnumNames
              /\ n \in 1 .. EnumThreshold /\ n = Distinct(db, t, c)
  BY <1>3
<1>9. \A fk : <<"foreign", fk>> \in Facts(db) <=> fk \in FetchForeignKeys(db)
  BY <1>3
<1>10. QED
  BY <1>4, <1>5, <1>6, <1>7, <1>8, <1>9


\* A fact is of one of these kinds.
LEMMA KindsOfFact ==
  ASSUME NEW db, NEW f \in Facts(db)
  PROVE  \/ \E t : f = <<"table", t>>
         \/ \E t : f = <<"comment", t>>
         \/ \E t, c : f = <<"column", t, c>>
         \/ \E t, k : f = <<"key", t, k>>
         \/ \E t, c, n : f = <<"enum", t, c, n>>
         \/ \E fk : f = <<"foreign", fk>>
<1>1. CASE \E t \in DOMAIN db.tables : f \in FactsOf(db, t)
  BY <1>1 DEF FactsOf
<1>2. CASE f \in {<<"foreign", fk>> : fk \in FetchForeignKeys(db)}
  BY <1>2
<1>3. QED
  BY <1>1, <1>2 DEF Facts, FetchForeignKeys

\* The records of an introspection.
IsRun(run) ==
  run = [pc |-> run.pc, sample |-> run.sample, commits |-> run.commits, tables |-> run.tables,
         columns |-> run.columns, keys |-> run.keys, foreign |-> run.foreign, probes |-> run.probes,
         failed |-> run.failed, enums |-> run.enums, prompt |-> run.prompt]

\* What was read of the tables, the columns, the keys was true at some time and
\* lacks nothing that was true all along; stated with the facts.
AfterTables == introspection.pc \in {"columns", "keys", "foreign", "sampling"}
AfterColumns == introspection.pc \in {"keys", "foreign", "sampling"}
AfterKeys == introspection.pc \in {"foreign", "sampling"}
AfterForeign == introspection.pc = "sampling"

DatabaseIsNow ==
  /\ database \in Databases
  /\ IsRun(introspection)
  /\ Running => /\ held \subseteq Facts(database) /\ Facts(database) \subseteq seen
                /\ \A t, c, n : <<"enum", t, c, n>> \in held => <<"column", t, c>> \in held

TablesHonest ==
  AfterTables =>
    /\ \A t \in introspection.tables : <<"comment", t>> \in seen
    /\ \A t : <<"comment", t>> \in held => t \in introspection.tables

ColumnsHonest ==
  AfterColumns =>
    /\ introspection.columns = {<<tc[1], tc[2]>> : tc \in introspection.columns}
    /\ \A tc \in introspection.columns :
         <<"column", tc[1], tc[2]>> \in seen /\ <<"table", tc[1]>> \in seen
    /\ \A t, c : <<"column", t, c>> \in held => <<t, c>> \in introspection.columns
    /\ \A t : \/ <<"table", t>> \in held
              \/ \E k : <<"key", t, k>> \in held
            => t \in {tc[1] : tc \in introspection.columns}

KeysHonest ==
  AfterKeys =>
    /\ \A key \in introspection.keys : <<"key", key[1], key[2]>> \in seen
    /\ \A t, k : <<"key", t, k>> \in held => <<t, k>> \in introspection.keys

ForeignHonest ==
  AfterForeign =>
    /\ \A fk \in introspection.foreign : <<"foreign", fk>> \in seen
    /\ \A fk : <<"foreign", fk>> \in held => fk \in introspection.foreign

\* A probe is still to come, or failed, or brought the values.
EnumsHonest ==
  /\ Running /\ ~AfterForeign => introspection.enums = {}
  /\ AfterForeign =>
    /\ \A tc \in introspection.probes : tc[2] \in EnumNames
    /\ \A e \in introspection.enums : e[3] > 0 => <<"enum", e[1], e[2], e[3]>> \in seen
    /\ \A t, c, n : (<<"enum", t, c, n>> \in held /\ introspection.sample) =>
         \/ <<t, c>> \in introspection.probes \cup introspection.failed
         \/ <<t, c, n>> \in introspection.enums

SchemaInv ==
  /\ DatabaseIsNow /\ TablesHonest /\ ColumnsHonest /\ KeysHonest /\ ForeignHonest /\ EnumsHonest
  /\ PromptIsHonest

LEMMA NotRunningFacts ==
  ASSUME NEW pc
  PROVE  NotRunning(pc).pc = pc /\ IsRun(NotRunning(pc))
BY DEF NotRunning, IsRun

LEMMA SchemaInitFact == SchemaInit => SchemaInv
<1> SUFFICES ASSUME SchemaInit PROVE SchemaInv
  OBVIOUS
<1>1. database \in Databases
  BY DatabasesAssumption DEF SchemaInit
<1>2. introspection.pc = "idle" /\ IsRun(introspection)
  BY NotRunningFacts DEF SchemaInit
<1>3. QED
  BY <1>1, <1>2 DEF SchemaInv, DatabaseIsNow, TablesHonest, ColumnsHonest, KeysHonest, ForeignHonest,
       EnumsHonest, PromptIsHonest, Running, AfterTables, AfterColumns, AfterKeys, AfterForeign

\* A run that is over, and has stated nothing, has nothing to answer for.
LEMMA IdleFact ==
  ASSUME database' \in Databases, NEW pc \in {"idle", "raised"}, introspection' = NotRunning(pc)
  PROVE  SchemaInv'
<1>1. introspection'.pc \in {"idle", "raised"} /\ IsRun(introspection)'
  BY NotRunningFacts DEF IsRun
<1>2. QED
  BY <1>1 DEF SchemaInv, DatabaseIsNow, TablesHonest, ColumnsHonest, KeysHonest, ForeignHonest,
       EnumsHonest, PromptIsHonest, Running, AfterTables, AfterColumns, AfterKeys, AfterForeign

LEMMA StartsStep ==
  ASSUME SchemaInv, NEW sampleEnums \in BOOLEAN, Starts(sampleEnums)
  PROVE  SchemaInv'
<1>1. introspection'.pc = "tables" /\ introspection'.enums = {} /\ IsRun(introspection)'
  BY DEF Starts, NotRunning, IsRun
<1>2. \A t, c, n : <<"enum", t, c, n>> \in Facts(database) => <<"column", t, c>> \in Facts(database)
  BY FactsSay
<1>3. QED
  BY <1>1, <1>2 DEF Starts, SchemaInv, DatabaseIsNow, TablesHonest, ColumnsHonest, KeysHonest, ForeignHonest,
       EnumsHonest, PromptIsHonest, Running, AfterTables, AfterColumns, AfterKeys, AfterForeign

\* A commit shrinks what was true all along and adds to what was true once.
LEMMA CommitStep ==
  ASSUME SchemaInv, NEW db \in Databases, Commit(db)
  PROVE  SchemaInv'
<1>1. CASE ~Running
  <2>1. introspection' = NotRunning("idle") /\ database' = db
    BY <1>1 DEF Commit
  <2>2. QED
    BY <2>1, IdleFact
<1>2. CASE Running
  <2>1. /\ introspection' = [introspection EXCEPT !.commits = @ + 1]
        /\ held' = held \cap Facts(db) /\ seen' = seen \cup Facts(db) /\ database' = db
    BY <1>2 DEF Commit
  <2>2. /\ introspection'.pc = introspection.pc /\ introspection'.sample = introspection.sample
        /\ introspection'.tables = introspection.tables /\ introspection'.columns = introspection.columns
        /\ introspection'.keys = introspection.keys /\ introspection'.foreign = introspection.foreign
        /\ introspection'.probes = introspection.probes /\ introspection'.failed = introspection.failed
        /\ introspection'.enums = introspection.enums /\ IsRun(introspection)'
    BY <2>1 DEF SchemaInv, DatabaseIsNow, IsRun
  <2>3. held' \subseteq held /\ seen \subseteq seen'
    BY <2>1
  <2>4. DatabaseIsNow'
    <3>1. \A t, c, n : <<"enum", t, c, n>> \in Facts(db) => <<"column", t, c>> \in Facts(db)
      BY FactsSay
    <3>2. QED
      BY <1>2, <2>1, <2>2, <3>1 DEF SchemaInv, DatabaseIsNow
  <2>5. TablesHonest'
    BY <2>2, <2>3 DEF SchemaInv, TablesHonest, AfterTables
  <2>6. ColumnsHonest'
    BY <2>2, <2>3 DEF SchemaInv, ColumnsHonest, AfterColumns
  <2>7. KeysHonest'
    BY <2>2, <2>3 DEF SchemaInv, KeysHonest, AfterKeys
  <2>8. ForeignHonest'
    BY <2>2, <2>3 DEF SchemaInv, ForeignHonest, AfterForeign
  <2>9. EnumsHonest'
    <3>1. Running' = Running /\ AfterForeign' = AfterForeign
      BY <2>2 DEF Running, AfterForeign
    <3>2. QED
      BY <2>2, <2>3, <3>1 DEF SchemaInv, EnumsHonest
  <2>10. PromptIsHonest'
    BY <1>2, <2>2 DEF PromptIsHonest, Running
  <2>11. QED
    BY <2>4, <2>5, <2>6, <2>7, <2>8, <2>9, <2>10 DEF SchemaInv
<1>3. QED
  BY <1>1, <1>2

\* What a step of the introspection leaves alone.
LEMMA QuietStep ==
  ASSUME SchemaInv, UNCHANGED <<database, held, seen>>, IsRun(introspection)', Running, Running'
  PROVE  DatabaseIsNow' /\ held \subseteq Facts(database) /\ Facts(database) \subseteq seen
BY DEF SchemaInv, DatabaseIsNow

LEMMA ReadsTablesStep ==
  ASSUME SchemaInv, ReadsTables
  PROVE  SchemaInv'
<1>1. /\ introspection'.pc = "columns" /\ introspection'.tables = FetchTables(database)
      /\ introspection'.enums = introspection.enums /\ IsRun(introspection)'
  BY DEF ReadsTables, SchemaInv, DatabaseIsNow, IsRun
<1>2. Running /\ Running' /\ UNCHANGED <<database, held, seen>>
  BY <1>1 DEF ReadsTables, Running
<1>3. DatabaseIsNow' /\ held \subseteq Facts(database) /\ Facts(database) \subseteq seen
  BY <1>1, <1>2, QuietStep
<1>4. \A t : <<"comment", t>> \in Facts(database) <=> t \in FetchTables(database)
  BY FactsSay DEF FetchTables
<1>5. TablesHonest'
  BY <1>1, <1>2, <1>3, <1>4 DEF TablesHonest
<1>6. EnumsHonest'
  BY <1>1, <1>2 DEF SchemaInv, EnumsHonest, AfterForeign, ReadsTables
<1>7. QED
  BY <1>1, <1>3, <1>5, <1>6 DEF SchemaInv, ColumnsHonest, KeysHonest, ForeignHonest,
       PromptIsHonest, AfterColumns, AfterKeys, AfterForeign

LEMMA ReadsColumnsStep ==
  ASSUME SchemaInv, ReadsColumns
  PROVE  SchemaInv'
<1>1. /\ introspection'.pc = "keys" /\ introspection'.tables = introspection.tables
      /\ introspection'.columns = FetchColumns(database)
      /\ introspection'.enums = introspection.enums /\ IsRun(introspection)'
  BY DEF ReadsColumns, SchemaInv, DatabaseIsNow, IsRun
<1>2. Running /\ Running' /\ UNCHANGED <<database, held, seen>>
  BY <1>1 DEF ReadsColumns, Running
<1>3. DatabaseIsNow' /\ held \subseteq Facts(database) /\ Facts(database) \subseteq seen
  BY <1>1, <1>2, QuietStep
<1>4. \A tc : tc \in FetchColumns(database) <=>
        \E t \in DOMAIN database.tables : \E c \in Columns(database, t) : tc = <<t, c>>
  BY DEF FetchColumns
<1>5. \A t, c : <<"column", t, c>> \in Facts(database) <=> <<t, c>> \in FetchColumns(database)
  <2>1. \A t, c : <<t, c>> \in FetchColumns(database) <=> t \in DOMAIN database.tables /\ c \in Columns(database, t)
    BY <1>4
  <2>2. QED
    BY <2>1, FactsSay
<1>6. \A tc \in FetchColumns(database) :
        /\ tc = <<tc[1], tc[2]>>
        /\ <<"column", tc[1], tc[2]>> \in Facts(database) /\ <<"table", tc[1]>> \in Facts(database)
  BY <1>4, FactsSay
<1>7. ASSUME NEW t, <<"table", t>> \in held \/ \E k : <<"key", t, k>> \in held
      PROVE  t \in {tc[1] : tc \in FetchColumns(database)}
  <2>1. t \in DOMAIN database.tables /\ Columns(database, t) # {}
    <3>1. CASE <<"table", t>> \in held
      BY <3>1, <1>3, FactsSay
    <3>2. CASE \E k : <<"key", t, k>> \in held
      <4>1. PICK k : <<"key", t, k>> \in Facts(database)
        BY <3>2, <1>3
      <4>2. t \in DOMAIN database.tables /\ database.tables[t].key # {}
        BY <4>1, FactsSay
      <4>3. database \in Databases
        BY DEF SchemaInv, DatabaseIsNow
      <4>4. QED
        BY <4>2, <4>3, DatabasesAssumption DEF Columns
    <3>3. QED
      BY <1>7, <3>1, <3>2
  <2>2. PICK c \in Columns(database, t) : TRUE
    BY <2>1
  <2>3. <<t, c>> \in FetchColumns(database)
    BY <2>1, <1>4
  <2>4. QED
    BY <2>3
<1>8. ColumnsHonest'
  <2>1. introspection'.columns = {<<tc[1], tc[2]>> : tc \in introspection'.columns}
    BY <1>1, <1>6
  <2>2. \A tc \in introspection'.columns : <<"column", tc[1], tc[2]>> \in seen' /\ <<"table", tc[1]>> \in seen'
    BY <1>1, <1>2, <1>3, <1>6
  <2>3. \A t, c : <<"column", t, c>> \in held' => <<t, c>> \in introspection'.columns
    BY <1>1, <1>2, <1>3, <1>5
  <2>4. \A t : <<"table", t>> \in held' \/ (\E k : <<"key", t, k>> \in held') =>
           t \in {tc[1] : tc \in introspection'.columns}
    BY <1>1, <1>2, <1>7
  <2>5. QED
    BY <2>1, <2>2, <2>3, <2>4 DEF ColumnsHonest
<1>9. TablesHonest'
  BY <1>1, <1>2 DEF SchemaInv, TablesHonest, AfterTables, ReadsColumns
<1>10. EnumsHonest'
  BY <1>1, <1>2 DEF SchemaInv, EnumsHonest, AfterForeign, ReadsColumns
<1>11. QED
  BY <1>1, <1>3, <1>8, <1>9, <1>10 DEF SchemaInv, KeysHonest, ForeignHonest,
       PromptIsHonest, AfterKeys, AfterForeign

LEMMA ReadsPrimaryKeysStep ==
  ASSUME SchemaInv, ReadsPrimaryKeys
  PROVE  SchemaInv'
<1>1. /\ introspection'.pc = "foreign" /\ introspection'.tables = introspection.tables
      /\ introspection'.columns = introspection.columns
      /\ introspection'.keys = FetchPrimaryKeys(database)
      /\ introspection'.enums = introspection.enums /\ IsRun(introspection)'
  BY DEF ReadsPrimaryKeys, SchemaInv, DatabaseIsNow, IsRun
<1>2. Running /\ Running' /\ UNCHANGED <<database, held, seen>>
  BY <1>1 DEF ReadsPrimaryKeys, Running
<1>3. DatabaseIsNow' /\ held \subseteq Facts(database) /\ Facts(database) \subseteq seen
  BY <1>1, <1>2, QuietStep
<1>4. \A t, k : <<"key", t, k>> \in Facts(database) <=> <<t, k>> \in FetchPrimaryKeys(database)
  <2> SUFFICES ASSUME NEW t, NEW k
               PROVE  <<"key", t, k>> \in Facts(database) <=> <<t, k>> \in FetchPrimaryKeys(database)
    OBVIOUS
  <2>1. <<"key", t, k>> \in Facts(database) <=>
          t \in DOMAIN database.tables /\ k # {} /\ k = database.tables[t].key
    BY FactsSay
  <2>2. <<t, k>> \in FetchPrimaryKeys(database) <=>
          t \in DOMAIN database.tables /\ k # {} /\ k = database.tables[t].key
    BY DEF FetchPrimaryKeys
  <2>3. QED
    BY <2>1, <2>2
<1>5. \A key \in FetchPrimaryKeys(database) : <<"key", key[1], key[2]>> \in Facts(database)
  <2> SUFFICES ASSUME NEW key \in FetchPrimaryKeys(database)
               PROVE  <<"key", key[1], key[2]>> \in Facts(database)
    OBVIOUS
  <2>1. PICK t : key = <<t, database.tables[t].key>>
    BY DEF FetchPrimaryKeys
  <2>2. QED
    BY <1>4, <2>1
<1>6. KeysHonest'
  BY <1>1, <1>2, <1>3, <1>4, <1>5 DEF KeysHonest
<1>7. TablesHonest' /\ ColumnsHonest'
  BY <1>1, <1>2 DEF SchemaInv, TablesHonest, ColumnsHonest, AfterTables, AfterColumns, ReadsPrimaryKeys
<1>8. EnumsHonest'
  BY <1>1, <1>2 DEF SchemaInv, EnumsHonest, AfterForeign, ReadsPrimaryKeys
<1>9. QED
  BY <1>1, <1>3, <1>6, <1>7, <1>8 DEF SchemaInv, ForeignHonest, PromptIsHonest, AfterForeign

\* Every column that may hold an enum is still to be probed.
LEMMA ReadsForeignKeysStep ==
  ASSUME SchemaInv, ReadsForeignKeys
  PROVE  SchemaInv'
<1>1. /\ introspection'.pc = "sampling" /\ introspection'.tables = introspection.tables
      /\ introspection'.columns = introspection.columns /\ introspection'.keys = introspection.keys
      /\ introspection'.foreign = FetchForeignKeys(database)
      /\ introspection'.sample = introspection.sample
      /\ introspection'.probes = {tc \in introspection.columns : introspection.sample /\ tc[2] \in EnumNames}
      /\ introspection'.enums = introspection.enums /\ IsRun(introspection)'
  BY DEF ReadsForeignKeys, LooksLikeEnumCandidate, SchemaInv, DatabaseIsNow, IsRun
<1>2. Running /\ Running' /\ UNCHANGED <<database, held, seen>> /\ introspection.pc = "foreign"
  BY <1>1 DEF ReadsForeignKeys, Running
<1>3. DatabaseIsNow' /\ held \subseteq Facts(database) /\ Facts(database) \subseteq seen
  BY <1>1, <1>2, QuietStep
<1>4. \A fk : <<"foreign", fk>> \in Facts(database) <=> fk \in FetchForeignKeys(database)
  BY FactsSay
<1>5. ForeignHonest'
  BY <1>1, <1>2, <1>3, <1>4 DEF ForeignHonest
<1>6. TablesHonest' /\ ColumnsHonest' /\ KeysHonest'
  BY <1>1, <1>2 DEF SchemaInv, TablesHonest, ColumnsHonest, KeysHonest, AfterTables, AfterColumns, AfterKeys
<1>7. introspection'.enums = {}
  BY <1>1, <1>2 DEF SchemaInv, EnumsHonest, AfterForeign
<1>8. ASSUME NEW t, NEW c, NEW n, <<"enum", t, c, n>> \in held', introspection'.sample
      PROVE  <<t, c>> \in introspection'.probes
  <2>1. c \in EnumNames
    BY <1>2, <1>3, <1>8, FactsSay
  <2>2. <<"column", t, c>> \in held
    BY <1>2, <1>8 DEF SchemaInv, DatabaseIsNow
  <2>3. <<t, c>> \in introspection.columns
    BY <1>2, <2>2 DEF SchemaInv, ColumnsHonest, AfterColumns
  <2>4. QED
    BY <1>1, <1>8, <2>1, <2>3
<1>9. EnumsHonest'
  BY <1>1, <1>7, <1>8 DEF EnumsHonest, AfterForeign
<1>10. QED
  BY <1>1, <1>3, <1>5, <1>6, <1>9 DEF SchemaInv, PromptIsHonest

\* A probe that answers brings the values the column has now: had they been
\* the same all along, they are the ones.
LEMMA SamplesStep ==
  ASSUME SchemaInv, NEW tc \in introspection.probes, NEW fails \in BOOLEAN, Samples(tc, fails)
  PROVE  SchemaInv'
<1> DEFINE values == SampleEnumValues(database, tc[1], tc[2])
<1>1. /\ introspection'.pc = "sampling" /\ introspection'.tables = introspection.tables
      /\ introspection'.columns = introspection.columns /\ introspection'.keys = introspection.keys
      /\ introspection'.foreign = introspection.foreign /\ introspection'.sample = introspection.sample
      /\ introspection'.probes = introspection.probes \ {tc}
      /\ introspection'.failed = IF fails THEN introspection.failed \cup {tc} ELSE introspection.failed
      /\ introspection'.enums = IF fails THEN introspection.enums ELSE introspection.enums \cup values
      /\ IsRun(introspection)'
  BY DEF Samples, SchemaInv, DatabaseIsNow, IsRun
<1>2. Running /\ Running' /\ UNCHANGED <<database, held, seen>> /\ introspection.pc = "sampling"
  BY <1>1 DEF Samples, Running
<1>3. DatabaseIsNow' /\ held \subseteq Facts(database) /\ Facts(database) \subseteq seen
  BY <1>1, <1>2, QuietStep
<1>4. TablesHonest' /\ ColumnsHonest' /\ KeysHonest' /\ ForeignHonest'
  BY <1>1, <1>2 DEF SchemaInv, TablesHonest, ColumnsHonest, KeysHonest, ForeignHonest,
       AfterTables, AfterColumns, AfterKeys, AfterForeign
<1>5. tc[2] \in EnumNames
  BY <1>2 DEF SchemaInv, EnumsHonest, AfterForeign
<1>6. ASSUME NEW e \in values, e[3] > 0
      PROVE  <<"enum", e[1], e[2], e[3]>> \in seen
  <2>1. /\ tc[1] \in DOMAIN database.tables /\ tc[2] \in Columns(database, tc[1])
        /\ Distinct(database, tc[1], tc[2]) <= EnumThreshold
        /\ e = <<tc[1], tc[2], Distinct(database, tc[1], tc[2])>>
    BY DEF SampleEnumValues
  <2>2. e[1] = tc[1] /\ e[2] = tc[2] /\ e[3] = Distinct(database, tc[1], tc[2])
    BY <2>1
  <2>3. Distinct(database, tc[1], tc[2]) \in Nat
    BY <2>1, DatabasesAssumption DEF SchemaInv, DatabaseIsNow, Distinct, Columns
  <2>4. e[3] \in 1 .. EnumThreshold
    BY <1>6, <2>1, <2>2, <2>3, DatabasesAssumption
  <2>5. <<"enum", e[1], e[2], e[3]>> \in Facts(database)
    BY <1>5, <2>1, <2>2, <2>4, FactsSay
  <2>6. QED
    BY <1>3, <2>5
<1>7. ASSUME NEW n, <<"enum", tc[1], tc[2], n>> \in held
      PROVE  <<tc[1], tc[2], n>> \in values
  <2>1. /\ tc[1] \in DOMAIN database.tables /\ tc[2] \in Columns(database, tc[1])
        /\ n \in 1 .. EnumThreshold /\ n = Distinct(database, tc[1], tc[2])
    BY <1>3, <1>7, FactsSay
  <2>2. QED
    BY <2>1, DatabasesAssumption DEF SampleEnumValues
<1> HIDE DEF values
<1>8. EnumsHonest'
  <2>1. \A probe \in introspection'.probes : probe[2] \in EnumNames
    BY <1>1, <1>2 DEF SchemaInv, EnumsHonest, AfterForeign
  <2>2. \A e \in introspection'.enums : e[3] > 0 => <<"enum", e[1], e[2], e[3]>> \in seen'
    BY <1>1, <1>2, <1>6 DEF SchemaInv, EnumsHonest, AfterForeign
  <2>3. ASSUME NEW t, NEW c, NEW n, <<"enum", t, c, n>> \in held', introspection'.sample
        PROVE  \/ <<t, c>> \in introspection'.probes \cup introspection'.failed
               \/ <<t, c, n>> \in introspection'.enums
    <3>1. \/ <<t, c>> \in introspection.probes \cup introspection.failed
          \/ <<t, c, n>> \in introspection.enums
      BY <1>1, <1>2, <2>3 DEF SchemaInv, EnumsHonest, AfterForeign
    <3>2. CASE <<t, c>> = tc /\ ~fails
      <4>1. t = tc[1] /\ c = tc[2]
        BY <3>2
      <4>2. <<tc[1], tc[2], n>> \in values
        BY <1>2, <1>7, <2>3, <4>1
      <4>3. QED
        BY <1>1, <3>2, <4>1, <4>2
    <3>3. CASE ~(<<t, c>> = tc /\ ~fails)
      BY <1>1, <3>1, <3>3
    <3>4. QED
      BY <3>2, <3>3
  <2>4. AfterForeign'
    BY <1>1 DEF AfterForeign
  <2>5. QED
    BY <2>1, <2>2, <2>3, <2>4 DEF EnumsHonest
<1>9. QED
  BY <1>1, <1>3, <1>4, <1>8 DEF SchemaInv, PromptIsHonest

\* The prompt states what was read, and all of it that was true all along.
LEMMA ContextReturnsStep ==
  ASSUME SchemaInv, NEW file \in Relationships, Returns(file)
  PROVE  SchemaInv'
<1> DEFINE relationships == LoadRelationshipsYaml(file)
<1> DEFINE ctx == SchemaContext(introspection, relationships)
<1> DEFINE withColumns == {tc[1] : tc \in introspection.columns}
<1>1. database' = database /\ held' = held /\ seen' = seen /\ database' \in Databases
  BY DEF Returns, SchemaInv, DatabaseIsNow
<1>2. introspection.pc = "sampling" /\ introspection.probes = {}
  BY DEF Returns
<1>3. CASE relationships.raises
  <2>1. introspection' = NotRunning("raised")
    BY <1>3 DEF Returns
  <2>2. QED
    BY <1>1, <2>1, IdleFact
<1>4. CASE ~relationships.raises
  <2>1. introspection' = [introspection EXCEPT !.pc = "done", !.prompt = FormatForPrompt(ctx)]
    BY <1>4 DEF Returns
  <2>2. /\ introspection'.pc = "done" /\ introspection'.prompt = FormatForPrompt(ctx)
        /\ introspection'.sample = introspection.sample /\ introspection'.failed = introspection.failed
        /\ IsRun(introspection)'
    BY <2>1 DEF SchemaInv, DatabaseIsNow, IsRun
  <2>3. /\ ctx.columns = introspection.columns /\ ctx.enums = introspection.enums
        /\ ctx.foreign_keys = introspection.foreign
        /\ ctx.descriptions = withColumns \cap introspection.tables
        /\ ctx.primary_keys = {key \in introspection.keys : key[1] \in withColumns}
    BY DEF SchemaContext
  <2> HIDE DEF ctx
  <2>4. \A line : line \in FormatForPrompt(ctx) =>
          \/ \E n : line = <<"glossary", n>>
          \/ \E n : line = <<"perspective", n>>
          \/ \E n : line = <<"join", n>>
          \/ \E tc \in introspection.columns : line = <<"table", tc[1]>>
          \/ \E t \in introspection.tables : line = <<"comment", t>>
          \/ \E key \in introspection.keys : line = <<"key", key[1], key[2]>>
          \/ \E tc \in introspection.columns : line = <<"column", tc[1], tc[2]>>
          \/ \E e \in introspection.enums : e[3] > 0 /\ line = <<"enum", e[1], e[2], e[3]>>
          \/ \E fk \in introspection.foreign : line = <<"foreign", fk>>
    BY <2>3 DEF FormatForPrompt
  <2>5. ASSUME NEW line \in FormatForPrompt(ctx), line[1] \notin {"glossary", "perspective", "join"}
        PROVE  line \in seen
    <3>1. ~(\E n : line = <<"glossary", n>> \/ line = <<"perspective", n>> \/ line = <<"join", n>>)
      BY <2>5
    <3>2. CASE \E tc \in introspection.columns : line = <<"table", tc[1]>> \/ line = <<"column", tc[1], tc[2]>>
      BY <3>2, <1>2 DEF SchemaInv, ColumnsHonest, AfterColumns
    <3>3. CASE \E t \in introspection.tables : line = <<"comment", t>>
      BY <3>3, <1>2 DEF SchemaInv, TablesHonest, AfterTables
    <3>4. CASE \E key \in introspection.keys : line = <<"key", key[1], key[2]>>
      BY <3>4, <1>2 DEF SchemaInv, KeysHonest, AfterKeys
    <3>5. CASE \E e \in introspection.enums : e[3] > 0 /\ line = <<"enum", e[1], e[2], e[3]>>
      BY <3>5, <1>2 DEF SchemaInv, EnumsHonest, AfterForeign
    <3>6. CASE \E fk \in introspection.foreign : line = <<"foreign", fk>>
      BY <3>6, <1>2 DEF SchemaInv, ForeignHonest, AfterForeign
    <3>7. QED
      BY <2>4, <3>1, <3>2, <3>3, <3>4, <3>5, <3>6
  <2>6. ASSUME NEW fact \in held, fact[1] = "comment" => <<"table", fact[2]>> \in held,
               fact[1] = "enum" => /\ introspection.sample
                                   /\ <<fact[2], fact[3]>> \notin introspection.failed
        PROVE  fact \in FormatForPrompt(ctx) /\ fact[1] \notin {"glossary", "perspective", "join"}
    <3>1. fact \in Facts(database)
      BY <1>2 DEF SchemaInv, DatabaseIsNow, Running
    <3>2. CASE \E t : fact = <<"table", t>>
      <4>1. PICK t : fact = <<"table", t>>
        BY <3>2
      <4>2. t \in withColumns
        BY <1>2, <4>1 DEF SchemaInv, ColumnsHonest, AfterColumns
      <4>3. \E tc \in ctx.columns : fact = <<"table", tc[1]>>
        BY <2>3, <4>1, <4>2
      <4>4. QED
        BY <4>1, <4>3 DEF FormatForPrompt
    <3>3. CASE \E t : fact = <<"comment", t>>
      <4>1. PICK t : fact = <<"comment", t>>
        BY <3>3
      <4>2. fact[1] = "comment" /\ fact[2] = t
        BY <4>1
      <4>3. t \in withColumns
        BY <1>2, <2>6, <4>2 DEF SchemaInv, ColumnsHonest, AfterColumns
      <4>4. t \in introspection.tables
        BY <1>2, <4>1 DEF SchemaInv, TablesHonest, AfterTables
      <4>5. QED
        BY <2>3, <4>1, <4>3, <4>4 DEF FormatForPrompt
    <3>4. CASE \E t, c : fact = <<"column", t, c>>
      <4>1. PICK t, c : fact = <<"column", t, c>>
        BY <3>4
      <4>2. <<t, c>> \in ctx.columns
        BY <1>2, <2>3, <4>1 DEF SchemaInv, ColumnsHonest, AfterColumns
      <4>3. \E tc \in ctx.columns : fact = <<"column", tc[1], tc[2]>>
        BY <4>1, <4>2
      <4>4. QED
        BY <4>1, <4>3 DEF FormatForPrompt
    <3>5. CASE \E t, k : fact = <<"key", t, k>>
      <4>1. PICK t, k : fact = <<"key", t, k>>
        BY <3>5
      <4>2. t \in withColumns
        BY <1>2, <4>1 DEF SchemaInv, ColumnsHonest, AfterColumns
      <4>3. <<t, k>> \in introspection.keys
        BY <1>2, <4>1 DEF SchemaInv, KeysHonest, AfterKeys
      <4>4. \E key \in ctx.primary_keys : fact = <<"key", key[1], key[2]>>
        BY <2>3, <4>1, <4>2, <4>3
      <4>5. QED
        BY <4>1, <4>4 DEF FormatForPrompt
    <3>6. CASE \E t, c, n : fact = <<"enum", t, c, n>>
      <4>1. PICK t, c, n : fact = <<"enum", t, c, n>>
        BY <3>6
      <4>2. fact[1] = "enum" /\ fact[2] = t /\ fact[3] = c
        BY <4>1
      <4>3. <<t, c, n>> \in introspection.enums
        BY <1>2, <2>6, <4>1, <4>2 DEF SchemaInv, EnumsHonest, AfterForeign
      <4>4. n > 0
        BY <3>1, <4>1, FactsSay
      <4>5. \E e \in {f \in ctx.enums : f[3] > 0} : fact = <<"enum", e[1], e[2], e[3]>>
        BY <2>3, <4>1, <4>3, <4>4
      <4>6. QED
        BY <4>1, <4>5 DEF FormatForPrompt
    <3>7. CASE \E fk : fact = <<"foreign", fk>>
      <4>1. PICK fk : fact = <<"foreign", fk>>
        BY <3>7
      <4>2. fk \in ctx.foreign_keys
        BY <1>2, <2>3, <4>1 DEF SchemaInv, ForeignHonest, AfterForeign
      <4>3. QED
        BY <4>1, <4>2 DEF FormatForPrompt
    <3>8. QED
      BY <3>1, <3>2, <3>3, <3>4, <3>5, <3>6, <3>7, KindsOfFact
  <2>7. PromptIsHonest'
    BY <1>1, <2>2, <2>5, <2>6 DEF PromptIsHonest
  <2>8. ~Running' /\ ~AfterTables' /\ ~AfterColumns' /\ ~AfterKeys' /\ ~AfterForeign'
    BY <2>2 DEF Running, AfterTables, AfterColumns, AfterKeys, AfterForeign
  <2>9. QED
    BY <1>1, <2>2, <2>7, <2>8 DEF SchemaInv, DatabaseIsNow, TablesHonest, ColumnsHonest, KeysHonest,
         ForeignHonest, EnumsHonest
<1>5. QED
  BY <1>3, <1>4

LEMMA SchemaStep ==
  ASSUME SchemaInv, [SchemaNext]_schemaVars
  PROVE  SchemaInv'
<1>1. ASSUME NEW sampleEnums \in BOOLEAN, Starts(sampleEnums) PROVE SchemaInv'
  BY <1>1, StartsStep
<1>2. CASE ReadsTables
  BY <1>2, ReadsTablesStep
<1>3. CASE ReadsColumns
  BY <1>3, ReadsColumnsStep
<1>4. CASE ReadsPrimaryKeys
  BY <1>4, ReadsPrimaryKeysStep
<1>5. CASE ReadsForeignKeys
  BY <1>5, ReadsForeignKeysStep
<1>6. ASSUME NEW tc \in introspection.probes, NEW fails \in BOOLEAN, Samples(tc, fails) PROVE SchemaInv'
  BY <1>6, SamplesStep
<1>7. CASE QueryFails
  <2>1. database' \in Databases /\ introspection' = NotRunning("raised")
    BY <1>7 DEF QueryFails, SchemaInv, DatabaseIsNow
  <2>2. QED
    BY <2>1, IdleFact
<1>8. ASSUME NEW file \in Relationships, Returns(file) PROVE SchemaInv'
  BY <1>8, ContextReturnsStep
<1>9. ASSUME NEW db \in Databases, Commit(db) PROVE SchemaInv'
  BY <1>9, CommitStep
<1>10. CASE UNCHANGED schemaVars
  BY <1>10 DEF schemaVars, SchemaInv, DatabaseIsNow, IsRun, TablesHonest, ColumnsHonest, KeysHonest,
       ForeignHonest, EnumsHonest, PromptIsHonest, Running, AfterTables, AfterColumns, AfterKeys, AfterForeign
<1>11. QED
  BY <1>1, <1>2, <1>3, <1>4, <1>5, <1>6, <1>7, <1>8, <1>9, <1>10 DEF SchemaNext

\* Whatever is committed between the queries of an introspection, and however
\* often, its prompt states nothing of the database that was not true at some
\* time of the run, and everything that was true all along.
THEOREM PromptIsAlwaysHonest == SchemaSpec => []PromptIsHonest
<1>1. SchemaInit => SchemaInv
  BY SchemaInitFact
<1>2. SchemaInv /\ [SchemaNext]_schemaVars => SchemaInv'
  BY SchemaStep
<1>3. SchemaInv => PromptIsHonest
  BY DEF SchemaInv
<1>4. QED
  BY <1>1, <1>2, <1>3, PTL DEF SchemaSpec

=============================================================================
