------------------------ MODULE RegistryClientProofs ------------------------
(***************************************************************************)
(* lookup() never returns data older than StaleMax + RequestTimeout, for   *)
(* every number of services and lookups and every setting of the timers.   *)
(*                                                                         *)
(* The code bounds the age of an entry, not of the data in it.  The two    *)
(* are related by an invariant of everything that can become a result: the *)
(* cache, the entries held by lookups in flight, and the answers under way *)
(* (Sound, and the ages of answers against the waits of their requests).   *)
(***************************************************************************)
EXTENDS RegistryClientProperties, CircuitBreakerProofs

Sound(e) == e = NoEntry \/ e.dataAge <= e.age + RequestTimeout

InTime(o) == o.kind = "found" => o.dataAge < MaxDataAge

EntriesSound ==
  /\ \A n \in Names : Sound(cache[n])
  /\ \A i \in Lookups : Sound(snapshot[i])

AnswersInTime ==
  /\ \A i \in Lookups : at[i] = "answered" => answer[i].dataAge <= waited[i]
  /\ task = "answered" => listing.dataAge <= taskWait

IInv == TypeOK /\ EntriesSound /\ AnswersInTime /\ BoundedStaleness

-----------------------------------------------------------------------------
(* Facts about entries and outcomes. *)

LEMMA EntryIsNotNoEntry == NoEntry \notin Entry
BY RegistryAssumption DEF Entry, MaxDataAge

\* An answer that travelled within the timeout makes a sound entry.
LEMMA NewEntryFact ==
  ASSUME NEW v \in Versions, NEW d \in 0..RequestTimeout
  PROVE  /\ NewEntry(v, d) \in Entry /\ Sound(NewEntry(v, d))
         /\ Found(NewEntry(v, d)) \in Outcome /\ InTime(Found(NewEntry(v, d)))
BY RegistryAssumption DEF NewEntry, Entry, Sound, Found, Outcome, InTime, MaxDataAge

\* Time keeps an entry sound: both ages grow, up to their saturation.
LEMMA OlderFact ==
  ASSUME NEW e \in Cached, Sound(e)
  PROVE  Older(e) \in Cached /\ Sound(Older(e))
<1>1. CASE e = NoEntry
  BY <1>1 DEF Older, Sound, Cached
<1>2. CASE e # NoEntry
  <2>1. e \in Entry
    BY <1>2 DEF Cached
  <2> DEFINE a == UpTo(e.age, StaleMax)
             d == UpTo(e.dataAge, MaxDataAge)
  <2>2. Older(e) = [e EXCEPT !.age = a, !.dataAge = d]
    BY <1>2 DEF Older
  <2>3. a \in 0..StaleMax /\ d \in 0..MaxDataAge /\ d <= a + RequestTimeout
    BY <1>2, <2>1, RegistryAssumption DEF Entry, UpTo, MaxDataAge, Sound
  <2>4. Older(e) \in Entry /\ Older(e).age = a /\ Older(e).dataAge = d
    BY <2>1, <2>2, <2>3 DEF Entry
  <2>5. QED
    BY <2>3, <2>4 DEF Cached, Sound
<1>3. QED
  BY <1>1, <1>2

\* What may be returned from the cache is within the bound.
LEMMA CachedResultFact ==
  ASSUME NEW e \in Cached, Sound(e)
  PROVE  /\ StaleOrRaise(e) \in Outcome /\ InTime(StaleOrRaise(e))
         /\ Fresh(e) => Found(e) \in Outcome /\ InTime(Found(e))
<1>1. Usable(e) \/ Fresh(e) => Found(e) \in Outcome /\ InTime(Found(e))
  <2> SUFFICES ASSUME Usable(e) \/ Fresh(e)
               PROVE  Found(e) \in Outcome /\ InTime(Found(e))
    OBVIOUS
  <2>1. e \in Entry /\ e # NoEntry /\ e.age < StaleMax
    BY RegistryAssumption DEF Usable, Fresh, Cached, Entry
  <2>2. e.dataAge < MaxDataAge /\ e.dataAge \in 0..MaxDataAge /\ e.value \in Versions
    BY <2>1, RegistryAssumption DEF Entry, Sound, MaxDataAge
  <2>3. QED
    BY <2>2 DEF Found, Outcome, InTime
<1>2. NotFound \in Outcome /\ InTime(NotFound)
  BY RegistryAssumption DEF NotFound, Outcome, InTime, MaxDataAge
<1>3. QED
  BY <1>1, <1>2 DEF StaleOrRaise

-----------------------------------------------------------------------------

LEMMA InitIInv == Init => IInv
<1> SUFFICES ASSUME Init PROVE IInv
  OBVIOUS
<1>1. cb \in Breaker
  BY ClosedBreakerFact DEF Init
<1>2. Blank \in Answer /\ Pending \in Outcome
  BY RegistryAssumption DEF Blank, Pending, Answer, Outcome, MaxDataAge
<1>3. NoListing \in [names : [Names -> Versions \cup {Gone, Garbled}], dataAge : 0..RequestTimeout]
  BY RegistryAssumption DEF NoListing
<1>4. TypeOK
  BY <1>1, <1>2, <1>3, RegistryAssumption DEF Init, TypeOK, Cached, Out
<1>5. EntriesSound /\ AnswersInTime
  BY DEF Init, EntriesSound, AnswersInTime, Sound
<1>6. BoundedStaleness
  BY DEF Init, BoundedStaleness, Pending
<1>7. QED
  BY <1>4, <1>5, <1>6 DEF IInv

\* A lookup that ends with a good outcome disturbs nothing else.
LEMMA EndsFact ==
  ASSUME IInv, NEW i \in Lookups, NEW o \in Outcome, InTime(o), Ends(i, o),
         cb' \in Breaker, asked' \in [Lookups -> Names],
         cache' \in [Names -> Cached], \A n \in Names : Sound(cache'[n])
  PROVE  IInv'
<1>1. Blank \in Answer /\ 0 \in 0..RequestTimeout /\ NoEntry \in Cached
  BY RegistryAssumption DEF Blank, Answer, Cached
<1>2. /\ at' \in [Lookups -> Out \cup {"idle"}]
      /\ result' \in [Lookups -> Outcome]
      /\ snapshot' \in [Lookups -> Cached]
      /\ waited' \in [Lookups -> 0..RequestTimeout]
      /\ answer' \in [Lookups -> Answer]
  BY <1>1 DEF IInv, TypeOK, Ends
<1>3. TypeOK'
  BY <1>2 DEF IInv, TypeOK, Ends, refreshVars, envVars
<1>4. EntriesSound'
  BY DEF IInv, TypeOK, EntriesSound, Ends, Sound
<1>5. AnswersInTime'
  BY DEF IInv, TypeOK, AnswersInTime, Ends, refreshVars
<1>6. BoundedStaleness'
  BY DEF IInv, TypeOK, BoundedStaleness, Ends, InTime
<1>7. QED
  BY <1>3, <1>4, <1>5, <1>6 DEF IInv

LEMMA NextIInv == IInv /\ [Next]_vars => IInv'
<1> SUFFICES ASSUME IInv, [Next]_vars PROVE IInv'
  OBVIOUS
<1>1. ASSUME NEW i \in Lookups, NEW n \in Names, LookupAtOnce(i, n) PROVE IInv'
  <2>1. cache[n] \in Cached /\ Sound(cache[n])
    BY DEF IInv, TypeOK, EntriesSound
  <2> DEFINE o == IF Fresh(cache[n]) THEN Found(cache[n]) ELSE StaleOrRaise(cache[n])
  <2>2. o \in Outcome /\ InTime(o)
    BY <2>1, CachedResultFact
  <2>3. Ends(i, o) /\ cb' = cb /\ cache' = cache /\ asked' = [asked EXCEPT ![i] = n]
    BY <1>1 DEF LookupAtOnce
  <2>4. /\ cb' \in Breaker /\ asked' \in [Lookups -> Names]
        /\ cache' \in [Names -> Cached] /\ \A m \in Names : Sound(cache'[m])
    BY <2>3 DEF IInv, TypeOK, EntriesSound
  <2> HIDE DEF o
  <2>5. QED
    BY <2>2, <2>3, <2>4, EndsFact
<1>2. ASSUME NEW i \in Lookups, NEW n \in Names, LookupAsks(i, n) PROVE IInv'
  <2>1. cache[n] \in Cached /\ Sound(cache[n])
    BY DEF IInv, TypeOK, EntriesSound
  <2>2. Pending \in Outcome /\ Pending.kind # "found"
    BY RegistryAssumption DEF Pending, Outcome, MaxDataAge
  <2>3. TypeOK'
    BY <1>2, <2>1, <2>2 DEF LookupAsks, IInv, TypeOK, Out, refreshVars, envVars
  <2>4. EntriesSound'
    BY <1>2, <2>1 DEF LookupAsks, IInv, TypeOK, EntriesSound
  <2>5. AnswersInTime' /\ BoundedStaleness'
    BY <1>2, <2>2 DEF LookupAsks, IInv, TypeOK, AnswersInTime, BoundedStaleness, refreshVars
  <2>6. QED
    BY <2>3, <2>4, <2>5 DEF IInv
<1>3. ASSUME NEW i \in Lookups, LookupFound(i) PROVE IInv'
  <2> DEFINE v == answer[i].value
             d == answer[i].dataAge
             e == NewEntry(v, d)
  <2>1. v \in Versions /\ d \in 0..RequestTimeout
    BY <1>3 DEF LookupFound, IInv, TypeOK, Answer
  <2>2. e \in Entry /\ Sound(e) /\ Found(e) \in Outcome /\ InTime(Found(e))
    BY <2>1, NewEntryFact
  <2>3. cache' = [cache EXCEPT ![asked[i]] = e] /\ Ends(i, Found(e))
        /\ cb' = RecordSuccess(cb) /\ asked' = asked
    BY <1>3 DEF LookupFound
  <2>4. cb' \in Breaker
    BY <2>3, RecordSuccessFact DEF IInv, TypeOK
  <2> HIDE DEF e
  <2>5. cache' \in [Names -> Cached] /\ \A n \in Names : Sound(cache'[n])
    BY <2>2, <2>3 DEF IInv, TypeOK, EntriesSound, Cached
  <2>6. asked' \in [Lookups -> Names]
    BY <2>3 DEF IInv, TypeOK
  <2>7. QED
    BY <2>2, <2>3, <2>4, <2>5, <2>6, EndsFact
<1>4. ASSUME NEW i \in Lookups, LookupRejected(i) PROVE IInv'
  <2> DEFINE o == IF answer[i].value = Gone THEN NotFound ELSE Invalid
  <2>1. o \in Outcome /\ InTime(o)
    BY RegistryAssumption DEF NotFound, Invalid, Outcome, InTime, MaxDataAge
  <2>2. Ends(i, o) /\ cb' = cb /\ cache' = cache /\ asked' = asked
    BY <1>4 DEF LookupRejected
  <2>3. /\ cb' \in Breaker /\ asked' \in [Lookups -> Names]
        /\ cache' \in [Names -> Cached] /\ \A m \in Names : Sound(cache'[m])
    BY <2>2 DEF IInv, TypeOK, EntriesSound
  <2> HIDE DEF o
  <2>4. QED
    BY <2>1, <2>2, <2>3, EndsFact
<1>5. ASSUME NEW i \in Lookups, LookupFails(i) PROVE IInv'
  <2>1. snapshot[i] \in Cached /\ Sound(snapshot[i])
    BY DEF IInv, TypeOK, EntriesSound
  <2>2. StaleOrRaise(snapshot[i]) \in Outcome /\ InTime(StaleOrRaise(snapshot[i]))
    BY <2>1, CachedResultFact
  <2>3. cb' = RecordFailure(cb) /\ Ends(i, StaleOrRaise(snapshot[i]))
        /\ cache' = cache /\ asked' = asked
    BY <1>5 DEF LookupFails
  <2>4. cb' \in Breaker
    BY <2>3, RecordFailureFact DEF IInv, TypeOK
  <2>5. /\ asked' \in [Lookups -> Names]
        /\ cache' \in [Names -> Cached] /\ \A m \in Names : Sound(cache'[m])
    BY <2>3 DEF IInv, TypeOK, EntriesSound
  <2>6. QED
    BY <2>2, <2>3, <2>4, <2>5, EndsFact
<1>6. ASSUME NEW i \in Lookups, ServesLookup(i) PROVE IInv'
  <2>1. PICK v \in {registry[asked[i]]} \cup (IF health = "incompatible" THEN {Garbled} ELSE {}) :
          answer' = [answer EXCEPT ![i] = [value |-> v, dataAge |-> 0]]
    BY <1>6 DEF ServesLookup
  <2>2. [value |-> v, dataAge |-> 0] \in Answer
    BY <2>1, RegistryAssumption DEF IInv, TypeOK, Answer
  <2>3. TypeOK'
    BY <1>6, <2>1, <2>2 DEF ServesLookup, IInv, TypeOK, Out, refreshVars, envVars
  <2>4. AnswersInTime'
    BY <1>6, <2>1, RegistryAssumption
       DEF ServesLookup, IInv, TypeOK, AnswersInTime, refreshVars
  <2>5. EntriesSound' /\ BoundedStaleness'
    BY <1>6 DEF ServesLookup, IInv, EntriesSound, BoundedStaleness
  <2>6. QED
    BY <2>3, <2>4, <2>5 DEF IInv
<1>7. ASSUME Sleep \/ (task' = "off" /\ left' = 0 /\ taskWait' = 0 /\ listing' = NoListing),
             UNCHANGED <<cb, lookupVars, envVars>>,
             cache' \in [Names -> Cached], \A n \in Names : Sound(cache'[n])
      PROVE  IInv'
  <2>1. NoListing \in [names : [Names -> Versions \cup {Gone, Garbled}], dataAge : 0..RequestTimeout]
    BY RegistryAssumption DEF NoListing
  <2>2. task' \in {"off", "sleeping"} /\ left' \in 0..Refresh /\ taskWait' \in 0..RequestTimeout
        /\ listing' = NoListing
    BY <1>7, RegistryAssumption DEF Sleep
  <2>3. TypeOK'
    BY <1>7, <2>1, <2>2 DEF IInv, TypeOK, lookupVars, envVars
  <2>4. EntriesSound' /\ AnswersInTime' /\ BoundedStaleness'
    BY <1>7, <2>2 DEF IInv, EntriesSound, AnswersInTime, BoundedStaleness, lookupVars
  <2>5. QED
    BY <2>3, <2>4 DEF IInv
<1>8. CASE StartRefresh \/ StopRefresh \/ RefreshFails
  <2>1. /\ Sleep \/ (task' = "off" /\ left' = 0 /\ taskWait' = 0 /\ listing' = NoListing)
        /\ UNCHANGED <<cb, lookupVars, envVars>> /\ cache' = cache
    BY <1>8 DEF StartRefresh, StopRefresh, RefreshFails
  <2>2. cache' \in [Names -> Cached] /\ \A n \in Names : Sound(cache'[n])
    BY <2>1 DEF IInv, TypeOK, EntriesSound
  <2>3. QED
    BY <1>7, <2>1, <2>2
<1>9. CASE RefreshStores
  <2>1. PICK stored \in SUBSET {n \in Names : Validates(n)} :
          cache' = [n \in Names |-> IF n \in stored
                                      THEN NewEntry(listing.names[n], listing.dataAge)
                                      ELSE cache[n]]
    BY <1>9 DEF RefreshStores
  <2>2. ASSUME NEW n \in Names
        PROVE  cache'[n] \in Cached /\ Sound(cache'[n])
    <3>1. CASE n \in stored
      <4>1. listing.names[n] \in Versions /\ listing.dataAge \in 0..RequestTimeout
        BY <3>1 DEF Validates, IInv, TypeOK
      <4>2. cache'[n] = NewEntry(listing.names[n], listing.dataAge)
        BY <2>1, <3>1
      <4>3. QED
        BY <4>1, <4>2, NewEntryFact DEF Cached
    <3>2. CASE n \notin stored
      BY <2>1, <3>2 DEF IInv, TypeOK, EntriesSound
    <3>3. QED
      BY <3>1, <3>2
  <2>3. Sleep /\ UNCHANGED <<cb, lookupVars, envVars>>
    BY <1>9 DEF RefreshStores
  <2>4. cache' \in [Names -> Cached]
    BY <2>1, <2>2
  <2>5. QED
    BY <1>7, <2>2, <2>3, <2>4
<1>10. CASE RefreshAsks
  BY <1>10 DEF RefreshAsks, IInv, TypeOK, EntriesSound, AnswersInTime, BoundedStaleness,
               lookupVars, envVars, Out
<1>11. CASE ServesListing
  <2>1. PICK bad \in SUBSET Names :
          listing' = [names |-> [n \in Names |->
                        IF n \in bad /\ registry[n] # Gone THEN Garbled ELSE registry[n]],
                      dataAge |-> 0]
    BY <1>11 DEF ServesListing
  <2>2. listing' \in [names : [Names -> Versions \cup {Gone, Garbled}], dataAge : 0..RequestTimeout]
    BY <2>1, RegistryAssumption DEF IInv, TypeOK
  <2>3. TypeOK'
    BY <1>11, <2>2 DEF ServesListing, IInv, TypeOK, lookupVars, envVars, Out
  <2>4. AnswersInTime'
    BY <1>11, <2>1, RegistryAssumption
       DEF ServesListing, IInv, TypeOK, AnswersInTime, lookupVars
  <2>5. EntriesSound' /\ BoundedStaleness'
    BY <1>11 DEF ServesListing, IInv, EntriesSound, BoundedStaleness, lookupVars
  <2>6. QED
    BY <2>3, <2>4, <2>5 DEF IInv
<1>12. CASE RegistryChanges \/ HealthChanges
  <2>1. /\ registry' \in [Names -> Versions \cup {Gone}]
        /\ health' \in {"up", "down", "incompatible"}
    BY <1>12 DEF RegistryChanges, HealthChanges, IInv, TypeOK
  <2>2. UNCHANGED <<cb, cache, lookupVars, refreshVars>>
    BY <1>12 DEF RegistryChanges, HealthChanges
  <2>3. QED
    BY <2>1, <2>2 DEF IInv, TypeOK, EntriesSound, AnswersInTime, BoundedStaleness,
                      lookupVars, refreshVars
<1>13. CASE Tick
  <2>1. cb' \in Breaker
    BY <1>13, ElapseFact DEF Tick, IInv, TypeOK
  <2>2. ASSUME NEW n \in Names PROVE cache'[n] \in Cached /\ Sound(cache'[n])
    BY <1>13, OlderFact DEF Tick, IInv, TypeOK, EntriesSound
  <2>3. ASSUME NEW i \in Lookups PROVE snapshot'[i] \in Cached /\ Sound(snapshot'[i])
    BY <1>13, OlderFact DEF Tick, IInv, TypeOK, EntriesSound
  <2>4. cache' \in [Names -> Cached] /\ snapshot' \in [Lookups -> Cached]
    BY <1>13, <2>2, <2>3 DEF Tick
  <2>5. waited' \in [Lookups -> 0..RequestTimeout] /\ taskWait' \in 0..RequestTimeout
        /\ left' \in 0..Refresh
    BY <1>13, RegistryAssumption DEF Tick, IInv, TypeOK
  <2>6. ASSUME NEW i \in Lookups
        PROVE  /\ answer'[i] \in Answer
               /\ at'[i] = "answered" => answer'[i].dataAge <= waited'[i]
    <3>1. CASE at[i] = "answered"
      <4>1. answer[i].dataAge <= waited[i] /\ waited[i] < RequestTimeout
            /\ answer[i] \in Answer /\ waited[i] \in 0..RequestTimeout
        BY <1>13, <3>1 DEF Tick, IInv, TypeOK, AnswersInTime, Out
      <4>2. answer'[i] = [answer[i] EXCEPT !.dataAge = answer[i].dataAge + 1]
            /\ waited'[i] = waited[i] + 1
        BY <1>13, <3>1 DEF Tick, Out
      <4>3. QED
        BY <4>1, <4>2, RegistryAssumption DEF Answer
    <3>2. CASE at[i] # "answered"
      BY <1>13, <3>2 DEF Tick, IInv, TypeOK
    <3>3. QED
      BY <3>1, <3>2
  <2>7. answer' \in [Lookups -> Answer]
    BY <1>13, <2>6 DEF Tick
  <2>8. /\ listing' \in [names : [Names -> Versions \cup {Gone, Garbled}], dataAge : 0..RequestTimeout]
        /\ task' = "answered" => listing'.dataAge <= taskWait'
    <3>1. CASE task = "answered"
      <4>1. listing.dataAge <= taskWait /\ taskWait < RequestTimeout
            /\ taskWait \in 0..RequestTimeout
            /\ listing \in [names : [Names -> Versions \cup {Gone, Garbled}],
                            dataAge : 0..RequestTimeout]
        BY <1>13, <3>1 DEF Tick, IInv, TypeOK, AnswersInTime, Out
      <4>2. listing' = [listing EXCEPT !.dataAge = listing.dataAge + 1]
            /\ taskWait' = taskWait + 1
        BY <1>13, <3>1 DEF Tick, Out
      <4>3. QED
        BY <4>1, <4>2, RegistryAssumption
    <3>2. CASE task # "answered"
      BY <1>13, <3>2 DEF Tick, IInv, TypeOK
    <3>3. QED
      BY <3>1, <3>2
  <2>9. TypeOK'
    BY <1>13, <2>1, <2>4, <2>5, <2>7, <2>8 DEF Tick, IInv, TypeOK, envVars
  <2>10. EntriesSound' /\ AnswersInTime'
    BY <2>2, <2>3, <2>6, <2>8 DEF EntriesSound, AnswersInTime
  <2>11. BoundedStaleness'
    BY <1>13 DEF Tick, IInv, BoundedStaleness
  <2>12. QED
    BY <2>9, <2>10, <2>11 DEF IInv
<1>14. CASE UNCHANGED vars
  BY <1>14 DEF vars, lookupVars, refreshVars, envVars, IInv, TypeOK, EntriesSound,
               AnswersInTime, BoundedStaleness
<1>15. QED
  BY <1>1, <1>2, <1>3, <1>4, <1>5, <1>6, <1>8, <1>9, <1>10, <1>11, <1>12, <1>13, <1>14
     DEF Next, LookupStarts, LookupEnds

LEMMA Invariance == Spec => []IInv
BY InitIInv, NextIInv, PTL DEF Spec

-----------------------------------------------------------------------------

\* The client's state is well-formed; in particular no request outlives its
\* timeout and no age exceeds its saturation.
THEOREM TypeCorrect == Spec => []TypeOK
<1>1. IInv => TypeOK
  BY DEF IInv
<1>2. QED
  BY Invariance, <1>1, PTL

\* lookup() never returns data older than the staleness limit plus one request.
THEOREM StalenessIsBounded == Spec => []BoundedStaleness
<1>1. IInv => BoundedStaleness
  BY DEF IInv
<1>2. QED
  BY Invariance, <1>1, PTL

-----------------------------------------------------------------------------
(* StaleOnlyInOutage *)

\* A look at the outcome of one lookup across a step.
StaleInOutage(i) ==
  result'[i] # result[i] /\ result'[i].kind = "found"
    /\ result'[i].dataAge >= Refresh + RequestTimeout
  => cb'.failures > 0

\* A lookup that ends says nothing of the others.
LEMMA EndsOutageFact ==
  ASSUME IInv, NEW i \in Lookups, NEW o, Ends(i, o),
         o.kind = "found" /\ o.dataAge >= Refresh + RequestTimeout => cb'.failures > 0
  PROVE  \A j \in Lookups : StaleInOutage(j)
BY DEF Ends, StaleInOutage, IInv, TypeOK

LEMMA OutageStep == IInv /\ [Next]_vars => \A j \in Lookups : StaleInOutage(j)
<1> SUFFICES ASSUME IInv, [Next]_vars PROVE \A j \in Lookups : StaleInOutage(j)
  OBVIOUS
<1>0. cb \in Breaker
  BY DEF IInv, TypeOK
<1>1. ASSUME NEW i \in Lookups, NEW n \in Names, LookupAtOnce(i, n)
      PROVE  \A j \in Lookups : StaleInOutage(j)
  <2>1. cache[n] \in Cached /\ Sound(cache[n])
    BY DEF IInv, TypeOK, EntriesSound
  <2>2. CASE Fresh(cache[n])
    <3>1. Ends(i, Found(cache[n]))
      BY <1>1, <2>2 DEF LookupAtOnce
    <3>2. cache[n] \in Entry /\ cache[n].dataAge <= cache[n].age + RequestTimeout
          /\ cache[n].age < Refresh
      BY <2>1, <2>2 DEF Fresh, Cached, Sound
    <3>3. ~(Found(cache[n]).dataAge >= Refresh + RequestTimeout)
      BY <3>2, RegistryAssumption DEF Found, Entry, MaxDataAge
    <3>4. QED
      BY <3>1, <3>3, EndsOutageFact
  <2>3. CASE ~Fresh(cache[n])
    <3>1. IsOpen(cb) /\ cb' = cb /\ Ends(i, StaleOrRaise(cache[n]))
      BY <1>1, <2>3 DEF LookupAtOnce
    <3>2. cb'.failures > 0
      BY <1>0, <3>1, BreakerAssumption DEF IsOpen, Breaker
    <3>3. QED
      BY <3>1, <3>2, EndsOutageFact
  <2>4. QED
    BY <2>2, <2>3
<1>2. ASSUME NEW i \in Lookups, NEW n \in Names, LookupAsks(i, n)
      PROVE  \A j \in Lookups : StaleInOutage(j)
  BY <1>2 DEF LookupAsks, StaleInOutage, IInv, TypeOK, Pending
<1>3. ASSUME NEW i \in Lookups, LookupFound(i) PROVE \A j \in Lookups : StaleInOutage(j)
  <2> DEFINE e == NewEntry(answer[i].value, answer[i].dataAge)
  <2>1. Ends(i, Found(e))
    BY <1>3 DEF LookupFound
  <2>2. answer[i].dataAge \in 0..RequestTimeout
    BY DEF IInv, TypeOK, Answer
  <2>3. ~(Found(e).dataAge >= Refresh + RequestTimeout)
    BY <2>2, RegistryAssumption DEF Found, NewEntry
  <2> HIDE DEF e
  <2>4. QED
    BY <2>1, <2>3, EndsOutageFact
<1>4. ASSUME NEW i \in Lookups, LookupRejected(i) PROVE \A j \in Lookups : StaleInOutage(j)
  <2>1. PICK o \in {NotFound, Invalid} : Ends(i, o)
    BY <1>4 DEF LookupRejected
  <2>2. o.kind # "found"
    BY DEF NotFound, Invalid
  <2>3. QED
    BY <2>1, <2>2, EndsOutageFact
<1>5. ASSUME NEW i \in Lookups, LookupFails(i) PROVE \A j \in Lookups : StaleInOutage(j)
  <2>1. cb' = RecordFailure(cb) /\ Ends(i, StaleOrRaise(snapshot[i]))
    BY <1>5 DEF LookupFails
  <2>2. cb'.failures > 0
    BY <1>0, <2>1, BreakerAssumption DEF RecordFailure, Breaker
  <2>3. QED
    BY <2>1, <2>2, EndsOutageFact
<1>6. CASE UNCHANGED result
  BY <1>6 DEF StaleInOutage
<1>7. \/ UNCHANGED result
      \/ \E i \in Lookups : LookupEnds(i) \/ \E n \in Names : LookupAtOnce(i, n) \/ LookupAsks(i, n)
  BY DEF Next, vars, lookupVars, LookupStarts, ServesLookup, StartRefresh, StopRefresh, RefreshAsks,
         RefreshStores, RefreshFails, ServesListing, RegistryChanges, HealthChanges, Tick
<1>8. QED
  BY <1>1, <1>2, <1>3, <1>4, <1>5, <1>6, <1>7 DEF LookupEnds

\* lookup() falls back on an entry past its refresh time only while the breaker
\* has a failure on record.
THEOREM StaleMeansOutage == Spec => StaleOnlyInOutage
<1>1. IInv /\ [Next]_vars => [\A i \in Lookups :
        result'[i] # result[i] /\ result'[i].kind = "found"
          /\ result'[i].dataAge >= Refresh + RequestTimeout
        => cb'.failures > 0]_vars
  BY OutageStep DEF StaleInOutage
<1>2. QED
  BY Invariance, <1>1, PTL DEF Spec, StaleOnlyInOutage

=============================================================================
