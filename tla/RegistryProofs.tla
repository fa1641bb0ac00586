--------------------------- MODULE RegistryProofs ---------------------------
(***************************************************************************)
(* Proofs about the dataset registry, for any set of files, tabs and       *)
(* objects and any timeout.                                                *)
(***************************************************************************)
EXTENDS Registry, TLAPS

(* An object identity that is not in use has no finaliser scheduled, and   *)
(* one in use has a file.                                                  *)
ObjectsAreWhole ==
  \A o \in Objects :
    /\ stage[o] = "unborn" => fin[o] = "none"
    /\ stage[o] # "unborn" => uri[o] \in Uris

(* A tab that is not idle knows the page it asked for. *)
BusyHasPage ==
  \A c \in Clients : pc[c] # "idle" => page[c] \in Uris

(* While a key is condemned, all its watchers came after the idle check. *)
WatchersAreLate ==
  condemned # NoName => \A c \in Clients : Watching(c, condemned) => c \in late

(* The inductive invariant. *)
IInv ==
  /\ TypeOK
  /\ ObjectsAreWhole
  /\ BusyHasPage
  /\ ServedIsLive
  /\ ServedOwnData
  /\ WatchedIsFresh
  /\ WatchersAreLate

-----------------------------------------------------------------------------
(* A page's key is a key. *)
LEMMA NameIsName ==
  ASSUME NEW u \in Uris
  PROVE  NameOf[u] \in Names
BY DEF Names

(* Type correctness: one step per action of the server, tabs and collector. *)
LEMMA TypeOKStep ==
  TypeOK /\ ObjectsAreWhole /\ BusyHasPage /\ ServedIsLive /\ [Next]_vars => TypeOK'
<1> SUFFICES ASSUME TypeOK, ObjectsAreWhole, BusyHasPage, ServedIsLive, [Next]_vars
             PROVE  TypeOK'
  OBVIOUS
<1> USE RegistryAssumption
<1>1. ASSUME NEW c \in Clients, NEW u \in Uris, Request(c, u)
      PROVE  TypeOK'
  BY <1>1 DEF TypeOK, Request, objects
<1>2. ASSUME NEW c \in Clients, Hit(c)
      PROVE  TypeOK'
  <2>1. NameOf[page[c]] \in Names
    BY <1>2, NameIsName DEF Hit, BusyHasPage
  <2>2. age' \in [Names -> 0 .. Timeout + 1]
    BY <1>2, <2>1 DEF TypeOK, Hit, Touch, Name
  <2>3. late' \subseteq Clients
    BY <1>2 DEF TypeOK, Hit, Arrive
  <2>4. pc' \in [Clients -> {"idle", "hit", "miss", "polling", "viewing", "stopped"}]
    BY <1>2 DEF TypeOK, Hit, Arrive
  <2>5. beat' \in [Clients -> BOOLEAN]
    BY <1>2 DEF TypeOK, Hit, Arrive
  <2> QED BY <1>2, <2>2, <2>3, <2>4, <2>5 DEF TypeOK, Hit, Arrive
<1>3. ASSUME NEW c \in Clients, Miss(c)
      PROVE  TypeOK'
  <2>1. NameOf[page[c]] \in Names /\ page[c] \in Uris
    BY <1>3, NameIsName DEF Miss, BusyHasPage
  <2>2. PICK o \in Objects :
          /\ \E s \in {"spawned"} \cup Loaded : stage' = [stage EXCEPT ![o] = s]
          /\ uri' = [uri EXCEPT ![o] = page[c]]
          /\ registry' = [registry EXCEPT ![NameOf[page[c]]] = o]
    BY <1>3 DEF Miss, Name
  <2>3. /\ registry' \in [Names -> Objects \cup {NoObj}]
        /\ uri' \in [Objects -> Uris \cup {NoUri}]
        /\ stage' \in [Objects -> Stages]
    BY <2>1, <2>2 DEF TypeOK, Stages, Loading, Loaded
  <2>4. age' \in [Names -> 0 .. Timeout + 1]
    BY <1>3, <2>1 DEF TypeOK, Miss, Touch, Name
  <2>5. late' \subseteq Clients
    BY <1>3 DEF TypeOK, Miss, Arrive
  <2>6. /\ pc' \in [Clients -> {"idle", "hit", "miss", "polling", "viewing", "stopped"}]
        /\ beat' \in [Clients -> BOOLEAN]
    BY <1>3 DEF TypeOK, Miss, Arrive
  <2> QED BY <1>3, <2>3, <2>4, <2>5, <2>6 DEF TypeOK, Miss, Arrive
<1>4. ASSUME NEW c \in Clients, Poll(c)
      PROVE  TypeOK'
  <2>1. NameOf[page[c]] \in Names
    BY <1>4, NameIsName DEF Poll, BusyHasPage
  <2> DEFINE o == registry[NameOf[page[c]]]
  <2>2. CASE o = NoObj
    BY <1>4, <2>2 DEF TypeOK, Poll, Name, objects
  <2>3. CASE o # NoObj
    <3>1. o \in Objects /\ uri[o] \in Uris
      BY <2>1, <2>3 DEF TypeOK, ServedIsLive, Registered
    <3> QED BY <1>4, <2>3, <3>1 DEF TypeOK, Poll, Name, objects
  <2> QED BY <2>2, <2>3
<1>5. ASSUME NEW c \in Clients, Heartbeat(c)
      PROVE  TypeOK'
  <2>1. NameOf[page[c]] \in Names
    BY <1>5, NameIsName DEF Heartbeat, Connected, BusyHasPage
  <2>2. age' \in [Names -> 0 .. Timeout + 1]
    BY <1>5, <2>1 DEF TypeOK, Heartbeat, Touch, Name
  <2>3. beat' \in [Clients -> BOOLEAN]
    BY <1>5 DEF TypeOK, Heartbeat
  <2> QED BY <1>5, <2>2, <2>3 DEF TypeOK, Heartbeat
<1>6. ASSUME NEW c \in Clients, Leave(c)
      PROVE  TypeOK'
  BY <1>6 DEF TypeOK, Leave, objects
<1>7. ASSUME NEW o \in Objects, OpenFile(o)
      PROVE  TypeOK'
  BY <1>7 DEF TypeOK, OpenFile, tabs, Stages, Loading, Loaded
<1>8. ASSUME NEW o \in Objects, OpenFails(o)
      PROVE  TypeOK'
  BY <1>8 DEF TypeOK, OpenFails, tabs, Stages, Loading, Loaded
<1>9. ASSUME NEW o \in Objects, ReadEvents(o)
      PROVE  TypeOK'
  <2>1. stage' \in [Objects -> Stages]
    BY <1>9 DEF TypeOK, ReadEvents, Stages, Loading, Loaded
  <2>2. age' \in [Names -> 0 .. Timeout + 1]
    BY <1>9 DEF TypeOK, ReadEvents, Touch
  <2> QED BY <1>9, <2>1, <2>2 DEF TypeOK, ReadEvents, tabs
<1>10. ASSUME NEW o \in Objects, Collect(o)
       PROVE  TypeOK'
  BY <1>10 DEF TypeOK, Collect, tabs
<1>11. ASSUME NEW o \in Objects, Serialize(o)
       PROVE  TypeOK'
  <2>1. cached' \subseteq Uris
    BY <1>11 DEF TypeOK, Serialize, ObjectsAreWhole
  <2> QED BY <1>11, <2>1 DEF TypeOK, Serialize, tabs
<1>12. ASSUME NEW o \in Objects, Free(o)
       PROVE  TypeOK'
  BY <1>12 DEF TypeOK, Free, tabs, Stages, Loading, Loaded
<1>13. ASSUME NEW n \in Names, Condemn(n)
       PROVE  TypeOK'
  BY <1>13 DEF TypeOK, Condemn, objects, tabs
<1>14. ASSUME Purge
       PROVE  TypeOK'
  BY <1>14 DEF TypeOK, Purge, Touch, tabs
<1>15. ASSUME Tick
       PROVE  TypeOK'
  <2>1. \A n \in Names : Older(n) \in 0 .. Timeout + 1
    BY DEF TypeOK, Older, Expired
  <2> QED BY <1>15, <2>1 DEF TypeOK, Tick, objects, tabs
<1>16. ASSUME UNCHANGED vars
       PROVE  TypeOK'
  BY <1>16 DEF TypeOK, vars, objects, tabs
<1> QED
  BY <1>1, <1>2, <1>3, <1>4, <1>5, <1>6, <1>7, <1>8, <1>9, <1>10, <1>11, <1>12,
     <1>13, <1>14, <1>15, <1>16 DEF Next

-----------------------------------------------------------------------------
(* No object is under two keys. *)
LEMMA OneKeyPerObject ==
  ASSUME ServedIsLive, NEW n \in Names, NEW m \in Names,
         Registered(n), registry[n] = registry[m]
  PROVE  n = m
BY DEF ServedIsLive, Registered

(* Objects: the steps that change a stage, a uri or a finaliser.           *)
LEMMA ObjectsStep ==
  TypeOK /\ ObjectsAreWhole /\ BusyHasPage /\ ServedIsLive /\ [Next]_vars
    => ObjectsAreWhole'
<1> SUFFICES ASSUME TypeOK, ObjectsAreWhole, BusyHasPage, ServedIsLive, [Next]_vars
             PROVE  ObjectsAreWhole'
  OBVIOUS
<1> USE DEF TypeOK, ObjectsAreWhole
<1>1. ASSUME NEW c \in Clients, Miss(c)
      PROVE  ObjectsAreWhole'
  <2>1. page[c] \in Uris
    BY <1>1 DEF Miss, BusyHasPage
  <2> QED BY <1>1, <2>1 DEF Miss
<1>2. ASSUME NEW o \in Objects,
             OpenFile(o) \/ OpenFails(o) \/ ReadEvents(o)
      PROVE  ObjectsAreWhole'
  BY <1>2 DEF OpenFile, OpenFails, ReadEvents, Loaded
<1>3. ASSUME NEW o \in Objects, Collect(o) \/ Serialize(o) \/ Free(o)
      PROVE  ObjectsAreWhole'
  BY <1>3 DEF Collect, Serialize, Free
<1>4. ASSUME Purge
      PROVE  ObjectsAreWhole'
  BY <1>4 DEF Purge, ServedIsLive, Registered
<1>5. ASSUME UNCHANGED <<stage, uri, fin>>
      PROVE  ObjectsAreWhole'
  BY <1>5
<1> QED
  BY <1>1, <1>2, <1>3, <1>4, <1>5
  DEF Next, Request, Hit, Poll, Heartbeat, Leave, Condemn, Tick, vars, objects

(* Tabs: only Request and Leave change a page, and pc stays within it.     *)
LEMMA PageStep == TypeOK /\ BusyHasPage /\ [Next]_vars => BusyHasPage'
<1> SUFFICES ASSUME TypeOK, BusyHasPage, [Next]_vars
             PROVE  BusyHasPage'
  OBVIOUS
<1> USE DEF TypeOK, BusyHasPage
<1>1. ASSUME NEW c \in Clients, NEW u \in Uris, Request(c, u)
      PROVE  BusyHasPage'
  BY <1>1 DEF Request
<1>2. ASSUME NEW c \in Clients, Hit(c) \/ Miss(c) \/ Poll(c)
      PROVE  BusyHasPage'
  BY <1>2 DEF Hit, Miss, Poll, Arrive
<1>3. ASSUME NEW c \in Clients, Leave(c)
      PROVE  BusyHasPage'
  BY <1>3 DEF Leave
<1>4. ASSUME UNCHANGED <<pc, page>>
      PROVE  BusyHasPage'
  BY <1>4
<1> QED
  BY <1>1, <1>2, <1>3, <1>4
  DEF Next, Heartbeat, OpenFile, OpenFails, ReadEvents, Collect, Serialize, Free,
      Condemn, Purge, Tick, vars, tabs

(* The registry: Miss binds a key to a new object, Purge unbinds one and   *)
(* finalises its object, and Collect and Free touch unregistered objects.  *)
LEMMA ServedStep ==
  TypeOK /\ ObjectsAreWhole /\ BusyHasPage /\ ServedIsLive /\ [Next]_vars
    => ServedIsLive'
<1> SUFFICES ASSUME TypeOK, ObjectsAreWhole, BusyHasPage, ServedIsLive, [Next]_vars
             PROVE  ServedIsLive'
  OBVIOUS
<1> USE DEF TypeOK, ServedIsLive, Registered
<1>1. ASSUME NEW c \in Clients, Miss(c)
      PROVE  ServedIsLive'
  <2>1. NameOf[page[c]] \in Names /\ page[c] \in Uris
    BY <1>1, NameIsName DEF Miss, BusyHasPage
  <2>2. PICK o \in Objects :
          /\ stage[o] = "unborn"
          /\ \E s \in {"spawned"} \cup Loaded : stage' = [stage EXCEPT ![o] = s]
          /\ uri' = [uri EXCEPT ![o] = page[c]]
          /\ registry' = [registry EXCEPT ![NameOf[page[c]]] = o]
    BY <1>1 DEF Miss, Name
  <2>3. fin[o] = "none" /\ fin' = fin
    BY <1>1, <2>2 DEF Miss, ObjectsAreWhole
  <2> QED BY <2>1, <2>2, <2>3 DEF Loaded
<1>2. ASSUME NEW o \in Objects,
             OpenFile(o) \/ OpenFails(o) \/ ReadEvents(o)
      PROVE  ServedIsLive'
  BY <1>2 DEF OpenFile, OpenFails, ReadEvents, Loaded
<1>3. ASSUME NEW o \in Objects, Collect(o) \/ Serialize(o) \/ Free(o)
      PROVE  ServedIsLive'
  BY <1>3 DEF Collect, Serialize, Free, InRegistry
<1>4. ASSUME Purge
      PROVE  ServedIsLive'
  <2>1. \A n \in Names : n # condemned => registry'[n] = registry[n]
    BY <1>4 DEF Purge
  <2>2. \A n \in Names : n # condemned /\ Registered(n) => registry[n] # registry[condemned]
    BY <1>4, OneKeyPerObject DEF Purge
  <2> QED BY <1>4, <2>1, <2>2 DEF Purge
<1>5. ASSUME UNCHANGED <<registry, stage, uri, fin>>
      PROVE  ServedIsLive'
  BY <1>5
<1> QED
  BY <1>1, <1>2, <1>3, <1>4, <1>5
  DEF Next, Request, Hit, Poll, Heartbeat, Leave, Condemn, Tick, vars, objects

(* Tabs: only Poll shows an image, the one under the tab's own key.        *)
LEMMA ShownStep ==
  TypeOK /\ BusyHasPage /\ ServedIsLive /\ ServedOwnData /\ [Next]_vars
    => ServedOwnData'
<1> SUFFICES ASSUME TypeOK, BusyHasPage, ServedIsLive, ServedOwnData, [Next]_vars
             PROVE  ServedOwnData'
  OBVIOUS
<1> USE DEF TypeOK, ServedOwnData
<1>1. ASSUME NEW c \in Clients, NEW u \in Uris, Request(c, u)
      PROVE  ServedOwnData'
  BY <1>1 DEF Request
<1>2. ASSUME NEW c \in Clients, Hit(c) \/ Miss(c)
      PROVE  ServedOwnData'
  BY <1>2 DEF Hit, Miss, Arrive
<1>3. ASSUME NEW c \in Clients, Poll(c)
      PROVE  ServedOwnData'
  <2>1. page[c] \in Uris /\ NameOf[page[c]] \in Names
    BY <1>3, NameIsName DEF Poll, BusyHasPage
  <2> DEFINE o == registry[NameOf[page[c]]]
  <2>2. CASE o = NoObj
    BY <1>3, <2>2 DEF Poll, Name
  <2>3. CASE o # NoObj
    <3>1. NameOf[uri[o]] = NameOf[page[c]]
      BY <2>1, <2>3 DEF ServedIsLive, Registered
    <3> QED BY <1>3, <2>1, <2>3, <3>1 DEF Poll, Name
  <2> QED BY <2>2, <2>3
<1>4. ASSUME NEW c \in Clients, Leave(c)
      PROVE  ServedOwnData'
  BY <1>4, RegistryAssumption DEF Leave
<1>5. ASSUME UNCHANGED <<pc, page, shown>>
      PROVE  ServedOwnData'
  BY <1>5
<1> QED
  BY <1>1, <1>2, <1>3, <1>4, <1>5
  DEF Next, Heartbeat, OpenFile, OpenFails, ReadEvents, Collect, Serialize, Free,
      Condemn, Purge, Tick, vars, tabs

(* Ages: Tick alone makes a key older, and it waits for the heartbeats;    *)
(* arrivals and insertions start at age 0.                                 *)
LEMMA FreshStep ==
  TypeOK /\ BusyHasPage /\ WatchedIsFresh /\ [Next]_vars => WatchedIsFresh'
<1> SUFFICES ASSUME TypeOK, BusyHasPage, WatchedIsFresh, [Next]_vars
             PROVE  WatchedIsFresh'
  OBVIOUS
<1> USE RegistryAssumption
<1> USE DEF TypeOK, WatchedIsFresh, Watching, Connected, Name, Registered, Expired
<1>1. ASSUME NEW c \in Clients, NEW u \in Uris, Request(c, u)
      PROVE  WatchedIsFresh'
  BY <1>1 DEF Request, objects
<1>2. ASSUME NEW c \in Clients, Hit(c)
      PROVE  WatchedIsFresh'
  <2>1. NameOf[page[c]] \in Names
    BY <1>2, NameIsName DEF Hit, BusyHasPage
  <2>2. Registered(NameOf[page[c]]) => age'[NameOf[page[c]]] = 0
    BY <1>2, <2>1 DEF Hit, Touch
  <2>3. \A n \in Names : age'[n] = age[n] \/ age'[n] = 0
    BY <1>2, <2>1 DEF Hit, Touch
  <2>4. \A d \in Clients : d # c => pc'[d] = pc[d] /\ beat'[d] = beat[d]
    BY <1>2 DEF Hit, Arrive
  <2> QED BY <1>2, <2>2, <2>3, <2>4 DEF Hit, Arrive
<1>3. ASSUME NEW c \in Clients, Miss(c)
      PROVE  WatchedIsFresh'
  <2>1. NameOf[page[c]] \in Names
    BY <1>3, NameIsName DEF Miss, BusyHasPage
  <2>2. \A n \in Names :
          IF n = NameOf[page[c]] THEN age'[n] = 0
                                 ELSE age'[n] = age[n] /\ registry'[n] = registry[n]
    BY <1>3, <2>1 DEF Miss, Touch
  <2>3. \A d \in Clients : d # c => pc'[d] = pc[d] /\ beat'[d] = beat[d]
    BY <1>3 DEF Miss, Arrive
  <2> QED BY <1>3, <2>2, <2>3 DEF Miss, Arrive
<1>4. ASSUME NEW c \in Clients, Poll(c)
      PROVE  WatchedIsFresh'
  BY <1>4 DEF Poll, objects
<1>5. ASSUME NEW c \in Clients, Heartbeat(c)
      PROVE  WatchedIsFresh'
  <2>1. NameOf[page[c]] \in Names
    BY <1>5, NameIsName DEF Heartbeat, BusyHasPage
  <2>2. \A n \in Names : age'[n] = age[n] \/ age'[n] = 0
    BY <1>5, <2>1 DEF Heartbeat, Touch
  <2>3. \A d \in Clients : beat'[d] => beat[d]
    BY <1>5 DEF Heartbeat
  <2> QED BY <1>5, <2>2, <2>3 DEF Heartbeat
<1>6. ASSUME NEW c \in Clients, Leave(c)
      PROVE  WatchedIsFresh'
  BY <1>6 DEF Leave, objects
<1>7. ASSUME NEW o \in Objects, ReadEvents(o)
      PROVE  WatchedIsFresh'
  <2>1. \A n \in Names : age'[n] = age[n] \/ age'[n] = 0
    BY <1>7 DEF ReadEvents, Touch
  <2> QED BY <1>7, <2>1 DEF ReadEvents, tabs
<1>8. ASSUME Purge
      PROVE  WatchedIsFresh'
  <2>1. \A n \in Names :
          registry'[n] = NoObj \/ (registry'[n] = registry[n] /\ age'[n] = age[n])
    BY <1>8 DEF Purge, Touch
  <2> QED BY <1>8, <2>1 DEF Purge, tabs
<1>9. ASSUME Tick
      PROVE  WatchedIsFresh'
  <2>1. \A n \in Names : Registered(n) /\ age[n] < Timeout => age'[n] <= Timeout
    BY <1>9 DEF Tick, Older
  <2>2. \A n \in Names : age'[n] \in Nat
    BY <1>9 DEF Tick, Older
  <2> QED BY <1>9, <2>1, <2>2 DEF Tick, tabs, objects
<1>10. ASSUME UNCHANGED <<registry, age, pc, page, beat>>
       PROVE  WatchedIsFresh'
  BY <1>10
<1> QED
  BY <1>1, <1>2, <1>3, <1>4, <1>5, <1>6, <1>7, <1>8, <1>9, <1>10
  DEF Next, OpenFile, OpenFails, Collect, Serialize, Free, Condemn, vars, tabs

(* The collector: nobody watches a key when it is condemned, because what  *)
(* is watched is fresh, and whoever arrives later is recorded.             *)
LEMMA LateStep ==
  TypeOK /\ BusyHasPage /\ WatchedIsFresh /\ WatchersAreLate /\ [Next]_vars
    => WatchersAreLate'
<1> SUFFICES ASSUME TypeOK, BusyHasPage, WatchedIsFresh, WatchersAreLate, [Next]_vars
             PROVE  WatchersAreLate'
  OBVIOUS
<1> USE DEF TypeOK, WatchersAreLate, Watching, Connected, Name
<1>1. ASSUME NEW c \in Clients, NEW u \in Uris, Request(c, u)
      PROVE  WatchersAreLate'
  BY <1>1 DEF Request
<1>2. ASSUME NEW c \in Clients, Hit(c) \/ Miss(c)
      PROVE  WatchersAreLate'
  <2>1. /\ condemned' = condemned /\ page' = page
        /\ late' = IF condemned = NameOf[page[c]] THEN late \cup {c} ELSE late
        /\ \A d \in Clients : d # c => pc'[d] = pc[d] /\ beat'[d] = beat[d]
    BY <1>2 DEF Hit, Miss, Arrive
  <2> QED BY <2>1
<1>3. ASSUME NEW c \in Clients, Poll(c)
      PROVE  WatchersAreLate'
  BY <1>3 DEF Poll
<1>4. ASSUME NEW c \in Clients, Heartbeat(c)
      PROVE  WatchersAreLate'
  BY <1>4 DEF Heartbeat
<1>5. ASSUME NEW c \in Clients, Leave(c)
      PROVE  WatchersAreLate'
  <2>1. ~Watching(c, condemned)'
    BY <1>5 DEF Leave
  <2>2. \A d \in Clients : d # c =>
          pc'[d] = pc[d] /\ beat'[d] = beat[d] /\ page'[d] = page[d] /\ (d \in late => d \in late')
    BY <1>5 DEF Leave
  <2> QED BY <1>5, <2>1, <2>2 DEF Leave
<1>6. ASSUME NEW n \in Names, Condemn(n)
      PROVE  WatchersAreLate'
  <2>1. \A c \in Clients : ~Watching(c, n)
    BY <1>6 DEF Condemn, WatchedIsFresh
  <2> QED BY <1>6, <2>1 DEF Condemn, tabs
<1>7. ASSUME Purge
      PROVE  WatchersAreLate'
  BY <1>7 DEF Purge
<1>8. ASSUME UNCHANGED <<condemned, late, pc, page, beat>>
      PROVE  WatchersAreLate'
  BY <1>8
<1> QED
  BY <1>1, <1>2, <1>3, <1>4, <1>5, <1>6, <1>7, <1>8
  DEF Next, OpenFile, OpenFails, ReadEvents, Collect, Serialize, Free, Tick, vars, tabs

-----------------------------------------------------------------------------
(* The strengthened invariant holds initially and is kept by every step.   *)
LEMMA Initially == Init => IInv
<1> SUFFICES ASSUME Init PROVE IInv
  OBVIOUS
<1>1. TypeOK
  BY RegistryAssumption DEF Init, TypeOK, Stages, Loading, Loaded
<1>2. ObjectsAreWhole /\ BusyHasPage /\ ServedIsLive /\ ServedOwnData
  BY DEF Init, ObjectsAreWhole, BusyHasPage, ServedIsLive, Registered, ServedOwnData
<1>3. WatchedIsFresh /\ WatchersAreLate
  BY DEF Init, WatchedIsFresh, WatchersAreLate, Watching, Connected
<1> QED BY <1>1, <1>2, <1>3 DEF IInv

LEMMA Inductive == IInv /\ [Next]_vars => IInv'
BY TypeOKStep, ObjectsStep, PageStep, ServedStep, ShownStep, FreshStep, LateStep DEF IInv

THEOREM Invariance == Spec => []IInv
<1>1. Init => IInv
  BY Initially
<1>2. IInv /\ [Next]_vars => IInv'
  BY Inductive
<1> QED BY <1>1, <1>2, PTL DEF Spec

(* Every variable keeps its type. *)
THEOREM TypeCorrect == Spec => []TypeOK
<1>1. IInv => TypeOK
  BY DEF IInv
<1> QED BY <1>1, Invariance, PTL

(* What the registry serves is never finalised, freed or under a foreign   *)
(* key, whatever the requests, the collector and the finalisers interleave.*)
THEOREM NeverServesDeadObject == Spec => []ServedIsLive
<1>1. IInv => ServedIsLive
  BY DEF IInv
<1> QED BY <1>1, Invariance, PTL

(* A tab shows its own page's events, or those of a page with the same key. *)
THEOREM ShowsOwnData == Spec => []ServedOwnData
<1>1. IInv => ServedOwnData
  BY DEF IInv
<1> QED BY <1>1, Invariance, PTL

(* Heartbeats keep what is watched from expiring. *)
THEOREM HeartbeatsKeepFresh == Spec => []WatchedIsFresh
<1>1. IInv => WatchedIsFresh
  BY DEF IInv
<1> QED BY <1>1, Invariance, PTL

(* The collector's check and removal are two steps, and the only tabs it   *)
(* can surprise are those that arrived between them.                       *)
THEOREM PurgeOnlySurprisesLatecomers == Spec => PurgeSparesWatched
<1> DEFINE Spares == \A n \in Names : registry[n] # NoObj /\ registry'[n] = NoObj =>
                       \A c \in Clients : Watching(c, n) => c \in late
<1>1. IInv /\ [Next]_vars => [Spares]_vars
  <2> SUFFICES ASSUME IInv, Next PROVE Spares
    OBVIOUS
  <2> SUFFICES ASSUME NEW n \in Names, registry[n] # NoObj, registry'[n] = NoObj,
                      NEW c \in Clients, Watching(c, n)
               PROVE  c \in late
    OBVIOUS
  <2>1. CASE Purge
    <3>1. condemned = n
      BY <2>1 DEF IInv, TypeOK, Purge
    <3> QED BY <2>1, <3>1 DEF IInv, WatchersAreLate, Purge
  <2>2. CASE \E d \in Clients : Miss(d)
    <3>1. \A m \in Names : registry'[m] = registry[m] \/ registry'[m] \in Objects
      BY <2>2 DEF IInv, TypeOK, Miss
    <3> QED BY <3>1, RegistryAssumption
  <2>3. CASE UNCHANGED registry
    BY <2>3
  <2> QED
    BY <2>1, <2>2, <2>3
    DEF Next, Request, Hit, Poll, Heartbeat, Leave, OpenFile, OpenFails, ReadEvents,
        Collect, Serialize, Free, Condemn, Tick
<1> QED BY <1>1, Invariance, PTL DEF Spec, PurgeSparesWatched

-----------------------------------------------------------------------------
(* The refinement of the data store.                                       *)

(* An object is under at most one key: the key of its file. *)
LEMMA OneKey ==
  ASSUME ServedIsLive, NEW m \in Names, NEW n \in Names,
         Registered(m), registry[m] = registry[n]
  PROVE  m = n
BY DEF ServedIsLive, Registered

(* A step that leaves the registry, the files and the status of what is    *)
(* registered alone leaves the cells alone.                                *)
LEMMA SameCells ==
  ASSUME registry' = registry,
         \A n \in Names : Registered(n) =>
           uri'[registry[n]] = uri[registry[n]] /\ Status(registry[n])' = Status(registry[n])
  PROVE  Cells' = Cells
BY DEF Cells, Registered, Status

(* The loading of an object ends the loading of its cell, if it has one. *)
LEMMA FinishStep ==
  ASSUME IInv, NEW o \in Objects, stage[o] \in Loading,
         NEW s \in Loaded \cup {"failed"}, stage' = [stage EXCEPT ![o] = s],
         UNCHANGED <<registry, uri, cached, shown>>
  PROVE  (\E k \in Store!Keys : Store!Finish(k)) \/ UNCHANGED Store!vars
<1> USE DEF IInv, TypeOK
<1>1. \A p \in Objects : p # o => Status(p)' = Status(p)
  BY DEF Status
<1>2. CASE InRegistry(o)
  <2>1. PICK k \in Names : registry[k] = o
    BY <1>2 DEF InRegistry
  <2>2. Registered(k)
    BY <2>1, RegistryAssumption DEF Registered
  <2>3. \A n \in Names : n # k /\ Registered(n) => registry[n] \in Objects /\ registry[n] # o
    BY <2>1, <2>2, OneKey DEF Registered
  <2> DEFINE t == Status(o)'
  <2>4. Status(o) = "loading" /\ t \in {"ready", "failed"}
    BY DEF Status, Loading, Loaded
  <2>5. Cells[k] = [status |-> "loading", uri |-> uri[o]]
    BY <2>1, <2>2, <2>4 DEF Cells
  <2>6. Cells' = [Cells EXCEPT ![k] = [status |-> t, uri |-> uri[o]]]
    BY <1>1, <2>1, <2>2, <2>3, <2>4 DEF Cells, Registered
  <2>7. Cells[k].status = "loading" /\ Cells[k].uri = uri[o]
    BY <2>5
  <2>8. Cells' = [Cells EXCEPT ![k] = Store!Cell(t, Cells[k].uri)]
    BY <2>6, <2>7 DEF Store!Cell
  <2>9. Store!Finish(k)
    BY <2>4, <2>7, <2>8 DEF Store!Finish
  <2> QED BY <2>9 DEF Store!Keys, Names
<1>3. CASE ~InRegistry(o)
  <2>1. \A n \in Names : Registered(n) => registry[n] \in Objects /\ registry[n] # o
    BY <1>3 DEF InRegistry, Registered
  <2> QED BY <1>1, <2>1, SameCells DEF Store!vars
<1> QED BY <1>2, <1>3

(* Every step of the registry is a step of the store, or none. *)
LEMMA StoreStep ==
  IInv /\ [Next]_vars => [Store!Next]_Store!vars
<1> SUFFICES ASSUME IInv, [Next]_vars
             PROVE  Store!Next \/ UNCHANGED Store!vars
  OBVIOUS
<1> USE DEF IInv, TypeOK
<1>1. ASSUME NEW c \in Clients, Miss(c)
      PROVE  Store!Next
  <2>1. NameOf[page[c]] \in Names /\ page[c] \in Uris
    BY <1>1, NameIsName DEF Miss, BusyHasPage
  <2>2. PICK o \in Objects :
          /\ stage[o] = "unborn"
          /\ \/ stage' = [stage EXCEPT ![o] = "spawned"]
             \/ page[c] \in cached /\ \E s \in Loaded : stage' = [stage EXCEPT ![o] = s]
          /\ uri' = [uri EXCEPT ![o] = page[c]]
          /\ registry' = [registry EXCEPT ![NameOf[page[c]]] = o]
    BY <1>1 DEF Miss, Name
  <2> DEFINE k == NameOf[page[c]]
  <2>3. \A n \in Names : n # k =>
          /\ registry'[n] = registry[n]
          /\ Registered(n) => registry[n] \in Objects /\ registry[n] # o
    BY <2>1, <2>2 DEF ServedIsLive, Registered
  <2>4. registry'[k] = o /\ o # NoObj /\ uri'[o] = page[c]
    BY <2>1, <2>2, RegistryAssumption
  <2>5. \A p \in Objects : p # o => Status(p)' = Status(p) /\ uri'[p] = uri[p]
    BY <2>2 DEF Status
  <2>6. Cells' = [Cells EXCEPT ![k] = [status |-> Status(o)', uri |-> page[c]]]
    <3>1. \A n \in Names : n # k => Cells'[n] = Cells[n]
      BY <2>3, <2>5 DEF Cells, Registered, Status
    <3>2. Cells'[k] = [status |-> Status(o)', uri |-> page[c]]
      BY <2>1, <2>4 DEF Cells, Registered, Status
    <3>3. Cells = [n \in Names |-> Cells[n]] /\ Cells' = [n \in Names |-> Cells'[n]]
      BY DEF Cells
    <3> QED BY <2>1, <3>1, <3>2, <3>3
  <2>7. \/ Status(o)' = "loading"
        \/ page[c] \in cached /\ Status(o)' = "ready"
    BY <2>2 DEF Status, Loaded
  <2>8. UNCHANGED <<cached, shown>>
    BY <1>1 DEF Miss, Arrive
  <2>9. Store!Insert(page[c])
    BY <2>6, <2>7, <2>8 DEF Store!Insert, Store!Cell
  <2> QED BY <2>1, <2>9 DEF Store!Next
<1>2. ASSUME NEW c \in Clients, Poll(c)
      PROVE  Store!Next \/ UNCHANGED Store!vars
  <2>1. NameOf[page[c]] \in Names
    BY <1>2, NameIsName DEF Poll, BusyHasPage
  <2> DEFINE k == NameOf[page[c]]
  <2>2. Cells' = Cells /\ cached' = cached
    BY <1>2, SameCells DEF Poll, objects, Status
  <2>3. CASE registry[k] = NoObj
    BY <1>2, <2>2, <2>3 DEF Poll, Name, Store!vars
  <2>4. CASE registry[k] # NoObj
    <3>1. /\ stage[registry[k]] = "ready"
          /\ shown' = [shown EXCEPT ![c] = uri[registry[k]]]
      BY <1>2, <2>4 DEF Poll, Name
    <3>2. Cells[k] = [status |-> "ready", uri |-> uri[registry[k]]]
      BY <2>1, <2>4, <3>1 DEF Cells, Registered, Status, Loaded
    <3>3. shown[c] = NoUri
      BY <1>2 DEF Poll, ServedOwnData
    <3>4. Store!Show(c, k)
      BY <2>2, <3>1, <3>2, <3>3 DEF Store!Show
    <3> QED BY <2>1, <3>4 DEF Store!Next, Store!Keys, Names
  <2> QED BY <2>3, <2>4
<1>3. ASSUME NEW c \in Clients, Leave(c)
      PROVE  Store!Next
  <2>1. Cells' = Cells
    BY <1>3, SameCells DEF Leave, objects, Status
  <2>2. Store!Hide(c)
    BY <1>3, <2>1 DEF Leave, Store!Hide
  <2> QED BY <2>2 DEF Store!Next
<1>4. ASSUME NEW o \in Objects, OpenFile(o)
      PROVE  UNCHANGED Store!vars
  <2>1. \A p \in Objects : Status(p)' = Status(p)
    BY <1>4 DEF OpenFile, Status, Loaded
  <2>2. Cells' = Cells
    BY <1>4, <2>1, SameCells DEF OpenFile, Registered
  <2> QED BY <1>4, <2>2 DEF OpenFile, tabs, Store!vars
<1>5. ASSUME NEW o \in Objects, OpenFails(o)
      PROVE  Store!Next \/ UNCHANGED Store!vars
  <2>1. CASE uri[o] \in Remote
    <3>1. stage' = [stage EXCEPT ![o] = "failed"] /\ stage[o] \in Loading
      BY <1>5, <2>1 DEF OpenFails, Loading
    <3> QED BY <1>5, <3>1, FinishStep DEF OpenFails, tabs, Store!Next
  <2>2. CASE uri[o] \notin Remote
    <3>1. \A p \in Objects : Status(p)' = Status(p)
      BY <1>5, <2>2 DEF OpenFails, Status, Loaded
    <3>2. Cells' = Cells
      BY <1>5, <3>1, SameCells DEF OpenFails, Registered
    <3> QED BY <1>5, <3>2 DEF OpenFails, tabs, Store!vars
  <2> QED BY <2>1, <2>2
<1>6. ASSUME NEW o \in Objects, ReadEvents(o)
      PROVE  Store!Next \/ UNCHANGED Store!vars
  <2>1. PICK s \in Loaded \cup {"failed"} : stage' = [stage EXCEPT ![o] = s]
    BY <1>6 DEF ReadEvents
  <2>2. stage[o] \in Loading
    BY <1>6 DEF ReadEvents, Loading
  <2> QED BY <1>6, <2>1, <2>2, FinishStep DEF ReadEvents, tabs, Store!Next
<1>7. ASSUME NEW o \in Objects, Serialize(o)
      PROVE  Store!Next \/ UNCHANGED Store!vars
  <2>1. Cells' = Cells /\ shown' = shown
    BY <1>7, SameCells DEF Serialize, Status, tabs
  <2>2. CASE stage[o] \in Loaded /\ cached' = cached \cup {uri[o]}
    <3>1. uri[o] \in Uris
      BY <2>2 DEF ObjectsAreWhole, Loaded
    <3>2. Store!Save(uri[o])
      BY <2>1, <2>2 DEF Store!Save
    <3> QED BY <3>1, <3>2 DEF Store!Next
  <2>3. CASE UNCHANGED cached
    BY <2>1, <2>3 DEF Store!vars
  <2> QED BY <1>7, <2>2, <2>3 DEF Serialize
<1>8. ASSUME NEW o \in Objects, Free(o)
      PROVE  UNCHANGED Store!vars
  <2>1. \A n \in Names : Registered(n) => registry[n] \in Objects /\ registry[n] # o
    BY <1>8 DEF Free, ServedIsLive, Registered
  <2>2. \A p \in Objects : p # o => Status(p)' = Status(p) /\ uri'[p] = uri[p]
    BY <1>8 DEF Free, Status
  <2>3. Cells' = Cells
    BY <1>8, <2>1, <2>2, SameCells DEF Free
  <2> QED BY <1>8, <2>3 DEF Free, tabs, Store!vars
<1>9. ASSUME Purge
      PROVE  Store!Next
  <2>1. condemned \in Names /\ registry' = [registry EXCEPT ![condemned] = NoObj]
    BY <1>9 DEF Purge
  <2>2. UNCHANGED <<uri, stage, cached, shown>>
    BY <1>9 DEF Purge, tabs
  <2>3. Cells' = [Cells EXCEPT ![condemned] = [status |-> "empty", uri |-> NoUri]]
    BY <2>1, <2>2 DEF Cells, Registered, Status
  <2>4. Store!Remove(condemned)
    BY <2>2, <2>3 DEF Store!Remove, Store!Empty, Store!Cell
  <2> QED BY <2>1, <2>4 DEF Store!Next, Store!Keys, Names
<1>10. ASSUME UNCHANGED <<registry, uri, stage, cached, shown>>
       PROVE  UNCHANGED Store!vars
  BY <1>10, SameCells DEF Status, Store!vars
<1>11. CASE Next
  <2>1. ASSUME NEW c \in Clients, NEW u \in Uris, Request(c, u)
        PROVE  UNCHANGED <<registry, uri, stage, cached, shown>>
    BY <2>1 DEF Request, objects
  <2>2. ASSUME NEW c \in Clients, Hit(c) \/ Heartbeat(c)
        PROVE  UNCHANGED <<registry, uri, stage, cached, shown>>
    BY <2>2 DEF Hit, Arrive, Heartbeat
  <2>3. ASSUME NEW o \in Objects, Collect(o)
        PROVE  UNCHANGED <<registry, uri, stage, cached, shown>>
    BY <2>3 DEF Collect, tabs
  <2>4. ASSUME (\E n \in Names : Condemn(n)) \/ Tick
        PROVE  UNCHANGED <<registry, uri, stage, cached, shown>>
    BY <2>4 DEF Condemn, Tick, objects, tabs
  <2> QED
    BY <1>1, <1>2, <1>3, <1>4, <1>5, <1>6, <1>7, <1>8, <1>9, <1>10, <1>11,
       <2>1, <2>2, <2>3, <2>4 DEF Next
<1>12. CASE UNCHANGED vars
  BY <1>10, <1>12 DEF vars, objects, tabs
<1> QED BY <1>11, <1>12

(* The registry implements the data store, for any files, tabs, objects    *)
(* and timeout: tabs see cells that change as a whole.                     *)
THEOREM ImplementsDataStore == Spec => ImplementsStore
<1>1. Init => Store!Init
  <2> SUFFICES ASSUME Init PROVE Store!Init
    OBVIOUS
  <2>1. Cells = [k \in Names |-> [status |-> "empty", uri |-> NoUri]]
    BY DEF Init, Cells, Registered
  <2> QED BY <2>1 DEF Init, Store!Init, Store!Keys, Store!Empty, Store!Cell, Names
<1>2. IInv /\ [Next]_vars => [Store!Next]_Store!vars
  BY StoreStep
<1> QED BY <1>1, <1>2, Invariance, PTL DEF Spec, ImplementsStore, Store!Spec
=============================================================================
