------------------------------ MODULE Registry ------------------------------
(***************************************************************************)
(* The dataset registry of the XWEBQL server: the global dictionary        *)
(* XOBJECTS, guarded by XLOCK (Julia/xevent.jl, Julia/xwebql.jl).          *)
(*                                                                         *)
(* A page request looks its dataset up, and inserts it on a miss; a loader *)
(* task reads the events; browsers poll for the image and send heartbeats; *)
(* the garbage collector removes what has been idle for longer than the    *)
(* timeout and finalises it, and the finaliser writes the events to the    *)
(* cache, from which a later request restores them.                        *)
(*                                                                         *)
(* XLOCK is taken and released inside each dictionary operation, so the    *)
(* check and the insertion of a request are two steps, and so are the      *)
(* idle check and the removal of the collector.                            *)
(***************************************************************************)
EXTENDS Naturals

CONSTANTS
  Uris,      \* the event files that pages ask for
  Remote,    \* those asked for by "url=", the others by "dataset="/"filename="
  NameOf,    \* the key of a file: the requested name, or a URL's last segment
  Clients,   \* browser tabs
  Objects,   \* identities for XDataSet objects: bounds how many are in memory
  Timeout,   \* TIMEOUT, in ticks
  NoUri, NoName, NoObj

Names == {NameOf[u] : u \in Uris}

ASSUME RegistryAssumption ==
  /\ Remote \subseteq Uris
  /\ DOMAIN NameOf = Uris
  /\ Timeout \in Nat \ {0}
  /\ NoUri \notin Uris /\ NoName \notin Names /\ NoObj \notin Objects

VARIABLES
  registry,  \* XOBJECTS: the object under each key, NoObj when the key is absent
  uri,       \* xobject.uri
  stage,     \* how far the loader of an object is; "ready" is has_events,
             \* and so is "blank", of events no image can be made of;
             \* "failed" is has_error, "died" is a loader lost to an exception
  age,       \* ticks since last_accessed of the object under each key
  fin,       \* the finaliser of an object: "none", "pending" or "done"
  cached,    \* the uris with a complete .jls file under XCACHE
  condemned, \* the key the collector found idle and is about to remove
  pc,        \* what a tab is doing
  page,      \* the uri of the page a tab has asked for
  beat,      \* whether a tab's websocket still sends heartbeats
  shown,     \* the uri of the events whose image a tab displays
  late       \* history: the tabs that arrived since the collector's idle check

objects == <<uri, stage, fin>>
tabs    == <<pc, page, beat, shown>>
vars    == <<registry, objects, age, cached, condemned, tabs, late>>

Loading == {"spawned", "reading"}
Loaded  == {"ready", "blank"}
Stages  == {"unborn", "failed", "died"} \cup Loading \cup Loaded

Registered(n) == registry[n] # NoObj
InRegistry(o) == \E n \in Names : registry[n] = o

Name(c)        == NameOf[page[c]]
Connected(c)   == pc[c] \in {"polling", "viewing"} /\ beat[c]
Watching(c, n) == Connected(c) /\ Name(c) = n

(* Faulty variants of the definition that follows, here and below, each    *)
(* with a bug the code could have had: a property they break is named in   *)
(* PROJECT.json.                                                           *)
ExpiredLate(n)  == age[n] > Timeout + 1
ExpiredEarly(n) == age[n] >= Timeout

(* get_elapsed() > timeout, of the object under a key. *)
Expired(n) == age[n] > Timeout

(* update_timestamp, of the object under a key. *)
Touch(n) == age' = [age EXCEPT ![n] = 0]

TypeOK ==
  /\ registry \in [Names -> Objects \cup {NoObj}]
  /\ uri \in [Objects -> Uris \cup {NoUri}]
  /\ stage \in [Objects -> Stages]
  /\ age \in [Names -> 0 .. Timeout + 1]
  /\ fin \in [Objects -> {"none", "pending", "done"}]
  /\ cached \subseteq Uris
  /\ condemned \in Names \cup {NoName}
  /\ pc \in [Clients -> {"idle", "hit", "miss", "polling", "viewing", "stopped"}]
  /\ page \in [Clients -> Uris \cup {NoUri}]
  /\ beat \in [Clients -> BOOLEAN]
  /\ shown \in [Clients -> Uris \cup {NoUri}]
  /\ late \subseteq Clients

(* A server that has just started, with whatever cache earlier runs left. *)
Init ==
  /\ registry = [n \in Names |-> NoObj]
  /\ uri = [o \in Objects |-> NoUri]
  /\ stage = [o \in Objects |-> "unborn"]
  /\ age = [n \in Names |-> 0]
  /\ fin = [o \in Objects |-> "none"]
  /\ cached \in SUBSET Uris
  /\ condemned = NoName
  /\ pc = [c \in Clients |-> "idle"]
  /\ page = [c \in Clients |-> NoUri]
  /\ beat = [c \in Clients |-> FALSE]
  /\ shown = [c \in Clients |-> NoUri]
  /\ late = {}

-----------------------------------------------------------------------------
(* Page requests: streamXEvents.                                           *)

(* The lookup. A "url=" page has no dataset parameter: it looks up the     *)
(* empty key, which is never there.                                        *)
Request(c, u) ==
  /\ pc[c] = "idle"
  /\ page' = [page EXCEPT ![c] = u]
  /\ pc' = [pc EXCEPT ![c] =
       IF u \notin Remote /\ Registered(NameOf[u]) THEN "hit" ELSE "miss"]
  /\ UNCHANGED <<registry, objects, age, cached, condemned, beat, shown, late>>

(* The page goes out: the tab connects its websocket and starts to poll.   *)
Arrive(c) ==
  /\ pc' = [pc EXCEPT ![c] = "polling"]
  /\ beat' = [beat EXCEPT ![c] = TRUE]
  /\ late' = IF condemned = Name(c) THEN late \cup {c} ELSE late
  /\ UNCHANGED <<page, shown>>

HitUntouched(c) ==
  /\ pc[c] = "hit"
  /\ Arrive(c)
  /\ UNCHANGED <<registry, objects, age, cached, condemned>>

(* The lookup found the key: the object is fetched again, and may be gone. *)
Hit(c) ==
  /\ pc[c] = "hit"
  /\ IF Registered(Name(c)) THEN Touch(Name(c)) ELSE UNCHANGED age
  /\ Arrive(c)
  /\ UNCHANGED <<registry, uri, stage, fin, cached, condemned>>

MissRestoresAnother(c) ==
  /\ pc[c] = "miss"
  /\ \E o \in Objects, u \in Uris :
       /\ stage[o] = "unborn"
       /\ \/ u = page[c] /\ stage' = [stage EXCEPT ![o] = "spawned"]
          \/ u \in cached /\ \E s \in Loaded : stage' = [stage EXCEPT ![o] = s]
       /\ uri' = [uri EXCEPT ![o] = u]
       /\ registry' = [registry EXCEPT ![Name(c)] = o]
  /\ Touch(Name(c))
  /\ Arrive(c)
  /\ UNCHANGED <<fin, cached, condemned>>

(* The lookup missed: restore the object from the cache, or create it and  *)
(* spawn its loader; either way it replaces what is under the key by now.  *)
Miss(c) ==
  /\ pc[c] = "miss"
  /\ \E o \in Objects :
       /\ stage[o] = "unborn"
       /\ \/ stage' = [stage EXCEPT ![o] = "spawned"]
          \/ page[c] \in cached /\ \E s \in Loaded : stage' = [stage EXCEPT ![o] = s]
       /\ uri' = [uri EXCEPT ![o] = page[c]]
       /\ registry' = [registry EXCEPT ![Name(c)] = o]
  /\ Touch(Name(c))
  /\ Arrive(c)
  /\ UNCHANGED <<fin, cached, condemned>>

-----------------------------------------------------------------------------
(* The loader task: load_events.                                           *)

(* The file is opened, after its download when it is remote. *)
OpenFile(o) ==
  /\ stage[o] = "spawned"
  /\ stage' = [stage EXCEPT ![o] = "reading"]
  /\ UNCHANGED <<registry, uri, age, fin, cached, condemned, tabs, late>>

(* A failed download sets has_error and leaves the timestamp alone; a local *)
(* file is opened outside any try, so its failure ends the task and sets   *)
(* nothing.                                                                *)
OpenFails(o) ==
  /\ stage[o] = "spawned"
  /\ stage' = [stage EXCEPT ![o] = IF uri[o] \in Remote THEN "failed" ELSE "died"]
  /\ UNCHANGED <<registry, uri, age, fin, cached, condemned, tabs, late>>

(* The events are read, or reading them failed. A file without events, or  *)
(* with none in the range of energies, counts as read.                     *)
ReadEvents(o) ==
  /\ stage[o] = "reading"
  /\ \E s \in Loaded \cup {"failed"} : stage' = [stage EXCEPT ![o] = s]
  /\ IF InRegistry(o) THEN Touch(NameOf[uri[o]]) ELSE UNCHANGED age
  /\ UNCHANGED <<registry, uri, fin, cached, condemned, tabs, late>>

-----------------------------------------------------------------------------
(* Tabs.                                                                   *)

PollIgnores404(c) ==
  /\ pc[c] = "polling" /\ Registered(Name(c))
  /\ stage[registry[Name(c)]] = "ready"
  /\ pc' = [pc EXCEPT ![c] = "viewing"]
  /\ shown' = [shown EXCEPT ![c] = uri[registry[Name(c)]]]
  /\ UNCHANGED <<registry, objects, age, cached, condemned, page, beat, late>>

(* image_spectrum: 404 stops the tab, 202 and 500 make it ask again, 200   *)
(* shows the image. The answer is 500 for a failed object, and for a loaded*)
(* one when its image, its spectrum or their compression throws. No answer *)
(* updates the timestamp.                                                  *)
Poll(c) ==
  /\ pc[c] = "polling"
  /\ LET o == registry[Name(c)] IN
     \/ /\ o = NoObj
        /\ pc' = [pc EXCEPT ![c] = "stopped"]
        /\ UNCHANGED shown
     \/ /\ o # NoObj /\ stage[o] = "ready"
        /\ pc' = [pc EXCEPT ![c] = "viewing"]
        /\ shown' = [shown EXCEPT ![c] = uri[o]]
  /\ UNCHANGED <<registry, objects, age, cached, condemned, page, beat, late>>

(* A heartbeat on the websocket (or a progress poll, which touches the     *)
(* object under the same conditions): it keeps the object alive, or, when  *)
(* the object is absent or failed, the server closes the session.          *)
Heartbeat(c) ==
  /\ Connected(c)
  /\ LET o == registry[Name(c)] IN
     \/ /\ o = NoObj \/ (o # NoObj /\ stage[o] = "failed")
        /\ beat' = [beat EXCEPT ![c] = FALSE]
        /\ UNCHANGED age
     \/ /\ o # NoObj /\ stage[o] # "failed"
        /\ Touch(Name(c))
        /\ UNCHANGED beat
  /\ UNCHANGED <<registry, uri, stage, fin, cached, condemned, pc, page, shown, late>>

(* The user closes the tab. *)
Leave(c) ==
  /\ pc[c] \in {"polling", "viewing", "stopped"}
  /\ pc' = [pc EXCEPT ![c] = "idle"]
  /\ page' = [page EXCEPT ![c] = NoUri]
  /\ beat' = [beat EXCEPT ![c] = FALSE]
  /\ shown' = [shown EXCEPT ![c] = NoUri]
  /\ late' = late \ {c}
  /\ UNCHANGED <<registry, objects, age, cached, condemned>>

-----------------------------------------------------------------------------
(* garbage_collector, the finalisers and Julia's own collector.            *)

CondemnLoaded(n) ==
  /\ condemned = NoName
  /\ Registered(n) /\ Expired(n) /\ stage[registry[n]] = "ready"
  /\ condemned' = n
  /\ late' = {}
  /\ UNCHANGED <<registry, objects, age, cached, tabs>>

(* The idle check of one entry, made without the lock. *)
Condemn(n) ==
  /\ condemned = NoName
  /\ Registered(n) /\ Expired(n)
  /\ condemned' = n
  /\ late' = {}
  /\ UNCHANGED <<registry, objects, age, cached, tabs>>

(* The removal, under the lock: by key, whatever is there now (an absent  *)
(* key has no age). *)
Purge ==
  /\ condemned # NoName
  /\ LET o == registry[condemned] IN
     fin' = IF o = NoObj THEN fin ELSE [fin EXCEPT ![o] = "pending"]
  /\ registry' = [registry EXCEPT ![condemned] = NoObj]
  /\ Touch(condemned)
  /\ condemned' = NoName
  /\ late' = {}
  /\ UNCHANGED <<uri, stage, cached, tabs>>

CollectReferenced(o) ==
  /\ stage[o] \notin Loading \cup {"unborn"}
  /\ fin[o] = "none"
  /\ fin' = [fin EXCEPT ![o] = "pending"]
  /\ UNCHANGED <<registry, uri, stage, age, cached, condemned, tabs, late>>

(* An object that a later insertion displaced is finalised once nothing    *)
(* refers to it; its loader does while it runs.                            *)
Collect(o) ==
  /\ stage[o] \notin Loading \cup {"unborn"}
  /\ fin[o] = "none" /\ ~InRegistry(o)
  /\ fin' = [fin EXCEPT ![o] = "pending"]
  /\ UNCHANGED <<registry, uri, stage, age, cached, condemned, tabs, late>>

(* serialize_dataset: writes the events of a loaded object, if it can. *)
Serialize(o) ==
  /\ fin[o] = "pending"
  /\ fin' = [fin EXCEPT ![o] = "done"]
  /\ \/ stage[o] \in Loaded /\ cached' = cached \cup {uri[o]}
     \/ UNCHANGED cached
  /\ UNCHANGED <<registry, uri, stage, age, condemned, tabs, late>>

(* The memory of a finalised object is reused. *)
Free(o) ==
  /\ fin[o] = "done" /\ stage[o] \notin Loading
  /\ fin' = [fin EXCEPT ![o] = "none"]
  /\ stage' = [stage EXCEPT ![o] = "unborn"]
  /\ uri' = [uri EXCEPT ![o] = NoUri]
  /\ UNCHANGED <<registry, age, cached, condemned, tabs, late>>

(* Time passes. The heartbeats of a connected tab are less than Timeout    *)
(* apart: that the queues of its session block them (VideoSession) for so  *)
(* long is not in this module.                                             *)
Older(n) == IF Registered(n) /\ ~Expired(n) THEN age[n] + 1 ELSE age[n]

Tick ==
  /\ \A c \in Clients, n \in Names :
       Watching(c, n) /\ Registered(n) => age[n] < Timeout
  /\ age' = [n \in Names |-> Older(n)]
  /\ UNCHANGED <<registry, objects, cached, condemned, tabs, late>>

-----------------------------------------------------------------------------
Next ==
  \/ \E c \in Clients :
       \/ \E u \in Uris : Request(c, u)
       \/ Hit(c) \/ Miss(c) \/ Poll(c) \/ Heartbeat(c) \/ Leave(c)
  \/ \E o \in Objects :
       OpenFile(o) \/ OpenFails(o) \/ ReadEvents(o) \/ Collect(o) \/ Serialize(o) \/ Free(o)
  \/ \E n \in Names : Condemn(n)
  \/ Purge
  \/ Tick

Spec == Init /\ [][Next]_vars

(* Tasks that can run do run, polls and heartbeats are on timers, and the  *)
(* collector sweeps every entry every ten seconds. Users owe nothing.      *)
Fairness ==
  /\ \A c \in Clients :
       WF_vars(Hit(c)) /\ WF_vars(Miss(c)) /\ WF_vars(Poll(c)) /\ WF_vars(Heartbeat(c))
  /\ \A o \in Objects :
       /\ WF_vars(OpenFile(o) \/ OpenFails(o)) /\ WF_vars(ReadEvents(o))
       /\ WF_vars(Collect(o)) /\ WF_vars(Serialize(o)) /\ WF_vars(Free(o))
  /\ \A n \in Names : SF_vars(Condemn(n))
  /\ WF_vars(Purge)
  /\ SF_vars(Tick)

FairSpec == Spec /\ Fairness

-----------------------------------------------------------------------------
(* What is served is live: an object in the registry is under its own key, *)
(* and its finaliser has not been scheduled. Purge, Collect and Free act   *)
(* on objects, Miss on keys: one of them working on a stale pair would     *)
(* leave a finalised or freed object being served.                         *)
ServedIsLive ==
  \A n \in Names : Registered(n) =>
    LET o == registry[n] IN
    uri[o] \in Uris /\ NameOf[uri[o]] = n /\ stage[o] # "unborn" /\ fin[o] = "none"

(* A tab displays the events of the page it asked for, or those of a page  *)
(* with the same key: the key of a page drops its directory and extension, *)
(* so that equally named files are the one way to see somebody else's data.*)
ServedOwnData ==
  \A c \in Clients : shown[c] # NoUri =>
    pc[c] = "viewing" /\ page[c] \in Uris /\ NameOf[shown[c]] = NameOf[page[c]]

(* An object that a tab watches is never expired: arrivals and heartbeats  *)
(* keep it young whatever replaced or reloaded it in between.              *)
WatchedIsFresh ==
  \A c \in Clients, n \in Names :
    Watching(c, n) /\ Registered(n) => ~Expired(n)

(* The collector takes a dataset away from a tab only if the tab arrived   *)
(* between the collector's idle check and its removal.                     *)
PurgeSparesWatched ==
  [][\A n \in Names : registry[n] # NoObj /\ registry'[n] = NoObj =>
       \A c \in Clients : Watching(c, n) => c \in late]_vars

(* The registry implements the data store: seen through its keys, a cell   *)
(* changes as a whole, by a page's insertion, the end of the loading of    *)
(* what is in it, or the collector; displaced objects, their loaders and   *)
(* finalisers never show through. A loader that died goes on loading.      *)
Status(o) ==
  IF stage[o] \in Loaded THEN "ready"
  ELSE IF stage[o] = "failed" THEN "failed" ELSE "loading"
Cells ==
  [n \in Names |->
     IF Registered(n) THEN [status |-> Status(registry[n]), uri |-> uri[registry[n]]]
     ELSE [status |-> "empty", uri |-> NoUri]]

Store == INSTANCE DataStore WITH content <- Cells, saved <- cached
ImplementsStore == Store!Spec

(* A tab that polls for its image gets it or is told that it is not there, *)
(* once no more pages are being requested, but for two cases in which its  *)
(* own heartbeats keep it asking: the loader of its dataset died opening   *)
(* the file (the answer is 202 for ever), or the dataset is loaded and no  *)
(* image can be made of it (500 for ever).                                 *)
Requesting(c) == pc[c] \in {"hit", "miss"}
Imageless(c) == Registered(Name(c)) /\ stage[registry[Name(c)]] \in {"died", "blank"}
PollSettles ==
  <>[](\A d \in Clients : ~Requesting(d)) =>
    \A c \in Clients : (pc[c] = "polling") ~> (pc[c] # "polling" \/ Imageless(c))

(* A dataset that nobody watches or requests any more leaves the registry. *)
Wanted(n) == \E c \in Clients : Watching(c, n) \/ (Requesting(c) /\ Name(c) = n)
UnwantedIsPurged ==
  \A n \in Names : <>[]~Wanted(n) => <>[](registry[n] = NoObj)
=============================================================================
