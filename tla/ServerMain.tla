----------------------------- MODULE ServerMain -----------------------------
(***************************************************************************)
(* The life of the server process: main starts the garbage collector task  *)
(* and the HTTP server and waits for the collector to end (Julia/xwebql.jl,*)
(* main); the flag running, which /exit and an interrupt clear, ends the   *)
(* collector; main then closes the HTTP server (stop_http_server) and      *)
(* empties the registry (exitFunc). Finalising a dataset only schedules    *)
(* the task that writes it to the cache.                                   *)
(*                                                                         *)
(* How a dataset is served is the business of module Registry: here it is  *)
(* inserted once, may finish loading, and may be removed once.             *)
(***************************************************************************)
EXTENDS Naturals

CONSTANTS
  Timeout,   \* TIMEOUT: 0 when no dataset times out
  Datasets,  \* datasets that page requests insert
  Handlers   \* page requests that can be running at once

ASSUME ServerAssumption == Timeout \in Nat

VARIABLES
  running,   \* the global flag
  main,      \* where main is
  gc,        \* where the garbage collector task is
  purged,    \* whether this sweep of the collector has removed a dataset
  http,      \* the HTTP server; "forced" when it was closed by force
  busy,      \* the handlers that are executing a page request
  registry,  \* XOBJECTS
  victim,    \* datasets popped by the collector and about to be finalised
  unnamed,   \* datasets popped and never finalised: nothing refers to them
  queue,     \* datasets whose serialisation is scheduled
  finalised, \* datasets whose serialisation has run
  loaded,    \* datasets with has_events
  plan,      \* what is left of exitFunc's iteration over XOBJECTS
  asked,     \* history: whether anybody has asked the server to stop
  outlived   \* history: datasets inserted after the server was closed by force

tasks    == <<running, main, gc, purged, http, busy>>
datasets == <<registry, victim, unnamed, queue, finalised, loaded>>
history  == <<asked, outlived>>
vars     == <<tasks, datasets, plan, history>>

Inserted == registry \cup victim \cup unnamed \cup queue \cup finalised

Alive == main # "exited"

TypeOK ==
  /\ running \in BOOLEAN /\ purged \in BOOLEAN /\ asked \in BOOLEAN
  /\ main \in {"starting", "waiting", "stopping", "exitFunc", "joining", "purging", "exited"}
  /\ gc \in {"started", "sleeping", "sweeping", "popped", "done"}
  /\ http \in {"down", "listening", "closing", "closed", "forced"}
  /\ busy \subseteq Handlers
  /\ registry \subseteq Datasets /\ victim \subseteq Datasets /\ unnamed \subseteq Datasets
  /\ queue \subseteq Datasets /\ finalised \subseteq Datasets /\ loaded \subseteq Datasets
  /\ plan \subseteq Datasets /\ outlived \subseteq Datasets
  /\ victim = {} <=> gc # "popped"

Init ==
  /\ running = TRUE
  /\ main = "starting" /\ gc = "started" /\ http = "down"
  /\ purged = FALSE
  /\ busy = {}
  /\ registry = {} /\ victim = {} /\ unnamed = {} /\ queue = {} /\ finalised = {} /\ loaded = {}
  /\ plan = {}
  /\ asked = FALSE
  /\ outlived = {}

-----------------------------------------------------------------------------
(* HTTP handlers and loaders.                                              *)

Accept(h) ==
  /\ http = "listening" /\ Alive
  /\ h \notin busy
  /\ busy' = busy \cup {h}
  /\ UNCHANGED <<running, main, gc, purged, http, datasets, plan, history>>

Answer(h) ==
  /\ h \in busy /\ Alive
  /\ busy' = busy \ {h}
  /\ UNCHANGED <<running, main, gc, purged, http, datasets, plan, history>>

(* insert_dataset waits for the lock, which the collector holds while it   *)
(* removes a dataset. exitFunc iterates over the dictionary without the    *)
(* lock: after an insertion, which may rehash it, the iteration may skip   *)
(* any of what it had left, and the new entry.                             *)
Insert(h, d) ==
  /\ h \in busy /\ Alive
  /\ d \notin Inserted
  /\ gc # "popped"
  /\ registry' = registry \cup {d}
  /\ IF main = "purging" THEN plan' \in SUBSET (plan \cup {d}) ELSE UNCHANGED plan
  /\ outlived' = IF http = "forced" THEN outlived \cup {d} ELSE outlived
  /\ UNCHANGED <<tasks, victim, unnamed, queue, finalised, loaded, asked>>

Load(d) ==
  /\ d \in registry \ loaded /\ Alive
  /\ loaded' = loaded \cup {d}
  /\ UNCHANGED <<tasks, registry, victim, unnamed, queue, finalised, plan, history>>

(* /exit: gracefullyShutdown. *)
ExitRequest ==
  /\ http = "listening" /\ Alive
  /\ running' = FALSE
  /\ asked' = TRUE
  /\ UNCHANGED <<main, gc, purged, http, busy, datasets, plan, outlived>>

(* serialize_dataset, when its task gets to run. *)
Serialize(d) ==
  /\ d \in queue /\ Alive
  /\ queue' = queue \ {d}
  /\ finalised' = finalised \cup {d}
  /\ UNCHANGED <<tasks, registry, victim, unnamed, loaded, plan, history>>

-----------------------------------------------------------------------------
(* The collector task. A dataset is idle whenever it likes here.           *)

GcStart ==
  /\ gc = "started" /\ Alive
  /\ gc' = IF Timeout = 0 \/ ~running THEN "done" ELSE "sleeping"
  /\ UNCHANGED <<running, main, purged, http, busy, datasets, plan, history>>

GcWake ==
  /\ gc = "sleeping" /\ Alive
  /\ gc' = "sweeping"
  /\ purged' = FALSE
  /\ UNCHANGED <<running, main, http, busy, datasets, plan, history>>

GcPop(d) ==
  /\ gc = "sweeping" /\ d \in registry /\ Alive
  /\ gc' = "popped"
  /\ registry' = registry \ {d}
  /\ victim' = {d}
  /\ UNCHANGED <<running, main, purged, http, busy, unnamed, queue, finalised, loaded, plan, history>>

(* Faulty variants of the definition that follows, here and below: bugs    *)
(* the code could have had, each caught by a property.                     *)
GcFinalizeKeepsVictim ==
  /\ gc = "popped" /\ Alive
  /\ gc' = "sweeping"
  /\ purged' = TRUE
  /\ queue' = queue \cup victim
  /\ UNCHANGED <<running, main, http, busy, registry, victim, unnamed, finalised, loaded, plan, history>>

GcFinalize ==
  /\ gc = "popped" /\ Alive
  /\ gc' = "sweeping"
  /\ purged' = TRUE
  /\ queue' = queue \cup victim
  /\ victim' = {}
  /\ UNCHANGED <<running, main, http, busy, registry, unnamed, finalised, loaded, plan, history>>

(* GC.gc() runs the finalisers of what nothing refers to. *)
RunFinalizers ==
  /\ queue' = queue \cup unnamed
  /\ unnamed' = {}

GcSweepEndsWhenIdle ==
  /\ gc = "sweeping" /\ Alive
  /\ gc' = IF running /\ registry # {} THEN "sleeping" ELSE "done"
  /\ IF purged THEN RunFinalizers ELSE UNCHANGED <<queue, unnamed>>
  /\ UNCHANGED <<running, main, purged, http, busy, registry, victim, finalised, loaded, plan, history>>

GcSweepEndsNever ==
  /\ gc = "sweeping" /\ Alive
  /\ gc' = "sleeping"
  /\ IF purged THEN RunFinalizers ELSE UNCHANGED <<queue, unnamed>>
  /\ UNCHANGED <<running, main, purged, http, busy, registry, victim, finalised, loaded, plan, history>>

(* The end of a sweep, and the test of "while running". *)
GcSweepEnds ==
  /\ gc = "sweeping" /\ Alive
  /\ gc' = IF running THEN "sleeping" ELSE "done"
  /\ IF purged THEN RunFinalizers ELSE UNCHANGED <<queue, unnamed>>
  /\ UNCHANGED <<running, main, purged, http, busy, registry, victim, finalised, loaded, plan, history>>

(* An InterruptException in the collector: between pop! and finalize the   *)
(* inner try swallows it, anywhere else the task ends.                     *)
InterruptGc ==
  \/ /\ gc = "popped"
     /\ gc' = "sweeping"
     /\ purged' = TRUE
     /\ unnamed' = unnamed \cup victim
     /\ victim' = {}
     /\ UNCHANGED running
  \/ /\ gc \in {"sleeping", "sweeping"}
     /\ gc' = "done"
     /\ running' = FALSE
     /\ UNCHANGED <<purged, unnamed, victim>>

-----------------------------------------------------------------------------
(* main.                                                                   *)

MainListens ==
  /\ main = "starting"
  /\ main' = "waiting"
  /\ http' = "listening"
  /\ UNCHANGED <<running, gc, purged, busy, datasets, plan, history>>

(* The port is taken: the exception leaves main through exitFunc. *)
ListenFails ==
  /\ main = "starting"
  /\ main' = "exitFunc"
  /\ UNCHANGED <<running, gc, purged, http, busy, datasets, plan, history>>

(* SIGINT, delivered to main ... *)
SigintMain ==
  /\ main = "waiting"
  /\ running' = FALSE
  /\ main' = "stopping"
  /\ http' = "closing"
  /\ asked' = TRUE
  /\ UNCHANGED <<gc, purged, busy, datasets, plan, outlived>>

(* ... or to the collector, if that is the task that happens to run. *)
SigintGc ==
  /\ main = "waiting"
  /\ InterruptGc
  /\ asked' = TRUE
  /\ UNCHANGED <<main, http, busy, registry, queue, finalised, loaded, plan, outlived>>

(* wait(gc_task) returns, and the HTTP server is told to close. *)
MainWakes ==
  /\ main = "waiting" /\ gc = "done"
  /\ main' = "stopping"
  /\ http' = "closing"
  /\ UNCHANGED <<running, gc, purged, busy, datasets, plan, history>>

HttpClosesAtOnce ==
  /\ http = "closing"
  /\ http' = "closed"
  /\ main' = "exitFunc"
  /\ UNCHANGED <<running, gc, purged, busy, datasets, plan, history>>

(* stop_http_server: close(server) waits for the running handlers ...      *)
HttpCloses ==
  /\ http = "closing" /\ busy = {}
  /\ http' = "closed"
  /\ main' = "exitFunc"
  /\ UNCHANGED <<running, gc, purged, busy, datasets, plan, history>>

(* ... for five seconds; then their connections are closed by force, and   *)
(* they run on, ...                                                        *)
HttpForced ==
  /\ http = "closing" /\ busy # {}
  /\ http' = "forced"
  /\ UNCHANGED <<running, main, gc, purged, busy, datasets, plan, history>>

(* ... and main waits for close(server) again. That it returns now, with   *)
(* or without the handlers, is the business of the HTTP library.           *)
CloseReturns ==
  /\ http = "forced" /\ main = "stopping"
  /\ main' = "exitFunc"
  /\ UNCHANGED <<running, gc, purged, http, busy, datasets, plan, history>>

(* exitFunc interrupts the collector if it is still there ... *)
ExitInterrupts ==
  /\ main = "exitFunc"
  /\ main' = "joining"
  /\ \/ /\ gc \in {"started", "done"}
        /\ running' = FALSE
        /\ gc' = "done"
        /\ UNCHANGED <<purged, unnamed, victim>>
     \/ /\ gc \notin {"started", "done"}
        /\ InterruptGc
        /\ running' = FALSE
  /\ UNCHANGED <<http, busy, registry, queue, finalised, loaded, plan, history>>

ExitDoesNotJoin ==
  /\ main = "joining"
  /\ main' = "purging"
  /\ plan' = registry
  /\ UNCHANGED <<running, gc, purged, http, busy, datasets, history>>

(* ... waits for it, and starts to iterate over the registry. *)
ExitJoins ==
  /\ main = "joining" /\ gc = "done"
  /\ main' = "purging"
  /\ plan' = registry
  /\ UNCHANGED <<running, gc, purged, http, busy, datasets, history>>

(* One dataset: popped and finalised under the lock, then GC.gc(). *)
ExitPurges(d) ==
  /\ main = "purging" /\ d \in plan
  /\ registry' = registry \ {d}
  /\ plan' = plan \ {d}
  /\ queue' = queue \cup {d} \cup unnamed
  /\ unnamed' = {}
  /\ UNCHANGED <<tasks, victim, finalised, loaded, history>>

(* main returns and the process ends, whatever is still scheduled. *)
Exit ==
  /\ main = "purging" /\ plan = {}
  /\ main' = "exited"
  /\ UNCHANGED <<running, gc, purged, http, busy, datasets, plan, history>>

-----------------------------------------------------------------------------
Next ==
  \/ \E h \in Handlers : Accept(h) \/ Answer(h) \/ \E d \in Datasets : Insert(h, d)
  \/ \E d \in Datasets : Load(d) \/ Serialize(d) \/ GcPop(d) \/ ExitPurges(d)
  \/ ExitRequest
  \/ GcStart \/ GcWake \/ GcFinalize \/ GcSweepEnds
  \/ MainListens \/ ListenFails \/ SigintMain \/ SigintGc \/ MainWakes
  \/ HttpCloses \/ HttpForced \/ CloseReturns \/ ExitInterrupts \/ ExitJoins \/ Exit

Spec == Init /\ [][Next]_vars

(* The tasks of the process run; who asks for what, and when, is free. A   *)
(* sweep ends: it visits each entry once. The HTTP library is relied upon  *)
(* to return from close(server) once the connections are closed by force.  *)
Fairness ==
  /\ WF_vars(GcStart) /\ WF_vars(GcWake) /\ WF_vars(GcFinalize) /\ WF_vars(GcSweepEnds)
  /\ WF_vars(MainListens \/ ListenFails) /\ WF_vars(MainWakes)
  /\ WF_vars(HttpCloses \/ HttpForced) /\ WF_vars(CloseReturns)
  /\ WF_vars(ExitInterrupts) /\ WF_vars(ExitJoins) /\ WF_vars(Exit)
  /\ \A d \in Datasets : WF_vars(ExitPurges(d))

FairSpec == Spec /\ Fairness

-----------------------------------------------------------------------------
(* Once it listens, the server goes on until somebody asks it to stop: the *)
(* collector, whose end is main's signal, does not end of itself.          *)
StopsOnlyWhenAsked == http \in {"closing", "closed", "forced"} => asked

(* exitFunc empties the registry alone: the collector has ended, and no    *)
(* page request can arrive any more.                                       *)
PurgesAlone ==
  main \in {"purging", "exited"} =>
    gc = "done" /\ victim = {} /\ http # "listening" /\ ~running

(* If the process leaves a dataset behind in the registry, a handler that  *)
(* had outlived a forced close inserted one into it.                       *)
NothingLeftBehind == main = "exited" /\ registry # {} => outlived # {}

(* When running is cleared, the process exits. *)
StopCompletes == ~running ~> main = "exited"

(* xwebql.jl:694: "serialize when the object is removed from XOBJECTS": at *)
(* exit, every dataset that has its events and was removed has been serialised.  *)
ExitSerialises == main = "exited" => queue \cap loaded = {}
=============================================================================
