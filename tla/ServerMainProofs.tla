-------------------------- MODULE ServerMainProofs --------------------------
(***************************************************************************)
(* Proofs about the life of the server process, for any number of datasets *)
(* and handlers.                                                           *)
(***************************************************************************)
EXTENDS ServerMain, TLAPS

Leaving == {"exitFunc", "joining", "purging", "exited"}
Closed  == {"down", "closed", "forced"}

(* What main has done to the HTTP server and to the collector by now. *)
MainDirects ==
  /\ main = "starting" => http = "down"
  /\ main = "waiting" => http = "listening"
  /\ main = "stopping" => http \in {"closing", "forced"}
  /\ main \in Leaving => http \in Closed
  /\ main \in {"joining", "purging", "exited"} => ~running
  /\ main \in {"purging", "exited"} => gc = "done"

(* Only a forced close leaves handlers running behind it. *)
ClosedIsQuiet == http \in {"down", "closed"} => busy = {}

(* Nothing is in the registry but what exitFunc still has to visit. *)
PlanCovers ==
  outlived = {} =>
    /\ main = "purging" => registry \subseteq plan
    /\ main = "exited" => registry = {}

IInv ==
  /\ TypeOK
  /\ MainDirects
  /\ ClosedIsQuiet
  /\ PlanCovers

(* The collector goes on while nobody has asked the server to stop. *)
GoesOn ==
  /\ ~asked /\ main \in {"starting", "waiting"} => running /\ gc # "done"
  /\ http \in {"closing", "closed", "forced"} => asked

-----------------------------------------------------------------------------
LEMMA Initially == Init => IInv
BY DEF Init, IInv, TypeOK, MainDirects, ClosedIsQuiet, PlanCovers, Leaving, Closed

(* Each action keeps the invariant: handlers and loaders, ... *)
LEMMA HandlerStep ==
  ASSUME IInv,
         \/ \E h \in Handlers : Accept(h) \/ Answer(h) \/ \E d \in Datasets : Insert(h, d)
         \/ \E d \in Datasets : Load(d) \/ Serialize(d)
         \/ ExitRequest
  PROVE  IInv'
<1> USE DEF IInv, TypeOK, MainDirects, ClosedIsQuiet, PlanCovers, Leaving, Closed,
            Alive, tasks, datasets, history
<1>1. ASSUME NEW h \in Handlers, Accept(h) \/ Answer(h) PROVE IInv'
  BY <1>1 DEF Accept, Answer
<1>2. ASSUME NEW h \in Handlers, NEW d \in Datasets, Insert(h, d) PROVE IInv'
  <2>1. TypeOK'
    BY <1>2 DEF Insert
  <2>2. MainDirects' /\ ClosedIsQuiet'
    BY <1>2 DEF Insert
  <2>3. CASE http = "forced"
    <3>1. outlived' # {}
      BY <1>2, <2>3 DEF Insert
    <3> QED BY <2>1, <2>2, <3>1
  <2>4. CASE http # "forced"
    <3>1. main \notin Leaving
      BY <1>2, <2>4 DEF Insert
    <3> QED BY <1>2, <2>1, <2>2, <3>1 DEF Insert
  <2> QED BY <2>3, <2>4
<1>3. ASSUME NEW d \in Datasets, Load(d) \/ Serialize(d) PROVE IInv'
  BY <1>3 DEF Load, Serialize
<1>4. CASE ExitRequest
  BY <1>4 DEF ExitRequest
<1> QED BY <1>1, <1>2, <1>3, <1>4

(* ... the collector, ... *)
LEMMA CollectorStep ==
  ASSUME IInv,
         \/ GcStart \/ GcWake \/ GcFinalize \/ GcSweepEnds
         \/ \E d \in Datasets : GcPop(d)
  PROVE  IInv'
<1> USE DEF IInv, TypeOK, MainDirects, ClosedIsQuiet, PlanCovers, Leaving, Closed,
            Alive, tasks, datasets, history
<1>1. CASE GcWake
  BY <1>1 DEF GcWake
<1>5. CASE GcStart
  <2>1. gc' \in {"sleeping", "done"} /\ gc = "started"
    BY <1>5 DEF GcStart
  <2> QED BY <1>5, <2>1 DEF GcStart
<1>2. CASE GcFinalize
  BY <1>2 DEF GcFinalize
<1>3. CASE GcSweepEnds
  BY <1>3 DEF GcSweepEnds, RunFinalizers
<1>4. ASSUME NEW d \in Datasets, GcPop(d) PROVE IInv'
  BY <1>4 DEF GcPop
<1> QED BY <1>1, <1>2, <1>3, <1>4, <1>5

(* ... and main with its interrupts. *)
LEMMA MainStep ==
  ASSUME IInv,
         \/ MainListens \/ ListenFails \/ SigintMain \/ SigintGc \/ MainWakes
         \/ HttpCloses \/ HttpForced \/ CloseReturns
         \/ ExitInterrupts \/ ExitJoins \/ Exit
         \/ \E d \in Datasets : ExitPurges(d)
  PROVE  IInv'
<1> USE DEF IInv, TypeOK, MainDirects, ClosedIsQuiet, PlanCovers, Leaving, Closed,
            tasks, datasets, history
<1>1. CASE MainListens \/ ListenFails \/ SigintMain \/ MainWakes
  <2>1. CASE MainListens
    BY <2>1 DEF MainListens
  <2>2. CASE ListenFails \/ SigintMain
    BY <2>2 DEF ListenFails, SigintMain
  <2>3. CASE MainWakes
    BY <2>3 DEF MainWakes
  <2> QED BY <1>1, <2>1, <2>2, <2>3
<1>2. CASE SigintGc
  BY <1>2 DEF SigintGc, InterruptGc
<1>3. CASE HttpCloses \/ HttpForced \/ CloseReturns
  BY <1>3 DEF HttpCloses, HttpForced, CloseReturns
<1>4. CASE ExitInterrupts
  BY <1>4 DEF ExitInterrupts, InterruptGc
<1>5. CASE ExitJoins
  BY <1>5 DEF ExitJoins
<1>6. CASE Exit
  BY <1>6 DEF Exit
<1>7. ASSUME NEW d \in Datasets, ExitPurges(d) PROVE IInv'
  BY <1>7 DEF ExitPurges
<1> QED BY <1>1, <1>2, <1>3, <1>4, <1>5, <1>6, <1>7

LEMMA Inductive == IInv /\ [Next]_vars => IInv'
<1>1. ASSUME IInv, UNCHANGED vars PROVE IInv'
  BY <1>1 DEF vars, tasks, datasets, history, IInv, TypeOK, MainDirects, ClosedIsQuiet,
              PlanCovers
<1> QED BY <1>1, HandlerStep, CollectorStep, MainStep DEF Next

THEOREM Invariance == Spec => []IInv
BY Initially, Inductive, PTL DEF Spec

(* Every variable keeps its type. *)
THEOREM TypeCorrect == Spec => []TypeOK
<1>1. IInv => TypeOK
  BY DEF IInv
<1> QED BY <1>1, Invariance, PTL

(* exitFunc empties the registry when the collector has ended and no page  *)
(* request can arrive.                                                     *)
THEOREM ExitIsAlone == Spec => []PurgesAlone
<1>1. IInv => PurgesAlone
  BY DEF IInv, TypeOK, MainDirects, PurgesAlone, Leaving, Closed
<1> QED BY <1>1, Invariance, PTL

(* What is left in the registry at exit is owed to a handler that had      *)
(* outlived a forced close.                                                *)
THEOREM OnlyOutlivingHandlersLeave == Spec => []NothingLeftBehind
<1>1. IInv => NothingLeftBehind
  BY DEF IInv, PlanCovers, NothingLeftBehind
<1> QED BY <1>1, Invariance, PTL

-----------------------------------------------------------------------------
(* With a timeout, the server stops only when somebody asks it to. Without *)
(* one it is false: the run timeout_zero shows how.                        *)
LEMMA GoesOnStep ==
  ASSUME Timeout # 0, IInv, GoesOn, [Next]_vars
  PROVE  GoesOn'
<1> USE DEF GoesOn, MainDirects, IInv, Leaving, Closed, tasks, datasets, history
<1>1. ASSUME NEW h \in Handlers, NEW d \in Datasets, Insert(h, d) PROVE GoesOn'
  BY <1>1 DEF Insert
<1>2. ASSUME NEW h \in Handlers, Accept(h) \/ Answer(h) PROVE GoesOn'
  BY <1>2 DEF Accept, Answer
<1>3. ASSUME NEW d \in Datasets, Load(d) \/ Serialize(d) \/ GcPop(d) \/ ExitPurges(d)
      PROVE GoesOn'
  BY <1>3 DEF Load, Serialize, GcPop, ExitPurges
<1>4. CASE ExitRequest \/ GcStart \/ GcWake \/ GcFinalize \/ GcSweepEnds
  BY <1>4 DEF ExitRequest, GcStart, GcWake, GcFinalize, GcSweepEnds
<1>5. CASE MainListens \/ ListenFails \/ SigintMain \/ SigintGc
  BY <1>5 DEF MainListens, ListenFails, SigintMain, SigintGc
<1>6. CASE MainWakes \/ HttpCloses \/ HttpForced \/ CloseReturns
  BY <1>6 DEF MainWakes, HttpCloses, HttpForced, CloseReturns
<1>7. CASE ExitInterrupts \/ ExitJoins \/ Exit
  BY <1>7 DEF ExitInterrupts, ExitJoins, Exit
<1>8. CASE UNCHANGED vars
  BY <1>8 DEF vars
<1> QED BY <1>1, <1>2, <1>3, <1>4, <1>5, <1>6, <1>7, <1>8 DEF Next

THEOREM TimeoutKeepsServing ==
  ASSUME Timeout # 0
  PROVE  Spec => []StopsOnlyWhenAsked
<1>1. Init => GoesOn
  BY DEF Init, GoesOn
<1>2. IInv /\ GoesOn /\ [Next]_vars => GoesOn'
  BY GoesOnStep
<1>3. GoesOn => StopsOnlyWhenAsked
  BY DEF GoesOn, StopsOnlyWhenAsked
<1> QED BY <1>1, <1>2, <1>3, Invariance, PTL DEF Spec
=============================================================================
