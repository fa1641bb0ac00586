------------------------- MODULE LoadProgressProofs -------------------------
(***************************************************************************)
(* Proofs about progress reports, for downloads of any size and any number *)
(* of pollers.                                                             *)
(***************************************************************************)
EXTENDS LoadProgress, TLAPS

(* The loader's fields. Before the reset they are libcurl's, and never run *)
(* ahead of what has arrived; after it they are those of a finished load.  *)
FieldsFollowLoader ==
  /\ loader \notin Reset => progress <= received /\ arg <= received
  /\ loader \notin Reset => total \in {0, Size} /\ (sized \/ total = 0)
  /\ loader \in Reset => total = 1
  /\ loader \in Reset \ {"total_set"} => progress = 1
  /\ remote /\ loader \in Opened => received = Size
  /\ loader \in {"downloading", "callback"} => remote
  /\ ~remote => progress <= 1 /\ received = 0

(* A request that is past its guard reads a total that is not 0. *)
TotalStaysSet ==
  \A p \in Pollers : poll[p] \in {"num", "den"} => total # 0

(* What a request has read: nothing ahead of what had arrived. *)
NumIsPast ==
  \A p \in Pollers :
    /\ loader \notin Reset => num[p] <= received
    /\ ~remote => num[p] <= 1

(* What a poller has been told: before the file is opened, a fraction of   *)
(* Size chunks that have arrived, and at most 1/1 for a local file.        *)
AnswerIsPast ==
  \A p \in Pollers :
    /\ loader \notin Reset =>
         answer[p].num <= received /\ (answer[p].num = 0 \/ answer[p].den = Size)
    /\ ~remote => answer[p].num <= 1

IInv ==
  /\ TypeOK
  /\ FieldsFollowLoader
  /\ TotalStaysSet
  /\ NumIsPast
  /\ AnswerIsPast

-----------------------------------------------------------------------------
LEMMA Initially == Init => IInv
BY ProgressAssumption
DEF Init, IInv, TypeOK, Opened, Reset, FieldsFollowLoader, TotalStaysSet, NumIsPast, AnswerIsPast

(* A step of the loader keeps the invariant. *)
LEMMA LoaderStep ==
  ASSUME IInv,
         \/ OpenLocal \/ StartDownload \/ Receive \/ CallbackTotal \/ CallbackProgress
         \/ DownloadFails \/ DownloadEnds \/ SetTotal \/ SetProgress \/ ReadEvents
  PROVE  IInv'
<1> USE ProgressAssumption DEF GoTo, requests, Opened, Reset
<1>1. TypeOK'
  <2>1. CASE OpenLocal
    BY <2>1 DEF IInv, TypeOK, OpenLocal
  <2>2. CASE StartDownload \/ DownloadFails \/ DownloadEnds
    BY <2>2 DEF IInv, TypeOK, StartDownload, DownloadFails, DownloadEnds
  <2>3. CASE Receive
    BY <2>3 DEF IInv, TypeOK, Receive
  <2>4. CASE CallbackTotal
    BY <2>4 DEF IInv, TypeOK, CallbackTotal
  <2>5. CASE CallbackProgress
    BY <2>5 DEF IInv, TypeOK, CallbackProgress
  <2>6. CASE SetTotal \/ SetProgress
    BY <2>6 DEF IInv, TypeOK, SetTotal, SetProgress
  <2>7. CASE ReadEvents
    BY <2>7 DEF IInv, TypeOK, ReadEvents
  <2> QED BY <2>1, <2>2, <2>3, <2>4, <2>5, <2>6, <2>7
<1>2. FieldsFollowLoader'
  <2>1. CASE OpenLocal
    BY <2>1 DEF IInv, TypeOK, FieldsFollowLoader, OpenLocal
  <2>2. CASE StartDownload \/ DownloadFails \/ DownloadEnds
    BY <2>2 DEF IInv, TypeOK, FieldsFollowLoader, StartDownload, DownloadFails, DownloadEnds
  <2>3. CASE Receive
    BY <2>3 DEF IInv, TypeOK, FieldsFollowLoader, Receive
  <2>4. CASE CallbackTotal
    BY <2>4 DEF IInv, TypeOK, FieldsFollowLoader, CallbackTotal
  <2>5. CASE CallbackProgress
    BY <2>5 DEF IInv, TypeOK, FieldsFollowLoader, CallbackProgress
  <2>6. CASE SetTotal \/ SetProgress
    BY <2>6 DEF IInv, TypeOK, FieldsFollowLoader, SetTotal, SetProgress
  <2>7. CASE ReadEvents
    BY <2>7 DEF IInv, TypeOK, FieldsFollowLoader, ReadEvents
  <2> QED BY <2>1, <2>2, <2>3, <2>4, <2>5, <2>6, <2>7
<1>3. /\ UNCHANGED <<remote, poll, num, answer>>
      /\ received <= received'
      /\ loader \in Reset => loader' \in Reset
      /\ total # 0 => total' # 0
  <2> USE DEF IInv, TypeOK, FieldsFollowLoader
  <2>1. CASE OpenLocal \/ StartDownload \/ DownloadFails \/ DownloadEnds
    BY <2>1 DEF OpenLocal, StartDownload, DownloadFails, DownloadEnds
  <2>2. CASE Receive
    BY <2>2 DEF Receive
  <2>3. CASE CallbackTotal \/ CallbackProgress
    BY <2>3 DEF CallbackTotal, CallbackProgress
  <2>4. CASE SetTotal \/ SetProgress
    BY <2>4 DEF SetTotal, SetProgress
  <2>5. CASE ReadEvents
    BY <2>5 DEF ReadEvents
  <2> QED BY <2>1, <2>2, <2>3, <2>4, <2>5
<1>4. TotalStaysSet' /\ NumIsPast' /\ AnswerIsPast'
  BY <1>1, <1>3 DEF IInv, TypeOK, TotalStaysSet, NumIsPast, AnswerIsPast
<1> QED BY <1>1, <1>2, <1>4 DEF IInv

(* A step of a request keeps the invariant. *)
LEMMA RequestStep ==
  ASSUME IInv, NEW p \in Pollers, Ask(p) \/ Guard(p) \/ ReadNum(p) \/ ReadDen(p)
  PROVE  IInv'
<1> USE ProgressAssumption DEF load
<1>1. UNCHANGED load
  BY DEF Ask, Guard, ReadNum, ReadDen
<1>2. FieldsFollowLoader'
  BY <1>1 DEF IInv, FieldsFollowLoader
<1>3. CASE Ask(p)
  BY <1>1, <1>2, <1>3 DEF IInv, TypeOK, Ask, TotalStaysSet, NumIsPast, AnswerIsPast
<1>4. CASE Guard(p)
  <2>1. TypeOK'
    BY <1>1, <1>4 DEF IInv, TypeOK, Guard, React
  <2>2. TotalStaysSet' /\ NumIsPast' /\ AnswerIsPast'
    BY <1>1, <1>4, <2>1
    DEF IInv, TypeOK, Guard, React, TotalStaysSet, NumIsPast, AnswerIsPast
  <2> QED BY <1>2, <2>1, <2>2 DEF IInv
<1>5. CASE ReadNum(p)
  <2>1. TypeOK'
    BY <1>1, <1>5 DEF IInv, TypeOK, ReadNum
  <2>2. TotalStaysSet' /\ NumIsPast' /\ AnswerIsPast'
    BY <1>1, <1>5, <2>1
    DEF IInv, TypeOK, FieldsFollowLoader, ReadNum, TotalStaysSet, NumIsPast, AnswerIsPast
  <2> QED BY <1>2, <2>1, <2>2 DEF IInv
<1>6. CASE ReadDen(p)
  <2>1. total \in {1, Size} /\ (loader \notin Reset => total = Size)
    BY <1>6 DEF IInv, TypeOK, FieldsFollowLoader, TotalStaysSet, ReadDen
  <2>2. TypeOK'
    BY <1>1, <1>6, <2>1 DEF IInv, TypeOK, ReadDen, React
  <2>3. TotalStaysSet' /\ NumIsPast'
    BY <1>1, <1>6 DEF IInv, TypeOK, ReadDen, React, TotalStaysSet, NumIsPast
  <2>4. AnswerIsPast'
    BY <1>1, <1>6, <2>1 DEF IInv, TypeOK, ReadDen, React, NumIsPast, AnswerIsPast
  <2> QED BY <1>2, <2>2, <2>3, <2>4 DEF IInv
<1> QED BY <1>3, <1>4, <1>5, <1>6

LEMMA Inductive == IInv /\ [Next]_vars => IInv'
<1>1. ASSUME IInv, UNCHANGED vars PROVE IInv'
  BY <1>1 DEF vars, load, requests, IInv, TypeOK, FieldsFollowLoader, TotalStaysSet,
              NumIsPast, AnswerIsPast
<1> QED BY <1>1, LoaderStep, RequestStep DEF Next

THEOREM Invariance == Spec => []IInv
BY Initially, Inductive, PTL DEF Spec

(* Every variable keeps its type: in particular no answer divides by 0. *)
THEOREM TypeCorrect == Spec => []TypeOK
<1>1. IInv => TypeOK
  BY DEF IInv
<1> QED BY <1>1, Invariance, PTL

(* Nobody is told 100% of a file that has not arrived. *)
THEOREM FullIsFetched == Spec => []FullMeansFetched
<1>1. IInv => FullMeansFetched
  BY ProgressAssumption
  DEF IInv, TypeOK, FieldsFollowLoader, AnswerIsPast, FullMeansFetched, Opened, Reset
<1> QED BY <1>1, Invariance, PTL

(* More than 100% is only told about a remote file, after the reset. *)
THEOREM OverflowIsAtReset == Spec => []OverflowOnlyAtReset
<1>1. IInv => OverflowOnlyAtReset
  BY ProgressAssumption DEF IInv, TypeOK, AnswerIsPast, OverflowOnlyAtReset
<1> QED BY <1>1, Invariance, PTL

-----------------------------------------------------------------------------
(* Progress does not fall back. A poller that has been told something, but *)
(* not yet everything, ...                                                 *)
Waits(p) == poll[p] \notin {"complete", "refused", "anomaly"} /\ answer[p].num > 0

(* ... has been told it when less had arrived, or before the reset, ...    *)
Ahead(n, p) == n >= (IF loader \in Reset THEN 1 ELSE answer[p].num)

(* ... and the fields, and what it has read of them since, are ahead of it.*)
RequestsAreAhead ==
  /\ loader = "callback" => progress <= arg
  /\ \A p \in Pollers : poll[p] \in {"idle", "guard", "num", "den"} => answer[p].num < answer[p].den
  /\ \A p \in Pollers : poll[p] = "den" /\ loader \notin Reset => num[p] <= progress
  /\ \A p \in Pollers : Waits(p) =>
       total # 0 /\ Ahead(progress, p) /\ (poll[p] = "den" => Ahead(num[p], p))

LEMMA LoaderKeepsAhead ==
  ASSUME IInv, RequestsAreAhead,
         \/ OpenLocal \/ StartDownload \/ Receive \/ CallbackTotal \/ CallbackProgress
         \/ DownloadFails \/ DownloadEnds \/ SetTotal \/ SetProgress \/ ReadEvents
  PROVE  RequestsAreAhead'
<1> USE ProgressAssumption DEF GoTo, requests, Opened, Reset
<1>1. /\ UNCHANGED <<poll, num, answer>>
      /\ total # 0 => total' # 0
      /\ loader' = "callback" => progress' <= arg'
      /\ \/ loader' \notin Reset /\ progress' >= progress /\ loader \notin Reset
         \/ loader' \in Reset /\ (progress' >= 1 \/ progress' >= progress)
  <2> USE DEF IInv, TypeOK, FieldsFollowLoader, RequestsAreAhead
  <2>1. CASE OpenLocal \/ StartDownload \/ DownloadFails \/ DownloadEnds
    BY <2>1 DEF OpenLocal, StartDownload, DownloadFails, DownloadEnds
  <2>2. CASE Receive
    BY <2>2 DEF Receive
  <2>3. CASE CallbackTotal
    BY <2>3 DEF CallbackTotal
  <2>4. CASE CallbackProgress
    BY <2>4 DEF CallbackProgress
  <2>5. CASE SetTotal \/ SetProgress
    BY <2>5 DEF SetTotal, SetProgress
  <2>6. CASE ReadEvents
    BY <2>6 DEF ReadEvents
  <2> QED BY <2>1, <2>2, <2>3, <2>4, <2>5, <2>6
<1>2. \A p \in Pollers : num[p] \in Nat /\ answer[p].num \in Nat /\ progress \in Nat /\ progress' \in Nat
  BY LoaderStep DEF IInv, TypeOK
<1>3. \A p \in Pollers : Waits(p)' <=> Waits(p)
  BY <1>1 DEF Waits
<1> QED BY <1>1, <1>2, <1>3 DEF RequestsAreAhead, Ahead, Waits

LEMMA RequestKeepsAhead ==
  ASSUME IInv, RequestsAreAhead, NEW q \in Pollers, Ask(q) \/ Guard(q) \/ ReadNum(q) \/ ReadDen(q)
  PROVE  RequestsAreAhead'
<1> USE ProgressAssumption DEF load
<1>1. UNCHANGED load
  BY DEF Ask, Guard, ReadNum, ReadDen
<1>2. IInv'
  BY RequestStep
<1>3. \A p \in Pollers : p # q =>
        poll'[p] = poll[p] /\ num'[p] = num[p] /\ answer'[p] = answer[p]
  BY DEF IInv, TypeOK, Ask, Guard, ReadNum, ReadDen, React
<1>4. \A p \in Pollers : p # q /\ Waits(p)' =>
        total' # 0 /\ Ahead(progress, p)' /\ (poll'[p] = "den" => Ahead(num[p], p)')
  BY <1>1, <1>3 DEF RequestsAreAhead, Ahead, Waits
<1>5. poll'[q] \in {"idle", "guard", "num", "den"} => answer'[q].num < answer'[q].den
  BY DEF IInv, TypeOK, Ask, Guard, ReadNum, ReadDen, React, RequestsAreAhead
<1>6. poll'[q] = "den" /\ loader' \notin Reset => num'[q] <= progress'
  BY <1>1 DEF IInv, TypeOK, Ask, Guard, ReadNum, ReadDen, React, RequestsAreAhead
<1>7. Waits(q)' => total' # 0 /\ Ahead(progress, q)' /\ (poll'[q] = "den" => Ahead(num[q], q)')
  <2> USE DEF RequestsAreAhead, Ahead, Waits, IInv, TypeOK, FieldsFollowLoader
  <2>1. CASE Ask(q)
    BY <1>1, <2>1 DEF Ask
  <2>2. CASE Guard(q)
    BY <1>1, <2>2 DEF Guard, React
  <2>3. CASE ReadNum(q)
    BY <1>1, <2>3 DEF ReadNum
  <2>4. CASE ReadDen(q)
    <3>1. poll[q] = "den" /\ total # 0 /\ num'[q] = num[q]
      BY <2>4 DEF ReadDen, TotalStaysSet
    <3>2. answer'[q] = [num |-> num[q], den |-> total]
      BY <2>4 DEF ReadDen, React
    <3>3. Waits(q)' => num[q] < total /\ num[q] > 0 /\ poll'[q] = "idle"
      BY <1>5, <2>4, <3>2 DEF ReadDen, React
    <3>4. Waits(q)' => loader \notin Reset
      BY <3>3
    <3> QED BY <1>1, <3>1, <3>2, <3>3, <3>4
  <2> QED BY <2>1, <2>2, <2>3, <2>4
<1> QED BY <1>1, <1>3, <1>4, <1>5, <1>6, <1>7 DEF RequestsAreAhead

LEMMA AheadStep == IInv /\ RequestsAreAhead /\ [Next]_vars => RequestsAreAhead'
<1>1. ASSUME RequestsAreAhead, UNCHANGED vars PROVE RequestsAreAhead'
  BY <1>1 DEF vars, load, requests, RequestsAreAhead, Waits, Ahead
<1> QED BY <1>1, LoaderKeepsAhead, RequestKeepsAhead DEF Next

LEMMA NoLess ==
  ASSUME NEW a \in Nat, NEW b \in Nat, NEW c \in Nat, a >= b
  PROVE  a * c >= b * c
OBVIOUS

(* A new answer is at least the one before: the same fraction of the same  *)
(* size has arrived, or the file is there.                                 *)
LEMMA NewAnswerIsMore ==
  ASSUME IInv, RequestsAreAhead, NEW p \in Pollers, Guard(p) \/ ReadDen(p), answer'[p] # answer[p]
  PROVE  answer'[p].num * answer[p].den >= answer[p].num * answer'[p].den
<1> USE ProgressAssumption
<1>1. /\ answer[p].num \in Nat /\ answer[p].den \in {1, Size} /\ num[p] \in Nat /\ Size \in Nat \ {0}
      /\ poll[p] \in {"guard", "den"} /\ answer[p].num < answer[p].den
  BY DEF IInv, TypeOK, RequestsAreAhead, Guard, ReadDen
<1>2. CASE answer[p].num = 0
  <2>1. answer'[p].num \in Nat /\ answer'[p].den \in Nat
    BY DEF IInv, TypeOK, Guard, ReadDen, React
  <2> QED BY <1>1, <1>2, <2>1
<1>3. CASE answer[p].num > 0
  <2>1. Waits(p)
    BY <1>1, <1>3 DEF Waits
  <2>2. answer[p].den = Size
    BY <1>1, <1>3
  <2>3. ReadDen(p) /\ poll[p] = "den"
    BY <2>1 DEF RequestsAreAhead, Guard, ReadDen
  <2>4. answer'[p] = [num |-> num[p], den |-> total] /\ total \in {1, Size}
    BY <2>1, <2>3 DEF ReadDen, React, IInv, TypeOK, RequestsAreAhead
  <2>5. Ahead(num[p], p)
    BY <2>1, <2>3 DEF RequestsAreAhead
  <2>6. CASE loader \in Reset
    <3>1. num[p] >= 1 /\ total = 1
      BY <2>5, <2>6 DEF Ahead, IInv, FieldsFollowLoader
    <3>2. num[p] * Size >= 1 * Size
      BY <1>1, <3>1, NoLess
    <3>3. num[p] * Size \in Nat
      BY <1>1
    <3> QED BY <1>1, <2>2, <2>4, <3>1, <3>2, <3>3
  <2>7. CASE loader \notin Reset
    <3>1. num[p] >= answer[p].num /\ total \in {0, Size}
      BY <2>5, <2>7 DEF Ahead, IInv, FieldsFollowLoader
    <3>2. total = Size
      BY <1>1, <2>4, <3>1
    <3>3. num[p] * Size >= answer[p].num * Size
      BY <1>1, <3>1, NoLess
    <3> QED BY <2>2, <2>4, <3>2, <3>3
  <2> QED BY <2>6, <2>7
<1> QED BY <1>1, <1>2, <1>3

(* However the reads of a request fall between the writes of the loader,   *)
(* its answer is not below the one that its poller had before.             *)
THEOREM ProgressIsMonotone == Spec => ProgressNeverFallsBack
<1> DEFINE Advances == \A p \in Pollers : answer'[p].num * answer[p].den >= answer[p].num * answer'[p].den
<1>1. Init => RequestsAreAhead
  BY DEF Init, RequestsAreAhead, Waits
<1>2. ASSUME IInv, RequestsAreAhead, [Next]_vars PROVE [Advances]_vars
  <2>1. SUFFICES ASSUME NEW p \in Pollers
                 PROVE  answer'[p].num * answer[p].den >= answer[p].num * answer'[p].den
    OBVIOUS
  <2>2. CASE answer'[p] = answer[p]
    <3>1. answer[p].num * answer[p].den \in Nat
      BY ProgressAssumption, <1>2 DEF IInv, TypeOK
    <3> QED BY <2>2, <3>1
  <2>3. CASE answer'[p] # answer[p]
    <3>1. Guard(p) \/ ReadDen(p)
      <4>1. \A q \in Pollers : Guard(q) \/ ReadDen(q) => q = p
        BY <1>2, <2>1, <2>3 DEF IInv, TypeOK, Guard, ReadDen, React
      <4>2. \A q \in Pollers : ~Ask(q) /\ ~ReadNum(q)
        BY <2>3 DEF Ask, ReadNum
      <4> QED BY <1>2, <2>1, <2>3, <4>1, <4>2
              DEF Next, vars, requests, GoTo, OpenLocal, StartDownload, Receive, CallbackTotal,
                  CallbackProgress, DownloadFails, DownloadEnds, SetTotal, SetProgress, ReadEvents
    <3> QED BY <1>2, <2>3, <3>1, NewAnswerIsMore
  <2> QED BY <2>2, <2>3
<1>3. IInv /\ RequestsAreAhead /\ [Next]_vars => [Advances]_vars
  BY <1>2
<1>4. IInv /\ RequestsAreAhead /\ [Next]_vars => (IInv /\ RequestsAreAhead)'
  BY Inductive, AheadStep
<1> QED BY <1>1, <1>3, <1>4, Initially, PTL DEF Spec, ProgressNeverFallsBack
=============================================================================
