---------------------------- MODULE LoadProgress ----------------------------
(***************************************************************************)
(* The progress of one load: load_events (Julia/xevent.jl) stores the      *)
(* numbers of a download, and then of the finished load, in two atomic     *)
(* fields, total and progress, while progress requests (streamProgress,    *)
(* get_progress) read them one at a time. Two kinds of client poll: the    *)
(* browser (poll_progress in xwebql.js) and the cache warmer               *)
(* (Julia/preload_xrism.jl).                                               *)
(*                                                                         *)
(* The warmer asks for local files: it meets a download when a page has    *)
(* registered one under the same name.                                     *)
(*                                                                         *)
(* An answer is the fraction 100 * num / den, kept as the pair.            *)
(***************************************************************************)
EXTENDS Naturals

CONSTANTS
  Size,      \* chunks in the body of a download
  Browsers,  \* polling browser tabs
  Warmers    \* polling cache warmers

Pollers == Browsers \cup Warmers

ASSUME ProgressAssumption ==
  /\ Size \in Nat \ {0}
  /\ Browsers \cap Warmers = {}

VARIABLES
  remote,    \* whether the uri starts with http or ftp
  sized,     \* whether the peer announces the length of the body
  received,  \* chunks that libcurl has received
  loader,    \* where load_events is
  arg,       \* the "progress" argument of the running download callback
  total,     \* xdataset.total[]
  progress,  \* xdataset.progress[]
  poll,      \* where each poller's request is
  num,       \* the numerator a request has read
  answer     \* the last answer each poller got

load     == <<remote, sized, received, loader, arg, total, progress>>
requests == <<poll, num, answer>>
vars     == <<load, requests>>

(* load_events has opened the file, has set total, has set both. *)
Opened == {"opened", "total_set", "reading", "ready", "failed_read"}
Reset  == {"total_set", "reading", "ready", "failed_read"}

has_error  == loader \in {"failed", "failed_read"}
has_events == loader = "ready"

TypeOK ==
  /\ remote \in BOOLEAN /\ sized \in BOOLEAN
  /\ received \in 0 .. Size
  /\ loader \in {"spawned", "downloading", "callback", "failed", "died"} \cup Opened
  /\ arg \in 0 .. Size
  /\ total \in {0, 1, Size}
  /\ progress \in 0 .. Size
  /\ poll \in [Pollers -> {"idle", "guard", "num", "den",
                           "complete", "refused", "anomaly"}]
  /\ num \in [Pollers -> 0 .. Size]
  /\ answer \in [Pollers -> [num : 0 .. Size, den : {1, Size}]]

Init ==
  /\ remote \in BOOLEAN /\ sized \in BOOLEAN
  /\ received = 0 /\ arg = 0 /\ total = 0 /\ progress = 0
  /\ loader = "spawned"
  /\ poll = [p \in Pollers |-> "idle"]
  /\ num = [p \in Pollers |-> 0]
  /\ answer = [p \in Pollers |-> [num |-> 0, den |-> 1]]

-----------------------------------------------------------------------------
(* The loader.                                                             *)

GoTo(next) == loader' = next /\ UNCHANGED <<remote, sized, requests>>

(* A local file is opened outside any try: a failure ends the task and     *)
(* leaves both has_events and has_error unset.                             *)
OpenLocal ==
  /\ loader = "spawned" /\ ~remote
  /\ \E next \in {"opened", "died"} : GoTo(next)
  /\ UNCHANGED <<received, arg, total, progress>>

StartDownload ==
  /\ loader = "spawned" /\ remote
  /\ GoTo("downloading")
  /\ UNCHANGED <<received, arg, total, progress>>

Receive ==
  /\ loader \in {"downloading", "callback"} /\ received < Size
  /\ received' = received + 1
  /\ GoTo(loader)
  /\ UNCHANGED <<arg, total, progress>>

(* Faulty variants of the definition that follows, here and below: bugs    *)
(* the code could have had, each caught by a property.                     *)
CallbackTotalSoFar ==
  /\ loader = "downloading"
  /\ \E now \in progress .. received :
       /\ arg' = now
       /\ total' = IF sized /\ now > 0 THEN now ELSE 0
  /\ GoTo("callback")
  /\ UNCHANGED <<received, progress>>

CallbackSwapped ==
  /\ loader = "downloading"
  /\ \E now \in progress .. received :
       /\ arg' = IF sized THEN Size ELSE 0
       /\ total' = now
  /\ GoTo("callback")
  /\ UNCHANGED <<received, progress>>

(* download_progress(total, progress): total first, ... *)
CallbackTotal ==
  /\ loader = "downloading"
  /\ \E now \in progress .. received :
       /\ arg' = now
       /\ total' = IF sized THEN Size ELSE 0
  /\ GoTo("callback")
  /\ UNCHANGED <<received, progress>>

(* ... then progress. *)
CallbackProgress ==
  /\ loader = "callback"
  /\ progress' = arg
  /\ GoTo("downloading")
  /\ UNCHANGED <<received, arg, total>>

(* The download, or opening the downloaded file, failed: has_error. *)
DownloadFails ==
  /\ loader = "downloading"
  /\ GoTo("failed")
  /\ UNCHANGED <<received, arg, total, progress>>

DownloadEnds ==
  /\ loader = "downloading" /\ received = Size
  /\ GoTo("opened")
  /\ UNCHANGED <<received, arg, total, progress>>

SetTotalForgotten ==
  /\ loader = "opened"
  /\ total' = IF total = 0 THEN 1 ELSE total
  /\ GoTo("total_set")
  /\ UNCHANGED <<received, arg, progress>>

(* The bar is set to 100%: total first, then progress, before the events   *)
(* are read.                                                               *)
SetTotal ==
  /\ loader = "opened"
  /\ total' = 1
  /\ GoTo("total_set")
  /\ UNCHANGED <<received, arg, progress>>

SetProgress ==
  /\ loader = "total_set"
  /\ progress' = 1
  /\ GoTo("reading")
  /\ UNCHANGED <<received, arg, total>>

ReadEvents ==
  /\ loader = "reading"
  /\ \E next \in {"ready", "failed_read"} : GoTo(next)
  /\ UNCHANGED <<received, arg, total, progress>>

-----------------------------------------------------------------------------
(* The progress requests and the pollers' reactions to their answers.      *)

AskIgnoresError(p) ==
  /\ poll[p] = "idle"
  /\ poll' = [poll EXCEPT ![p] = "guard"]
  /\ UNCHANGED <<load, num, answer>>

(* The request is refused with a 500 once has_error is set. *)
Ask(p) ==
  /\ poll[p] = "idle"
  /\ poll' = [poll EXCEPT ![p] = IF has_error THEN "refused" ELSE "guard"]
  /\ UNCHANGED <<load, num, answer>>

(* The browser stops at 100% or above. The warmer stops at exactly 100%    *)
(* and throws a DomainError above. Both ask again below.                   *)
React(p, n, d) ==
  /\ answer' = [answer EXCEPT ![p] = [num |-> n, den |-> d]]
  /\ poll' = [poll EXCEPT ![p] =
       IF n < d THEN "idle"
       ELSE IF n > d /\ p \in Warmers THEN "anomaly"
       ELSE "complete"]

(* get_progress: if total[] > 0 ... *)
Guard(p) ==
  /\ poll[p] = "guard"
  /\ \/ /\ total = 0
        /\ React(p, 0, 1)
     \/ /\ total > 0
        /\ poll' = [poll EXCEPT ![p] = "num"]
        /\ UNCHANGED answer
  /\ UNCHANGED <<load, num>>

(* ... 100.0 * progress[] ... *)
ReadNum(p) ==
  /\ poll[p] = "num"
  /\ num' = [num EXCEPT ![p] = progress]
  /\ poll' = [poll EXCEPT ![p] = "den"]
  /\ UNCHANGED <<load, answer>>

(* ... / total[]. *)
ReadDen(p) ==
  /\ poll[p] = "den"
  /\ React(p, num[p], total)
  /\ UNCHANGED <<load, num>>

Next ==
  \/ OpenLocal \/ StartDownload \/ Receive \/ CallbackTotal \/ CallbackProgress
  \/ DownloadFails \/ DownloadEnds \/ SetTotal \/ SetProgress \/ ReadEvents
  \/ \E p \in Pollers : Ask(p) \/ Guard(p) \/ ReadNum(p) \/ ReadDen(p)

Spec == Init /\ [][Next]_vars

(* The loader runs, downloads progress, and pollers poll on a timer. *)
Fairness ==
  /\ WF_vars(OpenLocal) /\ WF_vars(StartDownload) /\ WF_vars(Receive)
  /\ WF_vars(CallbackProgress) /\ SF_vars(DownloadEnds)
  /\ WF_vars(SetTotal) /\ WF_vars(SetProgress) /\ WF_vars(ReadEvents)
  /\ \A p \in Pollers : WF_vars(Ask(p) \/ Guard(p) \/ ReadNum(p) \/ ReadDen(p))

FairSpec == Spec /\ Fairness

-----------------------------------------------------------------------------
(* An answer of 100% is only given when every byte has arrived, and for a  *)
(* local file when it has been opened, however the reads of the request    *)
(* fall between the writes of the loader.                                  *)
FullMeansFetched ==
  \A p \in Pollers : answer[p].num = answer[p].den =>
    received = Size \/ loader \in Opened

(* An answer above 100% mixes the byte count of a download with the total  *)
(* of a finished load: never for a local file, never during the download.  *)
OverflowOnlyAtReset ==
  \A p \in Pollers : answer[p].num > answer[p].den =>
    remote /\ loader \in Reset /\ answer[p].den = 1

(* A poller's progress never moves back. *)
ProgressNeverFallsBack ==
  [][\A p \in Pollers :
       answer'[p].num * answer[p].den >= answer[p].num * answer'[p].den]_vars

(* Every poller comes to an end, unless the loader died on a local file:   *)
(* progress then stays at 0 and the polls keep the dataset alive for ever. *)
PollersStop ==
  \A p \in Pollers :
    <>(poll[p] \in {"complete", "refused", "anomaly"} \/ loader = "died")

(* preload_xrism.jl:95: "throw a DomainError if the progress is over 100%  *)
(* (should not happen, ...)".                                              *)
NoAnomaly == \A p \in Warmers : poll[p] # "anomaly"

(* preload_xrism.jl:84: "wait until a dataset has been loaded": when the   *)
(* warmer stops waiting, the events are there (or loading them failed).    *)
WarmerWaits == \A p \in Warmers : poll[p] = "complete" => has_events \/ has_error
=============================================================================
