---------------------------- MODULE VideoSession ----------------------------
(***************************************************************************)
(* One websocket session (Julia/xwebql.jl, ws_coroutine): the receive loop,*)
(* the sender task behind the outgoing queue, the video task that spawns a *)
(* worker per requested frame, the x265 encoder, guarded by video_mtx, that*)
(* init_video opens and end_video closes, the realtime task, and the tasks *)
(* that answer viewport and image requests; at the other end, what the     *)
(* page shows of the answers.                                              *)
(*                                                                         *)
(* Encoders are numbered by the init_video that opened them; a frame is    *)
(* known by the number of the init_video whose dimensions it has. The      *)
(* encoder stands for the three x265 handles (param, encoder, picture):    *)
(* where one of the others is missing, nothing is encoded.                 *)
(***************************************************************************)
EXTENDS Naturals, Sequences

CONSTANTS
  Workers,   \* one for each video request of the session
  Capacity,  \* of the outgoing queue (32 in the code)
  Backlog,   \* of the queues of requests (32 in the code)
  Budget,    \* messages that the client sends: bounds the session
  Nobody     \* the owner of a free lock

Null == 0    \* C_NULL, and the dimensions before the first init_video
Inits == Nat \ {0}
Nals == 2    \* NAL units of a frame

ASSUME SessionAssumption ==
  /\ Capacity \in Nat \ {0} /\ Backlog \in Nat \ {0} /\ Budget \in Nat
  /\ "receive loop" \notin Workers /\ Nobody \notin Workers \cup {"receive loop"}

VARIABLES
  conn,        \* the connection: "open" or "broken"
  budget,      \* messages the client has left to send
  rx,          \* where the receive loop is, up to the end of the coroutine
  inits,       \* init_video messages so far: the dimensions now in force
  outgoing,    \* the outgoing queue
  closed,      \* whether the outgoing queue is closed
  sender,      \* sent_task: "take", "send" or "done"
  sending,     \* the message that it sends
  requests,    \* video_requests: how many wait
  video,       \* the video task: "take" or "done"
  worker,      \* where the worker of each request is
  size,        \* the dimensions a worker computes its frame with
  luma,        \* the dimensions of the shared luma and alpha planes
  mtx,         \* the owner of video_mtx
  encoder,     \* the current encoder, or Null
  opened,      \* history: encoders that have been opened
  freed,       \* encoders that have been closed
  encoded,     \* frames that have been encoded
  nal,         \* what the worker that holds the lock has yet to queue
  misuse,      \* history: what has been encoded wrongly
  overlap,     \* history: whether an init_video met a worker or an encoder
  viewports,   \* viewport_requests: how many wait
  realtime,    \* the realtime task: "take" or "done"
  answers,     \* history: answers to viewport and image requests so far
  replies,     \* tasks that queue the parts of an answer
  crossed,     \* history: whether a refresh was answered during another
  stack,       \* page: spectrum_stack, the numbers of the answers
  plotted,     \* page: last_seq_id, the answer whose spectrum is plotted
  buried,      \* page: whether an older spectrum has arrived on a newer one
  view         \* page: the answers whose image and full spectrum are shown

session == <<conn, budget, rx, inits>>
queue   == <<outgoing, closed, sender, sending>>
frames  == <<requests, video, worker, size, luma>>
x265    == <<mtx, encoder, opened, freed, encoded, nal, misuse>>
tasks   == <<viewports, realtime, answers, replies, crossed>>
page    == <<stack, plotted, buried, view>>
vars    == <<session, queue, frames, x265, overlap, tasks, page>>

(* Messages: a NAL unit of the n-th encoded frame, a part of the n-th      *)
(* answer, or anything else.                                               *)
Msg(kind, n, k) == <<kind, n, k>>
Text == Msg("text", 0, 0)
Kinds == {"text", "nal", "spectrum", "image", "refresh"}
Messages == Kinds \X Nat \X Nat

InFlight(w) == worker[w] \in {"compute", "lock", "encode", "put"}

TypeOK ==
  /\ conn \in {"open", "broken"}
  /\ budget \in 0 .. Budget
  /\ rx \in {"receive", "push_video", "push_viewport", "heartbeat", "init_reply", "init_lock",
             "init", "end_lock", "end", "close", "join_sender", "join_realtime", "join_video",
             "free", "gone", "thrown"}
  /\ inits \in {Null} \cup Inits
  /\ outgoing \in Seq(Messages) /\ Len(outgoing) <= Capacity
  /\ closed \in BOOLEAN
  /\ sender \in {"take", "send", "done"} /\ sending \in Messages
  /\ requests \in 0 .. Backlog
  /\ video \in {"take", "done"}
  /\ worker \in [Workers -> {"unborn", "compute", "lock", "encode", "put", "dead"}]
  /\ size \in [Workers -> {Null} \cup Inits]
  /\ luma \in {Null} \cup Inits
  /\ mtx \in Workers \cup {"receive loop", Nobody}
  /\ encoder \in {Null} \cup Inits
  /\ opened \subseteq Nat /\ freed \subseteq Inits
  /\ encoded \in Nat
  /\ nal \in 1 .. Nals
  /\ misuse \subseteq {"freed", "size"}
  /\ overlap \in BOOLEAN
  /\ viewports \in 0 .. Backlog /\ realtime \in {"take", "done"}
  /\ answers \in [{"viewport", "image"} -> Nat]
  /\ replies \subseteq [n : Nat \ {0}, of : {"viewport", "image"}, part : {1, 2}]
  /\ crossed \in BOOLEAN
  /\ stack \in Seq(Nat) /\ plotted \in Nat /\ buried \in BOOLEAN
  /\ view \in [image : Nat, refresh : Nat]

NoView == [image |-> 0, refresh |-> 0]

Init ==
  /\ conn = "open" /\ budget = Budget /\ rx = "receive" /\ inits = Null
  /\ outgoing = <<>> /\ closed = FALSE /\ sender = "take" /\ sending = Text
  /\ requests = 0 /\ video = "take"
  /\ worker = [w \in Workers |-> "unborn"] /\ size = [w \in Workers |-> Null] /\ luma = Null
  /\ mtx = Nobody /\ encoder = Null /\ opened = {} /\ freed = {} /\ encoded = 0 /\ nal = 1
  /\ misuse = {} /\ overlap = FALSE
  /\ viewports = 0 /\ realtime = "take"
  /\ answers = [viewport |-> 0, image |-> 0] /\ replies = {} /\ crossed = FALSE
  /\ stack = <<>> /\ plotted = 0 /\ buried = FALSE /\ view = NoView

(* The page goes on with another session: this one no longer has a page. *)
Break ==
  /\ conn = "open"
  /\ conn' = "broken"
  /\ stack' = <<>> /\ plotted' = 0 /\ buried' = FALSE /\ view' = NoView
  /\ UNCHANGED <<budget, rx, inits, queue, frames, x265, overlap, tasks>>

-----------------------------------------------------------------------------
(* The outgoing queue and its sender.                                      *)

(* Faulty variants of the definition that follows, here and below: bugs    *)
(* the code could have had, each caught by a property.                     *)
PutUnbounded(msg) ==
  /\ ~closed
  /\ outgoing' = Append(outgoing, msg)

(* put!, which blocks while the queue is full. *)
Put(msg) ==
  /\ ~closed /\ Len(outgoing) < Capacity
  /\ outgoing' = Append(outgoing, msg)

SenderNeverEnds ==
  /\ sender = "take" /\ outgoing # <<>>
  /\ outgoing' = Tail(outgoing) /\ sending' = Head(outgoing)
  /\ sender' = "send"
  /\ UNCHANGED <<closed, session, frames, x265, overlap, tasks, page>>

(* take!, which empties a closed queue before it ends the task. *)
SenderTakes ==
  /\ sender = "take"
  /\ \/ /\ outgoing # <<>>
        /\ outgoing' = Tail(outgoing) /\ sending' = Head(outgoing)
        /\ sender' = "send"
     \/ /\ outgoing = <<>> /\ closed
        /\ sender' = "done"
        /\ UNCHANGED <<outgoing, sending>>
  /\ UNCHANGED <<closed, session, frames, x265, overlap, tasks, page>>

(* The page: spectra wait on a stack for the next animation frame, images  *)
(* and full spectra are shown at once. A viewport is shown, too, and a     *)
(* frame decoded, which ClientVideo has in detail.                         *)
Arrives(msg) ==
  /\ stack' = IF msg[1] = "spectrum" THEN Append(stack, msg[2]) ELSE stack
  /\ buried' = (buried \/ \E i \in DOMAIN stack : stack'[Len(stack')] < stack[i])
  /\ view' = IF msg[1] \in DOMAIN view THEN [view EXCEPT ![msg[1]] = msg[2]] ELSE view
  /\ UNCHANGED plotted

(* A WebSocketError ends the task, any other error drops the message. *)
SenderSends ==
  /\ sender = "send"
  /\ \/ conn = "open" /\ sender' = "take" /\ Arrives(sending)
     \/ conn = "broken" /\ sender' \in {"take", "done"} /\ UNCHANGED page
  /\ sending' = Text
  /\ UNCHANGED <<outgoing, closed, session, frames, x265, overlap, tasks>>

PlotTop ==
  /\ stack # <<>>
  /\ plotted' = stack[Len(stack)]
  /\ stack' = <<>>
  /\ UNCHANGED <<buried, view, session, queue, frames, x265, overlap, tasks>>

(* update_spectrum, in an animation frame: the last arrival is plotted,    *)
(* and the stack emptied, unless a newer one is on display. The pointer    *)
(* stays on the image: the page drops the spectra of one that has left.    *)
Plot ==
  /\ stack # <<>> /\ stack[Len(stack)] > plotted
  /\ plotted' = stack[Len(stack)]
  /\ stack' = <<>>
  /\ UNCHANGED <<buried, view, session, queue, frames, x265, overlap, tasks>>

-----------------------------------------------------------------------------
(* The receive loop. A message can still arrive from a broken connection's *)
(* buffer.                                                                 *)

Receive(next) ==
  /\ rx = "receive" /\ budget > 0
  /\ budget' = budget - 1
  /\ rx' = next

(* A heartbeat is queued back, or ends the session when the dataset is     *)
(* gone; its answer is then sent at once, and may throw, like a receive.   *)
ReceiveHeartbeat ==
  /\ \/ \E next \in {"heartbeat", "close"} : Receive(next)
     \/ conn = "broken" /\ Receive("thrown")
  /\ UNCHANGED <<conn, inits, queue, frames, x265, overlap, tasks, page>>

(* Requests for frames and viewports go to their tasks, through queues     *)
(* that block the loop while they are full.                                *)
ReceiveRequest ==
  /\ \E next \in {"push_video", "push_viewport"} : Receive(next)
  /\ UNCHANGED <<conn, inits, queue, frames, x265, overlap, tasks, page>>

PushVideo ==
  /\ rx = "push_video" /\ requests < Backlog
  /\ requests' = requests + 1
  /\ rx' = "receive"
  /\ UNCHANGED <<conn, budget, inits, queue, video, worker, size, luma, x265, overlap, tasks, page>>

PushViewport ==
  /\ rx = "push_viewport" /\ viewports < Backlog
  /\ viewports' = viewports + 1
  /\ rx' = "receive"
  /\ UNCHANGED <<conn, budget, inits, queue, frames, x265, overlap, realtime, answers, replies,
                 crossed, page>>

(* A computed answer is queued, part by part, by a task of its own. *)
Reply(of, part) == [n |-> answers[of] + 1, of |-> of, part |-> part]

Spawn(reply) ==
  /\ answers' = [answers EXCEPT ![reply.of] = reply.n]
  /\ replies' = replies \cup {reply}
  /\ crossed' = (crossed \/ (reply.of = "image" /\ \E r \in replies : r.of = "image"))

(* An image request is computed in the loop, over the field of the last    *)
(* init_video: there is none before the first, the error is caught, and    *)
(* the request stays without an answer, as it does without the dataset.    *)
ReceiveImage ==
  /\ Receive("receive")
  /\ \/ UNCHANGED tasks
     \/ inits # Null /\ Spawn(Reply("image", 1)) /\ UNCHANGED <<viewports, realtime>>
  /\ UNCHANGED <<conn, inits, queue, frames, x265, overlap, page>>

(* init_video: the new dimensions come into force at once, unless the      *)
(* dataset is gone or has no events: then the message has no effect; ...   *)
ReceiveInit ==
  /\ \/ Receive("receive") /\ UNCHANGED <<inits, overlap>>
     \/ /\ Receive("init_reply")
        /\ inits' = inits + 1
        /\ overlap' = (overlap \/ encoder # Null \/ \E w \in Workers : InFlight(w))
  /\ UNCHANGED <<conn, queue, frames, x265, tasks, page>>

ReceiveEnd ==
  /\ Receive("end_lock")
  /\ UNCHANGED <<conn, inits, queue, frames, x265, overlap, tasks, page>>

(* A broken connection ends the loop, when it shows in a WebSocketError.   *)
(* Any other error is thrown out of the coroutine, past the end of the     *)
(* session: the queues stay open, and their tasks wait.                    *)
ReceiveNothing ==
  /\ rx = "receive" /\ conn = "broken"
  /\ rx' \in {"close", "thrown"}
  /\ UNCHANGED <<conn, budget, inits, queue, frames, x265, overlap, tasks, page>>

(* ... the answer is queued, ... *)
Answer ==
  /\ rx \in {"heartbeat", "init_reply"}
  /\ Put(Text)
  /\ rx' = IF rx = "heartbeat" THEN "receive" ELSE "init_lock"
  /\ UNCHANGED <<conn, budget, inits, closed, sender, sending, frames, x265, overlap,
                 tasks, page>>

(* ... and the lock is taken ... *)
TakeLock ==
  /\ rx \in {"init_lock", "end_lock"} /\ mtx = Nobody
  /\ mtx' = "receive loop"
  /\ rx' = IF rx = "init_lock" THEN "init" ELSE "end"
  /\ UNCHANGED <<conn, budget, inits, queue, frames, encoder, opened, freed, encoded, nal,
                 misuse, overlap, tasks, page>>

(* ... to open the encoder, over whatever encoder there was. Without a new *)
(* param the old one stays; x265 may also fail to open another.            *)
InitVideo ==
  /\ rx = "init"
  /\ \/ encoder' = inits /\ opened' = opened \cup {inits}
     \/ encoder' \in {encoder, Null} /\ UNCHANGED opened
  /\ mtx' = Nobody
  /\ rx' = "receive"
  /\ UNCHANGED <<conn, budget, inits, queue, frames, freed, encoded, nal, misuse, overlap,
                 tasks, page>>

EndVideoKeepsHandle ==
  /\ rx = "end"
  /\ freed' = freed \cup ({encoder} \ {Null})
  /\ mtx' = Nobody
  /\ rx' = "receive"
  /\ UNCHANGED <<conn, budget, inits, queue, frames, encoder, opened, encoded, nal, misuse,
                 overlap, tasks, page>>

EndVideo ==
  /\ rx = "end"
  /\ freed' = freed \cup ({encoder} \ {Null})
  /\ encoder' = Null
  /\ mtx' = Nobody
  /\ rx' = "receive"
  /\ UNCHANGED <<conn, budget, inits, queue, frames, opened, encoded, nal, misuse, overlap,
                 tasks, page>>

(* The end of the coroutine: close the queues, join the tasks one by one,  *)
(* and free the encoder, without the lock and without waiting for workers. *)
CloseOutgoing ==
  /\ rx = "close"
  /\ closed' = TRUE
  /\ rx' = "join_sender"
  /\ UNCHANGED <<conn, budget, inits, outgoing, sender, sending, frames, x265, overlap,
                 tasks, page>>

JoinSender ==
  /\ rx = "join_sender" /\ sender = "done"
  /\ rx' = "join_realtime"
  /\ UNCHANGED <<conn, budget, inits, queue, frames, x265, overlap, tasks, page>>

JoinRealtime ==
  /\ rx = "join_realtime" /\ realtime = "done"
  /\ rx' = "join_video"
  /\ UNCHANGED <<conn, budget, inits, queue, frames, x265, overlap, tasks, page>>

JoinVideo ==
  /\ rx = "join_video" /\ video = "done"
  /\ rx' = "free"
  /\ UNCHANGED <<conn, budget, inits, queue, frames, x265, overlap, tasks, page>>

FreeNothing ==
  /\ rx = "free"
  /\ rx' = "gone"
  /\ UNCHANGED <<conn, budget, inits, queue, frames, x265, overlap, tasks, page>>

FreeEncoder ==
  /\ rx = "free"
  /\ freed' = freed \cup ({encoder} \ {Null})
  /\ rx' = "gone"
  /\ UNCHANGED <<conn, budget, inits, queue, frames, mtx, encoder, opened, encoded, nal, misuse,
                 overlap, tasks, page>>

-----------------------------------------------------------------------------
(* The video task and its workers.                                         *)

NewWorker == CHOOSE w \in Workers : worker[w] = "unborn"

VideoTakesFirstSize ==
  /\ video = "take" /\ requests > 0
  /\ requests' = requests - 1
  /\ \/ UNCHANGED <<worker, size>>
     \/ /\ inits # Null
        /\ \E w \in Workers : worker[w] = "unborn"
        /\ worker' = [worker EXCEPT ![NewWorker] = "compute"]
        /\ size' = [size EXCEPT ![NewWorker] = 1]
  /\ UNCHANGED <<video, luma, session, queue, x265, overlap, tasks, page>>

(* A request is dropped when there is no session to serve it in, or when   *)
(* it repeats the last frame; otherwise a worker gets the dimensions.      *)
VideoTakes ==
  /\ video = "take" /\ requests > 0
  /\ requests' = requests - 1
  /\ \/ UNCHANGED <<worker, size>>
     \/ /\ inits # Null
        /\ \E w \in Workers : worker[w] = "unborn"
        /\ worker' = [worker EXCEPT ![NewWorker] = "compute"]
        /\ size' = [size EXCEPT ![NewWorker] = inits]
  /\ UNCHANGED <<video, luma, session, queue, x265, overlap, tasks, page>>

VideoEnds ==
  /\ video = "take" /\ requests = 0
  /\ rx = "join_video"
  /\ video' = "done"
  /\ UNCHANGED <<requests, worker, size, luma, session, queue, x265, overlap, tasks, page>>

(* getVideoFrame: its planes go to variables that all workers share. It    *)
(* may fail, before the worker has the lock.                               *)
Compute(w) ==
  /\ worker[w] = "compute"
  /\ \/ /\ worker' = [worker EXCEPT ![w] = "lock"]
        /\ luma' = size[w]
     \/ /\ worker' = [worker EXCEPT ![w] = "dead"]
        /\ UNCHANGED luma
  /\ UNCHANGED <<requests, video, size, session, queue, x265, overlap, tasks, page>>

Lock(w) ==
  /\ worker[w] = "lock" /\ mtx = Nobody
  /\ mtx' = w
  /\ worker' = [worker EXCEPT ![w] = "encode"]
  /\ UNCHANGED <<requests, video, size, luma, session, queue, encoder, opened, freed, encoded,
                 nal, misuse, overlap, tasks, page>>

Leave(w) ==
  /\ worker' = [worker EXCEPT ![w] = "dead"]
  /\ mtx' = Nobody

(* x265_encoder_encode, when there are an encoder and a picture. *)
Encode(w) ==
  /\ worker[w] = "encode"
  /\ \/ Leave(w) /\ UNCHANGED <<encoded, nal, misuse>>
     \/ /\ encoder # Null
        /\ worker' = [worker EXCEPT ![w] = "put"]
        /\ encoded' = encoded + 1
        /\ nal' = 1
        /\ misuse' = misuse \cup {m \in {"freed", "size"} :
                       \/ m = "freed" /\ encoder \in freed
                       \/ m = "size" /\ luma # encoder}
        /\ UNCHANGED mtx
  /\ UNCHANGED <<requests, video, size, luma, session, queue, encoder, opened, freed, overlap,
                 tasks, page>>

PutNalUnlocked(w) ==
  /\ worker[w] = "put"
  /\ Put(Msg("nal", encoded, nal))
  /\ nal' = IF nal < Nals THEN nal + 1 ELSE nal
  /\ IF nal < Nals THEN UNCHANGED worker ELSE worker' = [worker EXCEPT ![w] = "dead"]
  /\ mtx' = Nobody
  /\ UNCHANGED <<closed, sender, sending, requests, video, size, luma, session, encoder, opened,
                 freed, encoded, misuse, overlap, tasks, page>>

(* The NAL units are queued while the worker holds the lock. *)
PutNal(w) ==
  /\ worker[w] = "put"
  /\ Put(Msg("nal", encoded, nal))
  /\ IF nal < Nals THEN nal' = nal + 1 /\ UNCHANGED <<worker, mtx>>
                   ELSE Leave(w) /\ UNCHANGED nal
  /\ UNCHANGED <<closed, sender, sending, requests, video, size, luma, session, encoder, opened,
                 freed, encoded, misuse, overlap, tasks, page>>

(* put! on a closed queue throws: the worker releases the lock and ends. *)
PutFails(w) ==
  /\ worker[w] = "put" /\ closed
  /\ Leave(w)
  /\ UNCHANGED <<queue, requests, video, size, luma, session, encoder, opened, freed, encoded,
                 nal, misuse, overlap, tasks, page>>

-----------------------------------------------------------------------------
(* The realtime task, and the tasks that answer.                           *)

(* getViewportSpectrum, which may fail; the spectrum of an answer comes    *)
(* after its viewport, if that was asked for.                              *)
RealtimeTakes ==
  /\ realtime = "take" /\ viewports > 0
  /\ viewports' = viewports - 1
  /\ \/ UNCHANGED <<answers, replies, crossed>>
     \/ \E part \in {1, 2} : Spawn(Reply("viewport", part))
  /\ UNCHANGED <<realtime, session, queue, frames, x265, overlap, page>>

RealtimeEnds ==
  /\ realtime = "take" /\ viewports = 0
  /\ rx = "join_realtime"
  /\ realtime' = "done"
  /\ UNCHANGED <<viewports, answers, replies, crossed, session, queue, frames, x265, overlap,
                 page>>

Parts == [viewport |-> <<"text", "spectrum">>, image |-> <<"image", "refresh">>]
Part(r) ==
  LET kind == Parts[r.of][r.part] IN IF kind = "text" THEN Text ELSE Msg(kind, r.n, 0)

PutReply(r) ==
  /\ Put(Part(r))
  /\ replies' = (replies \ {r}) \cup (IF r.part = 1 THEN {[r EXCEPT !.part = 2]} ELSE {})
  /\ UNCHANGED <<closed, sender, sending, viewports, realtime, answers, crossed, session, frames,
                 x265, overlap, page>>

ReplyFails(r) ==
  /\ closed
  /\ replies' = replies \ {r}
  /\ UNCHANGED <<queue, viewports, realtime, answers, crossed, session, frames, x265, overlap,
                 page>>

-----------------------------------------------------------------------------
Receives ==
  ReceiveHeartbeat \/ ReceiveRequest \/ ReceiveImage \/ ReceiveInit \/ ReceiveEnd

(* What the receive loop does of itself, but for taking the lock. *)
Proceeds ==
  \/ ReceiveNothing \/ PushVideo \/ PushViewport \/ Answer \/ InitVideo \/ EndVideo
  \/ CloseOutgoing \/ JoinSender \/ JoinRealtime \/ JoinVideo \/ FreeEncoder

Sender   == SenderTakes \/ SenderSends
Realtime == RealtimeTakes \/ RealtimeEnds
Video    == VideoTakes \/ VideoEnds
Works(w) == Compute(w) \/ Encode(w) \/ PutNal(w) \/ PutFails(w)

Next ==
  \/ Break \/ Receives \/ Proceeds \/ TakeLock
  \/ Sender \/ Realtime \/ Video
  \/ \E w \in Workers : Lock(w) \/ Works(w)
  \/ \E r \in replies : PutReply(r) \/ ReplyFails(r)
  \/ Plot

Spec == Init /\ [][Next]_vars

(* Every task runs, and the lock is fair between its takers; the client    *)
(* owes nothing.                                                           *)
Fairness ==
  /\ WF_vars(Proceeds) /\ SF_vars(TakeLock)
  /\ WF_vars(Sender) /\ WF_vars(Realtime) /\ WF_vars(Video)
  /\ \A w \in Workers : WF_vars(Works(w)) /\ SF_vars(Lock(w))

FairSpec == Spec /\ Fairness

-----------------------------------------------------------------------------
(* The units of a frame follow one another in the queue, and frames follow *)
(* the order in which they were encoded: the decoder needs both.           *)
Before(a, b) == a[2] < b[2] \/ (a[2] = b[2] /\ a[3] < b[3])

NalsInOrder ==
  \A i, j \in DOMAIN outgoing :
    i < j /\ outgoing[i][1] = "nal" /\ outgoing[j][1] = "nal" => Before(outgoing[i], outgoing[j])

(* The lock keeps end_video from closing an encoder under a worker: only   *)
(* the end of the session, which does not take it, can.                    *)
EncoderIsLive == "freed" \in misuse => rx = "gone"

(* The planes have the size of the encoder, unless an init_video arrived   *)
(* over an open encoder or over workers still in flight.                   *)
SizesMatch == "size" \in misuse => overlap

(* No encoder is lost: of those ever opened only the current one is open   *)
(* still, and none once the session has come to its end, unless an         *)
(* init_video met an encoder, which it replaces unclosed. A session that   *)
(* an error has thrown out of its receive loop does not come to its end,   *)
(* and keeps its encoder.                                                  *)
SessionReleasesEncoder ==
  overlap \/ opened \ freed \subseteq (IF rx = "gone" THEN {} ELSE {encoder})

(* At rest the page shows an image and a full spectrum of one answer, and  *)
(* the newest spectrum of the pointer, although answers have no order: the *)
(* exceptions are an image answered during another, whose parts may cross, *)
(* and a spectrum that an older one buried within an animation frame.      *)
Quiet == conn = "open" /\ ~closed /\ replies = {} /\ outgoing = <<>> /\ sender = "take"
Settled == stack = <<>> \/ stack[Len(stack)] <= plotted

SettledView ==
  Quiet /\ Settled =>
    /\ view.image = view.refresh \/ crossed
    /\ plotted = answers.viewport \/ buried

(* A broken connection ends the session, all its tasks joined, but for two *)
(* cases: the receive loop is thrown out by an error that it does not take *)
(* for a broken connection, or it waits for room in a queue that nobody    *)
(* empties any more, itself or for the worker that has the lock.           *)
QueueIsDead == sender = "done" /\ ~closed /\ Len(outgoing) = Capacity
Stuck ==
  /\ QueueIsDead
  /\ \/ rx \in {"heartbeat", "init_reply"}
     \/ rx \in {"init_lock", "end_lock"} /\ mtx \in Workers /\ worker[mtx] = "put"
SessionEnds == conn = "broken" ~> rx \in {"gone", "thrown"} \/ Stuck
=============================================================================
