----------------------------- MODULE ClientVideo -----------------------------
(***************************************************************************)
(* The video of the energy axis in the browser (htdocs/xwebql/xwebql.js)   *)
(* with its WebAssembly decoder (WebAssembly/main.cc, hevc_decoder.c), at  *)
(* the other end of a websocket whose server (ws_coroutine) keeps one      *)
(* encoder per connection. The mouse enters the axis, moves and leaves;    *)
(* messages travel in order, but the page acts on what it knows; the       *)
(* connection may break, and the page's ReconnectingWebSocket then opens   *)
(* another one, to a server session that knows nothing of the old one.     *)
(*                                                                         *)
(* A band stands for a position on the axis. A frame is one message, since *)
(* its NAL units stay together; failing encoders and computations, and the *)
(* end of the old session, are VideoSession's. The page keeps its size: a  *)
(* resize reloads it (resizeMe).                                           *)
(***************************************************************************)
EXTENDS Naturals, Sequences

CONSTANTS
  Bands,     \* positions of the mouse on the axis
  Turns,     \* how often the mouse enters the axis or the connection breaks, ...
  Moves      \* ... and how often the mouse moves on the axis: bounds

Null == 0    \* no hover, no encoder
None == "none"
Hovers == 1 .. Turns

ASSUME ClientAssumption == Turns \in Nat /\ Moves \in Nat /\ None \notin Bands

VARIABLES
  moves,       \* moves the user has left
  breaks,      \* breaks of the connection so far
  ws,          \* wsConn.readyState: "open", "down", or "closed" for good
  up,          \* messages on their way to the server
  down,        \* messages on their way to the page
  streaming,   \* whether the page thinks that the mouse is on the axis
  sent,        \* init_video messages so far (sent_vid_id)
  hover,       \* the init_video of this hover, if this connection carried it
  videoFrame,  \* whether the page has a video frame to draw on
  decoder,     \* the HEVC context: the encoder and number of its last frame
  img,         \* the decoded frame that waits for the next animation frame
  shown,       \* what the canvas shows
  mouse,       \* where the mouse last moved to in this hover
  idle,        \* idleVideo: what the timer will ask for
  armed,       \* whether the last move set it
  ready,       \* server: whether the session has had an init_video
  opening,     \* server: the encoder that the receive loop is about to open
  encoder,     \* server: the open encoder
  frames,      \* server: the frames it has encoded
  requests,    \* server: video_requests
  last,        \* server: last_frame
  workers,     \* server: the frames being made, oldest first: in "compute", in
               \* "late" (still, when a newer one is done), or in "encode"
  plane,       \* server: the band of the planes luma and alpha
  overtaken,   \* server: whether a newer band was there before them
  early        \* history: whether the last hover that ended on this connection
               \* ended before its init_video was answered

user   == <<moves, mouse, idle, armed>>
wire   == <<breaks, ws, up, down>>
page   == <<streaming, sent, hover, videoFrame, img, shown>>
server == <<ready, opening, encoder, frames, requests, last, workers, plane, overtaken>>
vars   == <<user, wire, page, decoder, server, early>>

Blank == [encoder |-> Null, band |-> None]

(* The HEVC context of the decoder; hevc_init leaves one that is open as   *)
(* it is, and without one a frame is ignored.                              *)
hevc_destroy == [on |-> FALSE, encoder |-> Null, frame |-> 0]

hevc_init(d) == IF d.on THEN d ELSE [hevc_destroy EXCEPT !.on = TRUE]

hevc_decode_nal_unit(d, f) ==
  IF d.on THEN [on |-> TRUE, encoder |-> f.encoder, frame |-> f.number] ELSE d

InitMessage(n) == [type |-> "init_video", id |-> n]
EndMessage == [type |-> "end_video"]
VideoMessage(b, k) == [type |-> "video", band |-> b, key |-> k]
Answer == [type |-> "init_video"]
Frame(e, n, b) == [type |-> "frame", encoder |-> e, number |-> n, band |-> b]

Pictures == [encoder : {Null} \cup Hovers, band : Bands \cup {None}]
UpMessages == {InitMessage(n) : n \in Hovers} \cup {EndMessage}
              \cup {VideoMessage(b, k) : b \in Bands, k \in BOOLEAN}
DownMessages == {Answer} \cup [type : {"frame"}, encoder : Hovers, number : Nat, band : Bands]
Works == [band : Bands, stage : {"compute", "late", "encode"}]

TypeOK ==
  /\ moves \in 0 .. Moves /\ breaks \in 0 .. Turns
  /\ ws \in {"open", "down", "closed"}
  /\ up \in Seq(UpMessages) /\ down \in Seq(DownMessages)
  /\ streaming \in BOOLEAN /\ videoFrame \in BOOLEAN /\ videoFrame = decoder.on
  /\ sent \in 0 .. Turns /\ hover \in {Null} \cup 1 .. sent
  /\ decoder \in [on : BOOLEAN, encoder : {Null} \cup Hovers, frame : Nat]
  /\ img \in Pictures /\ shown \in Pictures
  /\ mouse \in Bands \cup {None} /\ idle \in Bands \cup {None} /\ armed \in BOOLEAN
  /\ ready \in BOOLEAN
  /\ opening \in {Null} \cup Hovers /\ encoder \in {Null} \cup Hovers
  /\ frames \in Nat
  /\ requests \in Seq([band : Bands, key : BOOLEAN])
  /\ last \in Bands \cup {None}
  /\ workers \in Seq(Works) /\ plane \in Bands \cup {None} /\ overtaken \in BOOLEAN
  /\ early \in BOOLEAN

Init ==
  /\ moves = Moves /\ mouse = None /\ idle = None /\ armed = FALSE
  /\ breaks = 0 /\ ws = "open" /\ up = <<>> /\ down = <<>>
  /\ streaming = FALSE /\ sent = 0 /\ hover = Null /\ videoFrame = FALSE
  /\ img = Blank /\ shown = Blank /\ decoder = hevc_destroy
  /\ ready = FALSE /\ opening = Null /\ encoder = Null /\ frames = 0
  /\ requests = <<>> /\ last = None
  /\ workers = <<>> /\ plane = None /\ overtaken = FALSE
  /\ early = FALSE

-----------------------------------------------------------------------------
(* The mouse.                                                              *)

Send(messages) == up' = IF ws = "open" THEN up \o messages ELSE up

(* What x_axis_mouseleave does to a video: the frame goes, the server is   *)
(* told, the decoder is destroyed. Without a frame nothing is told.        *)
Farewell == IF videoFrame THEN <<EndMessage>> ELSE <<>>

Unanswered ==
  \/ \E i \in DOMAIN up : up[i].type = "init_video"
  \/ \E i \in DOMAIN down : down[i].type = "init_video"

(* Faulty variants of the definition that follows, here and below: bugs    *)
(* the code could have had, each caught by a property.                     *)
ReleaseKeepsDecoder ==
  /\ videoFrame' = FALSE
  /\ decoder' = decoder
  /\ img' = Blank /\ shown' = Blank
  /\ early' = Unanswered

ReleaseKeepsFrame ==
  /\ videoFrame' = videoFrame
  /\ decoder' = decoder
  /\ img' = Blank /\ shown' = Blank
  /\ early' = Unanswered

Release ==
  /\ videoFrame' = FALSE
  /\ decoder' = IF videoFrame THEN hevc_destroy ELSE decoder
  /\ img' = Blank /\ shown' = Blank
  /\ early' = Unanswered

EnterSwapped ==
  /\ sent + breaks < Turns
  /\ IF streaming THEN Release
     ELSE /\ shown' = Blank
          /\ UNCHANGED <<videoFrame, decoder, img, early>>
  /\ Send(<<InitMessage(sent + 1)>> \o (IF streaming THEN Farewell ELSE <<>>))
  /\ streaming' = TRUE
  /\ sent' = sent + 1
  /\ hover' = IF ws = "open" THEN sent + 1 ELSE Null
  /\ mouse' = None /\ armed' = FALSE
  /\ UNCHANGED <<moves, idle, breaks, ws, down, server>>

(* x_axis_mouseenter: a hover that has not been left is left first. *)
Enter ==
  /\ sent + breaks < Turns
  /\ IF streaming THEN Release
     ELSE /\ shown' = Blank
          /\ UNCHANGED <<videoFrame, decoder, img, early>>
  /\ Send((IF streaming THEN Farewell ELSE <<>>) \o <<InitMessage(sent + 1)>>)
  /\ streaming' = TRUE
  /\ sent' = sent + 1
  /\ hover' = IF ws = "open" THEN sent + 1 ELSE Null
  /\ mouse' = None /\ armed' = FALSE
  /\ UNCHANGED <<moves, idle, breaks, ws, down, server>>

LeaveSilently ==
  /\ streaming
  /\ Release
  /\ streaming' = FALSE /\ hover' = Null /\ mouse' = None /\ armed' = FALSE
  /\ UNCHANGED <<moves, idle, sent, wire, server>>

(* x_axis_mouseleave *)
Leave ==
  /\ streaming
  /\ Release
  /\ Send(Farewell)
  /\ streaming' = FALSE /\ hover' = Null /\ mouse' = None /\ armed' = FALSE
  /\ UNCHANGED <<moves, idle, sent, breaks, ws, down, server>>

MoveUntimed(b) ==
  /\ moves > 0 /\ streaming
  /\ moves' = moves - 1
  /\ mouse' = b
  /\ \/ Send(<<VideoMessage(b, FALSE)>>)
     \/ UNCHANGED up
  /\ idle' = None
  /\ armed' = videoFrame
  /\ UNCHANGED <<breaks, ws, down, page, decoder, server, early>>

(* x_axis_move: the request may be left out, because the last one was sent *)
(* less than a frame ago; the timer that makes up for it is set only when  *)
(* there is a frame to draw on.                                            *)
Move(b) ==
  /\ moves > 0 /\ streaming
  /\ moves' = moves - 1
  /\ mouse' = b
  /\ \/ Send(<<VideoMessage(b, FALSE)>>)
     \/ UNCHANGED up
  /\ idle' = IF videoFrame THEN b ELSE None
  /\ armed' = videoFrame
  /\ UNCHANGED <<breaks, ws, down, page, decoder, server, early>>

(* videoTimeout: the mouse has rested for 250 ms. *)
IdleTimeout ==
  /\ idle # None
  /\ idle' = None
  /\ IF streaming THEN Send(<<VideoMessage(idle, TRUE)>>) ELSE UNCHANGED up
  /\ UNCHANGED <<moves, mouse, armed, breaks, ws, down, page, decoder, server, early>>

-----------------------------------------------------------------------------
(* Messages that reach the page.                                           *)

Deliver(type) ==
  /\ down # <<>> /\ Head(down).type = type
  /\ down' = Tail(down)

(* The answer to init_video makes a frame, unless there is one, and opens  *)
(* the decoder, whatever the mouse has done meanwhile.                     *)
ReceiveAnswer ==
  /\ Deliver("init_video")
  /\ videoFrame' = TRUE
  /\ decoder' = hevc_init(decoder)
  /\ UNCHANGED <<user, breaks, ws, up, streaming, sent, hover, img, shown, server, early>>

(* A picture comes out when the page streams and has a frame to draw on;   *)
(* otherwise the frame only goes through the decoder.                      *)
ReceiveFrame ==
  /\ Deliver("frame")
  /\ LET f == Head(down)
     IN  /\ decoder' = hevc_decode_nal_unit(decoder, f)
         /\ img' = IF streaming /\ videoFrame
                   THEN [encoder |-> f.encoder, band |-> f.band]
                   ELSE img
  /\ UNCHANGED <<user, breaks, ws, up, streaming, sent, hover, videoFrame, shown, server, early>>

(* process_video, in the next animation frame *)
Paint ==
  /\ img # Blank
  /\ shown' = IF streaming THEN img ELSE shown
  /\ img' = Blank
  /\ UNCHANGED <<user, wire, streaming, sent, hover, videoFrame, decoder, server, early>>

-----------------------------------------------------------------------------
(* The connection.                                                         *)

Disconnect(state) ==
  /\ ws' = state
  /\ up' = <<>> /\ down' = <<>>
  /\ hover' = Null /\ early' = FALSE
  /\ ready' = FALSE /\ opening' = Null /\ encoder' = Null /\ frames' = 0
  /\ requests' = <<>> /\ last' = None
  /\ workers' = <<>> /\ plane' = None /\ overtaken' = FALSE
  /\ UNCHANGED <<user, streaming, sent, videoFrame, img, shown, decoder>>

Break ==
  /\ ws = "open" /\ sent + breaks < Turns
  /\ breaks' = breaks + 1
  /\ Disconnect("down")

Reconnect ==
  /\ ws = "down"
  /\ ws' = "open"
  /\ UNCHANGED <<user, breaks, up, down, page, decoder, server, early>>

(* "[close]": the dataset is gone, and the page does not come back. *)
Close ==
  /\ ws = "open"
  /\ Disconnect("closed")
  /\ UNCHANGED breaks

-----------------------------------------------------------------------------
(* The server's session: the receive loop, the video task and its workers. *)

Take(type) ==
  /\ ws = "open" /\ opening = Null
  /\ up # <<>> /\ Head(up).type = type
  /\ up' = Tail(up)

(* The answer is queued before the encoder is opened. *)
ServeInit ==
  /\ Take("init_video")
  /\ down' = Append(down, Answer)
  /\ ready' = TRUE /\ last' = None
  /\ opening' = Head(up).id
  /\ UNCHANGED <<user, breaks, ws, page, decoder, encoder, frames, requests, workers, plane,
                 overtaken, early>>

OpenEncoder ==
  /\ opening # Null
  /\ encoder' = opening /\ frames' = 0
  /\ opening' = Null
  /\ UNCHANGED <<user, wire, page, decoder, ready, requests, last, workers, plane,
                 overtaken, early>>

ServeEnd ==
  /\ Take("end_video")
  /\ encoder' = Null
  /\ UNCHANGED <<user, breaks, ws, down, page, decoder, ready, opening, frames, requests, last,
                 workers, plane, overtaken, early>>

ServeVideo ==
  /\ Take("video")
  /\ requests' = Append(requests, [band |-> Head(up).band, key |-> Head(up).key])
  /\ UNCHANGED <<user, breaks, ws, down, page, decoder, ready, opening, encoder, frames, last,
                 workers, plane, overtaken, early>>

(* A request that repeats the last one is skipped, unless it is for a key  *)
(* frame; before the first init_video there is nothing to serve it with.   *)
Spawn ==
  /\ requests # <<>>
  /\ requests' = Tail(requests)
  /\ LET r == Head(requests)
     IN  IF ready /\ (r.key \/ last # r.band)
         THEN /\ last' = r.band
              /\ workers' = Append(workers, [band |-> r.band, stage |-> "compute"])
         ELSE UNCHANGED <<last, workers>>
  /\ UNCHANGED <<user, wire, page, decoder, ready, opening, encoder, frames, plane, overtaken,
                 early>>

(* getVideoFrame: all workers leave their planes in the same variables, in *)
(* the order in which they finish.                                         *)
Compute(i) ==
  /\ workers[i].stage # "encode"
  /\ workers' = [workers EXCEPT ![i].stage = "encode"]
  /\ plane' = workers[i].band
  /\ overtaken' = (workers[i].stage = "late" \/
                   \E j \in DOMAIN workers : j > i /\ workers[j].stage = "encode")
  /\ UNCHANGED <<user, wire, page, decoder, ready, opening, encoder, frames, requests, last, early>>

Done(i) ==
  [j \in 1 .. Len(workers) - 1 |->
     IF j >= i THEN workers[j + 1]
     ELSE IF workers[j].stage = "compute" THEN [workers[j] EXCEPT !.stage = "late"]
     ELSE workers[j]]

EncodeAndDrop(i) ==
  /\ workers[i].stage = "encode"
  /\ workers' = Done(i)
  /\ IF encoder = Null THEN UNCHANGED <<frames, down>>
     ELSE /\ frames' = frames + 1
          /\ down' = IF down = <<>> THEN <<Frame(encoder, frames + 1, plane)>> ELSE down
  /\ UNCHANGED <<user, breaks, ws, up, page, decoder, ready, opening, encoder, requests, last,
                 plane, overtaken, early>>

Encode(i) ==
  /\ workers[i].stage = "encode"
  /\ workers' = Done(i)
  /\ IF encoder = Null THEN UNCHANGED <<frames, down>>
     ELSE /\ frames' = frames + 1
          /\ down' = Append(down, Frame(encoder, frames + 1, plane))
  /\ UNCHANGED <<user, breaks, ws, up, page, decoder, ready, opening, encoder, requests, last,
                 plane, overtaken, early>>

-----------------------------------------------------------------------------
User == Enter \/ Leave \/ \E b \in Bands : Move(b)
Page == IdleTimeout \/ ReceiveAnswer \/ ReceiveFrame \/ Paint
Connection == Break \/ Reconnect \/ Close
Server ==
  \/ ServeInit \/ OpenEncoder \/ ServeEnd \/ ServeVideo \/ Spawn
  \/ \E i \in DOMAIN workers : Compute(i) \/ Encode(i)

Next == User \/ Page \/ Connection \/ Server

Spec == Init /\ [][Next]_vars

(* Timers fire, messages arrive, the server works; the user is free. *)
Fairness == WF_vars(Page) /\ WF_vars(Server)

FairSpec == Spec /\ Fairness

-----------------------------------------------------------------------------
(* The decoder, which starts without a stream, gets the frames of each     *)
(* encoder from the first one and one by one, although it is destroyed and *)
(* opened again while frames are under way; unless a hover ended before    *)
(* its init_video was answered.                                            *)
DecodesInOrder ==
  down # <<>> /\ decoder.on /\ ~early =>
    LET f == Head(down)
    IN  f.type = "frame" /\ f.number # 1 =>
          <<f.encoder, f.number>> = <<decoder.encoder, decoder.frame + 1>>

(* A hover shows frames of its own encoder, never the rest of an earlier   *)
(* hover's, with the same exception.                                       *)
ShowsOwnHover ==
  hover # Null /\ shown # Blank /\ shown.encoder # hover => early

(* init_video does not meet an open encoder, which it would overwrite and  *)
(* leak, with the same exception: no frame means that no end_video is sent.*)
InitMeetsNoEncoder ==
  up # <<>> /\ Head(up).type = "init_video" /\ opening = Null /\ encoder # Null => early

(* When nothing is under way, the server has the encoder of the hover that *)
(* the page is in, if this connection carried its init_video.              *)
HoverIsServed ==
  hover # Null /\ up = <<>> /\ opening = Null => encoder = hover

(* Once the mouse rests, the video comes to show its place, although moves *)
(* are skipped and repeats are dropped: the timer asks once more. It needs *)
(* the connection that opened the hover, and a frame at the last move; and *)
(* a computation may be overtaken by an older one.                         *)
Resting == hover # Null /\ mouse # None /\ armed
RestIsShown == <>[]Resting => <>[](shown.band = mouse \/ overtaken)
=============================================================================
