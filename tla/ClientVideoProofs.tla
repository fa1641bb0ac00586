------------------------- MODULE ClientVideoProofs -------------------------
(***************************************************************************)
(* Proofs about the video of the energy axis, for any number of positions, *)
(* moves, hovers and breaks of the connection.                             *)
(***************************************************************************)
EXTENDS ClientVideo, TLAPS

(* The type invariant, by groups of variables. *)
UserType ==
  /\ moves \in 0 .. Moves
  /\ mouse \in Bands \cup {None} /\ idle \in Bands \cup {None} /\ armed \in BOOLEAN
WireType ==
  /\ breaks \in 0 .. Turns /\ ws \in {"open", "down", "closed"}
  /\ up \in Seq(UpMessages) /\ down \in Seq(DownMessages)
HoverType == sent \in 0 .. Turns /\ hover \in {Null} \cup 1 .. sent
FrameType ==
  /\ streaming \in BOOLEAN /\ videoFrame \in BOOLEAN /\ videoFrame = decoder.on
  /\ decoder \in [on : BOOLEAN, encoder : {Null} \cup Hovers, frame : Nat]
PictureType == img \in Pictures /\ shown \in Pictures
EncoderType ==
  /\ ready \in BOOLEAN
  /\ opening \in {Null} \cup Hovers /\ encoder \in {Null} \cup Hovers
  /\ frames \in Nat
WorkType ==
  /\ requests \in Seq([band : Bands, key : BOOLEAN])
  /\ last \in Bands \cup {None}
  /\ workers \in Seq(Works) /\ plane \in Bands \cup {None} /\ overtaken \in BOOLEAN
EarlyType == early \in BOOLEAN

LEMMA TypesAreType ==
  TypeOK <=> /\ UserType /\ WireType /\ HoverType /\ FrameType /\ PictureType
             /\ EncoderType /\ WorkType /\ EarlyType
BY DEF TypeOK, UserType, WireType, HoverType, FrameType, PictureType, EncoderType, WorkType, EarlyType

LEMMA Bounds == Turns \in Nat /\ Moves \in Nat /\ None \notin Bands
BY ClientAssumption

LEMMA OneMessage == ASSUME NEW S, NEW x \in S PROVE <<x>> \in Seq(S)
OBVIOUS

LEMMA HeadAndTail ==
  ASSUME NEW S, NEW s \in Seq(S), s # <<>>
  PROVE  Head(s) \in S /\ Tail(s) \in Seq(S)
OBVIOUS

LEMMA InitialType == Init => TypeOK
<1> SUFFICES ASSUME Init PROVE TypeOK
  OBVIOUS
<1>1. UserType
  <2>1. moves \in 0 .. Moves
    BY Bounds DEF Init
  <2>2. mouse = None /\ idle = None /\ armed = FALSE
    BY DEF Init
  <2> QED BY <2>1, <2>2 DEF UserType
<1>6. WireType
  <2>1. up = <<>> /\ down = <<>> /\ breaks = 0 /\ ws = "open"
    BY DEF Init
  <2>2. <<>> \in Seq(UpMessages) /\ <<>> \in Seq(DownMessages)
    OBVIOUS
  <2> QED BY Bounds, <2>1, <2>2 DEF WireType
<1>7. HoverType
  BY Bounds DEF Init, HoverType, Null
<1>2. FrameType
  BY DEF Init, FrameType, hevc_destroy, Null
<1>3. PictureType
  BY DEF Init, PictureType, Pictures, Blank
<1>4. EncoderType /\ EarlyType
  BY DEF Init, EncoderType, EarlyType, Null
<1>5. WorkType
  <2>1. requests = <<>> /\ workers = <<>> /\ last = None /\ plane = None /\ overtaken = FALSE
    BY DEF Init
  <2>2. <<>> \in Seq([band : Bands, key : BOOLEAN]) /\ <<>> \in Seq(Works)
    OBVIOUS
  <2> QED BY <2>1, <2>2 DEF WorkType
<1> QED BY <1>1, <1>2, <1>3, <1>4, <1>5, <1>6, <1>7, TypesAreType

LEMMA MessageTypes ==
  /\ \A n \in Hovers : InitMessage(n) \in UpMessages
  /\ EndMessage \in UpMessages
  /\ \A b \in Bands, k \in BOOLEAN : VideoMessage(b, k) \in UpMessages
  /\ Answer \in DownMessages
  /\ \A e \in Hovers, n \in Nat, b \in Bands : Frame(e, n, b) \in DownMessages
<1>1. \A e \in Hovers, n \in Nat, b \in Bands :
        Frame(e, n, b) \in [type : {"frame"}, encoder : Hovers, number : Nat, band : Bands]
  BY DEF Frame
<1> QED BY <1>1 DEF UpMessages, DownMessages

-----------------------------------------------------------------------------
LEMMA UserTypeStep == UserType /\ FrameType /\ [Next]_vars => UserType'
<1> SUFFICES ASSUME UserType, FrameType, [Next]_vars PROVE UserType'
  OBVIOUS
<1> USE DEF UserType
<1>1. CASE UNCHANGED user
  BY <1>1 DEF user
<1>2. CASE Enter \/ Leave
  BY <1>2 DEF Enter, Leave
<1>3. ASSUME NEW b \in Bands, Move(b) PROVE UserType'
  <2>1. moves' \in 0 .. Moves
    BY <1>3, Bounds DEF Move
  <2>2. mouse' = b /\ idle' \in {b, None} /\ armed' = videoFrame
    BY <1>3 DEF Move
  <2> QED BY <2>1, <2>2 DEF FrameType
<1>4. CASE IdleTimeout
  BY <1>4 DEF IdleTimeout
<1>5. CASE ReceiveAnswer \/ ReceiveFrame \/ Paint \/ Connection
  BY <1>1, <1>5 DEF ReceiveAnswer, ReceiveFrame, Paint, Connection, Break, Reconnect, Close,
                    Disconnect
<1>6. CASE Server
  BY <1>1, <1>6 DEF Server, ServeInit, OpenEncoder, ServeEnd, ServeVideo, Spawn, Compute, Encode
<1>7. CASE UNCHANGED vars
  BY <1>1, <1>7 DEF vars
<1> QED BY <1>2, <1>3, <1>4, <1>5, <1>6, <1>7 DEF Next, User, Page

LEMMA SendType ==
  ASSUME WireType, NEW messages \in Seq(UpMessages), Send(messages)
  PROVE  up' \in Seq(UpMessages)
BY DEF WireType, Send

LEMMA TakeType == ASSUME WireType, NEW type, Take(type) PROVE up' \in Seq(UpMessages)
BY DEF WireType, Take

LEMMA DeliverType == ASSUME WireType, NEW type, Deliver(type) PROVE down' \in Seq(DownMessages)
BY DEF WireType, Deliver

(* A frame that is about to be encoded has planes. *)
PlaneIsSet == \A i \in DOMAIN workers : workers[i].stage = "encode" => plane # None

LEMMA WireTypeStep == TypeOK /\ PlaneIsSet /\ [Next]_vars => WireType'
<1> SUFFICES ASSUME TypeOK, PlaneIsSet, [Next]_vars PROVE WireType'
  OBVIOUS
<1>0. WireType
  BY TypesAreType
<1>1. CASE UNCHANGED wire
  BY <1>0, <1>1 DEF wire, WireType
<1>2. ASSUME up' \in Seq(UpMessages), UNCHANGED <<breaks, ws, down>> PROVE WireType'
  BY <1>0, <1>2 DEF WireType
<1>3. Farewell \in Seq(UpMessages)
  BY MessageTypes DEF Farewell
<1>4. CASE Enter
  <2>1. sent + 1 \in Hovers
    BY <1>4, Bounds, TypesAreType DEF Enter, HoverType, WireType, Hovers
  <2>2. <<InitMessage(sent + 1)>> \in Seq(UpMessages)
    BY <2>1, MessageTypes
  <2>3. ((IF streaming THEN Farewell ELSE <<>>) \o <<InitMessage(sent + 1)>>) \in Seq(UpMessages)
    BY <1>3, <2>2
  <2> QED BY <1>0, <1>2, <1>4, <2>3, SendType DEF Enter
<1>5. CASE Leave
  BY <1>0, <1>2, <1>3, <1>5, SendType DEF Leave
<1>6. ASSUME NEW b \in Bands, Move(b) PROVE WireType'
  <2>0. VideoMessage(b, FALSE) \in UpMessages
    BY MessageTypes, Zenon
  <2>1. <<VideoMessage(b, FALSE)>> \in Seq(UpMessages)
    BY <2>0, OneMessage, Zenon
  <2>2. up' \in Seq(UpMessages)
    BY <1>0, <1>6, <2>1, SendType DEF Move, WireType
  <2> QED BY <1>2, <1>6, <2>2 DEF Move
<1>7. CASE IdleTimeout
  <2>1. idle \in Bands
    BY <1>7, TypesAreType DEF IdleTimeout, UserType
  <2>4. VideoMessage(idle, TRUE) \in UpMessages
    BY <2>1, MessageTypes, Zenon
  <2>2. <<VideoMessage(idle, TRUE)>> \in Seq(UpMessages)
    BY <2>4, OneMessage, Zenon
  <2>3. up' \in Seq(UpMessages)
    BY <1>0, <1>7, <2>2, SendType DEF IdleTimeout, WireType
  <2> QED BY <1>2, <1>7, <2>3 DEF IdleTimeout
<1>8. CASE ReceiveAnswer \/ ReceiveFrame
  <2>1. down' \in Seq(DownMessages)
    BY <1>0, <1>8, DeliverType DEF ReceiveAnswer, ReceiveFrame
  <2>2. UNCHANGED <<breaks, ws, up>>
    BY <1>8 DEF ReceiveAnswer, ReceiveFrame
  <2> QED BY <1>0, <2>1, <2>2 DEF WireType
<1>9. CASE Paint \/ OpenEncoder \/ Spawn \/ \E i \in DOMAIN workers : Compute(i)
  BY <1>1, <1>9 DEF Paint, OpenEncoder, Spawn, Compute
<1>10. CASE Break
  <2>1. breaks' \in 0 .. Turns
    BY <1>0, <1>10, Bounds, TypesAreType DEF Break, WireType, HoverType
  <2>2. up' = <<>> /\ down' = <<>> /\ ws' = "down"
    BY <1>10 DEF Break, Disconnect
  <2> QED BY <2>1, <2>2 DEF WireType
<1>11. CASE Reconnect
  BY <1>0, <1>11 DEF Reconnect, WireType
<1>12. CASE Close
  BY <1>0, <1>12 DEF Close, Disconnect, WireType
<1>13. CASE ServeInit
  <2>1. up' \in Seq(UpMessages)
    BY <1>0, <1>13, TakeType DEF ServeInit
  <2>2. down' \in Seq(DownMessages)
    BY <1>0, <1>13, MessageTypes DEF ServeInit, WireType
  <2> QED BY <1>0, <1>13, <2>1, <2>2 DEF ServeInit, WireType
<1>14. CASE ServeEnd \/ ServeVideo
  BY <1>0, <1>2, <1>14, TakeType DEF ServeEnd, ServeVideo
<1>15. ASSUME NEW i \in DOMAIN workers, Encode(i) PROVE WireType'
  <2>1. down' \in Seq(DownMessages)
    <3>1. CASE encoder = Null
      BY <1>0, <1>15, <3>1 DEF Encode, WireType
    <3>2. CASE encoder # Null
      <4>0. plane \in Bands
        BY <1>15, TypesAreType DEF WorkType, PlaneIsSet, Encode
      <4>1. Frame(encoder, frames + 1, plane) \in DownMessages
        BY <3>2, <4>0, MessageTypes, TypesAreType DEF EncoderType
      <4> QED BY <1>0, <1>15, <3>2, <4>1 DEF Encode, WireType
    <3> QED BY <3>1, <3>2
  <2>2. UNCHANGED <<breaks, ws, up>>
    BY <1>15 DEF Encode
  <2> QED BY <1>0, <2>1, <2>2 DEF WireType
<1>16. CASE UNCHANGED vars
  BY <1>1, <1>16 DEF vars
<1> QED BY <1>4, <1>5, <1>6, <1>7, <1>8, <1>9, <1>10, <1>11, <1>12, <1>13, <1>14, <1>15, <1>16
        DEF Next, User, Page, Connection, Server

LEMMA HoverTypeStep == TypeOK /\ [Next]_vars => HoverType'
<1> SUFFICES ASSUME TypeOK, [Next]_vars PROVE HoverType'
  OBVIOUS
<1>0. sent \in 0 .. Turns /\ hover \in {Null} \cup 1 .. sent /\ breaks \in Nat
  BY Bounds, TypesAreType DEF HoverType, WireType
<1>1. CASE UNCHANGED <<sent, hover>>
  BY <1>0, <1>1 DEF HoverType
<1>2. CASE sent' = sent /\ hover' = Null
  BY <1>0, <1>2 DEF HoverType
<1>3. CASE Enter
  <2>1. sent + breaks < Turns /\ sent' = sent + 1 /\ hover' \in {sent + 1, Null}
    BY <1>3 DEF Enter
  <2> QED BY <1>0, <2>1, Bounds DEF HoverType
<1>4. CASE Leave \/ Break \/ Close
  BY <1>2, <1>4 DEF Leave, Break, Close, Disconnect
<1>5. CASE Reconnect \/ Page \/ \E b \in Bands : Move(b)
  BY <1>1, <1>5 DEF Reconnect, Page, IdleTimeout, ReceiveAnswer, ReceiveFrame, Paint, Move, page
<1>6. CASE Server
  BY <1>1, <1>6 DEF Server, ServeInit, OpenEncoder, ServeEnd, ServeVideo, Spawn, Compute, Encode, page
<1>7. CASE UNCHANGED vars
  BY <1>1, <1>7 DEF vars, page
<1> QED BY <1>3, <1>4, <1>5, <1>6, <1>7 DEF Next, User, Connection

LEMMA HeadOfDown ==
  ASSUME WireType, down # <<>>
  PROVE  Head(down) \in DownMessages
BY DEF WireType

LEMMA FrameIsFrame ==
  ASSUME NEW msg \in DownMessages, msg.type = "frame"
  PROVE  msg \in [type : {"frame"}, encoder : Hovers, number : Nat, band : Bands]
BY DEF DownMessages, Answer

LEMMA DecoderType ==
  ASSUME NEW d \in [on : BOOLEAN, encoder : {Null} \cup Hovers, frame : Nat],
         NEW f \in [type : {"frame"}, encoder : Hovers, number : Nat, band : Bands]
  PROVE  /\ hevc_init(d) \in [on : BOOLEAN, encoder : {Null} \cup Hovers, frame : Nat]
         /\ hevc_init(d).on
         /\ hevc_decode_nal_unit(d, f) \in [on : BOOLEAN, encoder : {Null} \cup Hovers, frame : Nat]
         /\ hevc_decode_nal_unit(d, f).on = d.on
         /\ hevc_destroy \in [on : BOOLEAN, encoder : {Null} \cup Hovers, frame : Nat]
         /\ ~hevc_destroy.on
BY DEF hevc_init, hevc_decode_nal_unit, hevc_destroy, Null

LEMMA FrameTypeStep == TypeOK /\ [Next]_vars => FrameType'
<1> SUFFICES ASSUME TypeOK, [Next]_vars PROVE FrameType'
  OBVIOUS
<1>0. FrameType
  BY TypesAreType
<1>1. CASE UNCHANGED <<streaming, videoFrame, decoder>>
  BY <1>0, <1>1 DEF FrameType
<1>2. ASSUME Release, streaming' \in BOOLEAN PROVE FrameType'
  <2>1. CASE videoFrame
    <3>1. decoder' = hevc_destroy /\ videoFrame' = FALSE
      BY <1>2, <2>1 DEF Release
    <3>2. hevc_destroy \in [on : BOOLEAN, encoder : {Null} \cup Hovers, frame : Nat]
          /\ hevc_destroy.on = FALSE
      BY DEF hevc_destroy, Null
    <3> QED BY <1>2, <3>1, <3>2, Zenon DEF FrameType
  <2>2. CASE ~videoFrame
    <3>1. decoder' = decoder /\ videoFrame' = FALSE
      BY <1>2, <2>2 DEF Release
    <3>2. decoder.on = FALSE
      BY <1>0, <2>2 DEF FrameType
    <3> QED BY <1>0, <1>2, <3>1, <3>2, Zenon DEF FrameType
  <2> QED BY <2>1, <2>2
<1>3. CASE Enter
  <2>1. CASE streaming
    BY <1>2, <1>3, <2>1 DEF Enter
  <2>2. CASE ~streaming
    <3>1. UNCHANGED <<videoFrame, decoder>> /\ streaming' = TRUE
      BY <1>3, <2>2 DEF Enter
    <3> QED BY <1>0, <3>1 DEF FrameType
  <2> QED BY <2>1, <2>2
<1>4. CASE Leave
  BY <1>2, <1>4 DEF Leave
<1>5. CASE ReceiveAnswer
  <2>1. videoFrame' = TRUE /\ decoder' = hevc_init(decoder) /\ streaming' = streaming
    BY <1>5 DEF ReceiveAnswer
  <2>2. decoder \in [on : BOOLEAN, encoder : {Null} \cup Hovers, frame : Nat]
    BY <1>0 DEF FrameType
  <2>3. hevc_init(decoder) \in [on : BOOLEAN, encoder : {Null} \cup Hovers, frame : Nat]
        /\ hevc_init(decoder).on = TRUE
    BY <2>2 DEF hevc_init, hevc_destroy, Null
  <2> QED BY <1>0, <2>1, <2>3, Zenon DEF FrameType
<1>6. CASE ReceiveFrame
  <2>1. Head(down) \in [type : {"frame"}, encoder : Hovers, number : Nat, band : Bands]
    BY <1>6, HeadOfDown, FrameIsFrame, TypesAreType DEF ReceiveFrame, Deliver
  <2>2. decoder \in [on : BOOLEAN, encoder : {Null} \cup Hovers, frame : Nat]
    BY <1>0 DEF FrameType
  <2>3. /\ decoder' = hevc_decode_nal_unit(decoder, Head(down))
        /\ UNCHANGED <<streaming, videoFrame>>
    BY <1>6 DEF ReceiveFrame
  <2>4. decoder' \in [on : BOOLEAN, encoder : {Null} \cup Hovers, frame : Nat]
        /\ decoder'.on = decoder.on
    BY <2>1, <2>2, <2>3, DecoderType, Zenon
  <2> QED BY <1>0, <2>3, <2>4, Zenon DEF FrameType
<1>7. CASE Paint \/ IdleTimeout \/ Connection \/ \E b \in Bands : Move(b)
  BY <1>1, <1>7 DEF Paint, IdleTimeout, Move, Connection, Break, Reconnect, Close, Disconnect,
                    page
<1>8. CASE Server
  BY <1>1, <1>8 DEF Server, ServeInit, OpenEncoder, ServeEnd, ServeVideo, Spawn, Compute, Encode,
                    page
<1>9. CASE UNCHANGED vars
  BY <1>1, <1>9 DEF vars, page
<1> QED BY <1>3, <1>4, <1>5, <1>6, <1>7, <1>8, <1>9 DEF Next, User, Page

LEMMA PictureTypeStep == TypeOK /\ [Next]_vars => PictureType'
<1> SUFFICES ASSUME TypeOK, [Next]_vars PROVE PictureType'
  OBVIOUS
<1>0. PictureType /\ Blank \in Pictures
  BY TypesAreType DEF Pictures, Blank
<1>1. CASE img' \in {img, Blank} /\ shown' \in {shown, img, Blank}
  BY <1>0, <1>1 DEF PictureType
<1>2. CASE ReceiveFrame
  <2>1. Head(down) \in [type : {"frame"}, encoder : Hovers, number : Nat, band : Bands]
    BY <1>2, HeadOfDown, FrameIsFrame, TypesAreType DEF ReceiveFrame, Deliver
  <2>2. [encoder |-> Head(down).encoder, band |-> Head(down).band] \in Pictures
    BY <2>1 DEF Pictures
  <2>3. img' \in {img, [encoder |-> Head(down).encoder, band |-> Head(down).band]} /\ shown' = shown
    BY <1>2 DEF ReceiveFrame
  <2> QED BY <1>0, <2>2, <2>3 DEF PictureType
<1>3. CASE Enter \/ Leave \/ Paint
  BY <1>1, <1>3 DEF Enter, Leave, Release, Paint
<1>4. CASE ReceiveAnswer \/ IdleTimeout \/ Connection \/ \E b \in Bands : Move(b)
  BY <1>1, <1>4 DEF ReceiveAnswer, IdleTimeout, Move, Connection, Break, Reconnect, Close,
                    Disconnect, page
<1>5. CASE Server
  BY <1>1, <1>5 DEF Server, ServeInit, OpenEncoder, ServeEnd, ServeVideo, Spawn, Compute, Encode,
                    page
<1>6. CASE UNCHANGED vars
  BY <1>1, <1>6 DEF vars, page
<1> QED BY <1>2, <1>3, <1>4, <1>5, <1>6 DEF Next, User, Page

LEMMA HeadOfUp ==
  ASSUME WireType, NEW type, Take(type)
  PROVE  Head(up) \in UpMessages /\ Head(up).type = type
BY DEF WireType, Take

LEMMA InitIsInit ==
  ASSUME NEW msg \in UpMessages, msg.type = "init_video"
  PROVE  msg.id \in Hovers
BY DEF UpMessages, InitMessage, EndMessage, VideoMessage

LEMMA VideoIsVideo ==
  ASSUME NEW msg \in UpMessages, msg.type = "video"
  PROVE  [band |-> msg.band, key |-> msg.key] \in [band : Bands, key : BOOLEAN]
<1>1. PICK b \in Bands, k \in BOOLEAN : msg = VideoMessage(b, k)
  BY DEF UpMessages, InitMessage, EndMessage
<1>2. msg.band = b /\ msg.key = k
  BY <1>1 DEF VideoMessage
<1> QED BY <1>2, Zenon

LEMMA EncoderTypeStep == TypeOK /\ [Next]_vars => EncoderType'
<1> SUFFICES ASSUME TypeOK, [Next]_vars PROVE EncoderType'
  OBVIOUS
<1>0. EncoderType
  BY TypesAreType
<1>1. CASE UNCHANGED <<ready, opening, encoder, frames>>
  BY <1>0, <1>1 DEF EncoderType
<1>2. CASE ServeInit
  <2>1. Head(up).id \in Hovers
    BY <1>2, HeadOfUp, InitIsInit, TypesAreType DEF ServeInit
  <2>2. ready' = TRUE /\ opening' = Head(up).id /\ UNCHANGED <<encoder, frames>>
    BY <1>2 DEF ServeInit
  <2> QED BY <1>0, <2>1, <2>2 DEF EncoderType
<1>3. CASE OpenEncoder
  BY <1>0, <1>3 DEF OpenEncoder, EncoderType
<1>4. CASE ServeEnd
  BY <1>0, <1>4 DEF ServeEnd, EncoderType
<1>5. ASSUME NEW i \in DOMAIN workers, Encode(i) PROVE EncoderType'
  <2>1. frames' \in {frames, frames + 1} /\ UNCHANGED <<ready, opening, encoder>>
    BY <1>5 DEF Encode
  <2> QED BY <1>0, <2>1 DEF EncoderType
<1>6. CASE Break \/ Close
  <2>1. ready' = FALSE /\ opening' = Null /\ encoder' = Null /\ frames' = 0
    BY <1>6 DEF Break, Close, Disconnect
  <2> QED BY <2>1 DEF EncoderType
<1>7. CASE Reconnect \/ User \/ Page
  BY <1>1, <1>7 DEF Reconnect, User, Enter, Leave, Move, Page, IdleTimeout, ReceiveAnswer,
                    ReceiveFrame, Paint, server
<1>8. CASE ServeVideo \/ Spawn \/ \E i \in DOMAIN workers : Compute(i)
  BY <1>1, <1>8 DEF ServeVideo, Spawn, Compute
<1>9. CASE UNCHANGED vars
  BY <1>1, <1>9 DEF vars, server
<1> QED BY <1>2, <1>3, <1>4, <1>5, <1>6, <1>7, <1>8, <1>9 DEF Next, Connection, Server

LEMMA RemainingWorkers ==
  ASSUME workers \in Seq(Works), NEW i \in DOMAIN workers
  PROVE  Done(i) \in Seq(Works)
<1>1. Len(workers) \in Nat /\ i \in 1 .. Len(workers)
  OBVIOUS
<1>2. \A j \in 1 .. Len(workers) : workers[j] \in Works
  OBVIOUS
<1>3. ASSUME NEW w \in Works PROVE [w EXCEPT !.stage = "late"] \in Works
  BY DEF Works
<1>4. ASSUME NEW j \in 1 .. Len(workers) - 1
      PROVE  (IF j >= i THEN workers[j + 1]
              ELSE IF workers[j].stage = "compute" THEN [workers[j] EXCEPT !.stage = "late"]
              ELSE workers[j]) \in Works
  <2>1. j \in 1 .. Len(workers) /\ j + 1 \in 1 .. Len(workers)
    BY <1>1
  <2> QED BY <1>2, <1>3, <2>1, Zenon
<1>5. Done(i) \in [1 .. Len(workers) - 1 -> Works]
  BY <1>4, Zenon DEF Done
<1> QED BY <1>1, <1>5

LEMMA WorkTypeStep == TypeOK /\ [Next]_vars => WorkType'
<1> SUFFICES ASSUME TypeOK, [Next]_vars PROVE WorkType'
  OBVIOUS
<1>0. WorkType
  BY TypesAreType
<1>1. CASE UNCHANGED <<requests, last, workers, plane, overtaken>>
  BY <1>0, <1>1 DEF WorkType
<1>2. CASE ServeInit
  <2>1. last' = None /\ UNCHANGED <<requests, workers, plane, overtaken>>
    BY <1>2 DEF ServeInit
  <2> QED BY <1>0, <2>1 DEF WorkType
<1>3. CASE ServeVideo
  <2>1. [band |-> Head(up).band, key |-> Head(up).key] \in [band : Bands, key : BOOLEAN]
    BY <1>3, HeadOfUp, VideoIsVideo, TypesAreType DEF ServeVideo
  <2>2. requests' = Append(requests, [band |-> Head(up).band, key |-> Head(up).key])
        /\ UNCHANGED <<last, workers, plane, overtaken>>
    BY <1>3 DEF ServeVideo
  <2>3. requests' \in Seq([band : Bands, key : BOOLEAN])
    BY <1>0, <2>1, <2>2 DEF WorkType
  <2> QED BY <1>0, <2>2, <2>3 DEF WorkType
<1>4. CASE Spawn
  <2>1. requests # <<>> /\ requests' = Tail(requests) /\ UNCHANGED <<plane, overtaken>>
    BY <1>4 DEF Spawn
  <2>2. requests \in Seq([band : Bands, key : BOOLEAN])
    BY <1>0 DEF WorkType
  <2>3. requests' \in Seq([band : Bands, key : BOOLEAN])
    BY <2>1, <2>2, HeadAndTail, Zenon
  <2>4. Head(requests) \in [band : Bands, key : BOOLEAN]
    BY <2>1, <2>2, HeadAndTail, Zenon
  <2>5. Head(requests).band \in Bands
    BY <2>4
  <2>6. [band |-> Head(requests).band, stage |-> "compute"] \in Works
    BY <2>5 DEF Works
  <2>7. \/ UNCHANGED <<last, workers>>
        \/ /\ last' = Head(requests).band
           /\ workers' = Append(workers, [band |-> Head(requests).band, stage |-> "compute"])
    BY <1>4 DEF Spawn
  <2>8. last' \in Bands \cup {None} /\ workers' \in Seq(Works)
    <3>1. last \in Bands \cup {None} /\ workers \in Seq(Works)
      BY <1>0 DEF WorkType
    <3>2. CASE UNCHANGED <<last, workers>>
      BY <3>1, <3>2
    <3> DEFINE work == [band |-> Head(requests).band, stage |-> "compute"]
    <3>3. ASSUME last' = Head(requests).band, workers' = Append(workers, work)
          PROVE  last' \in Bands \cup {None} /\ workers' \in Seq(Works)
      <4>1. work \in Works
        BY <2>6
      <4> HIDE DEF work
      <4> QED BY <2>5, <3>1, <3>3, <4>1
    <3> QED BY <2>7, <3>2, <3>3
  <2> QED BY <1>0, <2>1, <2>3, <2>8 DEF WorkType
<1>5. ASSUME NEW i \in DOMAIN workers, Compute(i) PROVE WorkType'
  <2>1. workers \in Seq(Works) /\ workers[i] \in Works
    BY <1>0 DEF WorkType
  <2>2. [workers[i] EXCEPT !.stage = "encode"] \in Works /\ workers[i].band \in Bands
    BY <2>1 DEF Works
  <2>3. workers' = [workers EXCEPT ![i].stage = "encode"] /\ plane' = workers[i].band
        /\ UNCHANGED <<requests, last>>
    BY <1>5 DEF Compute
  <2>4. workers' \in Seq(Works)
    BY <2>1, <2>2, <2>3
  <2>5. overtaken' \in BOOLEAN
    BY <1>5 DEF Compute
  <2> QED BY <1>0, <2>2, <2>3, <2>4, <2>5 DEF WorkType
<1>6. ASSUME NEW i \in DOMAIN workers, Encode(i) PROVE WorkType'
  <2>1. workers' = Done(i) /\ UNCHANGED <<requests, last, plane, overtaken>>
    BY <1>6 DEF Encode
  <2> QED BY <1>0, <2>1, RemainingWorkers DEF WorkType
<1>7. CASE Break \/ Close
  <2>1. requests' = <<>> /\ workers' = <<>> /\ last' = None /\ plane' = None /\ overtaken' = FALSE
    BY <1>7 DEF Break, Close, Disconnect
  <2>2. <<>> \in Seq([band : Bands, key : BOOLEAN]) /\ <<>> \in Seq(Works)
    OBVIOUS
  <2> QED BY <2>1, <2>2 DEF WorkType
<1>8. CASE Reconnect \/ User \/ Page
  BY <1>1, <1>8 DEF Reconnect, User, Enter, Leave, Move, Page, IdleTimeout, ReceiveAnswer,
                    ReceiveFrame, Paint, server
<1>9. CASE OpenEncoder \/ ServeEnd
  BY <1>1, <1>9 DEF OpenEncoder, ServeEnd
<1>10. CASE UNCHANGED vars
  BY <1>1, <1>10 DEF vars, server
<1> QED BY <1>2, <1>3, <1>4, <1>5, <1>6, <1>7, <1>8, <1>9, <1>10 DEF Next, Connection, Server

LEMMA EarlyTypeStep == TypeOK /\ [Next]_vars => EarlyType'
<1> SUFFICES ASSUME TypeOK, [Next]_vars PROVE EarlyType'
  OBVIOUS
<1>0. EarlyType
  BY TypesAreType
<1>1. CASE UNCHANGED early
  BY <1>0, <1>1 DEF EarlyType
<1>2. CASE Enter \/ Leave
  BY <1>0, <1>2 DEF Enter, Leave, Release, Unanswered, EarlyType
<1>3. CASE Break \/ Close
  BY <1>3 DEF Break, Close, Disconnect, EarlyType
<1>4. CASE Reconnect \/ Page \/ \E b \in Bands : Move(b)
  BY <1>1, <1>4 DEF Reconnect, Page, IdleTimeout, ReceiveAnswer, ReceiveFrame, Paint, Move
<1>5. CASE Server
  BY <1>1, <1>5 DEF Server, ServeInit, OpenEncoder, ServeEnd, ServeVideo, Spawn, Compute, Encode
<1>6. CASE UNCHANGED vars
  BY <1>1, <1>6 DEF vars
<1> QED BY <1>2, <1>3, <1>4, <1>5, <1>6 DEF Next, User, Connection

LEMMA PlaneStaysSet == TypeOK /\ PlaneIsSet /\ [Next]_vars => PlaneIsSet'
<1> SUFFICES ASSUME TypeOK, PlaneIsSet, [Next]_vars PROVE PlaneIsSet'
  OBVIOUS
<1>0. workers \in Seq(Works)
  BY TypesAreType DEF WorkType
<1>1. CASE UNCHANGED <<workers, plane>>
  BY <1>1 DEF PlaneIsSet
<1>2. CASE Spawn
  <2>1. CASE UNCHANGED workers
    BY <1>1, <1>2, <2>1 DEF Spawn
  <2>2. CASE workers' = Append(workers, [band |-> Head(requests).band, stage |-> "compute"])
    <3>1. plane' = plane
      BY <1>2 DEF Spawn
    <3> QED BY <1>0, <2>2, <3>1 DEF PlaneIsSet
  <2> QED BY <1>2, <2>1, <2>2 DEF Spawn
<1>3. ASSUME NEW i \in DOMAIN workers, Compute(i) PROVE PlaneIsSet'
  <2>0. workers[i] \in Works /\ plane' = workers[i].band
    BY <1>0, <1>3 DEF Compute
  <2>1. plane' \in Bands
    BY <2>0 DEF Works
  <2> QED BY <2>1, Bounds DEF PlaneIsSet
<1>4. ASSUME NEW i \in DOMAIN workers, Encode(i) PROVE PlaneIsSet'
  <2>1. plane' = plane /\ plane # None
    BY <1>4 DEF Encode, PlaneIsSet
  <2> QED BY <2>1 DEF PlaneIsSet
<1>5. CASE Break \/ Close
  <2>1. workers' = <<>>
    BY <1>5 DEF Break, Close, Disconnect
  <2> QED BY <2>1 DEF PlaneIsSet
<1>6. CASE Reconnect \/ User \/ Page
  BY <1>1, <1>6 DEF Reconnect, User, Enter, Leave, Move, Page, IdleTimeout, ReceiveAnswer,
                    ReceiveFrame, Paint, server
<1>7. CASE ServeInit \/ OpenEncoder \/ ServeEnd \/ ServeVideo
  BY <1>1, <1>7 DEF ServeInit, OpenEncoder, ServeEnd, ServeVideo
<1>8. CASE UNCHANGED vars
  BY <1>1, <1>8 DEF vars, server
<1> QED BY <1>2, <1>3, <1>4, <1>5, <1>6, <1>7, <1>8 DEF Next, Connection, Server

LEMMA TypeStep == TypeOK /\ PlaneIsSet /\ [Next]_vars => TypeOK' /\ PlaneIsSet'
<1> SUFFICES ASSUME TypeOK, PlaneIsSet, [Next]_vars PROVE TypeOK' /\ PlaneIsSet'
  OBVIOUS
<1>1. /\ UserType' /\ WireType' /\ HoverType' /\ FrameType' /\ PictureType'
      /\ EncoderType' /\ WorkType' /\ EarlyType'
  BY TypesAreType, UserTypeStep, WireTypeStep, HoverTypeStep, FrameTypeStep, PictureTypeStep,
     EncoderTypeStep, WorkTypeStep, EarlyTypeStep
<1>2. TypeOK'
  BY <1>1 DEF TypeOK, UserType, WireType, HoverType, FrameType, PictureType, EncoderType, WorkType,
              EarlyType
<1> QED BY <1>2, PlaneStaysSet

(* Every variable keeps its type; in particular the page has a frame to    *)
(* draw on exactly while its decoder is open (x_axis_mouseleave destroys   *)
(* both, the answer to init_video makes both).                             *)
THEOREM TypeCorrect == Spec => []TypeOK
<1>1. Init => TypeOK /\ PlaneIsSet
  BY InitialType DEF Init, PlaneIsSet
<1> QED BY <1>1, TypeStep, PTL DEF Spec

-----------------------------------------------------------------------------
(* What a step makes of a sequence of messages.                            *)

LEMMA Sent ==
  ASSUME NEW S, NEW s \in Seq(S), NEW x \in S
  PROVE  /\ Len(s \o <<x>>) = Len(s) + 1
         /\ DOMAIN (s \o <<x>>) = 1 .. Len(s) + 1
         /\ DOMAIN s = 1 .. Len(s) /\ Len(s) \in Nat
         /\ \A i \in 1 .. Len(s) : (s \o <<x>>)[i] = s[i]
         /\ (s \o <<x>>)[Len(s) + 1] = x
         /\ s \o <<x>> = Append(s, x)
OBVIOUS

LEMMA Taken ==
  ASSUME NEW S, NEW s \in Seq(S), s # <<>>
  PROVE  /\ Len(s) \in Nat /\ Len(s) > 0 /\ DOMAIN s = 1 .. Len(s)
         /\ Len(Tail(s)) = Len(s) - 1 /\ DOMAIN Tail(s) = 1 .. Len(s) - 1
         /\ \A i \in 1 .. Len(s) - 1 : Tail(s)[i] = s[i + 1]
         /\ Head(s) = s[1]
OBVIOUS

LEMMA Grouped ==
  ASSUME NEW S, NEW a \in Seq(S), NEW b \in Seq(S), NEW x \in S
  PROVE  a \o (b \o <<x>>) = (a \o b) \o <<x>>
OBVIOUS

(* The kinds of messages. *)
LEMMA Kinds ==
  /\ \A n : InitMessage(n).type = "init_video" /\ InitMessage(n).id = n
  /\ EndMessage.type = "end_video"
  /\ \A b, k : VideoMessage(b, k).type = "video"
  /\ Answer.type = "init_video"
BY DEF InitMessage, EndMessage, VideoMessage, Answer

(* Whether there is an init_video, or its answer, among the messages. *)
Opens(s) == \E i \in DOMAIN s : s[i].type = "init_video"

LEMMA OpensUnanswered == Unanswered <=> Opens(up) \/ Opens(down)
BY DEF Unanswered, Opens

LEMMA OpensSent ==
  ASSUME NEW S, NEW s \in Seq(S), NEW x \in S
  PROVE  /\ Opens(s) => Opens(s \o <<x>>)
         /\ x.type = "init_video" => Opens(s \o <<x>>)
<1>1. ASSUME Opens(s) PROVE Opens(s \o <<x>>)
  <2>1. PICK i \in DOMAIN s : s[i].type = "init_video"
    BY <1>1 DEF Opens
  <2>2. i \in DOMAIN (s \o <<x>>) /\ (s \o <<x>>)[i] = s[i]
    BY Sent
  <2> QED BY <2>1, <2>2 DEF Opens
<1>2. ASSUME x.type = "init_video" PROVE Opens(s \o <<x>>)
  <2>1. Len(s) + 1 \in DOMAIN (s \o <<x>>) /\ (s \o <<x>>)[Len(s) + 1] = x
    BY Sent
  <2> QED BY <1>2, <2>1 DEF Opens
<1> QED BY <1>1, <1>2

LEMMA OpensTaken ==
  ASSUME NEW S, NEW s \in Seq(S), s # <<>>, Head(s).type # "init_video", Opens(s)
  PROVE  Opens(Tail(s))
<1>1. PICK i \in DOMAIN s : s[i].type = "init_video"
  BY DEF Opens
<1>2. i # 1 /\ i \in 1 .. Len(s) /\ Len(s) \in Nat
  BY <1>1, Taken
<1>3. i - 1 \in DOMAIN Tail(s) /\ Tail(s)[i - 1] = s[i]
  BY <1>2, Taken
<1> QED BY <1>1, <1>3 DEF Opens

-----------------------------------------------------------------------------
(* Among the messages u, with o about to be opened and e open: when the    *)
(* message at n arrives, the encoder is closed, since an end_video comes   *)
(* before it and no init_video after that, or there is no encoder and no   *)
(* init_video before n.                                                    *)
NoInit(u, i, n) == \A k \in DOMAIN u : i < k /\ k < n => u[k].type # "init_video"
Ended(u, o, e, n) ==
  \/ \E j \in DOMAIN u : j < n /\ u[j].type = "end_video" /\ NoInit(u, j, n)
  \/ o = Null /\ e = Null /\ NoInit(u, 0, n)

(* Each init_video among them finds the encoder closed; and so would one   *)
(* that came after them.                                                   *)
EachEnded(u, o, e) == \A i \in DOMAIN u : u[i].type = "init_video" => Ended(u, o, e, i)
AllEnded(u, o, e) == Ended(u, o, e, Len(u) + 1)

(* The init_video of hover h is the last message that concerns the encoder: *)
(* it is among the messages, or the encoder is its own.                    *)
Traced(u, o, e, h) ==
  \/ \E i \in DOMAIN u : /\ u[i].type = "init_video" /\ u[i].id = h
                         /\ \A k \in DOMAIN u : k > i => u[k].type = "video"
  \/ /\ \A k \in DOMAIN u : u[k].type = "video"
     /\ o = h \/ (o = Null /\ e = h)

LEMMA EndedEmpty ==
  /\ EachEnded(<<>>, Null, Null) /\ AllEnded(<<>>, Null, Null)
BY DEF EachEnded, AllEnded, Ended, NoInit

(* One more message leaves ended what was. *)
LEMMA EndedSent ==
  ASSUME NEW u \in Seq(UpMessages), NEW x \in UpMessages, NEW o, NEW e
  PROVE  /\ \A n \in 1 .. Len(u) + 1 : Ended(u, o, e, n) => Ended(u \o <<x>>, o, e, n)
         /\ x.type = "video" /\ AllEnded(u, o, e) => AllEnded(u \o <<x>>, o, e)
         /\ x.type = "end_video" => AllEnded(u \o <<x>>, o, e)
<1> DEFINE v == u \o <<x>>
<1>2. /\ Len(u) \in Nat /\ DOMAIN u = 1 .. Len(u) /\ DOMAIN v = 1 .. Len(u) + 1
      /\ \A i \in 1 .. Len(u) : v[i] = u[i]
      /\ v[Len(u) + 1] = x /\ Len(v) = Len(u) + 1
  BY Sent
<1> HIDE DEF v
<1>3. ASSUME NEW i \in Nat, NEW n \in 1 .. Len(u) + 1, NoInit(u, i, n) PROVE NoInit(v, i, n)
  BY <1>2, <1>3 DEF NoInit
<1>4. ASSUME NEW n \in 1 .. Len(u) + 1, Ended(u, o, e, n) PROVE Ended(v, o, e, n)
  <2>1. CASE \E j \in DOMAIN u : j < n /\ u[j].type = "end_video" /\ NoInit(u, j, n)
    <3>1. PICK j \in DOMAIN u : j < n /\ u[j].type = "end_video" /\ NoInit(u, j, n)
      BY <2>1
    <3>2. j \in DOMAIN v /\ v[j].type = "end_video" /\ NoInit(v, j, n)
      BY <1>2, <1>3, <3>1
    <3> QED BY <3>1, <3>2 DEF Ended
  <2>2. CASE o = Null /\ e = Null /\ NoInit(u, 0, n)
    BY <1>3, <2>2 DEF Ended
  <2> QED BY <1>4, <2>1, <2>2 DEF Ended
<1>5. ASSUME x.type = "video", AllEnded(u, o, e) PROVE AllEnded(v, o, e)
  <2>0. ASSUME NEW i \in Nat, NoInit(u, i, Len(u) + 1) PROVE NoInit(v, i, Len(u) + 2)
    <3>1. ASSUME NEW k \in DOMAIN v, i < k PROVE v[k].type # "init_video"
      <4>1. CASE k = Len(u) + 1
        BY <1>2, <1>5, <4>1
      <4>2. CASE k \in DOMAIN u /\ k < Len(u) + 1
        BY <1>2, <2>0, <3>1, <4>2 DEF NoInit
      <4> QED BY <1>2, <3>1, <4>1, <4>2
    <3> QED BY <3>1 DEF NoInit
  <2>1. CASE \E j \in DOMAIN u : j < Len(u) + 1 /\ u[j].type = "end_video" /\ NoInit(u, j, Len(u) + 1)
    <3>1. PICK j \in DOMAIN u : j < Len(u) + 1 /\ u[j].type = "end_video" /\ NoInit(u, j, Len(u) + 1)
      BY <2>1
    <3>2. j \in DOMAIN v /\ v[j].type = "end_video" /\ NoInit(v, j, Len(u) + 2) /\ j < Len(u) + 2
      BY <1>2, <2>0, <3>1
    <3>3. Ended(v, o, e, Len(u) + 2) /\ Len(u) + 2 = Len(v) + 1
      BY <1>2, <3>2 DEF Ended
    <3> QED BY <3>3 DEF AllEnded
  <2>2. CASE o = Null /\ e = Null /\ NoInit(u, 0, Len(u) + 1)
    <3>1. Ended(v, o, e, Len(u) + 2) /\ Len(u) + 2 = Len(v) + 1
      BY <1>2, <2>0, <2>2 DEF Ended
    <3> QED BY <3>1 DEF AllEnded
  <2> QED BY <1>5, <2>1, <2>2 DEF Ended, AllEnded
<1>6. ASSUME x.type = "end_video" PROVE AllEnded(v, o, e)
  <2>1. Len(u) + 1 \in DOMAIN v /\ Len(u) + 1 < Len(v) + 1 /\ v[Len(u) + 1].type = "end_video"
    BY <1>2, <1>6
  <2>2. NoInit(v, Len(u) + 1, Len(v) + 1)
    BY <1>2 DEF NoInit
  <2> QED BY <2>1, <2>2 DEF Ended, AllEnded
<1> QED BY <1>4, <1>5, <1>6 DEF v

(* An init_video may follow when all is ended; other messages always may.  *)
LEMMA EachEndedSent ==
  ASSUME NEW u \in Seq(UpMessages), NEW x \in UpMessages, NEW o, NEW e,
         EachEnded(u, o, e), x.type = "init_video" => AllEnded(u, o, e)
  PROVE  EachEnded(u \o <<x>>, o, e)
<1>1. /\ Len(u) \in Nat /\ DOMAIN u = 1 .. Len(u) /\ DOMAIN (u \o <<x>>) = 1 .. Len(u) + 1
      /\ \A i \in 1 .. Len(u) : (u \o <<x>>)[i] = u[i]
      /\ (u \o <<x>>)[Len(u) + 1] = x
  BY Sent
<1>2. ASSUME NEW i \in DOMAIN (u \o <<x>>), (u \o <<x>>)[i].type = "init_video"
      PROVE  Ended(u \o <<x>>, o, e, i)
  <2>1. CASE i \in 1 .. Len(u)
    <3>1. Ended(u, o, e, i) /\ i \in 1 .. Len(u) + 1
      BY <1>1, <1>2, <2>1 DEF EachEnded
    <3> QED BY <3>1, EndedSent
  <2>2. CASE i = Len(u) + 1
    <3>1. Ended(u, o, e, i) /\ i \in 1 .. Len(u) + 1
      BY <1>1, <1>2, <2>2 DEF AllEnded
    <3> QED BY <3>1, EndedSent
  <2> QED BY <1>1, <1>2, <2>1, <2>2
<1> QED BY <1>2 DEF EachEnded

(* The server takes the first message and does with the encoder what it    *)
(* says.                                                                   *)
Serves(x, e, o1, e1) ==
  \/ x.type = "init_video"
  \/ x.type = "end_video" /\ o1 = Null /\ e1 = Null
  \/ x.type = "video" /\ o1 = Null /\ e1 = e

LEMMA EndedTaken ==
  ASSUME NEW u \in Seq(UpMessages), u # <<>>, NEW e, NEW o1, NEW e1, Serves(Head(u), e, o1, e1),
         NEW n \in Nat \ {0}, Ended(u, Null, e, n + 1)
  PROVE  Ended(Tail(u), o1, e1, n)
<1> DEFINE v == Tail(u)
<1>2. /\ Len(u) \in Nat /\ Len(u) > 0 /\ DOMAIN u = 1 .. Len(u) /\ DOMAIN v = 1 .. Len(u) - 1
      /\ \A i \in 1 .. Len(u) - 1 : v[i] = u[i + 1]
      /\ Head(u) = u[1]
  BY Taken
<1> HIDE DEF v
<1>3. ASSUME NEW i \in Nat \ {0}, NoInit(u, i, n + 1) PROVE NoInit(v, i - 1, n)
  <2>1. ASSUME NEW k \in DOMAIN v, i - 1 < k, k < n PROVE v[k].type # "init_video"
    <3>1. k + 1 \in DOMAIN u /\ i < k + 1 /\ k + 1 < n + 1 /\ v[k] = u[k + 1]
      BY <1>2, <2>1
    <3> QED BY <1>3, <3>1 DEF NoInit
  <2> QED BY <2>1 DEF NoInit
<1>4. CASE \E j \in DOMAIN u : j < n + 1 /\ u[j].type = "end_video" /\ NoInit(u, j, n + 1)
  <2>1. PICK j \in DOMAIN u : j < n + 1 /\ u[j].type = "end_video" /\ NoInit(u, j, n + 1)
    BY <1>4
  <2>2. NoInit(v, j - 1, n) /\ j \in 1 .. Len(u)
    BY <1>2, <1>3, <2>1
  <2>3. CASE j = 1
    <3>1. o1 = Null /\ e1 = Null
      BY <1>2, <2>1, <2>3 DEF Serves
    <3>2. NoInit(v, 0, n)
      BY <2>2, <2>3
    <3> QED BY <3>1, <3>2 DEF Ended, v
  <2>4. CASE j > 1
    <3>1. j - 1 \in DOMAIN v /\ j - 1 < n /\ v[j - 1] = u[j]
      BY <1>2, <2>1, <2>2, <2>4
    <3> QED BY <2>1, <2>2, <3>1 DEF Ended, v
  <2> QED BY <1>2, <2>2, <2>3, <2>4
<1>5. CASE e = Null /\ NoInit(u, 0, n + 1)
  <2>1. u[1].type # "init_video"
    BY <1>2, <1>5 DEF NoInit
  <2>2. o1 = Null /\ e1 = Null
    BY <1>2, <1>5, <2>1 DEF Serves
  <2>3. NoInit(u, 1, n + 1)
    BY <1>5, <1>2 DEF NoInit
  <2>4. NoInit(v, 0, n)
    BY <1>3, <2>3
  <2> QED BY <2>2, <2>4 DEF Ended, v
<1> QED BY <1>4, <1>5 DEF Ended

LEMMA AllEndedTaken ==
  ASSUME NEW u \in Seq(UpMessages), u # <<>>, NEW e, NEW o1, NEW e1, Serves(Head(u), e, o1, e1)
  PROVE  /\ EachEnded(u, Null, e) => EachEnded(Tail(u), o1, e1)
         /\ AllEnded(u, Null, e) => AllEnded(Tail(u), o1, e1)
<1>1. /\ Len(u) \in Nat /\ Len(u) > 0 /\ DOMAIN u = 1 .. Len(u)
      /\ Len(Tail(u)) = Len(u) - 1 /\ DOMAIN Tail(u) = 1 .. Len(u) - 1
      /\ \A i \in 1 .. Len(u) - 1 : Tail(u)[i] = u[i + 1]
  BY Taken
<1>2. ASSUME EachEnded(u, Null, e), NEW i \in DOMAIN Tail(u), Tail(u)[i].type = "init_video"
      PROVE  Ended(Tail(u), o1, e1, i)
  <2>1. i \in Nat \ {0} /\ i + 1 \in DOMAIN u /\ u[i + 1].type = "init_video"
    BY <1>1, <1>2
  <2>2. Ended(u, Null, e, i + 1)
    BY <1>2, <2>1 DEF EachEnded
  <2> QED BY <2>1, <2>2, EndedTaken
<1>3. ASSUME AllEnded(u, Null, e) PROVE AllEnded(Tail(u), o1, e1)
  <2>1. Len(u) \in Nat \ {0} /\ Len(Tail(u)) + 1 = Len(u)
    BY <1>1
  <2>2. Ended(u, Null, e, Len(u) + 1)
    BY <1>3 DEF AllEnded
  <2>3. Ended(Tail(u), o1, e1, Len(u))
    BY <2>1, <2>2, EndedTaken
  <2> QED BY <2>1, <2>3 DEF AllEnded
<1> QED BY <1>2, <1>3 DEF EachEnded

(* The encoder that is about to be opened counts as open already. *)
LEMMA EndedOpened ==
  ASSUME NEW u, NEW o, o # Null, NEW e
  PROVE  /\ EachEnded(u, o, e) => EachEnded(u, Null, o)
         /\ AllEnded(u, o, e) => AllEnded(u, Null, o)
BY DEF EachEnded, AllEnded, Ended

LEMMA TracedSent ==
  ASSUME NEW u \in Seq(UpMessages), NEW x \in UpMessages, NEW o, NEW e, NEW h
  PROVE  /\ x.type = "init_video" /\ x.id = h => Traced(u \o <<x>>, o, e, h)
         /\ x.type = "video" /\ Traced(u, o, e, h) => Traced(u \o <<x>>, o, e, h)
<1> DEFINE v == u \o <<x>>
<1>1. /\ Len(u) \in Nat /\ DOMAIN u = 1 .. Len(u) /\ DOMAIN v = 1 .. Len(u) + 1
      /\ \A i \in 1 .. Len(u) : v[i] = u[i]
      /\ v[Len(u) + 1] = x
  BY Sent
<1> HIDE DEF v
<1>2. ASSUME x.type = "init_video", x.id = h PROVE Traced(v, o, e, h)
  <2>1. Len(u) + 1 \in DOMAIN v /\ \A k \in DOMAIN v : ~(k > Len(u) + 1)
    BY <1>1
  <2> QED BY <1>1, <1>2, <2>1 DEF Traced
<1>3. ASSUME x.type = "video", Traced(u, o, e, h) PROVE Traced(v, o, e, h)
  <2>1. CASE \E i \in DOMAIN u : /\ u[i].type = "init_video" /\ u[i].id = h
                                 /\ \A k \in DOMAIN u : k > i => u[k].type = "video"
    <3>1. PICK i \in DOMAIN u : /\ u[i].type = "init_video" /\ u[i].id = h
                                /\ \A k \in DOMAIN u : k > i => u[k].type = "video"
      BY <2>1
    <3>2. i \in DOMAIN v /\ v[i] = u[i]
      BY <1>1
    <3>3. \A k \in DOMAIN v : k > i => v[k].type = "video"
      BY <1>1, <1>3, <3>1
    <3> QED BY <3>1, <3>2, <3>3 DEF Traced
  <2>2. CASE \A k \in DOMAIN u : u[k].type = "video"
    <3>1. \A k \in DOMAIN v : v[k].type = "video"
      BY <1>1, <1>3, <2>2
    <3>2. CASE o = h \/ (o = Null /\ e = h)
      BY <3>1, <3>2 DEF Traced
    <3> QED BY <1>3, <2>1, <3>2 DEF Traced
  <2> QED BY <1>3, <2>1, <2>2 DEF Traced
<1> QED BY <1>2, <1>3 DEF v

LEMMA TracedTaken ==
  ASSUME NEW u \in Seq(UpMessages), u # <<>>, NEW e, NEW o1, NEW e1, NEW h, h # Null,
         Serves(Head(u), e, o1, e1), Head(u).type = "init_video" => o1 = Head(u).id,
         Traced(u, Null, e, h)
  PROVE  Traced(Tail(u), o1, e1, h)
<1>1. /\ Len(u) \in Nat /\ Len(u) > 0 /\ DOMAIN u = 1 .. Len(u) /\ DOMAIN Tail(u) = 1 .. Len(u) - 1
      /\ \A i \in 1 .. Len(u) - 1 : Tail(u)[i] = u[i + 1]
      /\ Head(u) = u[1]
  BY Taken
<1>2. CASE \E i \in DOMAIN u : /\ u[i].type = "init_video" /\ u[i].id = h
                               /\ \A k \in DOMAIN u : k > i => u[k].type = "video"
  <2>1. PICK i \in DOMAIN u : /\ u[i].type = "init_video" /\ u[i].id = h
                              /\ \A k \in DOMAIN u : k > i => u[k].type = "video"
    BY <1>2
  <2>2. CASE i = 1
    <3>1. o1 = h
      BY <1>1, <2>1, <2>2
    <3>2. \A k \in DOMAIN Tail(u) : Tail(u)[k].type = "video"
      BY <1>1, <2>1, <2>2
    <3> QED BY <3>1, <3>2 DEF Traced
  <2>3. CASE i > 1
    <3>1. i - 1 \in DOMAIN Tail(u) /\ Tail(u)[i - 1] = u[i]
      BY <1>1, <2>3
    <3>2. \A k \in DOMAIN Tail(u) : k > i - 1 => Tail(u)[k].type = "video"
      BY <1>1, <2>1, <2>3
    <3> QED BY <2>1, <3>1, <3>2 DEF Traced
  <2> QED BY <1>1, <2>2, <2>3
<1>3. CASE (\A k \in DOMAIN u : u[k].type = "video") /\ e = h
  <2>1. Head(u).type = "video"
    BY <1>1, <1>3
  <2>2. o1 = Null /\ e1 = h
    BY <1>3, <2>1 DEF Serves
  <2>3. \A k \in DOMAIN Tail(u) : Tail(u)[k].type = "video"
    BY <1>1, <1>3
  <2> QED BY <2>2, <2>3 DEF Traced
<1> QED BY <1>2, <1>3 DEF Traced

LEMMA TracedOpened ==
  ASSUME NEW u, NEW o, o # Null, NEW e, NEW h, Traced(u, o, e, h)
  PROVE  Traced(u, Null, o, h)
BY DEF Traced

-----------------------------------------------------------------------------
(* A connection that is not open carries nothing and has no session.       *)
DownIsEmpty == ws # "open" => up = <<>> /\ opening = Null /\ encoder = Null

(* Every init_video finds the encoder closed; so would the next one, if    *)
(* the page has left, or has no frame although all is answered.            *)
InitsAreEnded == ~early => EachEnded(up, opening, encoder)
FramelessIsEnded == streaming /\ ~videoFrame /\ ~Unanswered => AllEnded(up, opening, encoder)
LeftIsEnded == ~streaming /\ ~early => AllEnded(up, opening, encoder)

(* The init_video of the hover was the last word on the encoder.           *)
HoverIsTraced == hover # Null => ws = "open" /\ Traced(up, opening, encoder, hover)

EncoderInv == DownIsEmpty /\ InitsAreEnded /\ FramelessIsEnded /\ LeftIsEnded /\ HoverIsTraced

(* Steps that leave the encoder, and what the page sent, alone. *)
LEMMA QuietStep ==
  ASSUME EncoderInv, UNCHANGED <<ws, up, opening, encoder, early, streaming, hover>>,
         videoFrame' \/ (UNCHANGED videoFrame /\ (Opens(down) => Opens(down')))
  PROVE  EncoderInv'
<1>1. DownIsEmpty' /\ InitsAreEnded' /\ LeftIsEnded' /\ HoverIsTraced'
  BY Zenon DEF EncoderInv, DownIsEmpty, InitsAreEnded, LeftIsEnded, HoverIsTraced
<1>2. FramelessIsEnded'
  <2>1. ~videoFrame' /\ ~Unanswered' => ~videoFrame /\ ~Unanswered
    BY Zenon DEF Unanswered, Opens
  <2> QED BY <2>1, Zenon DEF EncoderInv, FramelessIsEnded
<1> QED BY <1>1, <1>2 DEF EncoderInv

(* The page sends a request for a frame, if the connection is open. *)
LEMMA VideoStep ==
  ASSUME TypeOK, EncoderInv, NEW x \in UpMessages, x.type = "video", Send(<<x>>),
         UNCHANGED <<ws, down, opening, encoder, early, streaming, hover, videoFrame>>
  PROVE  EncoderInv'
<1>1. CASE up' = up
  BY <1>1, QuietStep, Zenon
<1>2. CASE up' = up \o <<x>> /\ ws = "open"
  <2>0. up \in Seq(UpMessages)
    BY DEF TypeOK
  <2>1. DownIsEmpty'
    BY <1>2 DEF DownIsEmpty
  <2>2. EachEnded(up, opening, encoder) => EachEnded(up', opening, encoder)
    <3>1. x.type # "init_video"
      OBVIOUS
    <3> QED BY <1>2, <2>0, <3>1, EachEndedSent
  <2>3. InitsAreEnded'
    BY <2>2, Zenon DEF EncoderInv, InitsAreEnded
  <2>4. AllEnded(up, opening, encoder) => AllEnded(up', opening, encoder)
    BY <1>2, <2>0, EndedSent
  <2>5. LeftIsEnded'
    BY <2>4, Zenon DEF EncoderInv, LeftIsEnded
  <2>6. Opens(up) => Opens(up')
    BY <1>2, <2>0, OpensSent
  <2>7. ~Unanswered' => ~Unanswered
    BY <2>6, Zenon DEF Unanswered, Opens
  <2>8. FramelessIsEnded'
    BY <2>4, <2>7, Zenon DEF EncoderInv, FramelessIsEnded
  <2>9. Traced(up, opening, encoder, hover) => Traced(up', opening, encoder, hover)
    BY <1>2, <2>0, TracedSent
  <2>10. HoverIsTraced'
    BY <2>9, Zenon DEF EncoderInv, HoverIsTraced
  <2> QED BY <2>1, <2>3, <2>5, <2>8, <2>10 DEF EncoderInv
<1> QED BY <1>1, <1>2 DEF Send

(* The server takes a message. *)
LEMMA TakeStep ==
  ASSUME TypeOK, EncoderInv, NEW type, Take(type),
         Serves(Head(up), encoder, opening', encoder'),
         Head(up).type = "init_video" => opening' = Head(up).id /\ Opens(down'),
         Opens(down) => Opens(down'),
         UNCHANGED <<ws, early, streaming, hover, videoFrame>>
  PROVE  EncoderInv'
<1>0. up \in Seq(UpMessages) /\ up # <<>> /\ ws = "open" /\ opening = Null /\ up' = Tail(up)
  BY DEF TypeOK, Take
<1>1. DownIsEmpty'
  BY <1>0 DEF DownIsEmpty
<1>2. /\ EachEnded(up, opening, encoder) => EachEnded(up', opening', encoder')
      /\ AllEnded(up, opening, encoder) => AllEnded(up', opening', encoder')
  BY <1>0, AllEndedTaken
<1>3. InitsAreEnded' /\ LeftIsEnded'
  BY <1>2, Zenon DEF EncoderInv, InitsAreEnded, LeftIsEnded
<1>4. Opens(up) \/ Opens(down) => Opens(up') \/ Opens(down')
  BY <1>0, OpensTaken
<1>5. ~Unanswered' => ~Unanswered
  BY <1>4, Zenon DEF Unanswered, Opens
<1>6. FramelessIsEnded'
  BY <1>2, <1>5, Zenon DEF EncoderInv, FramelessIsEnded
<1>7. hover # Null /\ Traced(up, opening, encoder, hover) => Traced(up', opening', encoder', hover)
  BY <1>0, TracedTaken
<1>8. HoverIsTraced'
  BY <1>7, Zenon DEF EncoderInv, HoverIsTraced
<1> QED BY <1>1, <1>3, <1>6, <1>8 DEF EncoderInv

LEMMA OpenStep == EncoderInv /\ OpenEncoder => EncoderInv'
<1> SUFFICES ASSUME EncoderInv, OpenEncoder PROVE EncoderInv'
  OBVIOUS
<1>0. /\ opening # Null /\ opening' = Null /\ encoder' = opening
      /\ UNCHANGED <<ws, up, down, early, streaming, hover, videoFrame>>
  BY DEF OpenEncoder, wire, page
<1>1. DownIsEmpty'
  BY <1>0 DEF EncoderInv, DownIsEmpty
<1>2. /\ EachEnded(up, opening, encoder) => EachEnded(up, opening', encoder')
      /\ AllEnded(up, opening, encoder) => AllEnded(up, opening', encoder')
  BY <1>0, EndedOpened
<1>3. ~Unanswered' => ~Unanswered
  BY <1>0, Zenon DEF Unanswered
<1>4. InitsAreEnded' /\ LeftIsEnded' /\ FramelessIsEnded'
  BY <1>0, <1>2, <1>3, Zenon DEF EncoderInv, InitsAreEnded, LeftIsEnded, FramelessIsEnded
<1>5. Traced(up, opening, encoder, hover) => Traced(up, opening', encoder', hover)
  BY <1>0, TracedOpened
<1>6. HoverIsTraced'
  BY <1>0, <1>5, Zenon DEF EncoderInv, HoverIsTraced
<1> QED BY <1>1, <1>4, <1>6 DEF EncoderInv

LEMMA BreakStep == Break \/ Close => EncoderInv'
<1> SUFFICES ASSUME Break \/ Close PROVE EncoderInv'
  OBVIOUS
<1>1. up' = <<>> /\ opening' = Null /\ encoder' = Null /\ hover' = Null
  BY DEF Break, Close, Disconnect
<1>2. EachEnded(up', opening', encoder') /\ AllEnded(up', opening', encoder')
  BY <1>1, EndedEmpty
<1> QED BY <1>1, <1>2 DEF EncoderInv, DownIsEmpty, InitsAreEnded, LeftIsEnded, FramelessIsEnded,
                          HoverIsTraced

LEMMA ReconnectStep == EncoderInv /\ Reconnect => EncoderInv'
<1> SUFFICES ASSUME EncoderInv, Reconnect PROVE EncoderInv'
  OBVIOUS
<1>0. /\ ws = "down" /\ ws' = "open"
      /\ UNCHANGED <<up, down, opening, encoder, early, streaming, hover, videoFrame>>
  BY DEF Reconnect, page, server
<1>1. hover = Null
  BY <1>0 DEF EncoderInv, HoverIsTraced
<1>2. DownIsEmpty' /\ HoverIsTraced'
  BY <1>0, <1>1 DEF DownIsEmpty, HoverIsTraced
<1>3. InitsAreEnded' /\ LeftIsEnded' /\ FramelessIsEnded'
  BY <1>0, Zenon DEF EncoderInv, InitsAreEnded, LeftIsEnded, FramelessIsEnded, Unanswered
<1> QED BY <1>2, <1>3 DEF EncoderInv

(* When the page ends a hover, what it sends ends the encoder, unless the  *)
(* hover was not answered yet.                                             *)
LEMMA FarewellEnds ==
  ASSUME TypeOK, EncoderInv, streaming, ws = "open", ~Unanswered
  PROVE  /\ EachEnded(up \o Farewell, opening, encoder)
         /\ AllEnded(up \o Farewell, opening, encoder)
         /\ up \o Farewell \in Seq(UpMessages)
<1>0. up \in Seq(UpMessages) /\ EndMessage \in UpMessages /\ EndMessage.type = "end_video"
  BY MessageTypes, Kinds DEF TypeOK
<1>1. EachEnded(up, opening, encoder)
  BY DEF Unanswered, EachEnded
<1>2. CASE videoFrame
  <2>1. Farewell = <<EndMessage>>
    BY <1>2 DEF Farewell
  <2>2. EndMessage.type # "init_video"
    BY <1>0
  <2>3. EachEnded(up \o <<EndMessage>>, opening, encoder)
    BY <1>0, <1>1, <2>2, EachEndedSent
  <2>4. AllEnded(up \o <<EndMessage>>, opening, encoder)
    BY <1>0, EndedSent
  <2> QED BY <1>0, <2>1, <2>3, <2>4
<1>3. CASE ~videoFrame
  <2>1. Farewell = <<>>
    BY <1>3 DEF Farewell
  <2>2. up \o Farewell = up
    BY <1>0, <2>1
  <2>3. AllEnded(up, opening, encoder)
    BY <1>3, Zenon DEF EncoderInv, FramelessIsEnded
  <2> QED BY <1>0, <1>1, <2>2, <2>3
<1> QED BY <1>2, <1>3

LEMMA LeaveStep == TypeOK /\ EncoderInv /\ Leave => EncoderInv'
<1> SUFFICES ASSUME TypeOK, EncoderInv, Leave PROVE EncoderInv'
  OBVIOUS
<1>0. /\ streaming /\ streaming' = FALSE /\ hover' = Null
      /\ up' = (IF ws = "open" THEN up \o Farewell ELSE up)
      /\ early' = Unanswered /\ UNCHANGED <<ws, opening, encoder>>
  BY DEF Leave, Release, Send, server
<1>1. DownIsEmpty' /\ HoverIsTraced' /\ FramelessIsEnded'
  BY <1>0 DEF EncoderInv, DownIsEmpty, HoverIsTraced, FramelessIsEnded
<1>2. ASSUME ~Unanswered
      PROVE  EachEnded(up', opening', encoder') /\ AllEnded(up', opening', encoder')
  <2>1. CASE ws = "open"
    BY <1>0, <1>2, <2>1, FarewellEnds
  <2>2. CASE ws # "open"
    <3>1. up' = <<>> /\ opening' = Null /\ encoder' = Null
      BY <1>0, <2>2 DEF EncoderInv, DownIsEmpty
    <3> QED BY <3>1, EndedEmpty
  <2> QED BY <2>1, <2>2
<1>3. InitsAreEnded' /\ LeftIsEnded'
  BY <1>0, <1>2, Zenon DEF InitsAreEnded, LeftIsEnded
<1> QED BY <1>1, <1>3 DEF EncoderInv

LEMMA EnterStep == TypeOK /\ EncoderInv /\ Enter => EncoderInv'
<1> SUFFICES ASSUME TypeOK, EncoderInv, Enter PROVE EncoderInv'
  OBVIOUS
<1> DEFINE before == IF streaming THEN Farewell ELSE <<>>
           x == InitMessage(sent + 1)
<1>0. /\ streaming' = TRUE /\ UNCHANGED <<ws, opening, encoder>>
      /\ hover' = (IF ws = "open" THEN sent + 1 ELSE Null)
      /\ up' = (IF ws = "open" THEN up \o (before \o <<x>>) ELSE up)
      /\ early' = (IF streaming THEN Unanswered ELSE early)
  BY DEF Enter, Release, Send, server
<1>1. /\ up \in Seq(UpMessages) /\ x \in UpMessages /\ x.type = "init_video" /\ x.id = sent + 1
      /\ before \in Seq(UpMessages)
  <2>1. sent + 1 \in Hovers
    BY Bounds, TypesAreType DEF Enter, HoverType, WireType, Hovers
  <2>2. Farewell \in Seq(UpMessages)
    BY MessageTypes DEF Farewell
  <2> QED BY <2>1, <2>2, MessageTypes, Kinds DEF TypeOK
<1>2. CASE ws # "open"
  <2>1. up' = <<>> /\ opening' = Null /\ encoder' = Null /\ hover' = Null
    BY <1>0, <1>2 DEF EncoderInv, DownIsEmpty
  <2>2. EachEnded(up', opening', encoder') /\ AllEnded(up', opening', encoder')
    BY <2>1, EndedEmpty
  <2> QED BY <2>1, <2>2 DEF EncoderInv, DownIsEmpty, InitsAreEnded, LeftIsEnded, FramelessIsEnded,
                            HoverIsTraced
<1>3. CASE ws = "open"
  <2> HIDE DEF before, x
  <2>1. up \o before \in Seq(UpMessages)
    BY <1>1
  <2>2. up' = (up \o before) \o <<x>>
    <3>1. up \o (before \o <<x>>) = (up \o before) \o <<x>>
      BY <1>1, Grouped
    <3> QED BY <1>0, <1>3, <3>1
  <2>3. DownIsEmpty'
    BY <1>0, <1>3 DEF DownIsEmpty
  <2>4. HoverIsTraced'
    <3>1. Traced(up', opening', encoder', sent + 1)
      BY <1>1, <2>1, <2>2, TracedSent
    <3> QED BY <1>0, <1>3, <3>1 DEF HoverIsTraced
  <2>5. FramelessIsEnded'
    <3>1. Opens(up')
      BY <1>1, <2>1, <2>2, OpensSent
    <3>2. Unanswered'
      BY <3>1 DEF Unanswered, Opens
    <3> QED BY <3>2 DEF FramelessIsEnded
  <2>6. LeftIsEnded'
    BY <1>0 DEF LeftIsEnded
  <2>7. ASSUME ~early'
        PROVE  /\ EachEnded(up \o before, opening, encoder)
               /\ AllEnded(up \o before, opening, encoder)
    <3>1. CASE streaming
      <4>1. ~Unanswered /\ before = Farewell
        BY <1>0, <2>7, <3>1, Zenon DEF before
      <4> QED BY <1>3, <3>1, <4>1, FarewellEnds
    <3>2. CASE ~streaming
      <4>1. ~early /\ before = <<>>
        BY <1>0, <2>7, <3>2, Zenon DEF before
      <4>2. up \o before = up
        BY <1>1, <4>1
      <4>3. EachEnded(up, opening, encoder) /\ AllEnded(up, opening, encoder)
        BY <3>2, <4>1, Zenon DEF EncoderInv, InitsAreEnded, LeftIsEnded
      <4> QED BY <4>2, <4>3
    <3> QED BY <3>1, <3>2
  <2>8. InitsAreEnded'
    <3>1. ASSUME ~early' PROVE EachEnded(up', opening', encoder')
      <4>1. /\ EachEnded(up \o before, opening, encoder)
            /\ AllEnded(up \o before, opening, encoder)
        BY <2>7, <3>1
      <4>2. EachEnded((up \o before) \o <<x>>, opening, encoder)
        BY <1>1, <2>1, <4>1, EachEndedSent
      <4> QED BY <1>0, <2>2, <4>2
    <3> QED BY <3>1 DEF InitsAreEnded
  <2> QED BY <2>3, <2>4, <2>5, <2>6, <2>8 DEF EncoderInv
<1> QED BY <1>2, <1>3

(* The remaining steps, each of one of the kinds above. *)
LEMMA MoveStep == TypeOK /\ EncoderInv /\ (\E b \in Bands : Move(b)) => EncoderInv'
<1> SUFFICES ASSUME TypeOK, EncoderInv, NEW b \in Bands, Move(b) PROVE EncoderInv'
  OBVIOUS
<1>0. UNCHANGED <<ws, down, opening, encoder, early, streaming, hover, videoFrame>>
  BY DEF Move, page, server
<1>1. CASE UNCHANGED up
  BY <1>0, <1>1, QuietStep, Zenon
<1>2. CASE Send(<<VideoMessage(b, FALSE)>>)
  <2>1. VideoMessage(b, FALSE) \in UpMessages /\ VideoMessage(b, FALSE).type = "video"
    BY MessageTypes, Kinds, Zenon
  <2> QED BY <1>0, <1>2, <2>1, VideoStep, Zenon
<1> QED BY <1>1, <1>2 DEF Move

LEMMA IdleStep == TypeOK /\ EncoderInv /\ IdleTimeout => EncoderInv'
<1> SUFFICES ASSUME TypeOK, EncoderInv, IdleTimeout PROVE EncoderInv'
  OBVIOUS
<1>0. UNCHANGED <<ws, down, opening, encoder, early, streaming, hover, videoFrame>>
  BY DEF IdleTimeout, page, server
<1>1. CASE UNCHANGED up
  BY <1>0, <1>1, QuietStep, Zenon
<1>2. CASE Send(<<VideoMessage(idle, TRUE)>>)
  <2>0. idle \in Bands
    BY TypesAreType DEF IdleTimeout, UserType
  <2>1. VideoMessage(idle, TRUE) \in UpMessages /\ VideoMessage(idle, TRUE).type = "video"
    BY <2>0, MessageTypes, Kinds, Zenon
  <2> QED BY <1>0, <1>2, <2>1, VideoStep, Zenon
<1> QED BY <1>1, <1>2 DEF IdleTimeout

LEMMA ServeStep == TypeOK /\ EncoderInv /\ (ServeInit \/ ServeEnd \/ ServeVideo) => EncoderInv'
<1> SUFFICES ASSUME TypeOK, EncoderInv, ServeInit \/ ServeEnd \/ ServeVideo PROVE EncoderInv'
  OBVIOUS
<1>0. UNCHANGED <<ws, early, streaming, hover, videoFrame>>
  BY DEF ServeInit, ServeEnd, ServeVideo, page
<1>1. CASE ServeInit
  <2>1. Take("init_video") /\ Head(up).type = "init_video" /\ opening' = Head(up).id
    BY <1>1 DEF ServeInit, Take
  <2>2. Opens(down')
    <3>1. down' = Append(down, Answer) /\ down \in Seq(DownMessages)
      BY <1>1 DEF ServeInit, TypeOK
    <3>2. down' = down \o <<Answer>>
      BY <3>1, MessageTypes, Sent
    <3> QED BY <3>1, <3>2, MessageTypes, Kinds, OpensSent
  <2> QED BY <1>0, <2>1, <2>2, TakeStep DEF Serves
<1>2. CASE ServeEnd
  <2>1. /\ Take("end_video") /\ Head(up).type = "end_video"
        /\ opening' = Null /\ encoder' = Null /\ down' = down
    BY <1>2 DEF ServeEnd, Take
  <2> QED BY <1>0, <2>1, TakeStep DEF Serves
<1>3. CASE ServeVideo
  <2>1. /\ Take("video") /\ Head(up).type = "video"
        /\ opening' = Null /\ encoder' = encoder /\ down' = down
    BY <1>3 DEF ServeVideo, Take
  <2> QED BY <1>0, <2>1, TakeStep DEF Serves
<1> QED BY <1>1, <1>2, <1>3

LEMMA FrameStep ==
  ASSUME TypeOK, PlaneIsSet, EncoderInv, ReceiveFrame \/ \E i \in DOMAIN workers : Encode(i)
  PROVE  EncoderInv'
<1>0. UNCHANGED <<ws, up, opening, encoder, early, streaming, hover, videoFrame>>
  BY DEF ReceiveFrame, Encode, page, server
<1>1. down \in Seq(DownMessages)
  BY DEF TypeOK
<1>2. Opens(down) => Opens(down')
  <2>1. CASE ReceiveFrame
    <3>1. down # <<>> /\ Head(down).type # "init_video" /\ down' = Tail(down)
      BY <2>1 DEF ReceiveFrame, Deliver
    <3> QED BY <1>1, <3>1, OpensTaken
  <2>2. ASSUME NEW i \in DOMAIN workers, Encode(i) PROVE Opens(down) => Opens(down')
    <3>1. CASE down' = down
      BY <3>1
    <3>2. CASE encoder # Null /\ down' = Append(down, Frame(encoder, frames + 1, plane))
      <4>0. plane \in Bands
        BY <2>2, TypesAreType DEF WorkType, PlaneIsSet, Encode
      <4>1. Frame(encoder, frames + 1, plane) \in DownMessages
        BY <3>2, <4>0, MessageTypes, TypesAreType DEF EncoderType
      <4>2. down' = down \o <<Frame(encoder, frames + 1, plane)>>
        BY <1>1, <3>2, <4>1, Sent
      <4> QED BY <1>1, <4>1, <4>2, OpensSent
    <3> QED BY <2>2, <3>1, <3>2 DEF Encode
  <2> QED BY <2>1, <2>2
<1> QED BY <1>0, <1>2, QuietStep, Zenon

LEMMA EncoderInvStep == TypeOK /\ PlaneIsSet /\ EncoderInv /\ [Next]_vars => EncoderInv'
<1> SUFFICES ASSUME TypeOK, PlaneIsSet, EncoderInv, [Next]_vars PROVE EncoderInv'
  OBVIOUS
<1>1. CASE UNCHANGED <<ws, up, down, opening, encoder, early, streaming, hover, videoFrame>>
  BY <1>1, QuietStep, Zenon
<1>2. CASE ReceiveAnswer
  <2>1. /\ UNCHANGED <<ws, up, opening, encoder, early, streaming, hover>>
        /\ videoFrame' = TRUE
    BY <1>2 DEF ReceiveAnswer, server
  <2> QED BY <2>1, QuietStep, Zenon
<1>3. CASE Paint \/ Spawn \/ (\E i \in DOMAIN workers : Compute(i)) \/ UNCHANGED vars
  BY <1>1, <1>3 DEF Paint, Spawn, Compute, wire, page, server, vars
<1> QED BY <1>2, <1>3, EnterStep, LeaveStep, MoveStep, IdleStep, FrameStep, OpenStep, ServeStep,
           BreakStep, ReconnectStep
        DEF Next, User, Page, Connection, Server

-----------------------------------------------------------------------------
(* What the invariant says of the state it is true in. *)
LEMMA TracedIsServed == EncoderInv => HoverIsServed
<1> SUFFICES ASSUME EncoderInv, hover # Null, up = <<>>, opening = Null PROVE encoder = hover
  BY DEF HoverIsServed
<1>1. Traced(<<>>, Null, encoder, hover)
  BY DEF EncoderInv, HoverIsTraced
<1> QED BY <1>1 DEF Traced

LEMMA EndedMeetsNone == TypeOK /\ EncoderInv => InitMeetsNoEncoder
<1> SUFFICES ASSUME TypeOK, EncoderInv, up # <<>>, Head(up).type = "init_video", opening = Null,
                    encoder # Null, ~early
             PROVE  FALSE
  BY DEF InitMeetsNoEncoder
<1>1. up \in Seq(UpMessages) /\ 1 \in DOMAIN up /\ up[1].type = "init_video" /\ DOMAIN up = 1 .. Len(up)
  BY Taken DEF TypeOK
<1>2. EachEnded(up, opening, encoder)
  BY Zenon DEF EncoderInv, InitsAreEnded
<1>3. Ended(up, opening, encoder, 1)
  BY <1>1, <1>2 DEF EachEnded
<1> QED BY <1>1, <1>3 DEF Ended

LEMMA Invariant == Spec => [](TypeOK /\ PlaneIsSet /\ EncoderInv)
<1>1. Init => TypeOK /\ PlaneIsSet
  BY InitialType DEF Init, PlaneIsSet
<1>2. Init => EncoderInv
  <2> SUFFICES ASSUME Init PROVE EncoderInv
    OBVIOUS
  <2>1. up = <<>> /\ opening = Null /\ encoder = Null /\ hover = Null
    BY DEF Init
  <2>2. EachEnded(up, opening, encoder) /\ AllEnded(up, opening, encoder)
    BY <2>1, EndedEmpty
  <2> QED BY <2>1, <2>2 DEF EncoderInv, DownIsEmpty, InitsAreEnded, LeftIsEnded, FramelessIsEnded,
                            HoverIsTraced
<1> QED BY <1>1, <1>2, TypeStep, EncoderInvStep, PTL DEF Spec

(* When nothing is under way, the server has the encoder of the hover that *)
(* the page is in (ws_coroutine's init_video and end_video follow the      *)
(* page's mouseenter and mouseleave, across breaks of the connection).     *)
THEOREM HoverGetsEncoder == Spec => []HoverIsServed
BY Invariant, TracedIsServed, PTL

(* init_video does not meet an open encoder, which ws_coroutine would      *)
(* overwrite and leak, unless a hover ended before it was answered: the    *)
(* page sends end_video only when it has a frame (x_axis_mouseleave).      *)
THEOREM NoEncoderIsOverwritten == Spec => []InitMeetsNoEncoder
BY Invariant, EndedMeetsNone, PTL

-----------------------------------------------------------------------------
(* The stream of frames. Among the messages u there is one init_video, and *)
(* it is of hover h.                                                       *)
Only(u, h) ==
  \E i \in DOMAIN u : /\ u[i].type = "init_video" /\ u[i].id = h
                      /\ \A k \in DOMAIN u : k # i => u[k].type # "init_video"

(* The messages d hold the answer to an init_video at i (or, if i is 0, no *)
(* answer), and after it the frames of hover h, one by one, after frame b. *)
Numbered(d, i, b, h) ==
  /\ i \in 0 .. Len(d)
  /\ i > 0 => d[i].type = "init_video"
  /\ \A k \in 1 .. i - 1 : d[k].type # "init_video"
  /\ \A k \in i + 1 .. Len(d) :
       d[k].type = "frame" /\ d[k].encoder = h /\ d[k].number = b + (k - i)

LEMMA OpensTail ==
  ASSUME NEW S, NEW s \in Seq(S), s # <<>>, Opens(Tail(s))
  PROVE  Opens(s)
<1>1. PICK i \in DOMAIN Tail(s) : Tail(s)[i].type = "init_video"
  BY DEF Opens
<1>2. i + 1 \in DOMAIN s /\ Tail(s)[i] = s[i + 1]
  BY <1>1, Taken
<1> QED BY <1>1, <1>2 DEF Opens

LEMMA OpensBack ==
  ASSUME NEW S, NEW s \in Seq(S), NEW x \in S, x.type # "init_video", Opens(s \o <<x>>)
  PROVE  Opens(s)
BY Sent DEF Opens

LEMMA OnlySent ==
  ASSUME NEW u \in Seq(UpMessages), NEW x \in UpMessages, NEW h
  PROVE  /\ x.type # "init_video" /\ Only(u, h) => Only(u \o <<x>>, h)
         /\ x.type = "init_video" /\ x.id = h /\ ~Opens(u) => Only(u \o <<x>>, h)
<1> DEFINE v == u \o <<x>>
<1>1. /\ Len(u) \in Nat /\ DOMAIN u = 1 .. Len(u) /\ DOMAIN v = 1 .. Len(u) + 1
      /\ \A i \in 1 .. Len(u) : v[i] = u[i]
      /\ v[Len(u) + 1] = x
  BY Sent
<1> HIDE DEF v
<1>2. ASSUME x.type # "init_video", Only(u, h) PROVE Only(v, h)
  <2>1. PICK i \in DOMAIN u : /\ u[i].type = "init_video" /\ u[i].id = h
                              /\ \A k \in DOMAIN u : k # i => u[k].type # "init_video"
    BY <1>2 DEF Only
  <2>2. i \in DOMAIN v /\ v[i] = u[i] /\ \A k \in DOMAIN v : k # i => v[k].type # "init_video"
    BY <1>1, <1>2, <2>1
  <2> QED BY <2>1, <2>2 DEF Only
<1>3. ASSUME x.type = "init_video", x.id = h, ~Opens(u) PROVE Only(v, h)
  <2>1. Len(u) + 1 \in DOMAIN v /\ \A k \in DOMAIN v : k # Len(u) + 1 => v[k].type # "init_video"
    BY <1>1, <1>3 DEF Opens
  <2> QED BY <1>1, <1>3, <2>1 DEF Only
<1> QED BY <1>2, <1>3 DEF v

LEMMA OnlyTaken ==
  ASSUME NEW u \in Seq(UpMessages), u # <<>>, NEW h, Only(u, h)
  PROVE  /\ Head(u).type # "init_video" => Only(Tail(u), h)
         /\ Head(u).type = "init_video" => Head(u).id = h /\ ~Opens(Tail(u))
<1> DEFINE v == Tail(u)
<1>1. /\ Len(u) \in Nat /\ Len(u) > 0 /\ DOMAIN u = 1 .. Len(u) /\ DOMAIN v = 1 .. Len(u) - 1
      /\ \A i \in 1 .. Len(u) - 1 : v[i] = u[i + 1]
      /\ Head(u) = u[1]
  BY Taken
<1> HIDE DEF v
<1>2. PICK i \in DOMAIN u : /\ u[i].type = "init_video" /\ u[i].id = h
                            /\ \A k \in DOMAIN u : k # i => u[k].type # "init_video"
  BY DEF Only
<1>3. ASSUME Head(u).type # "init_video" PROVE Only(v, h)
  <2>1. i - 1 \in DOMAIN v /\ v[i - 1] = u[i]
    BY <1>1, <1>2, <1>3
  <2>2. ASSUME NEW k \in DOMAIN v, k # i - 1 PROVE v[k].type # "init_video"
    <3>1. k + 1 \in DOMAIN u /\ k + 1 # i /\ v[k] = u[k + 1]
      BY <1>1, <1>2, <2>2
    <3> QED BY <1>2, <3>1
  <2> QED BY <1>2, <2>1, <2>2 DEF Only
<1>4. ASSUME Head(u).type = "init_video" PROVE Head(u).id = h /\ ~Opens(v)
  <2>1. i = 1
    BY <1>1, <1>2, <1>4
  <2> QED BY <1>1, <1>2, <2>1 DEF Opens
<1> QED BY <1>3, <1>4 DEF v

LEMMA NumberedSent ==
  ASSUME NEW d \in Seq(DownMessages), NEW x \in DownMessages, NEW i, NEW b \in Nat, NEW h
  PROVE  /\ /\ Numbered(d, i, b, h)
            /\ x.type = "frame" /\ x.encoder = h /\ x.number = b + (Len(d) - i) + 1
            => Numbered(d \o <<x>>, i, b, h)
         /\ x.type = "init_video" /\ ~Opens(d) => Numbered(d \o <<x>>, Len(d) + 1, b, h)
<1> DEFINE v == d \o <<x>>
<1>1. /\ Len(d) \in Nat /\ DOMAIN d = 1 .. Len(d) /\ Len(v) = Len(d) + 1
      /\ \A k \in 1 .. Len(d) : v[k] = d[k]
      /\ v[Len(d) + 1] = x
  BY Sent
<1> HIDE DEF v
<1>2. ASSUME Numbered(d, i, b, h),
             x.type = "frame" /\ x.encoder = h /\ x.number = b + (Len(d) - i) + 1
      PROVE  Numbered(v, i, b, h)
  <2>1. /\ i \in 0 .. Len(d)
        /\ i > 0 => d[i].type = "init_video"
        /\ \A k \in 1 .. i - 1 : d[k].type # "init_video"
    BY <1>2 DEF Numbered
  <2>2. /\ i \in 0 .. Len(v)
        /\ i > 0 => v[i].type = "init_video"
        /\ \A k \in 1 .. i - 1 : v[k].type # "init_video"
    BY <1>1, <2>1
  <2>3. ASSUME NEW k \in i + 1 .. Len(v)
        PROVE  v[k].type = "frame" /\ v[k].encoder = h /\ v[k].number = b + (k - i)
    <3>1. CASE k = Len(d) + 1
      BY <1>1, <1>2, <2>1, <3>1
    <3>2. CASE k \in i + 1 .. Len(d)
      BY <1>1, <1>2, <2>1, <3>2 DEF Numbered
    <3> QED BY <1>1, <2>1, <3>1, <3>2
  <2> QED BY <2>2, <2>3 DEF Numbered
<1>3. ASSUME x.type = "init_video", ~Opens(d) PROVE Numbered(v, Len(d) + 1, b, h)
  <2>1. \A k \in 1 .. Len(d) : v[k].type # "init_video"
    BY <1>1, <1>3 DEF Opens
  <2> QED BY <1>1, <1>3, <2>1 DEF Numbered
<1> QED BY <1>2, <1>3 DEF v

LEMMA NumberedTaken ==
  ASSUME NEW d \in Seq(DownMessages), d # <<>>, NEW i, NEW b \in Nat, NEW h, Numbered(d, i, b, h)
  PROVE  /\ i > 1 => Head(d).type # "init_video" /\ Numbered(Tail(d), i - 1, b, h)
         /\ i = 1 => Head(d).type = "init_video" /\ Numbered(Tail(d), 0, b, h)
         /\ i = 0 => /\ Head(d).type = "frame" /\ Head(d).encoder = h /\ Head(d).number = b + 1
                     /\ Numbered(Tail(d), 0, b + 1, h)
<1> DEFINE v == Tail(d)
<1>1. /\ Len(d) \in Nat /\ Len(d) > 0 /\ Len(v) = Len(d) - 1
      /\ \A k \in 1 .. Len(d) - 1 : v[k] = d[k + 1]
      /\ Head(d) = d[1]
  BY Taken
<1> HIDE DEF v
<1>2. /\ i \in 0 .. Len(d)
      /\ i > 0 => d[i].type = "init_video"
      /\ \A k \in 1 .. i - 1 : d[k].type # "init_video"
      /\ \A k \in i + 1 .. Len(d) :
           d[k].type = "frame" /\ d[k].encoder = h /\ d[k].number = b + (k - i)
  BY DEF Numbered
<1>3. ASSUME i > 1 PROVE Head(d).type # "init_video" /\ Numbered(v, i - 1, b, h)
  <2>1. i - 1 \in 0 .. Len(v) /\ i - 1 > 0 /\ v[i - 1].type = "init_video"
    BY <1>1, <1>2, <1>3
  <2>2. ASSUME NEW k \in 1 .. (i - 1) - 1 PROVE v[k].type # "init_video"
    <3>1. k + 1 \in 1 .. i - 1 /\ v[k] = d[k + 1]
      BY <1>1, <1>2, <1>3
    <3> QED BY <1>2, <3>1
  <2>3. ASSUME NEW k \in (i - 1) + 1 .. Len(v)
        PROVE  v[k].type = "frame" /\ v[k].encoder = h /\ v[k].number = b + (k - (i - 1))
    <3>0. i \in 0 .. Len(d)
      BY <1>2
    <3>1. k + 1 \in i + 1 .. Len(d) /\ v[k] = d[k + 1] /\ (k + 1) - i = k - (i - 1)
      BY <1>1, <1>3, <3>0
    <3> QED BY <1>2, <3>1
  <2>4. Head(d).type # "init_video"
    BY <1>1, <1>2, <1>3
  <2> QED BY <2>1, <2>2, <2>3, <2>4 DEF Numbered
<1>4. ASSUME i = 1 PROVE Head(d).type = "init_video" /\ Numbered(v, 0, b, h)
  <2>1. ASSUME NEW k \in 0 + 1 .. Len(v)
        PROVE  v[k].type = "frame" /\ v[k].encoder = h /\ v[k].number = b + (k - 0)
    <3>1. k + 1 \in i + 1 .. Len(d) /\ v[k] = d[k + 1] /\ (k + 1) - i = k - 0
      BY <1>1, <1>4
    <3> QED BY <1>2, <3>1
  <2> QED BY <1>1, <1>2, <1>4, <2>1 DEF Numbered
<1>5. ASSUME i = 0
      PROVE  /\ Head(d).type = "frame" /\ Head(d).encoder = h /\ Head(d).number = b + 1
             /\ Numbered(v, 0, b + 1, h)
  <2>1. ASSUME NEW k \in 0 + 1 .. Len(v)
        PROVE  v[k].type = "frame" /\ v[k].encoder = h /\ v[k].number = (b + 1) + (k - 0)
    <3>1. k + 1 \in i + 1 .. Len(d) /\ v[k] = d[k + 1] /\ b + ((k + 1) - i) = (b + 1) + (k - 0)
      BY <1>1, <1>5
    <3> QED BY <1>2, <3>1
  <2>2. Head(d).type = "frame" /\ Head(d).encoder = h /\ Head(d).number = b + 1
    BY <1>1, <1>2, <1>5
  <2> QED BY <1>1, <2>1, <2>2 DEF Numbered
<1> QED BY <1>3, <1>4, <1>5 DEF v

-----------------------------------------------------------------------------
(* Nothing under way could make a frame. *)
NoFrames == down = <<>> /\ opening = Null /\ encoder = Null

(* So it is while the page streams without a hover on this connection. *)
LostIsQuiet == streaming /\ hover = Null => ~Opens(up) /\ NoFrames

(* After a hover, no picture waits; with its init_video answered, nothing  *)
(* opens an encoder or meets a frame to draw on.                           *)
LeftIsQuiet ==
  ~streaming => img = Blank /\ (early \/ (~Opens(up) /\ ~Opens(down) /\ (videoFrame => NoFrames)))

(* The decoder is at frame b of the hover, or about to get its first one;  *)
(* or the answer that opens it is still to come, perhaps after the frames  *)
(* of another hover, which find no frame to draw on.                       *)
DecoderAt(i, b) ==
  \/ videoFrame /\ i = 0 /\ b = 0
  \/ videoFrame /\ i = 0 /\ b = decoder.frame /\ decoder.encoder = hover
  \/ i > 0 /\ b = 0 /\ (~videoFrame \/ i = 1)

(* The encoder has made the frames up to the last one under way. *)
EncoderAt(i, b) ==
  \/ opening = hover /\ encoder = Null /\ Len(down) = i /\ b = 0
  \/ opening = Null /\ encoder = hover /\ frames = b + (Len(down) - i)

(* The init_video of the hover is under way, or its frames are. *)
Coming == Only(up, hover) /\ ~Opens(down) /\ (videoFrame => NoFrames)
Streams ==
  /\ ~Opens(up)
  /\ \E i \in Nat, b \in Nat : Numbered(down, i, b, hover) /\ DecoderAt(i, b) /\ EncoderAt(i, b)

OwnPicture(p) == p = Blank \/ p.encoder = hover
HoverIsOwn ==
  hover # Null /\ ~early => OwnPicture(img) /\ OwnPicture(shown) /\ (Coming \/ Streams)

(* A connection that is not open carries nothing to the page either. *)
ClosedIsQuiet == ws # "open" => down = <<>>

StreamInv == LostIsQuiet /\ LeftIsQuiet /\ HoverIsOwn /\ ClosedIsQuiet

(* Steps that touch no message that opens an encoder. *)
LEMMA IdleStream ==
  ASSUME StreamInv,
         UNCHANGED <<ws, up, down, opening, encoder, frames, early, streaming, hover, videoFrame,
                     decoder>>,
         img' \in {img, Blank}, shown' \in {shown, img}
  PROVE  StreamInv'
<1>1. LostIsQuiet' /\ ClosedIsQuiet'
  BY DEF StreamInv, LostIsQuiet, NoFrames, ClosedIsQuiet
<1>2. LeftIsQuiet'
  <2>1. img = Blank => img' = Blank
    OBVIOUS
  <2> QED BY <2>1, Zenon DEF StreamInv, LeftIsQuiet, NoFrames
<1>3. HoverIsOwn'
  <2>1. OwnPicture(img) /\ OwnPicture(shown) => OwnPicture(img)' /\ OwnPicture(shown)'
    BY DEF OwnPicture
  <2>2. (Coming \/ Streams) => (Coming \/ Streams)'
    BY Zenon DEF Coming, NoFrames, Streams, DecoderAt, EncoderAt
  <2> QED BY <2>1, <2>2, Zenon DEF StreamInv, HoverIsOwn
<1> QED BY <1>1, <1>2, <1>3 DEF StreamInv

LEMMA VideoStream ==
  ASSUME TypeOK, StreamInv, NEW x \in UpMessages, x.type = "video", Send(<<x>>),
         UNCHANGED <<ws, down, opening, encoder, frames, early, streaming, hover, videoFrame,
                     decoder, img, shown>>
  PROVE  StreamInv'
<1>1. CASE up' = up
  BY <1>1, IdleStream
<1>2. CASE up' = up \o <<x>>
  <2>0. up \in Seq(UpMessages) /\ x.type # "init_video"
    BY DEF TypeOK
  <2>1. ~Opens(up) => ~Opens(up')
    BY <1>2, <2>0, OpensBack
  <2>2. Only(up, hover) => Only(up', hover)
    BY <1>2, <2>0, OnlySent
  <2>3. LostIsQuiet' /\ LeftIsQuiet' /\ ClosedIsQuiet'
    BY <2>1, Zenon DEF StreamInv, LostIsQuiet, LeftIsQuiet, NoFrames, ClosedIsQuiet
  <2>4. (Coming \/ Streams) => (Coming \/ Streams)'
    BY <2>1, <2>2, Zenon DEF Coming, NoFrames, Streams, DecoderAt, EncoderAt
  <2>5. HoverIsOwn'
    BY <2>4, Zenon DEF StreamInv, HoverIsOwn, OwnPicture
  <2> QED BY <2>3, <2>5 DEF StreamInv
<1> QED BY <1>1, <1>2 DEF Send

LEMMA BreakStream == TypeOK /\ StreamInv /\ (Break \/ Close) => StreamInv'
<1> SUFFICES ASSUME TypeOK, StreamInv, Break \/ Close PROVE StreamInv'
  OBVIOUS
<1>1. /\ up' = <<>> /\ down' = <<>> /\ opening' = Null /\ encoder' = Null /\ hover' = Null
      /\ UNCHANGED <<streaming, img, videoFrame>> /\ early' = FALSE
  BY DEF Break, Close, Disconnect
<1>2. ~Opens(up') /\ ~Opens(down')
  BY <1>1 DEF Opens
<1> QED BY <1>1, <1>2 DEF StreamInv, LostIsQuiet, LeftIsQuiet, HoverIsOwn, NoFrames,
                          ClosedIsQuiet

(* What the page tells the server when it ends a hover opens nothing. *)
LEMMA FarewellOpensNone ==
  ASSUME TypeOK, ~Opens(up)
  PROVE  up \o Farewell \in Seq(UpMessages) /\ ~Opens(up \o Farewell)
<1>0. up \in Seq(UpMessages) /\ EndMessage \in UpMessages /\ EndMessage.type # "init_video"
  BY MessageTypes, Kinds DEF TypeOK
<1>1. CASE videoFrame
  <2>1. Farewell = <<EndMessage>>
    BY <1>1 DEF Farewell
  <2>2. ~Opens(up \o <<EndMessage>>)
    BY <1>0, OpensBack
  <2> QED BY <1>0, <2>1, <2>2
<1>2. CASE ~videoFrame
  <2>1. Farewell = <<>>
    BY <1>2 DEF Farewell
  <2> QED BY <1>0, <2>1
<1> QED BY <1>1, <1>2

LEMMA LeaveStream == TypeOK /\ StreamInv /\ Leave => StreamInv'
<1> SUFFICES ASSUME TypeOK, StreamInv, Leave PROVE StreamInv'
  OBVIOUS
<1>0. /\ streaming' = FALSE /\ hover' = Null /\ img' = Blank /\ videoFrame' = FALSE
      /\ up' = (IF ws = "open" THEN up \o Farewell ELSE up)
      /\ early' = Unanswered /\ UNCHANGED <<ws, down>>
  BY DEF Leave, Release, Send
<1>1. LostIsQuiet' /\ HoverIsOwn' /\ ClosedIsQuiet'
  BY <1>0 DEF StreamInv, LostIsQuiet, HoverIsOwn, ClosedIsQuiet
<1>2. ASSUME ~Unanswered PROVE ~Opens(up') /\ ~Opens(down')
  <2>1. ~Opens(up) /\ ~Opens(down)
    BY <1>2, OpensUnanswered
  <2> QED BY <1>0, <2>1, FarewellOpensNone
<1>3. LeftIsQuiet'
  BY <1>0, <1>2, Zenon DEF LeftIsQuiet
<1> QED BY <1>1, <1>3 DEF StreamInv

LEMMA EnterStream == TypeOK /\ EncoderInv /\ StreamInv /\ Enter => StreamInv'
<1> SUFFICES ASSUME TypeOK, EncoderInv, StreamInv, Enter PROVE StreamInv'
  OBVIOUS
<1> DEFINE before == IF streaming THEN Farewell ELSE <<>>
           x == InitMessage(sent + 1)
<1>0. /\ streaming' = TRUE /\ UNCHANGED <<ws, down, opening, encoder>>
      /\ hover' = (IF ws = "open" THEN sent + 1 ELSE Null)
      /\ up' = (IF ws = "open" THEN up \o (before \o <<x>>) ELSE up)
      /\ early' = (IF streaming THEN Unanswered ELSE early)
      /\ shown' = Blank
      /\ streaming => img' = Blank /\ videoFrame' = FALSE
      /\ ~streaming => img' = img /\ videoFrame' = videoFrame
  BY DEF Enter, Release, Send, server
<1>1. x \in UpMessages /\ x.type = "init_video" /\ x.id = sent + 1
  <2>1. sent + 1 \in Hovers
    BY Bounds, TypesAreType DEF Enter, HoverType, WireType, Hovers
  <2> QED BY <2>1, MessageTypes, Kinds
<1>2. before \in Seq(UpMessages) /\ up \in Seq(UpMessages)
  BY MessageTypes DEF Farewell, TypeOK
<1>3. LeftIsQuiet' /\ ClosedIsQuiet'
  BY <1>0 DEF StreamInv, LeftIsQuiet, ClosedIsQuiet
<1>4. CASE ws # "open"
  <2>1. up' = <<>> /\ opening' = Null /\ encoder' = Null /\ hover' = Null /\ down' = <<>>
    BY <1>0, <1>4 DEF EncoderInv, DownIsEmpty, StreamInv, ClosedIsQuiet
  <2> QED BY <1>3, <2>1 DEF StreamInv, LostIsQuiet, NoFrames, HoverIsOwn, Opens
<1>5. CASE ws = "open"
  <2> HIDE DEF before, x
  <2>1. up' = (up \o before) \o <<x>>
    <3>1. up \o (before \o <<x>>) = (up \o before) \o <<x>>
      BY <1>1, <1>2, Grouped
    <3> QED BY <1>0, <1>5, <3>1
  <2>2. hover' = sent + 1 /\ hover' # Null
    BY <1>0, <1>5, TypesAreType DEF HoverType, Null
  <2>3. LostIsQuiet'
    BY <2>2 DEF LostIsQuiet
  <2>4. ASSUME ~early'
        PROVE  /\ img' = Blank /\ ~Opens(down) /\ (videoFrame' => NoFrames)
               /\ ~Opens(up \o before)
    <3>1. CASE streaming
      <4>1. ~Unanswered /\ before = Farewell /\ img' = Blank /\ ~videoFrame'
        BY <1>0, <2>4, <3>1, Zenon DEF before
      <4>2. ~Opens(up) /\ ~Opens(down)
        BY <4>1, OpensUnanswered
      <4> QED BY <4>1, <4>2, FarewellOpensNone
    <3>2. CASE ~streaming
      <4>1. ~early /\ before = <<>> /\ img' = img /\ videoFrame' = videoFrame
        BY <1>0, <2>4, <3>2, Zenon DEF before
      <4>2. up \o before = up
        BY <1>2, <4>1
      <4>3. img = Blank /\ ~Opens(up) /\ ~Opens(down) /\ (videoFrame => NoFrames)
        BY <3>2, <4>1, Zenon DEF StreamInv, LeftIsQuiet
      <4> QED BY <4>1, <4>2, <4>3
    <3> QED BY <3>1, <3>2
  <2>5. ASSUME ~early' PROVE Coming'
    <3>0. up \o before \in Seq(UpMessages) /\ ~Opens(up \o before)
      BY <1>2, <2>4, <2>5
    <3>3. Only((up \o before) \o <<x>>, sent + 1)
      BY <1>1, <3>0, OnlySent
    <3>1. Only(up', hover')
      BY <2>1, <2>2, <3>3
    <3>2. ~Opens(down') /\ (videoFrame' => NoFrames')
      BY <1>0, <2>4, <2>5, Zenon DEF NoFrames
    <3> QED BY <3>1, <3>2 DEF Coming
  <2>6. HoverIsOwn'
    BY <1>0, <2>4, <2>5, Zenon DEF HoverIsOwn, OwnPicture
  <2> QED BY <1>3, <2>3, <2>6 DEF StreamInv
<1> QED BY <1>4, <1>5

LEMMA AnswerStream == TypeOK /\ StreamInv /\ ReceiveAnswer => StreamInv'
<1> SUFFICES ASSUME TypeOK, StreamInv, ReceiveAnswer PROVE StreamInv'
  OBVIOUS
<1>0. /\ down # <<>> /\ Head(down).type = "init_video" /\ down' = Tail(down)
      /\ videoFrame' = TRUE /\ decoder' = hevc_init(decoder)
      /\ UNCHANGED <<ws, up, streaming, hover, img, shown, opening, encoder, frames, early>>
  BY DEF ReceiveAnswer, Deliver, server
<1>1. down \in Seq(DownMessages) /\ Opens(down)
  <2>1. down \in Seq(DownMessages)
    BY DEF TypeOK
  <2>2. 1 \in DOMAIN down /\ down[1].type = "init_video"
    BY <1>0, <2>1, Taken
  <2> QED BY <2>1, <2>2 DEF Opens
<1>2. LostIsQuiet' /\ ClosedIsQuiet'
  BY <1>0 DEF StreamInv, LostIsQuiet, NoFrames, ClosedIsQuiet
<1>3. LeftIsQuiet'
  BY <1>0, <1>1, Zenon DEF StreamInv, LeftIsQuiet
<1>4. ASSUME hover # Null, ~early PROVE Streams'
  <2>1. Streams
    BY <1>1, <1>4, Zenon DEF StreamInv, HoverIsOwn, Coming
  <2>2. PICK i \in Nat, b \in Nat :
          Numbered(down, i, b, hover) /\ DecoderAt(i, b) /\ EncoderAt(i, b)
    BY <2>1 DEF Streams
  <2>3. i = 1
    <3>1. ~(i > 1) \/ Head(down).type # "init_video"
      BY <1>0, <1>1, <2>2, NumberedTaken
    <3>2. i # 0 \/ Head(down).type = "frame"
      BY <1>0, <1>1, <2>2, NumberedTaken
    <3> QED BY <1>0, <3>1, <3>2
  <2>4. b = 0
    BY <2>2, <2>3 DEF DecoderAt
  <2>5. Numbered(down', 0, 0, hover)
    BY <1>0, <1>1, <2>2, <2>3, <2>4, NumberedTaken
  <2>6. DecoderAt(0, 0)'
    BY <1>0 DEF DecoderAt
  <2>7. EncoderAt(0, 0)'
    <3>1. Len(down') = Len(down) - 1 /\ Len(down) \in Nat
      BY <1>0, <1>1, Taken
    <3>2. \/ opening = hover /\ encoder = Null /\ Len(down) = 1
          \/ opening = Null /\ encoder = hover /\ frames = 0 + (Len(down) - 1)
      BY <2>2, <2>3, <2>4 DEF EncoderAt
    <3>3. \/ opening' = hover' /\ encoder' = Null /\ Len(down') = 0
          \/ opening' = Null /\ encoder' = hover' /\ frames' = 0 + (Len(down') - 0)
      BY <1>0, <3>1, <3>2
    <3> QED BY <3>3 DEF EncoderAt
  <2>8. ~Opens(up') /\ hover' = hover
    BY <1>0, <2>1 DEF Streams
  <2> QED BY <2>5, <2>6, <2>7, <2>8 DEF Streams
<1>5. HoverIsOwn'
  BY <1>0, <1>4, Zenon DEF StreamInv, HoverIsOwn, OwnPicture
<1> QED BY <1>2, <1>3, <1>5 DEF StreamInv

LEMMA FrameStream == TypeOK /\ StreamInv /\ ReceiveFrame => StreamInv'
<1> SUFFICES ASSUME TypeOK, StreamInv, ReceiveFrame PROVE StreamInv'
  OBVIOUS
<1> DEFINE f == Head(down)
<1>0. /\ down # <<>> /\ f.type = "frame" /\ down' = Tail(down)
      /\ decoder' = hevc_decode_nal_unit(decoder, f)
      /\ img' = (IF streaming /\ videoFrame THEN [encoder |-> f.encoder, band |-> f.band] ELSE img)
      /\ UNCHANGED <<ws, up, streaming, hover, videoFrame, shown, opening, encoder, frames, early>>
  BY DEF ReceiveFrame, Deliver, server
<1>1. down \in Seq(DownMessages)
  BY DEF TypeOK
<1>2. ~Opens(down) => ~Opens(down')
  BY <1>0, <1>1, OpensTail
<1>3. ~NoFrames
  BY <1>0 DEF NoFrames
<1>4. LostIsQuiet' /\ ClosedIsQuiet'
  BY <1>0, <1>3, Zenon DEF StreamInv, LostIsQuiet, ClosedIsQuiet
<1>5. LeftIsQuiet'
  <2>1. ~streaming => img' = img
    BY <1>0
  <2> QED BY <1>0, <1>2, <1>3, <2>1, Zenon DEF StreamInv, LeftIsQuiet
<1>6. ASSUME hover # Null, ~early, Coming PROVE Coming' /\ img' = img
  <2>1. ~videoFrame
    BY <1>3, <1>6, Zenon DEF Coming
  <2>2. img' = img
    BY <1>0, <2>1
  <2> QED BY <1>0, <1>2, <1>6, <2>1, <2>2, Zenon DEF Coming
<1>7. ASSUME hover # Null, ~early, Streams PROVE Streams' /\ (img' = img \/ OwnPicture(img)')
  <2>2. PICK i \in Nat, b \in Nat :
          Numbered(down, i, b, hover) /\ DecoderAt(i, b) /\ EncoderAt(i, b)
    BY <1>7 DEF Streams
  <2>3. Len(down') = Len(down) - 1 /\ Len(down) \in Nat
    BY <1>0, <1>1, Taken
  <2>4. ~Opens(up') /\ hover' = hover
    BY <1>0, <1>7 DEF Streams
  <2>5. CASE i > 0
    <3>1. i > 1
      <4>1. i = 1 => f.type = "init_video"
        BY <1>0, <1>1, <2>2, NumberedTaken
      <4> QED BY <1>0, <2>5, <4>1
    <3>8. Numbered(Tail(down), i - 1, b, hover)
      BY <1>0, <1>1, <2>2, <3>1, NumberedTaken
    <3>2. Numbered(down', i - 1, b, hover')
      BY <1>0, <2>4, <3>8
    <3>3. ~videoFrame /\ b = 0
      BY <2>2, <3>1 DEF DecoderAt
    <3>4. DecoderAt(i - 1, b)'
      <4>1. ~videoFrame'
        BY <1>0, <3>3
      <4> QED BY <3>1, <3>3, <4>1 DEF DecoderAt
    <3>5. EncoderAt(i - 1, b)'
      <4>1. \/ opening = hover /\ encoder = Null /\ Len(down) = i /\ b = 0
            \/ opening = Null /\ encoder = hover /\ frames = b + (Len(down) - i)
        BY <2>2 DEF EncoderAt
      <4>2. \/ opening' = hover' /\ encoder' = Null /\ Len(down') = i - 1 /\ b = 0
            \/ opening' = Null /\ encoder' = hover' /\ frames' = b + (Len(down') - (i - 1))
        <5>1. UNCHANGED <<opening, encoder, frames, hover>>
          BY <1>0
        <5>2. frames = b + (Len(down) - i) => frames = b + (Len(down') - (i - 1))
          BY <2>3
        <5> QED BY <2>3, <4>1, <5>1, <5>2
      <4> QED BY <4>2 DEF EncoderAt
    <3>6. i - 1 \in Nat
      BY <3>1
    <3>7. img' = img
      BY <1>0, <3>3
    <3> QED BY <2>4, <3>2, <3>4, <3>5, <3>6, <3>7 DEF Streams
  <2>6. CASE i = 0
    <3>7. f.encoder = hover /\ f.number = b + 1 /\ Numbered(Tail(down), 0, b + 1, hover)
      BY <1>0, <1>1, <2>2, <2>6, NumberedTaken
    <3>1. f.encoder = hover /\ f.number = b + 1 /\ Numbered(down', 0, b + 1, hover')
      BY <1>0, <2>4, <3>7
    <3>2. videoFrame
      BY <2>2, <2>6 DEF DecoderAt
    <3>3. decoder' = [on |-> TRUE, encoder |-> f.encoder, frame |-> f.number]
      <4>1. decoder.on
        BY <3>2, TypesAreType DEF FrameType
      <4> QED BY <1>0, <4>1 DEF hevc_decode_nal_unit
    <3>4. DecoderAt(0, b + 1)'
      <4>1. videoFrame' /\ b + 1 = decoder'.frame /\ decoder'.encoder = hover'
        BY <1>0, <2>4, <3>1, <3>2, <3>3
      <4> QED BY <4>1 DEF DecoderAt
    <3>5. EncoderAt(0, b + 1)'
      <4>1. Len(down) > 0
        BY <1>0, <1>1, Taken
      <4>2. opening = Null /\ encoder = hover /\ frames = b + (Len(down) - 0)
        BY <2>2, <2>6, <4>1 DEF EncoderAt
      <4>3. opening' = Null /\ encoder' = hover' /\ frames' = (b + 1) + (Len(down') - 0)
        BY <1>0, <2>3, <4>2
      <4> QED BY <4>3 DEF EncoderAt
    <3>6. img' = img \/ OwnPicture(img)'
      BY <1>0, <2>4, <3>1 DEF OwnPicture
    <3> QED BY <2>4, <3>1, <3>4, <3>5, <3>6 DEF Streams
  <2> QED BY <2>5, <2>6
<1>8. HoverIsOwn'
  <2>1. ASSUME hover # Null, ~early PROVE OwnPicture(img)' /\ (Coming' \/ Streams')
    <3>1. OwnPicture(img) /\ (Coming \/ Streams)
      BY <2>1, Zenon DEF StreamInv, HoverIsOwn
    <3>2. img' = img => OwnPicture(img)'
      BY <1>0, <3>1 DEF OwnPicture
    <3> QED BY <1>6, <1>7, <2>1, <3>1, <3>2, Zenon
  <2>2. OwnPicture(shown) => OwnPicture(shown)'
    BY <1>0 DEF OwnPicture
  <2> QED BY <1>0, <2>1, <2>2, Zenon DEF StreamInv, HoverIsOwn
<1> QED BY <1>4, <1>5, <1>8 DEF StreamInv

(* The server opens the encoder of the init_video it takes. *)
LEMMA InitStream == TypeOK /\ EncoderInv /\ StreamInv /\ ServeInit => StreamInv'
<1> SUFFICES ASSUME TypeOK, EncoderInv, StreamInv, ServeInit PROVE StreamInv'
  OBVIOUS
<1>0. /\ ws = "open" /\ ws' = ws /\ up # <<>> /\ Head(up).type = "init_video" /\ up' = Tail(up)
      /\ down' = Append(down, Answer) /\ opening = Null /\ opening' = Head(up).id
      /\ UNCHANGED <<streaming, hover, videoFrame, img, shown, encoder, frames, early, decoder>>
  BY DEF ServeInit, Take, page
<1>1. up \in Seq(UpMessages) /\ Opens(up)
  <2>1. up \in Seq(UpMessages)
    BY DEF TypeOK
  <2>2. 1 \in DOMAIN up /\ up[1].type = "init_video"
    BY <1>0, <2>1, Taken
  <2> QED BY <2>1, <2>2 DEF Opens
<1>2. down \in Seq(DownMessages) /\ down' = down \o <<Answer>> /\ Answer \in DownMessages
      /\ Answer.type = "init_video"
  <2>1. down \in Seq(DownMessages) /\ Answer \in DownMessages
    BY MessageTypes DEF TypeOK
  <2>2. down \o <<Answer>> = Append(down, Answer)
    BY <2>1, Sent
  <2> QED BY <1>0, <2>1, <2>2, Kinds
<1>3. LostIsQuiet' /\ LeftIsQuiet' /\ ClosedIsQuiet'
  BY <1>0, <1>1, Zenon DEF StreamInv, LostIsQuiet, LeftIsQuiet, ClosedIsQuiet
<1>4. ASSUME hover # Null, ~early PROVE Streams'
  <2>1. Only(up, hover) /\ ~Opens(down) /\ (videoFrame => NoFrames)
    BY <1>1, <1>4, Zenon DEF StreamInv, HoverIsOwn, Streams, Coming
  <2>2. opening' = hover /\ ~Opens(up')
    BY <1>0, <1>1, <2>1, OnlyTaken
  <2>3. encoder = Null
    <3>1. InitMeetsNoEncoder
      BY EndedMeetsNone
    <3> QED BY <1>0, <1>4, <3>1 DEF InitMeetsNoEncoder
  <2>4. Len(down) \in Nat /\ Len(down') = Len(down) + 1
    BY <1>2, Sent
  <2>5. Numbered(down', Len(down) + 1, 0, hover)
    BY <1>2, <2>1, NumberedSent
  <2>6. PICK n \in Nat : n = Len(down) + 1
    BY <2>4
  <2>7. DecoderAt(n, 0)'
    <3>1. videoFrame => n = 1
      <4>1. videoFrame => Len(down) = 0
        BY <2>1 DEF NoFrames
      <4> QED BY <2>6, <4>1
    <3>2. n > 0
      BY <2>4, <2>6
    <3> QED BY <1>0, <3>1, <3>2, Zenon DEF DecoderAt
  <2>8. EncoderAt(n, 0)'
    <3>1. opening' = hover' /\ encoder' = Null /\ Len(down') = n
      BY <1>0, <2>2, <2>3, <2>4, <2>6
    <3> QED BY <3>1 DEF EncoderAt
  <2>9. Numbered(down', n, 0, hover')
    BY <1>0, <2>5, <2>6
  <2> QED BY <2>2, <2>7, <2>8, <2>9 DEF Streams
<1>5. HoverIsOwn'
  BY <1>0, <1>4, Zenon DEF StreamInv, HoverIsOwn, OwnPicture
<1> QED BY <1>3, <1>5 DEF StreamInv

LEMMA OpenStream == TypeOK /\ StreamInv /\ OpenEncoder => StreamInv'
<1> SUFFICES ASSUME TypeOK, StreamInv, OpenEncoder PROVE StreamInv'
  OBVIOUS
<1>0. /\ opening # Null /\ opening' = Null /\ encoder' = opening /\ frames' = 0
      /\ UNCHANGED <<ws, up, down, streaming, hover, videoFrame, img, shown, early, decoder>>
  BY DEF OpenEncoder, wire, page
<1>1. ~NoFrames
  BY <1>0 DEF NoFrames
<1>2. LostIsQuiet' /\ LeftIsQuiet' /\ ClosedIsQuiet'
  BY <1>0, <1>1, Zenon DEF StreamInv, LostIsQuiet, LeftIsQuiet, ClosedIsQuiet
<1>3. Coming => Coming'
  BY <1>0, <1>1, Zenon DEF Coming
<1>4. Streams => Streams'
  <2> SUFFICES ASSUME Streams PROVE Streams'
    OBVIOUS
  <2>1. PICK i \in Nat, b \in Nat :
          Numbered(down, i, b, hover) /\ DecoderAt(i, b) /\ EncoderAt(i, b)
    BY DEF Streams
  <2>2. opening = hover /\ Len(down) = i /\ b = 0
    BY <1>0, <2>1 DEF EncoderAt
  <2>3. EncoderAt(i, b)'
    <3>1. opening' = Null /\ encoder' = hover' /\ frames' = 0 + (Len(down') - i)
      BY <1>0, <2>2
    <3> QED BY <2>2, <3>1 DEF EncoderAt
  <2>4. DecoderAt(i, b)'
    BY <1>0, <2>1, Zenon DEF DecoderAt
  <2>5. ~Opens(up') /\ Numbered(down', i, b, hover')
    BY <1>0, <2>1 DEF Streams
  <2> QED BY <2>3, <2>4, <2>5 DEF Streams
<1>5. HoverIsOwn'
  BY <1>0, <1>3, <1>4, Zenon DEF StreamInv, HoverIsOwn, OwnPicture
<1> QED BY <1>2, <1>5 DEF StreamInv

(* An end_video or a request for a frame is taken: the first of them never *)
(* reaches an encoder of the hover.                                        *)
LEMMA TakeStream == TypeOK /\ EncoderInv /\ StreamInv /\ (ServeEnd \/ ServeVideo) => StreamInv'
<1> SUFFICES ASSUME TypeOK, EncoderInv, StreamInv, ServeEnd \/ ServeVideo PROVE StreamInv'
  OBVIOUS
<1>0. /\ up # <<>> /\ Head(up).type \in {"end_video", "video"} /\ up' = Tail(up)
      /\ opening = Null /\ encoder' \in {encoder, Null}
      /\ Head(up).type = "video" => encoder' = encoder
      /\ UNCHANGED <<ws, down, streaming, hover, videoFrame, img, shown, opening, frames, early,
                     decoder>>
  BY DEF ServeEnd, ServeVideo, Take, page
<1>1. up \in Seq(UpMessages) /\ Head(up).type # "init_video"
  BY <1>0 DEF TypeOK
<1>2. ~Opens(up) => ~Opens(up')
  BY <1>0, <1>1, OpensTail
<1>3. NoFrames => NoFrames'
  BY <1>0 DEF NoFrames
<1>4. LostIsQuiet' /\ LeftIsQuiet' /\ ClosedIsQuiet'
  BY <1>0, <1>2, <1>3, Zenon DEF StreamInv, LostIsQuiet, LeftIsQuiet, ClosedIsQuiet
<1>5. Coming => Coming'
  <2>1. Only(up, hover) => Only(up', hover)
    BY <1>0, <1>1, OnlyTaken
  <2> QED BY <1>0, <1>3, <2>1, Zenon DEF Coming
<1>6. ASSUME hover # Null, Streams PROVE Streams'
  <2>1. ~Opens(up)
    BY <1>6 DEF Streams
  <2>2. Head(up).type = "video"
    <3>1. Traced(up, opening, encoder, hover)
      BY <1>6 DEF EncoderInv, HoverIsTraced
    <3>2. \A k \in DOMAIN up : up[k].type = "video"
      BY <2>1, <3>1 DEF Traced, Opens
    <3> QED BY <1>0, <1>1, <3>2, Taken
  <2>3. UNCHANGED <<down, opening, encoder, frames, hover, videoFrame, decoder>>
    BY <1>0, <2>2
  <2> QED BY <1>2, <1>6, <2>1, <2>3, Zenon DEF Streams, DecoderAt, EncoderAt
<1>7. HoverIsOwn'
  BY <1>0, <1>5, <1>6, Zenon DEF StreamInv, HoverIsOwn, OwnPicture
<1> QED BY <1>4, <1>7 DEF StreamInv

LEMMA EncodeStream ==
  ASSUME TypeOK, PlaneIsSet, EncoderInv, StreamInv, NEW i \in DOMAIN workers, Encode(i)
  PROVE  StreamInv'
<1>0. UNCHANGED <<ws, up, streaming, hover, videoFrame, img, shown, opening, encoder, early, decoder>>
  BY DEF Encode, page
<1>1. CASE encoder = Null
  <2>1. UNCHANGED <<down, frames>>
    BY <1>1 DEF Encode
  <2> QED BY <1>0, <2>1, IdleStream
<1>2. CASE encoder # Null
  <2> DEFINE f == Frame(encoder, frames + 1, plane)
  <2>0. f \in DownMessages /\ f.type = "frame" /\ f.encoder = encoder /\ f.number = frames + 1
    <3>1. plane \in Bands
      BY TypesAreType DEF WorkType, PlaneIsSet, Encode
    <3>2. f \in DownMessages
      BY <1>2, <3>1, MessageTypes, TypesAreType DEF EncoderType
    <3> QED BY <3>2 DEF Frame
  <2> HIDE DEF f
  <2>1. /\ down \in Seq(DownMessages) /\ frames \in Nat
        /\ down' = down \o <<f>> /\ frames' = frames + 1
    <3>1. down' = Append(down, f) /\ frames' = frames + 1
      BY <1>2 DEF Encode, f
    <3>2. down \in Seq(DownMessages) /\ frames \in Nat
      BY DEF TypeOK
    <3>3. f \in DownMessages
      BY <2>0
    <3>4. Append(down, f) = down \o <<f>>
      BY <3>2, <3>3
    <3> QED BY <3>1, <3>2, <3>4
  <2>2. ~NoFrames
    BY <1>2 DEF NoFrames
  <2>3. f.type # "init_video"
    BY <2>0
  <2>4. ~Opens(down) => ~Opens(down')
    BY <2>0, <2>1, <2>3, OpensBack
  <2>5. ws = "open"
    BY <1>2 DEF EncoderInv, DownIsEmpty
  <2>6. LostIsQuiet' /\ LeftIsQuiet' /\ ClosedIsQuiet'
    BY <1>0, <2>2, <2>4, <2>5, Zenon DEF StreamInv, LostIsQuiet, LeftIsQuiet, ClosedIsQuiet
  <2>7. Coming => Coming'
    BY <1>0, <2>2, <2>4, Zenon DEF Coming
  <2>8. Streams => Streams'
    <3> SUFFICES ASSUME Streams PROVE Streams'
      OBVIOUS
    <3>1. PICK n \in Nat, b \in Nat :
            Numbered(down, n, b, hover) /\ DecoderAt(n, b) /\ EncoderAt(n, b)
      BY DEF Streams
    <3>2. opening = Null /\ encoder = hover /\ frames = b + (Len(down) - n)
      BY <1>2, <3>1 DEF EncoderAt
    <3>3. f.type = "frame" /\ f.encoder = hover /\ f.number = b + (Len(down) - n) + 1
      BY <2>0, <3>2
    <3>4. Numbered(down \o <<f>>, n, b, hover)
      BY <2>0, <2>1, <3>1, <3>3, NumberedSent
    <3>5. Len(down') = Len(down) + 1 /\ Len(down) \in Nat
      BY <2>0, <2>1, Sent
    <3>6. EncoderAt(n, b)'
      <4>1. frames' = b + (Len(down') - n)
        BY <2>1, <3>2, <3>5
      <4> QED BY <1>0, <3>2, <4>1 DEF EncoderAt
    <3>7. DecoderAt(n, b)'
      BY <1>0, <3>1, Zenon DEF DecoderAt
    <3>8. ~Opens(up') /\ Numbered(down', n, b, hover')
      BY <1>0, <2>1, <3>4 DEF Streams
    <3> QED BY <3>6, <3>7, <3>8 DEF Streams
  <2>9. HoverIsOwn'
    BY <1>0, <2>7, <2>8, Zenon DEF StreamInv, HoverIsOwn, OwnPicture
  <2> QED BY <2>6, <2>9 DEF StreamInv
<1> QED BY <1>1, <1>2

LEMMA ReconnectStream == StreamInv /\ Reconnect => StreamInv'
<1> SUFFICES ASSUME StreamInv, Reconnect PROVE StreamInv'
  OBVIOUS
<1>0. /\ ws' = "open"
      /\ UNCHANGED <<up, down, streaming, hover, videoFrame, img, shown, opening, encoder, frames,
                     early, decoder>>
  BY DEF Reconnect, page, server
<1>1. LostIsQuiet' /\ LeftIsQuiet' /\ ClosedIsQuiet'
  BY <1>0, Zenon DEF StreamInv, LostIsQuiet, LeftIsQuiet, NoFrames, ClosedIsQuiet
<1>2. (Coming \/ Streams) => (Coming \/ Streams)'
  BY <1>0, Zenon DEF Coming, NoFrames, Streams, DecoderAt, EncoderAt
<1>3. HoverIsOwn'
  BY <1>0, <1>2, Zenon DEF StreamInv, HoverIsOwn, OwnPicture
<1> QED BY <1>1, <1>3 DEF StreamInv

LEMMA StreamStep == TypeOK /\ PlaneIsSet /\ EncoderInv /\ StreamInv /\ [Next]_vars => StreamInv'
<1> SUFFICES ASSUME TypeOK, PlaneIsSet, EncoderInv, StreamInv, [Next]_vars PROVE StreamInv'
  OBVIOUS
<1>1. CASE UNCHANGED <<ws, up, down, opening, encoder, frames, early, streaming, hover, videoFrame,
                       decoder, img, shown>>
  BY <1>1, IdleStream
<1>2. CASE Paint
  BY <1>2, IdleStream DEF Paint, wire, server
<1>3. CASE Spawn \/ (\E i \in DOMAIN workers : Compute(i)) \/ UNCHANGED vars
  BY <1>1, <1>3 DEF Spawn, Compute, wire, page, server, vars
<1>4. ASSUME NEW b \in Bands, Move(b) PROVE StreamInv'
  <2>0. UNCHANGED <<ws, down, opening, encoder, frames, early, streaming, hover, videoFrame,
                    decoder, img, shown>>
    BY <1>4 DEF Move, page, server
  <2>1. CASE UNCHANGED up
    BY <1>1, <2>0, <2>1
  <2>2. CASE Send(<<VideoMessage(b, FALSE)>>)
    <3>1. VideoMessage(b, FALSE) \in UpMessages /\ VideoMessage(b, FALSE).type = "video"
      BY MessageTypes, Kinds, Zenon
    <3> QED BY <2>0, <2>2, <3>1, VideoStream, Zenon
  <2> QED BY <1>4, <2>1, <2>2 DEF Move
<1>5. CASE IdleTimeout
  <2>0. UNCHANGED <<ws, down, opening, encoder, frames, early, streaming, hover, videoFrame,
                    decoder, img, shown>>
    BY <1>5 DEF IdleTimeout, page, server
  <2>1. CASE UNCHANGED up
    BY <1>1, <2>0, <2>1
  <2>2. CASE Send(<<VideoMessage(idle, TRUE)>>)
    <3>0. idle \in Bands
      BY <1>5, TypesAreType DEF IdleTimeout, UserType
    <3>1. VideoMessage(idle, TRUE) \in UpMessages /\ VideoMessage(idle, TRUE).type = "video"
      BY <3>0, MessageTypes, Kinds, Zenon
    <3> QED BY <2>0, <2>2, <3>1, VideoStream, Zenon
  <2> QED BY <1>5, <2>1, <2>2 DEF IdleTimeout
<1> QED BY <1>2, <1>3, <1>4, <1>5, EnterStream, LeaveStream, AnswerStream, FrameStream, BreakStream,
           ReconnectStream, InitStream, OpenStream, TakeStream, EncodeStream
        DEF Next, User, Page, Connection, Server

-----------------------------------------------------------------------------
LEMMA StreamInvariant == Spec => [](TypeOK /\ PlaneIsSet /\ EncoderInv /\ StreamInv)
<1>1. Init => StreamInv
  <2> SUFFICES ASSUME Init PROVE StreamInv
    OBVIOUS
  <2>1. /\ up = <<>> /\ down = <<>> /\ hover = Null /\ opening = Null /\ encoder = Null
        /\ img = Blank /\ ~streaming
    BY DEF Init
  <2> QED BY <2>1 DEF StreamInv, LostIsQuiet, LeftIsQuiet, NoFrames, HoverIsOwn, ClosedIsQuiet, Opens
<1> QED BY <1>1, Invariant, StreamStep, PTL DEF Spec

LEMMA StreamIsOwn == StreamInv => ShowsOwnHover
BY Zenon DEF StreamInv, HoverIsOwn, OwnPicture, ShowsOwnHover

LEMMA FirstIsFrame ==
  ASSUME NEW d \in Seq(DownMessages), d # <<>>, NEW i, NEW b \in Nat, NEW h, Numbered(d, i, b, h),
         Head(d).type = "frame"
  PROVE  i # 1 /\ (i = 0 => Head(d).encoder = h /\ Head(d).number = b + 1)
<1>1. i = 1 => Head(d).type = "init_video"
  <2> SUFFICES ASSUME i = 1 PROVE Head(d).type = "init_video"
    OBVIOUS
  <2>1. d[i].type = "init_video"
    BY DEF Numbered
  <2> QED BY <2>1, Taken
<1>2. i = 0 => Head(d).encoder = h /\ Head(d).number = b + 1
  <2> SUFFICES ASSUME i = 0 PROVE Head(d).encoder = h /\ Head(d).number = b + 1
    OBVIOUS
  <2>1. 1 \in i + 1 .. Len(d) /\ Head(d) = d[1] /\ 1 - i = 1
    BY Taken
  <2>2. d[1].encoder = h /\ d[1].number = b + (1 - i)
    BY <2>1 DEF Numbered
  <2> QED BY <2>1, <2>2
<1> QED BY <1>1, <1>2

LEMMA StreamDecodes == TypeOK /\ StreamInv => DecodesInOrder
<1> SUFFICES ASSUME TypeOK, StreamInv, down # <<>>, decoder.on, ~early,
                    Head(down).type = "frame", Head(down).number # 1
             PROVE  <<Head(down).encoder, Head(down).number>> = <<decoder.encoder, decoder.frame + 1>>
  BY DEF DecodesInOrder
<1>0. videoFrame /\ down \in Seq(DownMessages) /\ ~NoFrames
  BY TypesAreType DEF FrameType, TypeOK, NoFrames
<1>1. hover # Null
  <2>1. streaming
    BY <1>0, Zenon DEF StreamInv, LeftIsQuiet
  <2> QED BY <1>0, <2>1, Zenon DEF StreamInv, LostIsQuiet
<1>2. Streams
  BY <1>0, <1>1, Zenon DEF StreamInv, HoverIsOwn, Coming
<1>3. PICK i \in Nat, b \in Nat : Numbered(down, i, b, hover) /\ DecoderAt(i, b)
  BY <1>2 DEF Streams
<1>4. i # 1 /\ (i = 0 => Head(down).encoder = hover /\ Head(down).number = b + 1)
  BY <1>0, <1>3, FirstIsFrame, Zenon
<1>5. i = 0 /\ (b = 0 \/ (b = decoder.frame /\ decoder.encoder = hover))
  BY <1>0, <1>3, <1>4 DEF DecoderAt
<1>6. Head(down).encoder = hover /\ Head(down).number = b + 1
  BY <1>4, <1>5
<1> QED BY <1>5, <1>6

(* The canvas shows frames of the hover's own encoder (process_video      *)
(* draws what the decoder got since init_video was answered), unless the   *)
(* last hover ended before its answer.                                     *)
THEOREM HoverShowsItself == Spec => []ShowsOwnHover
BY StreamInvariant, StreamIsOwn, PTL

(* The decoder gets each encoder's frames one by one from the first,       *)
(* across leaving, entering and broken connections, with that exception.   *)
THEOREM FramesComeInOrder == Spec => []DecodesInOrder
BY StreamInvariant, StreamDecodes, PTL
=============================================================================
