------------------------ MODULE VideoSessionProofs ------------------------
(***************************************************************************)
(* Proofs about the websocket session, for any number of workers, any      *)
(* length of the queues and any number of messages.                        *)
(***************************************************************************)
EXTENDS VideoSession, TLAPS

LEMMA Bounds == Capacity \in Nat \ {0} /\ Backlog \in Nat \ {0} /\ Budget \in Nat
BY SessionAssumption

(* The type invariant, by groups of variables. *)
SessionType ==
  /\ conn \in {"open", "broken"}
  /\ budget \in 0 .. Budget
  /\ rx \in {"receive", "push_video", "push_viewport", "heartbeat", "init_reply", "init_lock",
             "init", "end_lock", "end", "close", "join_sender", "join_realtime", "join_video",
             "free", "gone", "thrown"}
  /\ inits \in {Null} \cup Inits
QueueType ==
  /\ outgoing \in Seq(Messages) /\ Len(outgoing) <= Capacity
  /\ sender \in {"take", "send", "done"} /\ sending \in Messages
FramesType ==
  /\ requests \in 0 .. Backlog
  /\ video \in {"take", "done"}
  /\ worker \in [Workers -> {"unborn", "compute", "lock", "encode", "put", "dead"}]
  /\ size \in [Workers -> {Null} \cup Inits]
  /\ luma \in {Null} \cup Inits
LockType == mtx \in Workers \cup {"receive loop", Nobody}
EncoderType ==
  /\ encoder \in {Null} \cup Inits
  /\ opened \subseteq Nat /\ freed \subseteq Inits
  /\ encoded \in Nat
  /\ nal \in 1 .. Nals
  /\ misuse \subseteq {"freed", "size"}
TasksType ==
  /\ viewports \in 0 .. Backlog /\ realtime \in {"take", "done"}
  /\ answers \in [{"viewport", "image"} -> Nat]
  /\ replies \subseteq [n : Nat \ {0}, of : {"viewport", "image"}, part : {1, 2}]
PageType ==
  /\ stack \in Seq(Nat) /\ plotted \in Nat
  /\ view \in [image : Nat, refresh : Nat]
FlagsType ==
  closed \in BOOLEAN /\ overlap \in BOOLEAN /\ crossed \in BOOLEAN /\ buried \in BOOLEAN

LEMMA TypesAreType ==
  TypeOK <=> /\ SessionType /\ QueueType /\ FramesType /\ LockType /\ EncoderType
             /\ TasksType /\ PageType /\ FlagsType
BY DEF TypeOK, SessionType, QueueType, FramesType, LockType, EncoderType, TasksType, PageType,
       FlagsType

LEMMA InitialType == Init => TypeOK
<1> SUFFICES ASSUME Init PROVE TypeOK
  OBVIOUS
<1>1. SessionType
  BY Bounds DEF Init, SessionType, Null, Inits
<1>2. QueueType
  <2>1. outgoing = <<>> /\ sender = "take" /\ sending = Text
    BY DEF Init
  <2>2. Text \in Messages
    BY DEF Text, Msg, Messages, Kinds
  <2> QED BY <2>1, <2>2, Bounds DEF QueueType
<1>3. FramesType
  <2>1. requests = 0 /\ video = "take" /\ luma = Null
    BY DEF Init
  <2>2. worker = [w \in Workers |-> "unborn"] /\ size = [w \in Workers |-> Null]
    BY DEF Init
  <2> QED BY <2>1, <2>2, Bounds DEF FramesType, Null
<1>4. LockType /\ EncoderType
  <2>1. /\ mtx = Nobody /\ encoder = Null /\ opened = {} /\ freed = {} /\ encoded = 0
        /\ nal = 1 /\ misuse = {}
    BY DEF Init
  <2> QED BY <2>1 DEF LockType, EncoderType, Null, Nals
<1>5. TasksType
  <2>1. /\ viewports = 0 /\ realtime = "take" /\ replies = {}
        /\ answers = [viewport |-> 0, image |-> 0]
    BY DEF Init
  <2> QED BY <2>1, Bounds DEF TasksType
<1>6. PageType
  <2>1. stack = <<>> /\ plotted = 0 /\ view = NoView
    BY DEF Init
  <2> QED BY <2>1 DEF PageType, NoView
<1>7. FlagsType
  BY DEF Init, FlagsType
<1> QED BY <1>1, <1>2, <1>3, <1>4, <1>5, <1>6, <1>7, TypesAreType

LEMMA SessionTypeStep == TypeOK /\ [Next]_vars => SessionType'
<1> SUFFICES ASSUME TypeOK, [Next]_vars PROVE SessionType'
  OBVIOUS
<1> USE TypesAreType, Bounds DEF SessionType, Null, Inits
<1>1. CASE Break
  BY <1>1 DEF Break
<1>2. CASE Receives
  <2>1. \A next : Receive(next) => budget' \in 0 .. Budget /\ rx' = next
    BY DEF Receive
  <2>2. CASE ReceiveHeartbeat \/ ReceiveRequest
    BY <2>1, <2>2 DEF ReceiveHeartbeat, ReceiveRequest
  <2>3. CASE ReceiveImage \/ ReceiveInit \/ ReceiveEnd
    BY <2>1, <2>3 DEF ReceiveImage, ReceiveInit, ReceiveEnd
  <2> QED BY <1>2, <2>2, <2>3 DEF Receives
<1>3. CASE Proceeds
  BY <1>3 DEF Proceeds, ReceiveNothing, PushVideo, PushViewport, Answer, InitVideo, EndVideo,
              CloseOutgoing, JoinSender, JoinRealtime, JoinVideo, FreeEncoder
<1>4. CASE TakeLock
  BY <1>4 DEF TakeLock
<1>5. CASE Sender \/ Realtime \/ Video
  BY <1>5 DEF Sender, SenderTakes, SenderSends, Realtime, RealtimeTakes, RealtimeEnds, Video,
              VideoTakes, VideoEnds, session
<1>6. CASE \E w \in Workers : Lock(w) \/ Works(w)
  BY <1>6 DEF Lock, Works, Compute, Encode, PutNal, PutFails, session
<1>7. CASE \E r \in replies : PutReply(r) \/ ReplyFails(r)
  BY <1>7 DEF PutReply, ReplyFails, session
<1>8. CASE Plot
  BY <1>8 DEF Plot, session
<1>9. CASE UNCHANGED vars
  BY <1>9 DEF vars, session
<1> QED BY <1>1, <1>2, <1>3, <1>4, <1>5, <1>6, <1>7, <1>8, <1>9 DEF Next

(* What can change a group of variables. *)
LEMMA QueueFrame ==
  [Next]_vars =>
    \/ UNCHANGED queue
    \/ Answer \/ CloseOutgoing \/ Sender
    \/ \E w \in Workers : PutNal(w)
    \/ \E r \in replies : PutReply(r)
<1> SUFFICES ASSUME [Next]_vars, ~UNCHANGED queue
             PROVE  \/ Answer \/ CloseOutgoing \/ Sender
                    \/ \E w \in Workers : PutNal(w)
                    \/ \E r \in replies : PutReply(r)
  OBVIOUS
<1>1. ~Break /\ ~Receives
  BY DEF Break, Receives, ReceiveHeartbeat, ReceiveRequest, ReceiveImage, ReceiveInit, ReceiveEnd
<1>2. Proceeds => Answer \/ CloseOutgoing
  BY DEF Proceeds, ReceiveNothing, PushVideo, PushViewport, InitVideo, EndVideo,
         JoinSender, JoinRealtime, JoinVideo, FreeEncoder
<1>3. ~TakeLock /\ ~Realtime /\ ~Video /\ ~Plot
  BY DEF TakeLock, Realtime, RealtimeTakes, RealtimeEnds, Video, VideoTakes, VideoEnds, Plot
<1>4. \A w \in Workers : Lock(w) \/ Works(w) => PutNal(w)
  BY DEF Lock, Works, Compute, Encode, PutFails
<1>5. \A r \in replies : ~ReplyFails(r)
  BY DEF ReplyFails
<1>6. ~UNCHANGED vars
  BY DEF vars
<1> QED BY <1>1, <1>2, <1>3, <1>4, <1>5, <1>6 DEF Next

LEMMA FramesFrame ==
  [Next]_vars =>
    \/ UNCHANGED frames
    \/ PushVideo \/ Video
    \/ \E w \in Workers : Lock(w) \/ Works(w)
<1> SUFFICES ASSUME [Next]_vars, ~UNCHANGED frames
             PROVE  PushVideo \/ Video \/ \E w \in Workers : Lock(w) \/ Works(w)
  OBVIOUS
<1>1. ~Break /\ ~Receives
  BY DEF Break, Receives, ReceiveHeartbeat, ReceiveRequest, ReceiveImage, ReceiveInit, ReceiveEnd
<1>2. Proceeds => PushVideo
  BY DEF Proceeds, ReceiveNothing, PushViewport, Answer, InitVideo, EndVideo, CloseOutgoing,
         JoinSender, JoinRealtime, JoinVideo, FreeEncoder
<1>3. ~TakeLock /\ ~Sender /\ ~Realtime /\ ~Plot
  BY DEF TakeLock, Sender, SenderTakes, SenderSends, Realtime, RealtimeTakes, RealtimeEnds, Plot
<1>4. \A r \in replies : ~PutReply(r) /\ ~ReplyFails(r)
  BY DEF PutReply, ReplyFails
<1>5. ~UNCHANGED vars
  BY DEF vars
<1> QED BY <1>1, <1>2, <1>3, <1>4, <1>5 DEF Next

LEMMA EncoderFrame ==
  [Next]_vars =>
    \/ UNCHANGED <<x265, overlap>>
    \/ ReceiveInit \/ TakeLock \/ InitVideo \/ EndVideo \/ FreeEncoder
    \/ \E w \in Workers : Lock(w) \/ Encode(w) \/ PutNal(w) \/ PutFails(w)
<1> SUFFICES ASSUME [Next]_vars, ~UNCHANGED <<x265, overlap>>
             PROVE  \/ ReceiveInit \/ TakeLock \/ InitVideo \/ EndVideo \/ FreeEncoder
                    \/ \E w \in Workers : Lock(w) \/ Encode(w) \/ PutNal(w) \/ PutFails(w)
  OBVIOUS
<1>1. ~Break /\ (Receives => ReceiveInit)
  BY DEF Break, Receives, ReceiveHeartbeat, ReceiveRequest, ReceiveImage, ReceiveEnd
<1>2. Proceeds => InitVideo \/ EndVideo \/ FreeEncoder
  BY DEF Proceeds, ReceiveNothing, PushVideo, PushViewport, Answer, CloseOutgoing,
         JoinSender, JoinRealtime, JoinVideo
<1>3. ~Sender /\ ~Realtime /\ ~Video /\ ~Plot
  BY DEF Sender, SenderTakes, SenderSends, Realtime, RealtimeTakes, RealtimeEnds, Video,
         VideoTakes, VideoEnds, Plot
<1>4. \A w \in Workers : Works(w) => Encode(w) \/ PutNal(w) \/ PutFails(w)
  BY DEF Works, Compute
<1>5. \A r \in replies : ~PutReply(r) /\ ~ReplyFails(r)
  BY DEF PutReply, ReplyFails
<1>6. ~UNCHANGED vars
  BY DEF vars
<1> QED BY <1>1, <1>2, <1>3, <1>4, <1>5, <1>6 DEF Next

LEMMA TasksFrame ==
  [Next]_vars =>
    \/ UNCHANGED tasks
    \/ PushViewport \/ ReceiveImage \/ Realtime
    \/ \E r \in replies : PutReply(r) \/ ReplyFails(r)
<1> SUFFICES ASSUME [Next]_vars, ~UNCHANGED tasks
             PROVE  \/ PushViewport \/ ReceiveImage \/ Realtime
                    \/ \E r \in replies : PutReply(r) \/ ReplyFails(r)
  OBVIOUS
<1>1. ~Break /\ (Receives => ReceiveImage)
  BY DEF Break, Receives, ReceiveHeartbeat, ReceiveRequest, ReceiveInit, ReceiveEnd
<1>2. Proceeds => PushViewport
  BY DEF Proceeds, ReceiveNothing, PushVideo, Answer, InitVideo, EndVideo, CloseOutgoing,
         JoinSender, JoinRealtime, JoinVideo, FreeEncoder
<1>3. ~TakeLock /\ ~Sender /\ ~Video /\ ~Plot
  BY DEF TakeLock, Sender, SenderTakes, SenderSends, Video, VideoTakes, VideoEnds, Plot
<1>4. \A w \in Workers : ~Lock(w) /\ ~Works(w)
  BY DEF Lock, Works, Compute, Encode, PutNal, PutFails
<1>5. ~UNCHANGED vars
  BY DEF vars
<1> QED BY <1>1, <1>2, <1>3, <1>4, <1>5 DEF Next

LEMMA PageFrame ==
  [Next]_vars => UNCHANGED page \/ Break \/ SenderSends \/ Plot
<1> SUFFICES ASSUME [Next]_vars, ~UNCHANGED page PROVE Break \/ SenderSends \/ Plot
  OBVIOUS
<1>1. ~Receives
  BY DEF Receives, ReceiveHeartbeat, ReceiveRequest, ReceiveImage, ReceiveInit, ReceiveEnd
<1>2. ~Proceeds
  BY DEF Proceeds, ReceiveNothing, PushVideo, PushViewport, Answer, InitVideo, EndVideo,
         CloseOutgoing, JoinSender, JoinRealtime, JoinVideo, FreeEncoder
<1>3. ~TakeLock /\ ~SenderTakes /\ ~Realtime /\ ~Video
  BY DEF TakeLock, SenderTakes, Realtime, RealtimeTakes, RealtimeEnds, Video, VideoTakes, VideoEnds
<1>4. \A w \in Workers : ~Lock(w) /\ ~Works(w)
  BY DEF Lock, Works, Compute, Encode, PutNal, PutFails
<1>5. \A r \in replies : ~PutReply(r) /\ ~ReplyFails(r)
  BY DEF PutReply, ReplyFails
<1>6. ~UNCHANGED vars
  BY DEF vars
<1> QED BY <1>1, <1>2, <1>3, <1>4, <1>5, <1>6 DEF Next, Sender

LEMMA PutType ==
  ASSUME QueueType, NEW msg \in Messages, Put(msg)
  PROVE  outgoing' \in Seq(Messages) /\ Len(outgoing') <= Capacity
BY Bounds DEF QueueType, Put

LEMMA MessagesAreMessages ==
  ASSUME NEW n \in Nat, NEW k \in Nat, NEW kind \in Kinds
  PROVE  Text \in Messages /\ Msg(kind, n, k) \in Messages
BY DEF Text, Msg, Messages, Kinds

LEMMA PartType == ASSUME TasksType, NEW r \in replies PROVE Part(r) \in Messages
<1>1. r.n \in Nat /\ r.of \in {"viewport", "image"} /\ r.part \in {1, 2}
  BY DEF TasksType
<1>2. Parts[r.of][r.part] \in Kinds
  BY <1>1 DEF Parts, Kinds
<1> QED BY <1>1, <1>2, MessagesAreMessages DEF Part

LEMMA QueueTypeStep == TypeOK /\ [Next]_vars => QueueType'
<1> SUFFICES ASSUME TypeOK, [Next]_vars PROVE QueueType'
  OBVIOUS
<1> USE TypesAreType
<1>1. Text \in Messages
  BY DEF Text, Msg, Messages, Kinds
<1>2. CASE UNCHANGED queue
  BY <1>2 DEF queue, QueueType
<1>3. CASE Answer
  BY <1>1, <1>3, PutType DEF Answer, QueueType
<1>4. CASE CloseOutgoing
  BY <1>4 DEF CloseOutgoing, QueueType
<1>5. CASE SenderTakes
  BY <1>5, Bounds DEF SenderTakes, QueueType
<1>6. CASE SenderSends
  BY <1>1, <1>6 DEF SenderSends, QueueType
<1>7. ASSUME NEW w \in Workers, PutNal(w) PROVE QueueType'
  <2>1. Msg("nal", encoded, nal) \in Messages
    BY DEF EncoderType, Nals, Msg, Messages, Kinds
  <2> QED BY <1>7, <2>1, PutType DEF PutNal, QueueType
<1>8. ASSUME NEW r \in replies, PutReply(r) PROVE QueueType'
  BY <1>8, PartType, PutType DEF PutReply, QueueType
<1> QED BY <1>2, <1>3, <1>4, <1>5, <1>6, <1>7, <1>8, QueueFrame DEF Sender

LEMMA FramesTypeStep == TypeOK /\ [Next]_vars => FramesType'
<1> SUFFICES ASSUME TypeOK, [Next]_vars PROVE FramesType'
  OBVIOUS
<1> USE TypesAreType DEF FramesType
<1>1. CASE UNCHANGED frames
  BY <1>1 DEF frames
<1>2. CASE PushVideo
  BY <1>2, Bounds DEF PushVideo
<1>3. CASE VideoTakes
  <2>1. inits \in {Null} \cup Inits
    BY DEF SessionType
  <2> QED BY <1>3, <2>1, Bounds DEF VideoTakes
<1>4. CASE VideoEnds
  BY <1>4 DEF VideoEnds
<1>5. ASSUME NEW w \in Workers, Lock(w) \/ Works(w) PROVE FramesType'
  BY <1>5 DEF Lock, Works, Compute, Encode, PutNal, PutFails, Leave
<1> QED BY <1>1, <1>2, <1>3, <1>4, <1>5, FramesFrame DEF Video

LEMMA EncoderTypeStep == TypeOK /\ [Next]_vars => EncoderType'
<1> SUFFICES ASSUME TypeOK, [Next]_vars PROVE EncoderType'
  OBVIOUS
<1> USE TypesAreType DEF EncoderType
<1>1. inits \in {Null} \cup Inits
  BY DEF SessionType
<1>2. CASE UNCHANGED <<x265, overlap>>
  BY <1>2 DEF x265
<1>3. CASE ReceiveInit \/ TakeLock
  BY <1>3 DEF ReceiveInit, TakeLock, x265
<1>4. CASE InitVideo
  <2>1. UNCHANGED <<freed, encoded, nal, misuse>> /\ encoder' \in {inits, encoder, Null}
    BY <1>4 DEF InitVideo
  <2>2. opened' \subseteq opened \cup {inits}
    BY <1>4 DEF InitVideo
  <2> QED BY <1>1, <2>1, <2>2 DEF Null, Inits
<1>5. CASE EndVideo \/ FreeEncoder
  BY <1>5 DEF EndVideo, FreeEncoder
<1>6. ASSUME NEW w \in Workers, Lock(w) \/ PutNal(w) \/ PutFails(w) PROVE EncoderType'
  BY <1>6 DEF Lock, PutNal, PutFails, Leave, Nals
<1>7. ASSUME NEW w \in Workers, Encode(w) PROVE EncoderType'
  BY <1>7 DEF Encode, Leave, Nals
<1> QED BY <1>2, <1>3, <1>4, <1>6, <1>7, <1>5, EncoderFrame

LEMMA LockTypeStep == TypeOK /\ [Next]_vars => LockType'
<1> SUFFICES ASSUME TypeOK, [Next]_vars PROVE LockType'
  OBVIOUS
<1> USE TypesAreType DEF LockType
<1>1. CASE UNCHANGED <<x265, overlap>>
  BY <1>1 DEF x265
<1>2. CASE ReceiveInit \/ TakeLock \/ InitVideo \/ EndVideo \/ FreeEncoder
  BY <1>2 DEF ReceiveInit, TakeLock, InitVideo, EndVideo, FreeEncoder, x265
<1>3. ASSUME NEW w \in Workers, Lock(w) \/ Encode(w) \/ PutNal(w) \/ PutFails(w) PROVE LockType'
  BY <1>3 DEF Lock, Encode, PutNal, PutFails, Leave
<1> QED BY <1>1, <1>2, <1>3, EncoderFrame

LEMMA SpawnType ==
  ASSUME TasksType, NEW of \in {"viewport", "image"}, NEW part \in {1, 2}, Spawn(Reply(of, part))
  PROVE  /\ answers' \in [{"viewport", "image"} -> Nat]
         /\ replies' \subseteq [n : Nat \ {0}, of : {"viewport", "image"}, part : {1, 2}]
<1> DEFINE r == Reply(of, part)
<1>1. r \in [n : Nat \ {0}, of : {"viewport", "image"}, part : {1, 2}]
  BY DEF TasksType, Reply
<1>2. answers' = [answers EXCEPT ![r.of] = r.n] /\ replies' = replies \cup {r}
  BY DEF Spawn
<1> HIDE DEF r
<1> QED BY <1>1, <1>2 DEF TasksType

LEMMA TasksTypeStep == TypeOK /\ [Next]_vars => TasksType'
<1> SUFFICES ASSUME TypeOK, [Next]_vars PROVE TasksType'
  OBVIOUS
<1> USE TypesAreType
<1>1. CASE UNCHANGED tasks
  BY <1>1 DEF tasks, TasksType
<1>2. CASE PushViewport
  BY <1>2, Bounds DEF PushViewport, TasksType
<1>3. CASE ReceiveImage
  BY <1>3, SpawnType DEF ReceiveImage, TasksType, tasks
<1>4. CASE RealtimeTakes
  BY <1>4, SpawnType, Bounds DEF RealtimeTakes, TasksType
<1>5. CASE RealtimeEnds
  BY <1>5 DEF RealtimeEnds, TasksType
<1>6. ASSUME NEW r \in replies, PutReply(r) \/ ReplyFails(r) PROVE TasksType'
  <2>1. [r EXCEPT !.part = 2] \in [n : Nat \ {0}, of : {"viewport", "image"}, part : {1, 2}]
    BY DEF TasksType
  <2> QED BY <1>6, <2>1 DEF PutReply, ReplyFails, TasksType
<1> QED BY <1>1, <1>2, <1>3, <1>4, <1>5, <1>6, TasksFrame DEF Realtime

LEMMA PageTypeStep == TypeOK /\ [Next]_vars => PageType'
<1> SUFFICES ASSUME TypeOK, [Next]_vars PROVE PageType'
  OBVIOUS
<1> USE TypesAreType DEF PageType
<1>1. CASE UNCHANGED page
  BY <1>1 DEF page
<1>2. CASE Break
  BY <1>2 DEF Break, NoView
<1>3. CASE SenderSends
  <2>1. sending[2] \in Nat
    BY DEF QueueType, Messages
  <2>0. UNCHANGED page \/ Arrives(sending)
    BY <1>3 DEF SenderSends
  <2>2. stack' \in Seq(Nat) /\ plotted' \in Nat
    <3>1. plotted' = plotted /\ (stack' = stack \/ stack' = Append(stack, sending[2]))
      BY <2>0 DEF Arrives, page
    <3>2. stack \in Seq(Nat) /\ plotted \in Nat
      OBVIOUS
    <3>3. Append(stack, sending[2]) \in Seq(Nat)
      BY <2>1, <3>2
    <3> QED BY <3>1, <3>2, <3>3
  <2>3. view' \in [image : Nat, refresh : Nat]
    <3>1. view \in [image : Nat, refresh : Nat] /\ DOMAIN view = {"image", "refresh"}
      OBVIOUS
    <3>2. UNCHANGED view \/ (sending[1] \in DOMAIN view /\ view' = [view EXCEPT ![sending[1]] = sending[2]])
      BY <2>0 DEF Arrives, page
    <3>3. CASE sending[1] = "image" /\ view' = [view EXCEPT !["image"] = sending[2]]
      BY <2>1, <3>1, <3>3
    <3>4. CASE sending[1] = "refresh" /\ view' = [view EXCEPT !["refresh"] = sending[2]]
      BY <2>1, <3>1, <3>4
    <3> QED BY <3>1, <3>2, <3>3, <3>4
  <2> QED BY <2>2, <2>3
<1>4. CASE Plot
  BY <1>4 DEF Plot
<1> QED BY <1>1, <1>2, <1>3, <1>4, PageFrame

LEMMA FlagsTypeStep == TypeOK /\ [Next]_vars => FlagsType'
<1> SUFFICES ASSUME TypeOK, [Next]_vars PROVE FlagsType'
  OBVIOUS
<1> USE TypesAreType DEF FlagsType
<1>1. closed' \in BOOLEAN
  BY QueueFrame DEF queue, Answer, CloseOutgoing, Sender, SenderTakes, SenderSends, PutNal, PutReply
<1>2. overlap' \in BOOLEAN
  BY EncoderFrame DEF ReceiveInit, TakeLock, InitVideo, EndVideo, FreeEncoder, Lock, Encode,
                      PutNal, PutFails
<1>3. crossed' \in BOOLEAN
  BY TasksFrame DEF tasks, PushViewport, ReceiveImage, Spawn, Realtime, RealtimeTakes,
                    RealtimeEnds, PutReply, ReplyFails
<1>4. buried' \in BOOLEAN
  BY PageFrame DEF page, Break, SenderSends, Arrives, Plot
<1> QED BY <1>1, <1>2, <1>3, <1>4

LEMMA TypeStep == TypeOK /\ [Next]_vars => TypeOK'
<1> SUFFICES ASSUME TypeOK, [Next]_vars PROVE TypeOK'
  OBVIOUS
<1>1. SessionType' /\ QueueType' /\ FramesType' /\ LockType' /\ EncoderType'
  BY SessionTypeStep, QueueTypeStep, FramesTypeStep, LockTypeStep, EncoderTypeStep
<1>2. TasksType' /\ PageType' /\ FlagsType'
  BY TasksTypeStep, PageTypeStep, FlagsTypeStep
<1> QED BY <1>1, <1>2 DEF TypeOK, SessionType, QueueType, FramesType, LockType, EncoderType, TasksType,
                            PageType, FlagsType

(* Every variable keeps its type; in particular the outgoing queue never   *)
(* holds more than its capacity, whoever puts into it (ws_coroutine).      *)
THEOREM TypeCorrect == Spec => []TypeOK
<1>1. Init => TypeOK
  BY InitialType
<1>2. TypeOK /\ [Next]_vars => TypeOK'
  BY TypeStep
<1> QED BY <1>1, <1>2, PTL DEF Spec

-----------------------------------------------------------------------------
(* The encoder: who opens it, who closes it, who uses it.                  *)

Opening == {"init_reply", "init_lock", "init"}

(* Encoders are numbered by init_video messages; the number that the next  *)
(* one gets has not been used.                                             *)
NumbersAreFresh ==
  /\ encoder <= inits /\ \A e \in freed : e <= inits
  /\ Null \notin opened
  /\ rx \in Opening => encoder < inits /\ \A e \in freed : e < inits

FreedWhenGone ==
  /\ encoder \in freed => rx = "gone"
  /\ "freed" \in misuse => rx = "gone"

(* Without an overlap the encoder, if any, has the dimensions in force, as *)
(* has whatever the workers compute for it.                                *)
OneSize ==
  ~overlap =>
    /\ encoder \in {Null, inits} /\ (rx \in Opening => encoder = Null)
    /\ \A w \in Workers : InFlight(w) => size[w] = inits
    /\ \A w \in Workers : worker[w] \in {"lock", "encode"} => luma = inits
    /\ "size" \notin misuse

EncoderInv == NumbersAreFresh /\ FreedWhenGone /\ OneSize /\ SessionReleasesEncoder

(* A step that leaves the encoder alone. *)
Elsewhere ==
  /\ UNCHANGED <<inits, encoder, opened, freed, misuse, overlap>>
  /\ rx = "gone" <=> rx' = "gone"
  /\ rx' \in Opening => rx \in Opening

LEMMA EncoderSteps ==
  [Next]_vars =>
    \/ Elsewhere
    \/ ReceiveInit \/ InitVideo \/ EndVideo \/ FreeEncoder
    \/ \E w \in Workers : Encode(w)
<1> SUFFICES ASSUME [Next]_vars
             PROVE  \/ Elsewhere
                    \/ ReceiveInit \/ InitVideo \/ EndVideo \/ FreeEncoder
                    \/ \E w \in Workers : Encode(w)
  OBVIOUS
<1> USE DEF Elsewhere, Opening
<1>1. CASE Break \/ TakeLock
  BY <1>1 DEF Break, TakeLock, x265
<1>2. CASE Receives
  <2>1. \A next : Receive(next) => rx = "receive" /\ rx' = next
    BY DEF Receive
  <2>2. ASSUME ReceiveHeartbeat \/ ReceiveRequest PROVE Elsewhere
    BY <2>1, <2>2 DEF ReceiveHeartbeat, ReceiveRequest, x265
  <2>3. ASSUME ReceiveImage \/ ReceiveEnd PROVE Elsewhere
    BY <2>1, <2>3 DEF ReceiveImage, ReceiveEnd, x265
  <2> QED BY <1>2, <2>2, <2>3 DEF Receives
<1>3. CASE Proceeds
  BY <1>3 DEF Proceeds, ReceiveNothing, PushVideo, PushViewport, Answer, CloseOutgoing,
              JoinSender, JoinRealtime, JoinVideo, x265
<1>4. CASE Sender \/ Realtime \/ Video \/ Plot
  BY <1>4 DEF Sender, SenderTakes, SenderSends, Realtime, RealtimeTakes, RealtimeEnds, Video,
              VideoTakes, VideoEnds, Plot, x265, session
<1>5. ASSUME NEW w \in Workers, Lock(w) \/ Works(w) PROVE Elsewhere \/ Encode(w)
  BY <1>5 DEF Lock, Works, Compute, PutNal, PutFails, x265, session
<1>6. ASSUME NEW r \in replies, PutReply(r) \/ ReplyFails(r) PROVE Elsewhere
  BY <1>6 DEF PutReply, ReplyFails, x265, session
<1>7. CASE UNCHANGED vars
  BY <1>7 DEF vars, x265, session
<1> QED BY <1>1, <1>2, <1>3, <1>4, <1>5, <1>6, <1>7 DEF Next

LEMMA FreshStep == TypeOK /\ NumbersAreFresh /\ [Next]_vars => NumbersAreFresh'
<1> SUFFICES ASSUME TypeOK, NumbersAreFresh, [Next]_vars PROVE NumbersAreFresh'
  OBVIOUS
<1>0. /\ inits \in Nat /\ encoder \in Nat /\ freed \subseteq Nat
  BY TypesAreType DEF SessionType, EncoderType, Null, Inits
<1> USE <1>0 DEF NumbersAreFresh, Opening
<1>1. CASE Elsewhere
  BY <1>1 DEF Elsewhere
<1>2. CASE ReceiveInit
  BY <1>2 DEF ReceiveInit, Receive, x265
<1>3. CASE InitVideo
  BY <1>3 DEF InitVideo, Null
<1>4. CASE EndVideo \/ FreeEncoder
  <2>1. /\ freed' \subseteq freed \cup {encoder} /\ UNCHANGED <<inits, opened>>
        /\ encoder' \in {Null, encoder}
    BY <1>4 DEF EndVideo, FreeEncoder
  <2>2. rx' \notin Opening
    BY <1>4 DEF EndVideo, FreeEncoder
  <2> QED BY <2>1, <2>2 DEF Null
<1>5. ASSUME NEW w \in Workers, Encode(w) PROVE NumbersAreFresh'
  BY <1>5 DEF Encode, session
<1> QED BY <1>1, <1>2, <1>3, <1>4, <1>5, EncoderSteps

LEMMA FreedStep ==
  TypeOK /\ EncoderInv /\ [Next]_vars => FreedWhenGone' /\ SessionReleasesEncoder'
<1> SUFFICES ASSUME TypeOK, EncoderInv, [Next]_vars
             PROVE  FreedWhenGone' /\ SessionReleasesEncoder'
  OBVIOUS
<1>0. /\ inits \in Nat /\ encoder \in Nat /\ freed \subseteq Nat \ {0}
  BY TypesAreType DEF SessionType, EncoderType, Null, Inits
<1> USE <1>0 DEF EncoderInv, NumbersAreFresh, FreedWhenGone, SessionReleasesEncoder
<1>1. CASE Elsewhere
  BY <1>1 DEF Elsewhere
<1>2. CASE ReceiveInit
  BY <1>2 DEF ReceiveInit, Receive, x265
<1>3. CASE InitVideo
  <2>1. rx \in Opening /\ rx # "gone" /\ rx' # "gone" /\ UNCHANGED <<freed, misuse, overlap>>
    BY <1>3 DEF InitVideo, Opening
  <2>2. overlap \/ opened \ freed = {}
    BY <2>1 DEF OneSize
  <2>3. \/ encoder' = inits /\ opened' = opened \cup {inits}
        \/ encoder' \in {encoder, Null} /\ opened' = opened
    BY <1>3 DEF InitVideo
  <2> QED BY <2>1, <2>2, <2>3 DEF Null
<1>4. CASE EndVideo \/ FreeEncoder
  BY <1>4 DEF EndVideo, FreeEncoder, Null
<1>5. ASSUME NEW w \in Workers, Encode(w) PROVE FreedWhenGone' /\ SessionReleasesEncoder'
  BY <1>5 DEF Encode, session
<1> QED BY <1>1, <1>2, <1>3, <1>4, <1>5, EncoderSteps

(* A step of Elsewhere can still move workers; only the video task's       *)
(* spawning and a worker's progress do.                                    *)
LEMMA SizeStep == TypeOK /\ OneSize /\ [Next]_vars => OneSize'
<1> SUFFICES ASSUME TypeOK, OneSize, [Next]_vars PROVE OneSize'
  OBVIOUS
<1>0. /\ worker \in [Workers -> {"unborn", "compute", "lock", "encode", "put", "dead"}]
      /\ size \in [Workers -> {Null} \cup Inits]
  BY TypesAreType DEF FramesType
<1> USE <1>0 DEF OneSize, InFlight, Opening
<1>1. CASE Elsewhere /\ UNCHANGED frames
  BY <1>1 DEF Elsewhere, frames
<1>2. CASE Elsewhere /\ (PushVideo \/ VideoEnds)
  BY <1>2 DEF Elsewhere, PushVideo, VideoEnds
<1>3. CASE Elsewhere /\ VideoTakes
  <2>1. CASE UNCHANGED <<worker, size>>
    BY <1>3, <2>1 DEF Elsewhere, VideoTakes
  <2>2. CASE /\ worker' = [worker EXCEPT ![NewWorker] = "compute"]
             /\ size' = [size EXCEPT ![NewWorker] = inits]
    BY <1>3, <2>2 DEF Elsewhere, VideoTakes
  <2> QED BY <1>3, <2>1, <2>2 DEF VideoTakes
<1>4. ASSUME NEW w \in Workers, Elsewhere, Lock(w) \/ Compute(w) \/ PutNal(w) \/ PutFails(w)
      PROVE  OneSize'
  <2>1. CASE Lock(w)
    BY <1>4, <2>1 DEF Elsewhere, Lock
  <2>2. CASE Compute(w)
    BY <1>4, <2>2 DEF Elsewhere, Compute
  <2>3. CASE PutNal(w) \/ PutFails(w)
    BY <1>4, <2>3 DEF Elsewhere, PutNal, PutFails, Leave
  <2> QED BY <1>4, <2>1, <2>2, <2>3
<1>5. CASE ReceiveInit
  BY <1>5 DEF ReceiveInit, Receive, x265, frames
<1>6. CASE InitVideo
  BY <1>6 DEF InitVideo, frames
<1>7. CASE EndVideo \/ FreeEncoder
  BY <1>7 DEF EndVideo, FreeEncoder, frames
<1>8. ASSUME NEW w \in Workers, Encode(w) PROVE OneSize'
  BY <1>8 DEF Encode, Leave, session
<1>9. Elsewhere =>
        \/ UNCHANGED frames
        \/ PushVideo \/ Video
        \/ \E w \in Workers : Lock(w) \/ Works(w)
  BY FramesFrame
<1> QED BY <1>1, <1>2, <1>3, <1>4, <1>5, <1>6, <1>7, <1>8, <1>9, EncoderSteps DEF Video, Works

LEMMA InitialEncoder == Init => EncoderInv
BY DEF Init, EncoderInv, NumbersAreFresh, FreedWhenGone, OneSize, SessionReleasesEncoder,
       InFlight, Opening, Null

THEOREM EncoderInvariant == Spec => [](TypeOK /\ EncoderInv)
<1>1. Init => TypeOK /\ EncoderInv
  BY InitialType, InitialEncoder
<1>2. TypeOK /\ EncoderInv /\ [Next]_vars => (TypeOK /\ EncoderInv)'
  BY TypeStep, FreshStep, FreedStep, SizeStep DEF EncoderInv
<1> QED BY <1>1, <1>2, PTL DEF Spec

(* The lock keeps end_video from closing an encoder under a worker of      *)
(* ws_coroutine: none is used after it has been closed, until the end of   *)
(* the session.                                                            *)
THEOREM EncoderOutlivesFrames == Spec => []EncoderIsLive
<1>1. EncoderInv => EncoderIsLive
  BY DEF EncoderInv, FreedWhenGone, EncoderIsLive
<1> QED BY <1>1, EncoderInvariant, PTL

(* Planes of another size reach the encoder only when an init_video has    *)
(* arrived over an open encoder or over workers in flight (ws_coroutine).  *)
THEOREM PlanesFitEncoder == Spec => []SizesMatch
<1>1. EncoderInv => SizesMatch
  BY DEF EncoderInv, OneSize, SizesMatch
<1> QED BY <1>1, EncoderInvariant, PTL

(* Of the encoders that init_video has opened only the current one is ever *)
(* open, and the end of ws_coroutine closes it, unless an init_video met   *)
(* an encoder, or an error threw the session out of its receive loop.      *)
THEOREM EncoderIsReleased == Spec => []SessionReleasesEncoder
<1>1. EncoderInv => SessionReleasesEncoder
  BY DEF EncoderInv
<1> QED BY <1>1, EncoderInvariant, PTL

-----------------------------------------------------------------------------
(* The order of the frames. Whoever encodes or queues has the lock.        *)

LockIsHeld ==
  /\ \A w \in Workers : worker[w] \in {"encode", "put"} => mtx = w
  /\ rx \in {"init", "end"} => mtx = "receive loop"

(* Queued units are older than the frame that is being queued, or are its  *)
(* units so far.                                                           *)
Nal(i) == outgoing[i][1] = "nal"
UnitsAreOlder ==
  \A i \in DOMAIN outgoing : Nal(i) =>
    /\ outgoing[i][2] <= encoded
    /\ (\E w \in Workers : worker[w] = "put") =>
         outgoing[i][2] < encoded \/ (outgoing[i][2] = encoded /\ outgoing[i][3] < nal)

OrderInv == LockIsHeld /\ UnitsAreOlder /\ NalsInOrder

LEMMA Owners == Nobody \notin Workers /\ "receive loop" \notin Workers /\ Nobody # "receive loop"
BY SessionAssumption

(* A step that leaves the lock alone, and its owner where it was. *)
LockAlone ==
  /\ UNCHANGED mtx
  /\ \A w \in Workers : worker'[w] \in {"encode", "put"} <=> worker[w] \in {"encode", "put"}
  /\ rx' \in {"init", "end"} => rx \in {"init", "end"}

LEMMA LockSteps ==
  TypeOK /\ [Next]_vars =>
    \/ LockAlone
    \/ TakeLock \/ InitVideo \/ EndVideo
    \/ \E w \in Workers : Lock(w) \/ Encode(w) \/ PutNal(w) \/ PutFails(w)
<1> SUFFICES ASSUME TypeOK, [Next]_vars
             PROVE  \/ LockAlone
                    \/ TakeLock \/ InitVideo \/ EndVideo
                    \/ \E w \in Workers : Lock(w) \/ Encode(w) \/ PutNal(w) \/ PutFails(w)
  OBVIOUS
<1>0. worker \in [Workers -> {"unborn", "compute", "lock", "encode", "put", "dead"}]
  BY TypesAreType DEF FramesType
<1> USE <1>0 DEF LockAlone
<1>1. CASE Break
  BY <1>1 DEF Break, x265, frames
<1>2. CASE Receives
  <2>1. \A next : Receive(next) => rx' = next
    BY DEF Receive
  <2>2. ASSUME ReceiveHeartbeat \/ ReceiveRequest PROVE LockAlone
    BY <2>1, <2>2 DEF ReceiveHeartbeat, ReceiveRequest, x265, frames
  <2>3. ASSUME ReceiveImage \/ ReceiveInit \/ ReceiveEnd PROVE LockAlone
    BY <2>1, <2>3 DEF ReceiveImage, ReceiveInit, ReceiveEnd, x265, frames
  <2> QED BY <1>2, <2>2, <2>3 DEF Receives
<1>3. CASE Proceeds
  BY <1>3 DEF Proceeds, ReceiveNothing, PushVideo, PushViewport, Answer, CloseOutgoing,
              JoinSender, JoinRealtime, JoinVideo, FreeEncoder, x265, frames
<1>4. CASE Sender \/ Realtime \/ Plot
  BY <1>4 DEF Sender, SenderTakes, SenderSends, Realtime, RealtimeTakes, RealtimeEnds, Plot,
              x265, frames, session
<1>5. CASE Video
  <2>1. CASE VideoTakes
    <3>1. \A w \in Workers : worker'[w] # worker[w] => worker[w] = "unborn" /\ worker'[w] = "compute"
      <4>1. CASE UNCHANGED worker
        BY <4>1
      <4>2. ASSUME \E w \in Workers : worker[w] = "unborn",
                   worker' = [worker EXCEPT ![NewWorker] = "compute"]
            PROVE  \A w \in Workers : worker'[w] # worker[w] => worker[w] = "unborn" /\ worker'[w] = "compute"
        <5>1. NewWorker \in Workers /\ worker[NewWorker] = "unborn"
          BY <4>2 DEF NewWorker
        <5> QED BY <4>2, <5>1
      <4> QED BY <2>1, <4>1, <4>2 DEF VideoTakes
    <3> QED BY <2>1, <3>1 DEF VideoTakes, x265, session
  <2>2. CASE VideoEnds
    BY <2>2 DEF VideoEnds, x265, session
  <2> QED BY <1>5, <2>1, <2>2 DEF Video
<1>6. ASSUME NEW w \in Workers, Compute(w) PROVE LockAlone
  BY <1>6 DEF Compute, x265, session
<1>7. ASSUME NEW r \in replies, PutReply(r) \/ ReplyFails(r) PROVE LockAlone
  BY <1>7 DEF PutReply, ReplyFails, x265, frames, session
<1>8. CASE UNCHANGED vars
  BY <1>8 DEF vars, x265, frames, session
<1> QED BY <1>1, <1>2, <1>3, <1>4, <1>5, <1>6, <1>7, <1>8 DEF Next, Works

LEMMA LockStep == TypeOK /\ LockIsHeld /\ [Next]_vars => LockIsHeld'
<1> SUFFICES ASSUME TypeOK, LockIsHeld, [Next]_vars PROVE LockIsHeld'
  OBVIOUS
<1>0. worker \in [Workers -> {"unborn", "compute", "lock", "encode", "put", "dead"}]
  BY TypesAreType DEF FramesType
<1> USE <1>0, Owners DEF LockIsHeld
<1>1. CASE LockAlone
  BY <1>1 DEF LockAlone
<1>2. CASE TakeLock
  BY <1>2 DEF TakeLock, frames
<1>3. CASE InitVideo \/ EndVideo
  BY <1>3 DEF InitVideo, EndVideo, frames
<1>4. ASSUME NEW w \in Workers, Lock(w) PROVE LockIsHeld'
  BY <1>4 DEF Lock, session
<1>5. ASSUME NEW w \in Workers, Encode(w) PROVE LockIsHeld'
  BY <1>5 DEF Encode, Leave, session
<1>6. ASSUME NEW w \in Workers, PutNal(w) \/ PutFails(w) PROVE LockIsHeld'
  BY <1>6 DEF PutNal, PutFails, Leave, session
<1> QED BY <1>1, <1>2, <1>3, <1>4, <1>5, <1>6, LockSteps

(* What can happen to the queue while frames are being queued. *)
LEMMA UnitsStep ==
  TypeOK /\ LockIsHeld /\ UnitsAreOlder /\ NalsInOrder /\ [Next]_vars
    => UnitsAreOlder' /\ NalsInOrder'
<1> SUFFICES ASSUME TypeOK, LockIsHeld, UnitsAreOlder, NalsInOrder, [Next]_vars
             PROVE  UnitsAreOlder' /\ NalsInOrder'
  OBVIOUS
<1>0. /\ worker \in [Workers -> {"unborn", "compute", "lock", "encode", "put", "dead"}]
      /\ outgoing \in Seq(Messages)
      /\ encoded \in Nat /\ nal \in Nat
  BY TypesAreType DEF FramesType, QueueType, EncoderType, Nals
<1>n. \A i \in DOMAIN outgoing : outgoing[i][2] \in Nat /\ outgoing[i][3] \in Nat
  <2>1. \A i \in DOMAIN outgoing : outgoing[i] \in Messages
    BY <1>0
  <2>2. \A msg \in Messages : msg[2] \in Nat /\ msg[3] \in Nat
    BY DEF Messages
  <2> QED BY <2>1, <2>2
<1>q. ASSUME UNCHANGED <<encoded, nal, worker>>,
             NEW shift \in {0, 1},
             \A i \in DOMAIN outgoing' : Nal(i)' =>
               i \in Nat /\ i + shift \in DOMAIN outgoing /\ outgoing'[i] = outgoing[i + shift]
      PROVE  UnitsAreOlder' /\ NalsInOrder'
  <2>1. ASSUME NEW i \in DOMAIN outgoing', Nal(i)'
        PROVE  /\ outgoing'[i][2] <= encoded
               /\ (\E w \in Workers : worker[w] = "put") => Before(outgoing'[i], Msg("nal", encoded, nal))
    <3>1. i + shift \in DOMAIN outgoing /\ outgoing'[i] = outgoing[i + shift]
      BY <1>q, <2>1
    <3>2. Nal(i + shift)
      BY <2>1, <3>1 DEF Nal
    <3> QED BY <3>1, <3>2 DEF UnitsAreOlder, Before, Msg
  <2>2. ASSUME NEW i \in DOMAIN outgoing', NEW j \in DOMAIN outgoing', i < j, Nal(i)', Nal(j)'
        PROVE  Before(outgoing'[i], outgoing'[j])
    <3>1. /\ i \in Nat /\ i + shift \in DOMAIN outgoing /\ outgoing'[i] = outgoing[i + shift]
          /\ j \in Nat /\ j + shift \in DOMAIN outgoing /\ outgoing'[j] = outgoing[j + shift]
      BY <1>q, <2>2
    <3>2. i + shift < j + shift
      BY <2>2, <3>1
    <3>3. outgoing[i + shift][1] = "nal" /\ outgoing[j + shift][1] = "nal"
      BY <2>2, <3>1 DEF Nal
    <3> QED BY <3>1, <3>2, <3>3 DEF NalsInOrder
  <2>3. UnitsAreOlder'
    BY <1>q, <2>1 DEF UnitsAreOlder, Before, Msg
  <2> QED BY <2>2, <2>3 DEF NalsInOrder, Nal
<1> DEFINE Putting == \E w \in Workers : worker[w] = "put"
<1> USE <1>0 DEF UnitsAreOlder, NalsInOrder, Nal, Before
<1>1. ASSUME UNCHANGED <<outgoing, encoded>>, Putting' => Putting /\ nal' = nal
      PROVE  UnitsAreOlder' /\ NalsInOrder'
  BY <1>1
<1>2. ASSUME NEW msg \in Messages, msg[1] # "nal", outgoing' = Append(outgoing, msg),
             UNCHANGED <<encoded, nal, worker>>
      PROVE  UnitsAreOlder' /\ NalsInOrder'
  <2>1. ASSUME NEW i \in DOMAIN outgoing', Nal(i)'
        PROVE  i \in Nat /\ i + 0 \in DOMAIN outgoing /\ outgoing'[i] = outgoing[i + 0]
    BY <1>2, <2>1
  <2> QED BY <1>2, <1>q, <2>1
<1>3. ASSUME outgoing # <<>>, outgoing' = Tail(outgoing), UNCHANGED <<encoded, nal, worker>>
      PROVE  UnitsAreOlder' /\ NalsInOrder'
  <2>1. ASSUME NEW i \in DOMAIN outgoing'
        PROVE  i \in Nat /\ i + 1 \in DOMAIN outgoing /\ outgoing'[i] = outgoing[i + 1]
    BY <1>3
  <2> QED BY <1>3, <1>q, <2>1
<1>4. ASSUME NEW w \in Workers, PutNal(w) PROVE UnitsAreOlder' /\ NalsInOrder'
  <2> DEFINE unit == Msg("nal", encoded, nal)
  <2>1. worker[w] = "put" /\ outgoing' = Append(outgoing, unit) /\ encoded' = encoded
    BY <1>4 DEF PutNal, Put
  <2>2. unit \in Messages /\ unit[1] = "nal" /\ unit[2] = encoded /\ unit[3] = nal
    BY DEF Msg, Messages, Kinds
  <2> HIDE DEF unit
  <2>3. /\ DOMAIN outgoing' = 1 .. Len(outgoing) + 1 /\ DOMAIN outgoing = 1 .. Len(outgoing)
        /\ Len(outgoing) \in Nat
        /\ \A i \in DOMAIN outgoing : outgoing'[i] = outgoing[i]
        /\ outgoing'[Len(outgoing) + 1] = unit
    BY <2>1, <2>2
  <2>4. \A i \in DOMAIN outgoing : Nal(i) => Before(outgoing[i], unit)
    BY <2>1, <2>2
  <2>5. NalsInOrder'
    <3> SUFFICES ASSUME NEW i \in DOMAIN outgoing', NEW j \in DOMAIN outgoing', i < j,
                        outgoing'[i][1] = "nal", outgoing'[j][1] = "nal"
                 PROVE  Before(outgoing'[i], outgoing'[j])
      OBVIOUS
    <3>1. i \in DOMAIN outgoing /\ outgoing'[i] = outgoing[i]
      BY <2>3
    <3>2. CASE j \in DOMAIN outgoing
      BY <2>3, <3>1, <3>2
    <3>3. CASE j = Len(outgoing) + 1
      BY <2>3, <2>4, <3>1, <3>3
    <3> QED BY <2>3, <3>2, <3>3
  <2>6. CASE nal < Nals
    <3>1. nal' = nal + 1 /\ worker' = worker
      BY <1>4, <2>6 DEF PutNal
    <3>2. \A i \in DOMAIN outgoing' :
            Nal(i)' => outgoing'[i][2] < encoded \/ (outgoing'[i][2] = encoded /\ outgoing'[i][3] < nal + 1)
      <4> SUFFICES ASSUME NEW i \in DOMAIN outgoing', outgoing'[i][1] = "nal"
                   PROVE  \/ outgoing'[i][2] < encoded
                          \/ outgoing'[i][2] = encoded /\ outgoing'[i][3] < nal + 1
        OBVIOUS
      <4>1. CASE i \in DOMAIN outgoing
        BY <2>1, <2>3, <4>1, <1>n
      <4>2. CASE i = Len(outgoing) + 1
        BY <2>2, <2>3, <4>2
      <4> QED BY <2>3, <4>1, <4>2
    <3>3. \A i \in DOMAIN outgoing' : Nal(i)' => outgoing'[i][2] <= encoded
      BY <2>1, <2>2, <2>3
    <3> QED BY <2>1, <2>5, <3>1, <3>2, <3>3
  <2>7. CASE ~(nal < Nals)
    <3>1. worker' = [worker EXCEPT ![w] = "dead"]
      BY <1>4, <2>7 DEF PutNal, Leave
    <3>2. ~Putting'
      BY <2>1, <3>1 DEF LockIsHeld
    <3>3. \A i \in DOMAIN outgoing' : Nal(i)' => outgoing'[i][2] <= encoded
      BY <2>1, <2>2, <2>3
    <3> QED BY <2>1, <2>5, <3>2, <3>3
  <2> QED BY <2>6, <2>7
<1>5. ASSUME NEW w \in Workers, Encode(w) PROVE UnitsAreOlder' /\ NalsInOrder'
  <2>1. UNCHANGED outgoing
    BY <1>5 DEF Encode, queue
  <2>2. CASE encoded' = encoded + 1
    <3>1. \A i \in DOMAIN outgoing : Nal(i) => outgoing[i][2] < encoded'
      BY <2>2, <1>n
    <3>2. \A i \in DOMAIN outgoing : Nal(i) => outgoing[i][2] <= encoded'
      BY <2>2, <1>n
    <3> QED BY <2>1, <3>1, <3>2
  <2>3. CASE Leave(w) /\ UNCHANGED <<encoded, nal, misuse>>
    <3>1. worker' = [worker EXCEPT ![w] = "dead"] /\ UNCHANGED <<encoded, nal>>
      BY <2>3 DEF Leave
    <3> QED BY <1>1, <2>1, <3>1
  <2> QED BY <1>5, <2>2, <2>3 DEF Encode
<1>6. CASE Answer
  <2>1. Text \in Messages /\ Text[1] # "nal"
    BY DEF Text, Msg, Messages, Kinds
  <2> QED BY <1>2, <1>6, <2>1 DEF Answer, Put, frames, x265
<1>7. ASSUME NEW r \in replies, PutReply(r) PROVE UnitsAreOlder' /\ NalsInOrder'
  <2>1. Part(r) \in Messages
    BY PartType, TypesAreType
  <2>2. r.of \in {"viewport", "image"} /\ r.part \in {1, 2}
    BY TypesAreType DEF TasksType
  <2>3. Part(r)[1] # "nal"
    BY <2>2 DEF Part, Parts, Text, Msg
  <2> QED BY <1>2, <1>7, <2>1, <2>3 DEF PutReply, Put, frames, x265
<1>8. CASE CloseOutgoing \/ SenderSends
  BY <1>1, <1>8 DEF CloseOutgoing, SenderSends, frames, x265
<1>9. CASE SenderTakes
  <2>1. UNCHANGED <<encoded, nal, worker>>
    BY <1>9 DEF SenderTakes, frames, x265
  <2> QED BY <1>1, <1>3, <1>9, <2>1 DEF SenderTakes
<1>10. CASE UNCHANGED queue /\ \A w \in Workers : ~Encode(w) /\ ~PutNal(w)
  <2>1. UNCHANGED <<outgoing>>
    BY <1>10 DEF queue
  <2>2. UNCHANGED <<encoded, nal>>
    BY <1>10, EncoderFrame DEF x265, ReceiveInit, TakeLock, InitVideo, EndVideo, FreeEncoder,
                               Lock, PutFails
  <2>3. Putting' => Putting
    <3>1. CASE UNCHANGED worker
      BY <3>1
    <3>2. CASE VideoTakes
      BY <3>2 DEF VideoTakes
    <3>3. ASSUME NEW w \in Workers, Lock(w) \/ Compute(w) \/ PutFails(w) PROVE Putting' => Putting
      BY <3>3 DEF Lock, Compute, PutFails, Leave
    <3> QED BY <1>10, <3>1, <3>2, <3>3, FramesFrame DEF frames, PushVideo, Video, VideoEnds, Works
  <2> QED BY <1>1, <2>1, <2>2, <2>3
<1> QED BY <1>4, <1>5, <1>6, <1>7, <1>8, <1>9, <1>10, QueueFrame DEF Sender

(* The units of a frame follow one another in the queue, and frames follow *)
(* the order in which the workers of ws_coroutine had them encoded.        *)
THEOREM UnitsInOrder == Spec => []NalsInOrder
<1>1. Init => TypeOK /\ OrderInv
  <2>1. Init => OrderInv
    BY DEF Init, OrderInv, LockIsHeld, UnitsAreOlder, NalsInOrder
  <2> QED BY <2>1, InitialType
<1>2. TypeOK /\ OrderInv /\ [Next]_vars => (TypeOK /\ OrderInv)'
  BY TypeStep, LockStep, UnitsStep DEF OrderInv
<1>3. OrderInv => NalsInOrder
  BY DEF OrderInv
<1> QED BY <1>1, <1>2, <1>3, PTL DEF Spec
=============================================================================
