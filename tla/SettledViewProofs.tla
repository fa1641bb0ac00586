------------------------- MODULE SettledViewProofs -------------------------
(***************************************************************************)
(* What the page shows at rest: the proof of SettledView, for any number   *)
(* of messages, workers and places in the queues. Everything that is said  *)
(* here is about a session whose connection and queue are open.            *)
(***************************************************************************)
EXTENDS VideoSessionProofs

Live == conn = "open" /\ ~closed
NewestAnswer == answers["viewport"]

(* What a step can do to a live session, without its flags. *)
Queues(msg) ==
  outgoing' = Append(outgoing, msg) /\ UNCHANGED <<sender, sending, answers, replies, stack, plotted, view>>
Puts(r) ==
  /\ outgoing' = Append(outgoing, Part(r))
  /\ replies' = (replies \ {r}) \cup (IF r.part = 1 THEN {[r EXCEPT !.part = 2]} ELSE {})
  /\ UNCHANGED <<sender, sending, answers, stack, plotted, view>>
Takes ==
  /\ sender = "take" /\ sender' = "send" /\ outgoing # <<>>
  /\ outgoing' = Tail(outgoing) /\ sending' = Head(outgoing)
  /\ UNCHANGED <<answers, replies, stack, plotted, view>>
Sends ==
  /\ sender = "send" /\ sender' = "take" /\ sending' = Text
  /\ stack' = IF sending[1] = "spectrum" THEN Append(stack, sending[2]) ELSE stack
  /\ view' = IF sending[1] \in DOMAIN view THEN [view EXCEPT ![sending[1]] = sending[2]] ELSE view
  /\ UNCHANGED <<outgoing, answers, replies, plotted>>
Plots ==
  /\ stack # <<>> /\ stack[Len(stack)] > plotted
  /\ plotted' = stack[Len(stack)] /\ stack' = <<>>
  /\ UNCHANGED <<outgoing, sender, sending, answers, replies, view>>
Spawns(of, part) ==
  /\ answers' = [answers EXCEPT ![of] = answers[of] + 1]
  /\ replies' = replies \cup {Reply(of, part)}
  /\ UNCHANGED <<outgoing, sender, sending, stack, plotted, view>>
Rests == UNCHANGED <<outgoing, sender, sending, answers, replies, stack, plotted, view>>

NoneAbove == \A i \in DOMAIN stack : ~(stack'[Len(stack')] < stack[i])
NoImageOwed == \A r \in replies : r.of # "image"

LiveStep ==
  \/ \E msg \in Messages : msg[1] \in {"text", "nal"} /\ Queues(msg)
  \/ \E r \in replies : Puts(r)
  \/ Takes
  \/ Sends /\ (~buried' => NoneAbove)
  \/ Plots
  \/ \E part \in {1, 2} : Spawns("viewport", part)
  \/ Spawns("image", 1) /\ (~crossed' => NoImageOwed)
  \/ Rests

LEMMA LiveSteps ==
  ASSUME TypeOK, [Next]_vars, Live'
  PROVE  Live /\ (~buried' => ~buried) /\ (~crossed' => ~crossed) /\ LiveStep
<1>1. ~Break /\ ~CloseOutgoing /\ \A r \in replies : ~ReplyFails(r)
  BY DEF Live, Break, CloseOutgoing, ReplyFails, queue
<1>2. CASE Answer
  <2>1. Queues(Text) /\ Text \in Messages /\ Text[1] = "text"
    BY <1>2 DEF Answer, Put, Queues, Text, Msg, Messages, Kinds, tasks, page
  <2> QED BY <1>2, <2>1 DEF Answer, tasks, page, LiveStep, Live
<1>3. ASSUME NEW w \in Workers, PutNal(w)
      PROVE  Live /\ (~buried' => ~buried) /\ (~crossed' => ~crossed) /\ LiveStep
  <2> DEFINE unit == Msg("nal", encoded, nal)
  <2>1. unit \in Messages /\ unit[1] = "nal"
    BY TypesAreType DEF Msg, Messages, Kinds, EncoderType, Nals
  <2>2. Queues(unit)
    BY <1>3 DEF PutNal, Put, Queues, tasks, page
  <2> QED BY <1>3, <2>1, <2>2 DEF PutNal, Put, session, tasks, page, LiveStep, Live
<1>4. ASSUME NEW r \in replies, PutReply(r)
      PROVE  Live /\ (~buried' => ~buried) /\ (~crossed' => ~crossed) /\ LiveStep
  <2>1. Puts(r)
    BY <1>4 DEF PutReply, Put, Puts, page
  <2> QED BY <1>4, <2>1 DEF PutReply, session, page, LiveStep, Live
<1>5. CASE SenderTakes
  <2>1. Live /\ (~buried' => ~buried) /\ (~crossed' => ~crossed)
    BY <1>5 DEF SenderTakes, Live, session, tasks, page
  <2>2. Takes
    BY <1>5, <2>1 DEF SenderTakes, Live, Takes, tasks, page
  <2> QED BY <2>1, <2>2 DEF LiveStep
<1>6. CASE SenderSends
  <2>1. Live /\ (~crossed' => ~crossed)
    BY <1>6 DEF SenderSends, Live, session, tasks
  <2>2. sender' = "take" /\ Arrives(sending)
    BY <1>6, <2>1 DEF SenderSends, Live
  <2>3. Sends
    BY <1>6, <2>2 DEF SenderSends, Arrives, Sends, tasks
  <2>4. ~buried' => ~buried /\ NoneAbove
    BY <2>2 DEF Arrives, NoneAbove
  <2> QED BY <2>1, <2>3, <2>4 DEF LiveStep
<1>7. CASE Plot
  BY <1>7 DEF Plot, Plots, LiveStep, Live, session, queue, tasks
<1>8. CASE RealtimeTakes
  <2>1. Live /\ UNCHANGED <<outgoing, sender, sending, stack, plotted, view, buried>>
    BY <1>8 DEF RealtimeTakes, Live, session, queue, page
  <2>2. CASE UNCHANGED <<answers, replies, crossed>>
    BY <2>1, <2>2 DEF Rests, LiveStep
  <2>3. ASSUME NEW part \in {1, 2}, Spawn(Reply("viewport", part))
        PROVE  (~crossed' => ~crossed) /\ Spawns("viewport", part)
    <3>1. Reply("viewport", part).of = "viewport" /\ Reply("viewport", part).n = answers["viewport"] + 1
      BY DEF Reply
    <3>2. ~crossed' => ~crossed
      BY <2>3, <3>1 DEF Spawn
    <3> QED BY <2>1, <2>3, <3>1, <3>2 DEF Spawn, Spawns
  <2> QED BY <1>8, <2>1, <2>2, <2>3 DEF RealtimeTakes, LiveStep
<1>9. CASE ReceiveImage
  <2>1. Live /\ UNCHANGED <<outgoing, sender, sending, stack, plotted, view, buried>>
    BY <1>9 DEF ReceiveImage, Live, queue, page
  <2>2. CASE UNCHANGED tasks
    BY <2>1, <2>2 DEF Rests, LiveStep, tasks
  <2>3. CASE Spawn(Reply("image", 1))
    <3>1. Reply("image", 1).of = "image" /\ Reply("image", 1).n = answers["image"] + 1
      BY DEF Reply
    <3>2. ~crossed' => ~crossed /\ NoImageOwed
      BY <2>3, <3>1 DEF Spawn, NoImageOwed
    <3>3. Spawns("image", 1)
      BY <2>1, <2>3, <3>1 DEF Spawn, Spawns
    <3> QED BY <2>1, <3>2, <3>3 DEF LiveStep
  <2> QED BY <1>9, <2>2, <2>3 DEF ReceiveImage
<1>10. CASE UNCHANGED <<conn, outgoing, closed, sender, sending, answers, replies, crossed, page>>
  BY <1>10 DEF Rests, LiveStep, Live, page
<1>11. CASE UNCHANGED vars
  BY <1>10, <1>11 DEF vars, session, queue, tasks
<1>12. CASE Receives \/ Proceeds \/ TakeLock
  BY <1>1, <1>2, <1>9, <1>10, <1>12
     DEF Receives, ReceiveHeartbeat, ReceiveRequest, ReceiveInit, ReceiveEnd,
         Proceeds, ReceiveNothing, PushVideo, PushViewport, InitVideo, EndVideo,
         JoinSender, JoinRealtime, JoinVideo, FreeEncoder, TakeLock, queue, tasks
<1>13. CASE Sender \/ Realtime \/ Video
  BY <1>5, <1>6, <1>8, <1>10, <1>13
     DEF Sender, Realtime, RealtimeEnds, Video, VideoTakes, VideoEnds, session, queue, tasks
<1>14. ASSUME NEW w \in Workers, Lock(w) \/ Works(w)
       PROVE  Live /\ (~buried' => ~buried) /\ (~crossed' => ~crossed) /\ LiveStep
  BY <1>3, <1>10, <1>14
     DEF Works, Lock, Compute, Encode, PutFails, session, queue, tasks
<1> QED BY <1>1, <1>4, <1>7, <1>11, <1>12, <1>13, <1>14 DEF Next

LEMMA ViewTypes ==
  ASSUME TypeOK
  PROVE  /\ outgoing \in Seq(Messages) /\ sending \in Messages
         /\ stack \in Seq(Nat) /\ plotted \in Nat /\ view \in [image : Nat, refresh : Nat]
         /\ answers \in [{"viewport", "image"} -> Nat] /\ answers["viewport"] \in Nat
         /\ \A r \in replies : r \in [n : Nat \ {0}, of : {"viewport", "image"}, part : {1, 2}]
         /\ \A i \in DOMAIN outgoing : outgoing[i] \in Messages
         /\ \A i \in DOMAIN stack : stack[i] \in Nat
         /\ \A msg \in Messages : msg = <<msg[1], msg[2], msg[3]>> /\ msg[2] \in Nat
<1>1. outgoing \in Seq(Messages) /\ sending \in Messages
  BY TypesAreType DEF QueueType
<1>2. stack \in Seq(Nat) /\ plotted \in Nat /\ view \in [image : Nat, refresh : Nat]
  BY TypesAreType DEF PageType
<1>3. /\ answers \in [{"viewport", "image"} -> Nat]
      /\ replies \subseteq [n : Nat \ {0}, of : {"viewport", "image"}, part : {1, 2}]
  BY TypesAreType DEF TasksType
<1>4. answers["viewport"] \in Nat
  BY <1>3
<1>5. \A i \in DOMAIN outgoing : outgoing[i] \in Messages
  BY <1>1
<1>6. \A i \in DOMAIN stack : stack[i] \in Nat
  BY <1>2
<1>7. \A msg \in Messages : msg = <<msg[1], msg[2], msg[3]>> /\ msg[2] \in Nat
  BY DEF Messages
<1> QED BY <1>1, <1>2, <1>3, <1>4, <1>5, <1>6, <1>7

LEMMA PartIs ==
  ASSUME TypeOK, NEW r \in replies
  PROVE  /\ Part(r) \in Messages
         /\ r.of = "viewport" /\ r.part = 1 => Part(r)[1] = "text"
         /\ r.of = "viewport" /\ r.part = 2 => Part(r)[1] = "spectrum"
         /\ r.of = "image" /\ r.part = 1 => Part(r)[1] = "image"
         /\ r.of = "image" /\ r.part = 2 => Part(r)[1] = "refresh"
         /\ Part(r)[1] # "text" => Part(r)[2] = r.n
         /\ r.of \in {"viewport", "image"} /\ r.part \in {1, 2}
BY PartType, TypesAreType DEF TasksType, Part, Parts, Text, Msg

LEMMA TextIs == Text[1] = "text"
BY DEF Text, Msg

(* What appending and removing do, element by element. *)
LEMMA Appended ==
  ASSUME NEW S, NEW seq \in Seq(S), NEW e
  PROVE  /\ Len(seq) \in Nat /\ DOMAIN seq = 1 .. Len(seq)
         /\ Len(Append(seq, e)) = Len(seq) + 1
         /\ DOMAIN Append(seq, e) = 1 .. Len(seq) + 1
         /\ \A i \in DOMAIN seq : Append(seq, e)[i] = seq[i]
         /\ Append(seq, e)[Len(seq) + 1] = e
OBVIOUS

LEMMA Removed ==
  ASSUME NEW S, NEW seq \in Seq(S), seq # <<>>
  PROVE  /\ Len(seq) \in Nat \ {0} /\ DOMAIN seq = 1 .. Len(seq)
         /\ Len(Tail(seq)) = Len(seq) - 1 /\ DOMAIN Tail(seq) = 1 .. Len(seq) - 1
         /\ Head(seq) = seq[1]
         /\ \A i \in 1 .. Len(seq) - 1 : Tail(seq)[i] = seq[i + 1]
OBVIOUS

-----------------------------------------------------------------------------
(* The spectrum of the pointer.                                            *)

Idle == sender # "send" => sending = Text

Spectrum(msg, n) == msg[1] = "spectrum" /\ msg[2] = n
NotAbove(msg, n) == msg[1] = "spectrum" => msg[2] <= n

(* No spectrum is newer than the newest answer, ... *)
Bounded ==
  /\ plotted <= NewestAnswer
  /\ \A i \in DOMAIN stack : stack[i] <= NewestAnswer
  /\ \A i \in DOMAIN outgoing : NotAbove(outgoing[i], NewestAnswer)
  /\ NotAbove(sending, NewestAnswer)
  /\ \A r \in replies : r.of = "viewport" => r.n <= NewestAnswer

(* ... whose spectrum is somewhere on its way, ... *)
NewestIsThere ==
  \/ plotted = NewestAnswer
  \/ \E i \in DOMAIN stack : stack[i] = NewestAnswer
  \/ Spectrum(sending, NewestAnswer)
  \/ \E i \in DOMAIN outgoing : Spectrum(outgoing[i], NewestAnswer)
  \/ \E r \in replies : r.of = "viewport" /\ r.n = NewestAnswer

(* ... and will be on top, unless an older one buries it. *)
Ascends == \A i \in DOMAIN stack : stack[i] <= stack[Len(stack)]

LEMMA IdleStep == Idle /\ LiveStep => Idle'
BY DEF Idle, LiveStep, Queues, Puts, Takes, Sends, Plots, Spawns, Rests

LEMMA BoundedStep ==
  ASSUME TypeOK, Bounded, LiveStep
  PROVE  Bounded'
<1>s. stack \in Seq(Nat) /\ \A i \in DOMAIN stack : stack[i] <= NewestAnswer
  BY ViewTypes DEF Bounded
<1>o. outgoing \in Seq(Messages) /\ \A i \in DOMAIN outgoing : NotAbove(outgoing[i], NewestAnswer)
  BY ViewTypes DEF Bounded
<1>r. \A r \in replies : r.of = "viewport" => r.n <= NewestAnswer
  BY DEF Bounded
<1>1. ASSUME NEW msg, NotAbove(msg, NewestAnswer), outgoing' = Append(outgoing, msg),
             NEW i \in DOMAIN outgoing'
      PROVE  NotAbove(outgoing'[i], NewestAnswer)
  <2>1. CASE i \in DOMAIN outgoing
    BY <1>1, <1>o, <2>1, Appended
  <2>2. CASE i = Len(outgoing) + 1
    BY <1>1, <1>o, <2>2, Appended
  <2> QED BY <1>1, <1>o, <2>1, <2>2, Appended
<1>2. ASSUME NEW msg \in Messages, msg[1] \in {"text", "nal"}, Queues(msg) PROVE Bounded'
  <2>1. NotAbove(msg, NewestAnswer)
    BY <1>2 DEF NotAbove
  <2> QED BY <1>1, <1>2, <2>1 DEF Queues, Bounded, NewestAnswer
<1>3. ASSUME NEW r \in replies, Puts(r) PROVE Bounded'
  <2>1. NotAbove(Part(r), NewestAnswer)
    BY <1>3, <1>r, PartIs DEF NotAbove
  <2>2. \A i \in DOMAIN outgoing' : NotAbove(outgoing'[i], NewestAnswer)
    BY <1>1, <1>3, <2>1 DEF Puts
  <2>3. ASSUME NEW s \in replies', s.of = "viewport" PROVE s.n <= NewestAnswer
    <3>1. CASE s \in replies
      BY <1>r, <2>3, <3>1
    <3>2. CASE s = [r EXCEPT !.part = 2]
      <4>1. s.of = r.of /\ s.n = r.n
        BY <3>2, ViewTypes
      <4> QED BY <1>r, <2>3, <4>1
    <3> QED BY <1>3, <3>1, <3>2 DEF Puts
  <2> QED BY <1>3, <2>2, <2>3 DEF Puts, Bounded, NewestAnswer
<1>4. CASE Takes
  <2>1. outgoing # <<>> /\ outgoing' = Tail(outgoing) /\ sending' = Head(outgoing)
    BY <1>4 DEF Takes
  <2>2. ASSUME NEW i \in DOMAIN outgoing' PROVE NotAbove(outgoing'[i], NewestAnswer)
    <3>1. i + 1 \in DOMAIN outgoing /\ outgoing'[i] = outgoing[i + 1]
      BY <1>o, <2>1, <2>2, Removed
    <3> QED BY <1>o, <3>1
  <2>3. NotAbove(sending', NewestAnswer)
    <3>1. 1 \in DOMAIN outgoing /\ sending' = outgoing[1]
      BY <1>o, <2>1, Removed
    <3> QED BY <1>o, <3>1
  <2> QED BY <1>4, <2>2, <2>3 DEF Takes, Bounded, NewestAnswer
<1>5. CASE Sends
  <2>1. ASSUME NEW i \in DOMAIN stack' PROVE stack'[i] <= NewestAnswer
    <3>1. CASE UNCHANGED stack
      BY <1>s, <2>1, <3>1
    <3>2. CASE sending[1] = "spectrum" /\ stack' = Append(stack, sending[2])
      <4>1. sending[2] \in Nat /\ sending[2] <= NewestAnswer
        BY <3>2, ViewTypes DEF Bounded, NotAbove
      <4>2. CASE i \in DOMAIN stack
        BY <1>s, <3>2, <4>1, <4>2, Appended
      <4>3. CASE i = Len(stack) + 1
        BY <1>s, <3>2, <4>1, <4>3, Appended
      <4> QED BY <1>s, <2>1, <3>2, <4>1, <4>2, <4>3, Appended
    <3> QED BY <1>5, <3>1, <3>2 DEF Sends
  <2>2. NotAbove(sending', NewestAnswer)
    BY <1>5, TextIs DEF Sends, NotAbove
  <2> QED BY <1>5, <2>1, <2>2 DEF Sends, Bounded, NewestAnswer
<1>6. CASE Plots
  <2>1. Len(stack) \in DOMAIN stack /\ plotted' = stack[Len(stack)] /\ stack' = <<>>
    BY <1>6, <1>s DEF Plots
  <2>2. plotted' <= NewestAnswer /\ DOMAIN stack' = {}
    BY <1>s, <2>1
  <2> QED BY <1>6, <2>2 DEF Plots, Bounded, NewestAnswer
<1>7. ASSUME NEW of \in {"viewport", "image"}, NEW part \in {1, 2}, Spawns(of, part)
      PROVE  Bounded'
  <2>1. /\ NewestAnswer \in Nat /\ NewestAnswer' \in Nat /\ NewestAnswer <= NewestAnswer'
        /\ of = "viewport" => NewestAnswer' = NewestAnswer + 1
    BY <1>7, ViewTypes DEF Spawns, NewestAnswer
  <2>2. UNCHANGED <<outgoing, sending, stack, plotted>> /\ replies' = replies \cup {Reply(of, part)}
    BY <1>7 DEF Spawns
  <2>3. \A m \in Nat : m <= NewestAnswer => m <= NewestAnswer'
    BY <2>1
  <2>4. ASSUME NEW msg \in Messages, NotAbove(msg, NewestAnswer) PROVE NotAbove(msg, NewestAnswer')
    BY <2>3, <2>4, ViewTypes DEF NotAbove
  <2>5. plotted' <= NewestAnswer'
    BY <2>2, <2>3, ViewTypes DEF Bounded
  <2>6. \A i \in DOMAIN stack' : stack'[i] <= NewestAnswer'
    BY <1>s, <2>2, <2>3
  <2>7. \A i \in DOMAIN outgoing' : NotAbove(outgoing'[i], NewestAnswer')
    BY <1>o, <2>2, <2>4
  <2>8. NotAbove(sending', NewestAnswer')
    BY <2>2, <2>4, ViewTypes DEF Bounded
  <2>9. ASSUME NEW s \in replies', s.of = "viewport" PROVE s.n <= NewestAnswer'
    <3>1. CASE s \in replies
      <4>1. s.n \in Nat /\ s.n <= NewestAnswer
        BY <1>r, <2>9, <3>1, ViewTypes
      <4> QED BY <2>3, <4>1
    <3>2. CASE s = Reply(of, part)
      <4>1. s.of = of /\ s.n = answers[of] + 1
        BY <3>2 DEF Reply
      <4> QED BY <2>1, <2>9, <4>1 DEF NewestAnswer
    <3> QED BY <2>2, <2>9, <3>1, <3>2
  <2> QED BY <2>5, <2>6, <2>7, <2>8, <2>9 DEF Bounded
<1>8. CASE Rests
  BY <1>8 DEF Rests, Bounded, NewestAnswer
<1> QED BY <1>2, <1>3, <1>4, <1>5, <1>6, <1>7, <1>8 DEF LiveStep

LEMMA SpectrumStep ==
  ASSUME TypeOK, Idle, Bounded, Ascends, NewestIsThere, LiveStep, ~buried'
  PROVE  Ascends' /\ NewestIsThere'
<1>t. /\ outgoing \in Seq(Messages) /\ sending \in Messages /\ stack \in Seq(Nat) /\ plotted \in Nat
      /\ answers \in [{"viewport", "image"} -> Nat] /\ answers["viewport"] \in Nat
      /\ \A i \in DOMAIN stack : stack[i] \in Nat
      /\ \A msg \in Messages : msg[2] \in Nat
  BY ViewTypes
<1> USE DEF Ascends, NewestIsThere, NewestAnswer, Spectrum
<1>1. ASSUME NEW msg \in Messages, msg[1] \in {"text", "nal"}, Queues(msg)
      PROVE  Ascends' /\ NewestIsThere'
  <2>1. \A i \in DOMAIN outgoing : i \in DOMAIN outgoing' /\ outgoing'[i] = outgoing[i]
    BY <1>1, <1>t, Appended DEF Queues
  <2> QED BY <1>1, <2>1 DEF Queues
<1>2. ASSUME NEW r \in replies, Puts(r) PROVE Ascends' /\ NewestIsThere'
  <2>0. outgoing \in Seq(Messages) /\ outgoing' = Append(outgoing, Part(r))
    BY <1>2, <1>t DEF Puts
  <2>1. UNCHANGED <<sending, answers, stack, plotted>>
    BY <1>2 DEF Puts
  <2>2. \A i \in DOMAIN outgoing : i \in DOMAIN outgoing' /\ outgoing'[i] = outgoing[i]
    BY <2>0, Appended
  <2>3. \A s \in replies : s # r => s \in replies'
    BY <1>2 DEF Puts
  <2>4. CASE r.of = "viewport" /\ r.n = NewestAnswer /\ r.part = 1
    <3> DEFINE next == [r EXCEPT !.part = 2]
    <3>1. next \in replies'
      BY <1>2, <2>4 DEF Puts
    <3>2. next.of = "viewport" /\ next.n = NewestAnswer
      BY <2>4, ViewTypes
    <3> HIDE DEF next
    <3> QED BY <2>1, <3>1, <3>2
  <2>5. CASE r.of = "viewport" /\ r.n = NewestAnswer /\ r.part = 2
    <3>1. Part(r)[1] = "spectrum" /\ Part(r)[2] = NewestAnswer
      BY <2>5, PartIs
    <3>2. \E i \in DOMAIN outgoing' : outgoing'[i] = Part(r)
      BY <2>0, Appended
    <3> QED BY <2>1, <3>1, <3>2
  <2>6. CASE ~(r.of = "viewport" /\ r.n = NewestAnswer)
    BY <2>1, <2>2, <2>3, <2>6
  <2> QED BY <2>4, <2>5, <2>6, PartIs
<1>3. CASE Takes
  <2>1. sending[1] # "spectrum"
    BY <1>3, TextIs DEF Takes, Idle
  <2>2. ASSUME NEW i \in DOMAIN outgoing
        PROVE  sending' = outgoing[i] \/ \E j \in DOMAIN outgoing' : outgoing'[j] = outgoing[i]
    <3>1. i = 1 \/ (i - 1 \in DOMAIN outgoing' /\ outgoing'[i - 1] = outgoing[i])
      BY <1>3, <1>t, <2>2, Removed DEF Takes
    <3> QED BY <1>3, <1>t, <3>1, Removed DEF Takes
  <2> QED BY <1>3, <2>1, <2>2 DEF Takes
<1>4. CASE Sends /\ NoneAbove
  <2>1. CASE sending[1] = "spectrum"
    <3>1. stack' = Append(stack, sending[2]) /\ sending[2] \in Nat
      BY <1>4, <1>t, <2>1 DEF Sends
    <3>s. stack \in Seq(Nat)
      BY <1>t
    <3>n. /\ Len(stack) \in Nat /\ DOMAIN stack = 1 .. Len(stack)
          /\ Len(stack') = Len(stack) + 1 /\ DOMAIN stack' = 1 .. Len(stack) + 1
          /\ stack'[Len(stack) + 1] = sending[2]
      BY <3>s, <3>1, Appended
    <3>3. \A i \in DOMAIN stack : i \in DOMAIN stack' /\ stack'[i] = stack[i]
      BY <3>s, <3>1, Appended
    <3>4. \E i \in DOMAIN stack' : stack'[i] = sending[2]
      BY <3>n
    <3>2. ASSUME NEW i \in DOMAIN stack' PROVE stack'[i] <= stack'[Len(stack')]
      <4>1. CASE i \in DOMAIN stack
        <5>1. stack'[i] = stack[i] /\ stack[i] \in Nat /\ ~(stack'[Len(stack')] < stack[i])
          BY <1>4, <1>t, <3>3, <4>1 DEF NoneAbove
        <5> QED BY <3>1, <3>n, <5>1
      <4>2. CASE i = Len(stack) + 1
        BY <3>1, <3>n, <4>2
      <4> QED BY <3>2, <3>n, <4>1, <4>2
    <3> QED BY <1>4, <3>2, <3>3, <3>4 DEF Sends
  <2>2. CASE sending[1] # "spectrum"
    BY <1>4, <2>2 DEF Sends
  <2> QED BY <2>1, <2>2
<1>5. CASE Plots
  <2>1. plotted' = stack[Len(stack)] /\ stack' = <<>> /\ Len(stack) \in DOMAIN stack
    BY <1>5, <1>t DEF Plots
  <2>2. \A i \in DOMAIN stack : stack[i] = NewestAnswer => plotted' = NewestAnswer
    BY <1>t, <2>1 DEF Bounded
  <2>3. plotted # NewestAnswer
    BY <1>5, <1>t, <2>1 DEF Plots, Bounded
  <2> QED BY <1>5, <2>1, <2>2, <2>3 DEF Plots
<1>6. ASSUME NEW part \in {1, 2}, Spawns("viewport", part) PROVE Ascends' /\ NewestIsThere'
  <2>1. Reply("viewport", part).of = "viewport" /\ Reply("viewport", part).n = answers["viewport"] + 1
    BY DEF Reply
  <2>2. answers'["viewport"] = answers["viewport"] + 1 /\ Reply("viewport", part) \in replies'
    BY <1>6, <1>t DEF Spawns
  <2> QED BY <1>6, <2>1, <2>2 DEF Spawns
<1>7. CASE Spawns("image", 1)
  <2>1. answers'["viewport"] = answers["viewport"] /\ replies \subseteq replies'
    BY <1>7, <1>t DEF Spawns
  <2> QED BY <1>7, <2>1 DEF Spawns
<1>8. CASE Rests
  BY <1>8 DEF Rests
<1>9. \/ \E msg \in Messages : msg[1] \in {"text", "nal"} /\ Queues(msg)
      \/ \E r \in replies : Puts(r)
      \/ Takes \/ (Sends /\ NoneAbove) \/ Plots \/ Rests
      \/ (\E part \in {1, 2} : Spawns("viewport", part)) \/ Spawns("image", 1)
  BY DEF LiveStep
<1> QED BY <1>1, <1>2, <1>3, <1>4, <1>5, <1>6, <1>7, <1>8, <1>9

-----------------------------------------------------------------------------
(* The image and the full spectrum. They travel in one line p of n places: *)
(* the image that is shown, the message that is being sent, the queue; and *)
(* behind it the answers whose parts are still owed. q numbers an answer.  *)

Is(msg, kind, q) == msg[1] = kind /\ msg[2] = q

(* The last image before the i-th place is that of q. *)
LastImage(p, i, q) ==
  \E j \in 1 .. i - 1 : Is(p[j], "image", q) /\ \A k \in j + 1 .. i - 1 : p[k][1] # "image"

(* A full spectrum follows the image of its answer, ... *)
Follows(p, n, owed) ==
  /\ \A i \in 1 .. n : p[i][1] = "refresh" => LastImage(p, i, p[i][2])
  /\ \A r \in owed : r.part = 2 => LastImage(p, n + 1, r.n)

(* ... and is followed by it, unless both are shown. *)
Arriving(p, i, n, owed, q) ==
  (\E j \in i + 1 .. n : Is(p[j], "refresh", q)) \/ \E r \in owed : r.part = 2 /\ r.n = q

Completed(p, n, owed, refresh) ==
  \A i \in 1 .. n : p[i][1] = "image" => (i = 1 /\ refresh = p[i][2]) \/ Arriving(p, i, n, owed, p[i][2])

Paired(p, n, owed, refresh) ==
  /\ Follows(p, n, owed) /\ Completed(p, n, owed, refresh)
  /\ \A r, s \in owed : r = s

LEMMA LastImageStays ==
  ASSUME NEW p, NEW p2, NEW n \in Nat, \A k \in 1 .. n : p2[k] = p[k],
         NEW i \in 1 .. n + 1, NEW q
  PROVE  LastImage(p2, i, q) <=> LastImage(p, i, q)
BY DEF LastImage

LEMMA QueueOther ==
  ASSUME NEW p, NEW p2, NEW n \in Nat, NEW owed, NEW refresh, Paired(p, n, owed, refresh),
         \A k \in 1 .. n : p2[k] = p[k], p2[n + 1][1] \notin {"image", "refresh"}
  PROVE  Paired(p2, n + 1, owed, refresh)
<1>1. ASSUME NEW q, LastImage(p, n + 1, q) PROVE LastImage(p2, n + 2, q)
  <2>1. PICK j \in 1 .. n : Is(p[j], "image", q) /\ \A k \in j + 1 .. n : p[k][1] # "image"
    BY <1>1 DEF LastImage
  <2>2. \A k \in j + 1 .. n + 1 : p2[k][1] # "image"
    BY <2>1
  <2> QED BY <2>1, <2>2 DEF LastImage
<1>2. Follows(p2, n + 1, owed)
  <2>1. ASSUME NEW i \in 1 .. n + 1, p2[i][1] = "refresh" PROVE LastImage(p2, i, p2[i][2])
    <3>1. i \in 1 .. n /\ p2[i] = p[i]
      BY <2>1
    <3> QED BY <2>1, <3>1, LastImageStays DEF Paired, Follows
  <2>2. \A r \in owed : r.part = 2 => LastImage(p2, n + 2, r.n)
    BY <1>1 DEF Paired, Follows
  <2> QED BY <2>1, <2>2 DEF Follows
<1>3. Completed(p2, n + 1, owed, refresh)
  BY DEF Paired, Completed, Arriving
<1> QED BY <1>2, <1>3 DEF Paired

LEMMA QueueImage ==
  ASSUME NEW p, NEW p2, NEW n \in Nat, NEW owed, NEW owed2, NEW refresh,
         Paired(p, n, owed, refresh), NEW r \in owed, r.part = 1,
         NEW x, owed2 = {x}, x.part = 2, x.n = r.n,
         \A k \in 1 .. n : p2[k] = p[k], Is(p2[n + 1], "image", r.n)
  PROVE  Paired(p2, n + 1, owed2, refresh)
<1>1. LastImage(p2, n + 2, x.n)
  BY DEF LastImage
<1>2. Follows(p2, n + 1, owed2)
  <2>1. ASSUME NEW i \in 1 .. n + 1, p2[i][1] = "refresh" PROVE LastImage(p2, i, p2[i][2])
    <3>1. i \in 1 .. n /\ p2[i] = p[i]
      BY <2>1 DEF Is
    <3> QED BY <2>1, <3>1, LastImageStays DEF Paired, Follows
  <2> QED BY <1>1, <2>1 DEF Follows
<1>3. \A y \in owed : y.part # 2
  BY DEF Paired
<1>4. Completed(p2, n + 1, owed2, refresh)
  <2> SUFFICES ASSUME NEW i \in 1 .. n + 1, p2[i][1] = "image", ~(i = 1 /\ refresh = p2[i][2])
               PROVE  Arriving(p2, i, n + 1, owed2, p2[i][2])
    BY DEF Completed
  <2>1. CASE i = n + 1
    BY <2>1 DEF Arriving, Is
  <2>2. CASE i \in 1 .. n
    <3>1. Arriving(p, i, n, owed, p[i][2]) /\ p2[i] = p[i]
      BY <2>2 DEF Paired, Completed
    <3>2. \E j \in i + 1 .. n : Is(p[j], "refresh", p[i][2])
      BY <1>3, <3>1 DEF Arriving
    <3> QED BY <2>2, <3>1, <3>2 DEF Arriving
  <2> QED BY <2>1, <2>2
<1> QED BY <1>2, <1>4 DEF Paired

LEMMA QueueRefresh ==
  ASSUME NEW p, NEW p2, NEW n \in Nat, NEW owed, NEW refresh,
         Paired(p, n, owed, refresh), NEW r \in owed, r.part = 2,
         \A k \in 1 .. n : p2[k] = p[k], Is(p2[n + 1], "refresh", r.n)
  PROVE  Paired(p2, n + 1, {}, refresh)
<1>1. Follows(p2, n + 1, {})
  <2> SUFFICES ASSUME NEW i \in 1 .. n + 1, p2[i][1] = "refresh" PROVE LastImage(p2, i, p2[i][2])
    BY DEF Follows
  <2>1. CASE i = n + 1
    <3>1. LastImage(p, n + 1, r.n)
      BY DEF Paired, Follows
    <3> QED BY <2>1, <3>1, LastImageStays DEF Is
  <2>2. CASE i \in 1 .. n
    BY <2>2, LastImageStays DEF Paired, Follows
  <2> QED BY <2>1, <2>2
<1>2. Completed(p2, n + 1, {}, refresh)
  <2> SUFFICES ASSUME NEW i \in 1 .. n + 1, p2[i][1] = "image", ~(i = 1 /\ refresh = p2[i][2])
               PROVE  Arriving(p2, i, n + 1, {}, p2[i][2])
    BY DEF Completed
  <2>1. i \in 1 .. n /\ p2[i] = p[i]
    BY DEF Is
  <2>2. Arriving(p, i, n, owed, p[i][2])
    BY <2>1 DEF Paired, Completed
  <2>3. CASE \E j \in i + 1 .. n : Is(p[j], "refresh", p[i][2])
    BY <2>1, <2>3 DEF Arriving
  <2>4. CASE \E y \in owed : y.part = 2 /\ y.n = p[i][2]
    BY <2>1, <2>4 DEF Arriving, Paired
  <2> QED BY <2>2, <2>3, <2>4 DEF Arriving
<1> QED BY <1>1, <1>2 DEF Paired

(* The line moves up by a place. *)
LEMMA MoveUp ==
  ASSUME NEW p, NEW p2, NEW n \in Nat, n >= 3, NEW owed, NEW refresh, Paired(p, n, owed, refresh),
         p[2][1] \notin {"image", "refresh"},
         p2[1] = p[1], \A k \in 2 .. n - 1 : p2[k] = p[k + 1]
  PROVE  Paired(p2, n - 1, owed, refresh)
<1>1. ASSUME NEW i \in 3 .. n + 1, NEW q, LastImage(p, i, q) PROVE LastImage(p2, i - 1, q)
  <2>1. PICK j \in 1 .. i - 1 : Is(p[j], "image", q) /\ \A k \in j + 1 .. i - 1 : p[k][1] # "image"
    BY <1>1 DEF LastImage
  <2>2. CASE j = 1
    <3>1. \A k \in 2 .. i - 2 : p2[k][1] # "image"
      BY <2>1, <2>2
    <3> QED BY <2>1, <2>2, <3>1 DEF LastImage, Is
  <2>3. CASE j \in 3 .. i - 1
    <3>1. j - 1 \in 1 .. i - 2 /\ Is(p2[j - 1], "image", q)
      BY <2>1, <2>3
    <3>2. \A k \in j .. i - 2 : p2[k][1] # "image"
      BY <2>1, <2>3
    <3> QED BY <3>1, <3>2 DEF LastImage
  <2> QED BY <2>1, <2>2, <2>3 DEF Is
<1>2. Follows(p2, n - 1, owed)
  <2>1. ASSUME NEW i \in 1 .. n - 1, p2[i][1] = "refresh" PROVE LastImage(p2, i, p2[i][2])
    <3>1. p[1][1] # "refresh"
      BY DEF Paired, Follows, LastImage
    <3>2. i + 1 \in 3 .. n /\ p2[i] = p[i + 1]
      BY <2>1, <3>1
    <3>3. LastImage(p, i + 1, p2[i][2])
      BY <2>1, <3>2 DEF Paired, Follows
    <3>4. LastImage(p2, (i + 1) - 1, p2[i][2])
      BY <1>1, <3>2, <3>3
    <3> QED BY <3>4
  <2>2. ASSUME NEW r \in owed, r.part = 2 PROVE LastImage(p2, (n - 1) + 1, r.n)
    <3>1. LastImage(p2, (n + 1) - 1, r.n)
      BY <1>1, <2>2 DEF Paired, Follows
    <3> QED BY <3>1
  <2> QED BY <2>1, <2>2 DEF Follows
<1>3. Completed(p2, n - 1, owed, refresh)
  <2> SUFFICES ASSUME NEW i \in 1 .. n - 1, p2[i][1] = "image", ~(i = 1 /\ refresh = p2[i][2])
               PROVE  Arriving(p2, i, n - 1, owed, p2[i][2])
    BY DEF Completed
  <2> DEFINE old == IF i = 1 THEN 1 ELSE i + 1
  <2>1. old \in 1 .. n /\ p2[i] = p[old] /\ old # 2
    OBVIOUS
  <2>2. Arriving(p, old, n, owed, p2[i][2])
    BY <2>1 DEF Paired, Completed
  <2>3. CASE \E j \in old + 1 .. n : Is(p[j], "refresh", p2[i][2])
    <3>1. PICK j \in old + 1 .. n : Is(p[j], "refresh", p2[i][2])
      BY <2>3
    <3>2. j # 2 /\ j \in Nat
      BY <3>1, <2>1 DEF Is
    <3>3. j - 1 \in i + 1 .. n - 1 /\ p2[j - 1] = p[j]
      BY <3>1, <3>2
    <3> QED BY <3>1, <3>3 DEF Arriving
  <2> QED BY <2>2, <2>3 DEF Arriving
<1> QED BY <1>2, <1>3 DEF Paired

(* The message in the second place is shown, or is none of these. *)
LEMMA DeliverImage ==
  ASSUME NEW p, NEW p2, NEW n \in Nat, n >= 2, NEW owed, NEW refresh, Paired(p, n, owed, refresh),
         NEW q, Is(p[2], "image", q), Is(p2[1], "image", q),
         p2[2][1] \notin {"image", "refresh"}, \A k \in 3 .. n : p2[k] = p[k]
  PROVE  Paired(p2, n, owed, refresh)
<1>1. ASSUME NEW i \in 3 .. n + 1, NEW a, LastImage(p, i, a) PROVE LastImage(p2, i, a)
  <2>1. PICK j \in 1 .. i - 1 : Is(p[j], "image", a) /\ \A k \in j + 1 .. i - 1 : p[k][1] # "image"
    BY <1>1 DEF LastImage
  <2>2. j # 1
    BY <2>1 DEF Is
  <2>3. CASE j = 2
    <3>1. a = q /\ \A k \in 2 .. i - 1 : p2[k][1] # "image"
      BY <2>1, <2>3 DEF Is
    <3> QED BY <3>1 DEF LastImage
  <2>4. CASE j \in 3 .. i - 1
    BY <2>1, <2>4 DEF LastImage
  <2> QED BY <2>2, <2>3, <2>4
<1>2. Follows(p2, n, owed)
  <2>1. ASSUME NEW i \in 1 .. n, p2[i][1] = "refresh" PROVE LastImage(p2, i, p2[i][2])
    <3>1. i \in 3 .. n
      BY <2>1 DEF Is
    <3> QED BY <1>1, <2>1, <3>1 DEF Paired, Follows
  <2> QED BY <1>1, <2>1 DEF Paired, Follows
<1>3. Completed(p2, n, owed, refresh)
  <2> SUFFICES ASSUME NEW i \in 1 .. n, p2[i][1] = "image", ~(i = 1 /\ refresh = p2[i][2])
               PROVE  Arriving(p2, i, n, owed, p2[i][2])
    BY DEF Completed
  <2> DEFINE old == IF i = 1 THEN 2 ELSE i
  <2>1. old \in 2 .. n /\ p2[i][2] = p[old][2] /\ p[old][1] = "image" /\ i <= old
    BY DEF Is
  <2>2. Arriving(p, old, n, owed, p2[i][2])
    BY <2>1 DEF Paired, Completed
  <2>3. \A j \in old + 1 .. n : j \in i + 1 .. n /\ p2[j] = p[j]
    BY <2>1
  <2> QED BY <2>2, <2>3 DEF Arriving
<1> QED BY <1>2, <1>3 DEF Paired

LEMMA DeliverOther ==
  ASSUME NEW p, NEW p2, NEW n \in Nat, n >= 2, NEW owed, NEW refresh, NEW refresh2,
         Paired(p, n, owed, refresh), p[1][1] = "image",
         p[2][1] # "image", IF p[2][1] = "refresh" THEN refresh2 = p[2][2] ELSE refresh2 = refresh,
         p2[1] = p[1], p2[2][1] \notin {"image", "refresh"}, \A k \in 3 .. n : p2[k] = p[k]
  PROVE  Paired(p2, n, owed, refresh2)
<1>1. ASSUME NEW i \in 3 .. n + 1, NEW a, LastImage(p, i, a) PROVE LastImage(p2, i, a)
  <2>1. PICK j \in 1 .. i - 1 : Is(p[j], "image", a) /\ \A k \in j + 1 .. i - 1 : p[k][1] # "image"
    BY <1>1 DEF LastImage
  <2>2. j # 2 /\ p2[j] = p[j] /\ \A k \in j + 1 .. i - 1 : p2[k][1] # "image"
    BY <2>1 DEF Is
  <2> QED BY <2>1, <2>2 DEF LastImage
<1>2. Follows(p2, n, owed)
  <2>1. ASSUME NEW i \in 1 .. n, p2[i][1] = "refresh" PROVE LastImage(p2, i, p2[i][2])
    <3>1. i \in 3 .. n
      BY <2>1
    <3> QED BY <1>1, <2>1, <3>1 DEF Paired, Follows
  <2> QED BY <1>1, <2>1 DEF Paired, Follows
<1>3. CASE p[2][1] = "refresh"
  <2>1. LastImage(p, 2, p[2][2])
    BY <1>3 DEF Paired, Follows
  <2>2. p2[1][2] = refresh2
    BY <1>3, <2>1 DEF LastImage, Is
  <2>3. Completed(p2, n, owed, refresh2)
    BY <2>2 DEF Completed, Paired, Arriving
  <2> QED BY <1>2, <2>3 DEF Paired
<1>4. CASE p[2][1] # "refresh"
  <2>1. ASSUME NEW i \in 1 .. n, p2[i][1] = "image", ~(i = 1 /\ refresh2 = p2[i][2])
        PROVE  Arriving(p2, i, n, owed, p2[i][2])
    <3>1. i # 2 /\ p2[i] = p[i]
      BY <2>1
    <3>2. Arriving(p, i, n, owed, p2[i][2])
      BY <1>4, <2>1, <3>1 DEF Paired, Completed
    <3> QED BY <1>4, <3>2 DEF Arriving, Is
  <2> QED BY <1>2, <2>1 DEF Paired, Completed
<1> QED BY <1>3, <1>4

line ==
  [k \in 1 .. Len(outgoing) + 2 |->
     IF k = 1 THEN Msg("image", view.image, 0) ELSE IF k = 2 THEN sending ELSE outgoing[k - 2]]
Owed == {r \in replies : r.of = "image"}
InPairs == Paired(line, Len(outgoing) + 2, Owed, view.refresh)

LEMMA LineIs ==
  ASSUME TypeOK
  PROVE  /\ Len(outgoing) \in Nat /\ Len(outgoing) + 2 \in Nat /\ Len(outgoing) + 2 >= 2
         /\ line[1] = Msg("image", view.image, 0) /\ line[1][1] = "image" /\ line[1][2] = view.image
         /\ line[2] = sending
         /\ \A k \in 3 .. Len(outgoing) + 2 : line[k] = outgoing[k - 2]
<1>1. Len(outgoing) \in Nat
  BY ViewTypes
<1>2. line[1] = Msg("image", view.image, 0) /\ line[2] = sending
  BY <1>1 DEF line
<1>3. ASSUME NEW k \in 3 .. Len(outgoing) + 2 PROVE line[k] = outgoing[k - 2]
  BY <1>1, <1>3 DEF line
<1> QED BY <1>1, <1>2, <1>3 DEF Msg

(* A message is queued. *)
LEMMA LineGrows ==
  ASSUME TypeOK, TypeOK', NEW msg, outgoing' = Append(outgoing, msg), UNCHANGED <<sending, view>>
  PROVE  /\ Len(outgoing') + 2 = (Len(outgoing) + 2) + 1
         /\ \A k \in 1 .. Len(outgoing) + 2 : line'[k] = line[k]
         /\ line'[(Len(outgoing) + 2) + 1] = msg
<1>1. /\ Len(outgoing) \in Nat /\ Len(outgoing') = Len(outgoing) + 1
      /\ \A k \in 1 .. Len(outgoing) : outgoing'[k] = outgoing[k]
      /\ outgoing'[Len(outgoing) + 1] = msg
  BY ViewTypes, Appended
<1> QED BY <1>1 DEF line

LEMMA PairsStep ==
  ASSUME TypeOK, TypeOK', Idle, InPairs, LiveStep, ~crossed'
  PROVE  InPairs'
<1> DEFINE n == Len(outgoing) + 2
<1>n. n \in Nat /\ n >= 2
  BY LineIs
<1>1. ASSUME NEW msg \in Messages, msg[1] \in {"text", "nal"}, Queues(msg) PROVE InPairs'
  <2>1. UNCHANGED <<sending, view, replies>> /\ outgoing' = Append(outgoing, msg)
    BY <1>1 DEF Queues
  <2>2. /\ Len(outgoing') + 2 = n + 1 /\ line'[n + 1] = msg
        /\ \A k \in 1 .. n : line'[k] = line[k]
    BY <2>1, LineGrows
  <2>3. Paired(line', n + 1, Owed, view.refresh)
    BY <1>n, <1>1, <2>2, QueueOther DEF InPairs
  <2> QED BY <2>1, <2>2, <2>3 DEF InPairs, Owed
<1>2. ASSUME NEW r \in replies, Puts(r) PROVE InPairs'
  <2>1. /\ UNCHANGED <<sending, view>> /\ outgoing' = Append(outgoing, Part(r))
        /\ replies' = (replies \ {r}) \cup (IF r.part = 1 THEN {[r EXCEPT !.part = 2]} ELSE {})
    BY <1>2 DEF Puts
  <2>2. /\ Len(outgoing') + 2 = n + 1 /\ line'[n + 1] = Part(r)
        /\ \A k \in 1 .. n : line'[k] = line[k]
    BY <2>1, LineGrows
  <2>3. /\ r.of \in {"viewport", "image"} /\ r.part \in {1, 2}
        /\ [r EXCEPT !.part = 2].of = r.of /\ [r EXCEPT !.part = 2].n = r.n
        /\ [r EXCEPT !.part = 2].part = 2
    BY ViewTypes
  <2>4. CASE r.of = "viewport"
    <3>1. Owed' = Owed
      BY <2>1, <2>3, <2>4 DEF Owed
    <3>2. Part(r)[1] \notin {"image", "refresh"}
      BY <2>3, <2>4, PartIs
    <3>3. Paired(line', n + 1, Owed, view.refresh)
      BY <1>n, <2>2, <3>2, QueueOther DEF InPairs
    <3> QED BY <2>1, <2>2, <3>1, <3>3 DEF InPairs
  <2>5. CASE r.of = "image"
    <3>1. Owed = {r}
      BY <2>5 DEF InPairs, Paired, Owed
    <3>2. CASE r.part = 1
      <4> DEFINE x == [r EXCEPT !.part = 2]
      <4>1. Owed' = {x}
        BY <2>1, <2>3, <2>5, <3>1, <3>2 DEF Owed
      <4>2. Is(Part(r), "image", r.n)
        BY <2>5, <3>2, PartIs DEF Is
      <4>3. x.part = 2 /\ x.n = r.n
        BY <2>3
      <4> HIDE DEF x
      <4>4. Paired(line', n + 1, Owed', view.refresh)
        BY <1>n, <2>2, <3>1, <3>2, <4>1, <4>2, <4>3, QueueImage DEF InPairs
      <4> QED BY <2>1, <2>2, <4>4 DEF InPairs
    <3>3. CASE r.part = 2
      <4>1. Owed' = {}
        BY <2>1, <3>1, <3>3 DEF Owed
      <4>2. Is(Part(r), "refresh", r.n)
        BY <2>5, <3>3, PartIs DEF Is
      <4>3. Paired(line', n + 1, {}, view.refresh)
        BY <1>n, <2>2, <3>1, <3>3, <4>2, QueueRefresh DEF InPairs
      <4> QED BY <2>1, <2>2, <4>1, <4>3 DEF InPairs
    <3> QED BY <2>3, <3>2, <3>3
  <2> QED BY <2>3, <2>4, <2>5
<1>3. CASE Takes
  <2>1. /\ Len(outgoing) \in Nat \ {0} /\ Len(outgoing') = Len(outgoing) - 1
        /\ sending' = outgoing[1]
        /\ \A i \in 1 .. Len(outgoing) - 1 : outgoing'[i] = outgoing[i + 1]
    BY <1>3, ViewTypes, Removed DEF Takes
  <2>2. UNCHANGED <<view, replies>> /\ sending[1] = "text"
    BY <1>3, TextIs DEF Takes, Idle
  <2>3. n >= 3 /\ Len(outgoing') + 2 = n - 1 /\ line[2][1] \notin {"image", "refresh"}
    BY <2>1, <2>2, LineIs
  <2>4. line'[1] = line[1] /\ \A k \in 2 .. n - 1 : line'[k] = line[k + 1]
    <3>1. line'[1] = line[1] /\ line'[2] = line[3]
      BY <2>1, <2>2 DEF line
    <3>2. ASSUME NEW k \in 3 .. n - 1 PROVE line'[k] = line[k + 1]
      <4>1. line'[k] = outgoing'[k - 2] /\ line[k + 1] = outgoing[k - 1]
        BY <2>1 DEF line
      <4>2. outgoing'[k - 2] = outgoing[(k - 2) + 1]
        BY <2>1
      <4> QED BY <4>1, <4>2
    <3> QED BY <1>n, <3>1, <3>2
  <2>5. Paired(line', n - 1, Owed, view.refresh)
    BY <1>n, <2>3, <2>4, MoveUp DEF InPairs
  <2> QED BY <2>2, <2>3, <2>5 DEF InPairs, Owed
<1>4. CASE Sends
  <2>1. /\ sending' = Text /\ UNCHANGED <<outgoing, replies>>
        /\ view' = IF sending[1] \in DOMAIN view THEN [view EXCEPT ![sending[1]] = sending[2]] ELSE view
        /\ view \in [image : Nat, refresh : Nat]
    BY <1>4, ViewTypes DEF Sends
  <2>2. /\ line'[2] = Text /\ line'[2][1] \notin {"image", "refresh"} /\ line[2] = sending
        /\ line'[1] = Msg("image", view'.image, 0) /\ line[1] = Msg("image", view.image, 0)
        /\ \A k \in 3 .. n : line'[k] = line[k]
    BY <2>1, TextIs DEF line
  <2>3. CASE sending[1] = "image"
    <3>1. view'.image = sending[2] /\ view'.refresh = view.refresh
      BY <2>1, <2>3
    <3>2. Is(line[2], "image", sending[2]) /\ Is(line'[1], "image", sending[2])
      BY <2>2, <2>3, <3>1 DEF Is, Msg
    <3>3. Paired(line', n, Owed, view.refresh)
      BY <1>n, <2>2, <3>2, DeliverImage DEF InPairs
    <3> QED BY <2>1, <3>1, <3>3 DEF InPairs, Owed
  <2>4. CASE sending[1] # "image"
    <3>1. /\ view'.image = view.image
          /\ IF sending[1] = "refresh" THEN view'.refresh = sending[2] ELSE view'.refresh = view.refresh
      BY <2>1, <2>4
    <3>2. line'[1] = line[1] /\ line[1][1] = "image"
      BY <2>2, <3>1 DEF Msg
    <3>3. Paired(line', n, Owed, view'.refresh)
      BY <1>n, <2>2, <2>4, <3>1, <3>2, DeliverOther DEF InPairs
    <3> QED BY <2>1, <3>3 DEF InPairs, Owed
  <2> QED BY <2>3, <2>4
<1>5. ASSUME NEW part \in {1, 2}, Spawns("viewport", part) PROVE InPairs'
  <2>1. UNCHANGED <<outgoing, sending, view>> /\ Owed' = Owed
    BY <1>5 DEF Spawns, Owed, Reply
  <2> QED BY <2>1 DEF InPairs, line
<1>6. CASE Spawns("image", 1) /\ NoImageOwed
  <2> DEFINE x == Reply("image", 1)
  <2>1. UNCHANGED <<outgoing, sending, view>> /\ replies' = replies \cup {x}
    BY <1>6 DEF Spawns
  <2>2. x.of = "image" /\ x.part = 1
    BY DEF Reply
  <2>3. Owed = {} /\ Owed' = {x}
    BY <1>6, <2>1, <2>2 DEF Owed, NoImageOwed
  <2>4. line' = line
    BY <2>1 DEF line
  <2>5. Paired(line, n, {x}, view.refresh)
    BY <2>2, <2>3 DEF InPairs, Paired, Follows, Completed, Arriving
  <2> QED BY <2>1, <2>3, <2>4, <2>5 DEF InPairs
<1>7. CASE Plots \/ Rests
  BY <1>7 DEF Plots, Rests, InPairs, line, Owed
<1>8. \/ \E msg \in Messages : msg[1] \in {"text", "nal"} /\ Queues(msg)
      \/ \E r \in replies : Puts(r)
      \/ Takes \/ Sends \/ (Plots \/ Rests)
      \/ (\E part \in {1, 2} : Spawns("viewport", part)) \/ (Spawns("image", 1) /\ NoImageOwed)
  BY DEF LiveStep
<1> QED BY <1>1, <1>2, <1>3, <1>4, <1>5, <1>6, <1>7, <1>8

-----------------------------------------------------------------------------
(* The invariant of a live session, and what it says of a quiet one.       *)

ViewInv ==
  Live => /\ Idle /\ Bounded
          /\ buried \/ (Ascends /\ NewestIsThere)
          /\ crossed \/ InPairs

LEMMA InitialView == Init => ViewInv
<1> SUFFICES ASSUME Init PROVE ViewInv
  OBVIOUS
<1>1. /\ outgoing = <<>> /\ sending = Text /\ stack = <<>> /\ plotted = 0 /\ replies = {}
      /\ view = [image |-> 0, refresh |-> 0] /\ answers["viewport"] = 0
  BY DEF Init, NoView
<1>2. Idle
  BY <1>1 DEF Idle
<1>3. Bounded /\ Ascends /\ NewestIsThere
  <2>1. /\ answers["viewport"] = 0 /\ plotted = 0 /\ stack = <<>> /\ outgoing = <<>>
        /\ sending = Text /\ replies = {}
    BY <1>1
  <2> QED BY <2>1, TextIs DEF Bounded, NotAbove, Ascends, NewestIsThere, NewestAnswer
<1>4. Len(outgoing) = 0 /\ Owed = {} /\ view.image = 0 /\ view.refresh = 0
  BY <1>1 DEF Owed
<1>5. Len(outgoing) + 2 = 2
  BY <1>4
<1>6. line[1][1] = "image" /\ line[1][2] = 0 /\ line[2][1] = "text"
  BY <1>1, <1>4, <1>5, TextIs DEF line, Msg
<1>7. Paired(line, 2, Owed, view.refresh)
  BY <1>4, <1>6 DEF Paired, Follows, Completed
<1>8. InPairs
  BY <1>5, <1>7 DEF InPairs
<1> QED BY <1>2, <1>3, <1>8 DEF ViewInv

LEMMA ViewStep == TypeOK /\ ViewInv /\ [Next]_vars => ViewInv'
<1>1. SUFFICES ASSUME TypeOK, ViewInv, [Next]_vars, Live'
               PROVE  /\ Idle' /\ Bounded'
                      /\ ~buried' => Ascends' /\ NewestIsThere'
                      /\ ~crossed' => InPairs'
  BY DEF ViewInv
<1>2. Live /\ (~buried' => ~buried) /\ (~crossed' => ~crossed) /\ LiveStep
  BY <1>1, LiveSteps
<1>3. TypeOK'
  BY <1>1, TypeStep
<1>4. Idle /\ Bounded
  BY <1>1, <1>2 DEF ViewInv
<1>5. Idle'
  BY <1>2, <1>4, IdleStep
<1>6. Bounded'
  BY <1>1, <1>2, <1>4, BoundedStep
<1>7. ASSUME ~buried' PROVE Ascends' /\ NewestIsThere'
  <2>1. Ascends /\ NewestIsThere
    BY <1>1, <1>2, <1>7 DEF ViewInv
  <2> QED BY <1>1, <1>2, <1>4, <1>7, <2>1, SpectrumStep
<1>8. ASSUME ~crossed' PROVE InPairs'
  <2>1. InPairs
    BY <1>1, <1>2, <1>8 DEF ViewInv
  <2> QED BY <1>1, <1>2, <1>3, <1>4, <1>8, <2>1, PairsStep
<1> QED BY <1>5, <1>6, <1>7, <1>8

LEMMA QuietSpectrum ==
  ASSUME TypeOK, Quiet, Settled, Idle, Bounded, Ascends, NewestIsThere
  PROVE  plotted = answers.viewport
<1>1. replies = {} /\ outgoing = <<>> /\ sending[1] = "text"
  BY TextIs DEF Quiet, Idle
<1>2. plotted = NewestAnswer \/ \E i \in DOMAIN stack : stack[i] = NewestAnswer
  BY <1>1 DEF NewestIsThere, Spectrum
<1>3. ASSUME NEW i \in DOMAIN stack, stack[i] = NewestAnswer PROVE plotted = NewestAnswer
  <2>1. /\ stack \in Seq(Nat) /\ plotted \in Nat /\ answers["viewport"] \in Nat
        /\ Len(stack) \in DOMAIN stack
    BY <1>3, ViewTypes
  <2>2. stack[Len(stack)] <= plotted
    BY <1>3 DEF Settled
  <2> QED BY <1>3, <2>1, <2>2 DEF Bounded, Ascends, NewestAnswer
<1> QED BY <1>2, <1>3 DEF NewestAnswer

LEMMA QuietPair ==
  ASSUME TypeOK, Quiet, Idle, InPairs
  PROVE  view.image = view.refresh
<1>1. replies = {} /\ outgoing = <<>> /\ sending[1] = "text"
  BY TextIs DEF Quiet, Idle
<1>2. Len(outgoing) + 2 = 2 /\ Owed = {}
  BY <1>1 DEF Owed
<1>3. Completed(line, 2, {}, view.refresh)
  BY <1>2 DEF InPairs, Paired
<1>4. line[1][1] = "image" /\ line[1][2] = view.image /\ line[2][1] = "text"
  BY <1>1, LineIs
<1> QED BY <1>3, <1>4 DEF Completed, Arriving, Is

(* At rest the page shows the newest spectrum of the pointer, unless an    *)
(* older one has buried it, and the image and the full spectrum of one     *)
(* answer, unless two images were answered at a time.                      *)
THEOREM ViewIsSettled == Spec => []SettledView
<1>1. Init => TypeOK /\ ViewInv
  BY InitialType, InitialView
<1>2. TypeOK /\ ViewInv /\ [Next]_vars => (TypeOK /\ ViewInv)'
  BY TypeStep, ViewStep
<1>3. TypeOK /\ ViewInv => SettledView
  <2>1. SUFFICES ASSUME TypeOK, ViewInv, Quiet, Settled
                 PROVE  (view.image = view.refresh \/ crossed) /\ (plotted = answers.viewport \/ buried)
    BY DEF SettledView
  <2>2. /\ Idle /\ Bounded
        /\ buried \/ (Ascends /\ NewestIsThere)
        /\ crossed \/ InPairs
    BY <2>1 DEF ViewInv, Live, Quiet
  <2> QED BY <2>1, <2>2, QuietSpectrum, QuietPair
<1> QED BY <1>1, <1>2, <1>3, PTL DEF Spec
=============================================================================
