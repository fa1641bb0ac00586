------------------------- MODULE BayesBlocksProofs -------------------------
(***************************************************************************)
(* Proofs about the Bayesian binning, for any sample, any counts and any   *)
(* size of section: about its tasks, that the weights do not change under  *)
(* them and are restored; and about what they compute, that it has its     *)
(* type, that every event is counted once, and that the blocks of every    *)
(* task's section are the best ones.                                       *)
(***************************************************************************)
EXTENDS BayesBlocks, TLAPS, FiniteSetTheorems, WellFoundedInduction

Present(s) == s \in Sections /\ status[s] # "absent"
Whole(s) == status[s] \in {"called", "working"}
Ended(s) == status[s] \in {"computed", "merged"}
Within(t, s) == s[1] <= t[1] /\ t[2] <= s[2]
Apart(s, t) == s[2] <= t[1] \/ t[2] <= s[1]

(* t is inside a half of s. *)
Below(t, s) ==
  ~Whole(s) /\ Size(s) > WorkSize /\ \E half \in Halves(s) : Present(half) /\ Within(t, half)

(* The sections that have been called form a tree: any two have at most a  *)
(* point in common, or one is inside a half of the other.                  *)
Tree == \A s, t : Present(s) /\ Present(t) /\ s # t => Apart(s, t) \/ Below(s, t) \/ Below(t, s)

(* Where there are two, neither is a single point. *)
Wide == \A s, t : Present(s) /\ Present(t) /\ s # t => s[1] < s[2]

(* A call ends after all calls below it. *)
Closed ==
  \A s, t : Present(s) /\ Present(t) /\ s # t /\ Ended(s) /\ Within(t, s) => status[t] = "merged"

(* A weight is halved while the call that divides at its point is waiting. *)
Divided(p) == \E s \in Sections : status[s] = "waiting" /\ Mid(s) = p
WaitingIsLarge == \A s \in Sections : status[s] = "waiting" => Size(s) > WorkSize
Halved ==
  \A p \in Points : weights[p] = IF Divided(p) THEN original[p] \div 2 ELSE original[p]

TasksType ==
  /\ original \in [Points -> Nat]
  /\ \A p \in Points : 2 * (original[p] \div 2) = original[p]
  /\ weights \in [Points -> Nat]
  /\ status \in [Sections -> Status]

TreeInv == TasksType /\ Tree /\ Wide /\ Closed
WeightInv == WaitingIsLarge /\ Halved

-----------------------------------------------------------------------------
(* Sections and their halves.                                              *)

LEMMA SampleFacts == Len(Sample) \in Nat \ {0} /\ WorkSize \in Nat /\ WorkSize >= 3
BY SampleAssumption

LEMMA SectionFacts ==
  ASSUME NEW s \in Sections
  PROVE  /\ s = <<s[1], s[2]>>
         /\ s[1] \in Points /\ s[2] \in Points /\ s[1] \in Nat /\ s[2] \in Nat /\ s[1] <= s[2]
         /\ s[1] .. s[2] \subseteq Points
BY SampleFacts DEF Sections, Points

LEMMA MidFacts ==
  ASSUME NEW s \in Sections, Size(s) > WorkSize
  PROVE  Mid(s) \in Points /\ Mid(s) \in Nat /\ s[1] < Mid(s) /\ Mid(s) < s[2]
<1>1. s[1] \in Nat /\ s[2] \in Nat /\ s[1] \in Points /\ s[2] \in Points
  BY SectionFacts
<1>2. Mid(s) \in Nat /\ s[1] < Mid(s) /\ Mid(s) < s[2]
  <2>1. \A n \in Nat : n > 3 => n \div 2 \in Nat /\ n \div 2 > 1 /\ n \div 2 < n
    OBVIOUS
  <2>2. Size(s) \in Nat /\ Size(s) > 3
    BY <1>1, SampleFacts DEF Size
  <2> DEFINE half == Size(s) \div 2
  <2>3. half \in Nat /\ half > 1 /\ half < Size(s) /\ Mid(s) = s[1] + half - 1
    BY <2>1, <2>2 DEF Mid
  <2> HIDE DEF half
  <2> QED BY <1>1, <2>3 DEF Size
<1>3. Mid(s) \in Points
  BY <1>1, <1>2, SampleFacts DEF Points
<1> QED BY <1>2, <1>3

LEMMA HalfFacts ==
  ASSUME NEW s \in Sections, Size(s) > WorkSize, NEW half \in Halves(s)
  PROVE  /\ half \in Sections /\ half # s /\ half[1] < half[2] /\ Within(half, s)
         /\ <<half[1], half[2]>> \in {<<s[1], Mid(s)>>, <<Mid(s), s[2]>>}
<1>1. /\ Mid(s) \in Points /\ Mid(s) \in Nat /\ s[1] < Mid(s) /\ Mid(s) < s[2]
      /\ s[1] \in Points /\ s[2] \in Points /\ s[1] \in Nat /\ s[2] \in Nat
  BY MidFacts, SectionFacts
<1>2. half = <<s[1], Mid(s)>> \/ half = <<Mid(s), s[2]>>
  BY DEF Halves
<1>3. CASE half = <<s[1], Mid(s)>>
  BY <1>1, <1>3 DEF Sections, Within
<1>4. CASE half = <<Mid(s), s[2]>>
  BY <1>1, <1>4 DEF Sections, Within
<1> QED BY <1>2, <1>3, <1>4

LEMMA HalvesApart ==
  ASSUME NEW s \in Sections, Size(s) > WorkSize, NEW g \in Halves(s), NEW h \in Halves(s), g # h
  PROVE  Apart(g, h)
BY MidFacts DEF Halves, Apart

LEMMA BelowIsSmaller ==
  ASSUME NEW s \in Sections, NEW t \in Sections, Below(t, s)
  PROVE  Within(t, s) /\ ~Within(s, t)
<1>1. PICK half \in Halves(s) : Within(t, half)
  BY DEF Below
<1>2. /\ half \in Sections /\ half[1] < half[2] /\ Within(half, s)
      /\ <<half[1], half[2]>> \in {<<s[1], Mid(s)>>, <<Mid(s), s[2]>>}
      /\ Mid(s) \in Nat /\ s[1] < Mid(s) /\ Mid(s) < s[2]
  BY HalfFacts, MidFacts DEF Below
<1> QED BY <1>1, <1>2, SectionFacts DEF Within

-----------------------------------------------------------------------------
(* The tree.                                                               *)

(* The status of one call moves on, and no section is called. *)
LEMMA Advance ==
  ASSUME Tree, Wide, status \in [Sections -> Status],
         NEW s \in Sections, status[s] # "absent",
         NEW x \in Status, x # "absent", x \in {"called", "working"} => Whole(s),
         status' = [status EXCEPT ![s] = x]
  PROVE  Tree' /\ Wide' /\ status' \in [Sections -> Status]
<1>1. \A t : Present(t)' <=> Present(t)
  BY DEF Present
<1>2. \A t \in Sections : Whole(t)' => Whole(t)
  BY DEF Whole
<1>3. ASSUME NEW t, NEW u, Present(u), Below(t, u) PROVE Below(t, u)'
  BY <1>1, <1>2, <1>3 DEF Below, Present
<1>4. Tree'
  BY <1>1, <1>3 DEF Tree
<1>5. Wide'
  BY <1>1 DEF Wide
<1> QED BY <1>4, <1>5

LEMMA DivideTree ==
  ASSUME TreeInv, NEW s \in Sections, Divide(s)
  PROVE  /\ TreeInv'
         /\ \A half \in Halves(s) : status[half] = "absent"
<1>1. /\ status[s] = "called" /\ Size(s) > WorkSize
      /\ status \in [Sections -> Status]
      /\ status' = [t \in Sections |->
                      IF t = s THEN "waiting" ELSE IF t \in Halves(s) THEN "called" ELSE status[t]]
  BY DEF Divide, TreeInv, TasksType
<1>2. \A half \in Halves(s) :
        half \in Sections /\ half # s /\ half[1] < half[2] /\ Within(half, s)
  BY <1>1, HalfFacts
<1>3. /\ s[1] \in Nat /\ s[2] \in Nat /\ s[1] < s[2] /\ Present(s) /\ Whole(s)
      /\ \A t \in Sections : t[1] \in Nat /\ t[2] \in Nat
  BY <1>1, SectionFacts, MidFacts DEF Present, Whole
<1>4. ASSUME NEW half \in Halves(s) PROVE status[half] = "absent"
  <2> SUFFICES ASSUME status[half] # "absent" PROVE FALSE
    OBVIOUS
  <2>1. Present(half) /\ half # s
    BY <1>2 DEF Present
  <2>2. Apart(s, half) \/ Below(s, half) \/ Below(half, s)
    BY <1>3, <2>1 DEF TreeInv, Tree
  <2>3. ~Below(half, s)
    BY <1>3 DEF Below
  <2>4. ~Apart(s, half)
    BY <1>2, <1>3 DEF Apart, Within
  <2>5. ~Below(s, half)
    BY <1>2, BelowIsSmaller
  <2> QED BY <2>2, <2>3, <2>4, <2>5
<1>5. \A t : Present(t)' <=> Present(t) \/ t \in Halves(s)
  BY <1>1, <1>2 DEF Present, Status
<1>6. \A t : Present(t) /\ t # s => status'[t] = status[t] /\ t \notin Halves(s)
  BY <1>1, <1>4 DEF Present
<1>7. status'[s] = "waiting" /\ \A half \in Halves(s) : status'[half] = "called"
  BY <1>1, <1>2
<1>8. ASSUME NEW t, Present(t), t # s PROVE Apart(s, t) \/ Below(s, t)
  BY <1>3, <1>8 DEF TreeInv, Tree, Below
<1>9. \A t : Present(t)' => t[1] < t[2]
  BY <1>2, <1>3, <1>5 DEF TreeInv, Wide
<1>10. ASSUME NEW t, NEW u, Present(t), Present(u), Below(t, u) PROVE Below(t, u)'
  <2>1. u # s /\ status'[u] = status[u]
    BY <1>3, <1>6, <1>10 DEF Below
  <2> QED BY <1>5, <1>10, <2>1 DEF Below, Whole
<1>11. \A half \in Halves(s) : Below(half, s)'
  BY <1>1, <1>2, <1>3, <1>5, <1>7 DEF Below, Whole, Within
<1>12. ASSUME NEW t, Present(t), t # s, NEW half \in Halves(s)
       PROVE  Apart(t, half) \/ Below(half, t)'
  <2>1. t \in Sections /\ half \in Sections /\ Within(half, s)
    BY <1>2, <1>12 DEF Present
  <2>2. CASE Apart(s, t)
    BY <1>3, <2>1, <2>2 DEF Apart, Within
  <2>3. CASE Below(s, t)
    <3>1. Below(s, t)'
      BY <1>3, <1>10, <1>12, <2>3
    <3>2. PICK g \in Halves(t) : Present(g)' /\ Within(s, g)
      BY <3>1 DEF Below
    <3>3. Within(half, g)
      BY <1>3, <2>1, <3>2 DEF Within, Present
    <3> QED BY <3>1, <3>2, <3>3 DEF Below
  <2> QED BY <1>8, <1>12, <2>2, <2>3
<1>13. Tree'
  <2> SUFFICES ASSUME NEW t, NEW u, Present(t)', Present(u)', t # u
               PROVE  Apart(t, u) \/ Below(t, u)' \/ Below(u, t)'
    BY DEF Tree, Apart
  <2>1. CASE Present(t) /\ Present(u)
    BY <1>10, <2>1 DEF TreeInv, Tree
  <2>2. CASE t \in Halves(s) /\ u \in Halves(s)
    BY <1>1, <2>2, HalvesApart
  <2>3. CASE t \in Halves(s) /\ Present(u)
    BY <1>11, <1>12, <2>3 DEF Apart
  <2>4. CASE u \in Halves(s) /\ Present(t)
    BY <1>11, <1>12, <2>4 DEF Apart
  <2> QED BY <1>5, <2>1, <2>2, <2>3, <2>4
<1>14. Closed'
  <2> SUFFICES ASSUME NEW t, NEW u, Present(t)', Present(u)', t # u, Ended(t)', Within(u, t)
               PROVE  status'[u] = "merged"
    BY DEF Closed, Within
  <2>1. Present(t) /\ t # s /\ Ended(t)
    BY <1>5, <1>6, <1>7 DEF Ended
  <2>2. CASE Present(u) /\ u # s
    BY <1>6, <2>1, <2>2 DEF TreeInv, Closed
  <2>3. ~Within(s, t)
    BY <1>1, <1>3, <2>1 DEF TreeInv, Closed
  <2>4. u \notin Halves(s)
    <3> SUFFICES ASSUME u \in Halves(s) PROVE FALSE
      OBVIOUS
    <3>1. u \in Sections /\ t \in Sections /\ Within(u, s) /\ u[1] < u[2]
      BY <1>2, <2>1 DEF Present
    <3>2. Apart(s, t)
      BY <1>8, <2>1, <2>3, <1>3, <3>1, BelowIsSmaller
    <3> QED BY <1>3, <3>1, <3>2 DEF Apart, Within
  <2> QED BY <1>5, <2>2, <2>3, <2>4
<1>15. TasksType'
  <2>1. weights' = [weights EXCEPT ![Mid(s)] = @ \div 2] /\ original' = original
    BY DEF Divide
  <2>2. status' \in [Sections -> Status]
    BY <1>1 DEF Status
  <2>3. \A n \in Nat : n \div 2 \in Nat
    OBVIOUS
  <2>4. weights' \in [Points -> Nat]
    BY <2>1, <2>3 DEF TreeInv, TasksType
  <2> QED BY <2>1, <2>2, <2>4 DEF TreeInv, TasksType
<1> QED BY <1>4, <1>9, <1>13, <1>14, <1>15 DEF TreeInv, Wide

(* The calls below one that is about to end, or has ended, are merged. *)
LEMMA AdvanceClosed ==
  ASSUME Closed, status \in [Sections -> Status],
         NEW s \in Sections, status[s] \notin {"absent", "merged"},
         NEW x \in Status, x # "absent", status' = [status EXCEPT ![s] = x],
         x \in {"computed", "merged"} =>
           \A t : Present(t) /\ t # s /\ Within(t, s) => status[t] = "merged"
  PROVE  Closed'
<1>1. \A t : Present(t)' <=> Present(t)
  BY DEF Present
<1> SUFFICES ASSUME NEW t, NEW u, Present(t), Present(u), t # u, Ended(t)', Within(u, t)
             PROVE  status'[u] = "merged"
  BY <1>1 DEF Closed, Within
<1>2. CASE t = s
  BY <1>2 DEF Ended, Present
<1>3. CASE t # s
  <2>1. status[u] = "merged"
    BY <1>3 DEF Ended, Closed, Present
  <2> QED BY <2>1 DEF Present
<1> QED BY <1>2, <1>3

LEMMA WholeIsAlone ==
  ASSUME TreeInv, NEW s \in Sections, Present(s), Whole(s), NEW t, Present(t), t # s
  PROVE  ~Within(t, s) /\ (Apart(s, t) \/ Below(s, t))
<1>1. Apart(s, t) \/ Below(s, t)
  BY DEF TreeInv, Tree, Below
<1>2. CASE Apart(s, t)
  BY <1>1, <1>2, SectionFacts DEF TreeInv, Wide, Apart, Within, Present
<1>3. CASE Below(s, t)
  BY <1>3, BelowIsSmaller DEF Present
<1> QED BY <1>1, <1>2, <1>3

LEMMA JoinIsLast ==
  ASSUME TreeInv, WaitingIsLarge, NEW s \in Sections, status[s] = "waiting",
         \A half \in Halves(s) : status[half] = "merged",
         NEW t, Present(t), t # s
  PROVE  (Within(t, s) => status[t] = "merged") /\ (Below(t, s) => status[t] = "merged")
<1>1. Present(s) /\ t \in Sections /\ s[1] < s[2] /\ t[1] < t[2]
  BY DEF Present, TreeInv, Wide
<1>2. ASSUME Below(t, s) PROVE status[t] = "merged"
  <2>1. PICK half \in Halves(s) : Present(half) /\ Within(t, half)
    BY <1>2 DEF Below
  <2> QED BY <2>1 DEF TreeInv, Closed, Ended
<1>3. ASSUME Within(t, s) PROVE Below(t, s)
  <2>1. ~Apart(s, t)
    BY <1>1, <1>3, SectionFacts DEF Within, Apart
  <2>2. ~Below(s, t)
    BY <1>1, <1>3, BelowIsSmaller
  <2> QED BY <1>1, <2>1, <2>2 DEF TreeInv, Tree
<1> QED BY <1>2, <1>3

LEMMA TreeStep == TreeInv /\ WaitingIsLarge /\ [Next]_vars => TreeInv'
<1> SUFFICES ASSUME TreeInv, WaitingIsLarge, [Next]_vars PROVE TreeInv'
  OBVIOUS
<1>1. status \in [Sections -> Status] /\ weights \in [Points -> Nat]
  BY DEF TreeInv, TasksType
<1>2. ASSUME NEW s \in Sections, NEW x \in Status, status' = [status EXCEPT ![s] = x],
             status[s] \notin {"absent", "merged"}, x # "absent",
             x \in {"called", "working"} => Whole(s),
             x \in {"computed", "merged"} =>
               \A t : Present(t) /\ t # s /\ Within(t, s) => status[t] = "merged",
             UNCHANGED original, weights' \in [Points -> Nat]
      PROVE  TreeInv'
  <2>1. Tree' /\ Wide' /\ status' \in [Sections -> Status]
    BY <1>1, <1>2, Advance DEF TreeInv
  <2>2. Closed'
    BY <1>1, <1>2, AdvanceClosed DEF TreeInv
  <2> QED BY <1>2, <2>1, <2>2 DEF TreeInv, TasksType
<1>3. ASSUME NEW s \in Sections, Divide(s) PROVE TreeInv'
  BY <1>3, DivideTree
<1>4. ASSUME NEW s \in Sections, Start(s) PROVE TreeInv'
  BY <1>1, <1>2, <1>4 DEF Start, Status, Whole
<1>5. ASSUME NEW s \in Sections, Finish(s) PROVE TreeInv'
  <2>1. Whole(s) /\ Present(s)
    BY <1>5 DEF Finish, Whole, Present
  <2>2. \A t : Present(t) /\ t # s => ~Within(t, s)
    BY <2>1, WholeIsAlone
  <2> QED BY <1>1, <1>2, <1>5, <2>2 DEF Finish, Status
<1>6. ASSUME NEW s \in Sections, Join(s) PROVE TreeInv'
  <2>1. status[s] = "waiting" /\ \A half \in Halves(s) : status[half] = "merged"
    BY <1>6 DEF Join
  <2>2. \A t : Present(t) /\ t # s /\ Within(t, s) => status[t] = "merged"
    BY <2>1, JoinIsLast
  <2>3. Mid(s) \in Points /\ weights' = [weights EXCEPT ![Mid(s)] = 2 * @]
    BY <1>6, <2>1, MidFacts DEF Join, WaitingIsLarge
  <2>4. weights' \in [Points -> Nat]
    BY <1>1, <2>3
  <2> QED BY <1>2, <1>6, <2>1, <2>2, <2>4 DEF Join, Status
<1>7. ASSUME NEW s \in Sections, NEW half \in Halves(s) \cap Sections, Merge(s, half)
      PROVE  TreeInv'
  <2>1. status[half] = "computed" /\ Present(half)
    BY <1>7 DEF Merge, Present
  <2>2. \A t : Present(t) /\ t # half /\ Within(t, half) => status[t] = "merged"
    BY <2>1 DEF TreeInv, Closed, Ended
  <2> QED BY <1>1, <1>2, <1>7, <2>1, <2>2 DEF Merge, Status
<1>8. ASSUME BuildBlocks PROVE TreeInv'
  <2>1. Root \in Sections
    BY SampleFacts DEF Root, Sections, Points
  <2>2. status[Root] = "computed" /\ Present(Root)
    BY <1>8, <2>1 DEF BuildBlocks, Present
  <2>3. \A t : Present(t) /\ t # Root /\ Within(t, Root) => status[t] = "merged"
    BY <2>2 DEF TreeInv, Closed, Ended
  <2> QED BY <1>1, <1>2, <1>8, <2>1, <2>2, <2>3 DEF BuildBlocks, Status
<1>9. CASE UNCHANGED vars
  BY <1>9 DEF vars, TreeInv, TasksType, Tree, Wide, Closed, Below, Whole, Ended, Present
<1> QED BY <1>3, <1>4, <1>5, <1>6, <1>7, <1>8, <1>9 DEF Next, Finished

-----------------------------------------------------------------------------
(* The weights.                                                            *)

LEMMA MidsDiffer ==
  ASSUME TreeInv, NEW s \in Sections, NEW t \in Sections, Present(s), Present(t), s # t,
         Size(s) > WorkSize, Size(t) > WorkSize
  PROVE  Mid(s) # Mid(t)
<1>1. /\ Mid(s) \in Nat /\ s[1] < Mid(s) /\ Mid(s) < s[2]
      /\ Mid(t) \in Nat /\ t[1] < Mid(t) /\ Mid(t) < t[2]
      /\ s[1] \in Nat /\ s[2] \in Nat /\ t[1] \in Nat /\ t[2] \in Nat
  BY MidFacts, SectionFacts
<1>2. CASE Apart(s, t)
  BY <1>1, <1>2 DEF Apart
<1>3. CASE Below(s, t)
  <2>1. PICK half \in Halves(t) : Within(s, half)
    BY <1>3 DEF Below
  <2> QED BY <1>1, <2>1, HalfFacts DEF Within
<1>4. CASE Below(t, s)
  <2>1. PICK half \in Halves(s) : Within(t, half)
    BY <1>4 DEF Below
  <2> QED BY <1>1, <2>1, HalfFacts DEF Within
<1> QED BY <1>2, <1>3, <1>4 DEF TreeInv, Tree

LEMMA WeightStep == TreeInv /\ WeightInv /\ [Next]_vars => WeightInv'
<1> SUFFICES ASSUME TreeInv, WeightInv, [Next]_vars PROVE WeightInv'
  OBVIOUS
<1>1. /\ status \in [Sections -> Status] /\ weights \in [Points -> Nat]
      /\ original \in [Points -> Nat]
      /\ \A p \in Points : 2 * (original[p] \div 2) = original[p]
  BY DEF TreeInv, TasksType
<1>2. ASSUME \A s \in Sections : status'[s] = "waiting" <=> status[s] = "waiting",
             UNCHANGED <<original, weights>>
      PROVE  WeightInv'
  BY <1>2 DEF WeightInv, WaitingIsLarge, Halved, Divided
<1>3. ASSUME NEW s \in Sections, Divide(s) PROVE WeightInv'
  <2>1. /\ Size(s) > WorkSize /\ status[s] = "called" /\ Mid(s) \in Points /\ s \notin Halves(s)
        /\ \A half \in Halves(s) : status[half] = "absent"
    BY <1>3, MidFacts, HalfFacts, DivideTree DEF Divide
  <2>2. \A t \in Sections : status'[t] = "waiting" <=> t = s \/ status[t] = "waiting"
    BY <1>3, <2>1 DEF Divide
  <2>3. original' = original /\ weights' = [weights EXCEPT ![Mid(s)] = @ \div 2]
    BY <1>3 DEF Divide
  <2>4. ~Divided(Mid(s))
    BY <2>1, MidsDiffer DEF Divided, WeightInv, WaitingIsLarge, Present
  <2>5. \A p : Divided(p)' <=> Divided(p) \/ p = Mid(s)
    BY <2>2 DEF Divided
  <2>6. WaitingIsLarge'
    BY <2>1, <2>2 DEF WeightInv, WaitingIsLarge
  <2>7. Halved'
    BY <1>1, <2>1, <2>3, <2>4, <2>5 DEF WeightInv, Halved
  <2> QED BY <2>6, <2>7 DEF WeightInv
<1>4. ASSUME NEW s \in Sections, Join(s) PROVE WeightInv'
  <2>1. /\ status[s] = "waiting" /\ Size(s) > WorkSize /\ Mid(s) \in Points
        /\ status' = [status EXCEPT ![s] = "computed"]
    BY <1>4, MidFacts DEF Join, WeightInv, WaitingIsLarge
  <2>2. original' = original /\ weights' = [weights EXCEPT ![Mid(s)] = 2 * @]
    BY <1>4 DEF Join
  <2>3. \A t \in Sections : status'[t] = "waiting" <=> t # s /\ status[t] = "waiting"
    BY <1>1, <2>1
  <2>4. Divided(Mid(s))
    BY <2>1 DEF Divided
  <2>5. \A t \in Sections : t # s /\ status[t] = "waiting" => Mid(t) # Mid(s)
    BY <2>1, MidsDiffer DEF WeightInv, WaitingIsLarge, Present
  <2>6. \A p : Divided(p)' <=> Divided(p) /\ p # Mid(s)
    BY <2>3, <2>5 DEF Divided
  <2>7. WaitingIsLarge'
    BY <2>3 DEF WeightInv, WaitingIsLarge
  <2>8. Halved'
    BY <1>1, <2>1, <2>2, <2>4, <2>6 DEF WeightInv, Halved
  <2> QED BY <2>7, <2>8 DEF WeightInv
<1>5. ASSUME NEW s \in Sections, Start(s) \/ Finish(s) PROVE WeightInv'
  BY <1>1, <1>2, <1>5 DEF Start, Finish
<1>6. ASSUME NEW s \in Sections, NEW half \in Halves(s) \cap Sections, Merge(s, half)
      PROVE  WeightInv'
  BY <1>1, <1>2, <1>6 DEF Merge
<1>7. CASE BuildBlocks
  BY <1>1, <1>2, <1>7 DEF BuildBlocks
<1>8. CASE UNCHANGED vars
  BY <1>2, <1>8 DEF vars
<1> QED BY <1>3, <1>4, <1>5, <1>6, <1>7, <1>8 DEF Next, Finished

LEMMA InitialTree == Init => TreeInv /\ WeightInv
<1> SUFFICES ASSUME Init PROVE TreeInv /\ WeightInv
  OBVIOUS
<1>1. PICK count \in Counts : original = [p \in Points |-> 2 * count[p]]
  BY DEF Init
<1>2. count \in [Points -> Nat]
  BY SampleAssumption
<1>3. \A n \in Nat : 2 * n \in Nat /\ 2 * ((2 * n) \div 2) = 2 * n
  OBVIOUS
<1>4. TasksType
  BY <1>1, <1>2, <1>3 DEF TasksType, Init, Status
<1>5. \A s : Present(s) => s = Root /\ Whole(s) /\ ~Ended(s) /\ status[s] # "waiting"
  BY DEF Init, Present, Whole, Ended
<1>6. TreeInv
  BY <1>4, <1>5 DEF TreeInv, Tree, Wide, Closed
<1>7. \A s \in Sections : status[s] # "waiting"
  BY <1>5 DEF Present
<1>8. WeightInv
  BY <1>7 DEF WeightInv, WaitingIsLarge, Halved, Divided, Init
<1> QED BY <1>6, <1>8

LEMMA TreeInvariant == Spec => [](TreeInv /\ WeightInv)
<1>1. TreeInv /\ WeightInv /\ [Next]_vars => (TreeInv /\ WeightInv)'
  BY TreeStep, WeightStep DEF WeightInv
<1> QED BY <1>1, InitialTree, PTL DEF Spec

-----------------------------------------------------------------------------
(* A weight changes only where no task is working: at the point that a     *)
(* call divides at, before its tasks exist, and again after both are done. *)
THEOREM StableWeights == Spec => WeightsAreStable
<1> DEFINE Stable ==
      \A s \in Sections : status[s] = "working" => \A p \in s[1] .. s[2] : weights'[p] = weights[p]
<1>1. ASSUME TreeInv, WeightInv, [Next]_vars PROVE [Stable]_vars
  <2>1. weights \in [Points -> Nat]
    BY <1>1 DEF TreeInv, TasksType
  <2>2. ASSUME NEW s \in Sections, Size(s) > WorkSize,
               weights' = [weights EXCEPT ![Mid(s)] = weights'[Mid(s)]],
               \A w \in Sections : status[w] = "working" => w # s /\ (Apart(w, s))
        PROVE  Stable
    <3> SUFFICES ASSUME NEW w \in Sections, status[w] = "working", NEW p \in w[1] .. w[2]
                 PROVE  weights'[p] = weights[p]
      OBVIOUS
    <3>1. p \in Points /\ p # Mid(s)
      BY <2>2, SectionFacts, MidFacts DEF Apart
    <3> QED BY <2>1, <2>2, <3>1
  <2>3. ASSUME NEW s \in Sections, Divide(s) PROVE Stable
    <3>1. /\ Size(s) > WorkSize /\ status[s] = "called" /\ Present(s) /\ Whole(s)
          /\ weights' = [weights EXCEPT ![Mid(s)] = weights'[Mid(s)]]
      BY <2>1, <2>3, MidFacts DEF Divide, Present, Whole
    <3>2. ASSUME NEW w \in Sections, status[w] = "working" PROVE w # s /\ Apart(w, s)
      BY <1>1, <3>1, <3>2 DEF TreeInv, Tree, Below, Present, Whole
    <3> QED BY <2>2, <3>1, <3>2
  <2>4. ASSUME NEW s \in Sections, Join(s) PROVE Stable
    <3>1. /\ status[s] = "waiting" /\ Size(s) > WorkSize /\ Present(s)
          /\ \A half \in Halves(s) : status[half] = "merged"
      BY <1>1, <2>4 DEF Join, WeightInv, WaitingIsLarge, Present
    <3>2. weights' = [weights EXCEPT ![Mid(s)] = weights'[Mid(s)]]
      BY <2>1, <2>4, <3>1, MidFacts DEF Join
    <3>3. ASSUME NEW w \in Sections, status[w] = "working" PROVE w # s /\ Apart(w, s)
      <4>1. Present(w) /\ Whole(w) /\ w # s
        BY <3>1, <3>3 DEF Present, Whole
      <4>2. ~Below(w, s)
        BY <1>1, <3>1, <3>3, <4>1, JoinIsLast DEF WeightInv
      <4> QED BY <1>1, <3>1, <4>1, <4>2, WholeIsAlone
    <3> QED BY <2>2, <3>1, <3>2, <3>3
  <2>5. CASE UNCHANGED weights
    BY <2>5
  <2> QED BY <1>1, <2>3, <2>4, <2>5 DEF Next, Start, Finish, Merge, BuildBlocks, Finished, vars
<1>2. TreeInv /\ WeightInv /\ [Next]_vars => [Stable]_vars
  BY <1>1
<1> QED BY <1>2, TreeInvariant, PTL DEF Spec, WeightsAreStable

LEMMA RootRestored ==
  ASSUME TreeInv, WeightInv, status[Root] \in {"computed", "merged"}
  PROVE  weights = original
<1>1. weights \in [Points -> Nat] /\ original \in [Points -> Nat]
  BY DEF TreeInv, TasksType
<1>2. Root \in Sections /\ \A s \in Sections : Within(s, Root)
  BY SampleFacts, SectionFacts DEF Root, Sections, Points, Within
<1>3. \A s \in Sections : status[s] # "waiting"
  BY <1>2 DEF TreeInv, Closed, Present, Ended
<1>4. \A p \in Points : weights[p] = original[p]
  BY <1>3 DEF WeightInv, Halved, Divided
<1> QED BY <1>1, <1>4

(* When the call for the whole sample has ended, every weight has been     *)
(* restored: the counts of the blocks are those of the events.             *)
WeightsAreRestored == status[Root] \in {"computed", "merged"} => weights = original

THEOREM RestoredWeights == Spec => []WeightsAreRestored
<1>1. TreeInv /\ WeightInv => WeightsAreRestored
  BY RootRestored DEF WeightsAreRestored
<1> QED BY <1>1, TreeInvariant, PTL

-----------------------------------------------------------------------------
(* Induction over numbers, from the well-foundedness of the finite sets    *)
(* under strict inclusion: a claim is the set of the numbers it holds for. *)

(* A set of naturals has a least element. *)
LEMMA Least ==
  ASSUME NEW T \in SUBSET Nat, T # {}
  PROVE  \E m \in T : \A k \in T : m <= k
<1> DEFINE U == {0 .. n : n \in T}
<1>1. ASSUME NEW n \in Nat PROVE 0 .. n \in FiniteSubsetsOf(Nat)
  <2>1. IsFiniteSet(0 .. n) /\ 0 .. n \subseteq Nat
    BY FS_Interval
  <2> QED BY <2>1 DEF FiniteSubsetsOf
<1>2. U \subseteq FiniteSubsetsOf(Nat) /\ U # {}
  BY <1>1
<1>3. PICK u \in U : \A v \in U : <<v, u>> \notin StrictSubsetOrdering(Nat)
  <2> HIDE DEF U
  <2> QED BY <1>2, WFMin, FS_StrictSubsetOrderingWellFounded
<1>4. PICK m \in T : u = 0 .. m
  OBVIOUS
<1>5. ASSUME NEW k \in T, k < m PROVE FALSE
  <2>1. (0 .. k) \in U /\ (0 .. k) \subseteq 0 .. m /\ m \notin 0 .. k /\ 0 .. m \subseteq Nat
    BY <1>5
  <2>2. <<0 .. k, 0 .. m>> \in StrictSubsetOrdering(Nat)
    <3>1. 0 .. k \in SUBSET Nat /\ 0 .. m \in SUBSET Nat /\ 0 .. k # 0 .. m
      BY <2>1
    <3> QED BY <2>1, <3>1 DEF StrictSubsetOrdering
  <2> QED BY <1>3, <1>4, <2>1, <2>2
<1> QED BY <1>5

(* Induction, with the set of the numbers for which the claim holds. *)
LEMMA Induction ==
  ASSUME NEW n \in Nat, NEW T, 0 \in T, \A k \in 1 .. n : 0 .. k - 1 \subseteq T => k \in T
  PROVE  0 .. n \subseteq T
<1> DEFINE Bad == 0 .. n \ T
<1> SUFFICES ASSUME Bad # {} PROVE FALSE
  OBVIOUS
<1>1. PICK m \in Bad : \A k \in Bad : m <= k
  <2>1. Bad \in SUBSET Nat
    OBVIOUS
  <2> HIDE DEF Bad
  <2> QED BY <2>1, Least
<1>2. m \in 1 .. n /\ 0 .. m - 1 \subseteq T
  BY <1>1
<1> QED BY <1>1, <1>2

(* A sequence that is built element by element, with element k computed    *)
(* from the first k - 1. *)
BuiltFrom(seq, elt, n) ==
  n \in Nat /\ seq[0] = <<>> /\ \A k \in 1 .. n : seq[k] = Append(seq[k - 1], elt[k])

LEMMA BuiltSequence ==
  ASSUME NEW n, NEW elt, NEW seq, BuiltFrom(seq, elt, n)
  PROVE  \A k \in 0 .. n : seq[k] = [i \in 1 .. k |-> elt[i]]
<1> DEFINE V == {elt[i] : i \in 1 .. n}
           First(k) == [i \in 1 .. k |-> elt[i]]
           T == {k \in 0 .. n : seq[k] = First(k)}
<1>0. n \in Nat /\ seq[0] = <<>> /\ \A k \in 1 .. n : seq[k] = Append(seq[k - 1], elt[k])
  BY DEF BuiltFrom
<1>1. 0 \in T
  BY <1>0
<1>2. ASSUME NEW k \in 1 .. n PROVE Append(First(k - 1), elt[k]) = First(k)
  <2>1. k - 1 \in Nat /\ elt[k] \in V /\ \A i \in 1 .. k - 1 : elt[i] \in V
    BY <1>0
  <2>2. First(k - 1) \in Seq(V) /\ Len(First(k - 1)) = k - 1
    <3> HIDE DEF V
    <3> QED BY <2>1
  <2> HIDE DEF V
  <2> QED BY <2>1, <2>2
<1>3. ASSUME NEW k \in 1 .. n, 0 .. k - 1 \subseteq T PROVE k \in T
  <2>1. k - 1 \in 0 .. k - 1 /\ k \in 0 .. n /\ k # 0
    BY <1>0
  <2>2. seq[k] = Append(seq[k - 1], elt[k])
    BY <1>0
  <2>3. seq[k - 1] = First(k - 1)
    BY <1>3, <2>1
  <2> HIDE DEF First
  <2> QED BY <1>2, <2>1, <2>2, <2>3
<1>4. 0 .. n \subseteq T
  <2> HIDE DEF T
  <2> QED BY <1>0, <1>1, <1>3, Induction
<1> QED BY <1>4

(* Sums. *)
Added(x, sums, k) == x[k] + (IF k = 1 THEN 0 ELSE sums[k - 1])
IsCumSum(x, n, s) ==
  s = [k \in 0 .. n |-> IF k = 0 THEN <<>> ELSE Append(s[k - 1], Added(x, s[k - 1], k))]

LEMMA CumSumExists ==
  ASSUME NEW n \in Nat, NEW x
  PROVE  \E s : IsCumSum(x, n, s)
<1> DEFINE T == {k \in 0 .. n : \E s : IsCumSum(x, k, s)}
<1>1. 0 \in T
  <2>1. IsCumSum(x, 0, [k \in 0 .. 0 |-> <<>>])
    BY DEF IsCumSum
  <2> QED BY <2>1
<1>2. ASSUME NEW k \in 1 .. n, 0 .. k - 1 \subseteq T PROVE k \in T
  <2>1. PICK s : IsCumSum(x, k - 1, s)
    <3>1. k - 1 \in 0 .. k - 1
      OBVIOUS
    <3> QED BY <1>2, <3>1
  <2> DEFINE t == [j \in 0 .. k |-> IF j < k THEN s[j] ELSE Append(s[k - 1], Added(x, s[k - 1], k))]
  <2>2. IsCumSum(x, k, t)
    <3>1. ASSUME NEW j \in 0 .. k
          PROVE  t[j] = IF j = 0 THEN <<>> ELSE Append(t[j - 1], Added(x, t[j - 1], j))
      <4>1. CASE j = 0
        BY <2>1, <4>1 DEF IsCumSum
      <4>2. CASE j \in 1 .. k - 1
        <5>1. j \in 0 .. k - 1 /\ j - 1 \in 0 .. k - 1 /\ j # 0
          BY <4>2
        <5>2. s[j] = Append(s[j - 1], Added(x, s[j - 1], j))
          BY <2>1, <5>1 DEF IsCumSum
        <5> QED BY <5>1, <5>2
      <4>3. CASE j = k
        BY <4>3
      <4> QED BY <4>1, <4>2, <4>3
    <3> HIDE DEF t
    <3>2. t = [j \in 0 .. k |-> t[j]]
      BY DEF t
    <3> QED BY <3>1, <3>2 DEF IsCumSum
  <2> QED BY <2>2
<1>3. 0 .. n \subseteq T
  <2> HIDE DEF T
  <2> QED BY <1>1, <1>2, Induction
<1> QED BY <1>3

LEMMA CumSumIs ==
  ASSUME NEW x \in Seq(Int)
  PROVE  /\ CumSum(x) \in Seq(Int) /\ Len(CumSum(x)) = Len(x)
         /\ \A k \in 1 .. Len(x) :
              CumSum(x)[k] = x[k] + (IF k = 1 THEN 0 ELSE CumSum(x)[k - 1])
<1> DEFINE n == Len(x)
<1>0. n \in Nat
  OBVIOUS
<1>1. PICK s : IsCumSum(x, n, s) /\ CumSum(x) = s[n]
  <2> DEFINE s == CHOOSE s : IsCumSum(x, n, s)
  <2>1. CumSum(x) = s[n]
    BY DEF CumSum, Built, IsCumSum, Added
  <2>2. IsCumSum(x, n, s)
    BY <1>0, CumSumExists
  <2> QED BY <2>1, <2>2
<1> DEFINE elt == [k \in 1 .. n |-> Added(x, s[k - 1], k)]
<1>2. \A k \in 0 .. n : s[k] = [i \in 1 .. k |-> elt[i]]
  <2>1. s[0] = <<>>
    BY <1>0, <1>1 DEF IsCumSum
  <2>2. ASSUME NEW k \in 1 .. n PROVE s[k] = Append(s[k - 1], elt[k])
    <3>1. k \in 0 .. n /\ k # 0
      BY <1>0
    <3> QED BY <1>1, <3>1 DEF IsCumSum
  <2> HIDE DEF elt
  <2>3. BuiltFrom(s, elt, n)
    BY <1>0, <2>1, <2>2 DEF BuiltFrom
  <2> HIDE DEF n
  <2> QED BY <2>3, BuiltSequence
<1>3. CumSum(x) = [i \in 1 .. n |-> elt[i]]
  <2> HIDE DEF elt
  <2> QED BY <1>0, <1>1, <1>2
<1>4. ASSUME NEW k \in 1 .. n PROVE elt[k] = x[k] + (IF k = 1 THEN 0 ELSE elt[k - 1])
  <2>1. elt[k] = Added(x, s[k - 1], k)
    OBVIOUS
  <2>2. k # 1 => k - 1 \in 0 .. n /\ k - 1 \in 1 .. k - 1
    BY <1>0
  <2> HIDE DEF elt
  <2>3. k # 1 => s[k - 1][k - 1] = elt[k - 1]
    BY <1>2, <2>2
  <2> QED BY <2>1, <2>3 DEF Added
<1> HIDE DEF elt
<1> DEFINE T == {k \in 0 .. n : k > 0 => elt[k] \in Int}
<1>5. 0 .. n \subseteq T
  <2>1. 0 \in T
    OBVIOUS
  <2>2. ASSUME NEW k \in 1 .. n, 0 .. k - 1 \subseteq T PROVE k \in T
    <3>1. x[k] \in Int /\ k - 1 \in 0 .. k - 1 /\ k \in 0 .. n
      BY <1>0
    <3>2. k # 1 => elt[k - 1] \in Int
      BY <2>2, <3>1
    <3> QED BY <1>4, <3>1, <3>2
  <2> HIDE DEF T
  <2> QED BY <1>0, <2>1, <2>2, Induction
<1>6. \A k \in 1 .. n : elt[k] \in Int
  BY <1>5
<1> QED BY <1>3, <1>4, <1>6

-----------------------------------------------------------------------------
(* Sums.                                                                   *)

(* The sum of the first k elements. *)
Upto(x, k) == IF k = 0 THEN 0 ELSE CumSum(x)[k]

LEMMA UptoIs ==
  ASSUME NEW x \in Seq(Int)
  PROVE  /\ Upto(x, 0) = 0 /\ Total(x) = Upto(x, Len(x))
         /\ \A k \in 0 .. Len(x) : Upto(x, k) \in Int
         /\ \A k \in 1 .. Len(x) : Upto(x, k) = Upto(x, k - 1) + x[k]
<1>1. /\ CumSum(x) \in Seq(Int) /\ Len(CumSum(x)) = Len(x)
      /\ \A k \in 1 .. Len(x) :
           CumSum(x)[k] = x[k] + (IF k = 1 THEN 0 ELSE CumSum(x)[k - 1])
  BY CumSumIs
<1>2. Len(x) \in Nat /\ \A k \in 1 .. Len(x) : x[k] \in Int /\ CumSum(x)[k] \in Int
  BY <1>1
<1>3. Total(x) = Upto(x, Len(x))
  BY <1>2 DEF Total, Upto
<1>4. ASSUME NEW k \in 1 .. Len(x) PROVE Upto(x, k) = Upto(x, k - 1) + x[k]
  <2>1. k # 0 /\ (k = 1 <=> k - 1 = 0)
    OBVIOUS
  <2> QED BY <1>1, <1>2, <1>4, <2>1 DEF Upto
<1> QED BY <1>2, <1>3, <1>4 DEF Upto

(* What is in a sequence. *)
LEMMA ElementsOf ==
  ASSUME NEW S, NEW x \in Seq(S)
  PROVE  Len(x) \in Nat /\ \A i \in 1 .. Len(x) : x[i] \in S
OBVIOUS

LEMMA UptoGrows ==
  ASSUME NEW x \in Seq(Nat)
  PROVE  /\ \A k \in 0 .. Len(x) : Upto(x, k) \in Nat
         /\ \A i, j \in 0 .. Len(x) : i <= j => Upto(x, i) <= Upto(x, j)
         /\ Total(x) \in Nat
<1>1. x \in Seq(Int) /\ Len(x) \in Nat /\ \A k \in 1 .. Len(x) : x[k] \in Nat
  BY ElementsOf
<1>2. /\ Upto(x, 0) = 0 /\ Total(x) = Upto(x, Len(x))
      /\ \A k \in 1 .. Len(x) : Upto(x, k) = Upto(x, k - 1) + x[k]
  BY <1>1, UptoIs
<1> DEFINE T == {k \in 0 .. Len(x) :
                   Upto(x, k) \in Nat /\ \A i \in 0 .. k : Upto(x, i) <= Upto(x, k)}
<1>3. 0 \in T
  BY <1>1, <1>2
<1>4. ASSUME NEW k \in 1 .. Len(x), 0 .. k - 1 \subseteq T PROVE k \in T
  <2>1. k - 1 \in 0 .. k - 1 /\ k \in 0 .. Len(x)
    BY <1>1
  <2>2. Upto(x, k) = Upto(x, k - 1) + x[k] /\ x[k] \in Nat
    BY <1>1, <1>2
  <2>3. /\ Upto(x, k - 1) \in Nat
        /\ \A i \in 0 .. k - 1 : Upto(x, i) \in Nat /\ Upto(x, i) <= Upto(x, k - 1)
    BY <1>4, <2>1
  <2>4. \A i \in 0 .. k : i = k \/ i \in 0 .. k - 1
    BY <1>1
  <2>5. Upto(x, k) \in Nat /\ Upto(x, k - 1) <= Upto(x, k)
    <3>1. \A p, q \in Nat : p + q \in Nat /\ p <= p + q
      OBVIOUS
    <3> QED BY <2>2, <2>3, <3>1
  <2>6. ASSUME NEW i \in 0 .. k PROVE Upto(x, i) <= Upto(x, k)
    <3>1. CASE i = k
      BY <2>5, <3>1
    <3>2. CASE i \in 0 .. k - 1
      <4>1. \A p, q, r \in Nat : p <= q /\ q <= r => p <= r
        OBVIOUS
      <4> QED BY <2>3, <2>5, <3>2, <4>1
    <3> QED BY <2>4, <3>1, <3>2
  <2> QED BY <2>1, <2>5, <2>6
<1>5. 0 .. Len(x) \subseteq T
  <2> HIDE DEF T
  <2> QED BY <1>1, <1>3, <1>4, Induction
<1>6. Len(x) \in 0 .. Len(x)
  BY <1>1
<1>7. ASSUME NEW k \in 0 .. Len(x)
      PROVE  Upto(x, k) \in Nat /\ \A i \in 0 .. k : Upto(x, i) <= Upto(x, k)
  BY <1>5
<1> HIDE DEF T
<1>8. \A i, j \in 0 .. Len(x) : i <= j => i \in 0 .. j
  BY <1>1
<1> QED BY <1>2, <1>6, <1>7, <1>8

(* A part of a sequence, and one that is below it. *)
LEMMA PartIsBelow ==
  ASSUME NEW w \in Seq(Nat), NEW x \in Seq(Nat), NEW a \in Nat, a + Len(w) <= Len(x),
         \A k \in 1 .. Len(w) : w[k] <= x[a + k]
  PROVE  Total(w) <= Total(x)
<1>0. /\ \A i \in 1 .. Len(w) : w[i] \in Nat /\ w[i] <= x[a + i]
      /\ \A i \in 1 .. Len(x) : x[i] \in Nat
  BY ElementsOf
<1>1. w \in Seq(Int) /\ x \in Seq(Int) /\ Len(w) \in Nat /\ Len(x) \in Nat
  OBVIOUS
<1>2. /\ Upto(w, 0) = 0 /\ Total(w) = Upto(w, Len(w)) /\ Total(x) = Upto(x, Len(x))
      /\ \A k \in 1 .. Len(w) : Upto(w, k) = Upto(w, k - 1) + w[k]
      /\ \A k \in 1 .. Len(x) : Upto(x, k) = Upto(x, k - 1) + x[k]
  BY <1>1, UptoIs
<1>3. /\ \A k \in 0 .. Len(w) : Upto(w, k) \in Nat
      /\ \A k \in 0 .. Len(x) : Upto(x, k) \in Nat
      /\ \A i, j \in 0 .. Len(x) : i <= j => Upto(x, i) <= Upto(x, j)
  BY UptoGrows
<1> DEFINE T == {k \in 0 .. Len(w) : Upto(w, k) <= Upto(x, a + k)}
<1>4. 0 \in T
  <2>1. 0 \in 0 .. Len(w) /\ a + 0 \in 0 .. Len(x)
    BY <1>1
  <2>2. Upto(x, a + 0) \in Nat
    BY <1>3, <2>1
  <2> QED BY <1>2, <2>1, <2>2
<1>5. ASSUME NEW k \in 1 .. Len(w), 0 .. k - 1 \subseteq T PROVE k \in T
  <2>1. /\ k - 1 \in 0 .. k - 1 /\ k \in 0 .. Len(w) /\ k - 1 \in 0 .. Len(w)
        /\ a + k \in 1 .. Len(x) /\ a + (k - 1) \in 0 .. Len(x) /\ (a + k) - 1 = a + (k - 1)
    <3> HIDE DEF T
    <3>1. /\ k \in Nat /\ k >= 1 /\ k <= Len(w) /\ k - 1 \in 0 .. k - 1
          /\ k \in 0 .. Len(w) /\ k - 1 \in 0 .. Len(w)
      BY <1>1
    <3>2. a + Len(w) <= Len(x) /\ Len(w) \in Nat /\ Len(x) \in Nat
      BY <1>1
    <3>3. (a + k) - 1 = a + (k - 1) /\ a + k \in Nat /\ a + k >= 1 /\ a + (k - 1) \in Nat
      BY <3>1
    <3>4. a + k <= Len(x) /\ a + (k - 1) <= Len(x)
      BY <3>1, <3>2
    <3> QED BY <3>1, <3>2, <3>3, <3>4
  <2>2. w[k] \in Nat /\ x[a + k] \in Nat /\ w[k] <= x[a + k]
    BY <1>0, <2>1
  <2>3. /\ Upto(w, k) = Upto(w, k - 1) + w[k]
        /\ Upto(x, a + k) = Upto(x, a + (k - 1)) + x[a + k]
    BY <1>2, <2>1
  <2>4. /\ Upto(w, k - 1) \in Nat /\ Upto(x, a + (k - 1)) \in Nat
        /\ Upto(w, k - 1) <= Upto(x, a + (k - 1))
    BY <1>3, <1>5, <2>1
  <2>5. Upto(w, k) <= Upto(x, a + k)
    <3>1. \A i, j, u, v \in Nat : i <= j /\ u <= v => i + u <= j + v
      OBVIOUS
    <3>2. Upto(w, k - 1) + w[k] <= Upto(x, a + (k - 1)) + x[a + k]
      BY <2>2, <2>4, <3>1
    <3> QED BY <2>3, <3>2
  <2> QED BY <2>1, <2>5
<1>6. 0 .. Len(w) \subseteq T
  <2> HIDE DEF T
  <2> QED BY <1>1, <1>4, <1>5, Induction
<1>7. /\ Len(w) \in 0 .. Len(w) /\ a + Len(w) \in 0 .. Len(x) /\ Len(x) \in 0 .. Len(x)
      /\ a + Len(w) <= Len(x)
  BY <1>1
<1>8. Upto(w, Len(w)) <= Upto(x, a + Len(w)) /\ Upto(x, a + Len(w)) <= Upto(x, Len(x))
  BY <1>3, <1>6, <1>7
<1>9. Upto(w, Len(w)) \in Nat /\ Upto(x, a + Len(w)) \in Nat /\ Upto(x, Len(x)) \in Nat
  BY <1>3, <1>7
<1> QED BY <1>2, <1>8, <1>9

LEMMA TotalOfOne ==
  ASSUME NEW n \in Nat, NEW i \in 1 .. n, NEW v \in Nat
  PROVE  Total([k \in 1 .. n |-> IF k = i THEN v ELSE 0]) = v
<1> DEFINE x == [k \in 1 .. n |-> IF k = i THEN v ELSE 0]
<1>1. x \in Seq(Int) /\ Len(x) = n /\ \A k \in 1 .. n : x[k] = IF k = i THEN v ELSE 0
  OBVIOUS
<1> HIDE DEF x
<1>2. /\ Upto(x, 0) = 0 /\ Total(x) = Upto(x, n)
      /\ \A k \in 1 .. n : Upto(x, k) = Upto(x, k - 1) + x[k]
  BY <1>1, UptoIs
<1> DEFINE T == {k \in 0 .. n : Upto(x, k) = IF k < i THEN 0 ELSE v}
<1>3. 0 \in T
  BY <1>2
<1>4. ASSUME NEW k \in 1 .. n, 0 .. k - 1 \subseteq T PROVE k \in T
  <2>1. k - 1 \in 0 .. k - 1 /\ k \in 0 .. n
    OBVIOUS
  <2>2. Upto(x, k - 1) = IF k - 1 < i THEN 0 ELSE v
    BY <1>4, <2>1
  <2>3. Upto(x, k) = Upto(x, k - 1) + (IF k = i THEN v ELSE 0)
    BY <1>1, <1>2
  <2> QED BY <2>1, <2>2, <2>3
<1>5. 0 .. n \subseteq T
  <2> HIDE DEF T
  <2> QED BY <1>3, <1>4, Induction
<1>6. n \in T
  BY <1>5
<1>7. Total(x) = v
  BY <1>2, <1>6
<1> QED BY <1>7 DEF x

-----------------------------------------------------------------------------
(* Least and greatest elements, and the bins of the points.               *)

LEMMA MinIs ==
  ASSUME NEW T \in SUBSET Nat, T # {}
  PROVE  Min(T) \in T /\ \A k \in T : Min(T) <= k
<1>1. \E m \in T : \A k \in T : m <= k
  BY Least
<1> QED BY <1>1 DEF Min

LEMMA MaxIs ==
  ASSUME NEW n \in Nat, NEW I \in SUBSET (1 .. n), I # {}, NEW f \in [I -> Int]
  PROVE  Max(Range(f)) \in Range(f) /\ \A i \in I : f[i] <= Max(Range(f))
<1> DEFINE T == {k \in 0 .. n : (\E i \in I : i <= k) =>
                   \E m \in I : \A i \in I : i <= k => f[i] <= f[m]}
<1>1. 0 \in T
  OBVIOUS
<1>2. ASSUME NEW k \in 1 .. n, 0 .. k - 1 \subseteq T PROVE k \in T
  <2>1. k - 1 \in 0 .. k - 1 /\ k \in 0 .. n /\ \A i \in I : i <= k <=> i = k \/ i <= k - 1
    OBVIOUS
  <2>2. (\E i \in I : i <= k - 1) => \E m \in I : \A i \in I : i <= k - 1 => f[i] <= f[m]
    BY <1>2, <2>1
  <2> SUFFICES ASSUME \E i \in I : i <= k PROVE \E m \in I : \A i \in I : i <= k => f[i] <= f[m]
    BY <2>1
  <2>3. CASE k \notin I
    BY <2>1, <2>2, <2>3
  <2>4. CASE k \in I /\ ~\E i \in I : i <= k - 1
    BY <2>1, <2>4
  <2>5. CASE k \in I /\ \E i \in I : i <= k - 1
    <3>1. PICK m \in I : \A i \in I : i <= k - 1 => f[i] <= f[m]
      BY <2>2, <2>5
    <3>2. \A i \in I : f[i] \in Int
      OBVIOUS
    <3>3. CASE f[k] <= f[m]
      BY <2>1, <3>1, <3>3
    <3>4. CASE f[m] <= f[k]
      BY <2>1, <2>5, <3>1, <3>2, <3>4
    <3> QED BY <2>5, <3>2, <3>3, <3>4
  <2> QED BY <2>3, <2>4, <2>5
<1>3. 0 .. n \subseteq T
  <2> HIDE DEF T
  <2> QED BY <1>1, <1>2, Induction
<1>4. n \in T
  <2>1. n \in 0 .. n
    OBVIOUS
  <2> HIDE DEF T
  <2> QED BY <1>3, <2>1
<1>5. PICK m \in I : \A i \in I : f[i] <= f[m]
  <2>1. \A i \in I : i <= n
    OBVIOUS
  <2>2. PICK i \in I : TRUE
    OBVIOUS
  <2>3. \E m \in I : \A j \in I : j <= n => f[j] <= f[m]
    BY <1>4, <2>1, <2>2
  <2> QED BY <2>1, <2>3
<1>6. f[m] \in Range(f) /\ \A y \in Range(f) : f[m] >= y
  BY <1>5 DEF Range
<1>7. Max(Range(f)) \in Range(f) /\ \A y \in Range(f) : Max(Range(f)) >= y
  BY <1>6 DEF Max
<1>8. \A i \in I : f[i] \in Range(f)
  BY DEF Range
<1>9. Range(f) \subseteq Int
  BY DEF Range
<1> QED BY <1>7, <1>8, <1>9

(* Bins. *)
BinAt(x, edges, bins, k) == NextBin(edges, IF k = 1 THEN 1 ELSE bins[k - 1], x[k])
IsBins(x, edges, n, s) ==
  s = [k \in 0 .. n |-> IF k = 0 THEN <<>> ELSE Append(s[k - 1], BinAt(x, edges, s[k - 1], k))]

LEMMA BinsExist ==
  ASSUME NEW n \in Nat, NEW x, NEW edges
  PROVE  \E s : IsBins(x, edges, n, s)
<1> DEFINE T == {k \in 0 .. n : \E s : IsBins(x, edges, k, s)}
<1>1. 0 \in T
  <2>1. IsBins(x, edges, 0, [k \in 0 .. 0 |-> <<>>])
    BY DEF IsBins
  <2> QED BY <2>1
<1>2. ASSUME NEW k \in 1 .. n, 0 .. k - 1 \subseteq T PROVE k \in T
  <2>1. PICK s : IsBins(x, edges, k - 1, s)
    <3>1. k - 1 \in 0 .. k - 1
      OBVIOUS
    <3> QED BY <1>2, <3>1
  <2> DEFINE t == [j \in 0 .. k |->
                     IF j < k THEN s[j] ELSE Append(s[k - 1], BinAt(x, edges, s[k - 1], k))]
  <2>2. IsBins(x, edges, k, t)
    <3>1. ASSUME NEW j \in 0 .. k
          PROVE  t[j] = IF j = 0 THEN <<>> ELSE Append(t[j - 1], BinAt(x, edges, t[j - 1], j))
      <4>1. CASE j = 0
        BY <2>1, <4>1 DEF IsBins
      <4>2. CASE j \in 1 .. k - 1
        <5>1. j \in 0 .. k - 1 /\ j - 1 \in 0 .. k - 1 /\ j # 0
          BY <4>2
        <5>2. s[j] = Append(s[j - 1], BinAt(x, edges, s[j - 1], j))
          BY <2>1, <5>1 DEF IsBins
        <5> QED BY <5>1, <5>2
      <4>3. CASE j = k
        BY <4>3
      <4> QED BY <4>1, <4>2, <4>3
    <3> HIDE DEF t
    <3>2. t = [j \in 0 .. k |-> t[j]]
      BY DEF t
    <3> QED BY <3>1, <3>2 DEF IsBins
  <2> QED BY <2>2
<1>3. 0 .. n \subseteq T
  <2> HIDE DEF T
  <2> QED BY <1>1, <1>2, Induction
<1> QED BY <1>3

LEMMA BinsAre ==
  ASSUME NEW x, NEW edges, Len(x) \in Nat
  PROVE  /\ Bins(x, edges) = [k \in 1 .. Len(x) |-> Bins(x, edges)[k]]
         /\ \A k \in 1 .. Len(x) :
              Bins(x, edges)[k] = NextBin(edges, IF k = 1 THEN 1 ELSE Bins(x, edges)[k - 1], x[k])
<1> DEFINE n == Len(x)
<1>1. PICK s : IsBins(x, edges, n, s) /\ Bins(x, edges) = s[n]
  <2> DEFINE s == CHOOSE s : IsBins(x, edges, n, s)
  <2>1. Bins(x, edges) = s[n]
    BY DEF Bins, Built, IsBins, BinAt
  <2>2. IsBins(x, edges, n, s)
    BY BinsExist
  <2> QED BY <2>1, <2>2
<1> DEFINE elt == [k \in 1 .. n |-> BinAt(x, edges, s[k - 1], k)]
<1>2. \A k \in 0 .. n : s[k] = [i \in 1 .. k |-> elt[i]]
  <2>1. s[0] = <<>>
    BY <1>1 DEF IsBins
  <2>2. ASSUME NEW k \in 1 .. n PROVE s[k] = Append(s[k - 1], elt[k])
    <3>1. k \in 0 .. n /\ k # 0
      OBVIOUS
    <3> QED BY <1>1, <3>1 DEF IsBins
  <2> HIDE DEF elt
  <2>3. BuiltFrom(s, elt, n)
    BY <2>1, <2>2 DEF BuiltFrom
  <2> HIDE DEF n
  <2> QED BY <2>3, BuiltSequence
<1>3. Bins(x, edges) = [i \in 1 .. n |-> elt[i]]
  <2> HIDE DEF elt
  <2> QED BY <1>1, <1>2
<1>4. ASSUME NEW k \in 1 .. n PROVE elt[k] = NextBin(edges, IF k = 1 THEN 1 ELSE elt[k - 1], x[k])
  <2>1. elt[k] = BinAt(x, edges, s[k - 1], k)
    OBVIOUS
  <2>2. k # 1 => k - 1 \in 0 .. n /\ k - 1 \in 1 .. k - 1
    OBVIOUS
  <2> HIDE DEF elt
  <2>3. k # 1 => s[k - 1][k - 1] = elt[k - 1]
    BY <1>2, <2>2
  <2> QED BY <2>1, <2>3 DEF BinAt
<1> HIDE DEF elt
<1>5. \A k \in 1 .. n : Bins(x, edges)[k] = elt[k] /\ (k # 1 => k - 1 \in 1 .. n)
  BY <1>3
<1>6. ASSUME NEW k \in 1 .. n
      PROVE  Bins(x, edges)[k] = NextBin(edges, IF k = 1 THEN 1 ELSE Bins(x, edges)[k - 1], x[k])
  <2>1. k # 1 => Bins(x, edges)[k - 1] = elt[k - 1]
    BY <1>5
  <2> QED BY <1>4, <1>5, <2>1
<1>7. Bins(x, edges) = [k \in 1 .. n |-> Bins(x, edges)[k]]
  BY <1>3
<1> QED BY <1>6, <1>7

LEMMA NextBinIs ==
  ASSUME NEW edges, Len(edges) \in Nat, NEW bin \in 1 .. Len(edges) - 1, NEW v
  PROVE  LET j == NextBin(edges, bin, v)
         IN  /\ j \in bin .. Len(edges) - 1
             /\ j = Len(edges) - 1 \/ (edges[j] <= v /\ v <= edges[j + 1])
             /\ \A i \in bin .. j - 1 : ~(edges[i] <= v /\ v <= edges[i + 1])
<1> DEFINE last == Len(edges) - 1
           T == {i \in bin .. last : i = last \/ (edges[i] <= v /\ v <= edges[i + 1])}
           m == Min(T)
<1>1. NextBin(edges, bin, v) = m
  BY DEF NextBin
<1>2. T \in SUBSET Nat /\ last \in T
  OBVIOUS
<1>3. m \in T /\ \A k \in T : m <= k
  <2> HIDE DEF T
  <2> QED BY <1>2, MinIs
<1>4. ASSUME NEW i \in bin .. m - 1 PROVE ~(edges[i] <= v /\ v <= edges[i + 1])
  <2>1. i \in bin .. last /\ i \notin T
    BY <1>3
  <2> QED BY <2>1
<1> HIDE DEF m, last
<1>5. m \in bin .. last /\ (m = last \/ (edges[m] <= v /\ v <= edges[m + 1]))
  BY <1>3
<1> QED BY <1>1, <1>4, <1>5 DEF last

-----------------------------------------------------------------------------
(* The edges between the points of a section: each point is in its own bin. *)

(* Increasing by two at least: the midpoints are strictly between. *)
Spaced(x) ==
  /\ x \in Seq(Nat) /\ Len(x) \in Nat \ {0}
  /\ \A i, j \in 1 .. Len(x) : i < j => x[i] + 2 <= x[j]

LEMMA EdgesOfIs ==
  ASSUME NEW x, Spaced(x)
  PROVE  LET e == EdgesOf(x)
         IN  /\ e \in Seq(Nat) /\ Len(e) = Len(x) + 1
             /\ e[1] = x[1] /\ e[Len(x) + 1] = x[Len(x)]
             /\ \A k \in 2 .. Len(x) : e[k] = (x[k - 1] + x[k]) \div 2
<1> DEFINE n == Len(x)
           mids == [i \in 1 .. n - 1 |-> (x[i] + x[i + 1]) \div 2]
<1>1. n \in Nat \ {0} /\ \A i \in 1 .. n : x[i] \in Nat
  BY DEF Spaced
<1>2. \A p, q \in Nat : (p + q) \div 2 \in Nat
  OBVIOUS
<1>3. /\ mids \in Seq(Nat) /\ Len(mids) = n - 1
      /\ \A i \in 1 .. n - 1 : mids[i] = (x[i] + x[i + 1]) \div 2
  <2>1. \A i \in 1 .. n - 1 : x[i] \in Nat /\ x[i + 1] \in Nat
    BY <1>1
  <2>2. \A i \in 1 .. n - 1 : (x[i] + x[i + 1]) \div 2 \in Nat
    BY <1>2, <2>1
  <2> HIDE DEF n
  <2>3. mids \in [1 .. n - 1 -> Nat] /\ n - 1 \in Nat
    BY <1>1, <2>2
  <2> QED BY <2>3
<1>4. EdgesOf(x) = <<x[1]>> \o mids \o <<x[n]>>
  BY DEF EdgesOf
<1>5. <<x[1]>> \in Seq(Nat) /\ <<x[n]>> \in Seq(Nat)
  BY <1>1
<1> HIDE DEF mids, n
<1>6. /\ <<x[1]>> \o mids \in Seq(Nat) /\ Len(<<x[1]>> \o mids) = n
      /\ (<<x[1]>> \o mids)[1] = x[1]
      /\ \A k \in 2 .. n : (<<x[1]>> \o mids)[k] = mids[k - 1]
  BY <1>1, <1>3, <1>5
<1>7. /\ EdgesOf(x) \in Seq(Nat) /\ Len(EdgesOf(x)) = n + 1
      /\ \A k \in 1 .. n : EdgesOf(x)[k] = (<<x[1]>> \o mids)[k]
      /\ EdgesOf(x)[n + 1] = x[n]
  <2> DEFINE front == <<x[1]>> \o mids
  <2> HIDE DEF front
  <2>1. front \in Seq(Nat) /\ Len(front) = n
    BY <1>6 DEF front
  <2>2. EdgesOf(x) = front \o <<x[n]>>
    BY <1>4 DEF front
  <2>3. \A k \in 1 .. n : EdgesOf(x)[k] = front[k]
    BY <1>1, <1>5, <2>1, <2>2
  <2> QED BY <1>1, <1>5, <2>1, <2>2, <2>3 DEF front
<1>8. ASSUME NEW k \in 2 .. n PROVE EdgesOf(x)[k] = (x[k - 1] + x[k]) \div 2
  <2>1. k - 1 \in 1 .. n - 1 /\ k \in 1 .. n /\ (k - 1) + 1 = k
    BY <1>1
  <2>2. EdgesOf(x)[k] = mids[k - 1]
    BY <1>6, <1>7, <2>1
  <2> QED BY <1>3, <2>1, <2>2
<1>9. EdgesOf(x)[1] = x[1]
  BY <1>1, <1>6, <1>7
<1> QED BY <1>7, <1>8, <1>9 DEF n

(* Every value is between two edges. *)
LEMMA Between ==
  ASSUME NEW x, Spaced(x)
  PROVE  LET e == EdgesOf(x)
         IN  /\ e \in Seq(Nat) /\ Len(e) = Len(x) + 1 /\ Len(x) \in Nat \ {0}
             /\ e[1] = x[1] /\ e[Len(x) + 1] = x[Len(x)]
             /\ \A k \in 1 .. Len(x) : /\ x[k] \in Nat /\ e[k] \in Nat /\ e[k + 1] \in Nat
                                       /\ e[k] <= x[k] /\ x[k] <= e[k + 1]
             /\ \A k \in 2 .. Len(x) : e[k] < x[k] /\ x[k - 1] < e[k]
<1> DEFINE n == Len(x)
           e == EdgesOf(x)
<1>1. /\ e \in Seq(Nat) /\ Len(e) = n + 1 /\ e[1] = x[1] /\ e[n + 1] = x[n]
      /\ \A k \in 2 .. n : e[k] = (x[k - 1] + x[k]) \div 2
  BY EdgesOfIs
<1>2. n \in Nat \ {0} /\ \A k \in 1 .. n : x[k] \in Nat
  BY DEF Spaced
<1> HIDE DEF e
<1>3. ASSUME NEW k \in 2 .. n PROVE e[k] < x[k] /\ x[k - 1] < e[k]
  <2>1. k - 1 \in 1 .. n /\ k \in 1 .. n /\ k - 1 < k
    BY <1>2
  <2>2. x[k - 1] + 2 <= x[k] /\ x[k - 1] \in Nat /\ x[k] \in Nat
    BY <1>2, <2>1 DEF Spaced
  <2>3. \A p, q \in Nat : p + 2 <= q => p < (p + q) \div 2 /\ (p + q) \div 2 < q
    OBVIOUS
  <2> QED BY <1>1, <2>2, <2>3
<1>4. ASSUME NEW k \in 1 .. n
      PROVE  e[k] \in Nat /\ e[k + 1] \in Nat /\ e[k] <= x[k] /\ x[k] <= e[k + 1]
  <2>1. k \in 1 .. n + 1 /\ k + 1 \in 1 .. n + 1 /\ (k # 1 => k \in 2 .. n)
        /\ (k # n => k + 1 \in 2 .. n) /\ (k + 1) - 1 = k
    BY <1>2
  <2>2. e[k] \in Nat /\ e[k + 1] \in Nat /\ x[k] \in Nat
    <3> HIDE DEF n
    <3>1. \A i \in 1 .. n + 1 : e[i] \in Nat
      BY <1>1
    <3> QED BY <1>2, <2>1, <3>1
  <2>3. e[k] <= x[k]
    <3>1. CASE k = 1
      BY <1>1, <2>2, <3>1
    <3>2. CASE k # 1
      BY <1>3, <2>1, <2>2, <3>2
    <3> QED BY <3>1, <3>2
  <2>4. x[k] <= e[k + 1]
    <3>1. CASE k = n
      BY <1>1, <2>2, <3>1
    <3>2. CASE k # n
      BY <1>3, <2>1, <2>2, <3>2
    <3> QED BY <3>1, <3>2
  <2> QED BY <2>2, <2>3, <2>4
<1> QED BY <1>1, <1>2, <1>3, <1>4 DEF e

(* The values of a section are in the bins between their own edges. *)
LEMMA OwnBins ==
  ASSUME NEW x, Spaced(x)
  PROVE  Bins(x, EdgesOf(x)) = [k \in 1 .. Len(x) |-> k]
<1> DEFINE n == Len(x)
           e == EdgesOf(x)
           b == Bins(x, e)
<1>1. /\ n \in Nat \ {0} /\ Len(e) = n + 1
      /\ \A k \in 1 .. n : e[k] <= x[k] /\ x[k] <= e[k + 1] /\ x[k] \in Nat /\ e[k] \in Nat
      /\ \A k \in 2 .. n : e[k] < x[k]
  BY Between
<1>2. /\ b = [k \in 1 .. n |-> b[k]]
      /\ \A k \in 1 .. n : b[k] = NextBin(e, IF k = 1 THEN 1 ELSE b[k - 1], x[k])
  BY <1>1, BinsAre
<1> HIDE DEF b, e
<1> DEFINE T == {k \in 0 .. n : k > 0 => b[k] = k}
<1>3. 0 \in T
  BY <1>1
<1>4. ASSUME NEW k \in 1 .. n, 0 .. k - 1 \subseteq T PROVE k \in T
  <2> DEFINE from == IF k = 1 THEN 1 ELSE k - 1
  <2>1. k - 1 \in 0 .. k - 1 /\ k \in 0 .. n
    BY <1>1
  <2>2. k # 1 => b[k - 1] = k - 1
    BY <1>4, <2>1
  <2>3. b[k] = NextBin(e, from, x[k]) /\ from \in 1 .. n
    <3>1. CASE k = 1
      BY <1>1, <1>2, <3>1
    <3>2. CASE k # 1
      <4>1. from = b[k - 1] /\ from \in 1 .. n
        BY <1>1, <2>2, <3>2
      <4> HIDE DEF from
      <4> QED BY <1>2, <3>2, <4>1
    <3> QED BY <3>1, <3>2
  <2> HIDE DEF from
  <2>4. /\ b[k] \in from .. n
        /\ b[k] = n \/ (e[b[k]] <= x[k] /\ x[k] <= e[b[k] + 1])
        /\ \A i \in from .. b[k] - 1 : ~(e[i] <= x[k] /\ x[k] <= e[i + 1])
    <3> HIDE DEF n
    <3>1. n \in Nat /\ Len(e) \in Nat /\ Len(e) - 1 = n /\ from \in 1 .. Len(e) - 1
      BY <1>1, <2>3
    <3>2. LET j == NextBin(e, from, x[k])
          IN  /\ j \in from .. Len(e) - 1
              /\ j = Len(e) - 1 \/ (e[j] <= x[k] /\ x[k] <= e[j + 1])
              /\ \A i \in from .. j - 1 : ~(e[i] <= x[k] /\ x[k] <= e[i + 1])
      BY <3>1, NextBinIs
    <3>3. b[k] = NextBin(e, from, x[k]) /\ Len(e) - 1 = n
      BY <2>3, <3>1
    <3> QED BY <3>2, <3>3
  <2>5. b[k] \in {k - 1, k}
    <3>1. k \notin from .. b[k] - 1
      BY <1>1, <2>4
    <3>2. from <= k /\ k - 1 <= from
      BY DEF from
    <3>3. b[k] \in from .. n /\ from \in 1 .. n
      BY <2>3, <2>4
    <3>4. b[k] <= k
      BY <1>1, <3>1, <3>2, <3>3
    <3>5. \A p, q \in Nat : q - 1 <= p /\ p <= q => p \in {q - 1, q}
      OBVIOUS
    <3>6. b[k] \in Nat /\ k \in Nat /\ k - 1 <= b[k]
      BY <1>1, <3>2, <3>3
    <3> QED BY <3>4, <3>5, <3>6
  <2>6. b[k] # k - 1
    <3> SUFFICES ASSUME b[k] = k - 1 PROVE FALSE
      OBVIOUS
    <3>1. k \in 2 .. n /\ k - 1 # n /\ (k - 1) + 1 = k
      BY <1>1, <2>3, <2>4
    <3>2. x[k] <= e[k] /\ e[k] < x[k] /\ x[k] \in Nat /\ e[k] \in Nat
      BY <1>1, <2>4, <3>1
    <3> QED BY <3>2
  <2> QED BY <2>1, <2>5, <2>6
<1>5. 0 .. n \subseteq T
  <2> HIDE DEF T
  <2> QED BY <1>1, <1>3, <1>4, Induction
<1>6. \A k \in 1 .. n : b[k] = k
  BY <1>5
<1>7. b = [k \in 1 .. n |-> k]
  BY <1>2, <1>6
<1> QED BY <1>7 DEF b, e

LEMMA OwnCounts ==
  ASSUME NEW x, Spaced(x), NEW w \in [1 .. Len(x) -> Nat]
  PROVE  CountBetweenEdges(x, EdgesOf(x), w) = w
<1> DEFINE n == Len(x)
           one(i) == [k \in 1 .. n |-> IF k = i THEN w[k] ELSE 0]
<1>1. n \in Nat \ {0} /\ Len(EdgesOf(x)) - 1 = n
  BY Between
<1>2. ASSUME NEW i \in 1 .. n PROVE Total(one(i)) = w[i]
  <2>1. one(i) = [k \in 1 .. n |-> IF k = i THEN w[i] ELSE 0]
    OBVIOUS
  <2>2. w[i] \in Nat
    OBVIOUS
  <2>3. Total([k \in 1 .. n |-> IF k = i THEN w[i] ELSE 0]) = w[i]
    <3> HIDE DEF n
    <3>1. n \in Nat
      BY <1>1
    <3> QED BY <2>2, <3>1, TotalOfOne
  <2> QED BY <2>1, <2>3
<1>3. CountBetweenEdges(x, EdgesOf(x), w) =
        [i \in 1 .. n |-> Total([k \in 1 .. n |-> IF Bins(x, EdgesOf(x))[k] = i THEN w[k] ELSE 0])]
  BY <1>1 DEF CountBetweenEdges
<1>4. ASSUME NEW i \in 1 .. n
      PROVE  [k \in 1 .. n |-> IF Bins(x, EdgesOf(x))[k] = i THEN w[k] ELSE 0] = one(i)
  BY OwnBins
<1>5. CountBetweenEdges(x, EdgesOf(x), w) = [i \in 1 .. n |-> w[i]]
  BY <1>2, <1>3, <1>4
<1> QED BY <1>5

-----------------------------------------------------------------------------
(* The choices of the dynamic programming.                                *)

LEMMA ChoiceIs ==
  ASSUME NEW edges, NEW wh, NEW best, NEW Q \in Nat,
         \A i \in Open(edges, wh, best, Q) : FitnessFrom(edges, wh, best, Q, i) \in Int
  PROVE  LET open == Open(edges, wh, best, Q)
             c == Choice(edges, wh, best, Q)
         IN  IF open = {} THEN c = [fit |-> 0, first |-> 0]
             ELSE /\ c.first \in open /\ c.fit = FitnessFrom(edges, wh, best, Q, c.first)
                  /\ \A i \in open : FitnessFrom(edges, wh, best, Q, i) <= c.fit
<1> DEFINE open == Open(edges, wh, best, Q)
           f == [i \in open |-> FitnessFrom(edges, wh, best, Q, i)]
           top == Max(Range(f))
           firsts == {i \in open : f[i] = top}
<1>1. open \in SUBSET (1 .. Q)
  BY DEF Open
<1>2. CASE open = {}
  BY <1>2 DEF Choice
<1>3. CASE open # {}
  <2>1. Choice(edges, wh, best, Q) = [fit |-> top, first |-> Min(firsts)]
    BY <1>3 DEF Choice
  <2>2. f \in [open -> Int] /\ \A i \in open : f[i] = FitnessFrom(edges, wh, best, Q, i)
    OBVIOUS
  <2>3. top \in Range(f) /\ \A i \in open : f[i] <= top
    <3> HIDE DEF open, f
    <3> QED BY <1>1, <1>3, <2>2, MaxIs
  <2>4. firsts \in SUBSET Nat /\ firsts # {}
    <3>1. PICK i \in open : f[i] = top
      BY <2>3 DEF Range
    <3> QED BY <1>1, <3>1
  <2>5. Min(firsts) \in firsts
    <3> HIDE DEF firsts
    <3> QED BY <2>4, MinIs
  <2>6. Min(firsts) \in open /\ f[Min(firsts)] = top
    BY <2>5
  <2> HIDE DEF open, f, top, firsts
  <2>7. /\ Choice(edges, wh, best, Q).fit = top
        /\ Choice(edges, wh, best, Q).first = Min(firsts)
    BY <2>1
  <2>8. \A i \in open : FitnessFrom(edges, wh, best, Q, i) <= top
    BY <2>2, <2>3
  <2>9. FitnessFrom(edges, wh, best, Q, Min(firsts)) = top
    BY <2>2, <2>6
  <2>10. open = Open(edges, wh, best, Q)
    BY DEF open
  <2> QED BY <1>3, <2>6, <2>7, <2>8, <2>9, <2>10
<1> QED BY <1>2, <1>3

IsBest(edges, wh, n, s) ==
  s = [k \in 0 .. n |-> IF k = 0 THEN <<>> ELSE Append(s[k - 1], Choice(edges, wh, s[k - 1], k))]

LEMMA BestExists ==
  ASSUME NEW n \in Nat, NEW edges, NEW wh
  PROVE  \E s : IsBest(edges, wh, n, s)
<1> DEFINE T == {k \in 0 .. n : \E s : IsBest(edges, wh, k, s)}
<1>1. 0 \in T
  <2>1. IsBest(edges, wh, 0, [k \in 0 .. 0 |-> <<>>])
    BY DEF IsBest
  <2> QED BY <2>1
<1>2. ASSUME NEW k \in 1 .. n, 0 .. k - 1 \subseteq T PROVE k \in T
  <2>1. PICK s : IsBest(edges, wh, k - 1, s)
    <3>1. k - 1 \in 0 .. k - 1
      OBVIOUS
    <3> QED BY <1>2, <3>1
  <2> DEFINE t == [j \in 0 .. k |->
                     IF j < k THEN s[j] ELSE Append(s[k - 1], Choice(edges, wh, s[k - 1], k))]
  <2>2. IsBest(edges, wh, k, t)
    <3>1. ASSUME NEW j \in 0 .. k
          PROVE  t[j] = IF j = 0 THEN <<>> ELSE Append(t[j - 1], Choice(edges, wh, t[j - 1], j))
      <4>1. CASE j = 0
        BY <2>1, <4>1 DEF IsBest
      <4>2. CASE j \in 1 .. k - 1
        <5>1. j \in 0 .. k - 1 /\ j - 1 \in 0 .. k - 1 /\ j # 0
          BY <4>2
        <5>2. s[j] = Append(s[j - 1], Choice(edges, wh, s[j - 1], j))
          BY <2>1, <5>1 DEF IsBest
        <5> QED BY <5>1, <5>2
      <4>3. CASE j = k
        BY <4>3
      <4> QED BY <4>1, <4>2, <4>3
    <3> HIDE DEF t
    <3>2. t = [j \in 0 .. k |-> t[j]]
      BY DEF t
    <3> QED BY <3>1, <3>2 DEF IsBest
  <2> QED BY <2>2
<1>3. 0 .. n \subseteq T
  <2> HIDE DEF T
  <2> QED BY <1>1, <1>2, Induction
<1> QED BY <1>3

(* A choice depends on the ones before it. *)
LEMMA ChoiceLooksBack ==
  ASSUME NEW edges, NEW wh, NEW Q \in Nat \ {0}, NEW a, NEW b, \A i \in 1 .. Q - 1 : a[i] = b[i]
  PROVE  Choice(edges, wh, a, Q) = Choice(edges, wh, b, Q)
<1>1. Open(edges, wh, a, Q) = Open(edges, wh, b, Q)
  <2>1. \A i \in 1 .. Q : i > 1 => a[i - 1].first = b[i - 1].first
    OBVIOUS
  <2> QED BY <2>1 DEF Open
<1> DEFINE open == Open(edges, wh, b, Q)
<1>2. ASSUME NEW i \in open PROVE FitnessFrom(edges, wh, a, Q, i) = FitnessFrom(edges, wh, b, Q, i)
  <2>1. i > 1 => i - 1 \in 1 .. Q - 1
    BY DEF Open
  <2> QED BY <2>1 DEF FitnessFrom
<1>3. [i \in open |-> FitnessFrom(edges, wh, a, Q, i)] =
        [i \in open |-> FitnessFrom(edges, wh, b, Q, i)]
  BY <1>2
<1> HIDE DEF open
<1> QED BY <1>1, <1>3 DEF Choice, open

LEMMA BestIs ==
  ASSUME NEW edges, NEW wh, Len(edges) \in Nat \ {0}
  PROVE  \A Q \in 1 .. Len(edges) - 1 :
           Best(edges, wh)[Q] = Choice(edges, wh, Best(edges, wh), Q)
<1> DEFINE n == Len(edges) - 1
<1>0. n \in Nat
  OBVIOUS
<1>1. PICK s : IsBest(edges, wh, n, s) /\ Best(edges, wh) = s[n]
  <2> DEFINE s == CHOOSE s : IsBest(edges, wh, n, s)
  <2>1. Best(edges, wh) = s[n]
    BY DEF Best, Built, IsBest
  <2>2. IsBest(edges, wh, n, s)
    BY <1>0, BestExists
  <2> QED BY <2>1, <2>2
<1> DEFINE elt == [k \in 1 .. n |-> Choice(edges, wh, s[k - 1], k)]
<1>2. \A k \in 0 .. n : s[k] = [i \in 1 .. k |-> elt[i]]
  <2>1. s[0] = <<>>
    BY <1>0, <1>1 DEF IsBest
  <2>2. ASSUME NEW k \in 1 .. n PROVE s[k] = Append(s[k - 1], elt[k])
    <3>1. k \in 0 .. n /\ k # 0
      BY <1>0
    <3> QED BY <1>1, <3>1 DEF IsBest
  <2> HIDE DEF elt
  <2>3. BuiltFrom(s, elt, n)
    BY <1>0, <2>1, <2>2 DEF BuiltFrom
  <2> HIDE DEF n
  <2> QED BY <2>3, BuiltSequence
<1>3. \A k \in 1 .. n : Best(edges, wh)[k] = elt[k]
  <2> HIDE DEF elt
  <2>1. Best(edges, wh) = [i \in 1 .. n |-> elt[i]]
    BY <1>0, <1>1, <1>2
  <2> QED BY <2>1
<1>4. ASSUME NEW Q \in 1 .. n PROVE Best(edges, wh)[Q] = Choice(edges, wh, Best(edges, wh), Q)
  <2>1. elt[Q] = Choice(edges, wh, s[Q - 1], Q)
    OBVIOUS
  <2> HIDE DEF elt
  <2>2. Q - 1 \in 0 .. n /\ Q \in Nat \ {0} /\ \A i \in 1 .. Q - 1 : i \in 1 .. n
    BY <1>0
  <2>3. \A i \in 1 .. Q - 1 : s[Q - 1][i] = elt[i]
    <3>1. s[Q - 1] = [i \in 1 .. Q - 1 |-> elt[i]]
      BY <1>2, <2>2
    <3> QED BY <3>1
  <2>4. \A i \in 1 .. Q - 1 : s[Q - 1][i] = Best(edges, wh)[i]
    BY <1>3, <2>2, <2>3
  <2>5. Choice(edges, wh, s[Q - 1], Q) = Choice(edges, wh, Best(edges, wh), Q)
    BY <2>2, <2>4, ChoiceLooksBack
  <2> QED BY <1>3, <2>1, <2>5
<1> QED BY <1>4

(* The widths and counts of the blocks that are considered have logarithms. *)
Logs(edges, wh, n) ==
  \A Q \in 1 .. n : \A i \in 1 .. Q :
    Enough(wh[Q + 1] - wh[i], edges[Q + 1] - edges[i]) =>
      Fitness(wh[Q + 1] - wh[i], edges[Q + 1] - edges[i], wh[n + 1]) \in Int

LEMMA BestType ==
  ASSUME NEW edges, NEW wh, NEW n \in Nat, Len(edges) = n + 1, Logs(edges, wh, n), NEW Q \in 1 .. n
  PROVE  /\ Best(edges, wh)[Q].fit \in Int /\ Best(edges, wh)[Q].first \in 0 .. Q
         /\ \A i \in Open(edges, wh, Best(edges, wh), Q) :
              FitnessFrom(edges, wh, Best(edges, wh), Q, i) \in Int
<1> DEFINE b == Best(edges, wh)
           Typed(k) == /\ b[k].fit \in Int /\ b[k].first \in 0 .. k
                       /\ \A i \in Open(edges, wh, b, k) : FitnessFrom(edges, wh, b, k, i) \in Int
           T == {k \in 0 .. n : k > 0 => Typed(k)}
<1>1. \A k \in 1 .. n : b[k] = Choice(edges, wh, b, k)
  BY BestIs
<1> HIDE DEF b
<1>2. 0 \in T
  OBVIOUS
<1>3. ASSUME NEW k \in 1 .. n, 0 .. k - 1 \subseteq T PROVE k \in T
  <2>1. k \in Nat /\ k \in 0 .. n
    OBVIOUS
  <2>2. ASSUME NEW i \in Open(edges, wh, b, k) PROVE FitnessFrom(edges, wh, b, k, i) \in Int
    <3>1. /\ i \in 1 .. k /\ i \in 1 .. i
          /\ \A j \in 1 .. i : Enough(wh[k + 1] - wh[j], edges[k + 1] - edges[j])
      BY DEF Open
    <3>2. Fitness(wh[k + 1] - wh[i], edges[k + 1] - edges[i], wh[Len(edges)]) \in Int
      BY <3>1 DEF Logs
    <3>3. i > 1 => b[i - 1].fit \in Int
      <4>1. i > 1 => i - 1 \in 0 .. k - 1
        BY <3>1
      <4> QED BY <1>3, <3>1, <4>1
    <3> QED BY <3>2, <3>3 DEF FitnessFrom
  <2>3. b[k].fit \in Int /\ b[k].first \in 0 .. k
    <3> DEFINE open == Open(edges, wh, b, k)
               c == Choice(edges, wh, b, k)
    <3>1. IF open = {} THEN c = [fit |-> 0, first |-> 0]
          ELSE c.first \in open /\ c.fit = FitnessFrom(edges, wh, b, k, c.first)
      BY <2>1, <2>2, ChoiceIs
    <3>2. open \subseteq 1 .. k
      BY DEF Open
    <3> HIDE DEF open, c
    <3>3. c.fit \in Int /\ c.first \in 0 .. k
      <4>1. CASE open = {}
        BY <2>1, <3>1, <4>1
      <4>2. CASE open # {}
        BY <2>1, <2>2, <3>1, <3>2, <4>2 DEF open
      <4> QED BY <4>1, <4>2
    <3> QED BY <1>1, <3>3 DEF c
  <2> QED BY <2>1, <2>2, <2>3
<1>4. 0 .. n \subseteq T
  <2> HIDE DEF T
  <2> QED BY <1>2, <1>3, Induction
<1>5. Q \in 0 .. n /\ Q > 0
  OBVIOUS
<1>6. Typed(Q)
  BY <1>4, <1>5
<1> QED BY <1>6 DEF b

-----------------------------------------------------------------------------
(* The blocks that are peeled off.                                         *)

(* What is peeled off up to each edge. *)
IsPeel(edges, best, n, p) ==
  p = [L \in 0 .. n |-> IF L = 0 THEN <<>>
                        ELSE IF L = 1 THEN <<edges[1]>>
                        ELSE Append(p[best[L - 1].first], edges[L])]

(* The last block is peeled off first: it begins before its end. *)
LEMMA PeelExists ==
  ASSUME NEW n \in Nat, NEW edges, NEW best, \A L \in 2 .. n : best[L - 1].first \in 0 .. L - 1
  PROVE  \E p : IsPeel(edges, best, n, p)
<1> DEFINE T == {k \in 0 .. n : \E p : IsPeel(edges, best, k, p)}
<1>1. 0 \in T
  <2>1. IsPeel(edges, best, 0, [k \in 0 .. 0 |-> <<>>])
    BY DEF IsPeel
  <2> QED BY <2>1
<1>2. ASSUME NEW k \in 1 .. n, 0 .. k - 1 \subseteq T PROVE k \in T
  <2>1. PICK p : IsPeel(edges, best, k - 1, p)
    <3>1. k - 1 \in 0 .. k - 1
      OBVIOUS
    <3> QED BY <1>2, <3>1
  <2> DEFINE last == IF k = 1 THEN <<edges[1]>> ELSE Append(p[best[k - 1].first], edges[k])
             t == [L \in 0 .. k |-> IF L < k THEN p[L] ELSE last]
  <2>2. IsPeel(edges, best, k, t)
    <3>1. ASSUME NEW L \in 0 .. k
          PROVE  t[L] = IF L = 0 THEN <<>>
                        ELSE IF L = 1 THEN <<edges[1]>>
                        ELSE Append(t[best[L - 1].first], edges[L])
      <4>1. L > 1 => best[L - 1].first \in 0 .. k - 1 /\ best[L - 1].first \in 0 .. k
                     /\ best[L - 1].first < k
        OBVIOUS
      <4>2. L > 1 => t[best[L - 1].first] = p[best[L - 1].first]
        BY <4>1
      <4>3. CASE L < k
        <5>1. L \in 0 .. k - 1 /\ t[L] = p[L]
          <6>1. L \in 0 .. k - 1
            BY <4>3
          <6>2. t[L] = IF L < k THEN p[L] ELSE last
            <7> HIDE DEF last, T
            <7>1. t = [h \in 0 .. k |-> IF h < k THEN p[h] ELSE last]
              OBVIOUS
            <7> HIDE DEF t
            <7> QED BY <7>1
          <6> HIDE DEF t, last
          <6> QED BY <4>3, <6>1, <6>2
        <5>2. p[L] = IF L = 0 THEN <<>>
                     ELSE IF L = 1 THEN <<edges[1]>>
                     ELSE Append(p[best[L - 1].first], edges[L])
          BY <2>1, <5>1 DEF IsPeel
        <5> HIDE DEF t
        <5> QED BY <4>2, <5>1, <5>2
      <4>4. CASE L = k
        <5>1. t[L] = last /\ L # 0
          BY <4>4
        <5> HIDE DEF t
        <5> QED BY <4>2, <4>4, <5>1
      <4> QED BY <4>3, <4>4
    <3> HIDE DEF t
    <3>2. t = [L \in 0 .. k |-> t[L]]
      BY DEF t
    <3> QED BY <3>1, <3>2 DEF IsPeel
  <2> QED BY <2>2
<1>3. 0 .. n \subseteq T
  <2> HIDE DEF T
  <2> QED BY <1>1, <1>2, Induction
<1>4. n \in 0 .. n
  OBVIOUS
<1> QED BY <1>3, <1>4

LEMMA PeelIs ==
  ASSUME NEW edges, NEW best, Len(edges) \in Nat \ {0},
         \A L \in 2 .. Len(edges) : best[L - 1].first \in 0 .. L - 1
  PROVE  \E p : /\ Peel(edges, best) = p[Len(edges)]
                /\ p[0] = <<>> /\ p[1] = <<edges[1]>>
                /\ \A L \in 2 .. Len(edges) : p[L] = Append(p[best[L - 1].first], edges[L])
<1> DEFINE p == CHOOSE p : IsPeel(edges, best, Len(edges), p)
<1>1. Peel(edges, best) = p[Len(edges)]
  BY DEF Peel, IsPeel
<1>2. IsPeel(edges, best, Len(edges), p)
  <2>1. \E q : IsPeel(edges, best, Len(edges), q)
    BY PeelExists, Zenon
  <2> QED BY <2>1, Zenon
<1> HIDE DEF p
<1>3. p[0] = <<>>
  <2>1. 0 \in 0 .. Len(edges)
    OBVIOUS
  <2> QED BY <1>2, <2>1, Zenon DEF IsPeel
<1>4. p[1] = <<edges[1]>>
  <2>1. 1 \in 0 .. Len(edges) /\ 1 # 0
    OBVIOUS
  <2> QED BY <1>2, <2>1, Zenon DEF IsPeel
<1>5. ASSUME NEW L \in 2 .. Len(edges) PROVE p[L] = Append(p[best[L - 1].first], edges[L])
  <2> DEFINE n == Len(edges)
  <2>1. n \in Nat /\ L \in 2 .. n
    OBVIOUS
  <2> HIDE DEF n
  <2>2. L \in 0 .. n /\ L # 0 /\ L # 1
    BY <2>1
  <2> QED BY <1>2, <2>2, Zenon DEF IsPeel, n
<1> QED BY <1>1, <1>3, <1>4, <1>5

(* What is peeled off are edges, with the right end among them. *)
LEMMA PeelType ==
  ASSUME NEW S, NEW edges \in Seq(S), NEW best, Len(edges) \in Nat \ {0},
         \A L \in 2 .. Len(edges) : best[L - 1].first \in 0 .. L - 1
  PROVE  Peel(edges, best) \in Seq(S) /\ edges[Len(edges)] \in Range(Peel(edges, best))
<1> DEFINE n == Len(edges)
<1>1. PICK p : /\ Peel(edges, best) = p[n]
               /\ p[0] = <<>> /\ p[1] = <<edges[1]>>
               /\ \A L \in 2 .. n : p[L] = Append(p[best[L - 1].first], edges[L])
  BY PeelIs
<1>2. \A i \in 1 .. n : edges[i] \in S
  OBVIOUS
<1> HIDE DEF n
<1>3. n \in Nat /\ n > 0 /\ \A L \in 2 .. n : best[L - 1].first \in 0 .. L - 1
  BY DEF n
<1> DEFINE T == {L \in 0 .. n : p[L] \in Seq(S)}
<1>5. 0 \in T
  <2>1. <<>> \in Seq(S) /\ 0 \in 0 .. n
    BY <1>3
  <2> QED BY <1>1, <2>1
<1>6. ASSUME NEW L \in 1 .. n, 0 .. L - 1 \subseteq T PROVE L \in T
  <2>1. L \in 0 .. n /\ edges[L] \in S
    BY <1>2, <1>3
  <2>2. CASE L = 1
    <3>1. p[1] \in Seq(S)
      BY <1>1, <2>1, <2>2
    <3> QED BY <2>1, <2>2, <3>1
  <2>3. CASE L # 1
    <3>1. best[L - 1].first \in 0 .. L - 1
      BY <1>3, <2>3
    <3>2. p[best[L - 1].first] \in Seq(S)
      BY <1>6, <3>1
    <3>3. p[L] = Append(p[best[L - 1].first], edges[L])
      BY <1>1, <1>3, <2>3
    <3>4. p[L] \in Seq(S)
      BY <2>1, <3>2, <3>3
    <3> QED BY <2>1, <3>4
  <2> QED BY <2>2, <2>3
<1>7. 0 .. n \subseteq T
  <2> HIDE DEF T
  <2> QED BY <1>3, <1>5, <1>6, Induction
<1>8. p[n] \in Seq(S)
  BY <1>3, <1>7
<1>9. edges[n] \in Range(p[n])
  <2>1. n \in 0 .. n /\ edges[n] \in S
    BY <1>2, <1>3
  <2>2. CASE n = 1
    <3>1. p[n] = <<edges[1]>>
      BY <1>1, <2>2
    <3> QED BY <2>2, <3>1 DEF Range
  <2>3. CASE n # 1
    <3>1. best[n - 1].first \in 0 .. n - 1
      BY <1>3, <2>3
    <3> DEFINE q == p[best[n - 1].first]
    <3>2. q \in Seq(S)
      <4>1. best[n - 1].first \in 0 .. n
        BY <1>3, <3>1
      <4> QED BY <1>7, <4>1
    <3>3. p[n] = Append(q, edges[n])
      BY <1>1, <1>3, <2>3
    <3> HIDE DEF q
    <3>4. Append(q, edges[n])[Len(q) + 1] = edges[n] /\ Len(q) + 1 \in DOMAIN Append(q, edges[n])
      BY <2>1, <3>2
    <3> QED BY <3>3, <3>4 DEF Range
  <2> QED BY <2>2, <2>3
<1> QED BY <1>1, <1>8, <1>9 DEF n

-----------------------------------------------------------------------------
(* The types of what a task computes.                                      *)

LEMMA TotalOfTwice ==
  ASSUME NEW x \in Seq(Nat)
  PROVE  Total([k \in 1 .. Len(x) |-> 2 * x[k]]) = 2 * Total(x)
<1> DEFINE n == Len(x)
           y == [k \in 1 .. n |-> 2 * x[k]]
<1>1. n \in Nat /\ \A k \in 1 .. n : x[k] \in Nat
  OBVIOUS
<1>2. x \in Seq(Int) /\ y \in Seq(Int) /\ Len(y) = n /\ \A k \in 1 .. n : y[k] = 2 * x[k]
  OBVIOUS
<1> HIDE DEF y
<1>3. /\ Upto(x, 0) = 0 /\ Total(x) = Upto(x, n)
      /\ \A k \in 0 .. n : Upto(x, k) \in Int
      /\ \A k \in 1 .. n : Upto(x, k) = Upto(x, k - 1) + x[k]
  BY <1>2, UptoIs
<1>4. /\ Upto(y, 0) = 0 /\ Total(y) = Upto(y, n)
      /\ \A k \in 1 .. n : Upto(y, k) = Upto(y, k - 1) + y[k]
  BY <1>2, UptoIs
<1> HIDE DEF n
<1> DEFINE T == {k \in 0 .. n : Upto(y, k) = 2 * Upto(x, k)}
<1>5. 0 \in T
  BY <1>1, <1>3, <1>4
<1>6. ASSUME NEW k \in 1 .. n, 0 .. k - 1 \subseteq T PROVE k \in T
  <2>1. k - 1 \in 0 .. k - 1 /\ k \in 0 .. n /\ k - 1 \in 0 .. n
    BY <1>1
  <2>2. Upto(y, k - 1) = 2 * Upto(x, k - 1) /\ Upto(x, k - 1) \in Int /\ x[k] \in Nat
    BY <1>1, <1>3, <1>6, <2>1
  <2>3. Upto(y, k) = Upto(y, k - 1) + 2 * x[k] /\ Upto(x, k) = Upto(x, k - 1) + x[k]
    BY <1>2, <1>3, <1>4
  <2>4. Upto(y, k) = 2 * Upto(x, k)
    BY <2>2, <2>3
  <2> QED BY <2>1, <2>4
<1>7. 0 .. n \subseteq T
  <2> HIDE DEF T
  <2> QED BY <1>1, <1>5, <1>6, Induction
<1>8. n \in T
  BY <1>1, <1>7
<1>9. Total(y) = 2 * Total(x)
  BY <1>3, <1>4, <1>8
<1> QED BY <1>9 DEF y, n

(* The sums that begin with a zero. *)
LEMMA SumsFromZero ==
  ASSUME NEW w \in Seq(Nat), NEW k \in 1 .. Len(w) + 1
  PROVE  CumSum(<<0>> \o w)[k] = Upto(w, k - 1)
<1> DEFINE n == Len(w)
           z == <<0>> \o w
<1>1. n \in Nat /\ w \in Seq(Int) /\ \A i \in 1 .. n : w[i] \in Nat
  OBVIOUS
<1>2. z \in Seq(Int) /\ Len(z) = n + 1 /\ z[1] = 0 /\ \A i \in 1 .. n : z[i + 1] = w[i]
  <2>1. <<0>> \in Seq(Int)
    OBVIOUS
  <2> QED BY <1>1, <2>1
<1> HIDE DEF z
<1>3. \A i \in 1 .. n + 1 : CumSum(z)[i] = z[i] + (IF i = 1 THEN 0 ELSE CumSum(z)[i - 1])
  BY <1>2, CumSumIs
<1>4. /\ Upto(w, 0) = 0 /\ \A i \in 0 .. n : Upto(w, i) \in Int
      /\ \A i \in 1 .. n : Upto(w, i) = Upto(w, i - 1) + w[i]
  BY <1>1, UptoIs
<1> HIDE DEF n
<1> DEFINE T == {i \in 0 .. n : CumSum(z)[i + 1] = Upto(w, i)}
<1>5. 0 \in T
  <2>1. CumSum(z)[1] = 0
    <3>1. 1 \in 1 .. n + 1
      BY <1>1
    <3>2. CumSum(z)[1] = z[1] + (IF 1 = 1 THEN 0 ELSE CumSum(z)[1 - 1])
      BY <1>3, <3>1
    <3> QED BY <1>2, <3>2
  <2> QED BY <1>1, <1>4, <2>1
<1>6. ASSUME NEW i \in 1 .. n, 0 .. i - 1 \subseteq T PROVE i \in T
  <2>1. i - 1 \in 0 .. i - 1 /\ i \in 0 .. n /\ i + 1 \in 1 .. n + 1 /\ i + 1 # 1
        /\ (i - 1) + 1 = i /\ (i + 1) - 1 = i
    BY <1>1
  <2>2. CumSum(z)[i] = Upto(w, i - 1)
    BY <1>6, <2>1
  <2>3. CumSum(z)[i + 1] = w[i] + CumSum(z)[i]
    BY <1>2, <1>3, <2>1
  <2>4. Upto(w, i) = Upto(w, i - 1) + w[i] /\ w[i] \in Nat /\ Upto(w, i - 1) \in Int
    BY <1>1, <1>4, <2>1
  <2> QED BY <2>1, <2>2, <2>3, <2>4
<1>7. 0 .. n \subseteq T
  <2> HIDE DEF T
  <2> QED BY <1>1, <1>5, <1>6, Induction
<1>8. k - 1 \in 0 .. n /\ (k - 1) + 1 = k
  BY <1>1 DEF n
<1>9. CumSum(z)[k] = Upto(w, k - 1)
  BY <1>7, <1>8
<1> QED BY <1>9 DEF z

LEMMA ValuesAre ==
  ASSUME NEW s \in Sections
  PROVE  /\ Spaced(Values(s)) /\ Len(Values(s)) = Size(s) /\ Size(s) \in Nat \ {0}
         /\ \A i \in 1 .. Size(s) :
              s[1] + i - 1 \in s[1] .. s[2] /\ Values(s)[i] = 2 * Sample[s[1] + i - 1]
         /\ Values(s)[1] = 2 * Sample[s[1]] /\ Values(s)[Size(s)] = 2 * Sample[s[2]]
<1>1. s[1] \in Nat /\ s[2] \in Nat /\ s[1] <= s[2] /\ s[1] .. s[2] \subseteq Points
  BY SectionFacts
<1>2. Size(s) \in Nat \ {0} /\ s[1] + Size(s) - 1 = s[2] /\ s[1] + 1 - 1 = s[1]
  BY <1>1 DEF Size
<1>3. ASSUME NEW i \in 1 .. Size(s) PROVE s[1] + i - 1 \in s[1] .. s[2]
  BY <1>1 DEF Size
<1>4. \A p \in Points : Sample[p] \in Nat
  BY SampleAssumption DEF Points
<1>5. \A i \in 1 .. Size(s) : 2 * Sample[s[1] + i - 1] \in Nat
  BY <1>1, <1>3, <1>4
<1>6. Values(s) \in Seq(Nat) /\ Len(Values(s)) = Size(s)
  BY <1>2, <1>5 DEF Values
<1>7. \A i \in 1 .. Size(s) : Values(s)[i] = 2 * Sample[s[1] + i - 1]
  BY DEF Values
<1>8. ASSUME NEW i \in 1 .. Size(s), NEW j \in 1 .. Size(s), i < j
      PROVE  Values(s)[i] + 2 <= Values(s)[j]
  <2> DEFINE p == s[1] + i - 1
             q == s[1] + j - 1
  <2>1. p \in Points /\ q \in Points /\ p < q
    BY <1>1, <1>2, <1>3, <1>8
  <2>2. Values(s)[i] = 2 * Sample[p] /\ Values(s)[j] = 2 * Sample[q]
    BY <1>7
  <2> HIDE DEF p, q
  <2>3. Sample[p] \in Nat /\ Sample[q] \in Nat /\ Sample[p] < Sample[q]
    BY <1>4, <2>1, SampleAssumption
  <2> QED BY <2>2, <2>3
<1>9. 1 \in 1 .. Size(s) /\ Size(s) \in 1 .. Size(s)
  BY <1>2
<1>10. Values(s)[1] = 2 * Sample[s[1]] /\ Values(s)[Size(s)] = 2 * Sample[s[2]]
  BY <1>2, <1>7, <1>9
<1>11. Spaced(Values(s))
  BY <1>2, <1>6, <1>8 DEF Spaced
<1> QED BY <1>2, <1>3, <1>6, <1>7, <1>10, <1>11

(* The weights of a section, some of them halved. *)
Weighs(s, w, count) ==
  /\ w \in Seq(Nat) /\ Len(w) = Size(s)
  /\ \A i \in 1 .. Size(s) : w[i] <= 2 * count[s[1] + i - 1]

LEMMA WeighsAtMost ==
  ASSUME NEW s \in Sections, NEW count \in Counts, NEW w, Weighs(s, w, count)
  PROVE  Total(w) <= 2 * Total(count) /\ count \in Seq(Nat) /\ Total(count) \in Nat
<1> DEFINE n == Len(Sample)
           y == [k \in 1 .. n |-> 2 * count[k]]
<1>1. n \in Nat /\ count \in [1 .. n -> Nat]
  BY SampleAssumption DEF Points
<1>2. count \in Seq(Nat) /\ Len(count) = n
  BY <1>1
<1>3. Total(y) = 2 * Total(count) /\ Total(count) \in Nat
  BY <1>2, TotalOfTwice, UptoGrows
<1>4. y \in Seq(Nat) /\ Len(y) = n /\ \A k \in 1 .. n : y[k] = 2 * count[k]
  BY <1>1
<1> HIDE DEF y
<1>5. /\ s[1] \in Nat /\ s[2] \in Nat /\ s[1] >= 1 /\ s[2] <= n /\ s[1] <= s[2]
  BY SectionFacts DEF Points
<1> HIDE DEF n
<1> DEFINE a == s[1] - 1
<1>6. a \in Nat /\ a + Len(w) <= Len(y)
  <2>1. Len(w) = s[2] - s[1] + 1
    BY DEF Weighs, Size
  <2>2. \A i, j \in Nat : 1 <= i /\ i <= j /\ j <= n => i - 1 \in Nat /\ (i - 1) + (j - i + 1) <= n
    BY <1>1
  <2> QED BY <1>4, <1>5, <2>1, <2>2
<1>7. ASSUME NEW k \in 1 .. Len(w) PROVE w[k] <= y[a + k]
  <2>1. k \in 1 .. Size(s) /\ Size(s) = s[2] - s[1] + 1
    BY DEF Weighs, Size
  <2>2. a + k = s[1] + k - 1 /\ a + k \in 1 .. n
    <3>1. k \in Nat /\ 1 <= k /\ k <= s[2] - s[1] + 1
      BY <1>5, <2>1
    <3>2. \A i, j \in Nat : 1 <= i /\ j <= n /\ 1 <= k /\ k <= j - i + 1
            => (i - 1) + k = i + k - 1 /\ (i - 1) + k \in 1 .. n
      BY <1>1, <3>1
    <3> QED BY <1>5, <3>1, <3>2
  <2>3. y[a + k] = 2 * count[s[1] + k - 1]
    BY <1>4, <2>2
  <2> QED BY <2>1, <2>3 DEF Weighs
<1> HIDE DEF a
<1>8. w \in Seq(Nat)
  BY DEF Weighs
<1>9. Total(w) <= Total(y)
  BY <1>4, <1>6, <1>7, <1>8, PartIsBelow
<1> QED BY <1>2, <1>3, <1>9

LEMMA FitnessType ==
  ASSUME NEW count \in Counts, Total(count) \in Nat,
         NEW c \in Nat, NEW d \in Int, NEW total \in Nat,
         c <= total, total <= 2 * Total(count), d <= Extent, Enough(c, d), Extent \in Nat
  PROVE  Fitness(c, d, total) \in Int
<1>1. MinCounts \in Nat \ {0} /\ Resolution \in Nat \ {0}
  BY SampleAssumption
<1>2. c >= 2
  BY <1>1 DEF Enough
<1>3. d >= 1
  <2>1. \A r \in Nat, i \in Int : i * r > 0 => i > 0
    OBVIOUS
  <2>2. d * Resolution \in Int /\ d * Resolution > 0
    BY <1>1 DEF Enough
  <2> QED BY <1>1, <2>1, <2>2
<1> DEFINE n == 2 * Total(count)
<1>4. n \in Nat /\ c \in 1 .. n /\ total \in 1 .. n /\ 2 \in 1 .. n /\ d \in 1 .. Extent
  BY <1>2, <1>3
<1>5. Ln[c] \in Int /\ Ln[total] \in Int /\ Ln[2] \in Int /\ Ln[d] \in Int
  BY <1>4, LnAssumption
<1>6. \A i, j \in Int : i * j \in Int /\ i - j \in Int
  OBVIOUS
<1> QED BY <1>5, <1>6 DEF Fitness

LEMMA SampleGrows ==
  ASSUME NEW p \in Points, NEW q \in Points, p <= q
  PROVE  Sample[p] <= Sample[q]
<1>1. Sample[p] \in Nat /\ Sample[q] \in Nat
  BY SampleAssumption DEF Points
<1>2. p = q \/ p < q
  BY SampleFacts DEF Points
<1> QED BY <1>1, <1>2, SampleAssumption

LEMMA SectionExtent ==
  ASSUME NEW s \in Sections
  PROVE  /\ Extent \in Nat /\ 2 * Sample[s[1]] \in Edges /\ 2 * Sample[s[2]] \in Edges
         /\ 2 * Sample[s[2]] - 2 * Sample[s[1]] <= Extent
<1>1. /\ s[1] \in Points /\ s[2] \in Points /\ 1 \in Points /\ Len(Sample) \in Points
      /\ s[1] \in Nat /\ s[2] \in Nat /\ Len(Sample) \in Nat
      /\ 1 <= s[1] /\ s[1] <= s[2] /\ s[2] <= Len(Sample)
  BY SectionFacts, SampleFacts DEF Points
<1>2. \A p \in Points : Sample[p] \in Nat
  BY SampleAssumption DEF Points
<1>3. \A p, q \in Points : p <= q => Sample[p] <= Sample[q]
  BY SampleGrows
<1>4. /\ Sample[1] <= Sample[s[1]] /\ Sample[s[1]] <= Sample[s[2]]
      /\ Sample[s[2]] <= Sample[Len(Sample)]
  BY <1>1, <1>3
<1>5. /\ Sample[1] \in Nat /\ Sample[s[1]] \in Nat
      /\ Sample[s[2]] \in Nat /\ Sample[Len(Sample)] \in Nat
  BY <1>1, <1>2
<1>6. \A i, j, k, l \in Nat : i <= j /\ j <= k /\ k <= l =>
        /\ 2 * (l - i) \in Nat /\ 2 * j \in 0 .. 2 * l /\ 2 * k \in 0 .. 2 * l
        /\ 2 * k - 2 * j <= 2 * (l - i)
  OBVIOUS
<1> QED BY <1>4, <1>5, <1>6 DEF Extent, Edges

LEMMA SectionEdges ==
  ASSUME NEW s \in Sections
  PROVE  LET e == EdgesOf(Values(s))
         IN  /\ e \in Seq(2 * Sample[s[1]] .. 2 * Sample[s[2]]) /\ Len(e) = Size(s) + 1
             /\ Size(s) \in Nat \ {0}
             /\ e[Size(s) + 1] = 2 * Sample[s[2]]
             /\ \A k \in 1 .. Size(s) + 1 : e[k] \in 2 * Sample[s[1]] .. 2 * Sample[s[2]]
<1> DEFINE x == Values(s)
           e == EdgesOf(x)
           n == Size(s)
<1>1. /\ Spaced(x) /\ Len(x) = n /\ n \in Nat \ {0}
      /\ x[1] = 2 * Sample[s[1]] /\ x[n] = 2 * Sample[s[2]]
  BY ValuesAre
<1>2. /\ e \in Seq(Nat) /\ Len(e) = n + 1 /\ e[1] = x[1] /\ e[n + 1] = x[n]
      /\ \A k \in 1 .. n : x[k] \in Nat /\ e[k] \in Nat /\ e[k] <= x[k] /\ x[k] <= e[k + 1]
      /\ \A k \in 2 .. n : x[k - 1] < e[k]
  BY <1>1, Between
<1> HIDE DEF e, x, n
<1>3. ASSUME NEW i \in 1 .. n, NEW j \in 1 .. n, i <= j PROVE x[i] <= x[j]
  <2>1. x[i] \in Nat /\ x[j] \in Nat
    BY <1>2
  <2>2. i = j \/ x[i] + 2 <= x[j]
    BY <1>1, <1>3 DEF Spaced
  <2> QED BY <2>1, <2>2
<1>4. ASSUME NEW k \in 1 .. n + 1 PROVE e[k] \in x[1] .. x[n]
  <2>1. CASE k = 1
    <3>1. x[1] \in Nat /\ x[n] \in Nat /\ x[1] <= x[n]
      BY <1>1, <1>2, <1>3
    <3> QED BY <1>2, <2>1, <3>1
  <2>2. CASE k = n + 1
    <3>1. x[1] \in Nat /\ x[n] \in Nat /\ x[1] <= x[n]
      BY <1>1, <1>2, <1>3
    <3> QED BY <1>2, <2>2, <3>1
  <2>3. CASE k \in 2 .. n
    <3>1. k \in 1 .. n /\ k - 1 \in 1 .. n /\ 1 \in 1 .. n /\ n \in 1 .. n
      BY <1>1, <2>3
    <3>2. x[1] <= x[k - 1] /\ x[k - 1] < e[k] /\ e[k] <= x[k] /\ x[k] <= x[n]
      <4>1. x[1] <= x[k - 1] /\ x[k] <= x[n]
        BY <1>3, <3>1
      <4> QED BY <1>2, <2>3, <3>1, <4>1
    <3>3. x[1] \in Nat /\ x[k - 1] \in Nat /\ e[k] \in Nat /\ x[k] \in Nat /\ x[n] \in Nat
      BY <1>2, <3>1
    <3> QED BY <3>2, <3>3
  <2> QED BY <1>1, <2>1, <2>2, <2>3
<1>5. e \in Seq(x[1] .. x[n])
  <2>1. e \in [1 .. n + 1 -> Nat] /\ n + 1 \in Nat
    BY <1>1, <1>2
  <2>2. e \in [1 .. n + 1 -> x[1] .. x[n]]
    BY <1>4, <2>1
  <2> DEFINE between == x[1] .. x[n]
  <2>3. e \in [1 .. n + 1 -> between]
    BY <2>2
  <2> HIDE DEF between
  <2>4. e \in Seq(between)
    BY <2>1, <2>3
  <2> QED BY <2>4 DEF between
<1> QED BY <1>1, <1>2, <1>4, <1>5 DEF e, x, n

LEMMA SectionLogs ==
  ASSUME NEW s \in Sections, NEW count \in Counts, NEW w, Weighs(s, w, count)
  PROVE  Logs(EdgesOf(Values(s)), CumSum(<<0>> \o w), Size(s))
<1> DEFINE n == Size(s)
           edges == EdgesOf(Values(s))
           wh == CumSum(<<0>> \o w)
           lo == 2 * Sample[s[1]]
           hi == 2 * Sample[s[2]]
<1>1. /\ n \in Nat \ {0} /\ \A k \in 1 .. n + 1 : edges[k] \in lo .. hi
  BY SectionEdges
<1>2. Extent \in Nat /\ lo \in Nat /\ hi \in Nat /\ hi - lo <= Extent
  <2>1. Sample[s[1]] \in Nat /\ Sample[s[2]] \in Nat
    <3>1. s[1] \in Points /\ s[2] \in Points
      BY SectionFacts
    <3>2. \A p \in Points : Sample[p] \in Nat
      BY SampleAssumption DEF Points
    <3> QED BY <3>1, <3>2
  <2> QED BY <2>1, SectionExtent
<1>3. w \in Seq(Nat) /\ Len(w) = n /\ Total(w) <= 2 * Total(count) /\ Total(count) \in Nat
  BY WeighsAtMost DEF Weighs
<1>4. /\ \A k \in 0 .. n : Upto(w, k) \in Nat
      /\ \A i, j \in 0 .. n : i <= j => Upto(w, i) <= Upto(w, j)
      /\ Total(w) = Upto(w, n)
  <2>1. w \in Seq(Int)
    BY <1>3
  <2> QED BY <1>3, <2>1, UptoGrows, UptoIs
<1>5. \A k \in 1 .. n + 1 : wh[k] = Upto(w, k - 1)
  BY <1>3, SumsFromZero
<1> HIDE DEF n, lo, hi, edges, wh
<1>6. ASSUME NEW Q \in 1 .. n, NEW i \in 1 .. Q, Enough(wh[Q + 1] - wh[i], edges[Q + 1] - edges[i])
      PROVE  Fitness(wh[Q + 1] - wh[i], edges[Q + 1] - edges[i], wh[n + 1]) \in Int
  <2> DEFINE c == wh[Q + 1] - wh[i]
             d == edges[Q + 1] - edges[i]
             total == wh[n + 1]
  <2>1. /\ Q + 1 \in 1 .. n + 1 /\ i \in 1 .. n + 1 /\ n + 1 \in 1 .. n + 1
        /\ (Q + 1) - 1 = Q /\ (n + 1) - 1 = n
        /\ Q \in 0 .. n /\ i - 1 \in 0 .. n /\ n \in 0 .. n /\ i - 1 <= Q /\ Q <= n
    BY <1>1
  <2>2. wh[Q + 1] = Upto(w, Q) /\ wh[i] = Upto(w, i - 1) /\ total = Upto(w, n)
    BY <1>5, <2>1
  <2>3. /\ Upto(w, Q) \in Nat /\ Upto(w, i - 1) \in Nat /\ Upto(w, n) \in Nat
        /\ Upto(w, i - 1) <= Upto(w, Q) /\ Upto(w, Q) <= Upto(w, n)
    BY <1>4, <2>1
  <2>4. c \in Nat /\ total \in Nat /\ c <= total /\ total <= 2 * Total(count)
    <3>1. \A p, q, r \in Nat : p <= q /\ q <= r => q - p \in Nat /\ q - p <= r
      OBVIOUS
    <3>2. c = Upto(w, Q) - Upto(w, i - 1) /\ total = Upto(w, n)
      BY <2>2
    <3> HIDE DEF c, total
    <3>3. c \in Nat /\ total \in Nat /\ c <= total
      BY <2>3, <3>1, <3>2
    <3> QED BY <1>3, <1>4, <3>2, <3>3
  <2>5. d \in Int /\ d <= Extent
    <3>1. edges[Q + 1] \in lo .. hi /\ edges[i] \in lo .. hi
      BY <1>1, <2>1
    <3> QED BY <1>2, <3>1
  <2>6. Enough(c, d)
    BY <1>6
  <2> HIDE DEF c, d, total
  <2>7. Fitness(c, d, total) \in Int
    BY <1>2, <1>3, <2>4, <2>5, <2>6, FitnessType
  <2> QED BY <2>7 DEF c, d, total
<1> QED BY <1>6 DEF Logs, n, edges, wh

(* The change points of a section are in it, and its right end is one.     *)
LEMMA ConquerType ==
  ASSUME NEW s \in Sections, NEW count \in Counts, NEW w, Weighs(s, w, count)
  PROVE  /\ Conquer(Values(s), w) \in Seq(2 * Sample[s[1]] .. 2 * Sample[s[2]])
         /\ 2 * Sample[s[2]] \in Range(Conquer(Values(s), w))
<1> DEFINE S == 2 * Sample[s[1]] .. 2 * Sample[s[2]]
           x == Values(s)
           e == EdgesOf(x)
           wh == CumSum(<<0>> \o w)
           n == Size(s)
           b == Best(e, wh)
<1>1. e \in Seq(S) /\ Len(e) = n + 1 /\ n \in Nat \ {0} /\ e[n + 1] = 2 * Sample[s[2]]
  BY SectionEdges
<1>2. Conquer(x, w) = Peel(e, b)
  <2>1. w \in [1 .. Len(x) -> Nat] /\ Spaced(x)
    BY ValuesAre DEF Weighs
  <2>2. CountBetweenEdges(x, e, w) = w
    BY <2>1, OwnCounts
  <2> QED BY <2>2 DEF Conquer
<1>3. Logs(e, wh, n)
  BY SectionLogs
<1>4. ASSUME NEW L \in 2 .. Len(e) PROVE b[L - 1].first \in 0 .. L - 1
  <2>1. L - 1 \in 1 .. n
    BY <1>1
  <2> QED BY <1>1, <1>3, <2>1, BestType
<1> HIDE DEF S, e, b, wh, n
<1>5. Len(e) \in Nat \ {0}
  BY <1>1
<1>6. Peel(e, b) \in Seq(S) /\ e[Len(e)] \in Range(Peel(e, b))
  BY <1>1, <1>4, <1>5, PeelType
<1> QED BY <1>1, <1>2, <1>6 DEF S

-----------------------------------------------------------------------------
(* Sorting.                                                                *)

(* There is a member for each rank. *)
LEMMA Ranks ==
  ASSUME NEW S \in SUBSET Nat, IsFiniteSet(S), NEW i \in 1 .. Cardinality(S)
  PROVE  \E e \in S : Cardinality({d \in S : d < e}) = i - 1
<1> DEFINE n == Cardinality(S)
           Lower(e) == {d \in S : d < e}
           T == {k \in 0 .. n : k < n => \E e \in S : Cardinality(Lower(e)) = k}
<1>1. n \in Nat /\ (n = 0 <=> S = {})
  BY FS_CardinalityType, FS_EmptySet
<1>2. \A e : IsFiniteSet(Lower(e)) /\ Cardinality(Lower(e)) \in Nat
  <2> TAKE e
  <2>1. Lower(e) \in SUBSET S
    OBVIOUS
  <2> HIDE DEF Lower
  <2> QED BY <2>1, FS_Subset, FS_CardinalityType
<1> HIDE DEF n
<1>3. 0 \in T
  <2> SUFFICES ASSUME 0 < n PROVE \E e \in S : Cardinality(Lower(e)) = 0
    BY <1>1
  <2>1. Min(S) \in S /\ \A k \in S : Min(S) <= k
    BY <1>1, MinIs
  <2>2. ASSUME NEW d \in S PROVE ~(d < Min(S))
    <3> DEFINE m == Min(S)
    <3>1. m \in Nat /\ d \in Nat /\ m <= d
      BY <2>1
    <3> HIDE DEF m
    <3>2. ~(d < m)
      BY <3>1
    <3> QED BY <3>2 DEF m
  <2>3. Lower(Min(S)) = {}
    BY <2>2
  <2> QED BY <2>1, <2>3, FS_EmptySet
<1>4. ASSUME NEW k \in 1 .. n, 0 .. k - 1 \subseteq T PROVE k \in T
  <2> SUFFICES ASSUME k < n PROVE \E e \in S : Cardinality(Lower(e)) = k
    BY <1>1
  <2>1. PICK e \in S : Cardinality(Lower(e)) = k - 1
    <3>1. k - 1 \in 0 .. k - 1 /\ k - 1 < n
      BY <1>1
    <3> QED BY <1>4, <3>1
  <2> DEFINE upto == Lower(e) \cup {e}
             above == S \ upto
  <2>2. Cardinality(upto) = k
    <3>1. e \notin Lower(e)
      OBVIOUS
    <3> HIDE DEF Lower
    <3>2. Cardinality(Lower(e) \cup {e}) = Cardinality(Lower(e)) + 1
      BY <1>2, <3>1, FS_AddElement
    <3> QED BY <2>1, <3>2
  <2>3. above # {}
    <3>1. upto \subseteq S
      OBVIOUS
    <3>2. S # upto
      BY <1>1, <2>2 DEF n
    <3> QED BY <3>1, <3>2
  <2>4. Min(above) \in above /\ \A j \in above : Min(above) <= j
    <3>1. above \in SUBSET Nat
      OBVIOUS
    <3> HIDE DEF above
    <3> QED BY <2>3, <3>1, MinIs
  <2> DEFINE m == Min(above)
  <2>5. m \in S /\ m \notin upto
    BY <2>4
  <2> HIDE DEF m
  <2>6. e < m
    BY <2>5
  <2>7. ASSUME NEW d \in S PROVE d < m <=> d \in upto
    <3>1. d \in upto => d < m
      BY <2>5, <2>6
    <3>2. d \notin upto => m <= d
      BY <2>4 DEF m
    <3> QED BY <2>5, <3>1, <3>2
  <2>8. Lower(m) = upto
    BY <2>7
  <2> QED BY <2>2, <2>5, <2>8
<1>5. 0 .. n \subseteq T
  <2> HIDE DEF T
  <2> QED BY <1>1, <1>3, <1>4, Induction
<1>6. i - 1 \in 0 .. n /\ i - 1 < n
  BY <1>1 DEF n
<1> QED BY <1>5, <1>6

LEMMA SortedIs ==
  ASSUME NEW S \in SUBSET Nat, IsFiniteSet(S)
  PROVE  /\ Sorted(S) \in Seq(S) /\ Len(Sorted(S)) = Cardinality(S) /\ Cardinality(S) \in Nat
         /\ \A i, j \in 1 .. Cardinality(S) : i < j => Sorted(S)[i] < Sorted(S)[j]
         /\ Range(Sorted(S)) = S
<1> DEFINE n == Cardinality(S)
           q == Sorted(S)
           Lower(e) == {d \in S : d < e}
           Rank(e) == Cardinality(Lower(e))
<1>1. n \in Nat
  BY FS_CardinalityType
<1>2. q = [i \in 1 .. n |-> q[i]]
  <2> DEFINE at(i) == CHOOSE e \in S : Rank(e) = i - 1
  <2>1. q = [i \in 1 .. n |-> at(i)]
    BY DEF Sorted
  <2> HIDE DEF q, at, n
  <2> QED BY <2>1
<1>3. ASSUME NEW i \in 1 .. n PROVE q[i] \in S /\ Rank(q[i]) = i - 1
  <2>1. \E e \in S : Rank(e) = i - 1
    BY Ranks
  <2>2. q[i] = CHOOSE e \in S : Rank(e) = i - 1
    BY DEF Sorted
  <2> HIDE DEF q, Rank
  <2> QED BY <2>1, <2>2
<1> HIDE DEF q
<1>4. ASSUME NEW d \in S, NEW e \in S, d <= e PROVE Rank(d) <= Rank(e)
  <2>1. Lower(d) \in SUBSET Lower(e) /\ Lower(e) \in SUBSET S
    <3>1. ASSUME NEW c \in S, c < d PROVE c < e
      <4>1. c \in Nat /\ d \in Nat /\ e \in Nat
        OBVIOUS
      <4> QED BY <1>4, <3>1, <4>1
    <3> QED BY <3>1
  <2> HIDE DEF Lower
  <2>2. IsFiniteSet(Lower(e))
    BY <2>1, FS_Subset
  <2> QED BY <2>1, <2>2, FS_Subset
<1>5. ASSUME NEW d \in S, NEW e \in S, d < e PROVE Rank(d) # Rank(e)
  <2>1. Lower(d) \in SUBSET Lower(e) /\ Lower(e) \in SUBSET S /\ d \in Lower(e) /\ d \notin Lower(d)
    <3>1. ASSUME NEW c \in S, c < d PROVE c < e
      <4>1. c \in Nat /\ d \in Nat /\ e \in Nat
        OBVIOUS
      <4> QED BY <1>5, <3>1, <4>1
    <3>2. d < e /\ ~(d < d)
      <4>1. d \in Nat
        OBVIOUS
      <4> QED BY <1>5, <4>1
    <3> QED BY <3>1, <3>2
  <2> HIDE DEF Lower
  <2>2. IsFiniteSet(Lower(e))
    BY <2>1, FS_Subset
  <2> QED BY <2>1, <2>2, FS_Subset
<1>6. ASSUME NEW e \in S PROVE Rank(e) \in 0 .. n - 1
  <2>1. Lower(e) \in SUBSET S /\ e \notin Lower(e)
    OBVIOUS
  <2> HIDE DEF Lower
  <2>2. IsFiniteSet(Lower(e)) /\ Cardinality(Lower(e)) <= n /\ Cardinality(Lower(e)) # n
    BY <2>1, FS_Subset
  <2> QED BY <1>1, <2>2, FS_CardinalityType
<1> HIDE DEF Rank, n
<1>7. ASSUME NEW i \in 1 .. n, NEW j \in 1 .. n, i < j PROVE q[i] < q[j]
  <2>1. q[i] \in S /\ q[j] \in S /\ Rank(q[i]) = i - 1 /\ Rank(q[j]) = j - 1
    BY <1>3
  <2>2. q[i] \in Nat /\ q[j] \in Nat /\ ~(j - 1 <= i - 1)
    <3>1. ~(j - 1 <= i - 1)
      BY <1>1, <1>7
    <3> QED BY <2>1, <3>1
  <2>3. ~(q[j] <= q[i])
    BY <1>4, <2>1, <2>2
  <2> QED BY <2>2, <2>3
<1>8. q \in Seq(S) /\ Len(q) = n /\ DOMAIN q = 1 .. n
  BY <1>1, <1>2, <1>3
<1>9. ASSUME NEW e \in S PROVE e \in Range(q)
  <2> DEFINE i == Rank(e) + 1
  <2>1. i \in 1 .. n /\ i - 1 = Rank(e)
    BY <1>1, <1>6
  <2>2. q[i] \in S /\ Rank(q[i]) = Rank(e)
    BY <1>3, <2>1
  <2>3. q[i] = e
    <3>1. q[i] \in Nat /\ e \in Nat
      BY <2>2
    <3>2. q[i] < e \/ e < q[i] \/ q[i] = e
      BY <3>1
    <3> QED BY <1>5, <2>2, <3>2
  <2> QED BY <1>8, <2>1, <2>3 DEF Range
<1>10. Range(q) = S
  BY <1>3, <1>8, <1>9 DEF Range
<1> QED BY <1>1, <1>7, <1>8, <1>10 DEF q, n

-----------------------------------------------------------------------------
(* What the change points and the histogram are.                           *)

(* The values of a section. *)
Interval(s) == 2 * Sample[s[1]] .. 2 * Sample[s[2]]
RightEnd(s) == 2 * Sample[s[2]]
RightHalf(s) == <<Mid(s), s[2]>>

Doubled == \E count \in Counts : original = [p \in Points |-> 2 * count[p]]

(* The right end of a section is a change point of it: of a leaf from the  *)
(* start, of a divided one since its right half has been merged.           *)
EndsIn ==
  /\ \A s \in Sections : Ended(s) => RightEnd(s) \in Range(change_points[s])
  /\ \A s \in Sections : status[s] = "waiting" /\ status[RightHalf(s)] = "merged" =>
       RightEnd(s) \in Range(change_points[s])

Inside ==
  /\ change_points = [s \in Sections |-> change_points[s]]
  /\ \A s \in Sections : change_points[s] \in Seq(Interval(s))

Histogram ==
  LET edges == Sorted(Range(change_points[Root]))
  IN  [edges |-> edges,
       counts |-> IF Len(edges) = 1 THEN <<>> ELSE CountBetweenEdges(Values(Root), edges, original)]

IsHistogram == blocks # NoBlocks => status[Root] = "merged" /\ blocks = Histogram

DataInv == Doubled /\ EndsIn /\ Inside /\ IsHistogram

LEMMA WithinInterval ==
  ASSUME NEW s \in Sections, NEW t \in Sections, Within(t, s)
  PROVE  Interval(t) \subseteq Interval(s)
<1>1. /\ s[1] \in Points /\ s[2] \in Points /\ t[1] \in Points /\ t[2] \in Points
      /\ s[1] \in Nat /\ s[2] \in Nat /\ t[1] \in Nat /\ t[2] \in Nat
      /\ s[1] <= t[1] /\ t[2] <= s[2]
  BY SectionFacts DEF Within
<1>2. \A p \in Points : Sample[p] \in Nat
  BY SampleAssumption DEF Points
<1>3. Sample[s[1]] <= Sample[t[1]] /\ Sample[t[2]] <= Sample[s[2]]
  BY <1>1, SampleGrows
<1> QED BY <1>1, <1>2, <1>3 DEF Interval

LEMMA RangeOfBoth ==
  ASSUME NEW S, NEW a \in Seq(S), NEW b \in Seq(S)
  PROVE  a \o b \in Seq(S) /\ Range(a \o b) = Range(a) \cup Range(b)
<1>1. /\ a \o b \in Seq(S) /\ Len(a) \in Nat /\ Len(b) \in Nat
      /\ DOMAIN a = 1 .. Len(a) /\ DOMAIN b = 1 .. Len(b) /\ DOMAIN (a \o b) = 1 .. Len(a) + Len(b)
      /\ \A i \in 1 .. Len(a) : (a \o b)[i] = a[i]
      /\ \A i \in Len(a) + 1 .. Len(a) + Len(b) : (a \o b)[i] = b[i - Len(a)]
  OBVIOUS
<1>2. ASSUME NEW i \in 1 .. Len(a) PROVE a[i] \in Range(a \o b)
  <2>1. i \in 1 .. Len(a) + Len(b) /\ (a \o b)[i] = a[i]
    BY <1>1
  <2> QED BY <1>1, <2>1 DEF Range
<1>3. ASSUME NEW i \in 1 .. Len(b) PROVE b[i] \in Range(a \o b)
  <2> DEFINE j == Len(a) + i
  <2>1. j \in Len(a) + 1 .. Len(a) + Len(b) /\ j \in 1 .. Len(a) + Len(b) /\ j - Len(a) = i
    BY <1>1
  <2> HIDE DEF j
  <2>2. (a \o b)[j] = b[i]
    BY <1>1, <2>1
  <2> QED BY <1>1, <2>1, <2>2 DEF Range
<1>4. ASSUME NEW i \in 1 .. Len(a) + Len(b) PROVE (a \o b)[i] \in Range(a) \cup Range(b)
  <2>1. CASE i \in 1 .. Len(a)
    BY <1>1, <2>1 DEF Range
  <2>2. CASE i \in Len(a) + 1 .. Len(a) + Len(b)
    <3>1. i - Len(a) \in 1 .. Len(b) /\ (a \o b)[i] = b[i - Len(a)]
      BY <1>1, <2>2
    <3> QED BY <1>1, <3>1 DEF Range
  <2> QED BY <1>1, <2>1, <2>2
<1>5. \A y : y \in Range(a \o b) <=> y \in Range(a) \/ y \in Range(b)
  <2>1. ASSUME NEW y \in Range(a \o b) PROVE y \in Range(a) \/ y \in Range(b)
    <3>1. PICK i \in 1 .. Len(a) + Len(b) : (a \o b)[i] = y
      BY <1>1 DEF Range
    <3> QED BY <1>4, <3>1
  <2>2. ASSUME NEW y \in Range(a) PROVE y \in Range(a \o b)
    <3>1. PICK i \in 1 .. Len(a) : a[i] = y
      BY <1>1 DEF Range
    <3> QED BY <1>2, <3>1
  <2>3. ASSUME NEW y \in Range(b) PROVE y \in Range(a \o b)
    <3>1. PICK i \in 1 .. Len(b) : b[i] = y
      BY <1>1 DEF Range
    <3> QED BY <1>3, <3>1
  <2> QED BY <2>1, <2>2, <2>3
<1> QED BY <1>1, <1>5

LEMMA RootIsSection == Root \in Sections
BY SampleFacts DEF Root, Sections, Points

LEMMA WeightsOfRoot ==
  ASSUME TreeInv
  PROVE  WeightsOf(Root) = weights /\ Size(Root) = Len(Sample)
<1>1. weights \in [Points -> Nat] /\ Len(Sample) \in Nat
  BY SampleFacts DEF TreeInv, TasksType
<1>2. Size(Root) = Len(Sample) /\ Root[1] = 1
  BY <1>1 DEF Root, Size
<1>3. \A i \in 1 .. Len(Sample) : 1 + i - 1 = i
  OBVIOUS
<1>4. WeightsOf(Root) = [i \in 1 .. Len(Sample) |-> weights[i]]
  BY <1>2, <1>3 DEF WeightsOf
<1> QED BY <1>1, <1>2, <1>4 DEF Points

LEMMA ParentIsOne ==
  ASSUME TreeInv, NEW s \in Sections, NEW t \in Sections, Present(s), Present(t),
         Size(s) > WorkSize, Size(t) > WorkSize, NEW g, g \in Halves(s), g \in Halves(t)
  PROVE  s = t
<1> SUFFICES ASSUME s # t PROVE FALSE
  OBVIOUS
<1>1. /\ g \in Sections /\ g[1] < g[2] /\ g # s /\ g # t /\ Within(g, s) /\ Within(g, t)
      /\ g[1] \in Nat /\ g[2] \in Nat
  BY HalfFacts, SectionFacts
<1>2. s[1] \in Nat /\ s[2] \in Nat /\ t[1] \in Nat /\ t[2] \in Nat
  BY SectionFacts
<1>3. ASSUME NEW u \in Sections, NEW v \in Sections, Size(u) > WorkSize, g \in Halves(u),
             g # v, Within(g, v), Below(v, u)
      PROVE  FALSE
  <2>1. PICK h \in Halves(u) : Within(v, h)
    BY <1>3 DEF Below
  <2>2. h[1] \in Nat /\ h[2] \in Nat /\ v[1] \in Nat /\ v[2] \in Nat /\ h \in Sections
    BY <1>3, HalfFacts, SectionFacts
  <2>3. CASE g = h
    <3>1. g[1] = v[1] /\ g[2] = v[2]
      BY <1>1, <1>3, <2>1, <2>2, <2>3 DEF Within
    <3>2. g = <<g[1], g[2]>> /\ v = <<v[1], v[2]>>
      BY <1>1, <1>3, SectionFacts
    <3> QED BY <1>3, <3>1, <3>2
  <2>4. CASE g # h
    <3>1. Apart(g, h)
      BY <1>3, <2>4, HalvesApart
    <3> QED BY <1>1, <1>3, <2>1, <2>2, <3>1 DEF Apart, Within
  <2> QED BY <2>3, <2>4
<1>4. Apart(s, t) \/ Below(s, t) \/ Below(t, s)
  BY DEF TreeInv, Tree
<1>5. ~Apart(s, t)
  BY <1>1, <1>2 DEF Apart, Within
<1> QED BY <1>1, <1>3, <1>4, <1>5

LEMMA RootIsNoHalf ==
  ASSUME NEW s \in Sections, Size(s) > WorkSize
  PROVE  Root \notin Halves(s) /\ Root \in Sections
<1>1. Root \in Sections /\ Root[1] = 1 /\ Root[2] = Len(Sample)
  BY SampleFacts DEF Root, Sections, Points
<1> SUFFICES ASSUME Root \in Halves(s) PROVE FALSE
  BY <1>1
<1>2. Within(Root, s) /\ Root # s
  BY HalfFacts
<1>3. s = <<s[1], s[2]>> /\ s[1] \in Nat /\ s[2] \in Nat /\ s[1] >= 1 /\ s[2] <= Len(Sample)
  BY SectionFacts, SampleFacts DEF Points
<1>4. s[1] = 1 /\ s[2] = Len(Sample)
  BY <1>1, <1>2, <1>3, SampleFacts DEF Within
<1> QED BY <1>2, <1>3, <1>4 DEF Root

LEMMA RightHalfFacts ==
  ASSUME NEW s \in Sections, Size(s) > WorkSize
  PROVE  /\ RightHalf(s) \in Halves(s) /\ RightHalf(s) \in Sections /\ RightHalf(s) # s
         /\ RightEnd(RightHalf(s)) = RightEnd(s)
         /\ \A half \in Halves(s) : half \in Sections
  <1>1. RightHalf(s) \in Halves(s)
    BY DEF RightHalf, Halves
  <1>2. RightEnd(RightHalf(s)) = RightEnd(s)
    BY DEF RightEnd, RightHalf
  <1> QED BY <1>1, <1>2, HalfFacts

LEMMA LeafWeighs ==
  ASSUME TreeInv, WeightInv, NEW count \in Counts, original = [p \in Points |-> 2 * count[p]],
         NEW s \in Sections
  PROVE  Weighs(s, WeightsOf(s), count)
<1>1. Size(s) \in Nat \ {0} /\ \A i \in 1 .. Size(s) : s[1] + i - 1 \in Points
  BY ValuesAre, SectionFacts
<1>2. weights \in [Points -> Nat] /\ count \in [Points -> Nat]
  BY SampleAssumption DEF TreeInv, TasksType
<1>3. ASSUME NEW p \in Points PROVE weights[p] \in Nat /\ weights[p] <= 2 * count[p]
  <2>1. original[p] = 2 * count[p] /\ count[p] \in Nat /\ weights[p] \in Nat
    BY <1>2
  <2>2. weights[p] = original[p] \/ weights[p] = original[p] \div 2
    BY DEF WeightInv, Halved
  <2>3. \A n \in Nat : (2 * n) \div 2 <= 2 * n /\ 2 * n <= 2 * n
    OBVIOUS
  <2> QED BY <2>1, <2>2, <2>3
<1>4. WeightsOf(s) = [i \in 1 .. Size(s) |-> weights[s[1] + i - 1]]
  BY DEF WeightsOf
<1>5. \A i \in 1 .. Size(s) : weights[s[1] + i - 1] \in Nat
  BY <1>1, <1>3
<1>6. WeightsOf(s) \in Seq(Nat) /\ Len(WeightsOf(s)) = Size(s)
      /\ \A i \in 1 .. Size(s) : WeightsOf(s)[i] = weights[s[1] + i - 1]
  BY <1>1, <1>4, <1>5
<1> QED BY <1>1, <1>3, <1>6 DEF Weighs

LEMMA RangeIsFinite ==
  ASSUME NEW S, NEW q \in Seq(S)
  PROVE  IsFiniteSet(Range(q)) /\ Range(q) \in SUBSET S
<1>1. Len(q) \in Nat /\ DOMAIN q = 1 .. Len(q) /\ \A i \in 1 .. Len(q) : q[i] \in S
  OBVIOUS
<1>2. q \in Surjection(1 .. Len(q), Range(q))
  <2>1. q \in [1 .. Len(q) -> Range(q)]
    BY <1>1 DEF Range
  <2> QED BY <1>1, <2>1 DEF Surjection, Range
<1>3. IsFiniteSet(1 .. Len(q))
  BY <1>1, FS_Interval
<1> QED BY <1>1, <1>2, <1>3, FS_Surjection DEF Range

LEMMA DataStep == TreeInv /\ WeightInv /\ DataInv /\ [Next]_vars => DataInv'
<1> SUFFICES ASSUME TreeInv, WeightInv, DataInv, [Next]_vars PROVE DataInv'
  OBVIOUS
<1>1. /\ status \in [Sections -> Status]
      /\ change_points = [t \in Sections |-> change_points[t]]
      /\ \A t \in Sections : change_points[t] \in Seq(Interval(t))
      /\ \A t \in Sections : Ended(t) => RightEnd(t) \in Range(change_points[t])
      /\ \A t \in Sections : status[t] = "waiting" /\ status[RightHalf(t)] = "merged" =>
           RightEnd(t) \in Range(change_points[t])
      /\ blocks # NoBlocks => status[Root] = "merged" /\ blocks = Histogram
  BY DEF TreeInv, TasksType, DataInv, EndsIn, Inside, IsHistogram
<1>2. \A t \in Sections : status[t] = "waiting" => Size(t) > WorkSize
  BY DEF WeightInv, WaitingIsLarge
(* Steps that move the status of calls only. *)
<1>3. ASSUME UNCHANGED <<original, change_points, blocks>>,
             \A t \in Sections : status'[t] \in {"computed", "merged"} => Ended(t),
             \A t \in Sections : status'[t] = "waiting" /\ status'[RightHalf(t)] = "merged" =>
               status[t] = "waiting" /\ status[RightHalf(t)] = "merged",
             status[Root] = "merged" => status'[Root] = "merged"
      PROVE  DataInv'
  <2>1. Doubled' /\ Inside'
    BY <1>3 DEF DataInv, Doubled, Inside
  <2>2. EndsIn'
    BY <1>1, <1>3 DEF EndsIn, Ended
  <2>3. IsHistogram'
    BY <1>1, <1>3 DEF IsHistogram, Histogram
  <2> QED BY <2>1, <2>2, <2>3 DEF DataInv
<1>4. ASSUME NEW s \in Sections, Divide(s) PROVE DataInv'
  <2>1. /\ status[s] = "called" /\ Size(s) > WorkSize
        /\ status' = [t \in Sections |->
                        IF t = s THEN "waiting"
                        ELSE IF t \in Halves(s) THEN "called" ELSE status[t]]
        /\ UNCHANGED <<original, change_points, blocks>>
    BY <1>4 DEF Divide
  <2>2. RightHalf(s) \in Halves(s) /\ RightHalf(s) \in Sections /\ RightHalf(s) # s
        /\ Root \notin Halves(s) /\ Root \in Sections
    BY <2>1, RightHalfFacts, RootIsNoHalf
  <2>3. \A t \in Sections :
          status'[t] \in {"computed", "merged"} => Ended(t) /\ status'[t] = status[t]
    BY <2>1 DEF Ended
  <2>4. ASSUME NEW t \in Sections, status'[t] = "waiting", status'[RightHalf(t)] = "merged"
        PROVE  status[t] = "waiting" /\ status[RightHalf(t)] = "merged"
    <3>1. t # s
      BY <2>1, <2>2, <2>4
    <3>2. status[t] = "waiting"
      BY <2>1, <2>4, <3>1
    <3>3. RightHalf(t) \in Sections
      BY <1>2, <3>2, RightHalfFacts
    <3> QED BY <2>3, <2>4, <3>2, <3>3
  <2>5. status[Root] = "merged" => status'[Root] = "merged"
    BY <2>1, <2>2
  <2> QED BY <1>3, <2>1, <2>3, <2>4, <2>5
<1>5. ASSUME NEW s \in Sections, Start(s) PROVE DataInv'
  <2>1. /\ status[s] = "called" /\ status' = [status EXCEPT ![s] = "working"]
        /\ UNCHANGED <<original, change_points, blocks>>
    BY <1>5 DEF Start
  <2>2. \A t \in Sections : status'[t] = IF t = s THEN "working" ELSE status[t]
    BY <1>1, <2>1
  <2>3. ASSUME NEW t \in Sections, status'[t] = "waiting", status'[RightHalf(t)] = "merged"
        PROVE  status[t] = "waiting" /\ status[RightHalf(t)] = "merged"
    <3>1. status[t] = "waiting"
      BY <2>2, <2>3
    <3>2. RightHalf(t) \in Sections
      BY <1>2, <3>1, RightHalfFacts
    <3> QED BY <2>2, <2>3, <3>1, <3>2
  <2>4. Root \in Sections
    BY SampleFacts DEF Root, Sections, Points
  <2> QED BY <1>3, <2>1, <2>2, <2>3, <2>4 DEF Ended
<1>6. ASSUME NEW s \in Sections, Finish(s) PROVE DataInv'
  <2> DEFINE found == Conquer(Values(s), WeightsOf(s))
  <2>1. /\ status[s] = "working" /\ status' = [status EXCEPT ![s] = "computed"]
        /\ change_points' = [change_points EXCEPT ![s] = found]
        /\ UNCHANGED <<original, blocks>>
    BY <1>6 DEF Finish
  <2>2. PICK count \in Counts : original = [p \in Points |-> 2 * count[p]]
    BY DEF DataInv, Doubled
  <2>3. found \in Seq(Interval(s)) /\ RightEnd(s) \in Range(found)
    <3>1. Weighs(s, WeightsOf(s), count)
      BY <2>2, LeafWeighs
    <3> QED BY <3>1, ConquerType DEF Interval, RightEnd
  <2> HIDE DEF found
  <2>4. /\ \A t \in Sections : status'[t] = IF t = s THEN "computed" ELSE status[t]
        /\ \A t \in Sections : change_points'[t] = IF t = s THEN found ELSE change_points[t]
    BY <1>1, <2>1
  <2>5. Doubled' /\ Inside'
    BY <1>1, <2>1, <2>2, <2>3, <2>4 DEF Doubled, Inside
  <2>6. ASSUME NEW t \in Sections, Ended(t)' PROVE (RightEnd(t) \in Range(change_points[t]))'
    BY <1>1, <2>3, <2>4, <2>6 DEF Ended
  <2>7. ASSUME NEW t \in Sections, status'[t] = "waiting", status'[RightHalf(t)] = "merged"
        PROVE  RightEnd(t) \in Range(change_points'[t])
    <3>1. status[t] = "waiting" /\ t # s
      BY <2>4, <2>7
    <3>2. RightHalf(t) \in Sections
      BY <1>2, <3>1, RightHalfFacts
    <3>3. status[RightHalf(t)] = "merged"
      BY <2>4, <2>7, <3>2
    <3> QED BY <1>1, <2>4, <3>1, <3>3
  <2>8. IsHistogram'
    <3>1. Root \in Sections
      BY SampleFacts DEF Root, Sections, Points
    <3> QED BY <1>1, <2>1, <2>4, <3>1 DEF IsHistogram, Histogram
  <2> QED BY <2>5, <2>6, <2>7, <2>8 DEF DataInv, EndsIn
<1>7. ASSUME NEW s \in Sections, Join(s) PROVE DataInv'
  <2>1. /\ status[s] = "waiting" /\ \A half \in Halves(s) : status[half] = "merged"
        /\ status' = [status EXCEPT ![s] = "computed"]
        /\ UNCHANGED <<original, change_points, blocks>>
    BY <1>7 DEF Join
  <2>2. RightHalf(s) \in Halves(s)
    BY <1>2, <2>1, RightHalfFacts
  <2>3. RightEnd(s) \in Range(change_points[s])
    BY <1>1, <2>1, <2>2
  <2>4. \A t \in Sections : status'[t] = IF t = s THEN "computed" ELSE status[t]
    BY <1>1, <2>1
  <2>5. Doubled' /\ Inside'
    BY <2>1 DEF DataInv, Doubled, Inside
  <2>6. ASSUME NEW t \in Sections, Ended(t)' PROVE (RightEnd(t) \in Range(change_points[t]))'
    BY <1>1, <2>1, <2>3, <2>4, <2>6 DEF Ended
  <2>7. ASSUME NEW t \in Sections, status'[t] = "waiting", status'[RightHalf(t)] = "merged"
        PROVE  RightEnd(t) \in Range(change_points'[t])
    <3>1. status[t] = "waiting" /\ t # s
      BY <2>4, <2>7
    <3>2. RightHalf(t) \in Sections
      BY <1>2, <3>1, RightHalfFacts
    <3>3. status[RightHalf(t)] = "merged"
      BY <2>4, <2>7, <3>2
    <3> QED BY <1>1, <2>1, <3>1, <3>3
  <2>8. IsHistogram'
    <3>1. Root \in Sections
      BY SampleFacts DEF Root, Sections, Points
    <3> QED BY <1>1, <2>1, <2>4, <3>1 DEF IsHistogram, Histogram
  <2> QED BY <2>5, <2>6, <2>7, <2>8 DEF DataInv, EndsIn
<1>8. ASSUME NEW s \in Sections, NEW half \in Halves(s) \cap Sections, Merge(s, half)
      PROVE  DataInv'
  <2>1. /\ status[s] = "waiting" /\ status[half] = "computed"
        /\ status' = [status EXCEPT ![half] = "merged"]
        /\ change_points' = [change_points EXCEPT ![s] = @ \o change_points[half]]
        /\ UNCHANGED <<original, blocks>>
    BY <1>8 DEF Merge
  <2> DEFINE both == change_points[s] \o change_points[half]
  <2>2. /\ Size(s) > WorkSize /\ half \in Sections /\ half # s /\ Within(half, s)
    BY <1>2, <2>1, HalfFacts
  <2>3. change_points[s] \in Seq(Interval(s)) /\ change_points[half] \in Seq(Interval(s))
    <3>1. Interval(half) \subseteq Interval(s)
      BY <2>2, WithinInterval
    <3> QED BY <1>1, <2>2, <3>1
  <2>4. /\ both \in Seq(Interval(s))
        /\ Range(both) = Range(change_points[s]) \cup Range(change_points[half])
    BY <2>3, RangeOfBoth
  <2> HIDE DEF both
  <2>5. /\ \A t \in Sections : status'[t] = IF t = half THEN "merged" ELSE status[t]
        /\ \A t \in Sections : change_points'[t] = IF t = s THEN both ELSE change_points[t]
    BY <1>1, <2>1 DEF both
  <2>6. Doubled' /\ Inside'
    <3>1. Doubled'
      BY <2>1 DEF DataInv, Doubled
    <3> QED BY <1>1, <2>1, <2>4, <2>5, <3>1 DEF Inside
  <2>7. ASSUME NEW t \in Sections, RightEnd(t) \in Range(change_points[t])
        PROVE  RightEnd(t) \in Range(change_points'[t])
    BY <2>4, <2>5, <2>7
  <2>8. ASSUME NEW t \in Sections, Ended(t)' PROVE (RightEnd(t) \in Range(change_points[t]))'
    BY <1>1, <2>1, <2>5, <2>7, <2>8 DEF Ended
  <2>9. ASSUME NEW t \in Sections, status'[t] = "waiting", status'[RightHalf(t)] = "merged"
        PROVE  RightEnd(t) \in Range(change_points'[t])
    <3>1. status[t] = "waiting"
      BY <2>5, <2>9
    <3>2. /\ RightHalf(t) \in Sections /\ RightHalf(t) \in Halves(t)
          /\ RightEnd(RightHalf(t)) = RightEnd(t)
      BY <1>2, <3>1, RightHalfFacts
    <3>3. CASE RightHalf(t) # half
      <4>1. status[RightHalf(t)] = "merged"
        BY <2>5, <2>9, <3>2, <3>3
      <4> QED BY <1>1, <2>7, <3>1, <4>1
    <3>4. CASE RightHalf(t) = half
      <4>1. s = t
        BY <1>2, <1>8, <2>1, <3>1, <3>2, <3>4, ParentIsOne DEF Present
      <4>2. RightEnd(t) \in Range(change_points[half])
        BY <1>1, <2>1, <2>2, <3>2, <3>4 DEF Ended
      <4> QED BY <2>4, <2>5, <4>1, <4>2
    <3> QED BY <3>3, <3>4
  <2>10. IsHistogram'
    <3>1. Root \in Sections
      BY SampleFacts DEF Root, Sections, Points
    <3> QED BY <1>1, <2>1, <2>5, <3>1 DEF IsHistogram, Histogram
  <2> QED BY <2>6, <2>8, <2>9, <2>10 DEF DataInv, EndsIn
<1>9. ASSUME BuildBlocks PROVE DataInv'
  <2>1. /\ status[Root] = "computed" /\ status' = [status EXCEPT ![Root] = "merged"]
        /\ UNCHANGED <<original, weights, change_points>>
    BY <1>9 DEF BuildBlocks
  <2>2. weights = original
    BY <2>1, RootRestored
  <2>3. blocks' \in {NoBlocks, Histogram}
    <3> DEFINE e == Sorted(Range(change_points[Root]))
               c == CountBetweenEdges(Values(Root), e, original)
    <3>1. blocks' \in IF Len(e) = 1 THEN {NoBlocks, [edges |-> e, counts |-> <<>>]}
                      ELSE {[edges |-> e, counts |-> c]}
      BY <1>9, <2>2, WeightsOfRoot DEF BuildBlocks
    <3>2. Histogram = [edges |-> e, counts |-> IF Len(e) = 1 THEN <<>> ELSE c]
      BY DEF Histogram
    <3> HIDE DEF e, c
    <3> QED BY <3>1, <3>2
  <2>4. Root \in Sections
    BY SampleFacts DEF Root, Sections, Points
  <2>5. \A t \in Sections : status'[t] = IF t = Root THEN "merged" ELSE status[t]
    BY <1>1, <2>1
  <2>6. IsHistogram'
    BY <2>1, <2>3, <2>4, <2>5 DEF IsHistogram, Histogram
  <2>7. ASSUME NEW t \in Sections, Ended(t)' PROVE (RightEnd(t) \in Range(change_points[t]))'
    BY <1>1, <2>1, <2>5, <2>7 DEF Ended
  <2>8. ASSUME NEW t \in Sections, status'[t] = "waiting", status'[RightHalf(t)] = "merged"
        PROVE  RightEnd(t) \in Range(change_points'[t])
    <3>1. status[t] = "waiting"
      BY <2>5, <2>8
    <3>2. RightHalf(t) \in Sections /\ RightHalf(t) # Root
      BY <1>2, <3>1, RightHalfFacts, RootIsNoHalf
    <3>3. status[RightHalf(t)] = "merged"
      BY <2>5, <2>8, <3>2
    <3> QED BY <1>1, <2>1, <3>1, <3>3
  <2>9. Doubled' /\ Inside'
    BY <2>1 DEF DataInv, Doubled, Inside
  <2> QED BY <2>6, <2>7, <2>8, <2>9 DEF DataInv, EndsIn
<1>10. CASE UNCHANGED vars
  BY <1>10 DEF vars, DataInv, Doubled, EndsIn, Inside, IsHistogram, Histogram, Ended
<1> QED BY <1>4, <1>5, <1>6, <1>7, <1>8, <1>9, <1>10 DEF Next, Finished

LEMMA CountsType ==
  ASSUME NEW x, Len(x) \in Nat, NEW w \in [1 .. Len(x) -> Nat], NEW edges, Len(edges) \in Nat \ {0}
  PROVE  /\ CountBetweenEdges(x, edges, w) \in Seq(Nat)
         /\ DOMAIN CountBetweenEdges(x, edges, w) = 1 .. Len(edges) - 1
<1> DEFINE n == Len(edges) - 1
           of(i) == [k \in 1 .. Len(x) |-> IF Bins(x, edges)[k] = i THEN w[k] ELSE 0]
<1>1. n \in Nat
  OBVIOUS
<1>2. ASSUME NEW i \in 1 .. n PROVE Total(of(i)) \in Nat
  <2>1. of(i) \in Seq(Nat)
    OBVIOUS
  <2> HIDE DEF of
  <2> QED BY <2>1, UptoGrows
<1>3. CountBetweenEdges(x, edges, w) = [i \in 1 .. n |-> Total(of(i))]
  BY DEF CountBetweenEdges
<1> HIDE DEF n, of
<1>4. [i \in 1 .. n |-> Total(of(i))] \in [1 .. n -> Nat]
  BY <1>2
<1> QED BY <1>1, <1>3, <1>4 DEF n

LEMMA DataTyped == TreeInv /\ WeightInv /\ DataInv => TypeOK
<1> SUFFICES ASSUME TreeInv, WeightInv, DataInv PROVE TypeOK
  OBVIOUS
<1>1. PICK count \in Counts : original = [p \in Points |-> 2 * count[p]]
  BY DEF DataInv, Doubled
<1>2. /\ original \in [Points -> Nat] /\ weights \in [Points -> Nat]
      /\ status \in [Sections -> Status]
  BY DEF TreeInv, TasksType
<1>3. \A p \in Points : weights[p] \in {original[p], original[p] \div 2}
  BY DEF WeightInv, Halved
<1>4. ASSUME NEW s \in Sections PROVE change_points[s] \in Seq(Edges)
  <2>1. Interval(s) \subseteq Edges
    <3>1. 2 * Sample[s[1]] \in Edges /\ 2 * Sample[s[2]] \in Edges
      BY SectionExtent
    <3>2. \A n \in Nat : \A i, j \in 0 .. n : i .. j \subseteq 0 .. n
      OBVIOUS
    <3>3. 2 * Sample[Len(Sample)] \in Nat
      BY SampleAssumption
    <3> QED BY <3>1, <3>2, <3>3 DEF Interval, Edges
  <2>2. change_points[s] \in Seq(Interval(s))
    BY DEF DataInv, Inside
  <2> QED BY <2>1, <2>2
<1>5. change_points \in [Sections -> Seq(Edges)]
  BY <1>4 DEF DataInv, Inside
<1>6. blocks \in [edges : Seq(Edges), counts : Seq(Nat)]
  <2>1. CASE blocks = NoBlocks
    <3>1. <<>> \in Seq(Edges) /\ <<>> \in Seq(Nat)
      OBVIOUS
    <3> QED BY <2>1, <3>1 DEF NoBlocks
  <2>2. CASE blocks # NoBlocks
    <3> DEFINE S == Range(change_points[Root])
               e == Sorted(S)
               c == IF Len(e) = 1 THEN <<>> ELSE CountBetweenEdges(Values(Root), e, original)
    <3>1. Root \in Sections /\ status[Root] = "merged" /\ blocks = [edges |-> e, counts |-> c]
      BY <2>2, RootIsSection DEF DataInv, IsHistogram, Histogram
    <3>2. IsFiniteSet(S) /\ S \in SUBSET Edges /\ S \in SUBSET Nat
      <4>1. Edges \subseteq Nat
        BY SampleAssumption DEF Edges
      <4>2. change_points[Root] \in Seq(Edges)
        BY <1>4, <3>1
      <4> QED BY <4>1, <4>2, RangeIsFinite
    <3>3. S # {}
      BY <3>1 DEF DataInv, EndsIn, Ended
    <3> HIDE DEF S
    <3>4. e \in Seq(S) /\ Len(e) = Cardinality(S) /\ Len(e) \in Nat
      BY <3>2, SortedIs
    <3>5. Len(e) \in Nat \ {0} /\ e \in Seq(Edges)
      <4>1. Cardinality(S) # 0
        BY <3>2, <3>3, FS_EmptySet
      <4>2. e \in Seq(Edges)
        <5> HIDE DEF e
        <5>1. ASSUME NEW i \in 1 .. Len(e) PROVE e[i] \in Edges
          <6>1. e[i] \in S
            BY <3>4
          <6> QED BY <3>2, <6>1
        <5>2. e = [i \in 1 .. Len(e) |-> e[i]]
          BY <3>4
        <5> QED BY <3>4, <5>1, <5>2
      <4> QED BY <3>4, <4>1, <4>2
    <3> HIDE DEF e
    <3>6. c \in Seq(Nat)
      <4>1. original \in [1 .. Len(Values(Root)) -> Nat] /\ Len(Values(Root)) \in Nat
        BY <1>2, <3>1, ValuesAre, WeightsOfRoot, SampleFacts DEF Points
      <4>2. CountBetweenEdges(Values(Root), e, original) \in Seq(Nat)
        BY <3>5, <4>1, CountsType
      <4>3. <<>> \in Seq(Nat)
        OBVIOUS
      <4> QED BY <4>2, <4>3
    <3> HIDE DEF c
    <3> QED BY <3>1, <3>5, <3>6
  <2> QED BY <2>1, <2>2
<1> QED BY <1>1, <1>2, <1>3, <1>5, <1>6 DEF TypeOK

LEMMA InitialData == Init => DataInv
<1> SUFFICES ASSUME Init PROVE DataInv
  OBVIOUS
<1>1. Doubled
  BY DEF Init, Doubled
<1>2. \A s \in Sections : status[s] \in {"called", "absent"}
  BY DEF Init
<1>3. EndsIn
  BY <1>2 DEF EndsIn, Ended
<1>4. Inside
  <2>1. \A S : <<>> \in Seq(S)
    OBVIOUS
  <2> QED BY <2>1 DEF Init, Inside
<1>5. IsHistogram
  BY DEF Init, IsHistogram
<1> QED BY <1>1, <1>3, <1>4, <1>5 DEF DataInv

LEMMA DataInvariant == Spec => [](TreeInv /\ WeightInv /\ DataInv)
<1>1. TreeInv /\ WeightInv /\ DataInv /\ [Next]_vars => DataInv'
  BY DataStep
<1> QED BY <1>1, InitialData, TreeInvariant, PTL DEF Spec

(* TypeOK: every variable keeps its type. What a task computes for its     *)
(* section (conquer_bayesian_binning) are edges within the extent of the   *)
(* section, because the table of logarithms has all that the fitness asks  *)
(* for; two edges or more make counts that are numbers. Nothing is said of *)
(* the counting over a single edge, which leaves the arrays of the code    *)
(* (count_between_edges): BuildBlocks has the histograms that the program  *)
(* may go on with, and EventsCounted when that happens.                    *)
THEOREM TypeCorrect == Spec => []TypeOK
BY DataInvariant, DataTyped, PTL

(* The edges of the blocks increase; the block that a value is in. *)
Ordered(e) == \A i, j \in 1 .. Len(e) : i < j => e[i] < e[j]
In(v, e, i) == v <= e[i + 1] /\ (v > e[i] \/ (i = 1 /\ v = e[1]))

(* The pass puts every value into the block that it is in. *)
LEMMA BinsFit ==
  ASSUME NEW x, Spaced(x), NEW e \in Seq(Nat), Len(e) > 1, Ordered(e),
         e[1] = x[1], e[Len(e)] = x[Len(x)], NEW k \in 1 .. Len(x)
  PROVE  Bins(x, e)[k] \in 1 .. Len(e) - 1 /\ In(x[k], e, Bins(x, e)[k])
<1> DEFINE n == Len(x)
           last == Len(e) - 1
           b == Bins(x, e)
<1>1. /\ n \in Nat \ {0} /\ \A i \in 1 .. n : x[i] \in Nat
      /\ \A i, j \in 1 .. n : i < j => x[i] < x[j]
  <2>1. n \in Nat \ {0} /\ \A i \in 1 .. n : x[i] \in Nat
    BY DEF Spaced
  <2>2. ASSUME NEW i \in 1 .. n, NEW j \in 1 .. n, i < j PROVE x[i] < x[j]
    <3>1. x[i] + 2 <= x[j] /\ x[i] \in Nat /\ x[j] \in Nat
      BY <2>1, <2>2 DEF Spaced
    <3>2. \A p, q \in Nat : p + 2 <= q => p < q
      OBVIOUS
    <3> QED BY <3>1, <3>2
  <2> QED BY <2>1, <2>2
<1>2. /\ Len(e) \in Nat /\ last \in Nat \ {0} /\ Len(e) = last + 1
      /\ \A i \in 1 .. last + 1 : e[i] \in Nat
      /\ \A i, j \in 1 .. last + 1 : i < j => e[i] < e[j]
  BY DEF Ordered
<1>3. \A i \in 1 .. n : b[i] = NextBin(e, IF i = 1 THEN 1 ELSE b[i - 1], x[i])
  BY <1>1, BinsAre
<1>4. e[last + 1] = x[n] /\ Len(e) - 1 = last
  BY <1>2
<1> HIDE DEF b, n, last
<1> DEFINE Fits(i) == b[i] \in 1 .. last /\ In(x[i], e, b[i])
           T == {i \in 0 .. n : i > 0 => Fits(i)}
<1>5. 0 \in T
  BY <1>1
<1>6. ASSUME NEW i \in 1 .. n, 0 .. i - 1 \subseteq T PROVE i \in T
  <2> DEFINE from == IF i = 1 THEN 1 ELSE b[i - 1]
             v == x[i]
             ends == {j \in 1 .. last : v <= e[j + 1]}
             m == Min(ends)
  <2>1. v \in Nat /\ v <= e[last + 1] /\ i \in 0 .. n
    <3>1. n \in 1 .. n /\ x[i] \in Nat /\ x[n] \in Nat /\ (i = n \/ i < n)
      BY <1>1
    <3>2. i = n \/ x[i] < x[n]
      BY <1>1, <3>1
    <3> QED BY <1>1, <1>4, <3>1, <3>2
  <2>2. m \in ends /\ \A j \in ends : m <= j
    <3>1. ends \in SUBSET Nat /\ last \in ends
      BY <1>2, <2>1
    <3> HIDE DEF ends
    <3> QED BY <3>1, MinIs
  <2>3. m \in 1 .. last /\ v <= e[m + 1] /\ \A j \in 1 .. last : v <= e[j + 1] => m <= j
    BY <2>2
  <2> HIDE DEF m, ends
  <2>4. /\ m \in 1 .. last + 1 /\ m + 1 \in 1 .. last + 1 /\ e[m] \in Nat /\ e[m + 1] \in Nat
    BY <1>2, <2>3
  <2>5. m > 1 => e[m] < v
    <3> SUFFICES ASSUME m > 1 PROVE e[m] < v
      OBVIOUS
    <3>1. m - 1 \in 1 .. last /\ (m - 1) + 1 = m /\ ~(m <= m - 1)
      BY <1>2, <2>3
    <3>2. ~(v <= e[m])
      BY <2>3, <3>1
    <3>3. v \in Nat /\ e[m] \in Nat
      BY <2>1, <2>4
    <3> HIDE DEF v
    <3>4. \A p, q \in Nat : p < q \/ q <= p
      OBVIOUS
    <3> QED BY <3>2, <3>3, <3>4
  <2>6. from \in 1 .. last /\ (i > 1 => e[from] < v) /\ (i = 1 => v = e[1])
    <3>1. CASE i = 1
      BY <1>2, <3>1 DEF n
    <3>2. CASE i > 1
      <4>1. i - 1 \in 0 .. i - 1 /\ i - 1 \in 1 .. n /\ i - 1 > 0 /\ i # 1
        BY <1>1, <3>2
      <4>2. Fits(i - 1) /\ from = b[i - 1] /\ x[i - 1] < v
        <5>1. Fits(i - 1)
          BY <1>6, <4>1
        <5>2. x[i - 1] < v
          BY <1>1, <4>1
        <5> QED BY <4>1, <5>1, <5>2
      <4> HIDE DEF from, v
      <4>3. /\ from \in 1 .. last /\ (x[i - 1] > e[from] \/ (from = 1 /\ x[i - 1] = e[1]))
        BY <4>2 DEF In
      <4>4. e[from] \in Nat /\ x[i - 1] \in Nat /\ v \in Nat
        BY <1>1, <1>2, <2>1, <4>1, <4>3
      <4>5. e[from] < v
        <5>1. CASE x[i - 1] > e[from]
          <6>1. \A p, q, t \in Nat : p > q /\ p < t => q < t
            OBVIOUS
          <6> QED BY <4>2, <4>4, <5>1, <6>1
        <5>2. CASE x[i - 1] = e[from]
          BY <4>2, <5>2
        <5> QED BY <4>3, <5>1, <5>2
      <4> QED BY <4>1, <4>3, <4>5
    <3> QED BY <1>1, <3>1, <3>2
  <2>7. In(v, e, m)
    <3>1. CASE m > 1
      BY <2>1, <2>3, <2>4, <2>5, <3>1 DEF In
    <3>2. CASE m = 1
      <4>1. i = 1 \/ e[1] < v
        <5>1. CASE i > 1
          <6>1. x[1] < v
            BY <1>1, <5>1
          <6> QED BY <6>1
        <5> QED BY <1>1, <5>1
      <4>2. v = e[1] \/ v > e[1]
        BY <2>1, <2>4, <2>6, <3>2, <4>1
      <4> QED BY <2>3, <3>2, <4>2 DEF In
    <3> QED BY <2>3, <3>1, <3>2
  <2>8. b[i] = NextBin(e, from, v)
    BY <1>3
  <2> HIDE DEF v
  <2>9. m >= from
    <3> SUFFICES ASSUME m < from PROVE FALSE
      BY <2>3, <2>6
    <3>1. i > 1
      BY <1>1, <2>3
    <3> HIDE DEF from
    <3>2. m + 1 \in 1 .. last + 1 /\ from \in 1 .. last + 1 /\ (m + 1 < from \/ m + 1 = from)
      BY <1>2, <2>3, <2>6
    <3>3. e[m + 1] <= e[from] /\ e[from] \in Nat
      <4>1. CASE m + 1 < from
        <5>1. e[m + 1] < e[from] /\ e[m + 1] \in Nat /\ e[from] \in Nat
          BY <1>2, <3>2, <4>1
        <5> QED BY <5>1
      <4>2. CASE m + 1 = from
        BY <2>4, <4>2
      <4> QED BY <3>2, <4>1, <4>2
    <3>4. v <= e[m + 1] /\ e[from] < v
      BY <2>3, <2>6, <3>1
    <3> HIDE DEF v
    <3>5. \A p, q, t \in Nat : ~(p <= q /\ q <= t /\ t < p)
      OBVIOUS
    <3> QED BY <2>1, <2>4, <3>3, <3>4, <3>5
  <2> HIDE DEF from
  <2>10. /\ b[i] \in from .. last
         /\ b[i] = last \/ (e[b[i]] <= v /\ v <= e[b[i] + 1])
         /\ \A j \in from .. b[i] - 1 : ~(e[j] <= v /\ v <= e[j + 1])
    <3>1. Len(e) \in Nat /\ from \in 1 .. Len(e) - 1
      BY <1>2, <1>4, <2>6
    <3>2. /\ b[i] \in from .. Len(e) - 1
          /\ b[i] = Len(e) - 1 \/ (e[b[i]] <= v /\ v <= e[b[i] + 1])
          /\ \A j \in from .. b[i] - 1 : ~(e[j] <= v /\ v <= e[j + 1])
      <4>1. LET j == NextBin(e, from, v)
            IN  /\ j \in from .. Len(e) - 1
                /\ j = Len(e) - 1 \/ (e[j] <= v /\ v <= e[j + 1])
                /\ \A a \in from .. j - 1 : ~(e[a] <= v /\ v <= e[a + 1])
        BY <3>1, NextBinIs
      <4> QED BY <2>8, <4>1
    <3> QED BY <1>4, <3>2
  <2>11. b[i] <= m
    <3> SUFFICES ASSUME m < b[i] PROVE FALSE
      BY <2>3, <2>6, <2>10
    <3>1. m \in from .. b[i] - 1
      BY <2>3, <2>6, <2>9, <2>10
    <3>2. e[m] <= v /\ v <= e[m + 1]
      <4>1. CASE v > e[m]
        BY <2>1, <2>3, <2>4, <4>1
      <4>2. CASE m = 1 /\ v = e[1]
        BY <2>1, <2>3, <2>4, <4>2
      <4> QED BY <2>7, <4>1, <4>2 DEF In
    <3> QED BY <2>10, <3>1, <3>2
  <2>12. m <= b[i]
    <3>1. b[i] \in 1 .. last
      BY <2>6, <2>10
    <3>2. CASE b[i] = last
      BY <2>3, <3>2
    <3>3. CASE b[i] # last
      BY <2>3, <2>10, <3>1, <3>3
    <3> QED BY <3>2, <3>3
  <2>13. b[i] = m
    BY <2>3, <2>6, <2>10, <2>11, <2>12
  <2>14. Fits(i)
    BY <2>3, <2>7, <2>13 DEF v
  <2> HIDE DEF Fits
  <2> QED BY <2>1, <2>14
<1>7. 0 .. n \subseteq T
  <2> HIDE DEF T
  <2> QED BY <1>1, <1>5, <1>6, Induction
<1>8. k \in 0 .. n /\ k > 0
  BY <1>1 DEF n
<1>9. Fits(k)
  <2> HIDE DEF Fits
  <2> QED BY <1>7, <1>8
<1> QED BY <1>4, <1>9 DEF b

-----------------------------------------------------------------------------
(* The blocks that a value is in.                                          *)

(* A value is in one block only. *)
LEMMA BlockIsOne ==
  ASSUME NEW e \in Seq(Nat), Ordered(e), NEW v \in Nat,
         NEW i \in 1 .. Len(e) - 1, NEW j \in 1 .. Len(e) - 1, In(v, e, i), In(v, e, j)
  PROVE  i = j
<1> DEFINE last == Len(e) - 1
<1>0. /\ last \in Int /\ i \in 1 .. last /\ j \in 1 .. last
      /\ \A k \in 1 .. last + 1 : e[k] \in Nat
      /\ \A k, m \in 1 .. last + 1 : k < m => e[k] < e[m]
  <2>1. Len(e) \in Nat /\ \A k \in 1 .. Len(e) : e[k] \in Nat
    BY ElementsOf
  <2>2. last \in Int /\ last + 1 = Len(e)
    BY <2>1
  <2>3. \A k, m \in 1 .. Len(e) : k < m => e[k] < e[m]
    BY DEF Ordered
  <2> QED BY <2>1, <2>2, <2>3
<1> HIDE DEF last
<1>1. ASSUME NEW a \in 1 .. last, NEW b \in 1 .. last, In(v, e, a), In(v, e, b), a < b
      PROVE  FALSE
  <2>1. /\ a + 1 \in 1 .. last + 1 /\ b \in 1 .. last + 1 /\ b # 1
        /\ a + 1 = b \/ a + 1 < b
    BY <1>0, <1>1
  <2> DEFINE y == e[a + 1]
             z == e[b]
  <2>2. y \in Nat /\ z \in Nat /\ (a + 1 = b => y = z) /\ (a + 1 < b => y < z)
    BY <1>0, <2>1
  <2>3. v <= y /\ v > z
    BY <1>1, <2>1 DEF In
  <2> HIDE DEF y, z
  <2>4. y <= z
    BY <2>1, <2>2
  <2> QED BY <2>2, <2>3, <2>4
<1>2. i < j \/ j < i \/ i = j
  BY <1>0
<1> QED BY <1>0, <1>1, <1>2

-----------------------------------------------------------------------------
(* The best blocks: cuts of the first points, and what they are worth.     *)

(* A block of the points from i to before j; the cuts of the first Q       *)
(* points into blocks, where the blocks begin.                             *)
Fair(edges, wh, i, j) == Enough(wh[j] - wh[i], edges[j] - edges[i])
Fit(edges, wh, i, j) == Fitness(wh[j] - wh[i], edges[j] - edges[i], wh[Len(edges)])
CutsTo(Q) == {T \in SUBSET (1 .. Q) : 1 \in T}
EndIn(T, Q, i) == Min({j \in T : j > i} \cup {Q + 1})
Allowed(edges, wh, T, Q) == \A i \in T : Fair(edges, wh, i, EndIn(T, Q, i))
Terms(edges, wh, T, Q) ==
  [k \in 1 .. Q |-> IF k \in T THEN Fit(edges, wh, k, EndIn(T, Q, k)) ELSE 0]
Worth(edges, wh, T, Q) == Total(Terms(edges, wh, T, Q))

(* Where a block ends: at the first beginning after its own, or at the     *)
(* end.                                                                    *)
LEMMA EndInIs ==
  ASSUME NEW Q \in Nat, NEW T \in SUBSET (1 .. Q), NEW i \in 1 .. Q
  PROVE  /\ EndIn(T, Q, i) \in i + 1 .. Q + 1
         /\ EndIn(T, Q, i) \in T \/ EndIn(T, Q, i) = Q + 1
         /\ \A j \in T : j > i => EndIn(T, Q, i) <= j
<1> DEFINE U == {j \in T : j > i} \cup {Q + 1}
<1>1. U \in SUBSET Nat /\ U # {}
  <2>1. Q + 1 \in Nat /\ \A j \in T : j \in Nat
    OBVIOUS
  <2> QED BY <2>1
<1>2. EndIn(T, Q, i) = Min(U)
  BY DEF EndIn
<1>3. EndIn(T, Q, i) \in U /\ \A k \in U : EndIn(T, Q, i) <= k
  <2> HIDE DEF U
  <2> QED BY <1>1, <1>2, MinIs
<1>4. \A j \in U : j \in i + 1 .. Q + 1
  OBVIOUS
<1> QED BY <1>3, <1>4

(* Only one point is where it ends.                                        *)
LEMMA EndInOf ==
  ASSUME NEW Q \in Nat, NEW T \in SUBSET (1 .. Q), NEW i \in 1 .. Q, NEW e \in Nat,
         e > i, e <= Q + 1, e \in T \/ e = Q + 1, \A j \in T : j > i => e <= j
  PROVE  EndIn(T, Q, i) = e
<1> DEFINE d == EndIn(T, Q, i)
<1>1. d \in i + 1 .. Q + 1 /\ (d \in T \/ d = Q + 1) /\ \A j \in T : j > i => d <= j
  BY EndInIs
<1> HIDE DEF d
<1>2. d <= e
  BY <1>1
<1>3. e <= d
  BY <1>1
<1>4. d = e
  BY <1>1, <1>2, <1>3
<1> QED BY <1>4 DEF d

(* The cut whose last block begins with i. *)
LEMMA EndsWithLast ==
  ASSUME NEW Q \in Nat, NEW i \in 1 .. Q, NEW U \in SUBSET (1 .. i - 1)
  PROVE  /\ EndIn(U \cup {i}, Q, i) = Q + 1
         /\ \A k \in U : EndIn(U \cup {i}, Q, k) = EndIn(U, i - 1, k)
<1> DEFINE T == U \cup {i}
<1>1. T \in SUBSET (1 .. Q) /\ i - 1 \in Nat
  OBVIOUS
<1>2. EndIn(T, Q, i) = Q + 1
  <2>1. \A j \in T : ~(j > i)
    OBVIOUS
  <2> HIDE DEF T
  <2>2. Q + 1 \in Nat /\ Q + 1 > i
    OBVIOUS
  <2> QED BY <1>1, <2>1, <2>2, EndInOf
<1>3. ASSUME NEW k \in U PROVE EndIn(T, Q, k) = EndIn(U, i - 1, k)
  <2> DEFINE e == EndIn(U, i - 1, k)
  <2>1. k \in 1 .. i - 1 /\ (i - 1) + 1 = i
    OBVIOUS
  <2>2. e \in k + 1 .. i /\ (e \in U \/ e = i) /\ \A j \in U : j > k => e <= j
    BY <1>1, <2>1, EndInIs
  <2> HIDE DEF e
  <2>3. k \in 1 .. Q /\ e \in Nat /\ e > k /\ e <= Q + 1
    BY <2>1, <2>2
  <2>4. e \in T /\ \A j \in T : j > k => e <= j
    BY <2>2
  <2> HIDE DEF T
  <2>5. EndIn(T, Q, k) = e
    BY <1>1, <2>3, <2>4, EndInOf
  <2> QED BY <2>5 DEF e
<1> QED BY <1>2, <1>3

(* The last block of a cut. *)
LEMMA LastBlock ==
  ASSUME NEW Q \in Nat, NEW T \in CutsTo(Q)
  PROVE  \E i \in 1 .. Q : \E U \in SUBSET (1 .. i - 1) :
           T = U \cup {i} /\ (IF i = 1 THEN U = {} ELSE U \in CutsTo(i - 1))
<1> DEFINE f == [k \in T |-> k]
           i == Max(Range(f))
           U == T \ {i}
<1>1. T \in SUBSET (1 .. Q) /\ 1 \in T
  BY DEF CutsTo
<1>2. f \in [T -> Int] /\ Range(f) = T
  <2>1. \A k \in T : k \in Int
    BY <1>1
  <2>2. DOMAIN f = T /\ \A k \in T : f[k] = k
    OBVIOUS
  <2> HIDE DEF f
  <2>3. Range(f) = T
    BY <2>2 DEF Range
  <2> QED BY <2>1, <2>3 DEF f
<1>3. i \in T /\ \A k \in T : k <= i
  <2>1. T # {} /\ \A k \in T : f[k] = k
    BY <1>1
  <2>2. Max(Range(f)) \in Range(f) /\ \A k \in T : f[k] <= Max(Range(f))
    <3> HIDE DEF f
    <3> QED BY <1>1, <1>2, <2>1, MaxIs
  <2> HIDE DEF f
  <2> QED BY <1>2, <2>1, <2>2
<1> HIDE DEF i
<1>4. i \in 1 .. Q /\ U \in SUBSET (1 .. i - 1) /\ T = U \cup {i}
  BY <1>1, <1>3
<1>5. IF i = 1 THEN U = {} ELSE U \in CutsTo(i - 1)
  <2>1. CASE i = 1
    BY <1>4, <2>1
  <2>2. CASE i # 1
    BY <1>1, <1>4, <2>2 DEF CutsTo
  <2> QED BY <2>1, <2>2
<1> QED BY <1>4, <1>5

(* A sequence that goes on with one more term and zeros. *)
LEMMA TotalExtends ==
  ASSUME NEW m \in Nat, NEW Q \in Nat, m < Q, NEW x \in [1 .. m -> Int], NEW y \in [1 .. Q -> Int],
         \A k \in 1 .. m : y[k] = x[k], \A k \in m + 2 .. Q : y[k] = 0
  PROVE  Total(y) = Total(x) + y[m + 1] /\ Total(x) \in Int
<1>0. x \in Seq(Int) /\ Len(x) = m /\ y \in Seq(Int) /\ Len(y) = Q
  OBVIOUS
<1>1. /\ Upto(x, 0) = 0 /\ Total(x) = Upto(x, m)
      /\ \A k \in 0 .. m : Upto(x, k) \in Int
      /\ \A k \in 1 .. m : Upto(x, k) = Upto(x, k - 1) + x[k]
  BY <1>0, UptoIs
<1>2. /\ Upto(y, 0) = 0 /\ Total(y) = Upto(y, Q)
      /\ \A k \in 1 .. Q : Upto(y, k) = Upto(y, k - 1) + y[k]
  BY <1>0, UptoIs
<1>3. y[m + 1] \in Int /\ m \in 0 .. m
  OBVIOUS
<1> DEFINE v == y[m + 1]
           to(k) == IF k <= m THEN Upto(x, k) ELSE Upto(x, m) + v
           T == {k \in 0 .. Q : Upto(y, k) = to(k)}
<1> HIDE DEF v
<1>4. 0 \in T
  BY <1>1, <1>2
<1>5. ASSUME NEW k \in 1 .. Q, 0 .. k - 1 \subseteq T PROVE k \in T
  <2>1. k - 1 \in 0 .. k - 1 /\ k \in 0 .. Q
    OBVIOUS
  <2>2. Upto(y, k) = to(k - 1) + y[k]
    BY <1>2, <1>5, <2>1
  <2>3. CASE k <= m
    <3>1. k \in 1 .. m /\ k - 1 <= m
      BY <2>3
    <3> QED BY <1>1, <2>1, <2>2, <2>3, <3>1
  <2>4. CASE k = m + 1
    <3>1. k - 1 = m /\ ~(k <= m) /\ y[k] = v
      BY <2>4 DEF v
    <3> QED BY <2>1, <2>2, <3>1
  <2>5. CASE k > m + 1
    <3>1. ~(k <= m) /\ ~(k - 1 <= m) /\ y[k] = 0
      BY <2>5
    <3>2. Upto(x, m) + v \in Int
      BY <1>1, <1>3 DEF v
    <3> QED BY <2>1, <2>2, <3>1, <3>2
  <2> QED BY <2>3, <2>4, <2>5
<1>6. 0 .. Q \subseteq T
  <2> HIDE DEF T
  <2> QED BY <1>4, <1>5, Induction
<1>7. Q \in 0 .. Q /\ ~(Q <= m)
  OBVIOUS
<1>8. Total(y) = Upto(x, m) + v
  BY <1>2, <1>6, <1>7
<1> QED BY <1>1, <1>3, <1>8 DEF v

(* The worth of a cut is that of the cut without its last block, and of    *)
(* that block.                                                             *)
LEMMA WorthOfLast ==
  ASSUME NEW edges, NEW wh, NEW n \in Nat, Len(edges) = n + 1, Logs(edges, wh, n),
         NEW Q \in 1 .. n, NEW i \in 1 .. Q, NEW U \in SUBSET (1 .. i - 1)
  PROVE  LET T == U \cup {i}
         IN  /\ Allowed(edges, wh, T, Q) <=>
                  Allowed(edges, wh, U, i - 1) /\ Fair(edges, wh, i, Q + 1)
             /\ Allowed(edges, wh, T, Q) =>
                  /\ Worth(edges, wh, U, i - 1) \in Int /\ Fit(edges, wh, i, Q + 1) \in Int
                  /\ Worth(edges, wh, T, Q) = Worth(edges, wh, U, i - 1) + Fit(edges, wh, i, Q + 1)
<1> DEFINE T == U \cup {i}
           m == i - 1
<1>1. m \in Nat /\ Q \in Nat /\ m < Q /\ m + 1 = i /\ i \in T /\ U \subseteq T /\ T \subseteq 1 .. Q
  OBVIOUS
<1>2. EndIn(T, Q, i) = Q + 1 /\ \A k \in U : EndIn(T, Q, k) = EndIn(U, m, k)
  BY EndsWithLast
<1>3. \A k \in T : k \in U \/ k = i
  OBVIOUS
<1>4. \A k \in 1 .. Q : (k \in T /\ k <= m => k \in U) /\ (k > i => k \notin T)
  OBVIOUS
<1>5. Allowed(edges, wh, T, Q) <=> Allowed(edges, wh, U, m) /\ Fair(edges, wh, i, Q + 1)
  <2> HIDE DEF T, m
  <2> QED BY <1>1, <1>2, <1>3 DEF Allowed
<1>6. ASSUME Allowed(edges, wh, T, Q)
      PROVE  /\ Worth(edges, wh, U, m) \in Int /\ Fit(edges, wh, i, Q + 1) \in Int
             /\ Worth(edges, wh, T, Q) = Worth(edges, wh, U, m) + Fit(edges, wh, i, Q + 1)
  <2> DEFINE x == Terms(edges, wh, U, m)
             y == Terms(edges, wh, T, Q)
  <2>1. ASSUME NEW k \in T PROVE Fit(edges, wh, k, EndIn(T, Q, k)) \in Int
    <3> DEFINE e == EndIn(T, Q, k)
    <3>1. k \in 1 .. Q /\ e \in k + 1 .. Q + 1
      <4> HIDE DEF T
      <4> QED BY <1>1, EndInIs
    <3>2. Fair(edges, wh, k, e)
      BY <1>6 DEF Allowed
    <3> HIDE DEF e
    <3>3. e - 1 \in 1 .. n /\ k \in 1 .. e - 1 /\ (e - 1) + 1 = e
      BY <3>1
    <3> DEFINE q == e - 1
    <3>4. q + 1 = e /\ q \in 1 .. n /\ k \in 1 .. q
      BY <3>3
    <3> HIDE DEF q
    <3>5. Enough(wh[q + 1] - wh[k], edges[q + 1] - edges[k])
      BY <3>2, <3>4 DEF Fair
    <3>6. Fitness(wh[q + 1] - wh[k], edges[q + 1] - edges[k], wh[n + 1]) \in Int
      BY <3>4, <3>5 DEF Logs
    <3>7. Fit(edges, wh, k, e) \in Int
      BY <3>4, <3>6 DEF Fit
    <3> QED BY <3>7 DEF e
  <2> HIDE DEF T, m
  <2>2. /\ DOMAIN y = 1 .. Q /\ y = [k \in 1 .. Q |-> y[k]]
        /\ \A k \in 1 .. Q : y[k] = IF k \in T THEN Fit(edges, wh, k, EndIn(T, Q, k)) ELSE 0
    BY DEF Terms
  <2>3. /\ x = [k \in 1 .. m |-> x[k]]
        /\ \A k \in 1 .. m : x[k] = IF k \in U THEN Fit(edges, wh, k, EndIn(U, m, k)) ELSE 0
    BY DEF Terms
  <2> HIDE DEF x, y
  <2>4. y \in [1 .. Q -> Int]
    <3>1. \A k \in 1 .. Q : y[k] \in Int
      BY <2>1, <2>2
    <3> QED BY <2>2, <3>1
  <2>5. \A k \in 1 .. m : k \in 1 .. Q /\ k <= m
    BY <1>1
  <2>6. ASSUME NEW k \in 1 .. m PROVE y[k] = x[k]
    <3>1. k \in 1 .. Q /\ k <= m /\ (k \in T <=> k \in U)
      BY <1>1, <1>4, <2>5
    <3>2. CASE k \in U
      <4>1. EndIn(T, Q, k) = EndIn(U, m, k)
        BY <1>2, <3>2
      <4>2. y[k] = Fit(edges, wh, k, EndIn(T, Q, k))
        BY <2>2, <3>1, <3>2
      <4>3. x[k] = Fit(edges, wh, k, EndIn(U, m, k))
        BY <2>3, <3>2
      <4> QED BY <4>1, <4>2, <4>3
    <3>3. CASE k \notin U
      BY <2>2, <2>3, <3>1, <3>3
    <3> QED BY <3>2, <3>3
  <2>7. x \in [1 .. m -> Int]
    <3>1. \A k \in 1 .. m : x[k] \in Int
      BY <2>4, <2>5, <2>6
    <3> QED BY <2>3, <3>1
  <2>8. \A k \in m + 2 .. Q : y[k] = 0
    <3>1. \A k \in m + 2 .. Q : k \in 1 .. Q /\ k > i
      BY <1>1
    <3> QED BY <1>4, <2>2, <3>1
  <2>9. y[m + 1] = Fit(edges, wh, i, Q + 1) /\ y[m + 1] \in Int
    BY <1>1, <1>2, <2>2, <2>4
  <2>10. Total(y) = Total(x) + y[m + 1] /\ Total(x) \in Int
    <3>1. m \in Nat /\ Q \in Nat /\ m < Q
      BY <1>1
    <3>2. \A k \in 1 .. m : y[k] = x[k]
      BY <2>6
    <3> QED BY <2>4, <2>7, <2>8, <3>1, <3>2, TotalExtends
  <2> QED BY <2>9, <2>10 DEF Worth, x, y
<1> QED BY <1>5, <1>6

(* The sums and the edges grow. *)
Grows(edges, wh, n) ==
  \A i, j \in 1 .. n + 1 : /\ edges[i] \in Nat /\ wh[i] \in Nat
                           /\ i <= j => edges[i] <= edges[j] /\ wh[i] <= wh[j]

(* A block that begins earlier has enough, too. *)
LEMMA FairEarlier ==
  ASSUME NEW edges, NEW wh, NEW n \in Nat, Grows(edges, wh, n), NEW Q \in 1 .. n,
         NEW i \in 1 .. Q, NEW j \in 1 .. i, Fair(edges, wh, i, Q + 1)
  PROVE  Fair(edges, wh, j, Q + 1)
<1>1. i \in 1 .. n + 1 /\ j \in 1 .. n + 1 /\ Q + 1 \in 1 .. n + 1 /\ j <= i /\ i <= Q + 1
  OBVIOUS
<1> DEFINE a == wh[Q + 1]
           b == wh[i]
           c == wh[j]
           d == edges[Q + 1]
           e == edges[i]
           f == edges[j]
<1>2. /\ a \in Nat /\ b \in Nat /\ c \in Nat /\ d \in Nat /\ e \in Nat /\ f \in Nat
      /\ c <= b /\ b <= a /\ f <= e /\ e <= d
  BY <1>1 DEF Grows
<1>3. a - b >= 2 * MinCounts /\ (d - e) * Resolution > Extent
  BY DEF Fair, Enough
<1> HIDE DEF a, b, c, d, e, f
<1>4. MinCounts \in Nat /\ Resolution \in Nat /\ Extent \in Int
  <2>1. 1 \in Points /\ Len(Sample) \in Points /\ \A p \in Points : Sample[p] \in Nat
    BY SampleAssumption DEF Points
  <2> QED BY <2>1, SampleAssumption DEF Extent
<1>5. a - c >= 2 * MinCounts
  BY <1>2, <1>3, <1>4
<1>6. (d - f) * Resolution = (d - e) * Resolution + (e - f) * Resolution
  BY <1>2, <1>4
<1>7. e - f \in Nat /\ d - e \in Nat
  BY <1>2
<1>8. \A p, q \in Nat : p * q \in Nat
  OBVIOUS
<1>9. (e - f) * Resolution \in Nat /\ (d - e) * Resolution \in Nat
  BY <1>4, <1>7, <1>8
<1>10. (d - f) * Resolution > Extent
  BY <1>3, <1>4, <1>6, <1>9
<1> QED BY <1>5, <1>10 DEF Fair, Enough, a, c, d, f

(* What has been peeled off up to the end of the first Q points is a best  *)
(* cut of them, unless they have none.                                     *)
Optimal(edges, wh, p, Q) ==
  LET b == Best(edges, wh)[Q]
  IN  /\ b.first = 0 => \A T \in CutsTo(Q) : ~Allowed(edges, wh, T, Q)
      /\ b.first # 0 =>
           /\ \E T \in CutsTo(Q) : /\ Allowed(edges, wh, T, Q) /\ Worth(edges, wh, T, Q) = b.fit
                                   /\ Range(p[Q + 1]) = {edges[j] : j \in T \cup {Q + 1}}
           /\ \A T \in CutsTo(Q) : Allowed(edges, wh, T, Q) => Worth(edges, wh, T, Q) <= b.fit

(* What is in a sequence with one more element.                            *)
LEMMA RangeOfAppend ==
  ASSUME NEW S, NEW a \in Seq(S), NEW e \in S
  PROVE  Append(a, e) \in Seq(S) /\ Range(Append(a, e)) = Range(a) \cup {e}
<1> DEFINE c == <<e>>
<1>1. c \in Seq(S) /\ Range(c) = {e}
  BY DEF Range
<1>2. Append(a, e) = a \o c
  OBVIOUS
<1> HIDE DEF c
<1>3. a \o c \in Seq(S) /\ Range(a \o c) = Range(a) \cup Range(c)
  BY <1>1, RangeOfBoth
<1> QED BY <1>1, <1>2, <1>3

(* The worth of no block. *)
LEMMA WorthOfNone == \A edges, wh : Worth(edges, wh, {}, 0) = 0 /\ Allowed(edges, wh, {}, 0)
<1> SUFFICES ASSUME NEW edges, NEW wh
             PROVE  Worth(edges, wh, {}, 0) = 0 /\ Allowed(edges, wh, {}, 0)
  OBVIOUS
<1>1. Terms(edges, wh, {}, 0) = <<>>
  BY DEF Terms
<1> QED BY <1>1 DEF Worth, Total, Allowed

(* A last block that has enough, after a cut, is one the choice is among. *)
LEMMA IsOpen ==
  ASSUME NEW edges, NEW wh, NEW n \in Nat, Len(edges) = n + 1,
         Logs(edges, wh, n), Grows(edges, wh, n), NEW Q \in 1 .. n,
         NEW p, \A k \in 1 .. Q - 1 : Optimal(edges, wh, p, k),
         NEW T \in CutsTo(Q), Allowed(edges, wh, T, Q)
  PROVE  \E i \in Open(edges, wh, Best(edges, wh), Q) :
           Worth(edges, wh, T, Q) <= FitnessFrom(edges, wh, Best(edges, wh), Q, i)
<1> DEFINE b == Best(edges, wh)
<1>1. PICK i \in 1 .. Q : \E U \in SUBSET (1 .. i - 1) :
             T = U \cup {i} /\ (IF i = 1 THEN U = {} ELSE U \in CutsTo(i - 1))
  <2>1. Q \in Nat
    OBVIOUS
  <2> QED BY <2>1, LastBlock
<1>2. PICK U \in SUBSET (1 .. i - 1) :
             T = U \cup {i} /\ (IF i = 1 THEN U = {} ELSE U \in CutsTo(i - 1))
  BY <1>1
<1>3. /\ Allowed(edges, wh, U, i - 1) /\ Fair(edges, wh, i, Q + 1)
      /\ Worth(edges, wh, U, i - 1) \in Int /\ Fit(edges, wh, i, Q + 1) \in Int
      /\ Worth(edges, wh, T, Q) = Worth(edges, wh, U, i - 1) + Fit(edges, wh, i, Q + 1)
  BY <1>2, WorthOfLast
<1>4. \A j \in 1 .. i : Enough(wh[Q + 1] - wh[j], edges[Q + 1] - edges[j])
  <2>1. \A j \in 1 .. i : Fair(edges, wh, j, Q + 1)
    BY <1>3, FairEarlier
  <2> QED BY <2>1 DEF Fair
<1>5. FitnessFrom(edges, wh, b, Q, i) =
        Fit(edges, wh, i, Q + 1) + (IF i > 1 THEN b[i - 1].fit ELSE 0)
  BY DEF FitnessFrom, Fit
<1>6. CASE i = 1
  <2>1. i \in Open(edges, wh, b, Q)
    BY <1>4, <1>6 DEF Open
  <2>2. Worth(edges, wh, U, i - 1) = 0
    <3>1. U = {} /\ i - 1 = 0
      BY <1>2, <1>6
    <3>2. Worth(edges, wh, {}, 0) = 0
      BY WorthOfNone
    <3> QED BY <3>1, <3>2, Zenon
  <2> HIDE DEF b
  <2>3. FitnessFrom(edges, wh, b, Q, i) = Fit(edges, wh, i, Q + 1)
    BY <1>3, <1>5, <1>6
  <2>4. Worth(edges, wh, T, Q) <= FitnessFrom(edges, wh, b, Q, i)
    BY <1>3, <2>2, <2>3
  <2> QED BY <2>1, <2>4 DEF b
<1>7. CASE i # 1
  <2> DEFINE m == i - 1
  <2>1. m \in 1 .. Q - 1 /\ m \in 1 .. n /\ i > 1
    BY <1>7
  <2>2. U \in CutsTo(m)
    BY <1>2, <1>7
  <2>3. Optimal(edges, wh, p, m)
    BY <2>1
  <2> HIDE DEF m
  <2>4. b[m].first # 0 /\ Worth(edges, wh, U, m) <= b[m].fit
    BY <1>3, <2>2, <2>3 DEF Optimal, m
  <2>5. b[m].fit \in Int
    BY <2>1, BestType
  <2> HIDE DEF b
  <2>6. i \in Open(edges, wh, b, Q)
    BY <1>4, <2>4 DEF Open, m
  <2>7. FitnessFrom(edges, wh, b, Q, i) = Fit(edges, wh, i, Q + 1) + b[m].fit
    BY <1>5, <2>1 DEF m
  <2>8. /\ Worth(edges, wh, U, m) \in Int
        /\ Worth(edges, wh, T, Q) = Worth(edges, wh, U, m) + Fit(edges, wh, i, Q + 1)
    BY <1>3 DEF m
  <2>9. Worth(edges, wh, T, Q) <= FitnessFrom(edges, wh, b, Q, i)
    BY <1>3, <2>4, <2>5, <2>7, <2>8
  <2> QED BY <2>6, <2>9 DEF b
<1> QED BY <1>6, <1>7

(* One step of the dynamic programming. *)
LEMMA OptimalStep ==
  ASSUME NEW S, NEW edges \in Seq(S), NEW wh, NEW n \in Nat, Len(edges) = n + 1,
         Logs(edges, wh, n), Grows(edges, wh, n), NEW Q \in 1 .. n,
         NEW p, \A k \in 1 .. Q - 1 : Optimal(edges, wh, p, k),
         p[1] = <<edges[1]>>, \A k \in 0 .. Q : p[k] \in Seq(S),
         p[Q + 1] = Append(p[Best(edges, wh)[Q].first], edges[Q + 1])
  PROVE  Optimal(edges, wh, p, Q)
<1> DEFINE b == Best(edges, wh)
           open == Open(edges, wh, b, Q)
           i == b[Q].first
<1>1. /\ Q \in Nat /\ Q \in 1 .. Len(edges) - 1
      /\ Len(edges) \in Nat \ {0} /\ Q + 1 \in 1 .. Len(edges)
  OBVIOUS
<1>2. b[Q] = Choice(edges, wh, b, Q)
  BY <1>1, BestIs
<1>3. b[Q].fit \in Int /\ \A k \in open : FitnessFrom(edges, wh, b, Q, k) \in Int
  BY BestType
<1>4. IF open = {} THEN b[Q] = [fit |-> 0, first |-> 0]
      ELSE /\ i \in open /\ b[Q].fit = FitnessFrom(edges, wh, b, Q, i)
           /\ \A k \in open : FitnessFrom(edges, wh, b, Q, k) <= b[Q].fit
  <2> DEFINE c == Choice(edges, wh, b, Q)
  <2> HIDE DEF b
  <2>1. IF open = {} THEN c = [fit |-> 0, first |-> 0]
        ELSE /\ c.first \in open /\ c.fit = FitnessFrom(edges, wh, b, Q, c.first)
             /\ \A k \in open : FitnessFrom(edges, wh, b, Q, k) <= c.fit
    BY <1>1, <1>3, ChoiceIs
  <2>2. b[Q] = c
    BY <1>2
  <2> HIDE DEF c, open
  <2> QED BY <2>1, <2>2
<1>5. \A k \in open : /\ k \in 1 .. Q /\ Enough(wh[Q + 1] - wh[k], edges[Q + 1] - edges[k])
                      /\ k > 1 => b[k - 1].first # 0
  BY DEF Open
<1>6. ASSUME NEW T \in CutsTo(Q), Allowed(edges, wh, T, Q)
      PROVE  i # 0 /\ Worth(edges, wh, T, Q) <= b[Q].fit
  <2>1. PICK k \in open : Worth(edges, wh, T, Q) <= FitnessFrom(edges, wh, b, Q, k)
    BY <1>6, IsOpen
  <2>2. i \in open /\ FitnessFrom(edges, wh, b, Q, k) <= b[Q].fit
    BY <1>4, <2>1
  <2>3. Worth(edges, wh, T, Q) \in Int
    <3>1. PICK j \in 1 .. Q : \E U \in SUBSET (1 .. j - 1) :
                 T = U \cup {j} /\ (IF j = 1 THEN U = {} ELSE U \in CutsTo(j - 1))
      BY <1>1, LastBlock
    <3>2. PICK U \in SUBSET (1 .. j - 1) : T = U \cup {j}
      BY <3>1
    <3>3. /\ Worth(edges, wh, U, j - 1) \in Int /\ Fit(edges, wh, j, Q + 1) \in Int
          /\ Worth(edges, wh, T, Q) = Worth(edges, wh, U, j - 1) + Fit(edges, wh, j, Q + 1)
      BY <1>6, <3>2, WorthOfLast
    <3> QED BY <3>3
  <2>4. i # 0
    BY <1>5, <2>2
  <2>5. FitnessFrom(edges, wh, b, Q, k) \in Int
    BY <1>3
  <2> HIDE DEF open, i, b
  <2> QED BY <1>3, <2>1, <2>2, <2>3, <2>4, <2>5
<1>7. ASSUME i # 0
      PROVE  \E T \in CutsTo(Q) : /\ Allowed(edges, wh, T, Q) /\ Worth(edges, wh, T, Q) = b[Q].fit
                                  /\ Range(p[Q + 1]) = {edges[j] : j \in T \cup {Q + 1}}
  <2>1. i \in open /\ i \in 1 .. Q /\ b[Q].fit = FitnessFrom(edges, wh, b, Q, i)
    <3>1. open # {}
      BY <1>4, <1>7
    <3> QED BY <1>4, <1>5, <3>1
  <2>2. Fair(edges, wh, i, Q + 1) /\ (i > 1 => b[i - 1].first # 0)
    BY <1>5, <2>1 DEF Fair
  <2>3. FitnessFrom(edges, wh, b, Q, i) =
          Fit(edges, wh, i, Q + 1) + (IF i > 1 THEN b[i - 1].fit ELSE 0)
    BY DEF FitnessFrom, Fit
  <2>4. i > 1 => Optimal(edges, wh, p, i - 1) /\ b[i - 1].fit \in Int
    <3> HIDE DEF i
    <3>1. i > 1 => i - 1 \in 1 .. Q - 1 /\ i - 1 \in 1 .. n
      BY <2>1
    <3> QED BY <3>1, BestType
  <2>5. p[Q + 1] = Append(p[i], edges[Q + 1]) /\ p[i] \in Seq(S) /\ edges[Q + 1] \in S
    BY <1>1, <2>1
  <2>6. Range(p[Q + 1]) = Range(p[i]) \cup {edges[Q + 1]}
    <3> HIDE DEF i
    <3> QED BY <2>5, RangeOfAppend
  <2> HIDE DEF i, open
  <2>7. PICK U \in SUBSET (1 .. i - 1) :
             /\ IF i = 1 THEN U = {} ELSE U \in CutsTo(i - 1)
             /\ Allowed(edges, wh, U, i - 1)
             /\ Worth(edges, wh, U, i - 1) = IF i > 1 THEN b[i - 1].fit ELSE 0
             /\ Range(p[i]) = {edges[j] : j \in U \cup {i}}
    <3>1. CASE i = 1
      <4>1. i - 1 = 0 /\ ~(i > 1)
        BY <3>1
      <4>2. Worth(edges, wh, {}, i - 1) = 0 /\ Allowed(edges, wh, {}, i - 1)
        <5>1. Worth(edges, wh, {}, 0) = 0 /\ Allowed(edges, wh, {}, 0)
          BY WorthOfNone
        <5> QED BY <4>1, <5>1, Zenon
      <4>3. Range(p[i]) = {edges[j] : j \in {} \cup {i}}
        <5>1. Range(<<edges[1]>>) = {edges[1]}
          BY DEF Range
        <5> QED BY <3>1, <5>1
      <4>4. {} \in SUBSET (1 .. i - 1)
        OBVIOUS
      <4> WITNESS {} \in SUBSET (1 .. i - 1)
      <4> QED BY <3>1, <4>1, <4>2, <4>3
    <3>2. CASE i # 1
      <4>1. i > 1 /\ (i - 1) + 1 = i
        BY <2>1, <3>2
      <4>2. PICK U \in CutsTo(i - 1) :
                 /\ Allowed(edges, wh, U, i - 1) /\ Worth(edges, wh, U, i - 1) = b[i - 1].fit
                 /\ Range(p[i]) = {edges[j] : j \in U \cup {i}}
        BY <2>2, <2>4, <4>1 DEF Optimal
      <4>3. U \in SUBSET (1 .. i - 1)
        BY DEF CutsTo
      <4> QED BY <3>2, <4>1, <4>2, <4>3
    <3> QED BY <3>1, <3>2
  <2> DEFINE T == U \cup {i}
  <2>8. T \in CutsTo(Q)
    <3>1. CASE i = 1
      BY <2>1, <2>7, <3>1 DEF CutsTo
    <3>2. CASE i # 1
      BY <2>1, <2>7, <3>2 DEF CutsTo
    <3> QED BY <3>1, <3>2
  <2>9. Allowed(edges, wh, T, Q)
    BY <2>1, <2>2, <2>7, WorthOfLast
  <2>10. /\ Worth(edges, wh, U, i - 1) \in Int /\ Fit(edges, wh, i, Q + 1) \in Int
         /\ Worth(edges, wh, T, Q) = Worth(edges, wh, U, i - 1) + Fit(edges, wh, i, Q + 1)
    BY <2>1, <2>9, WorthOfLast
  <2> HIDE DEF b
  <2>11. Worth(edges, wh, T, Q) = b[Q].fit
    <3> DEFINE before == IF i > 1 THEN b[i - 1].fit ELSE 0
    <3>1. Worth(edges, wh, U, i - 1) = before
      BY <2>7
    <3>2. b[Q].fit = Fit(edges, wh, i, Q + 1) + before
      BY <2>1, <2>3
    <3> HIDE DEF before, T
    <3> QED BY <2>10, <3>1, <3>2
  <2>12. Range(p[Q + 1]) = {edges[j] : j \in T \cup {Q + 1}}
    BY <2>6, <2>7
  <2> HIDE DEF T
  <2> QED BY <2>8, <2>9, <2>11, <2>12
<1> HIDE DEF open
<1>8. ASSUME i = 0 PROVE \A T \in CutsTo(Q) : ~Allowed(edges, wh, T, Q)
  BY <1>6, <1>8
<1> QED BY <1>6, <1>7, <1>8 DEF Optimal

(* The blocks that are peeled off at the end are a best cut of all points; *)
(* if there is none, only the right end is peeled off.                     *)
LEMMA PeelIsBest ==
  ASSUME NEW S, NEW edges \in Seq(S), NEW wh, NEW n \in Nat \ {0}, Len(edges) = n + 1,
         Logs(edges, wh, n), Grows(edges, wh, n)
  PROVE  LET found == Range(Peel(edges, Best(edges, wh)))
         IN  \/ /\ \A T \in CutsTo(n) : ~Allowed(edges, wh, T, n)
                /\ found = {edges[n + 1]}
             \/ \E T \in CutsTo(n) :
                  /\ Allowed(edges, wh, T, n) /\ found = {edges[j] : j \in T \cup {n + 1}}
                  /\ \A U \in CutsTo(n) :
                       Allowed(edges, wh, U, n) => Worth(edges, wh, U, n) <= Worth(edges, wh, T, n)
<1> DEFINE b == Best(edges, wh)
<1>1. n \in Nat /\ Len(edges) \in Nat \ {0} /\ \A k \in 1 .. n + 1 : edges[k] \in S
  OBVIOUS
<1>2. \A k \in 1 .. n : b[k].first \in 0 .. k
  BY BestType
<1>3. \A L \in 2 .. Len(edges) : b[L - 1].first \in 0 .. L - 1
  <2> SUFFICES ASSUME NEW L \in 2 .. Len(edges) PROVE b[L - 1].first \in 0 .. L - 1
    OBVIOUS
  <2>1. L - 1 \in 1 .. n
    OBVIOUS
  <2> HIDE DEF b
  <2> QED BY <1>2, <2>1
<1>4. PICK p : /\ Peel(edges, b) = p[Len(edges)]
               /\ p[0] = <<>> /\ p[1] = <<edges[1]>>
               /\ \A L \in 2 .. Len(edges) : p[L] = Append(p[b[L - 1].first], edges[L])
  <2> HIDE DEF b
  <2> QED BY <1>1, <1>3, PeelIs
<1>5. ASSUME NEW k \in 1 .. n PROVE p[k + 1] = Append(p[b[k].first], edges[k + 1])
  <2> DEFINE L == k + 1
  <2>1. L \in 2 .. Len(edges) /\ L - 1 = k
    OBVIOUS
  <2> HIDE DEF L
  <2>2. p[L] = Append(p[b[L - 1].first], edges[L])
    BY <1>4, <2>1
  <2> HIDE DEF b
  <2> QED BY <2>1, <2>2 DEF L
<1> DEFINE D == {k \in 0 .. n : p[k + 1] \in Seq(S) /\ (k > 0 => Optimal(edges, wh, p, k))}
<1>6. 0 \in D
  <2>1. <<edges[1]>> \in Seq(S)
    BY <1>1
  <2>2. 0 \in 0 .. n /\ ~(0 > 0) /\ 0 + 1 = 1
    OBVIOUS
  <2>3. p[0 + 1] = p[1]
    BY <2>2, Zenon
  <2>4. p[0 + 1] \in Seq(S)
    BY <1>4, <2>1, <2>3, Zenon
  <2> QED BY <2>2, <2>4
<1>7. ASSUME NEW k \in 1 .. n, 0 .. k - 1 \subseteq D PROVE k \in D
  <2>1. ASSUME NEW j \in 0 .. k PROVE p[j] \in Seq(S)
    <3>1. CASE j = 0
      <4>1. <<>> \in Seq(S)
        OBVIOUS
      <4> QED BY <1>4, <3>1, <4>1, Zenon
    <3>2. CASE j # 0
      <4>1. j - 1 \in 0 .. k - 1 /\ (j - 1) + 1 = j
        BY <3>2
      <4>2. p[(j - 1) + 1] \in Seq(S)
        BY <1>7, <4>1
      <4> QED BY <4>1, <4>2
    <3> QED BY <3>1, <3>2
  <2>2. \A j \in 1 .. k - 1 : Optimal(edges, wh, p, j)
    <3>1. \A j \in 1 .. k - 1 : j \in 0 .. k - 1 /\ j > 0
      OBVIOUS
    <3> QED BY <1>7, <3>1
  <2>3. p[k + 1] = Append(p[b[k].first], edges[k + 1])
    BY <1>5
  <2>4. p[k + 1] \in Seq(S)
    <3>1. b[k].first \in 0 .. k /\ k + 1 \in 1 .. n + 1
      BY <1>2
    <3>2. p[b[k].first] \in Seq(S) /\ edges[k + 1] \in S
      BY <1>1, <2>1, <3>1
    <3> HIDE DEF b
    <3> QED BY <2>3, <3>2
  <2>5. Optimal(edges, wh, p, k)
    <3> HIDE DEF D
    <3> QED BY <1>1, <1>4, <2>1, <2>2, <2>3, OptimalStep
  <2>6. k \in 0 .. n
    OBVIOUS
  <2> QED BY <2>4, <2>5, <2>6
<1>8. 0 .. n \subseteq D
  <2> HIDE DEF D
  <2> QED BY <1>1, <1>6, <1>7, Induction
<1>9. Optimal(edges, wh, p, n)
  <2>1. n \in 0 .. n /\ n > 0
    OBVIOUS
  <2> QED BY <1>8, <2>1
<1>10. Peel(edges, b) = p[n + 1]
  BY <1>4
<1>11. CASE b[n].first = 0
  <2>1. p[n + 1] = <<edges[n + 1]>>
    <3>1. n \in 1 .. n
      OBVIOUS
    <3>2. p[n + 1] = Append(<<>>, edges[n + 1])
      BY <1>4, <1>5, <1>11, <3>1
    <3> QED BY <3>2
  <2>2. Range(p[n + 1]) = {edges[n + 1]}
    BY <2>1 DEF Range
  <2>3. \A T \in CutsTo(n) : ~Allowed(edges, wh, T, n)
    BY <1>9, <1>11 DEF Optimal
  <2> QED BY <1>10, <2>2, <2>3
<1>12. CASE b[n].first # 0
  <2>1. PICK T \in CutsTo(n) : /\ Allowed(edges, wh, T, n) /\ Worth(edges, wh, T, n) = b[n].fit
                               /\ Range(p[n + 1]) = {edges[j] : j \in T \cup {n + 1}}
    BY <1>9, <1>12 DEF Optimal
  <2>2. \A U \in CutsTo(n) : Allowed(edges, wh, U, n) => Worth(edges, wh, U, n) <= b[n].fit
    BY <1>9, <1>12 DEF Optimal
  <2> HIDE DEF b
  <2>3. Range(Peel(edges, b)) = {edges[j] : j \in T \cup {n + 1}}
    BY <1>10, <2>1
  <2> QED BY <2>1, <2>2, <2>3 DEF b
<1> QED BY <1>11, <1>12

(* The edges of a section and the sums of its weights grow. *)
LEMMA SectionGrows ==
  ASSUME NEW s \in Sections, NEW w \in Seq(Nat), Len(w) = Size(s)
  PROVE  Grows(EdgesOf(Values(s)), CumSum(<<0>> \o w), Size(s))
<1> DEFINE n == Size(s)
           x == Values(s)
           e == EdgesOf(x)
           wh == CumSum(<<0>> \o w)
<1>1. Spaced(x) /\ Len(x) = n /\ n \in Nat \ {0}
  BY ValuesAre
<1>2. /\ e[1] = x[1] /\ e[n + 1] = x[n]
      /\ \A k \in 1 .. n : /\ x[k] \in Nat /\ e[k] \in Nat /\ e[k + 1] \in Nat
                           /\ e[k] <= x[k] /\ x[k] <= e[k + 1]
  BY <1>1, Between
<1>3. \A k \in 1 .. n + 1 : wh[k] = Upto(w, k - 1)
  BY <1>1, SumsFromZero
<1>4. /\ \A k \in 0 .. n : Upto(w, k) \in Nat
      /\ \A i, j \in 0 .. n : i <= j => Upto(w, i) <= Upto(w, j)
  BY UptoGrows
<1> HIDE DEF e, x, wh, n
<1>5. ASSUME NEW k \in 1 .. n + 1 PROVE e[k] \in Nat
  <2>1. CASE k \in 1 .. n
    BY <1>2, <2>1
  <2>2. CASE k = n + 1
    <3>1. n \in 1 .. n
      BY <1>1
    <3> QED BY <1>2, <2>2, <3>1
  <2> QED BY <1>1, <2>1, <2>2
<1>6. ASSUME NEW i \in 1 .. n + 1, NEW j \in 1 .. n + 1, i < j PROVE e[i] <= e[j]
  <2> DEFINE m == j - 1
  <2>1. i \in 1 .. n /\ m \in 1 .. n /\ m + 1 = j /\ (i = m \/ i < m)
    BY <1>1, <1>6
  <2> HIDE DEF m
  <2>2. e[i] <= x[i] /\ x[m] <= e[j] /\ x[i] \in Nat /\ x[m] \in Nat
    BY <1>2, <2>1
  <2>3. x[i] <= x[m]
    <3>1. CASE i = m
      BY <2>2, <3>1
    <3>2. CASE i < m
      <4>1. x[i] + 2 <= x[m]
        BY <1>1, <2>1, <3>2 DEF Spaced
      <4> QED BY <2>2, <4>1
    <3> QED BY <2>1, <3>1, <3>2
  <2>4. e[i] \in Nat /\ e[j] \in Nat
    BY <1>5
  <2> QED BY <2>2, <2>3, <2>4
<1>7. ASSUME NEW i \in 1 .. n + 1, NEW j \in 1 .. n + 1, i <= j
      PROVE  wh[i] \in Nat /\ wh[i] <= wh[j]
  <2>1. i - 1 \in 0 .. n /\ j - 1 \in 0 .. n /\ i - 1 <= j - 1
    BY <1>1, <1>7
  <2> QED BY <1>3, <1>4, <2>1
<1>8. ASSUME NEW i \in 1 .. n + 1, NEW j \in 1 .. n + 1
      PROVE  /\ e[i] \in Nat /\ wh[i] \in Nat
             /\ i <= j => e[i] <= e[j] /\ wh[i] <= wh[j]
  <2>1. wh[i] \in Nat
    BY <1>1, <1>7
  <2>2. i \in Int /\ j \in Int /\ e[i] \in Nat
    BY <1>5
  <2>3. i <= j => i = j \/ i < j
    BY <2>2
  <2>4. i <= j => e[i] <= e[j]
    BY <1>6, <2>2, <2>3
  <2> QED BY <1>7, <2>1, <2>2, <2>4
<1>9. Grows(e, wh, n)
  BY <1>8 DEF Grows
<1> QED BY <1>9 DEF e, x, wh, n

(* What a task finds for its section. *)
LEMMA ConquerIsBest ==
  ASSUME NEW s \in Sections, NEW count \in Counts, NEW w, Weighs(s, w, count)
  PROVE  LET found == Range(Conquer(Values(s), w))
             edges == EdgesOf(Values(s))
             wh == CumSum(<<0>> \o w)
             n == Size(s)
         IN  \/ /\ \A T \in CutsTo(n) : ~Allowed(edges, wh, T, n)
                /\ found = {edges[n + 1]}
             \/ \E T \in CutsTo(n) :
                  /\ Allowed(edges, wh, T, n) /\ found = {edges[j] : j \in T \cup {n + 1}}
                  /\ \A U \in CutsTo(n) :
                       Allowed(edges, wh, U, n) => Worth(edges, wh, U, n) <= Worth(edges, wh, T, n)
<1> DEFINE x == Values(s)
           e == EdgesOf(x)
           wh == CumSum(<<0>> \o w)
           n == Size(s)
<1>1. e \in Seq(Nat) /\ Len(e) = n + 1 /\ n \in Nat \ {0}
  <2>1. Spaced(x) /\ Len(x) = n /\ n \in Nat \ {0}
    BY ValuesAre
  <2> QED BY <2>1, Between
<1>2. Conquer(x, w) = Peel(e, Best(e, wh))
  <2>1. w \in [1 .. Len(x) -> Nat] /\ Spaced(x)
    BY ValuesAre DEF Weighs
  <2>2. CountBetweenEdges(x, e, w) = w
    BY <2>1, OwnCounts
  <2> QED BY <2>2 DEF Conquer
<1>3. Logs(e, wh, n)
  BY SectionLogs
<1>4. Grows(e, wh, n)
  BY SectionGrows DEF Weighs
<1> HIDE DEF e, wh, n, x
<1>5. LET found == Range(Peel(e, Best(e, wh)))
      IN  \/ /\ \A T \in CutsTo(n) : ~Allowed(e, wh, T, n)
             /\ found = {e[n + 1]}
          \/ \E T \in CutsTo(n) :
               /\ Allowed(e, wh, T, n) /\ found = {e[j] : j \in T \cup {n + 1}}
               /\ \A U \in CutsTo(n) :
                    Allowed(e, wh, U, n) => Worth(e, wh, U, n) <= Worth(e, wh, T, n)
  BY <1>1, <1>3, <1>4, PeelIsBest
<1>6. LET found == Range(Conquer(x, w))
      IN  \/ /\ \A T \in CutsTo(n) : ~Allowed(e, wh, T, n)
             /\ found = {e[n + 1]}
          \/ \E T \in CutsTo(n) :
               /\ Allowed(e, wh, T, n) /\ found = {e[j] : j \in T \cup {n + 1}}
               /\ \A U \in CutsTo(n) :
                    Allowed(e, wh, U, n) => Worth(e, wh, U, n) <= Worth(e, wh, T, n)
  BY <1>2, <1>5
<1> QED BY <1>6 DEF e, wh, n, x

-----------------------------------------------------------------------------
(* The cuts of a section, as the property states them.                     *)

(* The sum of a part of a sequence. *)
LEMMA PartTotal ==
  ASSUME NEW w \in Seq(Int), NEW v \in Seq(Int), NEW a \in Nat, a + Len(v) <= Len(w),
         \A k \in 1 .. Len(v) : v[k] = w[a + k]
  PROVE  Total(v) = Upto(w, a + Len(v)) - Upto(w, a)
<1> DEFINE m == Len(v)
           n == Len(w)
<1>1. m \in Nat /\ n \in Nat /\ a + m <= n
  OBVIOUS
<1>2. /\ Upto(v, 0) = 0 /\ Total(v) = Upto(v, m)
      /\ \A k \in 0 .. m : Upto(v, k) \in Int
      /\ \A k \in 1 .. m : Upto(v, k) = Upto(v, k - 1) + v[k]
  BY UptoIs
<1>3. /\ \A k \in 0 .. n : Upto(w, k) \in Int
      /\ \A k \in 1 .. n : Upto(w, k) = Upto(w, k - 1) + w[k]
  BY UptoIs
<1>4. \A k \in 1 .. m : v[k] \in Int /\ v[k] = w[a + k]
  OBVIOUS
<1> HIDE DEF m, n
<1> DEFINE T == {k \in 0 .. m : Upto(v, k) = Upto(w, a + k) - Upto(w, a)}
<1>5. 0 \in T
  <2>1. a \in 0 .. n /\ a + 0 = a /\ 0 \in 0 .. m
    BY <1>1
  <2>2. Upto(w, a) \in Int
    BY <1>3, <2>1
  <2> QED BY <1>2, <2>1, <2>2
<1>6. ASSUME NEW k \in 1 .. m, 0 .. k - 1 \subseteq T PROVE k \in T
  <2> DEFINE j == a + k
  <2>1. /\ k - 1 \in 0 .. k - 1 /\ k \in 0 .. m /\ a + (k - 1) = j - 1
        /\ j \in 1 .. n /\ j - 1 \in 0 .. n /\ a \in 0 .. n
    BY <1>1
  <2>2. Upto(v, k - 1) = Upto(w, a + (k - 1)) - Upto(w, a)
    BY <1>6, <2>1
  <2>3. Upto(v, k) = Upto(v, k - 1) + v[k] /\ v[k] = w[j] /\ v[k] \in Int
    BY <1>2, <1>4
  <2> HIDE DEF j
  <2>4. Upto(w, j) = Upto(w, j - 1) + w[j] /\ Upto(w, j - 1) \in Int /\ Upto(w, a) \in Int
    BY <1>3, <2>1
  <2>5. Upto(v, k - 1) = Upto(w, j - 1) - Upto(w, a)
    BY <2>1, <2>2
  <2>6. Upto(v, k) = Upto(w, j) - Upto(w, a)
    <3> DEFINE to == Upto(w, j - 1)
               from == Upto(w, a)
               next == w[j]
    <3>1. to \in Int /\ from \in Int /\ next \in Int
      BY <2>3, <2>4
    <3>2. Upto(v, k) = (to - from) + next /\ Upto(w, j) = to + next
      BY <2>3, <2>4, <2>5
    <3> HIDE DEF to, from, next
    <3>3. (to - from) + next = (to + next) - from
      BY <3>1
    <3>4. Upto(v, k) = Upto(w, j) - from
      BY <3>2, <3>3
    <3> QED BY <3>4 DEF from
  <2> QED BY <2>1, <2>6 DEF j
<1>7. 0 .. m \subseteq T
  <2> HIDE DEF T
  <2> QED BY <1>1, <1>5, <1>6, Induction
<1>8. m \in T
  BY <1>1, <1>7
<1> QED BY <1>2, <1>8 DEF m

(* The weights of a section, as the tasks share them; the positions of its *)
(* points in it.                                                           *)
LeafWeights(s) == [i \in 1 .. Size(s) |-> Weight(s[1] + i - 1)]
Sums(s) == CumSum(<<0>> \o LeafWeights(s))
Moved(s, T) == {i \in 1 .. Size(s) : s[1] + i - 1 \in T}
SectionEdge(s) == EdgesOf(Values(s))

(* The ends of a section, as numbers.                                      *)
LEMMA Positions ==
  ASSUME NEW s \in Sections
  PROVE  /\ s[1] \in Nat /\ s[2] \in Nat /\ s[1] <= s[2] /\ s[1] >= 1
         /\ Size(s) \in Nat \ {0} /\ Size(s) = s[2] - s[1] + 1
BY SectionFacts DEF Points, Size

(* The weight of the points between two, as a difference of sums.          *)
LEMMA WeightBetween ==
  ASSUME NEW s \in Sections, LeafWeights(s) \in Seq(Nat),
         NEW i \in 1 .. Size(s) + 1, NEW j \in 1 .. Size(s) + 1, i <= j
  PROVE  WeightFrom(s[1] + i - 1, s[1] + j - 1) = Sums(s)[j] - Sums(s)[i]
<1> DEFINE w == LeafWeights(s)
           n == Size(s)
           a == i - 1
           p == s[1] + i - 1
           q == s[1] + j - 1
           v == [k \in 1 .. q - p |-> Weight(p + k - 1)]
<1>1. s[1] \in Nat /\ n \in Nat \ {0}
  BY Positions
<1>2. /\ q - p = j - i /\ j - i \in Nat /\ a \in Nat /\ a + (j - i) <= n
      /\ j - 1 = a + (j - i)
  <2>1. i \in 1 .. n + 1 /\ j \in 1 .. n + 1
    OBVIOUS
  <2> HIDE DEF n
  <2> QED BY <1>1, <2>1
<1>3. w \in Seq(Nat) /\ Len(w) = n /\ \A k \in 1 .. n : w[k] = Weight(s[1] + k - 1) /\ w[k] \in Nat
  <2>1. Len(w) = n /\ \A k \in 1 .. n : w[k] = Weight(s[1] + k - 1)
    BY <1>1 DEF LeafWeights
  <2> HIDE DEF w
  <2>2. w \in Seq(Nat)
    BY DEF w
  <2> QED BY <2>1, <2>2, ElementsOf
<1>4. ASSUME NEW k \in 1 .. j - i PROVE Weight(p + k - 1) = w[a + k] /\ Weight(p + k - 1) \in Nat
  <2>1. a + k \in 1 .. n /\ s[1] + (a + k) - 1 = p + k - 1
    <3>1. i \in 1 .. n + 1 /\ j \in 1 .. n + 1
      OBVIOUS
    <3> HIDE DEF n
    <3> QED BY <1>1, <1>2, <3>1
  <2> HIDE DEF w, a, p, n
  <2> QED BY <1>3, <2>1
<1>5. v \in Seq(Int) /\ Len(v) = j - i /\ \A k \in 1 .. j - i : v[k] = w[a + k]
  <2> DEFINE m == j - i
  <2>1. v = [k \in 1 .. m |-> Weight(p + k - 1)]
    BY <1>2, Zenon
  <2>2. \A k \in 1 .. m : Weight(p + k - 1) \in Int /\ Weight(p + k - 1) = w[a + k]
    BY <1>4
  <2>3. m \in Nat
    BY <1>2
  <2> HIDE DEF w, a, p, q, v, m
  <2>4. v \in [1 .. m -> Int] /\ \A k \in 1 .. m : v[k] = w[a + k]
    BY <2>1, <2>2
  <2>5. v \in Seq(Int) /\ Len(v) = m
    BY <2>3, <2>4
  <2> QED BY <2>4, <2>5 DEF m
<1> HIDE DEF w, v, n
<1>6. w \in Seq(Int) /\ a + Len(v) <= Len(w)
  <2>1. w \in Seq(Int)
    BY <1>3
  <2> QED BY <1>2, <1>3, <1>5, <2>1
<1>7. Total(v) = Upto(w, a + Len(v)) - Upto(w, a)
  <2> HIDE DEF a
  <2> QED BY <1>2, <1>5, <1>6, PartTotal
<1>8. Total(v) = Upto(w, j - 1) - Upto(w, i - 1)
  BY <1>2, <1>5, <1>7
<1>9. Sums(s)[j] = Upto(w, j - 1) /\ Sums(s)[i] = Upto(w, i - 1)
  <2>1. i \in 1 .. Len(w) + 1 /\ j \in 1 .. Len(w) + 1
    BY <1>3 DEF n
  <2> QED BY <1>3, <2>1, SumsFromZero DEF Sums, w
<1>10. WeightFrom(p, q) = Total(v)
  BY DEF WeightFrom, v
<1> QED BY <1>8, <1>9, <1>10

(* A block ends at the same point by its position in the section.          *)
LEMMA EndMoves ==
  ASSUME NEW s \in Sections, NEW T \in SUBSET (s[1] .. s[2]), NEW i \in 1 .. Size(s)
  PROVE  EndOf(s, T, s[1] + i - 1) = s[1] + EndIn(Moved(s, T), Size(s), i) - 1
<1> DEFINE n == Size(s)
           M == Moved(s, T)
           j == EndIn(M, n, i)
           p == s[1] + i - 1
           e == s[1] + j - 1
           U == {q \in T : q > p} \cup {s[2] + 1}
<1>1. s[1] \in Nat /\ s[2] \in Nat /\ s[1] <= s[2] /\ n \in Nat \ {0} /\ n = s[2] - s[1] + 1
  BY Positions
<1>2. M \in SUBSET (1 .. n) /\ \A k \in 1 .. n : k \in M <=> s[1] + k - 1 \in T
  BY DEF Moved
<1>3. j \in i + 1 .. n + 1 /\ (j \in M \/ j = n + 1) /\ \A k \in M : k > i => j <= k
  <2> HIDE DEF M, n
  <2>1. n \in Nat /\ i \in 1 .. n
    BY <1>1 DEF n
  <2> QED BY <1>2, <2>1, EndInIs
<1> HIDE DEF M, n, j
<1>4. e \in U
  <2>1. CASE j \in M
    <3>1. e \in T
      BY <1>2, <2>1
    <3>2. e > p
      BY <1>1, <1>3
    <3> QED BY <3>1, <3>2
  <2>2. CASE j = n + 1
    <3>1. e = s[2] + 1
      BY <1>1, <2>2
    <3> QED BY <3>1
  <2> QED BY <1>3, <2>1, <2>2
<1>5. ASSUME NEW q \in U PROVE e <= q
  <2>1. CASE q = s[2] + 1
    BY <1>1, <1>3, <2>1
  <2>2. CASE q \in T /\ q > p
    <3> DEFINE k == q - s[1] + 1
    <3>1. q \in s[1] .. s[2]
      BY <2>2
    <3>2. k \in 1 .. n /\ s[1] + k - 1 = q /\ k > i
      BY <1>1, <2>2, <3>1
    <3> HIDE DEF k
    <3>3. j <= k
      BY <1>2, <1>3, <2>2, <3>2
    <3> QED BY <1>1, <1>3, <3>2, <3>3
  <2> QED BY <2>1, <2>2
<1>6. U \in SUBSET Nat /\ e \in Nat
  <2>1. \A q \in T : q \in Nat
    BY <1>1
  <2>2. s[2] + 1 \in Nat
    BY <1>1
  <2>3. e \in Nat
    BY <1>1, <1>3
  <2> QED BY <2>1, <2>2, <2>3
<1> HIDE DEF U, e
<1>7. Min(U) \in U /\ \A q \in U : Min(U) <= q
  BY <1>4, <1>6, MinIs
<1>8. Min(U) = e
  <2>1. Min(U) \in Nat /\ Min(U) <= e /\ e <= Min(U)
    BY <1>4, <1>5, <1>6, <1>7
  <2> QED BY <1>6, <2>1
<1>9. EndOf(s, T, p) = Min(U)
  BY DEF EndOf, U
<1> QED BY <1>8, <1>9 DEF e, j, M, n

(* The edge before a point, by its position.                               *)
LEMMA EdgeMoves ==
  ASSUME NEW s \in Sections, NEW j \in Nat
  PROVE  EdgeAt(s, s[1] + j - 1) = SectionEdge(s)[j]
<1>1. s[1] \in Nat
  BY Positions
<1>2. (s[1] + j - 1) - s[1] + 1 = j
  BY <1>1
<1> QED BY <1>2 DEF EdgeAt, SectionEdge

(* The block that begins with each point. *)
LEMMA BlockMoves ==
  ASSUME NEW s \in Sections, LeafWeights(s) \in Seq(Nat),
         NEW T \in SUBSET (s[1] .. s[2]), NEW i \in 1 .. Size(s)
  PROVE  LET e == SectionEdge(s)
             wh == Sums(s)
             p == s[1] + i - 1
             j == EndIn(Moved(s, T), Size(s), i)
         IN  /\ Enough(CountOf(s, T, p), WidthOf(s, T, p)) <=> Fair(e, wh, i, j)
             /\ BlockValue(s, T, p) = Fit(e, wh, i, j)
<1> DEFINE n == Size(s)
           M == Moved(s, T)
           e == SectionEdge(s)
           wh == Sums(s)
           p == s[1] + i - 1
           j == EndIn(M, n, i)
           q == s[1] + j - 1
<1>1. s[1] \in Nat /\ s[2] \in Nat /\ s[1] <= s[2] /\ n \in Nat \ {0} /\ n = s[2] - s[1] + 1
  BY Positions
<1>2. j \in i + 1 .. n + 1
  <2>1. M \in SUBSET (1 .. n) /\ n \in Nat /\ i \in 1 .. n
    BY <1>1 DEF Moved
  <2> HIDE DEF M, n
  <2> QED BY <2>1, EndInIs
<1>3. EndOf(s, T, p) = q
  BY EndMoves
<1>4. i \in 1 .. n + 1 /\ j \in 1 .. n + 1 /\ i <= j /\ i \in Nat /\ j \in Nat
  <2>1. i \in 1 .. n
    OBVIOUS
  <2> HIDE DEF n, j
  <2> QED BY <1>1, <1>2, <2>1
<1> HIDE DEF j
<1>5. CountOf(s, T, p) = wh[j] - wh[i]
  <2>1. WeightFrom(p, q) = wh[j] - wh[i]
    BY <1>4, WeightBetween
  <2> HIDE DEF p, q, wh
  <2> QED BY <1>3, <2>1 DEF CountOf
<1>6. WidthOf(s, T, p) = e[j] - e[i]
  <2>1. EdgeAt(s, p) = e[i] /\ EdgeAt(s, q) = e[j]
    BY <1>4, EdgeMoves
  <2> HIDE DEF p, q, e
  <2> QED BY <1>3, <2>1 DEF WidthOf
<1>7. WeightFrom(s[1], s[2] + 1) = wh[Len(e)]
  <2>1. Len(e) = n + 1
    BY SectionEdges DEF SectionEdge
  <2>2. 1 \in 1 .. n + 1 /\ n + 1 \in 1 .. n + 1 /\ 1 <= n + 1
    <3> HIDE DEF n
    <3> QED BY <1>1
  <2>3. WeightFrom(s[1] + 1 - 1, s[1] + (n + 1) - 1) = wh[n + 1] - wh[1]
    BY <2>2, WeightBetween
  <2>4. s[1] + 1 - 1 = s[1] /\ s[1] + (n + 1) - 1 = s[2] + 1
    <3> HIDE DEF n
    <3> QED BY <1>1
  <2>5. \A k \in 1 .. n + 1 : wh[k] = Upto(LeafWeights(s), k - 1)
    <3>1. Len(LeafWeights(s)) = n
      BY <1>1 DEF LeafWeights
    <3> QED BY <3>1, SumsFromZero DEF Sums
  <2>6. wh[1] = 0
    <3>1. wh[1] = Upto(LeafWeights(s), 1 - 1)
      BY <2>2, <2>5
    <3> QED BY <3>1 DEF Upto
  <2>7. wh[n + 1] \in Int
    <3>1. Len(LeafWeights(s)) = n /\ LeafWeights(s) \in Seq(Int)
      BY <1>1, ElementsOf DEF LeafWeights
    <3>2. wh[n + 1] = Upto(LeafWeights(s), (n + 1) - 1)
      BY <2>2, <2>5
    <3>3. (n + 1) - 1 \in 0 .. n
      <4> HIDE DEF n
      <4> QED BY <1>1
    <3> HIDE DEF wh, n
    <3> QED BY <3>1, <3>2, <3>3, UptoIs
  <2> HIDE DEF wh, n, e
  <2> QED BY <2>1, <2>3, <2>4, <2>6, <2>7
<1> HIDE DEF e, wh, p, q
<1>8. Enough(CountOf(s, T, p), WidthOf(s, T, p)) <=> Fair(e, wh, i, j)
  BY <1>5, <1>6 DEF Fair
<1>9. BlockValue(s, T, p) = Fit(e, wh, i, j)
  BY <1>5, <1>6, <1>7 DEF BlockValue, Fit
<1> QED BY <1>8, <1>9 DEF e, wh, p, j, M, n

(* A cut of the section is one of its positions, and is worth as much. *)
LEMMA CutMoves ==
  ASSUME NEW s \in Sections, LeafWeights(s) \in Seq(Nat), NEW T \in Cuts(s)
  PROVE  LET e == SectionEdge(s)
             wh == Sums(s)
             M == Moved(s, T)
             n == Size(s)
         IN  /\ M \in CutsTo(n)
             /\ Admissible(s, T) <=> Allowed(e, wh, M, n)
             /\ Value(s, T) = Worth(e, wh, M, n)
             /\ {EdgeAt(s, p) : p \in T \cup {s[2] + 1}} = {e[j] : j \in M \cup {n + 1}}
<1> DEFINE n == Size(s)
           M == Moved(s, T)
           e == SectionEdge(s)
           wh == Sums(s)
           at(i) == s[1] + i - 1
<1>1. /\ s[1] \in Nat /\ s[2] \in Nat /\ s[1] <= s[2] /\ n \in Nat \ {0} /\ n = s[2] - s[1] + 1
  BY Positions
<1>2. T \in SUBSET (s[1] .. s[2]) /\ s[1] \in T
  BY DEF Cuts
<1>3. \A i \in 1 .. n : i \in M <=> at(i) \in T
  BY DEF Moved
<1>4. M \in SUBSET (1 .. n)
  BY DEF Moved
<1>5. M \in CutsTo(n)
  <2>1. 1 \in 1 .. n /\ at(1) = s[1]
    <3> HIDE DEF n
    <3> QED BY <1>1
  <2>2. 1 \in M
    BY <1>2, <1>3, <2>1
  <2> HIDE DEF n, M
  <2> QED BY <1>4, <2>2 DEF CutsTo
<1>6. \A i \in 1 .. n :
        /\ Enough(CountOf(s, T, at(i)), WidthOf(s, T, at(i))) <=> Fair(e, wh, i, EndIn(M, n, i))
        /\ BlockValue(s, T, at(i)) = Fit(e, wh, i, EndIn(M, n, i))
  BY <1>2, BlockMoves
<1>7. \A p \in T : \E i \in M : p = at(i)
  <2> SUFFICES ASSUME NEW p \in T PROVE \E i \in M : p = at(i)
    OBVIOUS
  <2> DEFINE i == p - s[1] + 1
  <2>1. p \in s[1] .. s[2]
    BY <1>2
  <2>2. i \in 1 .. n /\ at(i) = p
    <3> HIDE DEF n
    <3> QED BY <1>1, <2>1
  <2> HIDE DEF i, n, M, at
  <2> QED BY <1>3, <2>2
<1>8. \A i \in M : at(i) \in T /\ i \in 1 .. n
  BY <1>3, <1>4
<1>9. Admissible(s, T) <=> Allowed(e, wh, M, n)
  <2> HIDE DEF n, M, e, wh, at
  <2> QED BY <1>6, <1>7, <1>8 DEF Admissible, Allowed
<1>10. Value(s, T) = Worth(e, wh, M, n)
  <2> DEFINE x == [k \in 1 .. n |-> IF at(k) \in T THEN BlockValue(s, T, at(k)) ELSE 0]
  <2>1. Value(s, T) = Total(x)
    BY DEF Value
  <2>2. x = Terms(e, wh, M, n)
    <3> HIDE DEF n, M, e, wh, at
    <3>1. \A k \in 1 .. n : (IF at(k) \in T THEN BlockValue(s, T, at(k)) ELSE 0)
                              = (IF k \in M THEN Fit(e, wh, k, EndIn(M, n, k)) ELSE 0)
      BY <1>3, <1>6
    <3> QED BY <3>1 DEF Terms
  <2> QED BY <2>1, <2>2 DEF Worth
<1>11. {EdgeAt(s, p) : p \in T \cup {s[2] + 1}} = {e[j] : j \in M \cup {n + 1}}
  <2>1. at(n + 1) = s[2] + 1 /\ n + 1 \in Nat
    <3> HIDE DEF n
    <3> QED BY <1>1
  <2>2. \A i \in M : i \in Nat
    BY <1>4
  <2>3. \A i \in M \cup {n + 1} : EdgeAt(s, at(i)) = e[i]
    BY <2>1, <2>2, EdgeMoves
  <2>4. T \cup {s[2] + 1} = {at(i) : i \in M \cup {n + 1}}
    <3> HIDE DEF n, M, at
    <3> QED BY <1>7, <1>8, <2>1
  <2> DEFINE all == M \cup {n + 1}
  <2> HIDE DEF n, M, e, at
  <2>5. {EdgeAt(s, p) : p \in T \cup {s[2] + 1}} = {EdgeAt(s, at(i)) : i \in all}
    <3> HIDE DEF all
    <3> QED BY <2>4 DEF all
  <2>6. {EdgeAt(s, at(i)) : i \in all} = {e[i] : i \in all}
    BY <2>3
  <2> QED BY <2>5, <2>6
<1> QED BY <1>5, <1>9, <1>10, <1>11

(* Every cut of the positions is that of a cut of the section. *)
LEMMA MovesBack ==
  ASSUME NEW s \in Sections, NEW M \in CutsTo(Size(s))
  PROVE  \E T \in Cuts(s) : Moved(s, T) = M
<1> DEFINE n == Size(s)
           T == {s[1] + i - 1 : i \in M}
<1>1. /\ s[1] \in Nat /\ s[2] \in Nat /\ s[1] <= s[2] /\ n \in Nat \ {0} /\ n = s[2] - s[1] + 1
  BY Positions
<1>2. M \in SUBSET (1 .. n) /\ 1 \in M
  BY DEF CutsTo
<1> HIDE DEF n
<1>3. ASSUME NEW i \in M PROVE s[1] + i - 1 \in s[1] .. s[2]
  <2>1. i \in 1 .. n
    BY <1>2
  <2> QED BY <1>1, <2>1
<1>4. s[1] \in T
  <2>1. s[1] = s[1] + 1 - 1
    BY <1>1
  <2> QED BY <1>2, <2>1
<1>5. T \in Cuts(s)
  BY <1>3, <1>4 DEF Cuts
<1>6. ASSUME NEW i \in 1 .. n PROVE s[1] + i - 1 \in T <=> i \in M
  <2>1. ASSUME NEW k \in M, s[1] + i - 1 = s[1] + k - 1 PROVE i = k
    <3>1. k \in 1 .. n
      BY <1>2
    <3> QED BY <1>1, <2>1, <3>1
  <2> QED BY <2>1
<1>7. Moved(s, T) = M
  <2> HIDE DEF T
  <2> QED BY <1>2, <1>6 DEF Moved, n
<1> QED BY <1>5, <1>7

-----------------------------------------------------------------------------
(* What the leaves find.                                                   *)

(* What a task finds for its section is a best cut of it. *)
LEMMA SectionBest ==
  ASSUME NEW s \in Sections, NEW count \in Counts, Weighs(s, LeafWeights(s), count)
  PROVE  LET found == Range(Conquer(Values(s), LeafWeights(s)))
             all == {T \in Cuts(s) : Admissible(s, T)}
         IN  \/ all = {} /\ found = {EdgeAt(s, s[2] + 1)}
             \/ \E T \in all : /\ found = {EdgeAt(s, p) : p \in T \cup {s[2] + 1}}
                               /\ \A U \in all : Value(s, U) <= Value(s, T)
<1> DEFINE found == Range(Conquer(Values(s), LeafWeights(s)))
           all == {T \in Cuts(s) : Admissible(s, T)}
           e == SectionEdge(s)
           wh == Sums(s)
           n == Size(s)
<1>1. LeafWeights(s) \in Seq(Nat)
  BY DEF Weighs
<1>2. \/ /\ \A M \in CutsTo(n) : ~Allowed(e, wh, M, n)
         /\ found = {e[n + 1]}
      \/ \E M \in CutsTo(n) :
           /\ Allowed(e, wh, M, n) /\ found = {e[j] : j \in M \cup {n + 1}}
           /\ \A U \in CutsTo(n) : Allowed(e, wh, U, n) => Worth(e, wh, U, n) <= Worth(e, wh, M, n)
  BY ConquerIsBest DEF SectionEdge, Sums
<1> HIDE DEF found, e, wh
<1>3. \A T \in Cuts(s) :
        /\ Moved(s, T) \in CutsTo(n)
        /\ Admissible(s, T) <=> Allowed(e, wh, Moved(s, T), n)
        /\ Value(s, T) = Worth(e, wh, Moved(s, T), n)
        /\ {EdgeAt(s, p) : p \in T \cup {s[2] + 1}} = {e[j] : j \in Moved(s, T) \cup {n + 1}}
  BY <1>1, CutMoves DEF e, wh
<1>4. EdgeAt(s, s[2] + 1) = e[n + 1]
  <2>1. n + 1 \in Nat /\ s[1] + (n + 1) - 1 = s[2] + 1
    BY Positions
  <2>2. EdgeAt(s, s[1] + (n + 1) - 1) = e[n + 1]
    BY <2>1, EdgeMoves DEF e
  <2> QED BY <2>1, <2>2
<1>5. \A M \in CutsTo(n) : \E T \in Cuts(s) : Moved(s, T) = M
  BY MovesBack
<1> HIDE DEF n
<1>6. CASE /\ \A M \in CutsTo(n) : ~Allowed(e, wh, M, n)
           /\ found = {e[n + 1]}
  <2>1. all = {}
    BY <1>3, <1>6
  <2> QED BY <1>4, <1>6, <2>1 DEF found
<1>7. CASE \E M \in CutsTo(n) :
             /\ Allowed(e, wh, M, n) /\ found = {e[j] : j \in M \cup {n + 1}}
             /\ \A U \in CutsTo(n) :
                  Allowed(e, wh, U, n) => Worth(e, wh, U, n) <= Worth(e, wh, M, n)
  <2>1. PICK M \in CutsTo(n) :
             /\ Allowed(e, wh, M, n) /\ found = {e[j] : j \in M \cup {n + 1}}
             /\ \A U \in CutsTo(n) :
                  Allowed(e, wh, U, n) => Worth(e, wh, U, n) <= Worth(e, wh, M, n)
    BY <1>7
  <2>2. PICK T \in Cuts(s) : Moved(s, T) = M
    BY <1>5
  <2>3. T \in all /\ found = {EdgeAt(s, p) : p \in T \cup {s[2] + 1}}
    BY <1>3, <2>1, <2>2
  <2>4. ASSUME NEW U \in all PROVE Value(s, U) <= Value(s, T)
    <3>1. /\ Moved(s, U) \in CutsTo(n) /\ Allowed(e, wh, Moved(s, U), n)
          /\ Value(s, U) = Worth(e, wh, Moved(s, U), n) /\ Value(s, T) = Worth(e, wh, M, n)
      BY <1>3, <2>2
    <3> QED BY <2>1, <3>1
  <2> HIDE DEF all
  <2>5. \E V \in all : /\ found = {EdgeAt(s, p) : p \in V \cup {s[2] + 1}}
                       /\ \A U \in all : Value(s, U) <= Value(s, V)
    BY <2>3, <2>4
  <2> QED BY <2>5 DEF found, all
<1> QED BY <1>2, <1>6, <1>7

(* The points that are shared in the section of a task are those at which  *)
(* the calls above it are waiting: their weights are what the task sees.   *)
LEMMA WorkingWeights ==
  ASSUME TreeInv, WeightInv, NEW s \in Sections, status[s] = "working", Size(s) <= WorkSize
  PROVE  WeightsOf(s) = LeafWeights(s)
<1>1. /\ s[1] \in Nat /\ s[2] \in Nat /\ Present(s) /\ Whole(s) /\ ~Ended(s)
      /\ WorkSize \in Nat /\ Size(s) \in Nat
  BY Positions, SampleFacts DEF Present, Whole, Ended
<1>2. ASSUME NEW p \in s[1] .. s[2], NEW t \in Sections, status[t] # "absent",
             Size(t) > WorkSize, Mid(t) = p
      PROVE  status[t] = "waiting"
  <2>1. t # s /\ Present(t) /\ s[1] < t[2] /\ t[1] < s[2]
        /\ t[1] \in Nat /\ t[2] \in Nat /\ t[1] < p /\ p < t[2]
    <3>1. t # s /\ Present(t)
      BY <1>1, <1>2 DEF Present
    <3>2. t[1] \in Nat /\ t[2] \in Nat /\ t[1] < p /\ p < t[2]
      BY <1>2, MidFacts, Positions
    <3> QED BY <1>1, <3>1, <3>2
  <2>2. ~Apart(s, t)
    BY <1>1, <2>1 DEF Apart
  <2>3. Below(s, t)
    BY <1>1, <2>1, <2>2, WholeIsAlone
  <2>4. Within(s, t) /\ ~Whole(t)
    BY <2>3, BelowIsSmaller DEF Below
  <2>5. ~Ended(t)
    BY <1>1, <2>1, <2>4 DEF TreeInv, Closed, Ended
  <2>6. status[t] \in Status
    BY DEF TreeInv, TasksType
  <2> QED BY <1>2, <2>4, <2>5, <2>6 DEF Whole, Ended, Status
<1>3. ASSUME NEW p \in s[1] .. s[2] PROVE weights[p] = Weight(p)
  <2>1. Divided(p) <=> p \in Shared
    <3>1. ASSUME p \in Shared PROVE Divided(p)
      <4>1. PICK t \in Sections : status[t] # "absent" /\ Size(t) > WorkSize /\ Mid(t) = p
        BY <3>1 DEF Shared
      <4> QED BY <1>2, <4>1 DEF Divided
    <3>2. ASSUME Divided(p) PROVE p \in Shared
      <4>1. PICK t \in Sections : status[t] = "waiting" /\ Mid(t) = p
        BY <3>2 DEF Divided
      <4>2. Size(t) > WorkSize /\ status[t] # "absent"
        BY <4>1 DEF WeightInv, WaitingIsLarge
      <4> QED BY <4>1, <4>2 DEF Shared
    <3> QED BY <3>1, <3>2
  <2>2. p \in Points
    BY SectionFacts
  <2> QED BY <2>1, <2>2 DEF Weight, WeightInv, Halved
<1>4. \A i \in 1 .. Size(s) : s[1] + i - 1 \in s[1] .. s[2]
  BY ValuesAre
<1>5. \A i \in 1 .. Size(s) : weights[s[1] + i - 1] = Weight(s[1] + i - 1)
  BY <1>3, <1>4
<1> QED BY <1>5 DEF WeightsOf, LeafWeights

(* What weights a section that has ended had does not change any more: a   *)
(* section is divided inside a part of the sample apart from it.           *)
LEMMA SharedStays ==
  ASSUME TreeInv, NEW u \in Sections, Divide(u), NEW s \in Sections, Ended(s), Size(s) <= WorkSize
  PROVE  LeafWeights(s)' = LeafWeights(s)
<1>1. /\ status[u] = "called" /\ Size(u) > WorkSize /\ UNCHANGED original
      /\ status' = [t \in Sections |->
                      IF t = u THEN "waiting" ELSE IF t \in Halves(u) THEN "called" ELSE status[t]]
  BY DEF Divide
<1>2. \A half \in Halves(u) : half \in Sections /\ Within(half, u)
  BY <1>1, HalfFacts
<1>3. /\ s[1] \in Nat /\ s[2] \in Nat /\ u[1] \in Nat /\ u[2] \in Nat
      /\ WorkSize \in Nat /\ Size(s) \in Nat
  BY Positions, SampleFacts
<1>4. Apart(u, s)
  <2>1. Present(u) /\ Present(s) /\ s # u /\ Whole(u)
    BY <1>1 DEF Present, Ended, Whole
  <2>2. Apart(u, s) \/ Below(u, s)
    BY <2>1, WholeIsAlone
  <2>3. ~Below(u, s)
    BY <1>3 DEF Below
  <2> QED BY <2>2, <2>3
<1>5. ASSUME NEW p \in s[1] .. s[2] PROVE p \in Shared' <=> p \in Shared
  <2>1. ASSUME p \in Shared PROVE p \in Shared'
    <3>1. PICK t \in Sections : status[t] # "absent" /\ Size(t) > WorkSize /\ Mid(t) = p
      BY <2>1 DEF Shared
    <3>2. status'[t] # "absent"
      BY <1>1, <3>1
    <3> QED BY <3>1, <3>2 DEF Shared
  <2>2. ASSUME p \in Shared' PROVE p \in Shared
    <3>1. PICK t \in Sections : status'[t] # "absent" /\ Size(t) > WorkSize /\ Mid(t) = p
      BY <2>2 DEF Shared
    <3>2. CASE t \in Halves(u)
      <4>1. t[1] < p /\ p < t[2] /\ t[1] \in Nat /\ t[2] \in Nat
        BY <3>1, MidFacts, Positions
      <4>2. u[1] <= t[1] /\ t[2] <= u[2]
        BY <1>2, <3>2 DEF Within
      <4>3. FALSE
        BY <1>3, <1>4, <4>1, <4>2 DEF Apart
      <4> QED BY <4>3
    <3>3. CASE t \notin Halves(u)
      <4>1. status[t] # "absent"
        BY <1>1, <3>1, <3>3
      <4> QED BY <3>1, <4>1 DEF Shared
    <3> QED BY <3>2, <3>3
  <2> QED BY <2>1, <2>2
<1>6. \A i \in 1 .. Size(s) : s[1] + i - 1 \in s[1] .. s[2]
  BY ValuesAre
<1>7. \A i \in 1 .. Size(s) : Weight(s[1] + i - 1)' = Weight(s[1] + i - 1)
  BY <1>1, <1>5, <1>6 DEF Weight
<1> QED BY <1>7 DEF LeafWeights

-----------------------------------------------------------------------------
(* What the change points of each section are.                             *)

(* What the change points of each section are: of a leaf, what its task    *)
(* found for it; of a divided section, those of its halves whose tasks     *)
(* have merged theirs.                                                     *)
MergedHalves(s) == {half \in Halves(s) : status[half] = "merged"}
Gathered(s) == UNION {Range(change_points[half]) : half \in MergedHalves(s)}

WorkingIsSmall == \A s \in Sections : status[s] = "working" => Size(s) <= WorkSize
NoneYet ==
  \A s \in Sections : status[s] \in {"absent", "called", "working"} => change_points[s] = <<>>
LeavesFound ==
  \A s \in Sections : Ended(s) /\ Size(s) <= WorkSize =>
    change_points[s] = Conquer(Values(s), LeafWeights(s))
HalvesGathered ==
  \A s \in Sections : Size(s) > WorkSize /\ status[s] \in {"waiting", "computed", "merged"} =>
    Range(change_points[s]) = Gathered(s)
HalvesMerged ==
  \A s \in Sections : Size(s) > WorkSize /\ Ended(s) =>
    \A half \in Halves(s) : status[half] = "merged"

LeavesInv == WorkingIsSmall /\ NoneYet /\ LeavesFound /\ HalvesGathered /\ HalvesMerged

(* The invariant holds at first: nothing has been computed.                *)
LEMMA InitialLeaves == Init => LeavesInv
<1> SUFFICES ASSUME Init PROVE LeavesInv
  OBVIOUS
<1>1. \A s \in Sections : status[s] \in {"called", "absent"} /\ change_points[s] = <<>>
  BY DEF Init
<1> QED BY <1>1 DEF LeavesInv, WorkingIsSmall, NoneYet, LeavesFound, HalvesGathered,
                    HalvesMerged, Ended

(* The weights of the sections stay when no section is called. *)
LEMMA SharedUnlessCalled ==
  ASSUME UNCHANGED original, \A t \in Sections : status'[t] # "absent" <=> status[t] # "absent",
         NEW s
  PROVE  LeafWeights(s)' = LeafWeights(s)
<1>1. Shared' = Shared
  BY DEF Shared
<1>2. \A p : Weight(p)' = Weight(p)
  BY <1>1 DEF Weight
<1> QED BY <1>2 DEF LeafWeights

(* What is gathered from the halves of a section stays while these do. *)
LEMMA GatheredStays ==
  ASSUME NEW s, \A half \in Halves(s) : status'[half] = "merged" <=> status[half] = "merged",
         \A half \in Halves(s) :
           status[half] = "merged" => change_points'[half] = change_points[half]
  PROVE  Gathered(s)' = Gathered(s)
<1>1. MergedHalves(s)' = MergedHalves(s)
  BY DEF MergedHalves, Halves, Mid, Size
<1>2. \A half \in MergedHalves(s) : change_points'[half] = change_points[half]
  BY DEF MergedHalves
<1>3. {Range(change_points'[half]) : half \in MergedHalves(s)} =
        {Range(change_points[half]) : half \in MergedHalves(s)}
  BY <1>2
<1> QED BY <1>1, <1>3 DEF Gathered

(* Every step keeps what the change points of the sections are.            *)
LEMMA LeavesStep ==
  TreeInv /\ WeightInv /\ DataInv /\ LeavesInv /\ [Next]_vars => LeavesInv'
<1> SUFFICES ASSUME TreeInv, WeightInv, DataInv, LeavesInv, [Next]_vars PROVE LeavesInv'
  OBVIOUS
<1>1. /\ status \in [Sections -> Status]
      /\ change_points = [t \in Sections |-> change_points[t]]
      /\ \A t \in Sections : change_points[t] \in Seq(Interval(t))
  BY DEF TreeInv, TasksType, DataInv, Inside
<1>2. \A t \in Sections : status[t] = "waiting" => Size(t) > WorkSize
  BY DEF WeightInv, WaitingIsLarge
<1>3. /\ \A t \in Sections : status[t] = "working" => Size(t) <= WorkSize
      /\ \A t \in Sections :
           status[t] \in {"absent", "called", "working"} => change_points[t] = <<>>
      /\ \A t \in Sections : Ended(t) /\ Size(t) <= WorkSize =>
           change_points[t] = Conquer(Values(t), LeafWeights(t))
      /\ \A t \in Sections :
           Size(t) > WorkSize /\ status[t] \in {"waiting", "computed", "merged"} =>
             Range(change_points[t]) = Gathered(t)
      /\ \A t \in Sections : Size(t) > WorkSize /\ Ended(t) =>
           \A half \in Halves(t) : status[half] = "merged"
  BY DEF LeavesInv, WorkingIsSmall, NoneYet, LeavesFound, HalvesGathered, HalvesMerged
<1>4. \A t \in Sections :
        Size(t) > WorkSize => \A half \in Halves(t) : half \in Sections /\ half # t
  BY HalfFacts
<1>5. WorkSize \in Nat /\ \A t \in Sections : Size(t) \in Nat
  BY SampleFacts, Positions
<1>6. ASSUME NEW s \in Sections, Divide(s) PROVE LeavesInv'
  <2>1. /\ status[s] = "called" /\ Size(s) > WorkSize /\ UNCHANGED <<original, change_points>>
        /\ \A t \in Sections : status'[t] =
             IF t = s THEN "waiting" ELSE IF t \in Halves(s) THEN "called" ELSE status[t]
    BY <1>6 DEF Divide
  <2>2. \A half \in Halves(s) : status[half] = "absent" /\ half \in Sections /\ half # s
    BY <1>4, <1>6, <2>1, DivideTree
  <2>3. \A t \in Sections : status'[t] \in {"computed", "merged"} <=> Ended(t)
    BY <2>1, <2>2 DEF Ended
  <2>4. \A t \in Sections : status'[t] = "merged" <=> status[t] = "merged"
    BY <2>1, <2>2
  <2>5. WorkingIsSmall'
    BY <1>3, <2>1 DEF WorkingIsSmall
  <2>6. NoneYet'
    BY <1>3, <2>1, <2>2 DEF NoneYet
  <2>7. LeavesFound'
    <3>1. \A t \in Sections : Ended(t) /\ Size(t) <= WorkSize => LeafWeights(t)' = LeafWeights(t)
      BY <1>6, SharedStays
    <3> QED BY <1>3, <2>1, <2>3, <3>1 DEF LeavesFound, Ended
  <2>8. HalvesGathered'
    <3> SUFFICES ASSUME NEW t \in Sections, Size(t) > WorkSize,
                        status'[t] \in {"waiting", "computed", "merged"}
                 PROVE  Range(change_points[t]) = Gathered(t)'
      BY <2>1 DEF HalvesGathered
    <3>1. Gathered(t)' = Gathered(t)
      BY <1>4, <2>1, <2>4, GatheredStays
    <3>2. CASE t = s
      <4>1. MergedHalves(s) = {}
        BY <2>2 DEF MergedHalves
      <4>2. Gathered(s) = {}
        BY <4>1 DEF Gathered
      <4>3. Range(<<>>) = {}
        BY DEF Range
      <4>4. change_points[s] = <<>>
        BY <1>3, <2>1
      <4> QED BY <3>1, <3>2, <4>2, <4>3, <4>4
    <3>3. CASE t # s
      <4>1. status[t] \in {"waiting", "computed", "merged"}
        BY <2>1, <2>2, <3>3
      <4> QED BY <1>3, <3>1, <4>1
    <3> QED BY <3>2, <3>3
  <2>9. HalvesMerged'
    BY <1>3, <1>4, <2>3, <2>4 DEF HalvesMerged, Ended
  <2> QED BY <2>5, <2>6, <2>7, <2>8, <2>9 DEF LeavesInv
(* Steps that move the status of one call on. *)
<1>7. ASSUME NEW s \in Sections, NEW x \in Status, status[s] # "absent", x # "absent",
             \A t \in Sections : status'[t] = IF t = s THEN x ELSE status[t], UNCHANGED original
      PROVE  \A t \in Sections : LeafWeights(t)' = LeafWeights(t)
  <2>1. \A t \in Sections : status'[t] # "absent" <=> status[t] # "absent"
    BY <1>7
  <2> QED BY <1>7, <2>1, SharedUnlessCalled
<1>8. ASSUME NEW s \in Sections, Start(s) PROVE LeavesInv'
  <2>1. /\ status[s] = "called" /\ Size(s) <= WorkSize /\ UNCHANGED <<original, change_points>>
        /\ status' = [status EXCEPT ![s] = "working"]
    BY <1>8 DEF Start
  <2>2. \A t \in Sections : status'[t] = IF t = s THEN "working" ELSE status[t]
    BY <1>1, <2>1
  <2>3. \A t \in Sections : LeafWeights(t)' = LeafWeights(t)
    BY <1>7, <2>1, <2>2 DEF Status
  <2>4. \A t \in Sections : status'[t] = "merged" <=> status[t] = "merged"
    BY <2>1, <2>2
  <2>5. WorkingIsSmall' /\ NoneYet'
    BY <1>3, <2>1, <2>2 DEF WorkingIsSmall, NoneYet
  <2>6. LeavesFound'
    BY <1>3, <2>1, <2>2, <2>3 DEF LeavesFound, Ended
  <2>7. HalvesGathered'
    <3> SUFFICES ASSUME NEW t \in Sections, Size(t) > WorkSize,
                        status'[t] \in {"waiting", "computed", "merged"}
                 PROVE  Range(change_points[t]) = Gathered(t)'
      BY <2>1 DEF HalvesGathered
    <3>1. Gathered(t)' = Gathered(t)
      BY <1>4, <2>1, <2>4, GatheredStays
    <3>2. status[t] \in {"waiting", "computed", "merged"}
      BY <2>2
    <3> QED BY <1>3, <3>1, <3>2
  <2>8. HalvesMerged'
    BY <1>3, <1>4, <2>2, <2>4 DEF HalvesMerged, Ended
  <2> QED BY <2>5, <2>6, <2>7, <2>8 DEF LeavesInv
<1>9. ASSUME NEW s \in Sections, Finish(s) PROVE LeavesInv'
  <2> DEFINE found == Conquer(Values(s), WeightsOf(s))
  <2>1. /\ status[s] = "working" /\ status' = [status EXCEPT ![s] = "computed"]
        /\ change_points' = [change_points EXCEPT ![s] = found] /\ UNCHANGED original
    BY <1>9 DEF Finish
  <2> HIDE DEF found
  <2>2. /\ \A t \in Sections : status'[t] = IF t = s THEN "computed" ELSE status[t]
        /\ \A t \in Sections : change_points'[t] = IF t = s THEN found ELSE change_points[t]
    BY <1>1, <2>1
  <2>3. \A t \in Sections : LeafWeights(t)' = LeafWeights(t)
    BY <1>7, <2>1, <2>2 DEF Status
  <2>4. \A t \in Sections : status'[t] = "merged" <=> status[t] = "merged"
    BY <2>1, <2>2
  <2>5. Size(s) <= WorkSize /\ found = Conquer(Values(s), LeafWeights(s))
    <3>1. Size(s) <= WorkSize
      BY <1>3, <2>1
    <3>2. WeightsOf(s) = LeafWeights(s)
      BY <2>1, <3>1, WorkingWeights
    <3> QED BY <3>1, <3>2 DEF found
  <2>6. WorkingIsSmall' /\ NoneYet'
    BY <1>3, <2>1, <2>2 DEF WorkingIsSmall, NoneYet
  <2>7. LeavesFound'
    <3> SUFFICES ASSUME NEW t \in Sections, Ended(t)', Size(t) <= WorkSize
                 PROVE  change_points'[t] = Conquer(Values(t), LeafWeights(t))
      BY <2>3 DEF LeavesFound, Values, Size
    <3>1. CASE t = s
      BY <2>2, <2>5, <3>1
    <3>2. CASE t # s
      BY <1>3, <2>2, <3>2 DEF Ended
    <3> QED BY <3>1, <3>2
  <2>8. HalvesGathered'
    <3> SUFFICES ASSUME NEW t \in Sections, Size(t) > WorkSize,
                        status'[t] \in {"waiting", "computed", "merged"}
                 PROVE  Range(change_points'[t]) = Gathered(t)'
      BY DEF HalvesGathered, Size
    <3>1. t # s /\ status[t] \in {"waiting", "computed", "merged"}
      BY <1>5, <2>2, <2>5
    <3>2. \A half \in Halves(t) :
            status[half] = "merged" => change_points'[half] = change_points[half]
      BY <1>4, <2>1, <2>2
    <3>3. Gathered(t)' = Gathered(t)
      BY <1>4, <2>4, <3>2, GatheredStays
    <3> QED BY <1>3, <2>2, <3>1, <3>3
  <2>9. HalvesMerged'
    <3> SUFFICES ASSUME NEW t \in Sections, Size(t) > WorkSize, Ended(t)', NEW half \in Halves(t)
                 PROVE  status'[half] = "merged"
      BY DEF HalvesMerged, Size, Halves, Mid
    <3>1. t # s
      BY <1>5, <2>5
    <3> QED BY <1>3, <1>4, <2>2, <2>4, <3>1 DEF Ended
  <2> QED BY <2>6, <2>7, <2>8, <2>9 DEF LeavesInv
<1>10. ASSUME NEW s \in Sections, Join(s) PROVE LeavesInv'
  <2>1. /\ status[s] = "waiting" /\ \A half \in Halves(s) : status[half] = "merged"
        /\ status' = [status EXCEPT ![s] = "computed"] /\ UNCHANGED <<original, change_points>>
    BY <1>10 DEF Join
  <2>2. \A t \in Sections : status'[t] = IF t = s THEN "computed" ELSE status[t]
    BY <1>1, <2>1
  <2>3. \A t \in Sections : LeafWeights(t)' = LeafWeights(t)
    BY <1>7, <2>1, <2>2 DEF Status
  <2>4. \A t \in Sections : status'[t] = "merged" <=> status[t] = "merged"
    BY <2>1, <2>2
  <2>5. Size(s) > WorkSize
    BY <1>2, <2>1
  <2>6. WorkingIsSmall' /\ NoneYet'
    BY <1>3, <2>1, <2>2 DEF WorkingIsSmall, NoneYet
  <2>7. LeavesFound'
    <3> SUFFICES ASSUME NEW t \in Sections, Ended(t)', Size(t) <= WorkSize
                 PROVE  change_points[t] = Conquer(Values(t), LeafWeights(t))
      BY <2>1, <2>3 DEF LeavesFound, Values, Size
    <3>1. t # s
      BY <1>5, <2>5
    <3> QED BY <1>3, <2>2, <3>1 DEF Ended
  <2>8. HalvesGathered'
    <3> SUFFICES ASSUME NEW t \in Sections, Size(t) > WorkSize,
                        status'[t] \in {"waiting", "computed", "merged"}
                 PROVE  Range(change_points[t]) = Gathered(t)'
      BY <2>1 DEF HalvesGathered
    <3>1. Gathered(t)' = Gathered(t)
      BY <1>4, <2>1, <2>4, GatheredStays
    <3>2. status[t] \in {"waiting", "computed", "merged"}
      BY <2>1, <2>2
    <3> QED BY <1>3, <3>1, <3>2
  <2>9. HalvesMerged'
    <3> SUFFICES ASSUME NEW t \in Sections, Size(t) > WorkSize, Ended(t)', NEW half \in Halves(t)
                 PROVE  status'[half] = "merged"
      BY DEF HalvesMerged, Size, Halves, Mid
    <3>1. status[half] = "merged"
      <4>1. CASE t = s
        BY <2>1, <4>1
      <4>2. CASE t # s
        BY <1>3, <2>2, <4>2 DEF Ended
      <4> QED BY <4>1, <4>2
    <3> QED BY <1>4, <2>4, <3>1
  <2> QED BY <2>6, <2>7, <2>8, <2>9 DEF LeavesInv
<1>11. ASSUME NEW s \in Sections, NEW half \in Halves(s) \cap Sections, Merge(s, half)
       PROVE  LeavesInv'
  <2>1. /\ status[s] = "waiting" /\ status[half] = "computed"
        /\ status' = [status EXCEPT ![half] = "merged"]
        /\ change_points' = [change_points EXCEPT ![s] = @ \o change_points[half]]
        /\ UNCHANGED original
    BY <1>11 DEF Merge
  <2> DEFINE both == change_points[s] \o change_points[half]
  <2>2. /\ Size(s) > WorkSize /\ half \in Sections /\ half \in Halves(s) /\ half # s
        /\ Within(half, s)
    BY <1>2, <2>1, HalfFacts
  <2>3. Range(both) = Range(change_points[s]) \cup Range(change_points[half])
    <3>1. Interval(half) \subseteq Interval(s)
      BY <2>2, WithinInterval
    <3>2. change_points[s] \in Seq(Interval(s)) /\ change_points[half] \in Seq(Interval(s))
      BY <1>1, <2>2, <3>1
    <3> QED BY <3>2, RangeOfBoth
  <2> HIDE DEF both
  <2>4. /\ \A t \in Sections : status'[t] = IF t = half THEN "merged" ELSE status[t]
        /\ \A t \in Sections : change_points'[t] = IF t = s THEN both ELSE change_points[t]
    BY <1>1, <2>1 DEF both
  <2>5. \A t \in Sections : LeafWeights(t)' = LeafWeights(t)
    BY <1>7, <2>1, <2>2, <2>4 DEF Status
  <2>6. WorkingIsSmall' /\ NoneYet'
    BY <1>3, <2>1, <2>2, <2>4 DEF WorkingIsSmall, NoneYet
  <2>7. LeavesFound'
    <3> SUFFICES ASSUME NEW t \in Sections, Ended(t)', Size(t) <= WorkSize
                 PROVE  change_points'[t] = Conquer(Values(t), LeafWeights(t))
      BY <2>5 DEF LeavesFound, Values, Size
    <3>1. t # s
      BY <1>5, <2>2
    <3>2. Ended(t)
      BY <2>1, <2>4 DEF Ended
    <3> QED BY <1>3, <2>4, <3>1, <3>2
  <2>8. HalvesGathered'
    <3> SUFFICES ASSUME NEW t \in Sections, Size(t) > WorkSize,
                        status'[t] \in {"waiting", "computed", "merged"}
                 PROVE  Range(change_points'[t]) = Gathered(t)'
      BY DEF HalvesGathered, Size
    <3>1. status[t] \in {"waiting", "computed", "merged"}
      BY <2>1, <2>4
    <3>2. Range(change_points[t]) = Gathered(t)
      BY <1>3, <3>1
    <3>3. \A h \in Halves(t) : status[h] = "merged" => change_points'[h] = change_points[h]
      BY <1>4, <2>1, <2>4
    <3>4. CASE t = s
      <4>1. MergedHalves(s)' = MergedHalves(s) \cup {half}
        <5>1. \A h \in Halves(s) : status'[h] = "merged" <=> status[h] = "merged" \/ h = half
          BY <1>4, <2>2, <2>4
        <5> QED BY <2>2, <5>1 DEF MergedHalves, Halves, Mid, Size
      <4>2. \A h \in MergedHalves(s) \cup {half} : change_points'[h] = change_points[h]
        BY <2>2, <2>4, <3>3, <3>4 DEF MergedHalves
      <4>3. Gathered(s)' = UNION {Range(change_points[h]) : h \in MergedHalves(s) \cup {half}}
        <5>1. {Range(change_points'[h]) : h \in MergedHalves(s) \cup {half}} =
                {Range(change_points[h]) : h \in MergedHalves(s) \cup {half}}
          BY <4>2
        <5> QED BY <4>1, <5>1 DEF Gathered
      <4>4. Gathered(s)' = Gathered(s) \cup Range(change_points[half])
        BY <4>3 DEF Gathered
      <4> QED BY <2>3, <2>4, <3>2, <3>4, <4>4
    <3>5. CASE t # s
      <4>1. half \notin Halves(t)
        BY <1>2, <2>1, <2>2, <3>1, <3>5, ParentIsOne DEF Present
      <4>2. \A h \in Halves(t) : status'[h] = "merged" <=> status[h] = "merged"
        BY <1>4, <2>4, <4>1
      <4>3. Gathered(t)' = Gathered(t)
        BY <3>3, <4>2, GatheredStays
      <4> QED BY <2>4, <3>2, <3>5, <4>3
    <3> QED BY <3>4, <3>5
  <2>9. HalvesMerged'
    <3> SUFFICES ASSUME NEW t \in Sections, Size(t) > WorkSize, Ended(t)', NEW h \in Halves(t)
                 PROVE  status'[h] = "merged"
      BY DEF HalvesMerged, Size, Halves, Mid
    <3>1. Ended(t)
      BY <2>1, <2>4 DEF Ended
    <3> QED BY <1>3, <1>4, <2>4, <3>1
  <2> QED BY <2>6, <2>7, <2>8, <2>9 DEF LeavesInv
<1>12. ASSUME BuildBlocks PROVE LeavesInv'
  <2>1. /\ status[Root] = "computed" /\ status' = [status EXCEPT ![Root] = "merged"]
        /\ UNCHANGED <<original, change_points>>
    BY <1>12 DEF BuildBlocks
  <2>2. Root \in Sections
    BY RootIsSection
  <2>3. \A t \in Sections : status'[t] = IF t = Root THEN "merged" ELSE status[t]
    BY <1>1, <2>1
  <2>4. \A t \in Sections : LeafWeights(t)' = LeafWeights(t)
    BY <1>7, <2>1, <2>2, <2>3 DEF Status
  <2>5. \A t \in Sections : Ended(t)' <=> Ended(t)
    BY <2>1, <2>3 DEF Ended
  <2>6. \A t \in Sections : Size(t) > WorkSize =>
          \A half \in Halves(t) : status'[half] = status[half]
    BY <1>4, <2>3, RootIsNoHalf
  <2>7. WorkingIsSmall' /\ NoneYet'
    BY <1>3, <2>1, <2>3 DEF WorkingIsSmall, NoneYet
  <2>8. LeavesFound'
    BY <1>3, <2>1, <2>4, <2>5 DEF LeavesFound
  <2>9. HalvesGathered'
    <3> SUFFICES ASSUME NEW t \in Sections, Size(t) > WorkSize,
                        status'[t] \in {"waiting", "computed", "merged"}
                 PROVE  Range(change_points[t]) = Gathered(t)'
      BY <2>1 DEF HalvesGathered
    <3>1. Gathered(t)' = Gathered(t)
      BY <2>1, <2>6, GatheredStays
    <3>2. status[t] \in {"waiting", "computed", "merged"}
      BY <2>1, <2>3
    <3> QED BY <1>3, <3>1, <3>2
  <2>10. HalvesMerged'
    BY <1>3, <2>5, <2>6 DEF HalvesMerged
  <2> QED BY <2>7, <2>8, <2>9, <2>10 DEF LeavesInv
<1>13. CASE UNCHANGED vars
  <2>1. UNCHANGED <<original, status, change_points>>
    BY <1>13 DEF vars
  <2>2. \A t \in Sections : LeafWeights(t)' = LeafWeights(t)
    BY <2>1, SharedUnlessCalled
  <2>3. \A t \in Sections : Gathered(t)' = Gathered(t)
    BY <2>1, GatheredStays
  <2>4. LeavesFound'
    BY <1>3, <2>1, <2>2 DEF LeavesFound, Ended
  <2>5. HalvesGathered'
    BY <1>3, <2>1, <2>3 DEF HalvesGathered
  <2> QED BY <1>3, <2>1, <2>4, <2>5
          DEF LeavesInv, WorkingIsSmall, NoneYet, HalvesMerged, Ended
<1> QED BY <1>6, <1>8, <1>9, <1>10, <1>11, <1>12, <1>13 DEF Next, Finished

(* When the whole sample is done, every call is, and what is in its change *)
(* points is what the leaves inside have found.                            *)
LEMMA AllEnded ==
  ASSUME TreeInv, status[Root] = "merged", NEW s, Present(s)
  PROVE  Ended(s) /\ Within(s, Root)
<1>1. Root \in Sections /\ Present(Root) /\ Ended(Root)
  BY RootIsSection DEF Present, Ended
<1>2. Within(s, Root)
  <2>1. s \in Sections
    BY DEF Present
  <2>2. s[1] \in 1 .. Len(Sample) /\ s[2] \in 1 .. Len(Sample) /\ Len(Sample) \in Nat
    BY <2>1, SectionFacts, SampleFacts DEF Points
  <2>3. Root[1] = 1 /\ Root[2] = Len(Sample)
    BY DEF Root
  <2> QED BY <2>2, <2>3 DEF Within
<1>3. s # Root => status[s] = "merged"
  BY <1>1, <1>2 DEF TreeInv, Closed
<1> QED BY <1>1, <1>2, <1>3 DEF Ended

(* The halves of a section that has ended have been merged.                *)
LEMMA PresentHalves ==
  ASSUME LeavesInv, NEW s \in Sections, Size(s) > WorkSize, Ended(s), NEW half \in Halves(s)
  PROVE  Present(half) /\ Ended(half) /\ Within(half, s)
         /\ half \in Sections /\ half \in MergedHalves(s)
<1>1. half \in Sections /\ Within(half, s)
  BY HalfFacts
<1>2. status[half] = "merged"
  BY DEF LeavesInv, HalvesMerged
<1> QED BY <1>1, <1>2 DEF Present, Ended, MergedHalves

(* A half is smaller than its section. *)
LEMMA HalfIsSmaller ==
  ASSUME NEW s \in Sections, Size(s) > WorkSize, NEW half \in Halves(s)
  PROVE  half \in Sections /\ Size(half) \in Nat /\ Size(half) < Size(s)
<1>1. half \in Sections
  BY HalfFacts
<1>2. /\ s[1] \in Nat /\ s[2] \in Nat /\ Mid(s) \in Nat /\ s[1] < Mid(s) /\ Mid(s) < s[2]
  BY Positions, MidFacts
<1>3. half = <<s[1], Mid(s)>> \/ half = <<Mid(s), s[2]>>
  BY DEF Halves
<1>4. CASE half = <<s[1], Mid(s)>>
  <2>1. half[1] = s[1] /\ half[2] = Mid(s)
    BY <1>4
  <2> QED BY <1>1, <1>2, <2>1 DEF Size
<1>5. CASE half = <<Mid(s), s[2]>>
  <2>1. half[1] = Mid(s) /\ half[2] = s[2]
    BY <1>5
  <2> QED BY <1>1, <1>2, <2>1 DEF Size
<1> QED BY <1>3, <1>4, <1>5

(* A leaf inside a section is the section, or inside a half of it.         *)
LEMMA LeavesBelow ==
  ASSUME TreeInv, NEW s, Present(s), NEW t, Present(t), Within(t, s), t # s, Size(t) <= WorkSize
  PROVE  \E half \in Halves(s) : Present(half) /\ Within(t, half) /\ Size(s) > WorkSize
<1>1. /\ s \in Sections /\ t \in Sections /\ s[1] < s[2] /\ t[1] < t[2]
  BY DEF Present, TreeInv, Wide
<1>2. /\ s[1] \in Nat /\ s[2] \in Nat /\ t[1] \in Nat /\ t[2] \in Nat
      /\ WorkSize \in Nat /\ Size(t) \in Nat
  BY <1>1, Positions, SampleFacts
<1>3. ~Apart(s, t)
  BY <1>1, <1>2 DEF Apart, Within
<1>4. ~Below(s, t)
  BY <1>2 DEF Below
<1>5. Below(t, s)
  BY <1>3, <1>4 DEF TreeInv, Tree
<1> QED BY <1>5 DEF Below

(* What is in the change points of a section is what its leaves have       *)
(* found: by induction on its size.                                        *)
LEMMA FoundByLeaves ==
  ASSUME TreeInv, LeavesInv, NEW s, Present(s), Ended(s), NEW e
  PROVE  e \in Range(change_points[s]) <=>
           \E t \in Leaves : Within(t, s) /\ e \in Range(change_points[t])
<1> DEFINE Holds(u) ==
             e \in Range(change_points[u]) <=>
               \E t \in Leaves : Within(t, u) /\ e \in Range(change_points[t])
           n == Size(s)
           T == {k \in 0 .. n : \A u : Present(u) /\ Ended(u) /\ Size(u) = k => Holds(u)}
<1>1. s \in Sections /\ n \in Nat /\ WorkSize \in Nat
  BY Positions, SampleFacts DEF Present
<1>2. \A t : t \in Leaves <=> Present(t) /\ Size(t) <= WorkSize
  BY DEF Leaves, Present
<1>3. ASSUME NEW k \in 0 .. n, \A j \in 0 .. n : j < k => j \in T PROVE k \in T
  <2> SUFFICES ASSUME NEW u, Present(u), Ended(u), Size(u) = k PROVE Holds(u)
    OBVIOUS
  <2>1. u \in Sections /\ Size(u) \in Nat
    BY Positions DEF Present
  <2>2. u[1] \in Nat /\ u[2] \in Nat /\ u[1] <= u[2]
    BY <2>1, Positions
  <2>3. CASE Size(u) <= WorkSize
    <3>1. u \in Leaves /\ Within(u, u)
      BY <1>2, <2>2, <2>3 DEF Within
    <3>2. \A t \in Leaves : Within(t, u) => t = u
      <4>1. ~(Size(u) > WorkSize)
        BY <1>1, <2>1, <2>3
      <4> QED BY <1>2, <4>1, LeavesBelow
    <3> QED BY <3>1, <3>2
  <2>4. CASE Size(u) > WorkSize
    <3>1. \A half \in Halves(u) :
            Present(half) /\ Ended(half) /\ Within(half, u) /\ half \in MergedHalves(u)
      BY <2>1, <2>4, PresentHalves
    <3>2. \A half \in Halves(u) : Holds(half)
      <4> SUFFICES ASSUME NEW half \in Halves(u) PROVE Holds(half)
        OBVIOUS
      <4> DEFINE j == Size(half)
      <4>1. j \in Nat /\ j < Size(u)
        BY <2>1, <2>4, HalfIsSmaller
      <4>2. j \in 0 .. n /\ j < k
        <5>1. j \in Nat /\ j < k /\ k \in 0 .. n
          BY <4>1
        <5> HIDE DEF j, n
        <5> QED BY <1>1, <5>1
      <4>3. j \in T
        BY <1>3, <4>2
      <4> HIDE DEF Holds
      <4> QED BY <3>1, <4>3
    <3>3. e \in Range(change_points[u]) <=> \E half \in Halves(u) : e \in Range(change_points[half])
      <4>1. Range(change_points[u]) = Gathered(u)
        BY <2>1, <2>4 DEF LeavesInv, HalvesGathered, Ended
      <4>2. MergedHalves(u) = Halves(u)
        BY <3>1 DEF MergedHalves
      <4> QED BY <4>1, <4>2 DEF Gathered
    <3>4. ASSUME NEW t \in Leaves, NEW half \in Halves(u), Within(t, half) PROVE Within(t, u)
      <4>1. Within(half, u) /\ half \in Sections /\ t \in Sections
        BY <1>2, <3>1 DEF Present
      <4>2. /\ half[1] \in Nat /\ half[2] \in Nat /\ t[1] \in Nat /\ t[2] \in Nat
        BY <4>1, Positions
      <4> QED BY <2>2, <3>4, <4>1, <4>2 DEF Within
    <3>5. ASSUME NEW t \in Leaves, Within(t, u) PROVE \E half \in Halves(u) : Within(t, half)
      <4>1. Present(t) /\ Size(t) <= WorkSize
        BY <1>2
      <4>2. Size(t) \in Nat /\ t # u
        BY <1>1, <2>1, <2>4, <4>1, Positions DEF Present
      <4> QED BY <3>5, <4>1, <4>2, LeavesBelow
    <3> QED BY <3>2, <3>3, <3>4, <3>5
  <2> QED BY <1>1, <2>1, <2>3, <2>4
<1>4. 0 .. n \subseteq T
  <2> HIDE DEF T, n
  <2>1. 0 \in T
    <3>1. 0 \in 0 .. n /\ \A j \in 0 .. n : ~(j < 0)
      BY <1>1
    <3> QED BY <1>3, <3>1
  <2>2. ASSUME NEW k \in 1 .. n, 0 .. k - 1 \subseteq T PROVE k \in T
    <3>1. k \in 0 .. n /\ \A j \in 0 .. n : j < k => j \in 0 .. k - 1
      BY <1>1
    <3> QED BY <1>3, <2>2, <3>1
  <2> QED BY <1>1, <2>1, <2>2, Induction
<1>5. n \in T
  BY <1>1, <1>4
<1> HIDE DEF Holds
<1>6. Holds(s)
  BY <1>5
<1> QED BY <1>6 DEF Holds

(* The ends of a section are its first and last values.                    *)
LEMMA EndEdges ==
  ASSUME NEW s \in Sections
  PROVE  EdgeAt(s, s[1]) = 2 * Sample[s[1]] /\ EdgeAt(s, s[2] + 1) = 2 * Sample[s[2]]
<1> DEFINE n == Size(s)
<1>1. s[1] + 1 - 1 = s[1] /\ s[1] + (n + 1) - 1 = s[2] + 1 /\ n + 1 \in Nat
  BY Positions
<1>2. SectionEdge(s)[1] = 2 * Sample[s[1]] /\ SectionEdge(s)[n + 1] = 2 * Sample[s[2]]
  <2>1. Spaced(Values(s)) /\ Len(Values(s)) = n /\ Values(s)[1] = 2 * Sample[s[1]]
    BY ValuesAre
  <2> QED BY <2>1, EdgesOfIs, SectionEdges DEF SectionEdge
<1>3. EdgeAt(s, s[1] + 1 - 1) = SectionEdge(s)[1]
      /\ EdgeAt(s, s[1] + (n + 1) - 1) = SectionEdge(s)[n + 1]
  BY <1>1, EdgeMoves
<1> QED BY <1>1, <1>2, <1>3

(* Within the section of a leaf, the edges of the blocks are its change    *)
(* points, and perhaps its left end.                                       *)
LEMMA EdgesOfLeaf ==
  ASSUME TreeInv, DataInv, LeavesInv, Done, NEW s \in Leaves
  PROVE  /\ Ended(s) /\ s \in Sections
         /\ Range(change_points[s]) \subseteq EdgesWithin(s)
         /\ EdgesWithin(s) \subseteq Range(change_points[s]) \cup {EdgeAt(s, s[1])}
<1>1. status[Root] = "merged" /\ blocks = Histogram
  BY DEF DataInv, IsHistogram, Done
<1>2. Present(s) /\ s \in Sections /\ Size(s) <= WorkSize
  BY DEF Leaves, Present
<1>3. Present(Root) /\ Ended(Root) /\ Root \in Sections
  BY <1>1, RootIsSection DEF Present, Ended
<1>4. Ended(s) /\ Within(s, Root)
  BY <1>1, <1>2, AllEnded
<1>5. Range(blocks.edges) = Range(change_points[Root])
  <2> DEFINE S == Range(change_points[Root])
  <2>1. change_points[Root] \in Seq(Interval(Root))
    BY <1>3 DEF DataInv, Inside
  <2>2. IsFiniteSet(S) /\ S \in SUBSET Interval(Root)
    BY <2>1, RangeIsFinite
  <2>3. Interval(Root) \subseteq Nat
    <3>1. 2 * Sample[Root[1]] \in Nat
      BY <1>3, SectionExtent DEF Edges
    <3> QED BY <3>1 DEF Interval
  <2>4. blocks.edges = Sorted(S)
    BY <1>1 DEF Histogram
  <2> HIDE DEF S
  <2>5. Range(Sorted(S)) = S
    BY <2>2, <2>3, SortedIs
  <2> QED BY <2>4, <2>5 DEF S
<1>6. \A e : e \in Range(blocks.edges) <=> \E t \in Leaves : e \in Range(change_points[t])
  <2>1. \A t \in Leaves : Within(t, Root)
    BY <1>1, AllEnded DEF Leaves, Present
  <2>2. \A e : e \in Range(change_points[Root]) <=>
           \E t \in Leaves : Within(t, Root) /\ e \in Range(change_points[t])
    BY <1>3, FoundByLeaves
  <2> QED BY <1>5, <2>1, <2>2
<1>7. EdgeAt(s, s[1]) = 2 * Sample[s[1]] /\ EdgeAt(s, s[2] + 1) = 2 * Sample[s[2]]
  BY <1>2, EndEdges
<1>8. EdgesWithin(s) =
        {e \in Range(blocks.edges) : 2 * Sample[s[1]] <= e /\ e <= 2 * Sample[s[2]]}
  BY <1>7 DEF EdgesWithin
<1>9. \A t \in Leaves : \A e \in Range(change_points[t]) :
        /\ 2 * Sample[t[1]] \in Nat /\ 2 * Sample[t[2]] \in Nat /\ e \in Nat
        /\ 2 * Sample[t[1]] <= e /\ e <= 2 * Sample[t[2]]
  <2> SUFFICES ASSUME NEW t \in Leaves, NEW e \in Range(change_points[t])
               PROVE  /\ 2 * Sample[t[1]] \in Nat /\ 2 * Sample[t[2]] \in Nat /\ e \in Nat
                      /\ 2 * Sample[t[1]] <= e /\ e <= 2 * Sample[t[2]]
    OBVIOUS
  <2>1. t \in Sections
    BY DEF Leaves
  <2>2. change_points[t] \in Seq(Interval(t))
    BY <2>1 DEF DataInv, Inside
  <2>3. e \in Interval(t)
    BY <2>2, RangeIsFinite
  <2>4. 2 * Sample[t[1]] \in Nat /\ 2 * Sample[t[2]] \in Nat
    BY <2>1, SectionExtent DEF Edges
  <2> QED BY <2>3, <2>4 DEF Interval
<1>10. Range(change_points[s]) \subseteq EdgesWithin(s)
  BY <1>6, <1>8, <1>9
<1>11. ASSUME NEW e \in EdgesWithin(s)
       PROVE  e \in Range(change_points[s]) \cup {EdgeAt(s, s[1])}
  <2>1. PICK t \in Leaves : e \in Range(change_points[t])
    BY <1>6, <1>8
  <2>2. 2 * Sample[s[1]] <= e /\ e <= 2 * Sample[s[2]] /\ e \in Nat
    BY <1>8, <1>9, <2>1
  <2>3. RightEnd(s) \in Range(change_points[s])
    BY <1>2, <1>4 DEF DataInv, EndsIn
  <2>4. CASE t = s
    BY <2>1, <2>4
  <2>5. CASE t # s
    <3>1. Present(t) /\ t \in Sections /\ Size(t) <= WorkSize
      BY DEF Leaves, Present
    <3>2. Apart(s, t)
      <4>1. ~Below(s, t) /\ ~Below(t, s)
        <5>1. WorkSize \in Nat /\ Size(s) \in Nat /\ Size(t) \in Nat
          BY <1>2, <3>1, Positions, SampleFacts
        <5> QED BY <1>2, <3>1, <5>1 DEF Below
      <4> QED BY <1>2, <2>5, <3>1, <4>1 DEF TreeInv, Tree
    <3>3. 2 * Sample[t[1]] <= e /\ e <= 2 * Sample[t[2]]
      BY <1>9, <2>1
    <3>4. /\ s[1] \in Points /\ s[2] \in Points /\ t[1] \in Points /\ t[2] \in Points
      BY <1>2, <3>1, SectionFacts
    <3>5. /\ Sample[s[1]] \in Nat /\ Sample[s[2]] \in Nat /\ Sample[t[1]] \in Nat
          /\ Sample[t[2]] \in Nat
      <4>1. \A p \in Points : Sample[p] \in Nat
        BY SampleAssumption DEF Points
      <4> QED BY <3>4, <4>1
    <3>6. CASE s[2] <= t[1]
      <4>1. Sample[s[2]] <= Sample[t[1]]
        BY <3>4, <3>6, SampleGrows
      <4>2. e = 2 * Sample[s[2]]
        BY <2>2, <3>3, <3>5, <4>1
      <4> QED BY <2>3, <4>2 DEF RightEnd
    <3>7. CASE t[2] <= s[1]
      <4>1. Sample[t[2]] <= Sample[s[1]]
        BY <3>4, <3>7, SampleGrows
      <4>2. e = 2 * Sample[s[1]]
        BY <2>2, <3>3, <3>5, <4>1
      <4> QED BY <1>7, <4>2
    <3> QED BY <3>2, <3>6, <3>7 DEF Apart
  <2> QED BY <2>4, <2>5
<1> QED BY <1>2, <1>4, <1>10, <1>11

(* The weights of a leaf are those of the sample, or half of them.         *)
LEMMA LeafHasWeights ==
  ASSUME DataInv, NEW s \in Sections
  PROVE  \E count \in Counts : Weighs(s, LeafWeights(s), count)
<1>1. PICK count \in Counts : original = [p \in Points |-> 2 * count[p]]
  BY DEF DataInv, Doubled
<1>2. Weighs(s, LeafWeights(s), count)
  <2>1. Size(s) \in Nat \ {0} /\ \A i \in 1 .. Size(s) : s[1] + i - 1 \in Points
    BY ValuesAre, SectionFacts
  <2>2. ASSUME NEW p \in Points PROVE Weight(p) \in Nat /\ Weight(p) <= 2 * count[p]
    <3>1. original[p] = 2 * count[p] /\ count[p] \in Nat
      BY <1>1, SampleAssumption
    <3>2. Weight(p) = original[p] \/ Weight(p) = original[p] \div 2
      BY DEF Weight
    <3>3. \A n \in Nat : /\ (2 * n) \div 2 \in Nat /\ (2 * n) \div 2 <= 2 * n
                         /\ 2 * n \in Nat /\ 2 * n <= 2 * n
      OBVIOUS
    <3> QED BY <3>1, <3>2, <3>3
  <2>3. \A i \in 1 .. Size(s) : Weight(s[1] + i - 1) \in Nat
    BY <2>1, <2>2
  <2>4. LeafWeights(s) \in Seq(Nat) /\ Len(LeafWeights(s)) = Size(s)
        /\ \A i \in 1 .. Size(s) : LeafWeights(s)[i] = Weight(s[1] + i - 1)
    BY <2>1, <2>3 DEF LeafWeights
  <2> QED BY <2>1, <2>2, <2>4 DEF Weighs
<1> QED BY <1>2

(* The blocks are the best ones because those of the leaves are.           *)
LEMMA LeavesBest == TreeInv /\ WeightInv /\ DataInv /\ LeavesInv => BlocksAreBest
<1> SUFFICES ASSUME TreeInv, WeightInv, DataInv, LeavesInv, Done, NEW s \in Leaves
             PROVE  BestBlocks(s)
  BY DEF BlocksAreBest
<1> DEFINE found == Range(change_points[s])
           all == {T \in Cuts(s) : Admissible(s, T)}
           left == EdgeAt(s, s[1])
           right == EdgeAt(s, s[2] + 1)
<1>1. /\ Ended(s) /\ s \in Sections /\ Size(s) <= WorkSize
      /\ found \subseteq EdgesWithin(s) /\ EdgesWithin(s) \subseteq found \cup {left}
  BY EdgesOfLeaf DEF Leaves
<1>2. found = Range(Conquer(Values(s), LeafWeights(s)))
  BY <1>1 DEF LeavesInv, LeavesFound
<1>3. PICK count \in Counts : Weighs(s, LeafWeights(s), count)
  BY <1>1, LeafHasWeights
<1>5. \/ all = {} /\ found = {right}
      \/ \E T \in all : /\ found = {EdgeAt(s, p) : p \in T \cup {s[2] + 1}}
                        /\ \A U \in all : Value(s, U) <= Value(s, T)
  BY <1>1, <1>2, <1>3, SectionBest
<1>6. CASE all = {} /\ found = {right}
  <2>1. right \in EdgesWithin(s) /\ EdgesWithin(s) \subseteq {left, right}
    BY <1>1, <1>6
  <2> QED BY <1>6, <2>1 DEF BestBlocks
<1>7. CASE \E T \in all : /\ found = {EdgeAt(s, p) : p \in T \cup {s[2] + 1}}
                          /\ \A U \in all : Value(s, U) <= Value(s, T)
  <2>1. PICK T \in all : /\ found = {EdgeAt(s, p) : p \in T \cup {s[2] + 1}}
                         /\ \A U \in all : Value(s, U) <= Value(s, T)
    BY <1>7
  <2>2. left \in found
    BY <2>1 DEF Cuts
  <2>3. EdgesWithin(s) = {EdgeAt(s, p) : p \in T \cup {s[2] + 1}}
    <3> HIDE DEF found, left
    <3> QED BY <1>1, <2>1, <2>2
  <2>4. all # {}
    BY <2>1
  <2> QED BY <2>1, <2>3, <2>4 DEF BestBlocks
<1> QED BY <1>5, <1>6, <1>7

(* BlocksAreBest: whatever the order of the tasks, the edges in the        *)
(* section of each are those of a cut into blocks that no other cut with   *)
(* enough events and width exceeds in fitness. A task finds one because    *)
(* the best blocks that end with a point go on from best blocks that end   *)
(* before it; it sees the weights it should since none of them changes     *)
(* under it; and merging loses none of what the tasks have found.          *)
THEOREM BestBlocksFound == Spec => []BlocksAreBest
<1>1. TreeInv /\ WeightInv /\ DataInv /\ LeavesInv /\ [Next]_vars => LeavesInv'
  BY LeavesStep
<1> QED BY <1>1, InitialLeaves, DataInvariant, LeavesBest, PTL DEF Spec

-----------------------------------------------------------------------------
(* The counts of the histogram.                                            *)

(* The pass over the blocks that starts before the first of them is at the *)
(* last of them at once, and stays there.                                  *)
LEMMA BinsStayLast ==
  ASSUME NEW x, Len(x) \in Nat, NEW e, Len(e) \in Nat, Len(e) > 1, x[1] \in Nat,
         \A i \in 1 .. Len(e) : e[i] \in Nat /\ x[1] < e[i], NEW k \in 1 .. Len(x)
  PROVE  Bins(x, e)[k] = Len(e) - 1
<1> DEFINE n == Len(x)
           last == Len(e) - 1
           b == Bins(x, e)
           T == {i \in 0 .. n : i = 0 \/ b[i] = last}
<1>1. last \in Nat \ {0} /\ last \in 1 .. last /\ 1 \in 1 .. last
  OBVIOUS
<1>2. ASSUME NEW i \in 1 .. n PROVE b[i] = NextBin(e, IF i = 1 THEN 1 ELSE b[i - 1], x[i])
  BY <1>2, BinsAre
<1>3. ASSUME NEW i \in 1 .. n, 0 .. i - 1 \subseteq T PROVE b[i] = last
  <2>1. CASE i = 1
    <3> DEFINE j == NextBin(e, 1, x[1])
    <3>1. b[i] = j
      BY <1>2, <2>1
    <3>2. j \in 1 .. last /\ (j = last \/ e[j] <= x[1])
      BY <1>1, NextBinIs
    <3>3. j \in 1 .. Len(e)
      BY <3>2
    <3> HIDE DEF j
    <3>4. ~(e[j] <= x[1])
      BY <3>3
    <3> QED BY <3>1, <3>2, <3>4
  <2>2. CASE i # 1
    <3>1. i - 1 \in 0 .. i - 1 /\ i - 1 # 0
      BY <2>2
    <3>2. b[i - 1] = last
      BY <1>3, <3>1
    <3> DEFINE j == NextBin(e, last, x[i])
    <3>3. b[i] = j
      BY <1>2, <2>2, <3>2
    <3>4. j \in last .. last
      BY <1>1, NextBinIs
    <3> HIDE DEF j
    <3> QED BY <1>1, <3>3, <3>4
  <2> QED BY <2>1, <2>2
<1>4. 0 .. n \subseteq T
  <2>1. 0 \in T
    OBVIOUS
  <2>2. ASSUME NEW i \in 1 .. n, 0 .. i - 1 \subseteq T PROVE i \in T
    BY <1>3, <2>2
  <2> HIDE DEF T
  <2> QED BY <2>1, <2>2, Induction
<1>5. k \in T /\ k # 0
  BY <1>4
<1> QED BY <1>5

(* What count_between_edges counts: every event once, in the block that it *)
(* is in, or in the last one.                                              *)
LEMMA CountsAre ==
  ASSUME TreeInv, WeightInv, DataInv, Done, NEW i \in DOMAIN blocks.counts
  PROVE  blocks.counts[i] = Total([p \in Points |-> IF CountedIn(p, i) THEN original[p] ELSE 0])
<1> DEFINE S == Range(change_points[Root])
           e == Sorted(S)
           x == Values(Root)
           n == Len(Sample)
<1>1. /\ Root \in Sections /\ status[Root] = "merged" /\ blocks.edges = e
      /\ blocks.counts = IF Len(e) = 1 THEN <<>> ELSE CountBetweenEdges(x, e, original)
  BY RootIsSection DEF DataInv, IsHistogram, Histogram, Done
<1>2. change_points[Root] \in Seq(Interval(Root)) /\ RightEnd(Root) \in S
  BY <1>1 DEF DataInv, Inside, EndsIn, Ended
<1>3. /\ Spaced(x) /\ Len(x) = n /\ n \in Nat \ {0}
      /\ x[1] = 2 * Sample[1] /\ x[n] = RightEnd(Root) /\ \A p \in Points : x[p] = 2 * Sample[p]
  <2>1. Root[1] = 1 /\ Root[2] = n /\ \A k \in 1 .. n : 1 + k - 1 = k
    BY DEF Root
  <2>2. Size(Root) = n
    BY WeightsOfRoot
  <2> QED BY <1>1, <2>1, <2>2, ValuesAre DEF RightEnd, Points
<1>4. IsFiniteSet(S) /\ S \in SUBSET Interval(Root) /\ S \in SUBSET Nat
  <2>1. Interval(Root) \subseteq Nat
    <3>1. Sample[1] \in Nat /\ Sample[n] \in Nat
      BY <1>3, SampleAssumption
    <3> QED BY <3>1 DEF Interval, Root
  <2> QED BY <1>2, <2>1, RangeIsFinite
<1> HIDE DEF S
<1>5. /\ e \in Seq(S) /\ Len(e) = Cardinality(S) /\ Len(e) \in Nat
      /\ \A a, b \in 1 .. Len(e) : a < b => e[a] < e[b]
      /\ Range(e) = S
  BY <1>4, SortedIs
<1> HIDE DEF e
<1>6. Len(e) > 1
  <2>1. Len(e) # 1
    BY <1>1
  <2>2. Len(e) # 0
    BY <1>2, <1>4, <1>5, FS_EmptySet
  <2> QED BY <1>5, <2>1, <2>2
<1>7. Ordered(e) /\ e \in Seq(Nat) /\ \A a \in 1 .. Len(e) : e[a] \in S /\ e[a] \in Nat
  <2>1. ASSUME NEW a \in 1 .. Len(e) PROVE e[a] \in S /\ e[a] \in Nat
    <3>1. e[a] \in S
      BY <1>5
    <3> QED BY <1>4, <3>1
  <2>2. e = [a \in 1 .. Len(e) |-> e[a]]
    BY <1>5
  <2>3. e \in Seq(Nat)
    BY <1>5, <2>1, <2>2
  <2> QED BY <1>5, <2>1, <2>3 DEF Ordered
<1>8. e[Len(e)] = x[Len(x)] /\ x[1] <= e[1]
  <2>1. PICK a \in 1 .. Len(e) : e[a] = x[n]
    BY <1>2, <1>3, <1>5 DEF Range
  <2>2. Len(e) \in 1 .. Len(e)
    BY <1>6
  <2>3. e[Len(e)] <= x[n] /\ x[n] \in Nat
    <3>1. e[Len(e)] \in Interval(Root) /\ e[Len(e)] \in Nat
      BY <1>4, <1>7, <2>2
    <3>2. x[n] \in Nat
      BY <1>7, <2>1
    <3> QED BY <1>3, <3>1, <3>2 DEF Interval, RightEnd
  <2>4. a = Len(e)
    <3>1. a = Len(e) \/ e[a] < e[Len(e)]
      BY <1>5, <2>2
    <3>2. e[Len(e)] \in Nat
      BY <1>7, <2>2
    <3> QED BY <2>1, <2>3, <3>1, <3>2
  <2>5. e[1] \in Interval(Root) /\ Root[1] = 1
    BY <1>4, <1>6, <1>7 DEF Root
  <2> QED BY <1>3, <2>1, <2>4, <2>5 DEF Interval
<1>9. \A p \in Points : x[p] \in Nat
  BY <1>3 DEF Spaced, Points
<1> HIDE DEF x
<1>10. ASSUME NEW p \in Points
       PROVE  /\ Bins(x, e)[p] \in 1 .. Len(e) - 1
              /\ IF e[1] = x[1] THEN In(x[p], e, Bins(x, e)[p]) ELSE Bins(x, e)[p] = Len(e) - 1
  <2>1. p \in 1 .. Len(x) /\ 1 \in Points /\ 1 \in 1 .. Len(e) /\ Len(e) - 1 \in 1 .. Len(e) - 1
    BY <1>3, <1>6 DEF Points
  <2>2. CASE e[1] = x[1]
    BY <1>3, <1>6, <1>7, <1>8, <2>1, <2>2, BinsFit
  <2>3. CASE e[1] # x[1]
    <3>1. x[1] \in Nat /\ e[1] \in Nat /\ x[1] < e[1]
      BY <1>7, <1>8, <1>9, <2>1, <2>3
    <3>2. ASSUME NEW a \in 1 .. Len(e) PROVE e[a] \in Nat /\ x[1] < e[a]
      <4>1. e[a] \in Nat /\ (a = 1 \/ e[1] < e[a])
        BY <1>5, <1>7, <2>1
      <4> QED BY <3>1, <4>1
    <3>3. Bins(x, e)[p] = Len(e) - 1
      BY <1>3, <1>6, <2>1, <3>1, <3>2, BinsStayLast
    <3> QED BY <2>1, <2>3, <3>3
  <2> QED BY <2>2, <2>3
<1>11. original \in [Points -> Nat] /\ Points = 1 .. Len(x)
  BY <1>3 DEF TreeInv, TasksType, Points
<1>12. blocks.counts = CountBetweenEdges(x, e, original) /\ i \in 1 .. Len(e) - 1
  <2>1. blocks.counts = CountBetweenEdges(x, e, original)
    BY <1>1, <1>6 DEF x
  <2>2. Len(x) \in Nat /\ Len(e) \in Nat \ {0}
    BY <1>3, <1>6
  <2>3. original \in [1 .. Len(x) -> Nat]
    BY <1>11
  <2>4. DOMAIN CountBetweenEdges(x, e, original) = 1 .. Len(e) - 1
    BY <2>2, <2>3, CountsType
  <2>5. i \in DOMAIN CountBetweenEdges(x, e, original)
    BY <2>1
  <2> QED BY <2>1, <2>4, <2>5
<1>13. ASSUME NEW p \in Points PROVE Bins(x, e)[p] = i <=> CountedIn(p, i)
  <2>1. (blocks.edges[1] = 2 * Sample[1] <=> e[1] = x[1]) /\ blocks.edges = e
    BY <1>1, <1>3
  <2>2. CASE e[1] = x[1]
    <3>1. CountedIn(p, i) <=> In(x[p], e, i)
      BY <1>3, <2>1, <2>2 DEF CountedIn, InBlock, In
    <3>2. In(x[p], e, i) => Bins(x, e)[p] = i
      BY <1>7, <1>9, <1>10, <1>12, <2>2, BlockIsOne
    <3> QED BY <1>10, <2>2, <3>1, <3>2
  <2>3. CASE e[1] # x[1]
    BY <1>10, <2>1, <2>3 DEF CountedIn
  <2> QED BY <2>2, <2>3
<1>14. [p \in Points |-> IF Bins(x, e)[p] = i THEN original[p] ELSE 0] =
         [p \in Points |-> IF CountedIn(p, i) THEN original[p] ELSE 0]
  BY <1>13
<1>15. blocks.counts[i] = Total([p \in Points |-> IF Bins(x, e)[p] = i THEN original[p] ELSE 0])
  BY <1>11, <1>12 DEF CountBetweenEdges
<1> QED BY <1>14, <1>15

(* A single change point is that of one section, which cannot be cut: the  *)
(* halves of a divided one, and the blocks of a cut, have different ends.  *)
LEMMA OverrunIsUncut ==
  ASSUME TreeInv, DataInv, LeavesInv, Overrun
  PROVE  Size(Root) <= WorkSize /\ ~Cuttable(Root)
<1> DEFINE S == Range(change_points[Root])
<1>1. /\ Root \in Sections /\ Ended(Root) /\ Root[1] = 1 /\ Root[2] = Len(Sample)
      /\ Size(Root) \in Nat /\ WorkSize \in Nat
  BY RootIsSection, Positions, SampleFacts DEF Overrun, Ended, Root
<1>2. Sample[1] \in Nat /\ Sample[Len(Sample)] \in Nat /\ 1 \in Points /\ Len(Sample) \in Points
  BY SampleFacts, SampleAssumption DEF Points
<1>3. PICK only : S = {only}
  <2>1. change_points[Root] \in Seq(Interval(Root))
    BY <1>1 DEF DataInv, Inside
  <2>2. IsFiniteSet(S)
    BY <2>1, RangeIsFinite
  <2> QED BY <2>2, FS_Singleton DEF Overrun
<1>4. 2 * Sample[Len(Sample)] \in S
  BY <1>1 DEF DataInv, EndsIn, RightEnd
<1>5. ASSUME Size(Root) > WorkSize PROVE FALSE
  <2> DEFINE m == Mid(Root)
             half == <<Root[1], m>>
  <2>1. m \in Points /\ m < Len(Sample) /\ half \in Halves(Root)
    BY <1>1, <1>5, MidFacts DEF Halves
  <2>2. half \in Sections /\ Ended(half) /\ half \in MergedHalves(Root)
    BY <1>1, <1>5, <2>1, PresentHalves
  <2>3. 2 * Sample[m] \in Range(change_points[half])
    BY <2>2 DEF DataInv, EndsIn, RightEnd
  <2>4. S = Gathered(Root)
    BY <1>1, <1>5 DEF LeavesInv, HalvesGathered, Ended
  <2>5. 2 * Sample[m] \in S
    BY <2>2, <2>3, <2>4 DEF Gathered
  <2>6. Sample[m] < Sample[Len(Sample)] /\ Sample[m] \in Nat
    BY <1>2, <2>1, SampleAssumption DEF Points
  <2>7. 2 * Sample[m] # 2 * Sample[Len(Sample)]
    BY <1>2, <2>6
  <2> QED BY <1>3, <1>4, <2>5, <2>7
<1>6. ASSUME Size(Root) <= WorkSize, Cuttable(Root) PROVE FALSE
  <2> DEFINE all == {T \in Cuts(Root) : Admissible(Root, T)}
             left == EdgeAt(Root, Root[1])
             right == EdgeAt(Root, Root[2] + 1)
  <2>1. PICK count \in Counts : Weighs(Root, LeafWeights(Root), count)
    BY <1>1, LeafHasWeights
  <2>2. S = Range(Conquer(Values(Root), LeafWeights(Root)))
    BY <1>1, <1>6 DEF LeavesInv, LeavesFound
  <2>3. PICK T \in all : S = {EdgeAt(Root, p) : p \in T \cup {Root[2] + 1}}
    <3>1. all # {}
      BY <1>6 DEF Cuttable
    <3> HIDE DEF S, all
    <3> QED BY <1>1, <2>1, <2>2, <3>1, SectionBest DEF all
  <2>4. T \in SUBSET (Root[1] .. Root[2]) /\ Root[1] \in T /\ Admissible(Root, T)
    BY DEF Cuts
  <2>5. left \in S /\ right \in S
    BY <2>3, <2>4
  <2>6. left = 2 * Sample[1] /\ right = 2 * Sample[Len(Sample)]
    BY <1>1, EndEdges
  <2>7. 2 * Sample[1] = 2 * Sample[Len(Sample)]
    BY <1>3, <2>5, <2>6
  <2>8. Sample[1] = Sample[Len(Sample)]
    BY <1>2, <2>7
  <2>9. Len(Sample) = 1
    <3>1. ASSUME 1 < Len(Sample) PROVE FALSE
      <4>1. Sample[1] < Sample[Len(Sample)]
        BY <1>2, <3>1, SampleAssumption
      <4> QED BY <1>2, <2>8, <4>1
    <3>2. \A n \in Nat \ {0} : ~(1 < n) => n = 1
      OBVIOUS
    <3> QED BY <3>1, <3>2, SampleFacts
  <2>10. EndOf(Root, T, 1) = 2
    <3>1. Root[2] + 1 = 2 /\ \A q \in T : ~(q > 1)
      BY <1>1, <2>4, <2>9
    <3>2. {q \in T : q > 1} \cup {Root[2] + 1} = {2}
      BY <3>1
    <3>3. Min({2}) \in {2}
      BY MinIs
    <3> QED BY <3>2, <3>3 DEF EndOf
  <2>11. WidthOf(Root, T, 1) = 0
    <3>1. WidthOf(Root, T, 1) = right - left
      BY <1>1, <2>9, <2>10 DEF WidthOf
    <3> QED BY <1>2, <2>6, <2>8, <3>1
  <2>12. Extent \in Nat /\ Resolution \in Nat
    BY <1>2, <2>8, SampleAssumption DEF Extent
  <2>13. WidthOf(Root, T, 1) * Resolution > Extent
    BY <1>1, <2>4 DEF Admissible, Enough
  <2> QED BY <2>11, <2>12, <2>13
<1> QED BY <1>1, <1>5, <1>6

(* EveryEventCounted: count_between_edges puts every event of the sample   *)
(* into the one block that it is in, and adds its own weight there, when   *)
(* the first edge is the first value; otherwise the pass misses the first  *)
(* events, and puts all of them into the last block. It leaves the bounds  *)
(* of its arrays for no sample but one that is a single section with no    *)
(* blocks in it.                                                           *)
THEOREM EventsCounted == Spec => []EveryEventCounted
<1>1. TreeInv /\ WeightInv /\ DataInv /\ LeavesInv => EveryEventCounted
  BY CountsAre, OverrunIsUncut DEF EveryEventCounted
<1>2. TreeInv /\ WeightInv /\ DataInv /\ LeavesInv /\ [Next]_vars => LeavesInv'
  BY LeavesStep
<1> QED BY <1>1, <1>2, InitialLeaves, DataInvariant, PTL DEF Spec
=============================================================================
