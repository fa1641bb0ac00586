---------------------------- MODULE BayesBlocks ----------------------------
(***************************************************************************)
(* Parallel Bayesian binning of event energies (Fortran/fbh.f90): a sorted *)
(* sample is divided among OpenMP tasks that share the array of weights;   *)
(* each task that is small enough finds the best blocks of its section by  *)
(* dynamic programming; the change points are merged, and the events of    *)
(* every block are counted.                                                *)
(*                                                                         *)
(* Weights, positions and edges are in units of one half, which makes      *)
(* halved weights and midpoints exact: the rounding of the code's floats   *)
(* is left out. Logarithms are in fixed point.                             *)
(***************************************************************************)
EXTENDS Integers, SequencesExt

CONSTANTS
  Sample,      \* the distinct values of the sorted data, in order
  Counts,      \* how often each value may occur
  WorkSize,    \* WORKSIZE: the largest section that is not divided
  MinCounts,   \* min_counts: events of a block
  Resolution,  \* the narrowest block is the extent over this
  Ln           \* natural logarithms of numbers of halves, scaled

Points == 1 .. Len(Sample)
Sections == {s \in Points \X Points : s[1] <= s[2]}
Root == <<1, Len(Sample)>>

ASSUME SampleAssumption ==
  /\ Sample \in Seq(Nat) /\ Len(Sample) > 0
  /\ \A p, q \in Points : p < q => Sample[p] < Sample[q]
  /\ Counts \subseteq [Points -> Nat \ {0}]
  /\ WorkSize \in Nat /\ WorkSize >= 3
  /\ MinCounts \in Nat \ {0} /\ Resolution \in Nat \ {0}

VARIABLES
  original,      \* the weights before the binning
  weights,       \* the weights that the tasks share
  status,        \* of the call for each section
  change_points, \* of each section
  blocks         \* the histogram, or NoBlocks

vars == <<original, weights, status, change_points, blocks>>

NoBlocks == [edges |-> <<>>, counts |-> <<>>]
Status == {"absent", "called", "working", "waiting", "computed", "merged"}
Edges == 0 .. 2 * Sample[Len(Sample)]

TypeOK ==
  /\ original \in {[p \in Points |-> 2 * count[p]] : count \in Counts}
  /\ weights \in [Points -> Nat]
  /\ \A p \in Points : weights[p] \in {original[p], original[p] \div 2}
  /\ status \in [Sections -> Status]
  /\ change_points \in [Sections -> Seq(Edges)]
  /\ blocks \in [edges : Seq(Edges), counts : Seq(Nat)]

Init ==
  /\ \E count \in Counts : original = [p \in Points |-> 2 * count[p]]
  /\ weights = original
  /\ status = [s \in Sections |-> IF s = Root THEN "called" ELSE "absent"]
  /\ change_points = [s \in Sections |-> <<>>]
  /\ blocks = NoBlocks

-----------------------------------------------------------------------------
(* The best blocks of a sequence of points.                                *)

(* A sequence of n elements, each computed from those before it. *)
Built(n, next(_, _)) ==
  LET seq[k \in 0 .. n] ==
        IF k = 0 THEN <<>> ELSE LET s == seq[k - 1] IN Append(s, next(s, k))
  IN  seq[n]

CumSum(x) == Built(Len(x), LAMBDA sums, k : x[k] + (IF k = 1 THEN 0 ELSE sums[k - 1]))
Total(x) == IF x = <<>> THEN 0 ELSE CumSum(x)[Len(x)]

(* Faulty variants of the definition that follows, here and below: bugs    *)
(* the code could have had, each caught by a property.                     *)
NextBinHalfOpen(edges, bin, v) ==
  LET last == Len(edges) - 1
  IN  Min({j \in bin .. last : j = last \/ (edges[j] <= v /\ v < edges[j + 1])})

(* The bins that count_between_edges puts the points into: one pass over   *)
(* both, with bins that are closed on either side; a point that is in no   *)
(* bin from the last one on takes the pass to the end.                     *)
NextBin(edges, bin, v) ==
  LET last == Len(edges) - 1
  IN  Min({j \in bin .. last : j = last \/ (edges[j] <= v /\ v <= edges[j + 1])})

Bins(x, edges) ==
  Built(Len(x), LAMBDA bins, k : NextBin(edges, IF k = 1 THEN 1 ELSE bins[k - 1], x[k]))

CountBetweenEdges(x, edges, w) ==
  LET bin == Bins(x, edges)
  IN  [i \in 1 .. Len(edges) - 1 |->
         Total([k \in 1 .. Len(x) |-> IF bin[k] = i THEN w[k] ELSE 0])]

(* The ends of the sample, and the midpoints between its values. *)
EdgesOf(x) ==
  <<x[1]>> \o [i \in 1 .. Len(x) - 1 |-> (x[i] + x[i + 1]) \div 2] \o <<x[Len(x)]>>

Extent == 2 * (Sample[Len(Sample)] - Sample[1])

(* The table has the logarithms of all counts and widths there can be. *)
ASSUME LnAssumption ==
  /\ \A count \in Counts : \A n \in 1 .. 2 * Total(count) : Ln[n] \in Int
  /\ \A n \in 1 .. Extent : Ln[n] \in Int

Enough(count, width) == count >= 2 * MinCounts /\ width * Resolution > Extent

(* The Bayesian information criterion of a block of n events. *)
Fitness(count, width, total) ==
  count * (Ln[count] - Ln[width]) - 2 * (Ln[total] - Ln[2])

(* The fitness of the best blocks that end with each point, and the first  *)
(* point of the last of them. Points that have none get the value -1e38,   *)
(* which absorbs whatever is added to it: no blocks follow it.             *)
Open(edges, wh, best, Q) ==
  {i \in 1 .. Q : /\ \A j \in 1 .. i : Enough(wh[Q + 1] - wh[j], edges[Q + 1] - edges[j])
                  /\ i > 1 => best[i - 1].first # 0}

FitnessFrom(edges, wh, best, Q, i) ==
  Fitness(wh[Q + 1] - wh[i], edges[Q + 1] - edges[i], wh[Len(edges)])
    + (IF i > 1 THEN best[i - 1].fit ELSE 0)

Choice(edges, wh, best, Q) ==
  LET open == Open(edges, wh, best, Q)
      fitness == [i \in open |-> FitnessFrom(edges, wh, best, Q, i)]
      top == Max(Range(fitness))
  IN  IF open = {} THEN [fit |-> 0, first |-> 0]
      ELSE [fit |-> top, first |-> Min({i \in open : fitness[i] = top})]

Best(edges, wh) == Built(Len(edges) - 1, LAMBDA best, Q : Choice(edges, wh, best, Q))

(* Peel off the last block until there is none. *)
Peel(edges, best) ==
  LET peel[L \in 0 .. Len(edges)] ==
        IF L = 0 THEN <<>>
        ELSE IF L = 1 THEN <<edges[1]>>
        ELSE Append(peel[best[L - 1].first], edges[L])
  IN  peel[Len(edges)]

Conquer(x, w) ==
  LET edges == EdgesOf(x)
  IN  Peel(edges, Best(edges, CumSum(<<0>> \o CountBetweenEdges(x, edges, w))))

-----------------------------------------------------------------------------
(* The tasks. The halves of a section overlap in its middle point.         *)

Size(s) == s[2] - s[1] + 1
Mid(s) == s[1] + Size(s) \div 2 - 1
Halves(s) == {<<s[1], Mid(s)>>, <<Mid(s), s[2]>>}

(* unique(lo:hi) and weights(lo:hi), as a call sees them *)
Values(s) == [i \in 1 .. Size(s) |-> 2 * Sample[s[1] + i - 1]]
WeightsOf(s) == [i \in 1 .. Size(s) |-> weights[s[1] + i - 1]]

DivideAtEnd(s) ==
  /\ status[s] = "called" /\ Size(s) > WorkSize
  /\ weights' = [weights EXCEPT ![s[2]] = @ \div 2]
  /\ status' = [t \in Sections |->
                  IF t = s THEN "waiting" ELSE IF t \in Halves(s) THEN "called" ELSE status[t]]
  /\ UNCHANGED <<original, change_points, blocks>>

(* The middle point is to be counted twice: its weight is halved, and a    *)
(* task started for either half.                                           *)
Divide(s) ==
  /\ status[s] = "called" /\ Size(s) > WorkSize
  /\ weights' = [weights EXCEPT ![Mid(s)] = @ \div 2]
  /\ status' = [t \in Sections |->
                  IF t = s THEN "waiting" ELSE IF t \in Halves(s) THEN "called" ELSE status[t]]
  /\ UNCHANGED <<original, change_points, blocks>>

Start(s) ==
  /\ status[s] = "called" /\ Size(s) <= WorkSize
  /\ status' = [status EXCEPT ![s] = "working"]
  /\ UNCHANGED <<original, weights, change_points, blocks>>

Finish(s) ==
  /\ status[s] = "working"
  /\ change_points' = [change_points EXCEPT ![s] = Conquer(Values(s), WeightsOf(s))]
  /\ status' = [status EXCEPT ![s] = "computed"]
  /\ UNCHANGED <<original, weights, blocks>>

MergeOverwrites(s, half) ==
  /\ status[s] = "waiting" /\ half \in Halves(s) /\ status[half] = "computed"
  /\ change_points' = [change_points EXCEPT ![s] = change_points[half]]
  /\ status' = [status EXCEPT ![half] = "merged"]
  /\ UNCHANGED <<original, weights, blocks>>

(* A task appends its change points to those of the call that started it,  *)
(* in a critical section.                                                  *)
Merge(s, half) ==
  /\ status[s] = "waiting" /\ half \in Halves(s) /\ status[half] = "computed"
  /\ change_points' = [change_points EXCEPT ![s] = @ \o change_points[half]]
  /\ status' = [status EXCEPT ![half] = "merged"]
  /\ UNCHANGED <<original, weights, blocks>>

JoinUnwaited(s) ==
  /\ status[s] = "waiting" /\ \E half \in Halves(s) : status[half] = "merged"
  /\ weights' = [weights EXCEPT ![Mid(s)] = 2 * @]
  /\ status' = [status EXCEPT ![s] = "computed"]
  /\ UNCHANGED <<original, change_points, blocks>>

(* taskwait: the weight of the middle point is restored after both tasks.  *)
Join(s) ==
  /\ status[s] = "waiting" /\ \A half \in Halves(s) : status[half] = "merged"
  /\ weights' = [weights EXCEPT ![Mid(s)] = 2 * @]
  /\ status' = [status EXCEPT ![s] = "computed"]
  /\ UNCHANGED <<original, change_points, blocks>>

(* quicksort and deduplicate *)
Sorted(S) ==
  [i \in 1 .. Cardinality(S) |-> CHOOSE e \in S : Cardinality({d \in S : d < e}) = i - 1]

(* The change points are sorted and duplicates dropped. With a single one  *)
(* there are no counts, but the counting reads a second edge and writes a  *)
(* first count all the same: undefined, it crashes the program or leaves   *)
(* a histogram without blocks.                                             *)
BuildBlocks ==
  /\ status[Root] = "computed"
  /\ LET edges == Sorted(Range(change_points[Root]))
     IN  blocks' \in
           IF Len(edges) = 1 THEN {NoBlocks, [edges |-> edges, counts |-> <<>>]}
           ELSE {[edges |-> edges,
                  counts |-> CountBetweenEdges(Values(Root), edges, WeightsOf(Root))]}
  /\ status' = [status EXCEPT ![Root] = "merged"]
  /\ UNCHANGED <<original, weights, change_points>>

(* The counting has read and written past the ends of its arrays. *)
Overrun == status[Root] = "merged" /\ Cardinality(Range(change_points[Root])) = 1

Finished == status[Root] = "merged" /\ UNCHANGED vars

Next ==
  \/ \E s \in Sections : Divide(s) \/ Start(s) \/ Finish(s) \/ Join(s)
  \/ \E s \in Sections : \E half \in Halves(s) \cap Sections : Merge(s, half)
  \/ BuildBlocks
  \/ Finished

Spec == Init /\ [][Next]_vars

-----------------------------------------------------------------------------
(* No weight changes under a task that works on a section with its point,  *)
(* although the tasks share the array: the points that are halved and      *)
(* restored lie inside sections whose tasks have not started, or are done. *)
WeightsAreStable ==
  [][\A s \in Sections : status[s] = "working" =>
       \A p \in s[1] .. s[2] : weights'[p] = weights[p]]_vars

Done == blocks # NoBlocks

(* In whatever order the tasks ran, the edges in the section of each of    *)
(* them are those of its best blocks: of all ways to cut the section into  *)
(* blocks with enough events and width, none has a greater fitness. Shared *)
(* points count one half on either side. A section that cannot be cut so   *)
(* keeps its right end only.                                               *)
Leaves == {s \in Sections : status[s] # "absent" /\ Size(s) <= WorkSize}
Shared == {Mid(s) : s \in {t \in Sections : status[t] # "absent" /\ Size(t) > WorkSize}}
Weight(p) == IF p \in Shared THEN original[p] \div 2 ELSE original[p]

Cuts(s) == {T \in SUBSET (s[1] .. s[2]) : s[1] \in T}
EdgeAt(s, p) == EdgesOf(Values(s))[p - s[1] + 1]
EndOf(s, T, p) == Min({q \in T : q > p} \cup {s[2] + 1})
WeightFrom(p, q) == Total([k \in 1 .. q - p |-> Weight(p + k - 1)])
CountOf(s, T, p) == WeightFrom(p, EndOf(s, T, p))
WidthOf(s, T, p) == EdgeAt(s, EndOf(s, T, p)) - EdgeAt(s, p)
Admissible(s, T) == \A p \in T : Enough(CountOf(s, T, p), WidthOf(s, T, p))
Cuttable(s) == \E T \in Cuts(s) : Admissible(s, T)
BlockValue(s, T, p) == Fitness(CountOf(s, T, p), WidthOf(s, T, p), WeightFrom(s[1], s[2] + 1))
Value(s, T) ==
  Total([k \in 1 .. Size(s) |->
           IF s[1] + k - 1 \in T THEN BlockValue(s, T, s[1] + k - 1) ELSE 0])

EdgesWithin(s) ==
  {e \in Range(blocks.edges) : EdgeAt(s, s[1]) <= e /\ e <= EdgeAt(s, s[2] + 1)}

BestBlocks(s) ==
  LET all == {T \in Cuts(s) : Admissible(s, T)}
  IN  IF all = {}
      THEN /\ EdgeAt(s, s[2] + 1) \in EdgesWithin(s)
           /\ EdgesWithin(s) \subseteq {EdgeAt(s, s[1]), EdgeAt(s, s[2] + 1)}
      ELSE \E T \in all :
             /\ EdgesWithin(s) = {EdgeAt(s, p) : p \in T \cup {s[2] + 1}}
             /\ \A U \in all : Value(s, U) <= Value(s, T)

BlocksAreBest == Done => \A s \in Leaves : BestBlocks(s)

(* Every event is counted once, in the block that it is in, by its own     *)
(* weight: the halved weights have been restored. But when the first       *)
(* section cannot be cut, the first edge is not the first value, and the   *)
(* events before it take the pass to the last block, which then counts     *)
(* all events, whatever block they are in. The counting stays within its   *)
(* arrays unless the sample is one section that cannot be cut.             *)
InBlock(p, i) ==
  /\ 2 * Sample[p] <= blocks.edges[i + 1]
  /\ 2 * Sample[p] > blocks.edges[i] \/ (i = 1 /\ 2 * Sample[p] = blocks.edges[1])

CountedIn(p, i) ==
  IF blocks.edges[1] = 2 * Sample[1] THEN InBlock(p, i) ELSE i = Len(blocks.edges) - 1

EveryEventCounted ==
  /\ Overrun => Size(Root) <= WorkSize /\ ~Cuttable(Root)
  /\ Done => \A i \in DOMAIN blocks.counts :
       blocks.counts[i] = Total([p \in Points |-> IF CountedIn(p, i) THEN original[p] ELSE 0])
=============================================================================
