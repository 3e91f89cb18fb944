---------------------------- MODULE AdaptiveSplit ----------------------------
(***************************************************************************)
(* Where class AdaptiveRebalancing (pma/adaptive/int2) splits a part of a  *)
(* window: the operators that need neither the densities nor the state of  *)
(* the recursion.  The int3 array has the same code.                       *)
(*                                                                         *)
(* An interval is [m_start, m_length, m_weight, m_associated_segment], its *)
(* start relative to the first element of the part; W[i + 1] is the code's *)
(* W[i].                                                                   *)
(***************************************************************************)
EXTENDS Integers, Sequences

Min2(a, b) == IF a < b THEN a ELSE b
Max2(a, b) == IF a > b THEN a ELSE b

\* C++ integer division by two truncates towards zero.
Half(n) == IF n >= 0 THEN n \div 2 ELSE -((-n) \div 2)

End(w) == w.m_start + w.m_length

\* Consume the weights from both ends, turning when a side reaches the target: the n-th
\* weight consumed is the next on the left, or on the right that at j.
Turned(s, W, left, right, target, n) ==
    IF s.move_left
    THEN [s EXCEPT !.i = @ + 1, !.left = left, !.move_left = left # target /\ n < Len(W)]
    ELSE [s EXCEPT !.right = right, !.move_left = ~ (right # target /\ n < Len(W))]
Consumed(s, W, target, n) ==
    LET j == Len(W) - (n - 1 - s.i)
    IN  Turned(s, W, s.left + W[s.i + 1].m_weight, s.right + W[j].m_weight, target, n)
SplitPoint(end) == [index |-> IF end.move_left THEN end.i ELSE end.i - 1, balance |-> end.left]
find_split_point(W, balance_total) ==
    LET Walk[n \in 0 .. Len(W)] ==
            IF n = 0 THEN [i |-> 0, left |-> 0, right |-> 0, move_left |-> TRUE]
            ELSE Consumed(Walk[n - 1], W, Half(balance_total), n)
    IN  SplitPoint(Walk[Len(W)])

\* Even number of weights: between the split point and the next interval.
rebalancing_paro(W, index, cardinality) ==
    IF index < 0 THEN W[1].m_start \div 2
    ELSE IF index + 1 = Len(W) THEN End(W[index + 1]) + cardinality \div 2
    ELSE End(W[index + 1]) + (W[index + 2].m_start - End(W[index + 1])) \div 2

\* Odd number of weights: before or after the interval at the split point.
rebalancing_sparu(W, index, cardinality) ==
    LET w == W[index + 1]
    IN  IF (w.m_weight < 0) = (End(w) < cardinality - w.m_start) THEN w.m_start ELSE End(w)

\* The split point, before the thresholds are considered.
OptimumAt(at, index, balance) == [cardinality |-> at, index |-> index, balance |-> balance]
OddOptimum(W, split, at) ==
    IF at < W[split.index + 1].m_start
    THEN OptimumAt(at, split.index - 1, split.balance - W[split.index + 1].m_weight)
    ELSE OptimumAt(at, split.index, split.balance)
Optimum(W, split, cardinality) ==
    IF Len(W) % 2 = 0
    THEN OptimumAt(rebalancing_paro(W, split.index, cardinality), split.index, split.balance)
    ELSE OddOptimum(W, split, rebalancing_sparu(W, split.index, cardinality))
find_optimum(W, balance, cardinality) == Optimum(W, find_split_point(W, balance), cardinality)

\* Mutant: the interval that goes to the right keeps its start.
CutRightKeepsStart(W, index, at) ==
    [W EXCEPT ![index + 1] = [@ EXCEPT !.m_length = End(W[index + 1]) - at]]

\* A split point inside an interval: the larger side keeps the interval, cut there.
CutRight(W, index, at) ==
    [W EXCEPT ![index + 1] = [@ EXCEPT !.m_start = at, !.m_length = End(W[index + 1]) - at]]
CutLeft(W, index, at) ==
    [W EXCEPT ![index + 1] = [@ EXCEPT !.m_length = at - W[index + 1].m_start]]

RightIsLarger(w, at) == at - w.m_start < End(w) - at

\* The result of the two ensure_ functions: the optimum and the adjusted weights.
Adjusted(cardinality, index, balance, W) ==
    [cardinality |-> cardinality, index |-> index, balance |-> balance, W |-> W]

\* The corner case: no interval is on the left yet, the first one begins before lo.
LowerCorner(lo, hi, W, balance) ==
    LET w == W[1]
        upto == IF Len(W) > 1 /\ W[2].m_start < hi THEN W[2].m_start ELSE hi
    IN  IF End(w) <= hi
        THEN Adjusted(IF balance + w.m_weight < 0 THEN upto ELSE End(w), 0, balance + w.m_weight, W)
        ELSE IF RightIsLarger(w, lo) THEN Adjusted(lo, -1, balance, CutRight(W, 0, lo))
        ELSE Adjusted(lo, 0, balance + w.m_weight, CutLeft(W, 0, lo))

\* The weights of the intervals of a range, added up.
WeightsOf(W, range) ==
    LET Total[i \in 0 .. Len(W)] ==
            IF i = 0 THEN 0 ELSE Total[i - 1] + (IF i - 1 \in range THEN W[i].m_weight ELSE 0)
    IN  Total[Len(W)]

\* The loop: the index of the first interval after `from' that reaches lo, or of the one
\* before it when it begins after lo; the number of intervals when there is none.
GrownTo(W, lo, stop) == IF stop < Len(W) /\ W[stop + 1].m_start >= lo THEN stop - 1 ELSE stop
FirstOr(indices, default) ==
    IF indices = {} THEN default ELSE CHOOSE i \in indices : \A j \in indices : i <= j
Reaching(W, lo, from) ==
    {i \in (from + 1) .. (Len(W) - 1) : W[i + 1].m_start >= lo \/ End(W[i + 1]) >= lo}
GrownFrom(W, lo, from) == GrownTo(W, lo, FirstOr(Reaching(W, lo, from), Len(W)))

\* The left part ends at lo, with the intervals up to index, unless lo cuts the last one.
Grown(lo, hi, W, index, taken, w) ==
    IF ~ (w.m_start < lo /\ End(w) > lo) THEN Adjusted(lo, index, taken, W)
    ELSE IF End(w) <= hi
    THEN Adjusted(IF taken >= 0 THEN End(w)
                  ELSE IF index + 1 < Len(W) /\ W[index + 2].m_start < hi
                  THEN W[index + 2].m_start ELSE hi, index, taken, W)
    ELSE IF RightIsLarger(w, lo)
    THEN Adjusted(lo, index - 1, taken - w.m_weight, CutRight(W, index, lo))
    ELSE Adjusted(lo, index, taken, CutLeft(W, index, lo))
LowerAt(lo, hi, W, index, taken) ==
    IF index = Len(W) THEN Adjusted(IF taken < 0 THEN hi ELSE lo, index - 1, taken, W)
    ELSE Grown(lo, hi, W, index, taken, W[index + 1])
LowerUpTo(lo, hi, W, from, balance, index) ==
    LowerAt(lo, hi, W, index, balance + WeightsOf(W, (from + 1) .. index))
LowerFrom(lo, hi, W, from, balance) == LowerUpTo(lo, hi, W, from, balance, GrownFrom(W, lo, from))

\* The left part is too small: grow it to lo, and across an interval that lo cuts.
ensure_lower_threshold(lo, hi, W, opt) ==
    IF opt.index # -1 THEN LowerFrom(lo, hi, W, opt.index, opt.balance)
    ELSE IF End(W[1]) < lo THEN LowerFrom(lo, hi, W, 0, opt.balance + W[1].m_weight)
    ELSE IF W[1].m_start < lo THEN LowerCorner(lo, hi, W, opt.balance)
    ELSE LowerFrom(lo, hi, W, -1, opt.balance)

\* The left part ends at hi, with the intervals up to index; the balance is then that.
Shortened(lo, hi, W, index, balance, w) ==
    IF End(w) <= hi THEN Adjusted(IF balance.removed < 0 THEN Max2(lo, End(w)) ELSE hi, index, balance.left, W)
    ELSE IF w.m_start >= lo
    THEN Adjusted(IF balance.removed + w.m_weight >= 0 THEN w.m_start
                  ELSE IF index > 0 THEN Max2(End(W[index]), lo) ELSE lo,
                  index - 1, balance.left - w.m_weight, W)
    ELSE IF RightIsLarger(w, hi)
    THEN Adjusted(hi, index - 1, balance.left - w.m_weight, CutRight(W, index, hi))
    ELSE Adjusted(hi, index, balance.left, CutLeft(W, index, hi))
UpperAt(lo, hi, W, index, balance) ==
    IF index < 0 THEN Adjusted(IF balance.removed < 0 THEN lo ELSE hi, index, balance.left, W)
    ELSE Shortened(lo, hi, W, index, balance, W[index + 1])
Removing(balance, removed) == [left |-> balance - removed, removed |-> removed]
StillKept(W, hi, indices) == {i \in indices : W[i + 1].m_start < hi}
LastOr(indices, default) ==
    IF indices = {} THEN default ELSE CHOOSE i \in indices : \A j \in indices : j <= i
UpperFrom(lo, hi, W, opt, index) ==
    UpperAt(lo, hi, W, index, Removing(opt.balance, WeightsOf(W, (index + 1) .. opt.index)))

\* The left part is too large: shrink it to hi, and across an interval that hi cuts.
ensure_upper_threshold(lo, hi, W, opt) ==
    UpperFrom(lo, hi, W, opt, LastOr(StillKept(W, hi, 0 .. opt.index), -1))

\* The weights after the split point, relative to the first element of the right half.
Shifted(W, offset) == [i \in DOMAIN W |-> [W[i] EXCEPT !.m_start = @ - offset]]
=============================================================================
