-------------------------- MODULE RouterSearchProof --------------------------
(***************************************************************************)
(* The router's search for a split, for every pair of pools, every order and   *)
(* every tolerance.                                                          *)
(***************************************************************************)
EXTENDS RouterSearch, TLAPS

(* What module ArbSearchProof proves of a golden-section search holds of this one too: *)
(* the score of a split is the value of an input.                                      *)
Golden == INSTANCE ArbSearchProof WITH
    Value <- Score, best_x <- best, lo <- left, mid <- left, hi <- right, steps <- 0,
    Starts <- {}, MinInput <- 1, MaxInput <- 1, BracketSteps <- 0, GoldenIters <- Iters, RelTol <- 1

(* Its assumptions hold. *)
LEMMA GoldenHolds ==
    /\ 1 \in Nat \ {0} /\ 1 \in Nat /\ 1 <= 1
    /\ {} \subseteq 1 .. 1
    /\ 0 \in Nat /\ Iters \in Nat /\ 1 \in Nat \ {0}
BY SplitAssumption

(* Every split has an integer score. *)
IntegerScores == \A c \in Curves : \A a \in Int : Score(c, a) \in Int

(* best is a sampled split and the best of them, and so are the ends sampled, at *)
(* every point of the search.                                                   *)
SplitInv ==
    /\ curve \in Curves
    /\ left \in Int /\ right \in Int /\ x1 \in Int /\ x2 \in Int
    /\ seen \subseteq Int
    /\ BestOfSamples

(* The golden section of an integer width is an integer. *)
LEMMA PhiInteger ==
    ASSUME NEW l \in Int, NEW r \in Int
    PROVE  LowerProbe(l, r) \in Int /\ UpperProbe(l, r) \in Int
BY Golden!PhiInteger, GoldenHolds DEF Golden!LowerProbe, Golden!UpperProbe, Golden!Phi, LowerProbe, UpperProbe, Phi

(* The better of two splits is one of them, and no worse than either. *)
LEMMA BetterQuote ==
    ASSUME IntegerScores, curve \in Curves, NEW a \in Int, NEW b \in Int
    PROVE  /\ BestQuote(a, b) \in {a, b}
           /\ S(a) <= S(BestQuote(a, b)) /\ S(b) <= S(BestQuote(a, b))
           /\ S(a) \in Int /\ S(b) \in Int
BY DEF BestQuote, S, IntegerScores

(* One more sample, compared with the best of the others, gives the best of all. *)
LEMMA OneMoreQuote ==
    ASSUME IntegerScores, curve \in Curves, NEW set, set \subseteq Int, NEW b \in set, NEW x \in Int,
           \A y \in set : S(y) <= S(b)
    PROVE  /\ BestQuote(b, x) \in set \cup {x}
           /\ \A y \in set \cup {x} : S(y) <= S(BestQuote(b, x))
<1>1. /\ BestQuote(b, x) \in {b, x}
      /\ S(b) <= S(BestQuote(b, x)) /\ S(x) <= S(BestQuote(b, x)) /\ S(b) \in Int /\ S(x) \in Int
    BY BetterQuote
<1>2. ASSUME NEW y \in set PROVE S(y) <= S(BestQuote(b, x))
    <2>1. S(y) \in Int /\ S(BestQuote(b, x)) \in Int
        BY <1>1 DEF S, IntegerScores
    <2> QED
        BY <1>1, <2>1
<1> QED
    BY <1>1, <1>2

(* The first four splits are sampled and compared. *)
LEMMA SplitStarts == IntegerScores /\ Init => SplitInv
<1> SUFFICES ASSUME IntegerScores, Init PROVE SplitInv
    OBVIOUS
<1>1. /\ curve \in Curves /\ left = 0 /\ right = Scale /\ Scale \in Int
      /\ x1 = LowerProbe(0, Scale) /\ x2 = UpperProbe(0, Scale)
      /\ best = BestQuote(BestQuote(BestQuote(0, Scale), x1), x2)
      /\ seen = {0, Scale, x1, x2}
    BY SplitAssumption DEF Init
<1>2. x1 \in Int /\ x2 \in Int
    BY <1>1, PhiInteger
<1> DEFINE b0 == BestQuote(0, Scale)
           b1 == BestQuote(b0, x1)
           two == {0, Scale}
           three == {0, Scale, x1}
<1>3. two \subseteq Int /\ b0 \in two /\ \A y \in two : S(y) <= S(b0)
    BY <1>1, BetterQuote
<1>4. three \subseteq Int /\ b1 \in three /\ \A y \in three : S(y) <= S(b1)
    <2>1. three = two \cup {x1} /\ three \subseteq Int
        BY <1>1, <1>2
    <2> HIDE DEF b0, two, three
    <2> QED
        BY <1>1, <1>2, <1>3, <2>1, OneMoreQuote
<1>5. best \in seen /\ \A y \in seen : S(y) <= S(best)
    <2>1. seen = three \cup {x2} /\ best = BestQuote(b1, x2)
        BY <1>1
    <2> HIDE DEF b1, three
    <2>2. curve \in Curves /\ x2 \in Int
        BY <1>1, <1>2
    <2>3. /\ BestQuote(b1, x2) \in three \cup {x2}
          /\ \A y \in three \cup {x2} : S(y) <= S(BestQuote(b1, x2))
        BY <1>4, <2>2, OneMoreQuote
    <2> QED
        BY <2>1, <2>3, Zenon
<1>6. {0, Scale} \subseteq seen /\ seen \subseteq Int
    BY <1>1, <1>2
<1> QED
    BY <1>1, <1>2, <1>5, <1>6 DEF SplitInv, BestOfSamples

(* Every iteration, and the last look at the centre, keeps the best split. *)
LEMMA SplitStep == IntegerScores /\ SplitInv /\ [Next]_(vars) => SplitInv'
<1> SUFFICES ASSUME IntegerScores, SplitInv, [Next]_(vars) PROVE SplitInv'
    OBVIOUS
<1>0. /\ curve \in Curves /\ left \in Int /\ right \in Int /\ x1 \in Int /\ x2 \in Int
      /\ seen \subseteq Int /\ {0, Scale} \subseteq seen
      /\ best \in seen /\ \A y \in seen : S(y) <= S(best)
    BY DEF SplitInv, BestOfSamples
<1>1. ASSUME NEW x \in Int, curve' = curve, best' = BestQuote(best, x), seen' = seen \cup {x}
      PROVE  /\ seen' \subseteq Int /\ {0, Scale} \subseteq seen'
             /\ best' \in seen' /\ \A y \in seen' : Score(curve', y) <= Score(curve', best')
    BY <1>0, <1>1, OneMoreQuote DEF S
<1>2. CASE StepUp
    <2>1. /\ curve' = curve /\ left' = x1 /\ x1' = x2 /\ x2' = UpperProbe(x1, right)
          /\ right' = right /\ best' = BestQuote(best, x2') /\ seen' = seen \cup {x2'}
        BY <1>2 DEF StepUp
    <2>2. x2' \in Int
        BY <1>0, <2>1, PhiInteger
    <2> QED
        BY <1>0, <1>1, <2>1, <2>2 DEF SplitInv, BestOfSamples, S
<1>3. CASE StepDown
    <2>1. /\ curve' = curve /\ right' = x2 /\ x2' = x1 /\ x1' = LowerProbe(left, x2)
          /\ left' = left /\ best' = BestQuote(best, x1') /\ seen' = seen \cup {x1'}
        BY <1>3 DEF StepDown
    <2>2. x1' \in Int
        BY <1>0, <2>1, PhiInteger
    <2> QED
        BY <1>0, <1>1, <2>1, <2>2 DEF SplitInv, BestOfSamples, S
<1>4. CASE Center
    <2>1. /\ curve' = curve /\ UNCHANGED <<left, right, x1, x2>>
          /\ best' = BestQuote(best, (left + right) \div 2)
          /\ seen' = seen \cup {(left + right) \div 2}
        BY <1>4 DEF Center
    <2>2. (left + right) \div 2 \in Int
        BY <1>0
    <2> QED
        BY <1>0, <1>1, <2>1, <2>2 DEF SplitInv, BestOfSamples, S
<1>5. CASE UNCHANGED vars
    BY <1>0, <1>5 DEF vars, SplitInv, BestOfSamples, S
<1> QED
    BY <1>2, <1>3, <1>4, <1>5 DEF Next, Finished

(* Whatever the pools answer, the split the router takes is the best of all it       *)
(* sampled, both ends included: this is what module Routing assumes of it.           *)
THEOREM RouterTakesBestSample ==
    IntegerScores => (Spec => []BestOfSamples)
<1> SUFFICES ASSUME IntegerScores PROVE Spec => []BestOfSamples
    OBVIOUS
<1>1. Init => SplitInv
    BY SplitStarts
<1>2. SplitInv /\ [Next]_(vars) => SplitInv'
    BY SplitStep
<1>3. SplitInv => BestOfSamples
    BY DEF SplitInv
<1> QED
    BY <1>1, <1>2, <1>3, PTL DEF Spec

-----------------------------------------------------------------------------
(* A grid fine enough for the code's iterations. *)
FineGrid == Scale >= 100000 /\ Iters <= 14

(* The score rises up to one split and does not rise again behind it. *)
HumpedScores ==
    \A c \in Curves :
        /\ Peak(c) \in 0 .. Scale
        /\ \A a, b \in 0 .. Peak(c) : a < b => Score(c, a) < Score(c, b)
        /\ \A a, b \in Peak(c) .. Scale : a <= b => Score(c, b) <= Score(c, a)

(* The bracket, the probes where the golden section has them, and the best split between. *)
SplitPeakInv ==
    /\ SplitInv /\ PeakInBracket
    /\ 0 <= left /\ left <= right /\ right <= Scale
    /\ iter \in Nat /\ iter <= Iters
    /\ Golden!Probed(left, right, x1, x2, iter, Scale) /\ Golden!Wide(right - left, Scale, iter)

(* The best split lies below one that scores no more than a smaller one, and above one *)
(* that scores less than a larger one.                                                 *)
LEMMA HumpTells ==
    ASSUME IntegerScores, HumpedScores, curve \in Curves,
           NEW a \in 0 .. Scale, NEW b \in 0 .. Scale, a < b
    PROVE  /\ S(a) >= S(b) => Peak(curve) <= b
           /\ S(a) < S(b) => a <= Peak(curve)
<1>1. Peak(curve) \in 0 .. Scale /\ S(a) \in Int /\ S(b) \in Int /\ Scale \in Nat
    BY SplitAssumption DEF HumpedScores, IntegerScores, S
<1>2. ASSUME b < Peak(curve) PROVE S(a) < S(b)
    <2>1. a \in 0 .. Peak(curve) /\ b \in 0 .. Peak(curve)
        BY <1>1, <1>2
    <2> QED
        BY <2>1 DEF HumpedScores, S
<1>3. ASSUME Peak(curve) < a PROVE S(b) <= S(a)
    <2>1. a \in Peak(curve) .. Scale /\ b \in Peak(curve) .. Scale /\ a <= b
        BY <1>1, <1>3
    <2> QED
        BY <2>1 DEF HumpedScores, S
<1> QED
    BY <1>1, <1>2, <1>3

(* The first bracket is everything there is. *)
LEMMA SplitPeakStarts == IntegerScores /\ HumpedScores /\ FineGrid /\ Init => SplitPeakInv
<1> SUFFICES ASSUME IntegerScores, HumpedScores, FineGrid, Init PROVE SplitPeakInv
    OBVIOUS
<1>1. /\ curve \in Curves /\ left = 0 /\ right = Scale /\ Scale \in Nat \ {0} /\ iter = 0 /\ Iters \in Nat
      /\ x1 = LowerProbe(0, Scale) /\ x2 = UpperProbe(0, Scale)
    BY SplitAssumption DEF Init
<1>2. SplitInv
    BY SplitStarts
<1>3. /\ Golden!Probed(0, Scale, Golden!LowerProbe(0, Scale), Golden!UpperProbe(0, Scale), 0, Scale - 0)
      /\ Golden!Wide(Scale - 0, Scale - 0, 0)
    BY <1>1, Golden!FirstProbes, GoldenHolds
<1>4. Scale - 0 = Scale
    BY <1>1
<1>5. LowerProbe(0, Scale) = Golden!LowerProbe(0, Scale) /\ UpperProbe(0, Scale) = Golden!UpperProbe(0, Scale)
    BY DEF Golden!LowerProbe, Golden!UpperProbe, Golden!Phi, LowerProbe, UpperProbe, Phi
<1>6. Golden!Probed(left, right, x1, x2, iter, Scale) /\ Golden!Wide(right - left, Scale, iter)
    BY <1>1, <1>3, <1>4, <1>5
<1>7. 0 <= left /\ left <= right /\ right <= Scale /\ iter \in Nat /\ iter <= Iters /\ PeakInBracket
    BY <1>1 DEF PeakInBracket, HumpedScores
<1> QED
    BY <1>2, <1>6, <1>7 DEF SplitPeakInv

(* The probes lie in the bracket in order, and so do those of the bracket that is left. *)
LEMMA SplitProbes ==
    ASSUME FineGrid, SplitPeakInv, iter <= 13
    PROVE  /\ left <= x1 /\ x1 < x2 /\ x2 <= right
           /\ Golden!Probed(x1, right, x2, UpperProbe(x1, right), iter + 1, Scale)
           /\ Golden!Wide(right - x1, Scale, iter + 1)
           /\ Golden!Probed(left, x2, LowerProbe(left, x2), x1, iter + 1, Scale)
           /\ Golden!Wide(x2 - left, Scale, iter + 1)
<1>1. /\ left \in Int /\ right \in Int /\ x1 \in Int /\ x2 \in Int /\ iter \in Nat /\ Scale \in Nat
      /\ left <= right
      /\ Golden!Probed(left, right, x1, x2, iter, Scale) /\ Golden!Wide(right - left, Scale, iter)
    BY SplitAssumption DEF SplitPeakInv, SplitInv
<1>2. Golden!Ample(right - left, Scale, iter)
    BY SMT DEF Golden!Ample, FineGrid
<1>3. /\ left <= x1 /\ x1 < x2 /\ x2 <= right
      /\ Golden!Probed(x1, right, x2, Golden!UpperProbe(x1, right), iter + 1, Scale)
      /\ Golden!Wide(right - x1, Scale, iter + 1)
      /\ Golden!Probed(left, x2, Golden!LowerProbe(left, x2), x1, iter + 1, Scale)
      /\ Golden!Wide(x2 - left, Scale, iter + 1)
    BY <1>1, <1>2, Golden!NextProbes, GoldenHolds
<1>4. \A l, r : LowerProbe(l, r) = Golden!LowerProbe(l, r) /\ UpperProbe(l, r) = Golden!UpperProbe(l, r)
    BY DEF Golden!LowerProbe, Golden!UpperProbe, Golden!Phi, LowerProbe, UpperProbe, Phi
<1> QED
    BY <1>3, <1>4

(* Every iteration keeps the best split in the bracket. *)
LEMMA SplitPeakStep ==
    IntegerScores /\ HumpedScores /\ FineGrid /\ SplitPeakInv /\ [Next]_vars => SplitPeakInv'
<1> SUFFICES ASSUME IntegerScores, HumpedScores, FineGrid, SplitPeakInv, [Next]_vars PROVE SplitPeakInv'
    OBVIOUS
<1>0. /\ SplitInv' /\ PeakInBracket /\ Scale \in Nat /\ Iters \in Nat
      /\ 0 <= left /\ left <= right /\ right <= Scale /\ iter \in Nat /\ iter <= Iters
      /\ curve \in Curves /\ left \in Int /\ right \in Int /\ x1 \in Int /\ x2 \in Int
      /\ Golden!Probed(left, right, x1, x2, iter, Scale) /\ Golden!Wide(right - left, Scale, iter)
    BY SplitStep, SplitAssumption DEF SplitPeakInv, SplitInv
<1>1. ASSUME Continues
      PROVE  /\ left <= x1 /\ x1 < x2 /\ x2 <= right
             /\ Golden!Probed(x1, right, x2, UpperProbe(x1, right), iter + 1, Scale)
             /\ Golden!Wide(right - x1, Scale, iter + 1)
             /\ Golden!Probed(left, x2, LowerProbe(left, x2), x1, iter + 1, Scale)
             /\ Golden!Wide(x2 - left, Scale, iter + 1)
             /\ S(x1) < S(x2) => x1 <= Peak(curve)
             /\ S(x1) >= S(x2) => Peak(curve) <= x2
             /\ iter + 1 \in Nat /\ iter + 1 <= Iters
    <2>1. iter <= 13 /\ iter + 1 \in Nat /\ iter + 1 <= Iters
        BY <1>0, <1>1 DEF Continues, FineGrid
    <2>2. /\ left <= x1 /\ x1 < x2 /\ x2 <= right
          /\ Golden!Probed(x1, right, x2, UpperProbe(x1, right), iter + 1, Scale)
          /\ Golden!Wide(right - x1, Scale, iter + 1)
          /\ Golden!Probed(left, x2, LowerProbe(left, x2), x1, iter + 1, Scale)
          /\ Golden!Wide(x2 - left, Scale, iter + 1)
        BY <2>1, SplitProbes
    <2>3. x1 \in 0 .. Scale /\ x2 \in 0 .. Scale
        BY <1>0, <2>2
    <2>4. /\ S(x1) < S(x2) => x1 <= Peak(curve)
          /\ S(x1) >= S(x2) => Peak(curve) <= x2
        BY <1>0, <2>2, <2>3, HumpTells
    <2> QED
        BY <2>1, <2>2, <2>4
<1>2. CASE StepUp
    <2>1. /\ Continues /\ S(x1) < S(x2) /\ left' = x1 /\ x1' = x2 /\ x2' = UpperProbe(x1, right)
          /\ iter' = iter + 1 /\ UNCHANGED <<curve, right>>
        BY <1>2 DEF StepUp
    <2>2. 0 <= left' /\ left' <= right' /\ right' <= Scale
        BY <1>0, <1>1, <2>1
    <2>3. PeakInBracket'
        BY <1>0, <1>1, <2>1 DEF PeakInBracket
    <2>4. Golden!Probed(left', right', x1', x2', iter', Scale) /\ Golden!Wide(right' - left', Scale, iter')
        BY <1>1, <2>1
    <2> QED
        BY <1>0, <1>1, <2>1, <2>2, <2>3, <2>4 DEF SplitPeakInv
<1>3. CASE StepDown
    <2>1. /\ Continues /\ S(x1) >= S(x2) /\ right' = x2 /\ x2' = x1 /\ x1' = LowerProbe(left, x2)
          /\ iter' = iter + 1 /\ UNCHANGED <<curve, left>>
        BY <1>3 DEF StepDown
    <2>2. 0 <= left' /\ left' <= right' /\ right' <= Scale
        BY <1>0, <1>1, <2>1
    <2>3. PeakInBracket'
        BY <1>0, <1>1, <2>1 DEF PeakInBracket
    <2>4. Golden!Probed(left', right', x1', x2', iter', Scale) /\ Golden!Wide(right' - left', Scale, iter')
        BY <1>1, <2>1
    <2> QED
        BY <1>0, <1>1, <2>1, <2>2, <2>3, <2>4 DEF SplitPeakInv
<1>4. CASE Center
    BY <1>0, <1>4 DEF Center, SplitPeakInv, PeakInBracket
<1>5. CASE UNCHANGED vars
    BY <1>0, <1>5 DEF vars, SplitPeakInv, PeakInBracket
<1> QED
    BY <1>2, <1>3, <1>4, <1>5 DEF Next, Finished

(* Between two pools whose joint output has one hump the router never cuts off the best    *)
(* split while it goes on, for all of the code's fourteen iterations, although each one     *)
(* reuses a probe of the one before.                                                       *)
THEOREM RouterKeepsThePeak ==
    IntegerScores /\ HumpedScores /\ FineGrid => (Spec => []PeakInBracket)
<1> SUFFICES ASSUME IntegerScores, HumpedScores, FineGrid PROVE Spec => []PeakInBracket
    OBVIOUS
<1>1. Init => SplitPeakInv
    BY SplitPeakStarts
<1>2. SplitPeakInv /\ [Next]_vars => SplitPeakInv'
    BY SplitPeakStep
<1>3. SplitPeakInv => PeakInBracket
    BY DEF SplitPeakInv
<1> QED
    BY <1>1, <1>2, <1>3, PTL DEF Spec

-----------------------------------------------------------------------------
(* What two concave pools are quoted together: no split scores below zero, and Peak is the *)
(* first of the best.                                                                      *)
ConcaveScores ==
    \A c \in Curves :
        /\ Peak(c) \in 0 .. Scale
        /\ \A a \in 0 .. Scale : Score(c, a) >= 0 /\ Score(c, a) <= Score(c, Peak(c))
        /\ \A a \in 0 .. Peak(c) : a < Peak(c) => Score(c, a) < Score(c, Peak(c))
        /\ \A x, y, z \in 0 .. Scale : x < y /\ y < z =>
              (Score(c, y) - Score(c, x)) * (z - y) >= (Score(c, z) - Score(c, y)) * (y - x)

(* The constants of the code, for orders of a MIN_TRADE_SIZE or more. *)
CodeTolerances ==
    /\ Iters = 14 /\ AmountTol = 100 /\ GapTol = 100
    /\ 20 * AlphaTol <= Scale /\ 0 \notin Totals

(* Concave scores have one hump. *)
LEMMA ConcaveIsHumped == IntegerScores /\ ConcaveScores => HumpedScores
<1> SUFFICES ASSUME IntegerScores, ConcaveScores, NEW c \in Curves
             PROVE  /\ Peak(c) \in 0 .. Scale
                    /\ \A a, b \in 0 .. Peak(c) : a < b => Score(c, a) < Score(c, b)
                    /\ \A a, b \in Peak(c) .. Scale : a <= b => Score(c, b) <= Score(c, a)
    BY DEF HumpedScores
<1> DEFINE v(x) == Score(c, x)
           top == Peak(c)
<1>0. /\ Scale \in Nat /\ top \in 0 .. Scale
      /\ \A x \in Int : v(x) \in Int
      /\ \A x, y, z \in 0 .. Scale : x < y /\ y < z => (v(y) - v(x)) * (z - y) >= (v(z) - v(y)) * (y - x)
      /\ \A x \in 0 .. Scale : v(x) <= v(top)
      /\ \A x \in 0 .. top : x < top => v(x) < v(top)
    BY SplitAssumption DEF IntegerScores, ConcaveScores
<1> HIDE DEF v, top
<1>1. ASSUME NEW a \in 0 .. top, NEW b \in 0 .. top, a < b
      PROVE  v(a) < v(b)
    <2>1. CASE b = top
        BY <1>0, <1>1, <2>1
    <2>2. CASE b < top
        <3>1. (v(b) - v(a)) * (top - b) >= (v(top) - v(b)) * (b - a)
            BY <1>0, <1>1, <2>2
        <3>2. v(a) \in Int /\ v(b) \in Int /\ v(top) \in Int /\ v(b) < v(top)
            BY <1>0, <2>2
        <3>3. /\ v(b) - v(a) \in Int /\ v(top) - v(b) \in Int /\ v(top) - v(b) > 0
              /\ top - b \in Nat \ {0} /\ b - a \in Nat \ {0}
            BY <1>0, <1>1, <2>2, <3>2
        <3>4. v(b) - v(a) > 0
            BY <3>1, <3>3, Golden!RatioSign, GoldenHolds
        <3> QED
            BY <3>2, <3>4
    <2> QED
        BY <1>0, <2>1, <2>2
<1>2. ASSUME NEW a \in top .. Scale, NEW b \in top .. Scale, a <= b
      PROVE  v(b) <= v(a)
    <2>1. v(a) \in Int /\ v(b) \in Int /\ v(top) \in Int /\ v(a) <= v(top) /\ v(b) <= v(top)
        BY <1>0
    <2>2. CASE a = b \/ a = top
        BY <2>1, <2>2
    <2>3. CASE a # b /\ a # top
        <3>1. (v(a) - v(top)) * (b - a) >= (v(b) - v(a)) * (a - top)
            BY <1>0, <1>2, <2>3
        <3>2. /\ v(a) - v(top) \in Int /\ v(a) - v(top) <= 0 /\ v(b) - v(a) \in Int
              /\ b - a \in Nat \ {0} /\ a - top \in Nat \ {0}
            BY <1>0, <1>2, <2>1, <2>3
        <3>3. v(b) - v(a) <= 0
            BY <3>1, <3>2, Golden!RatioSign, GoldenHolds
        <3> QED
            BY <2>1, <3>3
    <2> QED
        BY <2>2, <2>3
<1> QED
    BY <1>0, <1>1, <1>2 DEF v, top

(* A split between nothing and the best one scores its share of the best, on either side. *)
LEMMA SharesOfThePeak ==
    ASSUME IntegerScores, ConcaveScores, curve \in Curves, NEW l \in 0 .. Scale, NEW a \in 0 .. Scale
    PROVE  /\ l <= a /\ a <= Peak(curve) => S(a) * (Peak(curve) - l) >= S(Peak(curve)) * (a - l)
           /\ Peak(curve) <= a /\ a <= l => S(a) * (l - Peak(curve)) >= S(Peak(curve)) * (l - a)
<1> DEFINE top == Peak(curve)
           Q == S(top)
           s == S(a)
           e == S(l)
<1>1. /\ top \in 0 .. Scale /\ Scale \in Nat /\ s \in Int /\ Q \in Int /\ e \in Int /\ e >= 0 /\ s >= 0
      /\ l < a /\ a < top => (s - e) * (top - a) >= (Q - s) * (a - l)
      /\ top < a /\ a < l => (s - Q) * (l - a) >= (e - s) * (a - top)
    BY SplitAssumption DEF ConcaveScores, IntegerScores, S
<1>2. l \in Int /\ a \in Int /\ top \in Int
    BY <1>1
<1> HIDE DEF top, Q, s, e
<1>3. ASSUME l <= a, a <= top PROVE s * (top - l) >= Q * (a - l)
    <2>1. CASE l = a
        BY <1>1, <1>2, <1>3, <2>1
    <2>2. CASE a = top
        BY <1>1, <1>2, <1>3, <2>2 DEF s, Q
    <2>3. CASE l # a /\ a # top
        <3>1. (s - e) * (top - a) >= (Q - s) * (a - l)
            BY <1>1, <1>2, <1>3, <2>3
        <3>2. e * (top - a) >= 0
            BY <1>1, <1>2, <1>3
        <3>3. /\ (s - e) * (top - a) = s * (top - a) - e * (top - a)
              /\ (Q - s) * (a - l) = Q * (a - l) - s * (a - l)
              /\ s * (top - l) = s * (top - a) + s * (a - l)
            BY <1>1, <1>2
        <3>4. s * (top - a) \in Int /\ e * (top - a) \in Int /\ Q * (a - l) \in Int /\ s * (a - l) \in Int
            BY <1>1, <1>2
        <3> QED
            BY <3>1, <3>2, <3>3, <3>4
    <2> QED
        BY <2>1, <2>2, <2>3
<1>4. ASSUME top <= a, a <= l PROVE s * (l - top) >= Q * (l - a)
    <2>1. CASE l = a
        BY <1>1, <1>2, <1>4, <2>1
    <2>2. CASE a = top
        BY <1>1, <1>2, <1>4, <2>2 DEF s, Q
    <2>3. CASE l # a /\ a # top
        <3>1. (s - Q) * (l - a) >= (e - s) * (a - top)
            BY <1>1, <1>2, <1>4, <2>3
        <3>2. e * (a - top) >= 0
            BY <1>1, <1>2, <1>4
        <3>3. /\ (s - Q) * (l - a) = s * (l - a) - Q * (l - a)
              /\ (e - s) * (a - top) = e * (a - top) - s * (a - top)
              /\ s * (l - top) = s * (l - a) + s * (a - top)
            BY <1>1, <1>2
        <3>4. s * (l - a) \in Int /\ e * (a - top) \in Int /\ Q * (l - a) \in Int /\ s * (a - top) \in Int
            BY <1>1, <1>2
        <3> QED
            BY <3>1, <3>2, <3>3, <3>4
    <2> QED
        BY <2>1, <2>2, <2>3
<1> QED
    BY <1>3, <1>4 DEF top, Q, s, e

(* The ends of a bracket around the best split, which is no wider than a twentieth of all    *)
(* splits: the better of the two is good enough.                                            *)
LEMMA EndsPay ==
    ASSUME NEW W \in Nat, NEW l \in Int, NEW r \in Int, NEW top \in 0 .. W, NEW Q \in Nat, NEW B \in Int,
           NEW sl \in Int, NEW sr \in Int, 0 <= l, l <= r, r <= W, W > 0, 20 * (r - l) <= W, sl <= B, sr <= B,
           sl * top >= Q * l, sr * (W - top) >= Q * (W - r)
    PROVE  95 * Q <= 100 * B
<1>1. B * top >= sl * top /\ B * (W - top) >= sr * (W - top)
    BY SMT
<1>2. B * top + B * (W - top) = B * W /\ Q * l + Q * (W - r) = Q * W - Q * (r - l)
    BY SMT
<1>3. Q * (20 * (r - l)) <= Q * W
    BY SMT
<1>4. Q * (20 * (r - l)) = 20 * (Q * (r - l))
    BY SMT
<1>5. /\ B * top \in Int /\ sl * top \in Int /\ B * (W - top) \in Int /\ sr * (W - top) \in Int
      /\ B * W \in Int /\ Q * l \in Int /\ Q * (W - r) \in Int /\ Q * W \in Int /\ Q * (r - l) \in Int
    OBVIOUS
<1>6. 100 * (B * W) >= 95 * (Q * W)
    BY <1>1, <1>2, <1>3, <1>4, <1>5, SMT
<1>7. (100 * B) * W >= (95 * Q) * W
    BY <1>6, SMT
<1> QED
    BY <1>7, SMT

(* The best split lies outside two probes whose scores are within a hundredth, and not twice *)
(* as far from the nearer one as they are apart: that one is good enough.                   *)
LEMMA OutsideSees ==
    ASSUME NEW Q \in Int, NEW s \in Nat, NEW t \in Int, NEW d \in Nat \ {0}, NEW e \in Nat,
           e <= 2 * d, 100 * (s - t) <= s, (Q - s) * d <= (s - t) * e
    PROVE  95 * Q <= 100 * s
<1>1. (100 * (s - t)) * e <= s * e
    BY SMT
<1>2. s * e <= s * (2 * d)
    BY SMT
<1>3. /\ (100 * (s - t)) * e = 100 * ((s - t) * e) /\ s * (2 * d) = (2 * s) * d
      /\ 100 * ((Q - s) * d) = (100 * (Q - s)) * d
    BY SMT
<1>4. (s - t) * e \in Int /\ s * e \in Int /\ (2 * s) * d \in Int /\ (Q - s) * d \in Int
    OBVIOUS
<1>5. (100 * (Q - s)) * d <= (2 * s) * d
    BY <1>1, <1>2, <1>3, <1>4, SMT
<1>6. 100 * (Q - s) <= 2 * s
    BY <1>5, SMT
<1> QED
    BY <1>6, SMT

(* A quadratic whose discriminant is not positive has no negative value. *)
LEMMA NoRoot ==
    ASSUME NEW p \in Nat, NEW k \in Int, NEW q \in Int, NEW z \in Int, k * k <= 4 * p * q, p > 0
    PROVE  p * (z * z) - k * z + q >= 0
<1>1. (2 * p * z - k) * (2 * p * z - k) >= 0
    BY SMT
<1>2. (2 * p * z - k) * (2 * p * z - k) = (4 * p) * (p * (z * z) - k * z) + k * k
    BY SMT
<1>3. 4 * p * q = (4 * p) * q
    BY SMT
<1>4. (4 * p) * (p * (z * z) - k * z) + (4 * p) * q >= 0
    BY <1>1, <1>2, <1>3, SMT
<1>5. (4 * p) * (p * (z * z) - k * z + q) >= 0
    BY <1>4, SMT
<1>6. p * (z * z) - k * z + q \in Int
    OBVIOUS
<1> HIDE <1>1, <1>2, <1>3, <1>4
<1> QED
    BY <1>5, <1>6, SMT

(* The distances of the near probe, the far probe and the centre from one end of the bracket *)
(* have no point between the first and the last in which CenterSees fails.                  *)
LEMMA Spread ==
    ASSUME NEW a \in Nat, NEW b \in Nat, NEW h \in Nat, a <= h, b <= 2 * h + 1, h > 0,
           \/ 1000 * a >= 759 * h /\ 1000 * b >= 1235 * h
           \/ 1000 * a >= 763 * h /\ 1000 * b >= 1231 * h
    PROVE  (99 * a + 100 * h - 5 * b) * (99 * a + 100 * h - 5 * b) <= 37620 * (a * h)
<1> DEFINE k == 99 * a + 100 * h - 5 * b
<1>1. ASSUME NEW m \in Nat, k >= 0, 200 * k <= m, m * m <= 1504800000 * (a * h)
      PROVE  k * k <= 37620 * (a * h)
    <2>1. (200 * k) * (200 * k) <= m * m
        <3>1. (200 * k) * (200 * k) <= (200 * k) * m
            BY <1>1, SMT
        <3>2. (200 * k) * m <= m * m
            BY <1>1, SMT
        <3>3. (200 * k) * (200 * k) \in Int /\ (200 * k) * m \in Int /\ m * m \in Int
            OBVIOUS
        <3> QED
            BY <3>1, <3>2, <3>3
    <2>2. (200 * k) * (200 * k) = 40000 * (k * k)
        BY SMT
    <2>3. k * k \in Int /\ a * h \in Int /\ m * m \in Int
        OBVIOUS
    <2> HIDE DEF k
    <2> QED
        BY <1>1, <2>1, <2>2, <2>3, SMT
<1>2. k >= 0 /\ k \in Int
    OBVIOUS
<1>3. CASE 1000 * a >= 759 * h /\ 1000 * b >= 1235 * h
    <2> DEFINE m == 19800 * a + 18765 * h
    <2>1. m \in Nat /\ 200 * k <= m
        BY <1>3
    <2>2. (1000 * a - 759 * h) * (h - a) >= 0 /\ (1000 * a - 759 * h) * h >= 0
        BY <1>3, SMT
    <2>3. /\ (1000 * a - 759 * h) * (h - a) = 1759 * (a * h) - 1000 * (a * a) - 759 * (h * h)
          /\ (1000 * a - 759 * h) * h = 1000 * (a * h) - 759 * (h * h)
          /\ m * m = 392040000 * (a * a) + 743094000 * (a * h) + 352125225 * (h * h)
        BY SMT
    <2>4. a * a \in Int /\ a * h \in Int /\ h * h \in Int
        OBVIOUS
    <2>5. m * m <= 1504800000 * (a * h)
        <3> HIDE DEF m
        <3> QED
            BY <2>2, <2>3, <2>4, SMT
    <2> QED
        BY <1>1, <1>2, <2>1, <2>5
<1>4. CASE 1000 * a >= 763 * h /\ 1000 * b >= 1231 * h
    <2> DEFINE m == 19800 * a + 18769 * h
    <2>1. m \in Nat /\ 200 * k <= m
        BY <1>4
    <2>2. (1000 * a - 763 * h) * (h - a) >= 0 /\ (1000 * a - 763 * h) * h >= 0
        BY <1>4, SMT
    <2>3. /\ (1000 * a - 763 * h) * (h - a) = 1763 * (a * h) - 1000 * (a * a) - 763 * (h * h)
          /\ (1000 * a - 763 * h) * h = 1000 * (a * h) - 763 * (h * h)
          /\ m * m = 392040000 * (a * a) + 743252400 * (a * h) + 352275361 * (h * h)
        BY SMT
    <2>4. a * a \in Int /\ a * h \in Int /\ h * h \in Int
        OBVIOUS
    <2>5. m * m <= 1504800000 * (a * h)
        <3> HIDE DEF m
        <3> QED
            BY <2>2, <2>3, <2>4, SMT
    <2> QED
        BY <1>1, <1>2, <2>1, <2>5
<1> QED
    BY <1>3, <1>4

(* The best split lies between a probe and the centre of the bracket, at a distance z from    *)
(* one end; a, h and b are the distances of that probe, of the centre and of the other probe. *)
(* The concavity of the score makes the centre good enough.                                 *)
LEMMA CenterSees ==
    ASSUME NEW a \in Nat, NEW b \in Nat, NEW h \in Nat, NEW z \in Nat,
           NEW Q \in Nat, NEW B \in Int, NEW s \in Int, NEW t \in Int,
           0 < a, a < z, z <= h, h < b, b <= 2 * h + 1,
           \/ 1000 * a >= 759 * h /\ 1000 * b >= 1235 * h
           \/ 1000 * a >= 763 * h /\ 1000 * b >= 1231 * h,
           s * z >= Q * a, Q * (b - h) <= B * (b - z) - t * (h - z), 100 * t >= 99 * s
    PROVE  95 * Q <= 100 * B
<1> DEFINE k == 99 * a + 100 * h - 5 * b
           room == 95 * (z * z) - k * z + 99 * (a * h)
<1>1. room >= 0 /\ room \in Int
    <2>1. k * k <= 37620 * (a * h)
        BY Spread
    <2>2. k \in Int /\ 99 * (a * h) \in Int /\ 4 * 95 * (99 * (a * h)) = 37620 * (a * h)
        BY SMT
    <2> HIDE DEF k
    <2>3. k * k <= 4 * 95 * (99 * (a * h))
        BY <2>1, <2>2
    <2> QED
        BY <2>2, <2>3, NoRoot
<1>2. 100 * ((t * z) * (h - z)) >= 99 * ((Q * a) * (h - z))
    <2>1. (100 * t) * z >= (99 * s) * z
        BY SMT
    <2>2. 100 * (t * z) >= 99 * (Q * a)
        BY <2>1, SMT
    <2>3. (100 * (t * z)) * (h - z) >= (99 * (Q * a)) * (h - z)
        <3>1. t * z \in Int /\ Q * a \in Int /\ h - z \in Nat
            OBVIOUS
        <3> QED
            BY <2>2, <3>1, SMT
    <2> QED
        BY <2>3, SMT
<1>3. 100 * ((Q * z) * (b - h)) + 99 * ((Q * a) * (h - z)) <= 100 * ((B * z) * (b - z))
    <2>1. (Q * (b - h)) * z <= (B * (b - z) - t * (h - z)) * z
        BY SMT
    <2>2. /\ (Q * (b - h)) * z = (Q * z) * (b - h)
          /\ (B * (b - z) - t * (h - z)) * z = (B * z) * (b - z) - (t * z) * (h - z)
        BY SMT
    <2>3. /\ (Q * z) * (b - h) \in Int /\ (B * z) * (b - z) \in Int /\ (t * z) * (h - z) \in Int
          /\ (Q * a) * (h - z) \in Int
        OBVIOUS
    <2> QED
        BY <1>2, <2>1, <2>2, <2>3, SMT
<1>4. 100 * ((Q * z) * (b - h)) + 99 * ((Q * a) * (h - z)) = Q * room + 95 * ((Q * z) * (b - z))
    BY SMT
<1>5. Q * room >= 0
    BY <1>1, SMT
<1>6. 95 * ((Q * z) * (b - z)) <= 100 * ((B * z) * (b - z))
    <2>1. /\ (Q * z) * (b - h) \in Int /\ (B * z) * (b - z) \in Int /\ (Q * z) * (b - z) \in Int
          /\ (Q * a) * (h - z) \in Int /\ Q * room \in Int
        BY <1>1
    <2> HIDE DEF room
    <2> QED
        BY <1>3, <1>4, <1>5, <2>1, SMT
<1>7. (95 * Q) * (z * (b - z)) <= (100 * B) * (z * (b - z))
    <2>1. 95 * ((Q * z) * (b - z)) = (95 * Q) * (z * (b - z)) /\ 100 * ((B * z) * (b - z)) = (100 * B) * (z * (b - z))
        BY SMT
    <2> QED
        BY <1>6, <2>1
<1>8. z * (b - z) > 0 /\ z * (b - z) \in Int
    BY SMT
<1>9. \A x, y, n \in Int : n > 0 /\ x * n <= y * n => x <= y
    BY SMT
<1> HIDE DEF k, room
<1> QED
    BY <1>7, <1>8, <1>9

(* Where the probes are in a wide bracket of the first iterations: at 382 thousandths of its  *)
(* width from the ends, the one that is new up to a grid point, the other one up to two       *)
(* thousandths.                                                                             *)
LEMMA Spaced ==
    ASSUME NEW l \in Int, NEW r \in Int, NEW p \in Int, NEW q \in Int, NEW n \in Nat, NEW W \in Nat,
           n <= 6, W >= 100000, l <= r, 20 * (r - l) > W, Golden!Probed(l, r, p, q, n, W)
    PROVE  /\ 1000 * (p - l) >= 380 * (r - l) /\ 1000 * (p - l) <= 384 * (r - l)
           /\ 1000 * (r - q) >= 380 * (r - l) /\ 1000 * (r - q) <= 384 * (r - l)
           /\ \/ 1000 * (p - l) >= 382 * (r - l) /\ 1000 * (p - l) <= 382 * (r - l) + 999
              \/ 1000 * (r - q) >= 382 * (r - l) /\ 1000 * (r - q) <= 382 * (r - l) + 999
<1> DEFINE w == r - l
<1>1. CASE Golden!Fresh(Golden!Low(l, r, p)) /\ Golden!Stale(Golden!High(l, r, q), r - l, W, n)
    BY <1>1, SMT DEF Golden!Fresh, Golden!Stale, Golden!Slack, Golden!Low, Golden!High
<1>2. CASE Golden!Stale(Golden!Low(l, r, p), r - l, W, n) /\ Golden!Fresh(Golden!High(l, r, q))
    BY <1>2, SMT DEF Golden!Fresh, Golden!Stale, Golden!Slack, Golden!Low, Golden!High
<1> QED
    BY <1>1, <1>2 DEF Golden!Probed

(* After six iterations the bracket is narrower than a twentieth of all splits. *)
LEMMA WideMeansEarly ==
    ASSUME NEW w \in Nat, NEW W \in Nat, NEW n \in Nat, n <= 14, W >= 100000,
           Golden!Near(w, W, n), 20 * w > W
    PROVE  n <= 6
<1> SUFFICES ASSUME n >= 7 PROVE FALSE
    OBVIOUS
<1> DEFINE s == Golden!Closing[n + 1]
<1>1. s \in Nat /\ s <= 3458
    BY SMT DEF Golden!Closing
<1>2. 100000 * w <= s * W + 2700000
    BY SMT DEF Golden!Near
<1> HIDE DEF s
<1>3. s * W <= 3458 * W /\ s * W \in Int
    BY <1>1, SMT
<1> QED
    BY <1>2, <1>3, SMT

(* Concavity, read from the other side. *)
LEMMA Mirrored ==
    ASSUME NEW a \in Int, NEW b \in Int, NEW d \in Int, NEW u \in Int, NEW v \in Int,
           (a - b) * u >= (d - a) * v
    PROVE  (b - a) * u <= (a - d) * v
<1>1. /\ (a - b) * u = a * u - b * u /\ (d - a) * v = d * v - a * v
      /\ (b - a) * u = b * u - a * u /\ (a - d) * v = a * v - d * v
    BY SMT
<1>2. a * u \in Int /\ b * u \in Int /\ d * v \in Int /\ a * v \in Int
    OBVIOUS
<1> QED
    BY <1>1, <1>2

(* Two splits on either side of the best one, the further of which is the centre: the centre *)
(* takes what the concavity of the score leaves.                                            *)
LEMMA CenterBounds ==
    ASSUME NEW Q \in Nat, NEW sc \in Int, NEW B \in Int, NEW t \in Int, NEW d \in Nat, NEW e \in Nat,
           sc <= B, sc <= Q, e = 0 => sc = Q, e > 0 => (sc - Q) * d >= (t - sc) * e
    PROVE  Q * d <= B * (d + e) - t * e
<1>1. B * (d + e) >= sc * (d + e)
    BY SMT
<1>2. /\ (sc - Q) * d = sc * d - Q * d /\ (t - sc) * e = t * e - sc * e
      /\ sc * (d + e) = sc * d + sc * e
    BY SMT
<1>3. /\ sc * d \in Int /\ Q * d \in Int /\ t * e \in Int /\ sc * e \in Int
      /\ B * (d + e) \in Int
    OBVIOUS
<1>4. CASE e = 0
    <2>1. sc * d = Q * d /\ t * e = 0 /\ sc * e = 0
        BY <1>4
    <2> QED
        BY <1>1, <1>2, <1>3, <2>1
<1>5. CASE e > 0
    <2>1. sc * d - Q * d >= t * e - sc * e
        BY <1>2, <1>5, Zenon
    <2> QED
        BY <1>1, <1>2, <1>3, <2>1
<1> QED
    BY <1>4, <1>5

(* When two probes of a wide bracket score within a hundredth of each other, one of them or   *)
(* the centre is good enough.                                                               *)
LEMMA GapStopPays ==
    ASSUME IntegerScores, ConcaveScores, CodeTolerances, FineGrid, curve \in Curves,
           NEW l \in Int, NEW r \in Int, NEW p \in Int, NEW q \in Int, NEW n \in Nat, n <= 14,
           0 <= l, l <= p, p < q, q <= r, r <= Scale, l <= Peak(curve), Peak(curve) <= r,
           Golden!Probed(l, r, p, q, n, Scale), Golden!Near(r - l, Scale, n), 20 * (r - l) > Scale,
           WithinRelGap(S(p), S(q)),
           NEW B \in Int, S(p) <= B, S(q) <= B, S((l + r) \div 2) <= B
    PROVE  95 * S(Peak(curve)) <= 100 * B
<1> DEFINE top == Peak(curve)
           c == (l + r) \div 2
           w == r - l
           Q == S(top)
           s == S(p)
           t == S(q)
           sc == S(c)
<1>1. Scale \in Nat /\ Scale >= 100000 /\ GapTol = 100
    BY SplitAssumption, SMT DEF FineGrid, CodeTolerances
<1>2. n <= 6
    BY <1>1, WideMeansEarly
<1>3. /\ 1000 * (p - l) >= 380 * w /\ 1000 * (p - l) <= 384 * w
      /\ 1000 * (r - q) >= 380 * w /\ 1000 * (r - q) <= 384 * w
      /\ \/ 1000 * (p - l) >= 382 * w /\ 1000 * (p - l) <= 382 * w + 999
         \/ 1000 * (r - q) >= 382 * w /\ 1000 * (r - q) <= 382 * w + 999
    <2>1. l <= r
        OBVIOUS
    <2> QED
        BY ONLY <1>1, <1>2, <2>1, Spaced, l \in Int, r \in Int, p \in Int, q \in Int, n \in Nat,
                20 * (r - l) > Scale, Golden!Probed(l, r, p, q, n, Scale)
<1>4. w \in Nat /\ w >= 5000
    BY <1>1
<1>5. c \in Int /\ 2 * c <= l + r /\ l + r <= 2 * c + 1
    OBVIOUS
<1>6. p < c /\ c < q
    BY <1>3, <1>4, <1>5
<1>7. /\ top \in 0 .. Scale /\ p \in 0 .. Scale /\ q \in 0 .. Scale /\ c \in 0 .. Scale
      /\ l \in 0 .. Scale /\ r \in 0 .. Scale /\ top \in Int
    BY <1>1, <1>5, <1>6 DEF ConcaveScores
<1>8. /\ Q \in Nat /\ s \in Nat /\ t \in Nat /\ sc \in Nat
      /\ s <= Q /\ t <= Q /\ sc <= Q /\ s <= B /\ t <= B /\ sc <= B
    BY <1>7 DEF ConcaveScores, IntegerScores, S
<1>9. /\ 100 * (s - t) <= s /\ 100 * (t - s) <= t
      /\ 100 * t >= 99 * s /\ 100 * s >= 99 * t
    <2>1. 100 * (s - t) <= Larger(s, t) /\ 100 * (t - s) <= Larger(s, t)
        BY <1>1 DEF WithinRelGap
    <2> HIDE DEF s, t
    <2> QED
        BY <1>8, <2>1, SMT DEF Larger
<1>10. /\ top < p => (s - Q) * (q - p) >= (t - s) * (p - top)
       /\ q < top => (t - s) * (top - q) >= (Q - t) * (q - p)
       /\ top < c => (sc - Q) * (q - c) >= (t - sc) * (c - top)
       /\ c < top => (sc - s) * (top - c) >= (Q - sc) * (c - p)
    BY <1>6, <1>7 DEF ConcaveScores, S
<1>11. /\ p <= top => s * (top - l) >= Q * (p - l)
       /\ top <= q => t * (r - top) >= Q * (r - q)
    BY <1>7, SharesOfThePeak
<1> HIDE DEF top, c, w, Q, s, t, sc
<1>12. CASE top <= p
    <2>1. q - p \in Nat \ {0} /\ p - top \in Nat /\ p - top <= 2 * (q - p)
        BY <1>3, <1>4, <1>7, <1>12 DEF w, top
    <2>2. (Q - s) * (q - p) <= (s - t) * (p - top)
        <3>1. CASE top = p
            <4>1. Q = s
                BY <3>1 DEF Q, s, top
            <4> QED
                BY <1>7, <1>8, <3>1, <4>1
        <3>2. CASE top < p
            <4>1. (s - Q) * (q - p) >= (t - s) * (p - top)
                BY <1>10, <3>2
            <4>2. q - p \in Int /\ p - top \in Int /\ s \in Int /\ t \in Int /\ Q \in Int
                BY <1>7, <1>8
            <4> QED
                BY <4>1, <4>2, Mirrored
        <3> QED
            BY <1>7, <1>12, <3>1, <3>2
    <2>3. 95 * Q <= 100 * s
        BY <1>8, <1>9, <2>1, <2>2, OutsideSees
    <2> QED
        BY <1>8, <2>3 DEF Q, top
<1>13. CASE q <= top
    <2>1. q - p \in Nat \ {0} /\ top - q \in Nat /\ top - q <= 2 * (q - p)
        BY <1>3, <1>4, <1>7, <1>13 DEF w, top
    <2>2. (Q - t) * (q - p) <= (t - s) * (top - q)
        <3>1. CASE top = q
            <4>1. Q = t
                BY <3>1 DEF Q, t, top
            <4> QED
                BY <1>7, <1>8, <3>1, <4>1
        <3>2. CASE q < top
            BY <1>10, <3>2
        <3> QED
            BY <1>7, <1>13, <3>1, <3>2
    <2>3. 95 * Q <= 100 * t
        BY <1>8, <1>9, <2>1, <2>2, OutsideSees
    <2> QED
        BY <1>8, <2>3 DEF Q, top
<1>14. CASE p < top /\ top <= c
    <2> DEFINE a == p - l
               b == q - l
               h == c - l
               z == top - l
    <2>1. /\ a \in Nat /\ b \in Nat /\ h \in Nat /\ z \in Nat /\ 0 < a /\ a < z /\ z <= h /\ h < b
          /\ b <= 2 * h + 1
        BY <1>3, <1>4, <1>5, <1>6, <1>7, <1>14 DEF w
    <2>2. \/ 1000 * a >= 759 * h /\ 1000 * b >= 1235 * h
          \/ 1000 * a >= 763 * h /\ 1000 * b >= 1231 * h
        BY <1>3, <1>4, <1>5, SMT DEF w
    <2>3. s * z >= Q * a
        BY <1>7, <1>11, <1>14
    <2>4. Q * (b - h) <= B * (b - z) - t * (h - z)
        <3>1. /\ q - c \in Nat /\ c - top \in Nat /\ b - h = q - c /\ h - z = c - top
              /\ b - z = (q - c) + (c - top)
            BY <1>5, <1>6, <1>7, <1>14
        <3> DEFINE d == q - c
                   e == c - top
        <3>2. d \in Nat /\ e \in Nat
            BY <3>1
        <3>3. e = 0 => sc = Q
            BY <1>5, <1>7 DEF sc, Q
        <3>4. e > 0 => (sc - Q) * d >= (t - sc) * e
            BY <1>5, <1>7, <1>10
        <3>5. Q * d <= B * (d + e) - t * e
            <4> HIDE DEF d, e
            <4> QED
                BY <1>8, <3>2, <3>3, <3>4, CenterBounds
        <3> HIDE DEF b, h, z
        <3> QED
            BY <3>1, <3>5
    <2> HIDE DEF a, b, h, z
    <2>5. 95 * Q <= 100 * B
        BY <1>8, <1>9, <2>1, <2>2, <2>3, <2>4, CenterSees
    <2> QED
        BY <2>5 DEF Q, top
<1>15. CASE c < top /\ top < q
    <2> DEFINE a == r - q
               b == r - p
               h == r - c
               z == r - top
    <2>1. /\ a \in Nat /\ b \in Nat /\ h \in Nat /\ z \in Nat /\ 0 < a /\ a < z /\ z <= h /\ h < b
          /\ b <= 2 * h + 1
        BY <1>3, <1>4, <1>5, <1>6, <1>7, <1>15 DEF w
    <2>2. \/ 1000 * a >= 759 * h /\ 1000 * b >= 1235 * h
          \/ 1000 * a >= 763 * h /\ 1000 * b >= 1231 * h
        BY <1>3, <1>4, <1>5, SMT DEF w
    <2>3. t * z >= Q * a
        BY <1>7, <1>11, <1>15
    <2>4. Q * (b - h) <= B * (b - z) - s * (h - z)
        <3>1. /\ c - p \in Nat /\ top - c \in Nat /\ b - h = c - p /\ h - z = top - c
              /\ b - z = (c - p) + (top - c)
            BY <1>5, <1>6, <1>7, <1>15
        <3>2. /\ sc - s \in Int /\ Q - sc \in Int
              /\ (sc - s) * (top - c) >= (Q - sc) * (c - p)
            BY <1>8, <1>10, <1>15
        <3>3. (sc - Q) * (c - p) >= (s - sc) * (top - c)
            <4>1. (s - sc) * (top - c) <= (sc - Q) * (c - p)
                BY <1>8, <3>1, <3>2, Mirrored
            <4>2. (s - sc) * (top - c) \in Int /\ (sc - Q) * (c - p) \in Int
                BY <1>8, <3>1
            <4> QED
                BY <4>1, <4>2
        <3>4. top - c # 0
            BY <1>5, <1>7, <1>15
        <3>5. Q * (c - p) <= B * ((c - p) + (top - c)) - s * (top - c)
            BY <1>8, <3>1, <3>3, <3>4, CenterBounds
        <3> HIDE DEF b, h, z
        <3> QED
            BY <3>1, <3>5
    <2> HIDE DEF a, b, h, z
    <2>5. 95 * Q <= 100 * B
        BY <1>8, <1>9, <2>1, <2>2, <2>3, <2>4, CenterSees
    <2> QED
        BY <2>5 DEF Q, top
<1> QED
    BY <1>5, <1>6, <1>7, <1>12, <1>13, <1>14, <1>15

(* The bracket is as narrow as its iterations say, and its ends and both probes were sampled. *)
LossInv ==
    /\ SplitPeakInv /\ LittleIsLost
    /\ total \in Totals
    /\ {left, right, x1, x2} \subseteq seen
    /\ Golden!Near(right - left, Scale, iter)

(* Every other reason to stop is a narrow bracket. *)
LEMMA NarrowOrClose ==
    ASSUME CodeTolerances, FineGrid, total \in Totals,
           left \in Int, right \in Int, 0 <= left, left <= right, right <= Scale,
           Golden!Near(right - left, Scale, iter), iter = Iters \/ Stops
    PROVE  20 * (right - left) <= Scale \/ WithinRelGap(S(x1), S(x2))
<1>1. /\ Scale \in Nat /\ Scale >= 100000 /\ Iters = 14 /\ AmountTol = 100 /\ 20 * AlphaTol <= Scale
      /\ AlphaTol \in Nat /\ total \in Nat /\ total # 0
    BY SplitAssumption, SMT DEF FineGrid, CodeTolerances
<1>2. CASE iter = Iters
    <2>1. Golden!Closing[14 + 1] = 132
        BY SMT DEF Golden!Closing
    <2>2. 100000 * (right - left) <= 132 * Scale + 2700000
        BY <1>1, <1>2, <2>1, SMT DEF Golden!Near
    <2> QED
        BY <1>1, <2>2, SMT
<1>3. CASE right - left <= AlphaTol
    BY <1>1, <1>3
<1>4. CASE 2 * AmountTol * total * (right - left) <= Larger(total * (left + right), 2 * Scale)
    <2> DEFINE w == right - left
               m == total * (left + right)
    <2>1. /\ total * w \in Int /\ total * Scale \in Int /\ w \in Nat /\ m \in Int
          /\ 2 * 100 * total * w = 200 * (total * w)
        BY <1>1, SMT
    <2>2. m <= 2 * (total * Scale)
        <3>1. total * (left + right) <= total * (2 * Scale)
            BY <1>1, SMT
        <3>2. total * (2 * Scale) = 2 * (total * Scale)
            BY <1>1, SMT
        <3> QED
            BY <3>1, <3>2
    <2>3. Scale <= total * Scale
        BY <1>1, SMT
    <2>4. 200 * (total * w) <= Larger(m, 2 * Scale)
        BY <1>1, <1>4, <2>1
    <2> HIDE DEF w, m
    <2>5. 100 * (total * w) <= total * Scale
        BY <1>1, <2>1, <2>2, <2>3, <2>4, SMT DEF Larger
    <2>6. total * (100 * w) <= total * Scale
        BY <1>1, <2>1, <2>5, SMT
    <2>7. 100 * w <= Scale
        BY <1>1, <2>1, <2>6, SMT
    <2> QED
        BY <1>1, <2>1, <2>7 DEF w
<1> QED
    BY <1>2, <1>3, <1>4 DEF Stops

(* Whatever ends the loop, the ends, the probes and the centre have a split among them that is *)
(* good enough.                                                                             *)
LEMMA WhatIsLeft ==
    ASSUME IntegerScores, ConcaveScores, CodeTolerances, FineGrid, LossInv, iter = Iters \/ Stops,
           NEW B \in Int, S(left) <= B, S(right) <= B, S(x1) <= B, S(x2) <= B,
           S((left + right) \div 2) <= B
    PROVE  95 * S(Peak(curve)) <= 100 * B
<1>1. /\ curve \in Curves /\ left \in Int /\ right \in Int /\ x1 \in Int /\ x2 \in Int
      /\ 0 <= left /\ left <= right /\ right <= Scale /\ iter \in Nat /\ iter <= 14
      /\ left <= Peak(curve) /\ Peak(curve) <= right
      /\ Golden!Probed(left, right, x1, x2, iter, Scale) /\ Golden!Wide(right - left, Scale, iter)
      /\ Golden!Near(right - left, Scale, iter) /\ total \in Totals
    BY DEF LossInv, SplitPeakInv, SplitInv, PeakInBracket, CodeTolerances
<1>2. /\ Scale \in Nat /\ Scale >= 100000 /\ Peak(curve) \in 0 .. Scale
    BY <1>1, SplitAssumption, SMT DEF FineGrid, ConcaveScores
<1>3. 20 * (right - left) <= Scale \/ WithinRelGap(S(x1), S(x2))
    BY <1>1, NarrowOrClose
<1>4. CASE 20 * (right - left) <= Scale
    <2>1. /\ S(Peak(curve)) \in Nat /\ S(left) \in Int /\ S(right) \in Int
        BY <1>1, <1>2 DEF ConcaveScores, IntegerScores, S
    <2>2. left \in 0 .. Scale /\ right \in 0 .. Scale /\ 0 \in 0 .. Scale /\ Scale \in 0 .. Scale
        BY <1>1, <1>2
    <2>3. S(left) * (Peak(curve) - 0) >= S(Peak(curve)) * (left - 0)
        BY <1>1, <2>2, SharesOfThePeak
    <2>4. S(right) * (Scale - Peak(curve)) >= S(Peak(curve)) * (Scale - right)
        BY <1>1, <2>2, SharesOfThePeak
    <2>5. Peak(curve) - 0 = Peak(curve) /\ left - 0 = left
        BY <1>1, <1>2
    <2>6. S(left) * Peak(curve) >= S(Peak(curve)) * left
        BY <2>3, <2>5, Zenon
    <2>7. Scale > 0
        BY <1>2
    <2> QED
        BY <1>1, <1>2, <1>4, <2>1, <2>4, <2>6, <2>7, EndsPay
<1>5. CASE ~(20 * (right - left) <= Scale) /\ WithinRelGap(S(x1), S(x2))
    <2>1. 20 * (right - left) > Scale
        BY <1>1, <1>2, <1>5
    <2>2. iter <= 6
        <3>1. right - left \in Nat
            BY <1>1
        <3> QED
            BY <1>1, <1>2, <2>1, <3>1, WideMeansEarly
    <2>4. left <= x1 /\ x1 < x2 /\ x2 <= right
        <3>1. iter <= 13
            BY <1>1, <2>2
        <3> QED
            BY <3>1, SplitProbes DEF LossInv
    <2> QED
        BY <1>1, <1>5, <2>1, <2>4, GapStopPays
<1> QED
    BY <1>3, <1>4, <1>5

(* The first bracket, and its probes. *)
LEMMA LossStarts == IntegerScores /\ HumpedScores /\ FineGrid /\ Init => LossInv
<1> SUFFICES ASSUME IntegerScores, HumpedScores, FineGrid, Init PROVE LossInv
    OBVIOUS
<1>1. SplitPeakInv
    BY SplitPeakStarts
<1>2. /\ pc = "loop" /\ total \in Totals /\ left = 0 /\ right = Scale /\ iter = 0 /\ Scale \in Nat
      /\ seen = {0, Scale, x1, x2}
    BY SplitAssumption DEF Init
<1>3. Golden!Near(Scale, Scale, 0)
    BY <1>2, Golden!FirstNear, GoldenHolds
<1>4. Golden!Near(right - left, Scale, iter)
    <2>1. right - left = Scale
        BY <1>2
    <2> QED
        BY <1>2, <1>3, <2>1
<1> QED
    BY <1>1, <1>2, <1>4 DEF LossInv, LittleIsLost

(* Every iteration keeps the widths; the look at the centre finds what is left. *)
LEMMA LossStep ==
    IntegerScores /\ ConcaveScores /\ CodeTolerances /\ FineGrid /\ LossInv /\ [Next]_vars => LossInv'
<1> SUFFICES ASSUME IntegerScores, ConcaveScores, CodeTolerances, FineGrid, LossInv, [Next]_vars
             PROVE  LossInv'
    OBVIOUS
<1>0. /\ SplitPeakInv /\ SplitPeakInv' /\ total \in Totals /\ {left, right, x1, x2} \subseteq seen
      /\ Golden!Near(right - left, Scale, iter)
      /\ curve \in Curves /\ left \in Int /\ right \in Int /\ x1 \in Int /\ x2 \in Int
      /\ left <= right /\ iter \in Nat /\ iter <= Iters /\ Iters = 14 /\ Scale \in Nat
      /\ Golden!Probed(left, right, x1, x2, iter, Scale)
    BY SplitPeakStep, ConcaveIsHumped, SplitAssumption DEF LossInv, SplitPeakInv, SplitInv, CodeTolerances
<1>1. ASSUME iter < Iters
      PROVE  Golden!Near(right - x1, Scale, iter + 1) /\ Golden!Near(x2 - left, Scale, iter + 1)
    <2>1. iter <= 13
        BY <1>0, <1>1
    <2> QED
        BY <1>0, <2>1, Golden!NearProbes, GoldenHolds
<1>2. CASE StepUp
    <2>1. /\ pc' = "loop" /\ iter < Iters /\ left' = x1 /\ x1' = x2 /\ seen' = seen \cup {x2'}
          /\ iter' = iter + 1 /\ UNCHANGED <<curve, total, right>>
        BY <1>2 DEF StepUp, Continues
    <2>2. {left', right', x1', x2'} \subseteq seen'
        BY <1>0, <2>1
    <2>3. Golden!Near(right' - left', Scale, iter')
        BY <1>1, <2>1
    <2> QED
        BY <1>0, <2>1, <2>2, <2>3 DEF LossInv, LittleIsLost
<1>3. CASE StepDown
    <2>1. /\ pc' = "loop" /\ iter < Iters /\ right' = x2 /\ x2' = x1 /\ seen' = seen \cup {x1'}
          /\ iter' = iter + 1 /\ UNCHANGED <<curve, total, left>>
        BY <1>3 DEF StepDown, Continues
    <2>2. {left', right', x1', x2'} \subseteq seen'
        BY <1>0, <2>1
    <2>3. Golden!Near(right' - left', Scale, iter')
        BY <1>1, <2>1
    <2> QED
        BY <1>0, <2>1, <2>2, <2>3 DEF LossInv, LittleIsLost
<1>4. CASE Center
    <2>1. /\ iter = Iters \/ Stops
          /\ seen' = seen \cup {(left + right) \div 2}
          /\ UNCHANGED <<curve, total, left, right, x1, x2, iter>>
        BY <1>4 DEF Center
    <2>2. best' \in Int /\ \A a \in seen' : S(a) <= Score(curve', best')
        BY <1>0, <2>1 DEF SplitPeakInv, SplitInv, BestOfSamples, S
    <2>3. 95 * S(Peak(curve)) <= 100 * S(best')
        <3>1. S(best') \in Int
            BY <1>0, <2>2 DEF IntegerScores, S
        <3>2. /\ S(left) <= S(best') /\ S(right) <= S(best') /\ S(x1) <= S(best') /\ S(x2) <= S(best')
              /\ S((left + right) \div 2) <= S(best')
            BY <1>0, <2>1, <2>2 DEF S
        <3> QED
            BY <2>1, <3>1, <3>2, WhatIsLeft
    <2>4. LittleIsLost'
        <3>1. S(Peak(curve)) \in Int /\ S(best') \in Int
            BY <1>0, <2>2 DEF IntegerScores, ConcaveScores, S
        <3>2. 100 * Score(curve', best') >= 95 * Score(curve', Peak(curve'))
            BY <2>1, <2>3, <3>1 DEF S
        <3> QED
            BY <3>2 DEF LittleIsLost, S
    <2> QED
        BY <1>0, <2>1, <2>4 DEF LossInv
<1>5. CASE UNCHANGED vars
    BY <1>0, <1>5 DEF vars, LossInv, LittleIsLost, S
<1> QED
    BY <1>2, <1>3, <1>4, <1>5 DEF Next, Finished

(* Between two concave pools the router finds 95 hundredths of the best output there is,       *)
(* whatever ends its search: the iterations, the tolerance of the split or of the amount, or    *)
(* two scores within a hundredth, after which only the centre of the bracket is looked at.      *)
THEOREM RouterLosesLittle ==
    IntegerScores /\ ConcaveScores /\ CodeTolerances /\ FineGrid => (Spec => []LittleIsLost)
<1> SUFFICES ASSUME IntegerScores, ConcaveScores, CodeTolerances, FineGrid PROVE Spec => []LittleIsLost
    OBVIOUS
<1>1. Init => LossInv
    BY LossStarts, ConcaveIsHumped
<1>2. LossInv /\ [Next]_vars => LossInv'
    BY LossStep
<1>3. LossInv => LittleIsLost
    BY DEF LossInv
<1> QED
    BY <1>1, <1>2, <1>3, PTL DEF Spec
=============================================================================
