--------------------------- MODULE ArbSearchProof ---------------------------
(***************************************************************************)
(* The arbitrageur's search, for every curve, every start and every limit.    *)
(***************************************************************************)
EXTENDS ArbSearch, TLAPS

(* Every curve has an integer profit at every input. *)
IntegerCurves == \A c \in Curves : \A x \in Int : Value(c, x) \in Int

(* best_x is one of the sampled inputs and the best of them, at every point of the *)
(* search; the bracket and the probes are integers.                              *)
SearchInv ==
    /\ curve \in Curves
    /\ pc \in {"probe", "grow", "golden", "done"}
    /\ lo \in Int /\ mid \in Int /\ hi \in Int
    /\ left \in Int /\ right \in Int /\ x1 \in Int /\ x2 \in Int /\ best_x \in Int
    /\ seen \subseteq Int
    /\ BestOfSamples

(* The golden section of an integer width is an integer. *)
LEMMA PhiInteger ==
    ASSUME NEW l \in Int, NEW r \in Int
    PROVE  LowerProbe(l, r) \in Int /\ UpperProbe(l, r) \in Int
<1>1. (r - l) * 618 \in Int /\ 1000 \in Nat \ {0}
    OBVIOUS
<1>2. Phi(r - l) \in Int
    BY <1>1 DEF Phi
<1> QED
    BY <1>2 DEF LowerProbe, UpperProbe

(* The better of two inputs is one of them, and no worse than either. *)
LEMMA BetterIsBetter ==
    ASSUME IntegerCurves, curve \in Curves, NEW a \in Int, NEW b \in Int
    PROVE  /\ Better(a, b) \in {a, b}
           /\ V(a) <= V(Better(a, b)) /\ V(b) <= V(Better(a, b))
           /\ V(a) \in Int /\ V(b) \in Int
BY DEF Better, V, IntegerCurves

(* Adding one sample to the best of the others gives the best of all. *)
LEMMA OneMoreSample ==
    ASSUME IntegerCurves, curve \in Curves, NEW set, set \subseteq Int, NEW b \in set, NEW x \in Int,
           \A y \in set : V(y) <= V(b)
    PROVE  /\ Better(b, x) \in set \cup {x}
           /\ \A y \in set \cup {x} : V(y) <= V(Better(b, x))
<1>1. /\ Better(b, x) \in {b, x}
      /\ V(b) <= V(Better(b, x)) /\ V(x) <= V(Better(b, x)) /\ V(b) \in Int /\ V(x) \in Int
    BY BetterIsBetter
<1>2. ASSUME NEW y \in set PROVE V(y) <= V(Better(b, x))
    <2>1. V(y) \in Int /\ V(Better(b, x)) \in Int
        BY <1>1 DEF V, IntegerCurves
    <2> QED
        BY <1>1, <2>1
<1> QED
    BY <1>1, <1>2

(* The start of the golden section samples what it keeps. *)
LEMMA OpenSamples ==
    ASSUME IntegerCurves, curve \in Curves, curve' = curve, NEW l \in Int, NEW r \in Int, Open(l, r)
    PROVE  /\ left' \in Int /\ right' \in Int /\ x1' \in Int /\ x2' \in Int
           /\ best_x' \in Int /\ seen' \subseteq Int
           /\ pc' \in {"golden", "done"}
           /\ best_x' \in seen' /\ \A y \in seen' : V(y) <= V(best_x')
<1>1. CASE r <= l
    <2>1. seen' = {r} /\ best_x' = r /\ left' = r /\ right' = r /\ x1' = r /\ x2' = r /\ pc' = "done"
        BY <1>1 DEF Open, OpenAt
    <2>2. V(r) \in Int
        BY DEF V, IntegerCurves
    <2> QED
        BY <2>1, <2>2
<1>2. CASE ~(r <= l)
    <2>1. /\ left' = l /\ right' = r /\ x1' = LowerProbe(l, r) /\ x2' = UpperProbe(l, r)
          /\ best_x' = Better(Better(Better(l, r), x1'), x2')
          /\ seen' = {l, r, x1', x2'} /\ pc' = "golden"
        BY <1>2 DEF Open
    <2>2. x1' \in Int /\ x2' \in Int
        BY <2>1, PhiInteger
    <2> DEFINE b0 == Better(l, r)
               b1 == Better(b0, x1')
    <2>3. V(l) \in Int /\ V(r) \in Int
        BY DEF V, IntegerCurves
    <2>4. b0 \in {l, r} /\ \A y \in {l, r} : V(y) <= V(b0)
        BY BetterIsBetter
    <2>5. b1 \in {l, r, x1'} /\ \A y \in {l, r, x1'} : V(y) <= V(b1)
        <3> DEFINE two == {l, r}
        <3>1. two \subseteq Int /\ b0 \in two /\ \A y \in two : V(y) <= V(b0)
            BY <2>4
        <3>2. {l, r, x1'} = two \cup {x1'}
            OBVIOUS
        <3> HIDE DEF b0, two
        <3> QED
            BY <2>2, <3>1, <3>2, OneMoreSample
    <2>6. /\ Better(b1, x2') \in {l, r, x1', x2'}
          /\ \A y \in {l, r, x1', x2'} : V(y) <= V(Better(b1, x2'))
        <3> DEFINE three == {l, r, x1'}
        <3>1. three \subseteq Int /\ b1 \in three /\ \A y \in three : V(y) <= V(b1)
            BY <2>2, <2>5
        <3>2. {l, r, x1', x2'} = three \cup {x2'}
            OBVIOUS
        <3> HIDE DEF b1, three
        <3> QED
            BY <2>2, <3>1, <3>2, OneMoreSample
    <2> HIDE DEF b1
    <2>7. best_x' = Better(b1, x2')
        BY <2>1 DEF b1
    <2> QED
        BY <2>1, <2>2, <2>6, <2>7
<1> QED
    BY <1>1, <1>2

(* The search starts with nothing sampled. *)
LEMMA SearchStarts == Init => SearchInv
BY SearchAssumption DEF Init, SearchInv, BestOfSamples

(* Every step of the bracket and of the golden section keeps the best sample. *)
LEMMA SearchStep == IntegerCurves /\ SearchInv /\ [Next]_vars => SearchInv'
<1> SUFFICES ASSUME IntegerCurves, SearchInv, [Next]_vars PROVE SearchInv'
    OBVIOUS
<1>0. /\ curve \in Curves /\ lo \in Int /\ mid \in Int /\ hi \in Int
      /\ left \in Int /\ right \in Int /\ x1 \in Int /\ x2 \in Int
      /\ Grown(mid) \in Int /\ Grown(hi) \in Int
    BY SearchAssumption DEF SearchInv, Grown
<1>1. CASE Probe
    <2>1. CASE V(mid) <= 0 \/ Grown(mid) <= mid
        <3>1. Open(lo, mid) /\ curve' = curve /\ UNCHANGED <<lo, mid, hi>>
            BY <1>1, <2>1 DEF Probe
        <3> QED
            BY <1>0, <3>1, OpenSamples DEF SearchInv, BestOfSamples, V
    <2>2. CASE ~(V(mid) <= 0 \/ Grown(mid) <= mid)
        BY <1>0, <1>1, <2>2 DEF Probe, SearchInv, BestOfSamples, V
    <2> QED
        BY <2>1, <2>2
<1>2. CASE Grow
    BY <1>0, <1>2 DEF Grow, SearchInv, BestOfSamples, V
<1>3. CASE Bracketed
    <2>1. Open(lo, hi) /\ curve' = curve /\ UNCHANGED <<lo, mid, hi>>
        BY <1>3 DEF Bracketed
    <2> QED
        BY <1>0, <2>1, OpenSamples DEF SearchInv, BestOfSamples, V
<1>4. CASE StepUp
    <2>1. /\ pc = "golden" /\ pc' \in {"golden", "done"} /\ UNCHANGED <<curve, lo, mid, hi, right>>
          /\ left' = x1 /\ x1' = x2 /\ x2' = UpperProbe(x1, right)
          /\ best_x' = Better(best_x, x2') /\ seen' = seen \cup {x2'}
        BY <1>4 DEF StepUp
    <2>2. x2' \in Int
        BY <1>0, <2>1, PhiInteger
    <2>3. seen \subseteq Int /\ best_x \in seen /\ \A y \in seen : V(y) <= V(best_x)
        BY <2>1 DEF SearchInv, BestOfSamples
    <2>4. best_x' \in seen' /\ \A y \in seen' : V(y) <= V(best_x')
        BY <1>0, <2>1, <2>2, <2>3, OneMoreSample
    <2> QED
        BY <1>0, <2>1, <2>2, <2>3, <2>4 DEF SearchInv, BestOfSamples, V
<1>5. CASE StepDown
    <2>1. /\ pc = "golden" /\ pc' \in {"golden", "done"} /\ UNCHANGED <<curve, lo, mid, hi, left>>
          /\ right' = x2 /\ x2' = x1 /\ x1' = LowerProbe(left, x2)
          /\ best_x' = Better(best_x, x1') /\ seen' = seen \cup {x1'}
        BY <1>5 DEF StepDown
    <2>2. x1' \in Int
        BY <1>0, <2>1, PhiInteger
    <2>3. seen \subseteq Int /\ best_x \in seen /\ \A y \in seen : V(y) <= V(best_x)
        BY <2>1 DEF SearchInv, BestOfSamples
    <2>4. best_x' \in seen' /\ \A y \in seen' : V(y) <= V(best_x')
        BY <1>0, <2>1, <2>2, <2>3, OneMoreSample
    <2> QED
        BY <1>0, <2>1, <2>2, <2>3, <2>4 DEF SearchInv, BestOfSamples, V
<1>6. CASE GiveUp
    BY <1>6 DEF GiveUp, SearchInv, BestOfSamples, V
<1>7. CASE UNCHANGED vars
    BY <1>7 DEF vars, SearchInv, BestOfSamples, V
<1> QED
    BY <1>1, <1>2, <1>3, <1>4, <1>5, <1>6, <1>7 DEF Next, Finished

(* Whatever the curve, the size the arbitrageur settles on is one it was quoted, and   *)
(* the best of those.                                                               *)
THEOREM ArbTakesBestSample == IntegerCurves => (Spec => []BestOfSamples)
<1> SUFFICES ASSUME IntegerCurves PROVE Spec => []BestOfSamples
    OBVIOUS
<1>1. SearchInv /\ [Next]_vars => SearchInv'
    BY SearchStep
<1>2. SearchInv => BestOfSamples
    BY DEF SearchInv
<1> QED
    BY <1>1, <1>2, SearchStarts, PTL DEF Spec

-----------------------------------------------------------------------------
(* The golden section on integers.  How far the lower probe p and the upper probe q of a *)
(* bracket l .. r are off 382 thousandths of its width, in thousandths of a grid point.   *)
Low(l, r, p) == 1000 * (p - l) - 382 * (r - l)
High(l, r, q) == 1000 * (r - q) - 382 * (r - l)

(* A probe that was just computed is less than a grid point off. *)
Fresh(d) == 0 <= d /\ d <= 999

(* A probe kept from the bracket before is off by what 618 thousandths are short of the *)
(* golden ratio, 38 in 809 of a thousandth of the width, and by the rounding of n          *)
(* iterations: a grid point and 618 thousandths of one each.  W is the first width.        *)
Slack(W, n) == 38 * W + 809000 + 500000 * n
Stale(d, w, W, n) == -Slack(W, n) <= 809 * d + 38 * w /\ 809 * d + 38 * w <= Slack(W, n)

(* One probe is new and the other one kept. *)
Probed(l, r, p, q, n, W) ==
    /\ \/ Fresh(Low(l, r, p)) /\ Stale(High(l, r, q), r - l, W, n)
       \/ Stale(Low(l, r, p), r - l, W, n) /\ Fresh(High(l, r, q))
    /\ r - l <= W

(* What is left of a width of 100000 after n iterations, at least and at most. *)
Shrunk == <<100000, 61800, 38190, 23598, 14579, 9005, 5560, 3431, 2115, 1302, 800, 489, 297, 178, 105>>
Closing == <<100000, 61810, 38207, 23619, 14603, 9031, 5587, 3458, 2142, 1329, 827, 516, 324, 205, 132>>
Wide(w, W, n) == 100000 * w >= Shrunk[n + 1] * W - 2700000
Near(w, W, n) == 100000 * w <= Closing[n + 1] * W + 2700000

(* Width enough for n iterations: of the bracket, or of the first one. *)
Ample(w, W, n) == (n <= 11 /\ w >= 100) \/ W >= 100000

(* New probes are integers, less than a grid point off. *)
LEMMA FreshProbes ==
    ASSUME NEW l \in Int, NEW r \in Int
    PROVE  /\ LowerProbe(l, r) \in Int /\ UpperProbe(l, r) \in Int
           /\ Fresh(Low(l, r, LowerProbe(l, r))) /\ Fresh(High(l, r, UpperProbe(l, r)))
<1> DEFINE w == r - l
           phi == (w * 618) \div 1000
<1>1. w \in Int /\ phi \in Int /\ 1000 * phi <= 618 * w /\ 618 * w <= 1000 * phi + 999
    OBVIOUS
<1>2. LowerProbe(l, r) = r - phi /\ UpperProbe(l, r) = l + phi
    BY DEF LowerProbe, UpperProbe, Phi
<1> HIDE DEF phi
<1> QED
    BY <1>1, <1>2 DEF Fresh, Low, High

(* In a bracket that is wide enough for the slack the probes keep their order. *)
LEMMA InOrder ==
    ASSUME NEW l \in Int, NEW r \in Int, NEW p \in Int, NEW q \in Int, NEW n \in Nat, NEW W \in Nat,
           Probed(l, r, p, q, n, W), r - l >= 28, 161762 * (r - l) >= Slack(W, n)
    PROVE  l <= p /\ p < q /\ q <= r
<1> DEFINE w == r - l
<1>1. CASE Fresh(Low(l, r, p)) /\ Stale(High(l, r, q), w, W, n)
    <2>1. -200 * w <= High(l, r, q) /\ High(l, r, q) <= 200 * w
        BY <1>1, SMT DEF Stale, Slack, High
    <2> QED
        BY <1>1, <2>1 DEF Fresh, Low, High
<1>2. CASE Stale(Low(l, r, p), w, W, n) /\ Fresh(High(l, r, q))
    <2>1. -200 * w <= Low(l, r, p) /\ Low(l, r, p) <= 200 * w
        BY <1>2, SMT DEF Stale, Slack, Low
    <2> QED
        BY <1>2, <2>1 DEF Fresh, Low, High
<1> QED
    BY <1>1, <1>2 DEF Probed

(* The lower third dropped, the upper probe becomes the lower one. *)
LEMMA UpProbed ==
    ASSUME NEW l \in Int, NEW r \in Int, NEW p \in Int, NEW q \in Int, NEW n \in Nat, NEW W \in Nat,
           Probed(l, r, p, q, n, W), l <= p, p <= q, q <= r
    PROVE  Probed(p, r, q, UpperProbe(p, r), n + 1, W)
<1>1. Fresh(High(p, r, UpperProbe(p, r)))
    BY FreshProbes
<1>2. r - p <= W
    BY DEF Probed
<1>3. Stale(Low(p, r, q), r - p, W, n + 1)
    <2>1. CASE Fresh(Low(l, r, p)) /\ Stale(High(l, r, q), r - l, W, n)
        <3>1. 809 * Low(p, r, q) + 38 * (r - p)
                = -(809 * High(l, r, q) + 38 * (r - l)) - 500 * Low(l, r, p)
            BY SMT DEF Low, High
        <3> QED
            BY <2>1, <3>1, SMT DEF Stale, Fresh, Slack, Low, High
    <2>2. CASE Stale(Low(l, r, p), r - l, W, n) /\ Fresh(High(l, r, q))
        <3>1. 809 * (809 * Low(p, r, q) + 38 * (r - p))
                = -500 * (809 * Low(l, r, p) + 38 * (r - l)) - 11742 * (r - l) - 654481 * High(l, r, q)
            BY SMT DEF Low, High
        <3> QED
            BY <2>2, <3>1, SMT DEF Probed, Stale, Fresh, Slack, Low, High
    <2> QED
        BY <2>1, <2>2 DEF Probed
<1> QED
    BY <1>1, <1>2, <1>3 DEF Probed

(* The upper third dropped, the lower probe becomes the upper one. *)
LEMMA DownProbed ==
    ASSUME NEW l \in Int, NEW r \in Int, NEW p \in Int, NEW q \in Int, NEW n \in Nat, NEW W \in Nat,
           Probed(l, r, p, q, n, W), l <= p, p <= q, q <= r
    PROVE  Probed(l, q, LowerProbe(l, q), p, n + 1, W)
<1>1. Fresh(Low(l, q, LowerProbe(l, q)))
    BY FreshProbes
<1>2. q - l <= W
    BY DEF Probed
<1>3. Stale(High(l, q, p), q - l, W, n + 1)
    <2>1. CASE Stale(Low(l, r, p), r - l, W, n) /\ Fresh(High(l, r, q))
        <3>1. 809 * High(l, q, p) + 38 * (q - l)
                = -(809 * Low(l, r, p) + 38 * (r - l)) - 500 * High(l, r, q)
            BY SMT DEF Low, High
        <3> QED
            BY <2>1, <3>1, SMT DEF Stale, Fresh, Slack, Low, High
    <2>2. CASE Fresh(Low(l, r, p)) /\ Stale(High(l, r, q), r - l, W, n)
        <3>1. 809 * (809 * High(l, q, p) + 38 * (q - l))
                = -500 * (809 * High(l, r, q) + 38 * (r - l)) - 11742 * (r - l) - 654481 * Low(l, r, p)
            BY SMT DEF Low, High
        <3> QED
            BY <2>2, <3>1, SMT DEF Probed, Stale, Fresh, Slack, Low, High
    <2> QED
        BY <2>1, <2>2 DEF Probed
<1> QED
    BY <1>1, <1>2, <1>3 DEF Probed

(* The table of least widths. *)
LEMMA Shrinks ==
    ASSUME NEW n \in Nat, n <= 13
    PROVE  /\ Shrunk[n + 1] \in Nat /\ Shrunk[n + 2] \in Nat
           /\ 809 * Shrunk[n + 2] <= 500 * Shrunk[n + 1] - 3800
BY SMT DEF Shrunk

(* No third that is dropped is too large. *)
LEMMA Widths ==
    ASSUME NEW l \in Int, NEW r \in Int, NEW p \in Int, NEW q \in Int, NEW n \in Nat, NEW W \in Nat, n <= 13,
           Probed(l, r, p, q, n, W), Wide(r - l, W, n)
    PROVE  Wide(r - p, W, n + 1) /\ Wide(q - l, W, n + 1)
<1> DEFINE w == r - l
           s == Shrunk[n + 1]
           t == Shrunk[n + 2]
<1>1. 809 * Low(l, r, p) + 38 * w <= Slack(W, n) /\ 809 * High(l, r, q) + 38 * w <= Slack(W, n)
    BY SMT DEF Probed, Stale, Fresh, Low, High, Slack
<1>2. 809000 * (r - p) >= 500000 * w - Slack(W, n) /\ 809000 * (q - l) >= 500000 * w - Slack(W, n)
    BY <1>1, SMT DEF Low, High, Slack
<1>3. s \in Nat /\ t \in Nat /\ 809 * t <= 500 * s - 3800 /\ Shrunk[(n + 1) + 1] = t
    BY Shrinks
<1> HIDE DEF s, t
<1>4. 809 * (t * W) <= 500 * (s * W) - 3800 * W
    <2>1. (809 * t) * W <= (500 * s - 3800) * W
        BY <1>3, SMT
    <2>2. (809 * t) * W = 809 * (t * W) /\ (500 * s - 3800) * W = 500 * (s * W) - 3800 * W
        BY <1>3, SMT
    <2> QED
        BY <2>1, <2>2
<1>5. 100000 * w >= s * W - 2700000
    BY SMT DEF Wide, s
<1>6. ASSUME NEW v \in Int, 809000 * v >= 500000 * w - Slack(W, n)
      PROVE  Wide(v, W, n + 1)
    <2>1. t * W \in Int /\ s * W \in Int
        BY <1>3
    <2>2. 100000 * v >= t * W - 2700000
        BY <1>4, <1>5, <1>6, <2>1, SMT DEF Slack
    <2> QED
        BY <1>3, <2>2, SMT DEF Wide
<1>7. r - p \in Int /\ q - l \in Int
    OBVIOUS
<1> QED
    BY <1>2, <1>6, <1>7, SMT

(* Ample width leaves more room between the probes than their slack. *)
LEMMA Roomy ==
    ASSUME NEW n \in Nat, NEW w \in Nat, NEW W \in Nat, n <= 13, w <= W, Wide(w, W, n),
           Ample(w, W, n)
    PROVE  w >= 28 /\ 161762 * w >= Slack(W, n)
<1> DEFINE s == Shrunk[n + 1]
<1>1. s \in Nat /\ s >= 178 /\ (n <= 11 => s >= 489)
    BY SMT DEF Shrunk
<1> HIDE DEF s
<1>2. s * W \in Int /\ s * W >= 178 * W /\ (n <= 11 => s * W >= 489 * W)
    BY <1>1, SMT
<1>3. 100000 * w >= s * W - 2700000
    BY SMT DEF Wide, s
<1> QED
    BY <1>2, <1>3, SMT DEF Slack, Ample

(* The first probes. *)
LEMMA FirstProbes ==
    ASSUME NEW l \in Int, NEW r \in Int, l < r
    PROVE  /\ Probed(l, r, LowerProbe(l, r), UpperProbe(l, r), 0, r - l)
           /\ Wide(r - l, r - l, 0)
<1>1. /\ LowerProbe(l, r) \in Int /\ UpperProbe(l, r) \in Int
      /\ Fresh(Low(l, r, LowerProbe(l, r))) /\ Fresh(High(l, r, UpperProbe(l, r)))
    BY FreshProbes
<1>2. Stale(High(l, r, UpperProbe(l, r)), r - l, r - l, 0)
    BY <1>1, SMT DEF Fresh, Stale, Slack, High
<1>3. Shrunk[0 + 1] = 100000
    BY SMT DEF Shrunk
<1>4. Wide(r - l, r - l, 0)
    BY <1>3, SMT DEF Wide
<1>5. r - l <= r - l
    OBVIOUS
<1> QED
    BY <1>1, <1>2, <1>4, <1>5, Zenon DEF Probed

(* One iteration: the probes lie in the bracket in order, and so do those of the bracket *)
(* that is left, on either side.                                                        *)
LEMMA NextProbes ==
    ASSUME NEW l \in Int, NEW r \in Int, NEW p \in Int, NEW q \in Int, NEW n \in Nat, NEW W \in Nat, n <= 13,
           Probed(l, r, p, q, n, W), Wide(r - l, W, n), l <= r,
           Ample(r - l, W, n)
    PROVE  /\ l <= p /\ p < q /\ q <= r
           /\ Probed(p, r, q, UpperProbe(p, r), n + 1, W) /\ Wide(r - p, W, n + 1)
           /\ Probed(l, q, LowerProbe(l, q), p, n + 1, W) /\ Wide(q - l, W, n + 1)
<1>1. r - l \in Nat /\ r - l <= W /\ n \in Nat
    BY DEF Probed
<1>2. r - l >= 28 /\ 161762 * (r - l) >= Slack(W, n)
    BY <1>1, Roomy
<1>3. l <= p /\ p < q /\ q <= r
    BY <1>1, <1>2, InOrder
<1>4. p <= q
    BY <1>3
<1>5. Probed(p, r, q, UpperProbe(p, r), n + 1, W)
    BY <1>1, <1>3, <1>4, UpProbed
<1>6. Probed(l, q, LowerProbe(l, q), p, n + 1, W)
    BY <1>1, <1>3, <1>4, DownProbed
<1>7. Wide(r - p, W, n + 1) /\ Wide(q - l, W, n + 1)
    BY Widths
<1> QED
    BY <1>3, <1>5, <1>6, <1>7

(* The table of greatest widths. *)
LEMMA Closes ==
    ASSUME NEW n \in Nat, n <= 13
    PROVE  /\ Closing[n + 1] \in Nat /\ Closing[n + 2] \in Nat
           /\ 500 * Closing[n + 1] + 3800 <= 809 * Closing[n + 2]
BY SMT DEF Closing

(* No third that is dropped is too small. *)
LEMMA NearProbes ==
    ASSUME NEW l \in Int, NEW r \in Int, NEW p \in Int, NEW q \in Int, NEW n \in Nat, NEW W \in Nat, n <= 13,
           l <= r, Probed(l, r, p, q, n, W), Near(r - l, W, n)
    PROVE  Near(r - p, W, n + 1) /\ Near(q - l, W, n + 1)
<1> DEFINE w == r - l
           s == Closing[n + 1]
           t == Closing[n + 2]
<1>1. 809 * Low(l, r, p) + 38 * w >= -Slack(W, n) /\ 809 * High(l, r, q) + 38 * w >= -Slack(W, n)
    BY SMT DEF Probed, Stale, Fresh, Low, High, Slack
<1>2. 809000 * (r - p) <= 500000 * w + Slack(W, n) /\ 809000 * (q - l) <= 500000 * w + Slack(W, n)
    BY <1>1, SMT DEF Low, High, Slack
<1>3. s \in Nat /\ t \in Nat /\ 500 * s + 3800 <= 809 * t /\ Closing[(n + 1) + 1] = t
    BY Closes
<1> HIDE DEF s, t
<1>4. 500 * (s * W) + 3800 * W <= 809 * (t * W)
    <2>1. (500 * s + 3800) * W <= (809 * t) * W
        BY <1>3, SMT
    <2>2. (809 * t) * W = 809 * (t * W) /\ (500 * s + 3800) * W = 500 * (s * W) + 3800 * W
        BY <1>3, SMT
    <2> QED
        BY <2>1, <2>2
<1>5. 100000 * w <= s * W + 2700000
    BY SMT DEF Near, s
<1>6. ASSUME NEW v \in Int, 809000 * v <= 500000 * w + Slack(W, n)
      PROVE  Near(v, W, n + 1)
    <2>1. t * W \in Int /\ s * W \in Int
        BY <1>3
    <2>2. 100000 * v <= t * W + 2700000
        BY <1>4, <1>5, <1>6, <2>1, SMT DEF Slack
    <2> QED
        BY <1>3, <2>2, SMT DEF Near
<1>7. r - p \in Int /\ q - l \in Int
    OBVIOUS
<1> QED
    BY <1>2, <1>6, <1>7, SMT

(* The first width. *)
LEMMA FirstNear ==
    ASSUME NEW w \in Nat
    PROVE  Near(w, w, 0)
<1>1. Closing[0 + 1] = 100000
    BY SMT DEF Closing
<1> QED
    BY <1>1, SMT DEF Near

-----------------------------------------------------------------------------
(* A grid fine enough for the golden section: a hundred points in the tolerance at  *)
(* the smallest trade, and between a first bracket's ends.                          *)
FineGrid ==
    /\ MinInput >= 100 * RelTol /\ MaxInput >= MinInput + 100 /\ GoldenIters <= 12
    /\ \A s \in Starts : s = MinInput \/ s >= MinInput + 100

(* Curves with one hump: the profit rises up to the peak, and is one from the first *)
(* input on if it rises at all; it does not rise again behind it.                     *)
HumpedCurves ==
    \A c \in Curves :
        /\ Peak(c) \in MinInput .. MaxInput
        /\ \A x, y \in MinInput .. Peak(c) : x < y => Value(c, x) < Value(c, y)
        /\ \A x, y \in Peak(c) .. MaxInput : x <= y => Value(c, y) <= Value(c, x)
        /\ \A x \in MinInput .. Peak(c) : x < Peak(c) => Value(c, x) > 0

(* Where the bracket and the golden section are, and why they are there. *)
BracketInv ==
    /\ MinInput <= lo /\ lo <= mid /\ mid <= hi /\ hi <= MaxInput /\ lo <= Peak(curve)
    /\ iter \in Nat /\ iter <= GoldenIters
    /\ pc \in {"probe", "grow"} => iter = 0
    /\ pc = "probe" => lo = MinInput /\ mid \in Starts /\ hi = mid
    /\ pc = "grow" => mid < hi /\ hi = Grown(mid) /\ hi - lo >= 100
GoldenInv ==
    /\ pc \in {"golden", "done"} => lo <= left /\ left <= right /\ right <= hi /\ left \in seen
    /\ pc = "golden" =>
          /\ x1 \in seen /\ x2 \in seen /\ right - left >= 100
          /\ Probed(left, right, x1, x2, iter, hi - lo) /\ Wide(right - left, hi - lo, iter)
PeakInv == SearchInv /\ BracketInv /\ GoldenInv /\ PeakInBracket

(* A bracket that is not narrow yet has a hundred points. *)
LEMMA NotNarrow ==
    ASSUME FineGrid, NEW l \in Int, NEW r \in Int, l <= r, ~Narrow(l, r)
    PROVE  r - l >= 100
<1> DEFINE w == r - l
<1>1. w \in Nat /\ RelTol \in Nat \ {0} /\ MinInput \in Nat
    BY SearchAssumption
<1>2. 2 * RelTol * w > 2 * MinInput
    BY <1>1, SearchAssumption DEF Narrow
<1>3. 2 * RelTol * w = 2 * (RelTol * w)
    BY <1>1
<1>4. RelTol * w \in Int
    BY <1>1
<1>5. RelTol * w > 100 * RelTol
    BY <1>1, <1>2, <1>3, <1>4 DEF FineGrid
<1> HIDE DEF w
<1>6. w > 100
    <2>1. SUFFICES ASSUME w <= 100 PROVE FALSE
        BY <1>1
    <2>2. RelTol * w <= RelTol * 100
        BY <1>1, <2>1
    <2> QED
        BY <1>1, <1>4, <1>5, <2>2
<1> QED
    BY <1>1, <1>6 DEF w

(* The peak of a curve with one hump lies below an input that is worth no more than a *)
(* smaller one, and above one that is worth less than a larger one.                    *)
LEMMA HumpTells ==
    ASSUME IntegerCurves, HumpedCurves, curve \in Curves,
           NEW x \in MinInput .. MaxInput, NEW y \in MinInput .. MaxInput, x < y
    PROVE  /\ V(x) >= V(y) => Peak(curve) <= y
           /\ V(x) < V(y) => x <= Peak(curve)
<1>1. Peak(curve) \in MinInput .. MaxInput /\ V(x) \in Int /\ V(y) \in Int
    BY DEF HumpedCurves, IntegerCurves, V
<1>2. ASSUME y < Peak(curve) PROVE V(x) < V(y)
    <2>1. x \in MinInput .. Peak(curve) /\ y \in MinInput .. Peak(curve)
        BY <1>1, <1>2, SearchAssumption
    <2> QED
        BY <2>1 DEF HumpedCurves, V
<1>3. ASSUME Peak(curve) < x PROVE V(y) <= V(x)
    <2>1. x \in Peak(curve) .. MaxInput /\ y \in Peak(curve) .. MaxInput /\ x <= y
        BY <1>1, <1>3, SearchAssumption
    <2> QED
        BY <2>1 DEF HumpedCurves, V
<1> QED
    BY <1>1, <1>2, <1>3, SearchAssumption

(* What the first four quotes of the golden section leave. *)
LEMMA OpenBrackets ==
    ASSUME NEW l \in Int, NEW r \in Int, Open(l, r), r - l >= 100 \/ r = l,
           iter = 0
    PROVE  /\ left' = l /\ right' = r /\ l <= r /\ iter' = 0
           /\ left' \in seen' /\ x1' \in seen' /\ x2' \in seen'
           /\ pc' = "golden" =>
                 r - l >= 100 /\ Probed(l, r, x1', x2', 0, r - l) /\ Wide(r - l, r - l, 0)
<1>1. CASE r = l
    BY <1>1 DEF Open, OpenAt
<1>2. CASE r - l >= 100
    <2>1. l < r /\ ~(r <= l)
        BY <1>2
    <2>2. /\ left' = l /\ right' = r /\ iter' = iter
          /\ x1' = LowerProbe(l, r) /\ x2' = UpperProbe(l, r) /\ seen' = {l, r, x1', x2'}
        BY <2>1 DEF Open
    <2> QED
        BY <1>2, <2>1, <2>2, FirstProbes
<1> QED
    BY <1>1, <1>2

(* The search starts below the peak, if not at it. *)
LEMMA PeakStarts == IntegerCurves /\ HumpedCurves /\ FineGrid /\ Init => PeakInv
<1> SUFFICES ASSUME HumpedCurves, FineGrid, Init PROVE PeakInv
    OBVIOUS
<1>1. SearchInv
    BY SearchStarts
<1>2. lo <= Peak(curve)
    BY SearchAssumption DEF Init, HumpedCurves
<1> QED
    BY <1>1, <1>2, SearchAssumption DEF Init, PeakInv, BracketInv, GoldenInv, PeakInBracket

(* Every step keeps the peak in the bracket. *)
LEMMA PeakStep ==
    IntegerCurves /\ HumpedCurves /\ FineGrid /\ PeakInv /\ [Next]_vars => PeakInv'
<1> SUFFICES ASSUME IntegerCurves, HumpedCurves, FineGrid, PeakInv, [Next]_vars PROVE PeakInv'
    OBVIOUS
<1> USE SearchAssumption
<1>0. /\ SearchInv /\ BracketInv /\ GoldenInv /\ PeakInBracket /\ SearchInv'
      /\ curve \in Curves /\ lo \in Int /\ mid \in Int /\ hi \in Int
      /\ left \in Int /\ right \in Int /\ x1 \in Int /\ x2 \in Int /\ iter \in Nat
      /\ Peak(curve) \in MinInput .. MaxInput
    BY SearchStep DEF PeakInv, SearchInv, BracketInv, HumpedCurves
<1>1. CASE Probe
    <2>1. CASE V(mid) <= 0 \/ Grown(mid) <= mid
        <3>1. /\ Open(lo, mid) /\ UNCHANGED <<curve, lo, mid, hi, steps>>
              /\ pc = "probe" /\ lo = MinInput /\ mid \in Starts /\ hi = mid /\ iter = 0
            BY <1>0, <1>1, <2>1 DEF Probe, BracketInv
        <3>2. mid - lo >= 100 \/ mid = lo
            BY <1>0, <3>1 DEF FineGrid
        <3>3. /\ left' = lo /\ right' = mid /\ lo <= mid /\ iter' = 0
              /\ left' \in seen' /\ x1' \in seen' /\ x2' \in seen'
              /\ pc' = "golden" =>
                    mid - lo >= 100 /\ Probed(lo, mid, x1', x2', 0, mid - lo) /\ Wide(mid - lo, mid - lo, 0)
            BY <1>0, <3>1, <3>2, OpenBrackets
        <3>4. Peak(curve) <= mid
            <4>1. CASE V(mid) <= 0
                <5>1. V(mid) \in Int /\ mid \in MinInput .. MaxInput
                    BY <1>0, <3>1 DEF IntegerCurves, V
                <5>2. SUFFICES ASSUME mid < Peak(curve) PROVE FALSE
                    BY <1>0
                <5>3. mid \in MinInput .. Peak(curve)
                    BY <1>0, <5>1, <5>2
                <5> QED
                    BY <1>0, <4>1, <5>1, <5>2, <5>3 DEF HumpedCurves, V
            <4>2. CASE Grown(mid) <= mid
                BY <1>0, <3>1, <4>2 DEF Grown
            <4> QED
                BY <2>1, <4>1, <4>2
        <3>5. pc' \in {"golden", "done"}
            BY <3>1 DEF Open, OpenAt
        <3> QED
            BY <1>0, <3>1, <3>3, <3>4, <3>5 DEF PeakInv, BracketInv, GoldenInv, PeakInBracket
    <2>2. CASE ~(V(mid) <= 0 \/ Grown(mid) <= mid)
        <3>1. /\ hi' = Grown(mid) /\ pc' = "grow"
              /\ UNCHANGED <<curve, lo, mid, steps, left, right, x1, x2, iter, best_x, seen>>
              /\ lo = MinInput /\ mid \in Starts /\ hi = mid /\ iter = 0
            BY <1>0, <1>1, <2>2 DEF Probe, BracketInv
        <3>2. mid < Grown(mid) /\ Grown(mid) <= MaxInput /\ Grown(mid) - lo >= 100
            BY <1>0, <2>2, <3>1 DEF Grown, FineGrid
        <3> QED
            BY <1>0, <3>1, <3>2 DEF PeakInv, BracketInv, GoldenInv, PeakInBracket, Grown
    <2> QED
        BY <2>1, <2>2
<1>2. CASE Grow
    <2>1. /\ pc = "grow" /\ V(hi) > V(mid) /\ hi < MaxInput /\ mid < hi /\ hi = Grown(mid) /\ iter = 0
          /\ lo' = mid /\ mid' = hi /\ hi' = Grown(hi) /\ MinInput <= mid
          /\ UNCHANGED <<curve, pc, left, right, x1, x2, iter, best_x, seen>>
        BY <1>0, <1>2 DEF Grow, BracketInv
    <2>2. mid <= Peak(curve)
        <3>1. V(mid) \in Int /\ V(hi) \in Int
            BY <1>0 DEF IntegerCurves, V
        <3> QED
            BY <1>0, <2>1, <3>1, HumpTells
    <2>3. hi = 2 * mid /\ mid >= 100 * RelTol /\ RelTol >= 1
        BY <1>0, <2>1 DEF Grown, FineGrid
    <2>4. hi < Grown(hi) /\ Grown(hi) <= MaxInput /\ Grown(hi) - mid >= 100
        BY <1>0, <2>1, <2>3 DEF Grown
    <2> QED
        BY <1>0, <2>1, <2>2, <2>4 DEF PeakInv, BracketInv, GoldenInv, PeakInBracket, Grown
<1>3. CASE Bracketed
    <2>1. /\ Open(lo, hi) /\ UNCHANGED <<curve, lo, mid, hi, steps>> /\ pc = "grow" /\ iter = 0
          /\ mid < hi /\ hi - lo >= 100 /\ lo <= Peak(curve)
          /\ steps = BracketSteps \/ V(hi) <= V(mid) \/ hi >= MaxInput
        BY <1>0, <1>3 DEF Bracketed, BracketInv
    <2>2. /\ left' = lo /\ right' = hi /\ lo <= hi /\ iter' = 0
          /\ left' \in seen' /\ x1' \in seen' /\ x2' \in seen'
          /\ pc' = "golden" =>
                hi - lo >= 100 /\ Probed(lo, hi, x1', x2', 0, hi - lo) /\ Wide(hi - lo, hi - lo, 0)
        BY <1>0, <2>1, OpenBrackets
    <2>3. ~Capped => Peak(curve) <= hi
        <3>1. V(mid) \in Int /\ V(hi) \in Int /\ mid \in MinInput .. MaxInput /\ hi \in MinInput .. MaxInput
            BY <1>0 DEF IntegerCurves, V, BracketInv
        <3>2. CASE V(hi) <= V(mid)
            BY <1>0, <2>1, <3>1, <3>2, HumpTells
        <3>3. CASE hi >= MaxInput
            BY <1>0, <3>1, <3>3
        <3> QED
            BY <2>1, <3>1, <3>2, <3>3 DEF Capped
    <2>4. Capped' <=> Capped
        BY <2>1 DEF Capped, V
    <2>5. pc' \in {"golden", "done"}
        BY <2>1 DEF Open, OpenAt
    <2> QED
        BY <1>0, <2>1, <2>2, <2>3, <2>4, <2>5 DEF PeakInv, BracketInv, GoldenInv, PeakInBracket
<1>4. ASSUME pc = "golden", iter < GoldenIters, UNCHANGED <<curve, lo, mid, hi, steps>>
      PROVE  /\ left <= x1 /\ x1 < x2 /\ x2 <= right /\ lo <= left /\ right <= hi
             /\ x1 \in seen /\ x2 \in seen /\ left \in seen
             /\ x1 \in MinInput .. MaxInput /\ x2 \in MinInput .. MaxInput
             /\ Probed(x1, right, x2, UpperProbe(x1, right), iter + 1, hi - lo)
             /\ Wide(right - x1, hi - lo, iter + 1)
             /\ Probed(left, x2, LowerProbe(left, x2), x1, iter + 1, hi - lo)
             /\ Wide(x2 - left, hi - lo, iter + 1)
             /\ iter + 1 \in Nat /\ iter + 1 <= GoldenIters
             /\ Capped' <=> Capped
             /\ V(x1) < V(x2) => x1 <= Peak(curve)
             /\ V(x1) >= V(x2) => Peak(curve) <= x2
             /\ ~Capped => left <= Peak(curve) /\ Peak(curve) <= right
    <2>1. /\ Probed(left, right, x1, x2, iter, hi - lo) /\ Wide(right - left, hi - lo, iter)
          /\ right - left >= 100 /\ left <= right /\ lo <= left /\ right <= hi
          /\ x1 \in seen /\ x2 \in seen /\ left \in seen /\ MinInput <= lo /\ hi <= MaxInput
          /\ ~Capped => left <= Peak(curve) /\ Peak(curve) <= right
        BY <1>0, <1>4 DEF GoldenInv, BracketInv, PeakInBracket
    <2>2. hi - lo \in Nat /\ iter <= 11 /\ iter <= 13
        BY <1>0, <1>4, <2>1 DEF FineGrid
    <2>3. /\ left <= x1 /\ x1 < x2 /\ x2 <= right
          /\ Probed(x1, right, x2, UpperProbe(x1, right), iter + 1, hi - lo)
          /\ Wide(right - x1, hi - lo, iter + 1)
          /\ Probed(left, x2, LowerProbe(left, x2), x1, iter + 1, hi - lo)
          /\ Wide(x2 - left, hi - lo, iter + 1)
        <3>1. /\ left \in Int /\ right \in Int /\ x1 \in Int /\ x2 \in Int
              /\ iter \in Nat /\ hi - lo \in Nat /\ iter <= 13 /\ left <= right
              /\ Probed(left, right, x1, x2, iter, hi - lo) /\ Wide(right - left, hi - lo, iter)
            BY <1>0, <2>1, <2>2
        <3>2. Ample(right - left, hi - lo, iter)
            BY <2>1, <2>2, SMT DEF Ample
        <3> QED
            BY <3>1, <3>2, NextProbes
    <2>4. x1 \in MinInput .. MaxInput /\ x2 \in MinInput .. MaxInput
        BY <1>0, <2>1, <2>3
    <2>5. /\ V(x1) < V(x2) => x1 <= Peak(curve)
          /\ V(x1) >= V(x2) => Peak(curve) <= x2
        BY <1>0, <2>3, <2>4, HumpTells
    <2>6. Capped' <=> Capped
        BY <1>4 DEF Capped, V
    <2>7. iter + 1 \in Nat /\ iter + 1 <= GoldenIters
        BY <1>0, <1>4
    <2> QED
        BY <2>1, <2>3, <2>4, <2>5, <2>6, <2>7
<1>5. CASE StepUp
    <2>1. /\ pc = "golden" /\ iter < GoldenIters /\ V(x1) < V(x2)
          /\ left' = x1 /\ x1' = x2 /\ x2' = UpperProbe(x1, right) /\ seen' = seen \cup {x2'}
          /\ iter' = iter + 1 /\ pc' = (IF Narrow(left', right) THEN "done" ELSE "golden")
          /\ UNCHANGED <<curve, lo, mid, hi, steps, right>>
        BY <1>5 DEF StepUp
    <2>2. left' <= right' /\ (pc' = "golden" => right' - left' >= 100)
        BY <1>0, <1>4, <2>1, NotNarrow
    <2>3. GoldenInv'
        <3>1. lo' <= left' /\ right' <= hi' /\ left' \in seen' /\ x1' \in seen' /\ x2' \in seen'
            BY <1>0, <1>4, <2>1
        <3>2. /\ Probed(left', right', x1', x2', iter', hi' - lo')
              /\ Wide(right' - left', hi' - lo', iter')
            BY <1>4, <2>1
        <3> QED
            BY <2>2, <3>1, <3>2, Zenon DEF GoldenInv
    <2>4. PeakInBracket'
        BY <1>4, <2>1 DEF PeakInBracket
    <2>5. BracketInv'
        BY <1>0, <1>4, <2>1 DEF BracketInv
    <2> QED
        BY <1>0, <2>3, <2>4, <2>5 DEF PeakInv
<1>6. CASE StepDown
    <2>1. /\ pc = "golden" /\ iter < GoldenIters /\ V(x1) >= V(x2)
          /\ right' = x2 /\ x2' = x1 /\ x1' = LowerProbe(left, x2) /\ seen' = seen \cup {x1'}
          /\ iter' = iter + 1 /\ pc' = (IF Narrow(left, right') THEN "done" ELSE "golden")
          /\ UNCHANGED <<curve, lo, mid, hi, steps, left>>
        BY <1>6 DEF StepDown
    <2>2. left' <= right' /\ (pc' = "golden" => right' - left' >= 100)
        BY <1>0, <1>4, <2>1, NotNarrow
    <2>3. right' <= hi'
        BY <1>0, <1>4, <2>1
    <2>4. GoldenInv'
        BY <1>4, <2>1, <2>2, <2>3 DEF GoldenInv
    <2>5. PeakInBracket'
        BY <1>4, <2>1 DEF PeakInBracket
    <2>6. BracketInv'
        BY <1>0, <1>4, <2>1 DEF BracketInv
    <2> QED
        BY <1>0, <2>4, <2>5, <2>6 DEF PeakInv
<1>7. CASE GiveUp
    BY <1>0, <1>7 DEF GiveUp, PeakInv, BracketInv, GoldenInv, PeakInBracket, Capped, V
<1>8. CASE UNCHANGED vars
    BY <1>0, <1>8 DEF vars, PeakInv, BracketInv, GoldenInv, PeakInBracket, Capped, V, Grown
<1> QED
    BY <1>1, <1>2, <1>3, <1>5, <1>6, <1>7, <1>8 DEF Next, Finished

(* On a curve with one hump, which concave curves have, the search of the arbitrageur      *)
(* never cuts off the most profitable size once its bracket reaches it: reusing a probe    *)
(* and rounding the other one cost less than the distance between the two, at every one    *)
(* of the at most twelve iterations of the code.                                          *)
THEOREM ArbKeepsThePeak ==
    IntegerCurves /\ HumpedCurves /\ FineGrid => (Spec => []PeakInBracket)
<1> SUFFICES ASSUME IntegerCurves, HumpedCurves, FineGrid PROVE Spec => []PeakInBracket
    OBVIOUS
<1>1. Init => PeakInv
    BY PeakStarts
<1>2. PeakInv /\ [Next]_vars => PeakInv'
    BY PeakStep
<1>3. PeakInv => PeakInBracket
    BY DEF PeakInv
<1> QED
    BY <1>1, <1>2, <1>3, PTL DEF Spec

-----------------------------------------------------------------------------
(* Concave curves through the origin, Peak the first of their highest inputs. *)
ConcaveCurves ==
    \A c \in Curves :
        /\ Value(c, 0) = 0 /\ Peak(c) \in MinInput .. MaxInput
        /\ \A x, y, z \in 0 .. MaxInput : x < y /\ y < z =>
              (Value(c, y) - Value(c, x)) * (z - y) >= (Value(c, z) - Value(c, y)) * (y - x)
        /\ \A x \in MinInput .. MaxInput : Value(c, x) <= Value(c, Peak(c))
        /\ \A x \in MinInput .. Peak(c) : x < Peak(c) => Value(c, x) < Value(c, Peak(c))

(* An input below the peak takes its share of the profit there. *)
TakesItsShare ==
    \A c \in Curves : \A x \in MinInput .. Peak(c) : Value(c, x) * Peak(c) >= Value(c, Peak(c)) * x

(* Of two slopes the steeper one is positive if the other one is. *)
LEMMA RatioSign ==
    ASSUME NEW a \in Int, NEW b \in Int, NEW m \in Nat \ {0}, NEW n \in Nat \ {0}, a * m >= b * n
    PROVE  (b > 0 => a > 0) /\ (a <= 0 => b <= 0)
<1>1. ASSUME b > 0, a <= 0 PROVE FALSE
    <2>1. b * n > 0
        BY <1>1, SMT
    <2>2. a * m <= 0
        BY <1>1, SMT
    <2>3. a * m \in Int /\ b * n \in Int
        OBVIOUS
    <2> QED
        BY <2>1, <2>2, <2>3
<1> QED
    BY <1>1

(* Concave curves have one hump. *)
LEMMA ConcaveIsHumped == IntegerCurves /\ ConcaveCurves => HumpedCurves /\ TakesItsShare
<1> SUFFICES ASSUME IntegerCurves, ConcaveCurves, NEW c \in Curves
             PROVE  /\ Peak(c) \in MinInput .. MaxInput
                    /\ \A x, y \in MinInput .. Peak(c) : x < y => Value(c, x) < Value(c, y)
                    /\ \A x, y \in Peak(c) .. MaxInput : x <= y => Value(c, y) <= Value(c, x)
                    /\ \A x \in MinInput .. Peak(c) : x < Peak(c) => Value(c, x) > 0
                    /\ \A x \in MinInput .. Peak(c) : Value(c, x) * Peak(c) >= Value(c, Peak(c)) * x
    BY DEF HumpedCurves, TakesItsShare
<1> DEFINE v(x) == Value(c, x)
           top == Peak(c)
<1>0. /\ MinInput \in Nat \ {0} /\ MaxInput \in Nat /\ top \in MinInput .. MaxInput
      /\ \A x \in Int : v(x) \in Int
      /\ v(0) = 0
      /\ \A x, y, z \in 0 .. MaxInput : x < y /\ y < z => (v(y) - v(x)) * (z - y) >= (v(z) - v(y)) * (y - x)
      /\ \A x \in MinInput .. MaxInput : v(x) <= v(top)
      /\ \A x \in MinInput .. top : x < top => v(x) < v(top)
    BY SearchAssumption DEF IntegerCurves, ConcaveCurves
<1> HIDE DEF v, top
<1>1. ASSUME NEW x \in MinInput .. top, NEW y \in MinInput .. top, x < y
      PROVE  v(x) < v(y)
    <2>1. CASE y = top
        BY <1>0, <1>1, <2>1
    <2>2. CASE y < top
        <3>1. (v(y) - v(x)) * (top - y) >= (v(top) - v(y)) * (y - x)
            BY <1>0, <1>1, <2>2
        <3>2. v(x) \in Int /\ v(y) \in Int /\ v(top) \in Int /\ v(y) < v(top)
            BY <1>0, <2>2
        <3>3. /\ v(y) - v(x) \in Int /\ v(top) - v(y) \in Int /\ v(top) - v(y) > 0
              /\ top - y \in Nat \ {0} /\ y - x \in Nat \ {0}
            BY <1>0, <1>1, <2>2, <3>2
        <3>4. v(y) - v(x) > 0
            BY <3>1, <3>3, RatioSign
        <3> QED
            BY <3>2, <3>4
    <2> QED
        BY <1>0, <2>1, <2>2
<1>2. ASSUME NEW x \in top .. MaxInput, NEW y \in top .. MaxInput, x <= y
      PROVE  v(y) <= v(x)
    <2>1. x \in MinInput .. MaxInput /\ y \in MinInput .. MaxInput
        BY <1>0
    <2>2. v(x) \in Int /\ v(y) \in Int /\ v(top) \in Int /\ v(y) <= v(top) /\ v(x) <= v(top)
        BY <1>0, <2>1
    <2>3. CASE x = y \/ x = top
        BY <2>2, <2>3
    <2>4. CASE x # y /\ x # top
        <3>1. (v(x) - v(top)) * (y - x) >= (v(y) - v(x)) * (x - top)
            BY <1>0, <1>2, <2>4
        <3>2. /\ v(x) - v(top) \in Int /\ v(x) - v(top) <= 0 /\ v(y) - v(x) \in Int
              /\ y - x \in Nat \ {0} /\ x - top \in Nat \ {0}
            BY <1>0, <1>2, <2>2, <2>4
        <3>3. v(y) - v(x) <= 0
            BY <3>1, <3>2, RatioSign
        <3> QED
            BY <2>2, <3>3
    <2> QED
        BY <2>3, <2>4
<1>3. ASSUME NEW x \in MinInput .. top, x < top
      PROVE  v(x) > 0 /\ v(x) * top >= v(top) * x
    <2>1. (v(x) - v(0)) * (top - x) >= (v(top) - v(x)) * (x - 0)
        BY <1>0, <1>3
    <2>2. v(x) \in Int /\ v(top) \in Int /\ v(x) < v(top) /\ x \in Nat \ {0} /\ top \in Nat \ {0}
        BY <1>0, <1>3
    <2>3. v(x) * (top - x) >= (v(top) - v(x)) * x
        BY <1>0, <2>1, <2>2
    <2>4. v(x) > 0
        <3>1. top - x \in Nat \ {0} /\ v(top) - v(x) \in Int /\ v(top) - v(x) > 0
            BY <1>0, <1>3, <2>2
        <3> QED
            BY <2>2, <2>3, <3>1, RatioSign
    <2>5. v(x) * (top - x) = v(x) * top - v(x) * x /\ (v(top) - v(x)) * x = v(top) * x - v(x) * x
        BY <2>2
    <2>6. v(x) * top \in Int /\ v(x) * x \in Int /\ v(top) * x \in Int
        BY <2>2
    <2> QED
        BY <2>3, <2>4, <2>5, <2>6
<1>4. ASSUME NEW x \in MinInput .. top
      PROVE  v(x) * top >= v(top) * x
    <2>1. CASE x = top
        <3>1. v(top) * top \in Int
            BY <1>0
        <3> QED
            BY <2>1, <3>1
    <2>2. CASE x # top
        BY <1>0, <1>3, <2>2
    <2> QED
        BY <2>1, <2>2
<1> QED
    BY <1>0, <1>1, <1>2, <1>3, <1>4 DEF v, top

(* What the golden section leaves after the bracket moved up. *)
SizedInv ==
    /\ PeakInv
    /\ steps \in Nat
    /\ pc = "probe" => steps = 0
    /\ pc = "grow" /\ steps > 0 => mid <= 2 * lo
    /\ pc \in {"golden", "done"} /\ steps > 0 => hi <= 4 * lo
    /\ pc = "golden" /\ steps > 0 => Near(right - left, hi - lo, iter)
    /\ pc = "done" /\ steps > 0 => Narrow(left, right)

(* The constants of the code, on a grid fine enough for the rounded probes to count for *)
(* less than the iterations have to spare.                                             *)
FinerGrid == FineGrid /\ GoldenIters = 12 /\ RelTol = 100 /\ MinInput >= 82000

(* No bracket moved up yet. *)
LEMMA SizedStarts == IntegerCurves /\ HumpedCurves /\ FineGrid /\ Init => SizedInv
BY PeakStarts DEF Init, SizedInv

(* Twelve iterations are enough for the tolerance. *)
LEMMA TwelveSuffice ==
    ASSUME FinerGrid, NEW l \in Int, NEW r \in Int, NEW b \in Int, NEW e \in Int,
           MinInput <= b, b <= l, l <= r, b <= e, e <= 4 * b, Near(r - l, e - b, 12)
    PROVE  Narrow(l, r)
<1>1. Closing[12 + 1] = 324
    BY SMT DEF Closing
<1>2. 100000 * (r - l) <= 324 * (e - b) + 2700000
    BY <1>1, SMT DEF Near
<1>3. MinInput \in Nat /\ MinInput >= 82000 /\ RelTol = 100
    BY SearchAssumption, SMT DEF FinerGrid
<1>4. 2 * 100 * (r - l) <= l + r
    BY <1>2, <1>3, SMT
<1> QED
    BY <1>3, <1>4, SMT DEF Narrow

(* Every step keeps the bracket as narrow as its iterations say. *)
LEMMA SizedStep ==
    IntegerCurves /\ HumpedCurves /\ FinerGrid /\ SizedInv /\ [Next]_vars => SizedInv'
<1> SUFFICES ASSUME IntegerCurves, HumpedCurves, FinerGrid, SizedInv, [Next]_vars PROVE SizedInv'
    OBVIOUS
<1> USE SearchAssumption
<1>0. /\ PeakInv /\ PeakInv' /\ FineGrid /\ steps \in Nat
      /\ curve \in Curves /\ lo \in Int /\ mid \in Int /\ hi \in Int
      /\ left \in Int /\ right \in Int /\ x1 \in Int /\ x2 \in Int /\ iter \in Nat
      /\ lo <= mid /\ mid <= hi
    BY PeakStep DEF SizedInv, PeakInv, SearchInv, BracketInv, FinerGrid
<1>1. CASE Probe
    <2>1. steps' = 0
        BY <1>1 DEF Probe, SizedInv
    <2>2. pc' \in {"golden", "done", "grow"}
        BY <1>1 DEF Probe, Open, OpenAt
    <2> QED
        BY <1>0, <2>1, <2>2 DEF SizedInv
<1>2. CASE Grow
    <2>1. /\ pc' = "grow" /\ steps' = steps + 1 /\ lo' = mid /\ mid' = hi /\ hi = Grown(mid)
        BY <1>0, <1>2 DEF Grow, PeakInv, BracketInv
    <2>2. mid' <= 2 * lo'
        BY <1>0, <2>1 DEF Grown
    <2> QED
        BY <1>0, <2>1, <2>2 DEF SizedInv
<1>3. CASE Bracketed
    <2>1. /\ Open(lo, hi) /\ UNCHANGED <<lo, mid, hi, steps>> /\ hi - lo >= 100 /\ iter = 0
          /\ hi = Grown(mid)
          /\ steps > 0 => mid <= 2 * lo
        BY <1>0, <1>3 DEF Bracketed, SizedInv, PeakInv, BracketInv
    <2>2. /\ pc' = "golden" /\ left' = lo /\ right' = hi /\ iter' = 0
        BY <1>0, <2>1 DEF Open
    <2>3. hi <= 2 * mid
        BY <1>0, <1>3, <2>1 DEF Grown, Bracketed, PeakInv, BracketInv
    <2>4. Near(hi - lo, hi - lo, 0)
        BY <1>0, <2>1, FirstNear
    <2> QED
        BY <1>0, <2>1, <2>2, <2>3, <2>4 DEF SizedInv
<1>4. ASSUME pc = "golden", iter < GoldenIters, steps > 0
      PROVE  Near(right - x1, hi - lo, iter + 1) /\ Near(x2 - left, hi - lo, iter + 1) /\ hi <= 4 * lo
    <2>1. /\ Probed(left, right, x1, x2, iter, hi - lo) /\ left <= right /\ hi - lo \in Nat /\ iter <= 11
          /\ Near(right - left, hi - lo, iter) /\ hi <= 4 * lo
        BY <1>0, <1>4 DEF SizedInv, PeakInv, GoldenInv, BracketInv, FineGrid
    <2> QED
        BY <1>0, <2>1, NearProbes
<1>5. CASE StepUp
    <2>1. /\ pc = "golden" /\ iter < GoldenIters /\ left' = x1
          /\ iter' = iter + 1 /\ pc' = (IF Narrow(left', right) THEN "done" ELSE "golden")
          /\ UNCHANGED <<lo, hi, steps, right>>
        BY <1>5 DEF StepUp
    <2>2. steps > 0 => hi' <= 4 * lo' /\ Near(right' - left', hi' - lo', iter')
        BY <1>4, <2>1
    <2>3. pc' = "done" => Narrow(left', right')
        BY <2>1
    <2> QED
        BY <1>0, <2>1, <2>2, <2>3, Zenon DEF SizedInv
<1>6. CASE StepDown
    <2>1. /\ pc = "golden" /\ iter < GoldenIters /\ right' = x2
          /\ iter' = iter + 1 /\ pc' = (IF Narrow(left, right') THEN "done" ELSE "golden")
          /\ UNCHANGED <<lo, hi, steps, left>>
        BY <1>6 DEF StepDown
    <2>2. steps > 0 => hi' <= 4 * lo' /\ Near(right' - left', hi' - lo', iter')
        BY <1>4, <2>1
    <2>3. pc' = "done" => Narrow(left', right')
        BY <2>1
    <2> QED
        BY <1>0, <2>1, <2>2, <2>3, Zenon DEF SizedInv
<1>7. CASE GiveUp
    <2>1. /\ pc = "golden" /\ pc' = "done" /\ iter = GoldenIters
          /\ UNCHANGED <<lo, hi, steps, left, right>>
        BY <1>7 DEF GiveUp
    <2>2. ASSUME steps > 0 PROVE Narrow(left, right)
        <3>1. /\ iter = 12 /\ MinInput <= lo /\ lo <= left /\ left <= right /\ lo <= hi /\ hi <= 4 * lo
              /\ Near(right - left, hi - lo, iter)
            BY <1>0, <2>1, <2>2 DEF SizedInv, PeakInv, GoldenInv, BracketInv, FinerGrid
        <3> QED
            BY <1>0, <3>1, TwelveSuffice
    <2>3. steps > 0 => hi <= 4 * lo
        BY <2>1 DEF SizedInv
    <2> QED
        BY <1>0, <2>1, <2>2, <2>3 DEF SizedInv
<1>8. CASE UNCHANGED vars
    BY <1>0, <1>8 DEF vars, SizedInv
<1> QED
    BY <1>1, <1>2, <1>3, <1>5, <1>6, <1>7, <1>8 DEF Next, Finished

(* Inside the tolerance the bracket's lower end takes nearly all of the profit. *)
LEMMA LowerEndPays ==
    ASSUME FinerGrid, NEW l \in Int, NEW r \in Int, NEW top \in Int, NEW low \in Int, NEW high \in Int,
           MinInput <= l, l <= top, top <= r, Narrow(l, r), high > 0, low * top >= high * l
    PROVE  RelTol * low >= (RelTol - 1) * high
<1>1. RelTol = 100 /\ MinInput \in Nat \ {0}
    BY SearchAssumption, SMT DEF FinerGrid
<1>2. 200 * (r - l) <= l + r
    BY <1>1, SMT DEF Narrow
<1>3. 99 * top <= 100 * l /\ l > 0 /\ top > 0
    BY <1>1, <1>2
<1>4. (99 * top) * high <= (100 * l) * high
    BY <1>3
<1>5. (99 * top) * high = (99 * high) * top /\ (100 * l) * high = 100 * (high * l)
      /\ 100 * (low * top) = (100 * low) * top
    OBVIOUS
<1>6. (99 * high) * top <= (100 * low) * top
    <2>1. high * l \in Int /\ low * top \in Int /\ (99 * top) * high \in Int /\ (99 * high) * top \in Int
        OBVIOUS
    <2> QED
        BY <1>4, <1>5, <2>1
<1>7. \A a, b \in Int : a * top <= b * top => a <= b
    BY <1>3
<1>8. 99 * high <= 100 * low
    BY <1>6, <1>7
<1> QED
    BY <1>1, <1>8

(* On a concave curve a bracket that moved up at all is narrowed to the tolerance, and a   *)
(* trade sized within the tolerance takes all but one part in a hundred of the profit     *)
(* there is: with the constants of the code, on a grid whose smallest trade has 82000       *)
(* points.                                                                              *)
THEOREM ArbSizesToTolerance ==
    IntegerCurves /\ ConcaveCurves /\ FinerGrid => (Spec => []SizedToTolerance)
<1> SUFFICES ASSUME IntegerCurves, ConcaveCurves, FinerGrid PROVE Spec => []SizedToTolerance
    OBVIOUS
<1>0. HumpedCurves /\ TakesItsShare /\ FineGrid
    BY ConcaveIsHumped DEF FinerGrid
<1>1. Init => SizedInv
    BY <1>0, SizedStarts
<1>2. SizedInv /\ [Next]_vars => SizedInv'
    BY <1>0, SizedStep
<1>3. SizedInv => SizedToTolerance
    <2> SUFFICES ASSUME SizedInv, pc = "done", ~Capped, V(Peak(curve)) > 0, Narrow(left, right)
                 PROVE  RelTol * V(best_x) >= (RelTol - 1) * V(Peak(curve))
        BY DEF SizedInv, SizedToTolerance
    <2>1. /\ left <= Peak(curve) /\ Peak(curve) <= right /\ MinInput <= left
          /\ curve \in Curves /\ left \in Int /\ right \in Int /\ best_x \in Int /\ lo \in Int
          /\ V(left) <= V(best_x)
        <3>1. lo \in Int /\ left \in Int /\ MinInput <= lo /\ lo <= left /\ MinInput \in Int
            BY SearchAssumption DEF SizedInv, PeakInv, SearchInv, BracketInv, GoldenInv
        <3>2. MinInput <= left
            BY <3>1
        <3> QED
            BY <3>2 DEF SizedInv, PeakInv, SearchInv, BestOfSamples, GoldenInv, PeakInBracket
    <2>2. Peak(curve) \in Int /\ left \in MinInput .. Peak(curve)
        BY <1>0, <2>1, SearchAssumption DEF HumpedCurves
    <2>3. V(left) \in Int /\ V(best_x) \in Int /\ V(Peak(curve)) \in Int
        BY <2>1, <2>2 DEF IntegerCurves, V
    <2>4. V(left) * Peak(curve) >= V(Peak(curve)) * left
        BY <1>0, <2>1, <2>2 DEF TakesItsShare, V
    <2>5. RelTol * V(left) >= (RelTol - 1) * V(Peak(curve))
        BY <2>1, <2>2, <2>3, <2>4, LowerEndPays
    <2>6. RelTol * V(left) <= RelTol * V(best_x)
        BY <2>1, <2>3, SearchAssumption
    <2>7. RelTol * V(left) \in Int /\ RelTol * V(best_x) \in Int /\ (RelTol - 1) * V(Peak(curve)) \in Int
        BY <2>3, SearchAssumption
    <2> QED
        BY <2>5, <2>6, <2>7
<1> QED
    BY <1>1, <1>2, <1>3, PTL DEF Spec
=============================================================================
