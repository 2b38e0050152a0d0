---------------------------- MODULE RouterSearch ----------------------------
(***************************************************************************)
(* maximize_split (crates/sim/src/router.rs): which part of an order the       *)
(* submission's pool gets.  A split lies on an integer grid of Scale parts;    *)
(* the score of a split, what both legs are quoted together, is not known to   *)
(* the search.                                                               *)
(***************************************************************************)
EXTENDS GoldenSection

CONSTANTS
    Curves,         \* pairs of pools to split an order between
    Score(_, _),    \* quote_score of a split
    Peak(_),        \* a split with the highest score; only properties use it
    Scale,          \* alpha = 1
    Totals,         \* order sizes, in units of MIN_TRADE_SIZE
    Iters,          \* GOLDEN_MAX_ITERS
    AlphaTol,       \* GOLDEN_ALPHA_TOL, in parts of Scale
    AmountTol,      \* 100: GOLDEN_SUBMISSION_AMOUNT_REL_TOL is one part in that many
    GapTol          \* 100: GOLDEN_SCORE_REL_GAP_TOL is one part in that many

ASSUME SplitAssumption ==
    /\ Scale \in Nat \ {0} /\ Totals \subseteq Nat /\ Iters \in Nat
    /\ AlphaTol \in Nat /\ AmountTol \in Nat \ {0} /\ GapTol \in Nat \ {0}

VARIABLES
    curve, total,
    pc,                                  \* "loop" or "done"
    left, right, x1, x2, iter, best,
    seen                                 \* sampled

vars == <<curve, total, pc, left, right, x1, x2, iter, best, seen>>

S(a) == Score(curve, a)

(* best_quote: the earlier split unless the later one is strictly better. *)
BestQuote(a, b) == IF S(b) > S(a) THEN b ELSE a

Larger(a, b) == IF a >= b THEN a ELSE b

WithinRelGap(a, b) ==
    GapTol * (a - b) <= Larger(a, b) /\ GapTol * (b - a) <= Larger(a, b)

(* What ends the loop before its iterations are used up. *)
Stops ==
    \/ right - left <= AlphaTol
    \/ 2 * AmountTol * total * (right - left) <= Larger(total * (left + right), 2 * Scale)
    \/ WithinRelGap(S(x1), S(x2))

(* Both ends, then both probes. *)
Init ==
    /\ curve \in Curves /\ total \in Totals
    /\ pc = "loop"
    /\ left = 0 /\ right = Scale /\ iter = 0
    /\ x1 = LowerProbe(0, Scale) /\ x2 = UpperProbe(0, Scale)
    /\ best = BestQuote(BestQuote(BestQuote(0, Scale), x1), x2)
    /\ seen = {0, Scale, x1, x2}

Continues == pc = "loop" /\ iter < Iters /\ ~Stops

(* Mutant: both lower thirds are dropped. *)
StepUpTwice ==
    /\ Continues /\ S(x1) < S(x2)
    /\ left' = x2 /\ x1' = x2 /\ x2' = UpperProbe(x2, right)
    /\ best' = BestQuote(best, x2') /\ seen' = seen \cup {x2'}
    /\ iter' = iter + 1
    /\ UNCHANGED <<curve, total, pc, right>>

(* One iteration, the lower third dropped. *)
StepUp ==
    /\ Continues /\ S(x1) < S(x2)
    /\ left' = x1 /\ x1' = x2 /\ x2' = UpperProbe(x1, right)
    /\ best' = BestQuote(best, x2') /\ seen' = seen \cup {x2'}
    /\ iter' = iter + 1
    /\ UNCHANGED <<curve, total, pc, right>>

(* Mutant: the order of the two probes is mixed up, the old one counts as new. *)
StepDownStale ==
    /\ Continues /\ S(x1) >= S(x2)
    /\ right' = x2 /\ x2' = x1 /\ x1' = LowerProbe(left, x2)
    /\ best' = BestQuote(best, x2') /\ seen' = seen \cup {x1'}
    /\ iter' = iter + 1
    /\ UNCHANGED <<curve, total, pc, left>>

(* One iteration, the upper third dropped. *)
StepDown ==
    /\ Continues /\ S(x1) >= S(x2)
    /\ right' = x2 /\ x2' = x1 /\ x1' = LowerProbe(left, x2)
    /\ best' = BestQuote(best, x1') /\ seen' = seen \cup {x1'}
    /\ iter' = iter + 1
    /\ UNCHANGED <<curve, total, pc, left>>

(* Mutant: no last look at the centre. *)
StopWithoutCenter ==
    /\ pc = "loop" /\ (iter = Iters \/ Stops)
    /\ pc' = "done"
    /\ UNCHANGED <<curve, total, left, right, x1, x2, iter, best, seen>>

(* The loop is over: one more split, in the middle of what is left. *)
Center ==
    /\ pc = "loop" /\ (iter = Iters \/ Stops)
    /\ best' = BestQuote(best, (left + right) \div 2)
    /\ seen' = seen \cup {(left + right) \div 2}
    /\ pc' = "done"
    /\ UNCHANGED <<curve, total, left, right, x1, x2, iter>>

Finished == pc = "done" /\ UNCHANGED vars

Next == StepUp \/ StepDown \/ Center \/ Finished

Spec == Init /\ [][Next]_vars

-----------------------------------------------------------------------------
(* The split the router takes is the best of all it sampled, and the order unsplit, *)
(* in either pool, is among those: a submission can only win an order's flow by       *)
(* paying for it.                                                                    *)
BestOfSamples ==
    /\ {0, Scale} \subseteq seen
    /\ best \in seen /\ \A a \in seen : S(a) <= S(best)

(* The best split of two concave pools is never cut off while the search goes on. *)
PeakInBracket == left <= Peak(curve) /\ Peak(curve) <= right

(* Stopping as soon as two splits are within one hundredth of each other costs the   *)
(* trader little: between concave pools at least 95 hundredths of the best possible   *)
(* output are found, thanks to the ends and the last look at the centre.              *)
LittleIsLost == pc = "done" => 100 * S(best) >= 95 * S(Peak(curve))
=============================================================================
