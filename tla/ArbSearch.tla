----------------------------- MODULE ArbSearch -----------------------------
(***************************************************************************)
(* The arbitrageur's search for the size of a trade on the submission's       *)
(* curve: bracket_maximum, then golden_section_max (arbitrageur.rs).  Each     *)
(* step takes one or a few quotes.  Inputs lie on an integer grid; the curve   *)
(* is the profit of an input at the fair price, and not known to the search.   *)
(***************************************************************************)
EXTENDS GoldenSection

CONSTANTS
    Curves,          \* the submission's profit curves
    Value(_, _),     \* objective: the profit of a curve at an input
    Peak(_),         \* an input at which a curve is highest; only properties use it
    Starts,          \* sampled retail sizes the search may start from
    MinInput,        \* min_input
    MaxInput,        \* max_input
    BracketSteps,    \* BRACKET_MAX_STEPS
    GoldenIters,     \* GOLDEN_MAX_ITERS
    RelTol           \* 100: GOLDEN_INPUT_REL_TOL is one part in that many

ASSUME SearchAssumption ==
    /\ MinInput \in Nat \ {0} /\ MaxInput \in Nat /\ MinInput <= MaxInput
    /\ Starts \subseteq MinInput .. MaxInput
    /\ BracketSteps \in Nat /\ GoldenIters \in Nat /\ RelTol \in Nat \ {0}

VARIABLES
    curve,
    pc,                                    \* "probe", "grow", "golden" or "done"
    lo, mid, hi, steps,                    \* bracket_maximum
    left, right, x1, x2, iter, best_x,     \* golden_section_max
    seen                                   \* ghost: inputs the golden section quoted

vars == <<curve, pc, lo, mid, hi, steps, left, right, x1, x2, iter, best_x, seen>>

V(x) == Value(curve, x)

(* The better of two inputs, the first on a tie. *)
Better(a, b) == IF V(b) > V(a) THEN b ELSE a

Grown(x) == IF 2 * x < MaxInput THEN 2 * x ELSE MaxInput

(* Mutant: the tolerance is absolute. *)
NarrowAbsolute(l, r) == r - l <= MinInput

(* The bracket is narrow enough for the trade's size. *)
Narrow(l, r) == 2 * RelTol * (r - l) <= (IF l + r > 2 * MinInput THEN l + r ELSE 2 * MinInput)

Init ==
    /\ curve \in Curves
    /\ pc = "probe"
    /\ lo = MinInput /\ mid \in Starts /\ hi = mid /\ steps = 0
    /\ left = 0 /\ right = 0 /\ x1 = 0 /\ x2 = 0 /\ iter = 0
    /\ best_x = 0 /\ seen = {}

(* golden_section_max on a bracket of one point: its value, and nothing else. *)
OpenAt(r) ==
    /\ left' = r /\ right' = r /\ x1' = r /\ x2' = r
    /\ best_x' = r /\ seen' = {r}
    /\ pc' = "done" /\ UNCHANGED iter

(* golden_section_max before its loop: both ends and both probes. *)
Open(l, r) ==
    IF r <= l THEN OpenAt(r)
    ELSE /\ left' = l /\ right' = r
         /\ x1' = LowerProbe(l, r) /\ x2' = UpperProbe(l, r)
         /\ best_x' = Better(Better(Better(l, r), x1'), x2')
         /\ seen' = {l, r, x1', x2'}
         /\ pc' = "golden" /\ UNCHANGED iter

(* bracket_maximum before its loop: a first size that loses money bounds the peak. *)
Probe ==
    /\ pc = "probe"
    /\ IF V(mid) <= 0 \/ Grown(mid) <= mid
       THEN Open(lo, mid) /\ UNCHANGED hi
       ELSE /\ hi' = Grown(mid) /\ pc' = "grow"
            /\ UNCHANGED <<left, right, x1, x2, iter, best_x, seen>>
    /\ UNCHANGED <<curve, lo, mid, steps>>

(* Mutant: the lower end follows the upper one too closely. *)
GrowTight ==
    /\ pc = "grow" /\ steps < BracketSteps /\ V(hi) > V(mid) /\ hi < MaxInput
    /\ lo' = hi /\ mid' = hi /\ hi' = Grown(hi) /\ steps' = steps + 1
    /\ UNCHANGED <<curve, pc, left, right, x1, x2, iter, best_x, seen>>

(* The profit still rises: the bracket moves up.  Grown(hi) > hi below max_input, so *)
(* the code's early return for the opposite is never taken.                         *)
Grow ==
    /\ pc = "grow" /\ steps < BracketSteps /\ V(hi) > V(mid) /\ hi < MaxInput
    /\ lo' = mid /\ mid' = hi /\ hi' = Grown(hi) /\ steps' = steps + 1
    /\ UNCHANGED <<curve, pc, left, right, x1, x2, iter, best_x, seen>>

(* The bracket is found, or its steps are used up. *)
Bracketed ==
    /\ pc = "grow" /\ (steps = BracketSteps \/ V(hi) <= V(mid) \/ hi >= MaxInput)
    /\ Open(lo, hi)
    /\ UNCHANGED <<curve, lo, mid, hi, steps>>

(* One iteration, the lower third dropped. *)
StepUp ==
    /\ pc = "golden" /\ iter < GoldenIters
    /\ V(x1) < V(x2)
    /\ left' = x1 /\ x1' = x2 /\ x2' = UpperProbe(x1, right)
    /\ best_x' = Better(best_x, x2') /\ seen' = seen \cup {x2'}
    /\ iter' = iter + 1 /\ pc' = IF Narrow(left', right) THEN "done" ELSE "golden"
    /\ UNCHANGED <<curve, lo, mid, hi, steps, right>>

(* Mutant: the probe that was kept is forgotten. *)
StepDownUnscored ==
    /\ pc = "golden" /\ iter < GoldenIters
    /\ V(x1) >= V(x2)
    /\ right' = x2 /\ x2' = x1 /\ x1' = LowerProbe(left, x2)
    /\ best_x' = x2' /\ seen' = seen \cup {x1'}
    /\ iter' = iter + 1 /\ pc' = IF Narrow(left, right') THEN "done" ELSE "golden"
    /\ UNCHANGED <<curve, lo, mid, hi, steps, left>>

(* One iteration, the upper third dropped. *)
StepDown ==
    /\ pc = "golden" /\ iter < GoldenIters
    /\ V(x1) >= V(x2)
    /\ right' = x2 /\ x2' = x1 /\ x1' = LowerProbe(left, x2)
    /\ best_x' = Better(best_x, x1') /\ seen' = seen \cup {x1'}
    /\ iter' = iter + 1 /\ pc' = IF Narrow(left, right') THEN "done" ELSE "golden"
    /\ UNCHANGED <<curve, lo, mid, hi, steps, left>>

(* No iteration is left. *)
GiveUp ==
    /\ pc = "golden" /\ iter = GoldenIters
    /\ pc' = "done"
    /\ UNCHANGED <<curve, lo, mid, hi, steps, left, right, x1, x2, iter, best_x, seen>>

Finished == pc = "done" /\ UNCHANGED vars

Next == Probe \/ Grow \/ Bracketed \/ StepUp \/ StepDown \/ GiveUp \/ Finished

Spec == Init /\ [][Next]_vars

-----------------------------------------------------------------------------
(* The size the search settles on was quoted, and no quote the golden section took *)
(* promised more: the bookkeeping of best_x across ends, probes and iterations.      *)
BestOfSamples ==
    pc \in {"golden", "done"} => best_x \in seen /\ \A x \in seen : V(x) <= V(best_x)

(* The bracket stopped growing for want of steps, while the profit still rose. *)
Capped == steps = BracketSteps /\ V(hi) > V(mid) /\ hi < MaxInput

(* On a concave curve the golden section never cuts off the peak, from the first    *)
(* bracket on, although its probes are reused and rounded.                          *)
PeakInBracket ==
    pc \in {"golden", "done"} /\ ~Capped => left <= Peak(curve) /\ Peak(curve) <= right

(* The search sizes the trade as its tolerance says: once the bracket moved up at     *)
(* all, the iterations suffice for it (a first bracket reaches down to min_input and   *)
(* may be too wide for them); and a trade sized within the tolerance takes all but one  *)
(* part in RelTol of the profit there is, because the bracket's lower end was quoted.    *)
SizedToTolerance ==
    pc = "done" /\ ~Capped /\ V(Peak(curve)) > 0 =>
        /\ steps > 0 => Narrow(left, right)
        /\ Narrow(left, right) => RelTol * V(best_x) >= (RelTol - 1) * V(Peak(curve))
=============================================================================
