----------------------------- MODULE ShapeCheck -----------------------------
(***************************************************************************)
(* The check of a submission's quotes that every search ends with             *)
(* (crates/sim/src/curve_checks.rs): sampled pairs of an input and an output,  *)
(* in nanos, must rise and must not steepen.  A violation panics.             *)
(***************************************************************************)
EXTENDS Integers, SequencesExt

CONSTANTS
    Uncertainty,    \* QUOTE_DELTA_UNCERTAINTY_NANO
    MergeEps,       \* INPUT_MERGE_EPS_NANO
    MinDx,          \* MIN_CONCAVITY_DX_NANO
    MinInput        \* min_input in nanos: samples up to it do not count

ASSUME ShapeAssumption ==
    Uncertainty \in Nat /\ MergeEps \in Nat /\ MinDx \in Nat \ {0} /\ MinInput \in Nat

In(p) == p[1]
Out(p) == p[2]

(* u64::saturating_sub. *)
Minus(a, b) == IF a > b THEN a - b ELSE 0

Before(p, q) == In(p) < In(q) \/ (In(p) = In(q) /\ Out(p) < Out(q))

(* The samples above min_input in order, each of them once. *)
Sorted(points) ==
    LET kept == {p \in points : In(p) > MinInput}
        n == Cardinality(kept)
    IN  CHOOSE s \in [1 .. n -> kept] : \A i, j \in 1 .. n : i < j => Before(s[i], s[j])

(* A sample too close to the last one that was kept only lends it its output. *)
Merge(cleaned, p) ==
    IF cleaned # <<>> /\ In(p) - In(Last(cleaned)) <= MergeEps
    THEN [cleaned EXCEPT ![Len(cleaned)] =
             <<In(@), IF Out(p) > Out(@) THEN Out(p) ELSE Out(@)>>]
    ELSE Append(cleaned, p)

Cleaned(points) == FoldLeft(Merge, <<>>, Sorted(points))

Steps(c) == 1 .. Len(c) - 1
Dx(c, i) == In(c[i + 1]) - In(c[i])
Dy(c, i) == Minus(Out(c[i + 1]), Out(c[i]))

(* Mutant: a fall saturates away. *)
FallsSaturated(c, i) == Dy(c, i) + Uncertainty < 0

Falls(c, i) == Out(c[i + 1]) + Uncertainty < Out(c[i])

(* The segments long enough to be compared, and each one's predecessor among them. *)
Wide(c) == {i \in Steps(c) : Dx(c, i) >= MinDx}
Follows(c, i, j) == i < j /\ \A k \in Wide(c) : ~(i < k /\ k < j)

(* Mutant: no noise is forgiven. *)
SteepensExactly(c, i, j) == Dy(c, j) * Dx(c, i) > Dy(c, i) * Dx(c, j)

(* Segment j is steeper than segment i, even with the noise of both in its favour. *)
Steepens(c, i, j) ==
    Minus(Dy(c, j), Uncertainty) * Dx(c, i) > (Dy(c, i) + Uncertainty) * Dx(c, j)

(* Mutant: only the first two segments are compared. *)
ShapeViolationEarly(points) ==
    LET c == Cleaned(points)
    IN  \/ \E i \in Steps(c) : Falls(c, i)
        \/ \E i, j \in Wide(c) : j <= 2 /\ Follows(c, i, j) /\ Steepens(c, i, j)

(* submission_shape_violation. *)
ShapeViolation(points) ==
    LET c == Cleaned(points)
    IN  \/ \E i \in Steps(c) : Falls(c, i)
        \/ \E i, j \in Wide(c) : Follows(c, i, j) /\ Steepens(c, i, j)
=============================================================================
