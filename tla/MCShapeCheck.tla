---------------------------- MODULE MCShapeCheck ----------------------------
(* A search samples a curve in any order; the check looks at what it has so far. *)
(* The curve is either one that rises and is concave, its outputs cut to whole nanos, *)
(* or not a curve at all: any output at any input.                                 *)
EXTENDS ShapeCheck

CONSTANTS
    Inputs,        \* inputs that are sampled
    Curves,        \* curves: output in parts of a nano, by input
    Parts,         \* parts of a nano in which a curve is known
    Outputs,       \* outputs of the samples that follow no curve
    MaxSamples     \* bound

Rises(c) == \A x, y \in Inputs : x < y => c[x] <= c[y]

(* No chord is steeper than one before it. *)
Concave(c) ==
    \A w, x, y, z \in Inputs :
        w < x /\ x <= y /\ y < z => (c[z] - c[y]) * (x - w) <= (c[x] - c[w]) * (z - y)

ASSUME SamplesAssumption ==
    /\ Inputs \subseteq Nat /\ Outputs \subseteq Nat
    /\ Parts \in Nat \ {0} /\ MaxSamples \in Nat
    /\ Curves \subseteq [Inputs -> Nat] /\ \A c \in Curves : Rises(c) /\ Concave(c)

VARIABLES curve, samples

NoCurve == <<>>

(* f64_to_nano of the curve's output. *)
Quote(c, x) == c[x] \div Parts

Init == curve \in Curves \cup {NoCurve} /\ samples = {}

Sample(x) ==
    /\ Cardinality(samples) < MaxSamples
    /\ \E y \in IF curve = NoCurve THEN Outputs ELSE {Quote(curve, x)} :
          samples' = samples \cup {<<x, y>>}
    /\ UNCHANGED curve

Next == \E x \in Inputs : Sample(x)

Spec == Init /\ [][Next]_<<curve, samples>>

(* No two samples so close that they are merged, or else the same one. *)
Apart == \A p, q \in samples : p = q \/ In(p) - In(q) > MergeEps \/ In(q) - In(p) > MergeEps

(* No chord is so steep that what merging adds to an output, MergeEps times the slope, *)
(* is more than the noise that is forgiven beyond the cut.                              *)
Gentle(c) ==
    \A x, y \in Inputs :
        x < y => MergeEps * (c[y] - c[x]) <= (Parts * (Uncertainty - 1)) * (y - x)

(* A submission whose true curve rises and is concave is never punished for the     *)
(* cutting of its outputs to nanos, wherever and in whatever order the searches      *)
(* sample it: while no two samples are close enough to be merged, and also when they  *)
(* are, if the curve is not too steep for the output that one lends the other.          *)
NoFalseAlarm == curve # NoCurve /\ (Apart \/ Gentle(curve)) => ~ShapeViolation(samples)

(* The samples that count. *)
Counted == {p \in samples : In(p) > MinInput}

Near(p, q) == In(p) - In(q) <= MergeEps /\ In(q) - In(p) <= MergeEps

(* Samples behind p, up to q. *)
Between(p, q) == {s \in Counted : In(p) < In(s) /\ In(s) <= In(q)}

(* Samples that pass rise, up to the noise that is forgiven, between any two of them  *)
(* and not only between neighbours: an output falls below an earlier one by no more    *)
(* than Uncertainty for each sample on the way.  The check sees less than that in one     *)
(* place: samples that are merged count as one with the highest of their outputs, so a   *)
(* fall within MergeEps of an input stays hidden, and what is promised of a sample is      *)
(* promised of it or of one that near to it; of the sample itself when none are merged.    *)
FallsAreNoise ==
    ~ShapeViolation(samples) =>
        \A p, q \in Counted :
            In(p) + MergeEps < In(q) =>
                \E r \in Counted :
                    /\ Near(q, r) /\ (Apart => r = q)
                    /\ Out(r) + Cardinality(Between(p, q)) * Uncertainty >= Out(p)

(* Of samples that pass, the points that are left once those too close are merged are *)
(* concave, up to the noise that is forgiven: of any two segments between them long     *)
(* enough to be compared, however far apart, the later one is not steeper by more than    *)
(* the noise of the segments in between.                                                 *)
SteepeningIsNoise ==
    ~ShapeViolation(samples) =>
        LET c == Cleaned(samples)
        IN  \A i, j \in Wide(c) : i < j =>
               (Dy(c, j) * Dx(c, i) - Dy(c, i) * Dx(c, j)) * MinDx
                   <= 2 * Uncertainty * (j - i) * Dx(c, i) * Dx(c, j)

MCInputs == {1, 2, 3, 5, 6, 8, 9, 11, 14}

(* Curves that rise at one rate up to a knee and at no higher one behind it. *)
Knees ==
    {k \in [at : {1, 4, 7, 10}, first : {3, 10, 17, 29, 40}, then : {0, 3, 9, 13}] :
        k.then <= k.first}
MCCurves ==
    {[x \in MCInputs |-> IF x <= k.at THEN k.first * x
                         ELSE k.first * k.at + k.then * (x - k.at)] : k \in Knees}
=============================================================================
