--------------------------- MODULE MCRouterSearch ---------------------------
(* Two pools with a knee each: a leg is paid at one rate up to the knee and at a *)
(* lower one behind it.  The sum is concave and highest at a knee or an end.      *)
EXTENDS RouterSearch

Knees == {3000, 19000, 38200, 45000, 50000, 57000, 61800, 88000}
Pools(rates) == {[knee |-> k, first |-> r[1], then |-> r[2]] : k \in Knees, r \in rates}

(* No rate occurs in both pools, so that one split is better than all others. *)
MCCurves ==
    Pools({<<2, 0>>, <<18, 0>>, <<18, 8>>, <<20, 18>>, <<80, 2>>})
        \X Pools({<<3, 1>>, <<27, 1>>, <<27, 9>>, <<21, 19>>, <<81, 1>>})

Paid(p, input) ==
    IF input <= p.knee THEN p.first * input ELSE p.first * p.knee + p.then * (input - p.knee)

MCScore(c, a) == Paid(c[1], a) + Paid(c[2], Scale - a)

MCPeak(c) ==
    LET corners == {0, Scale, c[1].knee, Scale - c[2].knee}
    IN  CHOOSE a \in corners : \A b \in corners : MCScore(c, b) <= MCScore(c, a)

MCTotals == {1, 20}
=============================================================================
