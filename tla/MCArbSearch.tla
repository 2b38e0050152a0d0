---------------------------- MODULE MCArbSearch ----------------------------
(* Profits that rise at one rate up to a peak and fall at another one behind it, or *)
(* fall from the start: concave curves through the origin.                         *)
EXTENDS ArbSearch

Tents == [peak : {100000, 107000, 130001, 159000, 210000, 299999, 400000, 618034, 777000, 990000,
                  1500000, 2000000},
          up : {1, 3}, down : {1, 2, 7, 40}]
Losses == [peak : {100000}, up : {0}, down : {1}]
MCCurves == Tents \cup Losses

MCValue(c, x) ==
    IF c.up = 0 THEN -x ELSE IF x <= c.peak THEN c.up * x ELSE c.up * c.peak - c.down * (x - c.peak)

MCPeak(c) == c.peak

MCStarts == {100000, 112000, 145000, 200011, 370000, 900000, 2000000}
=============================================================================
