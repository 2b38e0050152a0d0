--------------------------- MODULE GoldenSection ---------------------------
(* The probes of the golden-section searches, on an integer grid fine enough *)
(* for GOLDEN_RATIO_CONJUGATE to be 618/1000.                                *)
EXTENDS Integers

Phi(width) == (width * 618) \div 1000

LowerProbe(left, right) == right - Phi(right - left)
UpperProbe(left, right) == left + Phi(right - left)
=============================================================================
