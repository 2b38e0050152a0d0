---------------------------- MODULE MCBuildCache ----------------------------
(* Two processes on four sources: two with the same hash, one of which does not *)
(* compile, one by itself, and one that is refused.                             *)
EXTENDS BuildCache

CONSTANTS first, second, third, fourth, d1, d2, d3

MCKey == [s \in Sources |-> IF s = third THEN d2 ELSE IF s = fourth THEN d3 ELSE d1]
=============================================================================
