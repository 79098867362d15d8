------------------------------- MODULE MCMovarr -------------------------------
(* Instances of Movarr for TLC: two releases of one movie, the second one  *)
(* better.                                                                 *)
EXTENDS Movarr

CONSTANTS lo, hi

MCMovieOf   == [t \in Titles |-> "m1"]
MCScore     == [t \in Titles |-> IF t = hi THEN 2 ELSE 1]
=============================================================================
