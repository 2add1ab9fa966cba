---------------------------- MODULE MC_SummaryStats ----------------------------
(* Samples of both signs and zero, with the largest double small enough  *)
(* that three squares of -4 overflow and 6 fails the max_add_value CHECK. *)
EXTENDS SummaryStats

MCSamples == {-4, -2, 0, 2, 6}
==============================================================================
