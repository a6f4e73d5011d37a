--------------------------- MODULE GroupStreamMC ---------------------------
(* Small tables for TLC: every content up to the bounds is an initial      *)
(* state.                                                                  *)
EXTENDS GroupStream, TLC

KeySymmetry == Permutations(Key)
=============================================================================
