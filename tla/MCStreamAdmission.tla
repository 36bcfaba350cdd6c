------------------------- MODULE MCStreamAdmission -------------------------
(* Instances of StreamAdmission for TLC. *)
EXTENDS StreamAdmission, TLC

Symmetry == Permutations(Sessions)
=============================================================================
