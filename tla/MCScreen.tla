------------------------------ MODULE MCScreen ------------------------------
(* Screen on small instances: the ends of the scale, the levels an         *)
(* increment away from them, levels in between that are no multiple of it. *)
EXTENDS Screen, TLC

EdgeLevels  == {0, 5, 10, 50, 90, 95}
KeySymmetry == Permutations(KeyThreads)
=============================================================================
