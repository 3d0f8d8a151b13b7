--------------------------- MODULE MCSupervision ---------------------------
(* The two supervisors run the same code on the same files. *)
EXTENDS ProcessSupervision, TLC

Interchangeable == Permutations(Sups)
=============================================================================
