---------------------------- MODULE MCOtaUpload ----------------------------
(* OtaUpload for TLC: the connections are interchangeable. *)
EXTENDS OtaUpload, TLC

Symmetry == Permutations(Conns)
============================================================================
