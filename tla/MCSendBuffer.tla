---------------------------- MODULE MCSendBuffer ----------------------------
(* SendBuffer on a buffer of a few dozen bytes: every boundary of the      *)
(* arithmetic is met, as only differences of lengths matter.               *)
EXTENDS SendBuffer

MCSize == 32
MCMaxFill == MCSize - 2
MCSendSizes == {1, 2, 3, 7, 16}
=============================================================================
