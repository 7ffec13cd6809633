------------------------------ MODULE MCAfter ------------------------------
(* Delays for After, a negative one among them.                             *)
EXTENDS After

MCDelays == {-1, 0, 1, 2}
=============================================================================
