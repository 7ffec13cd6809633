---------------------------- MODULE MCTransport ----------------------------
(* Transport on a short number space: the numbers wrap after the third     *)
(* packet.                                                                 *)
EXTENDS Transport

MCSizes == <<2, 1>>
=============================================================================
