------------------------------ MODULE MCWSHub -------------------------------
(* Model-checking instances of WSHub.                                      *)
EXTENDS WSHub, TLC
=============================================================================
