---------------------------- MODULE MCFullCharge ----------------------------
(* TLC instances of FullCharge.                                            *)
EXTENDS FullCharge
=============================================================================
