--------------------------- MODULE MCChargeWrite ---------------------------
(* TLC instances of ChargeWrite: the values are in the configurations.     *)
EXTENDS ChargeWrite

(* No two thresholds are compared but for equality, so that 60 and 80 can  *)
(* be exchanged: it is enough to start at one of them.                     *)
AtSixty == configured = 60 /\ Init
SpecAtSixty == AtSixty /\ [][Next]_vars /\ Fairness
=============================================================================
