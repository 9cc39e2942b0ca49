------------------------------ MODULE MCBondBoard ------------------------------
(* BondBoard for TLC.                                                       *)
EXTENDS BondBoard

MCWallet0 == [a \in Account |-> IF a = Owner THEN 2 ELSE 1]
=============================================================================
