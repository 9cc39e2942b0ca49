------------------------------ MODULE MCDeskBook ------------------------------
(* Constants for TLC.                                                       *)
EXTENDS DeskBook

MCWallet0 == [a \in Account |-> 1]
=============================================================================
