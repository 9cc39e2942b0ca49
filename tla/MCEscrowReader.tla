---------------------------- MODULE MCEscrowReader ----------------------------
(* Constants for TLC.                                                       *)
EXTENDS EscrowReader

CONSTANTS Capital  \* what every account starts with

MCWallet0 == [a \in Account |-> Capital]
=============================================================================
