------------------------------ MODULE MCProofRun ------------------------------
(* Constants for TLC.                                                       *)
EXTENDS ProofRun

CONSTANTS Capital  \* what every account starts with

MCWallet0 == [a \in Account |-> Capital]
=============================================================================
