---------------------------- MODULE MCProposalDesk ----------------------------
(***************************************************************************)
(* ProposalDesk for TLC.                                                    *)
(***************************************************************************)
EXTENDS ProposalDesk

CONSTANTS Capital  \* what the owner starts with; the others have nothing

MCWallet0 == [a \in Account |-> IF a = Owner THEN Capital ELSE 0]
=============================================================================
