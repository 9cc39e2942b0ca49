-------------------------- MODULE MCReceivableEscrow --------------------------
(***************************************************************************)
(* ReceivableEscrow for TLC, and its refinement of CollateralisedNotes.     *)
(***************************************************************************)
EXTENDS ReceivableEscrow, TLC

CONSTANTS Capital  \* what every account starts with

MCWallet0 == [a \in Account |-> Capital]

\* Accounts other than the owner, and note ids, are interchangeable.
MCSymmetry == Permutations(Account \ {Owner}) \cup Permutations(NoteId)
=============================================================================
