---------------------------- MODULE UnderwriterBond ----------------------------
(***************************************************************************)
(* The underwriter's bond (contract/src/underwriter_bond.rs), the SubModule *)
(* the escrow keeps its collateral in: a table of bonds and the set of      *)
(* notes already declared in default.  It holds no money of its own; the    *)
(* escrow moves the motes, this module keeps the books.                     *)
(*                                                                         *)
(* The module has no next-state relation: its functions run only inside an  *)
(* entry point of ReceivableEscrow.  A function that can revert comes as a  *)
(* pair: F_Error, the error of its first failing check or Ok, and F, what   *)
(* it writes when there is none.                                            *)
(***************************************************************************)
EXTENDS Integers, FiniteSets

CONSTANTS
    Account,   \* the addresses that call the contract
    NoteId,    \* the u64 ids notes are kept under
    MinBond    \* the minimum stake, set once by init

ASSUME MinBondAssumption == MinBond \in Nat

\* An address is a hash of 32 bytes, and an id a u64.
ASSUME FiniteAssumption == IsFiniteSet(Account) /\ IsFiniteSet(NoteId)

VARIABLES
    bonds,     \* Mapping<Address, Bond>, a missing entry read as ZeroBond
    defaulted  \* Mapping<u64, bool>, a missing entry read as FALSE

bondVars == <<bonds, defaulted>>

\* No error: the call goes on to its writes.
Ok == "Ok"

Bond == [amount : Nat, slashed : Nat, defaults : Nat]

\* get_bond's answer for an underwriter that never posted.
ZeroBond == [amount |-> 0, slashed |-> 0, defaults |-> 0]

BondTypeOK ==
    /\ bonds \in [Account -> Bond]
    /\ defaulted \in [NoteId -> BOOLEAN]

BondInit ==
    /\ bonds = [a \in Account |-> ZeroBond]
    /\ defaulted = [n \in NoteId |-> FALSE]

IsBonded(u) == bonds[u].amount >= MinBond

PostBond_Error(amount) == IF amount = 0 THEN "ZeroBond" ELSE Ok

PostBond(u, amount) ==
    /\ bonds' = [bonds EXCEPT ![u].amount = @ + amount]
    /\ UNCHANGED defaulted

\* Mutant: withdraw does not compare the amount with what is held.
Withdraw_Error_Unchecked(u, amount) == Ok

Withdraw_Error(u, amount) ==
    IF amount > bonds[u].amount THEN "BondTooSmall" ELSE Ok

\* Mutant: withdraw hands out the amount and forgets to save the bond.
Withdraw_Unsaved(u, amount) == UNCHANGED bondVars

Withdraw(u, amount) ==
    /\ bonds' = [bonds EXCEPT ![u].amount = @ - amount]
    /\ UNCHANGED defaulted

\* Mutant: a bond that cannot cover the whole loss pays nothing.
Payout_AllOrNothing(u, face) == IF face > bonds[u].amount THEN 0 ELSE face

\* What the bond of u owes for a loss of face: capped at what u has staked.
Payout(u, face) == IF face > bonds[u].amount THEN bonds[u].amount ELSE face

Slash_Error(n, u) ==
    IF defaulted[n] THEN "AlreadyDefaulted"
    ELSE IF bonds[u].amount = 0 THEN "NoBond"
    ELSE Ok

\* Mutant: slash never records that the note was declared in default.
Slash_Unflagged(n, u, face) ==
    /\ bonds' = [bonds EXCEPT ![u] =
                    [amount   |-> @.amount - Payout(u, face),
                     slashed  |-> @.slashed + Payout(u, face),
                     defaults |-> @.defaults + 1]]
    /\ UNCHANGED defaulted

\* Mutant: slash books the loss and leaves the collateral in the bond.
Slash_Undeducted(n, u, face) ==
    /\ bonds' = [bonds EXCEPT ![u].slashed = @ + Payout(u, face),
                              ![u].defaults = @ + 1]
    /\ defaulted' = [defaulted EXCEPT ![n] = TRUE]

\* Mutant: slash books the face value as slashed, not what it paid.
Slash_BooksFace(n, u, face) ==
    /\ bonds' = [bonds EXCEPT ![u] =
                    [amount   |-> @.amount - Payout(u, face),
                     slashed  |-> @.slashed + face,
                     defaults |-> @.defaults + 1]]
    /\ defaulted' = [defaulted EXCEPT ![n] = TRUE]

Slash(n, u, face) ==
    /\ bonds' = [bonds EXCEPT ![u] =
                    [amount   |-> @.amount - Payout(u, face),
                     slashed  |-> @.slashed + Payout(u, face),
                     defaults |-> @.defaults + 1]]
    /\ defaulted' = [defaulted EXCEPT ![n] = TRUE]
=============================================================================
