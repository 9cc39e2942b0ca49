-------------------------- MODULE CollateralisedNotes --------------------------
(***************************************************************************)
(* What the escrow promises, without a contract: invoices that change hands *)
(* against money, and stakes that belong to their owners.  There is no      *)
(* common purse here that could run short, no replay flag that could be     *)
(* missing, no error, and no call that does nothing: a stake is a pot of    *)
(* its own, and money moves only between a pot and the account it belongs   *)
(* to, from the buyer of an invoice to its seller, or, once per invoice,    *)
(* from the underwriter's pot to the buyer.                                 *)
(***************************************************************************)
EXTENDS Integers

CONSTANTS Account, Underwriter, Invoice, MinStake, Endowment, Nobody

VARIABLES
    stage,   \* "Absent", "Open", "Funded", "Repaid" or "Defaulted"
    terms,   \* the seller and the face value of an invoice, Nobody if absent
    buyer,   \* who funded an invoice, Nobody before
    pot,     \* what each account has staked
    wallet,  \* what each account has besides
    refund   \* what the default of an invoice brought its buyer

vars == <<stage, terms, buyer, pot, wallet, refund>>

Init ==
    /\ stage = [n \in Invoice |-> "Absent"]
    /\ terms = [n \in Invoice |-> Nobody]
    /\ buyer = [n \in Invoice |-> Nobody]
    /\ pot = [a \in Account |-> 0]
    /\ wallet = Endowment
    /\ refund = [n \in Invoice |-> 0]

\* Only an underwriter with the minimum at stake offers an invoice.
Offer(n) ==
    /\ stage[n] = "Absent"
    /\ pot[Underwriter] >= MinStake
    /\ terms'[n] \in [seller : Account, face : Nat]
    /\ terms' = [terms EXCEPT ![n] = terms'[n]]
    /\ stage' = [stage EXCEPT ![n] = "Open"]
    /\ UNCHANGED <<buyer, pot, wallet, refund>>

\* The buyer pays the seller the face value, no more and no less.
Finance(n, a) ==
    /\ stage[n] = "Open"
    /\ wallet[a] >= terms[n].face
    /\ stage' = [stage EXCEPT ![n] = "Funded"]
    /\ buyer' = [buyer EXCEPT ![n] = a]
    /\ wallet' = [b \in Account |->
                     wallet[b] - (IF b = a THEN terms[n].face ELSE 0)
                       + (IF b = terms[n].seller THEN terms[n].face ELSE 0)]
    /\ UNCHANGED <<terms, pot, refund>>

Settle(n) ==
    /\ stage[n] = "Funded"
    /\ stage' = [stage EXCEPT ![n] = "Repaid"]
    /\ UNCHANGED <<terms, buyer, pot, wallet, refund>>

\* The buyer gets what the underwriter's pot can give, up to the face value.
WriteOff(n) ==
    /\ stage[n] = "Funded"
    /\ pot[Underwriter] > 0
    /\ \E x \in 0..pot[Underwriter] :
         /\ x = terms[n].face \/ (x < terms[n].face /\ x = pot[Underwriter])
         /\ pot' = [pot EXCEPT ![Underwriter] = @ - x]
         /\ wallet' = [wallet EXCEPT ![buyer[n]] = @ + x]
         /\ refund' = [refund EXCEPT ![n] = x]
    /\ stage' = [stage EXCEPT ![n] = "Defaulted"]
    /\ UNCHANGED <<terms, buyer>>

\* An account moves its own money into its own pot, or out of it.
Stake(a) ==
    /\ \E x \in 1..wallet[a] :
         /\ wallet' = [wallet EXCEPT ![a] = @ - x]
         /\ pot' = [pot EXCEPT ![a] = @ + x]
    /\ UNCHANGED <<stage, terms, buyer, refund>>

Unstake(a) ==
    /\ \E x \in 1..pot[a] :
         /\ wallet' = [wallet EXCEPT ![a] = @ + x]
         /\ pot' = [pot EXCEPT ![a] = @ - x]
    /\ UNCHANGED <<stage, terms, buyer, refund>>

Next ==
    \/ \E n \in Invoice : Offer(n) \/ Settle(n) \/ WriteOff(n)
    \/ \E n \in Invoice, a \in Account : Finance(n, a)
    \/ \E a \in Account : Stake(a) \/ Unstake(a)

Spec == Init /\ [][Next]_vars
=============================================================================
