--------------------------- MODULE ReceivableEscrow ---------------------------
(***************************************************************************)
(* The ReceivableEscrow contract (contract/src/receivable_escrow.rs): the    *)
(* register of receivable notes, the collateral behind them, and the motes  *)
(* both move.                                                               *)
(*                                                                         *)
(* Every entry point may be called by every account, at any time, in any    *)
(* order.  A call is one atomic step: it commits all of its writes and      *)
(* transfers, or reverts with an error and leaves everything as it was, the *)
(* attached motes included.  E_Error is the error of the entry point's      *)
(* first failing check, in the order the code makes them.  Gas is left out. *)
(***************************************************************************)
EXTENDS UnderwriterBond, FiniteSetsExt

CONSTANTS
    Owner,         \* the deployer, the only account that underwrites
    Amount,        \* the amounts of motes callers write into their calls
    Score,         \* the risk scores the owner may submit
    Hash,          \* the risk_data_hash strings, opaque to the contract
    MinRiskScore,  \* the acceptance bar, set once by init
    Wallet0,       \* what each account's main purse holds at deployment
    None           \* Option::None: no note, or no investor

Note == [seller : Account, investor : Account \cup {None}, face : Nat,
         score : Nat, hash : Hash,
         status : {"Open", "Funded", "Repaid", "Defaulted"}]

ASSUME EscrowAssumption ==
    /\ Owner \in Account
    /\ Amount \subseteq Nat
    /\ Score \subseteq Nat
    /\ MinRiskScore \in Nat
    /\ Wallet0 \in [Account -> Nat]
    /\ None \notin Account
    /\ None \notin Note

VARIABLES
    notes,    \* Mapping<u64, Note>, None where there is no entry
    purse,    \* the contract's own purse
    wallet,   \* the main purses of the accounts
    paidOut   \* the `paid` of the NoteDefaulted event of each note, 0 before

escrowVars == <<bonds, defaulted, notes, purse, wallet, paidOut>>

-----------------------------------------------------------------------------
(* Notes, and the motes a call moves.                                       *)

Exists(n) == notes[n] # None

HasStatus(n, statuses) == Exists(n) /\ notes[n].status \in statuses

\* The wallets after `amount` has gone from the payer to the payee.
Moved(payer, payee, amount) ==
    [a \in Account |->
        wallet[a] - (IF a = payer THEN amount ELSE 0)
                  + (IF a = payee THEN amount ELSE 0)]

\* The wallets after the contract has paid `amount` to the payee.
Paid(payee, amount) == [wallet EXCEPT ![payee] = @ + amount]

\* transfer_tokens out of the contract's purse reverts when it does not cover
\* the amount.
Transfer_Error(amount) == IF amount > purse THEN "TransferFailed" ELSE Ok

\* A call that fails a check leaves everything as it was.
Reverts(error) == error # Ok /\ UNCHANGED escrowVars

-----------------------------------------------------------------------------
(* The entry points: the check, the commit, named for the event it emits,   *)
(* and the call.                                                            *)

\* Mutant: open_note does not ask for a bond.
OpenNote_Error_Unbonded(caller, n, score) ==
    IF caller # Owner THEN "NotOwner"
    ELSE IF Exists(n) THEN "NoteExists"
    ELSE IF score < MinRiskScore THEN "RiskTooHigh"
    ELSE Ok

OpenNote_Error(caller, n, score) ==
    IF caller # Owner THEN "NotOwner"
    ELSE IF ~IsBonded(caller) THEN "NotBonded"
    ELSE IF Exists(n) THEN "NoteExists"
    ELSE IF score < MinRiskScore THEN "RiskTooHigh"
    ELSE Ok

NoteOpened(caller, n, seller, face, score, hash) ==
    /\ OpenNote_Error(caller, n, score) = Ok
    /\ notes' = [notes EXCEPT ![n] =
                    [seller |-> seller, investor |-> None, face |-> face,
                     score |-> score, hash |-> hash, status |-> "Open"]]
    /\ UNCHANGED <<bonds, defaulted, purse, wallet, paidOut>>

OpenNote(caller, n, seller, face, score, hash) ==
    \/ Reverts(OpenNote_Error(caller, n, score))
    \/ NoteOpened(caller, n, seller, face, score, hash)

\* Mutant: fund_note refuses a note that is Funded, and not one that is over.
FundNote_Error_OnlyFunded(n, attached) ==
    IF ~Exists(n) THEN "NoNote"
    ELSE IF notes[n].status = "Funded" THEN "AlreadyFunded"
    ELSE IF attached # notes[n].face THEN "WrongAmount"
    ELSE Ok

\* Mutant: fund_note takes any amount for the face value.
FundNote_Error_AnyAmount(n, attached) ==
    IF ~Exists(n) THEN "NoNote"
    ELSE IF notes[n].status # "Open" THEN "AlreadyFunded"
    ELSE Ok

FundNote_Error(n, attached) ==
    IF ~Exists(n) THEN "NoNote"
    ELSE IF notes[n].status # "Open" THEN "AlreadyFunded"
    ELSE IF attached # notes[n].face THEN "WrongAmount"
    ELSE Ok

\* The attached motes enter the contract's purse and leave it again in the
\* same call, for the seller.
NoteFunded(caller, n, attached) ==
    /\ attached <= wallet[caller]
    /\ FundNote_Error(n, attached) = Ok
    /\ notes' = [notes EXCEPT ![n] = [@ EXCEPT !.investor = caller,
                                               !.status = "Funded"]]
    /\ wallet' = Moved(caller, notes[n].seller, attached)
    /\ UNCHANGED <<bonds, defaulted, purse, paidOut>>

FundNote(caller, n, attached) ==
    \/ attached <= wallet[caller] /\ Reverts(FundNote_Error(n, attached))
    \/ NoteFunded(caller, n, attached)

\* Mutant: mark_repaid refuses a note that is repaid, and not one in default.
MarkRepaid_Error_NotRepaid(caller, n) ==
    IF caller # Owner THEN "NotOwner"
    ELSE IF ~Exists(n) THEN "NoNote"
    ELSE IF notes[n].status \in {"Open", "Repaid"} THEN "NotFunded"
    ELSE Ok

MarkRepaid_Error(caller, n) ==
    IF caller # Owner THEN "NotOwner"
    ELSE IF ~Exists(n) THEN "NoNote"
    ELSE IF notes[n].status # "Funded" THEN "NotFunded"
    ELSE Ok

NoteRepaid(caller, n) ==
    /\ MarkRepaid_Error(caller, n) = Ok
    /\ notes' = [notes EXCEPT ![n].status = "Repaid"]
    /\ UNCHANGED <<bonds, defaulted, purse, wallet, paidOut>>

MarkRepaid(caller, n) ==
    Reverts(MarkRepaid_Error(caller, n)) \/ NoteRepaid(caller, n)

BondPosted(caller, attached) ==
    /\ attached <= wallet[caller]
    /\ PostBond_Error(attached) = Ok
    /\ PostBond(caller, attached)
    /\ wallet' = [wallet EXCEPT ![caller] = @ - attached]
    /\ purse' = purse + attached
    /\ UNCHANGED <<notes, paidOut>>

PostBondCall(caller, attached) ==
    \/ attached <= wallet[caller] /\ Reverts(PostBond_Error(attached))
    \/ BondPosted(caller, attached)

WithdrawBond_Error(caller, amount) ==
    IF Withdraw_Error(caller, amount) # Ok
    THEN Withdraw_Error(caller, amount)
    ELSE Transfer_Error(amount)

BondWithdrawn(caller, amount) ==
    /\ WithdrawBond_Error(caller, amount) = Ok
    /\ Withdraw(caller, amount)
    /\ wallet' = Paid(caller, amount)
    /\ purse' = purse - amount
    /\ UNCHANGED <<notes, paidOut>>

WithdrawBond(caller, amount) ==
    \/ Reverts(WithdrawBond_Error(caller, amount))
    \/ BondWithdrawn(caller, amount)

DeclareDefault_Error(caller, n) ==
    IF caller # Owner THEN "NotOwner"
    ELSE IF ~Exists(n) THEN "NoNote"
    ELSE IF notes[n].status # "Funded" THEN "NotDefaultable"
    ELSE IF notes[n].investor = None THEN "NotDefaultable"
    ELSE IF Slash_Error(n, Owner) # Ok THEN Slash_Error(n, Owner)
    ELSE Transfer_Error(Payout(Owner, notes[n].face))

\* Mutant: declare_default pays whoever asked.
NoteDefaulted_PaysCaller(caller, n) ==
    LET paid == Payout(Owner, notes[n].face) IN
    /\ DeclareDefault_Error(caller, n) = Ok
    /\ Slash(n, Owner, notes[n].face)
    /\ notes' = [notes EXCEPT ![n].status = "Defaulted"]
    /\ wallet' = Paid(caller, paid)
    /\ purse' = purse - paid
    /\ paidOut' = [paidOut EXCEPT ![n] = paid]

NoteDefaulted(caller, n) ==
    LET paid == Payout(Owner, notes[n].face) IN
    /\ DeclareDefault_Error(caller, n) = Ok
    /\ Slash(n, Owner, notes[n].face)
    /\ notes' = [notes EXCEPT ![n].status = "Defaulted"]
    /\ wallet' = Paid(notes[n].investor, paid)
    /\ purse' = purse - paid
    /\ paidOut' = [paidOut EXCEPT ![n] = paid]

DeclareDefault(caller, n) ==
    Reverts(DeclareDefault_Error(caller, n)) \/ NoteDefaulted(caller, n)

-----------------------------------------------------------------------------

EscrowInit ==
    /\ BondInit
    /\ notes = [n \in NoteId |-> None]
    /\ purse = 0
    /\ wallet = Wallet0
    /\ paidOut = [n \in NoteId |-> 0]

EscrowNext ==
    \E caller \in Account :
        \/ \E n \in NoteId, seller \in Account, face \in Amount,
              score \in Score, hash \in Hash :
              OpenNote(caller, n, seller, face, score, hash)
        \/ \E n \in NoteId, attached \in Amount : FundNote(caller, n, attached)
        \/ \E n \in NoteId : MarkRepaid(caller, n)
        \/ \E attached \in Amount : PostBondCall(caller, attached)
        \/ \E amount \in Amount : WithdrawBond(caller, amount)
        \/ \E n \in NoteId : DeclareDefault(caller, n)

EscrowSpec == EscrowInit /\ [][EscrowNext]_escrowVars

-----------------------------------------------------------------------------
(* Properties.                                                              *)

\* The type of the contract's storage, of the purses and of a call's outcome.
EscrowTypeOK ==
    /\ BondTypeOK
    /\ notes \in [NoteId -> Note \cup {None}]
    /\ purse \in Nat
    /\ wallet \in [Account -> Nat]
    /\ paidOut \in [NoteId -> Nat]

\* The two books about a default agree: the bond's `defaulted` flag is set
\* exactly on the notes the escrow shows as Defaulted, a note has an investor
\* exactly from the moment it is funded, and every note met the bar when it
\* was opened (open_note, fund_note, declare_default, slash).
BooksAgree ==
    \A n \in NoteId :
        /\ defaulted[n] <=> HasStatus(n, {"Defaulted"})
        /\ Exists(n) =>
             /\ notes[n].investor = None <=> notes[n].status = "Open"
             /\ notes[n].score >= MinRiskScore
        /\ paidOut[n] > 0 => defaulted[n]

\* Whoever might call what now, slash's replay guard does not fire (the
\* comment at underwriter_bond.rs:167-176 calls it unreachable), and no
\* transfer out of the contract's purse is refused for want of motes:
\* withdraw_bond and declare_default never promise what it does not hold.
NeverRefusedLate ==
    LET late == {"AlreadyDefaulted", "TransferFailed"} IN
    \A caller \in Account :
        /\ \A n \in NoteId : DeclareDefault_Error(caller, n) \notin late
        /\ \A amount \in Amount : WithdrawBond_Error(caller, amount) \notin late

\* The bond is custody: the contract's purse holds exactly what its table
\* says the underwriters have staked, after any sequence of stakes, payments
\* through the contract, withdrawals and slashes.
PurseIsTheBonds ==
    purse = SumFunctionOnSet([a \in Account |-> bonds[a].amount], Account)

FaceOf == [n \in NoteId |-> IF Exists(n) THEN notes[n].face ELSE 0]

\* The notes somebody has paid for, and those an account bought or sold.
PaidFor   == {n \in NoteId : HasStatus(n, {"Funded", "Repaid", "Defaulted"})}
Bought(a) == {n \in PaidFor : notes[n].investor = a}
Sold(a)   == {n \in PaidFor : notes[n].seller = a}

\* Every account's position is explained by the notes and bonds on record:
\* what it holds, stakes, lost to slashes and put into notes is what it
\* started with, plus what its own notes brought and its defaulted
\* investments returned.  No call moves motes to whoever asked.
EveryAccountAddsUp ==
    \A a \in Account :
        wallet[a] + bonds[a].amount + bonds[a].slashed
          + SumFunctionOnSet(FaceOf, Bought(a))
        = Wallet0[a] + SumFunctionOnSet(FaceOf, Sold(a))
          + SumFunctionOnSet(paidOut, Bought(a))

\* The notes whose default was booked on an account's bond.
Struck(a) == {n \in NoteId : a = Owner /\ defaulted[n]}

\* The reputation kept in the owner's bond is the history of the notes: one
\* default per defaulted note, and `slashed` is what their investors got.
\* Nobody else's bond is ever slashed.
ReputationIsHistory ==
    \A a \in Account :
        /\ bonds[a].defaults = Cardinality(Struck(a))
        /\ bonds[a].slashed = SumFunctionOnSet(paidOut, Struck(a))

Terms(note) == <<note.seller, note.face, note.score, note.hash>>

\* A note goes Open, Funded, then Repaid or Defaulted, and no step skips,
\* repeats or undoes one; its terms never change once it is open and its
\* investor never changes once it is set.
NoteHistory ==
    [][\A n \in NoteId : Exists(n) =>
        /\ notes'[n] # None
        /\ Terms(notes'[n]) = Terms(notes[n])
        /\ \/ notes'[n] = notes[n]
           \/ notes[n].status = "Open" /\ notes'[n].status = "Funded"
           \/ /\ notes[n].status = "Funded"
              /\ notes'[n].status \in {"Repaid", "Defaulted"}
              /\ notes'[n].investor = notes[n].investor]_escrowVars

\* A default pays the investor in full or takes the owner's whole stake: no
\* note is written off while collateral that could cover it stays behind.
ShortOnlyWhenEmpty ==
    [][\A n \in NoteId : ~defaulted[n] /\ defaulted'[n] =>
        \/ paidOut'[n] = notes[n].face
        \/ paidOut'[n] > 0 /\ bonds'[Owner].amount = 0]_escrowVars

\* As the desk's home page says (web/app/page.tsx:28, "The signer has capital
\* behind every score it submits"): while a note is open or funded, the owner
\* has something at stake.  withdraw_bond does not look at the notes.
CapitalBehindEveryScore ==
    \A n \in NoteId :
        HasStatus(n, {"Open", "Funded"}) => bonds[Owner].amount > 0

\* As the comment on Note.status says (receivable_escrow.rs:37, "0 = Open,
\* 1 = Funded, 2 = Repaid"): a note has one of three statuses.
StatusAsDocumented ==
    \A n \in NoteId : Exists(n) => HasStatus(n, {"Open", "Funded", "Repaid"})

\* The contract implements CollateralisedNotes: every committed call is one of
\* its steps, a revert is a stutter, and one purse with a table and a replay
\* flag behaves as separate pots would (all entry points).
Promise == INSTANCE CollateralisedNotes WITH
    Underwriter <- Owner,
    Invoice     <- NoteId,
    MinStake    <- MinBond,
    Endowment   <- Wallet0,
    Nobody      <- None,
    stage  <- [n \in NoteId |-> IF Exists(n) THEN notes[n].status ELSE "Absent"],
    terms  <- [n \in NoteId |->
                  IF Exists(n)
                  THEN [seller |-> notes[n].seller, face |-> notes[n].face]
                  ELSE None],
    buyer  <- [n \in NoteId |-> IF Exists(n) THEN notes[n].investor ELSE None],
    pot    <- [a \in Account |-> bonds[a].amount],
    refund <- paidOut

KeepsThePromise == Promise!Spec
=============================================================================
