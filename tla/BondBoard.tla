------------------------------ MODULE BondBoard ------------------------------
(***************************************************************************)
(* The bond panel (web/components/BondPanel.tsx), the server's               *)
(* /api/escrow-terms behind its figures, post_bond's deploy builder          *)
(* (lib/casper.ts), and the contract.                                        *)
(*                                                                         *)
(* A refresh shows "loading" and asks the server, which reads the chain some  *)
(* time later and answers some time after that.  Nothing ties an answer to    *)
(* the refresh that asked, or to the key connected when it comes.  A stake is *)
(* a deploy: built, signed, accepted, and executed later.                    *)
(***************************************************************************)
EXTENDS ReceivableEscrow, Bags

CONSTANTS
    MaxReads,   \* bound: reads in flight
    MaxTimers,  \* bound: delayed refreshes pending
    MaxWaiting  \* bound: accepted deploys waiting to be executed

ASSUME BoardAssumption ==
    /\ MinBond > 0
    /\ MaxReads \in Nat \ {0}
    /\ MaxTimers \in Nat
    /\ MaxWaiting \in Nat \ {0}

VARIABLES
    key,      \* the connected account, or None
    bond,     \* BondState: "loading", "error" or "ready"
    figures,  \* what it shows when ready, None before
    deploy,   \* DeployStatus: idle (error and cancelled too), pending or sent
    asking,   \* the stake that awaits the wallet and the broadcast, or None
    reads,    \* the reads of escrow-terms in flight, a bag
    timers,   \* the keys of the delayed refreshes pending, a bag
    waiting,  \* the stakes accepted and not yet executed, a bag
    hashes    \* the panel's last hash is one the node acknowledged

shownVars == <<bond, figures>>
boardVars == <<key, shownVars, deploy, asking, reads, timers, waiting, hashes>>
panelVars == <<escrowVars, boardVars>>

-----------------------------------------------------------------------------

Key == Account \cup {None}

\* The server answers for the key asked for, and for the owner without one.
Subject(k) == IF k = None THEN Owner ELSE k

Figures == [of : Account, staked : Nat, defaults : Nat, bonded : BOOLEAN]

\* A read: whose closure asked, and what the server found, None before.
Read == [for : Key, found : Figures \cup {None}]

Stake == [account : Account, amount : Nat]

Bag(x) == SetToBag({x})

BoardInit ==
    /\ key = None
    /\ bond = "loading"
    /\ figures = None
    /\ deploy = "idle"
    /\ asking = None
    /\ reads = Bag([for |-> None, found |-> None])
    /\ timers = EmptyBag
    /\ waiting = EmptyBag
    /\ hashes = TRUE

-----------------------------------------------------------------------------
(* Reading the bond.                                                        *)

\* refresh(), of the closure made while k was connected.
Refresh(k) ==
    /\ BagCardinality(reads) < MaxReads
    /\ bond' = "loading"
    /\ figures' = None
    /\ reads' = reads (+) Bag([for |-> k, found |-> None])

\* The connected key changes, and the effect refreshes.
Connect(k) ==
    /\ k # key
    /\ key' = k
    /\ Refresh(k)
    /\ UNCHANGED <<escrowVars, deploy, asking, timers, waiting, hashes>>

\* "Re-read chain".
ReRead ==
    /\ Refresh(key)
    /\ UNCHANGED <<escrowVars, key, deploy, asking, timers, waiting, hashes>>

\* The server has read the owner, the bar and the minimum, which init has fixed,
\* and reads the bond.
ServerReads(r) ==
    LET who == Subject(r.for) IN
    /\ r.found = None
    /\ reads' = (reads (-) Bag(r)) (+) Bag([r EXCEPT !.found =
          [of |-> who, staked |-> bonds[who].amount,
           defaults |-> bonds[who].defaults, bonded |-> IsBonded(who)]])
    /\ UNCHANGED <<escrowVars, key, shownVars, deploy, asking, timers, waiting, hashes>>

\* The answer arrives, and is shown whatever has happened since.
ShowRead(r) ==
    /\ r.found # None
    /\ bond' = "ready"
    /\ figures' = r.found
    /\ reads' = reads (-) Bag(r)
    /\ UNCHANGED <<escrowVars, key, deploy, asking, timers, waiting, hashes>>

\* Mutant: a failed read is logged and not shown.
FailRead_Logged(r) ==
    /\ reads' = reads (-) Bag(r)
    /\ UNCHANGED <<escrowVars, key, shownVars, deploy, asking, timers, waiting, hashes>>

\* Mutant: a failed read leaves the figures of an earlier one.
FailRead_KeepsFigures(r) ==
    /\ bond' = "error"
    /\ reads' = reads (-) Bag(r)
    /\ UNCHANGED <<escrowVars, key, figures, deploy, asking, timers, waiting, hashes>>

\* The server answers 502, or the request fails: an error, never a zero.
FailRead(r) ==
    /\ bond' = "error"
    /\ figures' = None
    /\ reads' = reads (-) Bag(r)
    /\ UNCHANGED <<escrowVars, key, deploy, asking, timers, waiting, hashes>>

\* Twenty seconds after a stake, its closure refreshes for the key it was made
\* with.
TimerFires(k) ==
    /\ timers' = timers (-) Bag(k)
    /\ Refresh(k)
    /\ UNCHANGED <<escrowVars, key, deploy, asking, waiting, hashes>>

-----------------------------------------------------------------------------
(* Staking.                                                                 *)

\* Mutant: the builder takes any amount.
Stakeable_Any(amount) == amount \in Nat

\* The panel refuses what is not a positive number of CSPR, and the builder what
\* rounds to no mote at all.
Stakeable(amount) == amount > 0

PostBondClick(amount) ==
    /\ key # None
    /\ deploy # "pending"
    /\ IF Stakeable(amount)
       THEN /\ deploy' = "pending"
            /\ asking' = [account |-> key, amount |-> amount]
       ELSE deploy' = "idle" /\ UNCHANGED asking
    /\ UNCHANGED <<escrowVars, key, shownVars, reads, timers, waiting, hashes>>

Accepted ==
    /\ BagCardinality(waiting) < MaxWaiting
    /\ waiting' = waiting (+) Bag(asking)

\* The panel is told the stake was sent: it shows a hash, and sets its timer.
Sent(hash) ==
    /\ BagCardinality(timers) < MaxTimers
    /\ deploy' = "sent"
    /\ asking' = None
    /\ timers' = timers (+) Bag(asking.account)
    /\ hashes' = hash
    /\ UNCHANGED <<escrowVars, key, shownVars, reads>>

Heard == asking # None /\ Accepted /\ Sent(TRUE)

\* With no extension the SDK sends, and its outcome need not have a hash: the
\* panel shows the one it computed before signing.
HeardWithoutHash ==
    /\ asking # None
    /\ Accepted \/ UNCHANGED waiting
    /\ Sent(FALSE)

\* The user cancels, something refuses, or the node accepts and the answer is
\* lost: the panel shows an error, and the button works again.
NotHeard ==
    /\ asking # None
    /\ Accepted \/ UNCHANGED waiting
    /\ deploy' = "idle"
    /\ asking' = None
    /\ UNCHANGED <<escrowVars, key, shownVars, reads, timers, hashes>>

Verdict(s) ==
    IF s.amount > wallet[s.account] THEN "InsufficientFunds"
    ELSE PostBond_Error(s.amount)

Execute(s) ==
    /\ waiting' = waiting (-) Bag(s)
    /\ \/ Verdict(s) = Ok /\ BondPosted(s.account, s.amount)
       \/ Reverts(Verdict(s))
    /\ UNCHANGED <<key, shownVars, deploy, asking, reads, timers, hashes>>

\* Anyone calls the contract by other means.
OthersCall == EscrowNext /\ UNCHANGED boardVars

Answers(r) == ServerReads(r) \/ ShowRead(r) \/ FailRead(r)

Next ==
    \/ \E k \in Key : Connect(k)
    \/ ReRead
    \/ \E r \in BagToSet(reads) : Answers(r)
    \/ \E k \in BagToSet(timers) : TimerFires(k)
    \/ \E amount \in Amount : PostBondClick(amount)
    \/ Heard
    \/ HeardWithoutHash
    \/ NotHeard
    \/ \E s \in BagToSet(waiting) : Execute(s)
    \/ OthersCall

Spec == EscrowInit /\ BoardInit /\ [][Next]_panelVars

\* The server's own requests are bounded in number and in time, and the browser
\* fails a request whose connection is lost: a read in flight gets on.
FairSpec ==
    /\ Spec
    /\ \A k \in Key :
          WF_panelVars(\E r \in BagToSet(reads) : r.for = k /\ Answers(r))

-----------------------------------------------------------------------------
(* Properties.                                                              *)

\* The type of the panel's state, and the chain's own.
BoardTypeOK ==
    /\ EscrowTypeOK
    /\ key \in Key
    /\ bond \in {"loading", "error", "ready"}
    /\ figures \in Figures \cup {None}
    /\ figures = None <=> bond # "ready"
    /\ deploy \in {"idle", "pending", "sent"}
    /\ asking \in Stake \cup {None}
    /\ IsABag(reads) /\ BagToSet(reads) \subseteq Read
    /\ IsABag(timers) /\ BagToSet(timers) \subseteq Account
    /\ IsABag(waiting) /\ BagToSet(waiting) \subseteq Stake
    /\ hashes \in BOOLEAN

\* The panel says it is reading only while a read is in flight, however many
\* refreshes overlap and whichever of them answers or fails first (refresh's
\* try, catch and the effect, BondPanel.tsx:82-112).
ReadingWhenItSaysSo ==
    bond = "loading" => reads # EmptyBag

\* No gas is burnt on an empty stake: no accepted deploy is one the contract
\* would revert with ZeroBond (casper.ts:357-361).
NoEmptyStake ==
    \A s \in BagToSet(waiting) : Verdict(s) # "ZeroBond"

\* "Reading chain" does not stay for ever: as long as nobody keeps asking, an
\* answer or an error replaces it.
ReadingEnds == bond = "loading" ~> bond # "loading"

\* As the server says ("a visitor with no wallet connected should still see
\* whether the desk itself is collateralised", server.ts:147-148): with no key
\* connected and nothing under way, the figures are the owner's.
VisitorSeesTheDesk ==
    /\ key = None
    /\ reads = EmptyBag
    /\ timers = EmptyBag
    /\ bond = "ready"
    => figures.of = Owner

\* As the desk says of the hash it shows ("Never fall back to the locally built
\* hash.", FundNotePanel.tsx:90): the hash of a stake shown as sent is one the
\* node acknowledged.
HashAcknowledged == deploy = "sent" => hashes

\* The shape of the panel, that it reads when it says so, and that no stake it
\* sends is empty (BondPanel.tsx:82-112, casper.ts:357).
BoardInvariant == BoardTypeOK /\ ReadingWhenItSaysSo /\ NoEmptyStake
=============================================================================
