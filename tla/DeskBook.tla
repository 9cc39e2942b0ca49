------------------------------- MODULE DeskBook -------------------------------
(***************************************************************************)
(* The desk's book: the list of notes of web/components/HomeDashboard.tsx,   *)
(* the panel that funds, repays and defaults them (FundNotePanel.tsx), the   *)
(* signing half of UnderwritePanel.tsx, the deploy builders of lib/casper.ts *)
(* and the contract that executes the deploys.                               *)
(*                                                                         *)
(* A click builds a deploy and awaits the wallet; the node accepts it or not, *)
(* the panel hears of that or not, and the chain executes it later.  The list *)
(* moves when the panel hears that a deploy was accepted.  Nothing ever sets  *)
(* it back, and it is never read from the chain.                             *)
(***************************************************************************)
EXTENDS ReceivableEscrow, Sequences, Bags

CONSTANTS
    Investor,   \* the accounts that fund through the panel
    Seller,     \* what is typed into the seller field
    MaxWaiting, \* bound: accepted deploys waiting to be executed
    MaxListed   \* bound: entries on the list

ASSUME BookAssumption ==
    /\ Investor \subseteq Account
    /\ Seller \subseteq Account
    /\ MaxWaiting \in Nat \ {0}
    /\ MaxListed \in Nat \ {0}
    /\ \E score \in Score : score >= MinRiskScore

VARIABLES
    offer,    \* the open_note deploy of the run shown, or None
    pending,  \* the kinds of call whose DeployStatus is pending
    slashed,  \* defaultDeploy.state is "sent": the panel says so
    asking,   \* the clicks that await the wallet and the broadcast
    waiting,  \* the deploys accepted and not yet executed, a bag
    took,     \* the kinds of call the node has accepted for each note
    done,     \* the deploys executed without an error, a bag
    list      \* HomeDashboard's notes, newest first

nodeVars == <<waiting, took, done>>
bookVars == <<offer, pending, slashed, asking, nodeVars, list>>
vars     == <<escrowVars, bookVars>>

-----------------------------------------------------------------------------

Calls == {"open_note", "fund_note", "mark_repaid", "declare_default"}

\* A deploy of the panels, by what it says.
Deploy == [call : Calls, account : Account, note : NoteId, seller : Account,
           amount : Nat]

\* A click that awaits: its deploy, and the seller and face value its closure
\* will list.
Ask == [deploy : Deploy, seller : Account, face : Nat]

Entry == [note : NoteId, seller : Account, face : Nat,
          status : {"open", "funded", "repaid"}]

BookInit ==
    /\ offer = None
    /\ pending = {}
    /\ slashed = FALSE
    /\ asking = {}
    /\ waiting = EmptyBag
    /\ took = [n \in NoteId |-> {}]
    /\ done = EmptyBag
    /\ list = <<>>

-----------------------------------------------------------------------------
(* The clicks.  The connected key, the seller field and the selected note may *)
(* change between any two of them, so a click takes any: what counts is what  *)
(* its closure has captured.                                                 *)

Built(call, account, e) ==
    [call |-> call, account |-> account, note |-> e.note, seller |-> e.seller,
     amount |-> e.face]

Click(call, account, e) ==
    [deploy |-> Built(call, account, e), seller |-> e.seller, face |-> e.face]

\* A run ends with a deploy for the seller that was in the form.  (How it was
\* built is ProposalDesk's.)
RunEnds(n, seller, face) ==
    /\ offer' = Built("open_note", Owner,
                      [note |-> n, seller |-> seller, face |-> face])
    /\ pending' = pending \ {"open_note"}
    /\ UNCHANGED <<escrowVars, slashed, asking, nodeVars, list>>

\* Whatever a call's status becomes, only a default's "sent" is a claim.
Said(call, sent) == IF call = "declare_default" THEN sent ELSE slashed

\* The button of a kind of call works unless its own status is pending.
Await(call, ask) ==
    /\ call \notin pending
    /\ pending' = pending \cup {call}
    /\ slashed' = Said(call, FALSE)
    /\ asking' = asking \cup {ask}

\* Mutant: an owner's call is offered to whoever is connected.
IsOwner_Anyone(key) == key \in Account

IsOwner(key) == key = Owner

\* The owner signs the deploy of the run shown, with some seller in the form.  The
\* face value is read out of the run's last result, and is 0 when that was a
\* refusal; that the id is the deploy's is taken for granted here.
ClickOpen(key, seller, face) ==
    /\ offer # None
    /\ IsOwner(key)
    /\ key = offer.account
    /\ Len(list) < MaxListed
    /\ face \in {offer.amount, 0}
    /\ Await("open_note", [deploy |-> offer, seller |-> seller, face |-> face])
    /\ UNCHANGED <<escrowVars, offer, nodeVars, list>>

OpenEntries == {i \in DOMAIN list : list[i].status = "open"}

\* The panel shows the first open entry with the selected id.
Selected(i) ==
    /\ i \in OpenEntries
    /\ \A j \in OpenEntries : list[j].note = list[i].note => i <= j

ClickFund(key, i) ==
    /\ key \in Investor
    /\ Selected(i)
    /\ Await("fund_note", Click("fund_note", key, list[i]))
    /\ UNCHANGED <<escrowVars, offer, nodeVars, list>>

\* Mark repaid and Declare default are offered for every entry shown funded.
ClickSettle(key, call, e) ==
    /\ call \in {"mark_repaid", "declare_default"}
    /\ e.status = "funded"
    /\ IsOwner(key)
    /\ Await(call, Click(call, key, e))
    /\ UNCHANGED <<escrowVars, offer, nodeVars, list>>

\* A click that gets no further: no key, the wrong key, nothing configured, or a
\* builder that throws.
ClickFails(call) ==
    /\ call \notin pending
    /\ slashed' = Said(call, FALSE)
    /\ UNCHANGED <<escrowVars, offer, pending, asking, nodeVars, list>>

-----------------------------------------------------------------------------
(* What comes of them.                                                      *)

SetStatus(n, status) ==
    [i \in DOMAIN list |->
        IF list[i].note = n THEN [list[i] EXCEPT !.status = status] ELSE list[i]]

\* Mutant: a default is listed under a status of its own.
ListAfter_Defaulted(ask) ==
    LET d == ask.deploy IN
    IF d.call = "open_note"
    THEN <<[note |-> d.note, seller |-> ask.seller, face |-> ask.face,
            status |-> "open"]>> \o list
    ELSE SetStatus(d.note, CASE d.call = "fund_note" -> "funded"
                             [] d.call = "mark_repaid" -> "repaid"
                             [] d.call = "declare_default" -> "defaulted")

\* The list after the panel has heard that the ask's deploy was accepted: a
\* note is put in front, or every entry with its id changes; a default leaves
\* the list alone.
ListAfter(ask) ==
    LET d == ask.deploy IN
    CASE d.call = "open_note" ->
            <<[note |-> d.note, seller |-> ask.seller, face |-> ask.face,
               status |-> "open"]>> \o list
      [] d.call = "fund_note"       -> SetStatus(d.note, "funded")
      [] d.call = "mark_repaid"     -> SetStatus(d.note, "repaid")
      [] d.call = "declare_default" -> list

Answered(ask, sent) ==
    /\ asking' = asking \ {ask}
    /\ pending' = pending \ {ask.deploy.call}
    /\ slashed' = Said(ask.deploy.call, sent)

\* A run signed twice sends one deploy twice; it counts here as two of the same
\* content, which is what a second run with the same outcome would send.
Accepted(d) ==
    /\ BagCardinality(waiting) < MaxWaiting
    /\ waiting' = waiting (+) SetToBag({d})
    /\ took' = [took EXCEPT ![d.note] = @ \cup {d.call}]
    /\ UNCHANGED done

\* The wallet signs, the node accepts, the panel hears it.
Heard(ask) ==
    /\ Accepted(ask.deploy)
    /\ Answered(ask, TRUE)
    /\ list' = ListAfter(ask)
    /\ UNCHANGED <<escrowVars, offer>>

\* The node accepts, and the answer is lost between the agent and the page.
Unheard(ask) ==
    /\ Accepted(ask.deploy)
    /\ Answered(ask, FALSE)
    /\ UNCHANGED <<escrowVars, offer, list>>

\* Mutant: the panel falls back to the hash it computed itself.
NotSent_LocalHash(ask) ==
    /\ Answered(ask, TRUE)
    /\ list' = ListAfter(ask)
    /\ UNCHANGED <<escrowVars, offer, nodeVars>>

\* The user cancels, or the wallet, the relay or the node refuses.
NotSent(ask) ==
    /\ Answered(ask, FALSE)
    /\ UNCHANGED <<escrowVars, offer, nodeVars, list>>

AcceptedScore == CHOOSE score \in Score : score >= MinRiskScore

\* The error a deploy would revert with now.
Verdict(d) ==
    CASE d.call = "open_note"   -> OpenNote_Error(d.account, d.note, AcceptedScore)
      [] d.call = "fund_note"   ->
            IF d.amount > wallet[d.account] THEN "InsufficientFunds"
            ELSE FundNote_Error(d.note, d.amount)
      [] d.call = "mark_repaid" -> MarkRepaid_Error(d.account, d.note)
      [] d.call = "declare_default" -> DeclareDefault_Error(d.account, d.note)

Commits(d) ==
    \/ /\ d.call = "open_note"
       /\ \E hash \in Hash :
            NoteOpened(d.account, d.note, d.seller, d.amount, AcceptedScore, hash)
    \/ d.call = "fund_note" /\ NoteFunded(d.account, d.note, d.amount)
    \/ d.call = "mark_repaid" /\ NoteRepaid(d.account, d.note)
    \/ d.call = "declare_default" /\ NoteDefaulted(d.account, d.note)

\* The chain executes an accepted deploy, in whatever order it picks.
Execute(d) ==
    /\ waiting' = waiting (-) SetToBag({d})
    /\ \/ Verdict(d) = Ok /\ Commits(d) /\ done' = done (+) SetToBag({d})
       \/ Reverts(Verdict(d)) /\ UNCHANGED done
    /\ UNCHANGED <<offer, pending, slashed, asking, took, list>>

\* Anyone calls the contract by other means.
ChainMoves == EscrowNext /\ UNCHANGED bookVars

Next ==
    \/ \E n \in NoteId, seller \in Seller, face \in Amount :
            RunEnds(n, seller, face)
    \/ \E key \in Account :
        \/ \E seller \in Seller, face \in Amount \cup {0} : ClickOpen(key, seller, face)
        \/ \E i \in DOMAIN list : ClickFund(key, i)
        \/ \E call \in Calls, i \in DOMAIN list : ClickSettle(key, call, list[i])
    \/ \E call \in Calls : ClickFails(call)
    \/ \E ask \in asking :
        \/ Heard(ask)
        \/ Unheard(ask)
        \/ NotSent(ask)
    \/ \E d \in BagToSet(waiting) : Execute(d)
    \/ ChainMoves

Spec == EscrowInit /\ BookInit /\ [][Next]_vars

-----------------------------------------------------------------------------
(* Properties.                                                              *)

\* The type of the page's state, and the chain's own.
BookTypeOK ==
    /\ EscrowTypeOK
    /\ offer \in Deploy \cup {None}
    /\ pending \subseteq Calls
    /\ slashed \in BOOLEAN
    /\ asking \subseteq Ask
    /\ IsABag(waiting) /\ BagToSet(waiting) \subseteq Deploy
    /\ took \in [NoteId -> SUBSET Calls]
    /\ IsABag(done) /\ BagToSet(done) \subseteq Deploy
    /\ list \in Seq(Entry)

\* How many deploys for a note, of some kinds of call, have taken effect.
Effects(n, calls) ==
    SumFunctionOnSet(done, {d \in BagToSet(done) : d.note = n /\ d.call \in calls})

\* The list is ahead of the chain by exactly the accepted deploys: every entry
\* is there, and is shown funded or repaid, because the node took a deploy that
\* says so (FundNotePanel.tsx:90-91), and as soon as such deploys have taken
\* effect the chain is at least as far along as the list says.
ShownWasAccepted ==
    \A i \in DOMAIN list :
        LET n == list[i].note
            claims == CASE list[i].status = "open"   -> {"open_note"}
                        [] list[i].status = "funded" -> {"open_note", "fund_note"}
                        [] list[i].status = "repaid" ->
                               {"open_note", "fund_note", "mark_repaid"}
        IN /\ claims \subseteq took[n]
           /\ (\A call \in claims : Effects(n, {call}) > 0) =>
                CASE list[i].status = "open" -> Exists(n)
                  [] list[i].status = "funded" ->
                        HasStatus(n, {"Funded", "Repaid", "Defaulted"})
                  [] list[i].status = "repaid" -> HasStatus(n, {"Repaid"})

\* However often a button is pressed after a lost answer, and though repayment
\* and default may both be in flight for one note, a note is funded at most
\* once and settled at most once (fund_note, mark_repaid, declare_default).
ActsOnce ==
    \A n \in NoteId :
        \A calls \in {{"open_note"}, {"fund_note"}, {"mark_repaid", "declare_default"}} :
            Effects(n, calls) <= 1

\* A fund_note deploy of the panel takes effect only for the face value the
\* contract has on record, and makes its signer the investor: an entry whose
\* amount or id is wrong costs its investor nothing (fund_note's WrongAmount).
FundedAsSigned ==
    \A d \in BagToSet(done) : d.call = "fund_note" =>
        /\ d.amount = notes[d.note].face
        /\ d.account = notes[d.note].investor

\* No gas is burnt on a call only the owner may make: a deploy keeps the key
\* its click found to be the owner's, so no accepted deploy is one the contract
\* would revert with NotOwner (FundNotePanel.tsx:116,169, UnderwritePanel.tsx:146).
OnlyTheOwnerCalls ==
    \A d \in BagToSet(waiting) : Verdict(d) # "NotOwner"

Settled == waiting = EmptyBag

\* As the panel says when no entry is open ("All opened notes are funded or
\* repaid.", FundNotePanel.tsx:225), once the chain has executed all it took: no
\* listed note is still open, or in default.
AllFundedOrRepaid ==
    list # <<>> /\ OpenEntries = {} /\ Settled =>
        \A i \in DOMAIN list :
            ~HasStatus(list[i].note, {"Open", "Defaulted"})

\* As the panel says when a default was sent ("bond slashed to the investor.",
\* FundNotePanel.tsx:357), once the chain has executed it: some note of the
\* list is in default.
SlashedWhenSaid ==
    slashed /\ Settled =>
        \E n \in NoteId : HasStatus(n, {"Defaulted"})

\* As the panel says of funding ("The escrow forwards the full amount to the
\* seller", FundNotePanel.tsx:219, and the seller shown above the button, 262):
\* the motes of a fund_note of the panel go to the seller the entry shows.
PaysTheSellerShown ==
    \A d \in BagToSet(done) :
        d.call = "fund_note" => notes[d.note].seller = d.seller

ShownAs(n, status) ==
    Cardinality({i \in DOMAIN list : list[i].note = n /\ list[i].status = status})

\* As the page says of its list ("a note stayed "Funded" in the proof table
\* after mark_repaid had actually executed on chain and the panel had its
\* receipt", HomeDashboard.tsx:48-50, as a thing of the past): an entry shown
\* repaid, of a note that is, is never shown funded again.
RepaidStaysRepaid ==
    [][\A n \in NoteId : HasStatus(n, {"Repaid"}) =>
        ShownAs(n, "repaid") <= ShownAs(n, "repaid")']_vars

\* The shape of the book, and that it is ahead of the chain by exactly the
\* accepted deploys (FundNotePanel.tsx:90-98).
BookInvariant == BookTypeOK /\ ShownWasAccepted
=============================================================================
