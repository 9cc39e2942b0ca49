# Verification of the invoice factoring desk

TLA+ models of this repository's invoice factoring system, the TLC runs that
check them on small instances, and the theorems TLAPS proves about them for all
instances. Paths below are relative to the repository's root unless they name a
module or a `.cfg` file of this directory. `PROJECT.json` maps every definition
to the lines it models.

## 1. The system

| Component | State | Operations | Talks to |
|---|---|---|---|
| **Underwriter bond** `contract/src/underwriter_bond.rs` | `bonds`, `defaulted`, `min_bond` | `post_bond`, `withdraw`, `slash` | called by the escrow only |
| **Receivable escrow** `contract/src/receivable_escrow.rs` | `owner`, `min_risk_score`, `notes`, one purse | `open_note`, `fund_note`, `mark_repaid`, `post_bond`, `withdraw_bond`, `declare_default` | any account, by transactions |
| **Agent loop** `agent/src/kernel/loop.ts` | one run: messages, trace, counters | ask the model, perform its tool calls, close | the language model, the tools |
| **Proposal path** `underwriting-tools.ts`, `note-proposer.ts`, `underwriter.ts`, `server.ts` | per request: a proposer with its last deploy | the tools; `POST /api/underwrite`, `/api/broadcast` | the reader, the oracle, the panel |
| **Risk oracle and provider** `risk-oracle.ts`, `risk-provider.ts` | none | the 402 handshake, the HMAC | the provider over HTTP |
| **Reader and state client** `escrow-reader.ts`, `kernel/odra-state.ts`, `kernel/clvalue.ts` | cached seed URef and purse | bounded retries, field reads, decoding | a Casper node |
| **Session store** `kernel/session.ts` | challenges, sessions | issue, redeem, resolve, sweep | nobody at this commit |
| **Underwrite panel** `web/components/UnderwritePanel.tsx` | the run shown, the deploy's status | run a request, sign its deploy | server, wallet |
| **Desk list, funding panel** `HomeDashboard.tsx`, `FundNotePanel.tsx` | the notes listed and their status | fund, mark repaid, declare default | wallet, server |
| **Bond panel** `BondPanel.tsx` | the bond shown | refresh, post | server, wallet |
| **Wallet** `web/lib/wallet.tsx`, `directWallet.ts` | account, direct key, grace timer | connect, disconnect, send | two wallet paths |
| **Evidence scripts** `agent/scripts/*.ts`, `web/scripts/syncProof.mjs` | `PROOF.json` | prove, record, transfer, copy | a node |

A request travels: panel → `/api/underwrite` → agent loop → tools (which read the
chain and buy a report) → an unsigned deploy → panel → wallet → `/api/broadcast`
→ node → contract. Nothing is locked along the way; the contract alone
decides, some time later.

### What is hard, and what makes each part correct

- **Contract.** One purse holds every underwriter's stake, and two modules keep
  books about the same default. Correct: the purse is exactly the stakes; no
  account pays for another; a note's life is linear; the books never disagree;
  a default pays in full or empties the bond.
- **Agent loop.** Every tool call can fail in several ways and the model may do
  anything. Correct: each call is answered before the model is asked again, the
  trace holds the evidence of every call, the run ends within its budget.
- **Proposal path and panel.** The chain moves between the reads, the build, the
  signature and the execution, and a proposal is reassembled from a trace.
  Correct: a deploy can fail only because the chain moved; it belongs to its
  request; what is listed was accepted.
- **State client.** An absent key and a failed read look alike; two reads may
  see two states; caches go stale. Correct: no failure is read as an answer.
- **Desk list and bond panel.** The node accepts before it executes. Correct:
  what is shown is what happened, and a retry does not act twice.
- **Wallet.** Callbacks of two wallets, a timer and two buttons interleave.
  Correct: a disconnect is final until the next connect; the newest account wins.
- **Session store.** A nonce is used once, whoever comes first; lifetimes.
- **Evidence scripts.** Eight calls that build on one another, against a contract
  others use. Correct: the file says what the chain did.

`PROJECT.json` lists each hazard at its line, with the properties that cover it.

## 2. Modules

| Module | Models | Built on |
|---|---|---|
| `UnderwriterBond` | the bond's functions: what each checks and writes | |
| `ReceivableEscrow` | every entry point, every caller, the purses | `UnderwriterBond` |
| `CollateralisedNotes` | abstract: invoices, and a separate pot for every stake | |
| `MCReceivableEscrow` | constants for TLC | `ReceivableEscrow` |
| `ReceivableEscrowProofs` | sums, the invariants, the action properties and the refinement of `CollateralisedNotes`, proved | `ReceivableEscrow` |
| `AgentLoop` | one run of `runAgentLoop` | |
| `ProposalDesk` | request, tool, builder, panel, signature, execution | `ReceivableEscrow` |
| `DeskBook` | the list of notes, its buttons, the wallet, the node, the chain | `ReceivableEscrow` |
| `BondBoard` | the bond panel, `/api/escrow-terms`, the stake | `ReceivableEscrow` |
| `Wallet` | the page's account, the SDK, the extension, the grace timer, `sendDeploy` | |
| `FieldRead` | abstract: what a read of the chain promises | |
| `StateClient` | `OdraStateClient`: requests, retries, two caches | refines `FieldRead` |
| `EscrowReader` | the reader and the reading tools: several reads, one answer | `ReceivableEscrow` |
| `StoredValue` | a dictionary key, the bytes of a note or a bond, the cursor | |
| `ProofRun` | `prove.ts`: eight calls and the file about them | `ReceivableEscrow` |
| `SessionStore` | challenges, signatures, sessions, the clock | |
| `LoopProofs` | the loop's invariants, proved | `AgentLoop` |
| `DeskProofs` | the desk's properties, proved | `ProposalDesk`, `ReceivableEscrowProofs` |
| `BookProofs` | the list's and the buttons' properties, proved | `DeskBook`, `ReceivableEscrowProofs` |
| `ReadingProofs` | what the reader and the bond panel say, proved | `EscrowReader`, `BondBoard`, `ReceivableEscrowProofs` |
| `ClientProofs` | the refinement of `FieldRead`, the keys and the decoding, proved | `StateClient`, `StoredValue` |
| `RunProofs` | the prover's scenarios and file, proved | `ProofRun`, `ReceivableEscrowProofs` |
| `AccountProofs` | sessions and the connected account, proved | `SessionStore`, `Wallet` |
| `MC...` | constants for TLC | the module named |

### Contract: `UnderwriterBond`, `ReceivableEscrow`

A transaction is atomic: it commits all it does or reverts and leaves all as it
was, attached motes included. So an entry point `E` is one action, `E(...)`: it
reverts (a stutter) when `E_Error`, the first failing check in the code's
order, is not `Ok`, and otherwise takes the step named for the event it emits
(`NoteOpened`, `NoteFunded`, `NoteRepaid`, `BondPosted`, `BondWithdrawn`,
`NoteDefaulted`). A bond function runs inside the calling action, as `F_Error` and
`F`. `EscrowNext` lets every account call every entry point with every argument.

The code's `notes`, `bonds` and `defaulted` are the variables of the same names;
a missing mapping entry is `None`, `ZeroBond` or `FALSE`, as the getters answer.
`purse` and `wallet` are the host's: the contract's own purse and the accounts'
main purses. `paidOut` keeps the `paid` field of the `NoteDefaulted` event. Gas
is left out. Amounts are natural numbers: a `U512` cannot overflow below the
token supply, and `defaults`, a `u32`, needs 2^32 defaults. A transfer to an
account on Casper runs no code of the receiver, so a call cannot be re-entered.

`CollateralisedNotes` says what this should amount to without a common purse, a
replay flag or an error: a stake is a pot of its own; motes move only between
an account and its pot, from a buyer to a seller, or once per invoice from the
underwriter's pot to the buyer. `Promise` in `ReceivableEscrow` is the mapping
and `KeepsThePromise` the claim.

### Agent loop: `AgentLoop`

`pc` is the await the run is at. The model's four answers to a request are four
actions (`ModelThrows`, `ModelSendsNothing`, `ModelAnswers`, `ModelRequests`), a
tool call's three outcomes three more (`MalformedArguments`, `ToolFails`,
`ToolReturns`), and `Close` is the memo. `asked` and `answers` are the two sides of
the tool protocol in `messages`; `trace` keeps the kind of every entry. The
requests name function tools only, so the model's messages hold no call of
another type (`loop.ts:192` would leave one unanswered). Texts are left out.

### Proposal: `ProposalDesk`

`propose_open_note` awaits its reads and then the builder, and so is four steps:
`Propose` (the checks on arguments), `ReadTerms` (bond and bar), `ReadNote` (no note
has the id in the state the read took) and `BuildDeploy` or `BuildFails`; `Refuse` and
`ReadFails` leave at either read. The chain goes on between any two, so a note may be
opened after the read and before the build. Two more are the request's ends, `EndRun`
and `RunFails`. The panel keeps the response in `shown`
and reads the note id from the last call and the face value from the last
result, as `lastCall` and `lastFace`. `Sign` is the wallet, the relay, the node's
acceptance and the listing; in `SignUnheard` the answer is lost. `Execute(i)` is
`OpenNote` of the contract with what deploy `i` says. `ChainMoves` is the whole of
`EscrowNext`, at any moment.

The model is free to call the tool with anything. The connected key at the
signature is the configured owner's (the panel insists); the key of the request
may be any account's, and the node refuses a signature by another account. The
owner and the bar never change after `init`, so of the terms only the bond is a
moving value. The minimum bond is positive, as in every install the repository
describes; with a minimum of zero the reader's null-is-false differs from the
contract's `is_bonded`, which is left to the state client's model. The report is
its outcome only: verified, or a throw. Left out: the seller and scenario fields
of the form, the figures displayed, and conversion of amounts and identifiers.

The seller field, which may be edited between the run and the signature, is in
`DeskBook`.

### Desk and bond panel: `DeskBook`, `BondBoard`

A deploy has four moments: the click that builds it (`ClickOpen`, `ClickFund`,
`ClickSettle`), the node's answer (`Heard`, `Unheard`, `NotSent`), the chain's execution (`Execute`, a call of `ReceivableEscrow` with what the
deploy says, which may revert) and what the panel lists (`ListAfter`). They are
separate actions, so clicks overlap, the wallet's account may change while
its window is open, and executions come in any order. Everybody's other calls go
on, as `EscrowNext`. The list is never read from the chain, and never set back: this is
the code's, and `ShownWasAccepted` says how far it can be
wrong.

In `BondBoard` a refresh is a member of the bag `reads`, first asked, then answered
from the chain's state of that moment, then delivered; nothing ties it to the
key connected when it is delivered. The delayed refresh of a stake is a member of
`timers` with the key of the stake.

### Wallet: `Wallet`

One action per callback: the SDK's load, its answers and events, its window,
the extension's popup and its approval, the grace timer, the extension path (`RunDirect`,
which opens a popup where there is an `extension` and only logs a failure where there is none), the effect that mirrors
the account for the timer (`RunEffect`, apart from the change it mirrors), the two
buttons and `sendDeploy`'s awaits. The SDK and the extension are external: they may
answer, late or never, or throw.

### Reading the chain: `FieldRead`, `StateClient`, `EscrowReader`, `StoredValue`

`FieldRead` is the promise: a read ends with what some version of the contract held at
some moment between its start and its end, or with an error. Two answers of null are
allowed beside: a purse may be missing because a version had none earlier (`NoPurse`),
and a read the contract is upgraded under may look for the new version's item in a
state from before it (`Missed`). `StateClient` is the code: a read has its state root's
request and its seed's request under way at once, then one for the item; each is tried
again a bounded number of times; the seed and the purse are cached for the life of the
process, with the version they are of. `NewBlock` and `Upgrade` are the chain's: an
upgrade appends a version, which a cached seed does not see. A read that throws at its
root leaves its seed's request under way, which still fills the cache (`StrayEnds`).
`Promise` maps one to the other. `EscrowReader` stands on the promise, for a contract
that is not upgraded between the reads of one operation: an operation reads several fields, each at a
state of its own (`Look`), and answers when the last is in. `StoredValue` is one read's
bytes: the index and the key (`nested`, `dictionaryItemKey`), then one action per
method of the cursor over bytes that are whole or damaged.

### Scripts: `ProofRun`

The eight scenarios in order, each sent, polled for and recorded, while others call
the same contract and the chain may take a deploy and never execute it.

### Sessions: `SessionStore`

A challenge is a nonce, a key and a lifetime. `Redeem` has the code's order: the
challenge is deleted first, whatever comes of it. The clock may be set back,
and a restart empties the memory. `issued`, `signed`, `tried`, `granted` and `refused`
are the history the properties speak of.

## 3. What the runs check

| Run | Instance | What it shows |
|---|---|---|
| `escrow` | 3 accounts, 2 notes, amounts up to 2 | the nine properties of the contract below, its refinement among them |
| `loop` | 3 steps, 2 calls a message | six properties of a run, one of them liveness |
| `desk` | 2 accounts, 1 note id, 2 requests, 2 deploys | five properties of the path from request to note |
| `lists` | the same, 2 note ids | the panel lists another note than the deploy it signs (section 5) |
| `book` | 2 accounts, 1 note, 2 deploys waiting, 1 entry | the list against the contract |
| `bond` | 2 accounts, 2 reads, 1 delayed refresh, 1 stake | what the bond panel shows, and that it stops reading |
| `wallet` | 2 accounts, 2 popups | connection, disconnection, sending |
| `client` | 2 readers, 1 key, up to 2 versions, 2 blocks, 2 attempts | the client implements `FieldRead`, upgrades included; every read ends |
| `reader` | 2 accounts, ids 1 and 2 | answers made of several reads were true |
| `stored` | byte 0..4, words of 2, three amounts | keys, decoding, damage |
| `prove` | 2 accounts, 3 ids, 2 polls, 1 foreign call | the prover's scenarios and its file |
| `session` | 2 keys, 2 nonces, 2 tokens, instants 0..2 | the session store |

An invariant named `...Invariant` is the module's type invariant together with the
named invariants of the module, which are described here one by one.

**Contract.** `EscrowTypeOK`: types, and no balance below zero. `BooksAgree`: the
bond's flag, the note's status, its investor and its payout tell one story.
`NeverRefusedLate`: `slash`'s replay guard is unreachable, as its comment says,
and no transfer out of the purse fails. `PurseIsTheBonds`: custody.
`EveryAccountAddsUp`: what an account holds, stakes, lost and invested is what it
started with, sold and got back. `ReputationIsHistory`: `slashed` and `defaults` are
the record of the notes. `NoteHistory`: a note's life and terms.
`ShortOnlyWhenEmpty`: no investor is paid short while collateral remains.
`KeepsThePromise`: every committed call is a step of `CollateralisedNotes`.

**Loop.** `AnsweredBeforeAsked`: the tool protocol, whatever fails.
`EvidenceComplete`: one outcome in the trace for each call counted.
`EndIsTold`: a run that gave up returns its trace, marked, whatever becomes of its memo,
and the trace says which end it was. `TripsBounded`, `RunEnds`.

**Desk.** `DeployIsThisRuns`: no deploy of an earlier request or another key.
`ListedWasAccepted`: no note is listed on a hash the node never took.
`OnlyViableDeploys`: no deploy reverts `NotOwner` or `RiskTooHigh`.
`RevertsOnlyOnChange`: a deploy reverts `NotBonded` only if the bond shrank since the tool
read it, and `NoteExists` only if the id was free when the tool read the note.

**Book.** `ShownWasAccepted`: each entry stands on accepted deploys, and once these
have taken effect the chain is as far along as the list. `ActsOnce`: however often a
button is pressed, a note is funded once and settled once. `FundedAsSigned`: motes
move only for the face value on record. `OnlyTheOwnerCalls`: no accepted deploy of
the panel reverts `NotOwner`, since it keeps the key of its click.

**Bond panel.** `ReadingWhenItSaysSo` and `ReadingEnds`: the reading mark stands for a
read and goes. `NoEmptyStake`: no accepted stake reverts `ZeroBond`.

**Wallet.** `DisconnectHolds`: nothing but an answer already under way connects the
page again before the user asks. `TimerOnlyWithoutAccount`: an account calls the
timer off. `NeverSentBothWays`: a deploy given to the relay is not given to the SDK.
`ConnectIsAnswered`: where there is an extension, a click on Connect leads to its popup,
to an account or away; without one it may lead nowhere (section 5).

**Reading.** `KeepsThePromise` of the client: a cached seed may be an old version's, and
still each answer was one version's content meanwhile, never an error taken for an
absent key. `ReadEnds`. `FreeIdIsTheFirst`, `FullMeansFull`: a
scan over a moving chain. `BondedWasTrue`: a failed read is never an absent bond, and
the answer was true at the bond's root (the minimum never changes). `KeysDiffer`: no two fields
share a key. `DecodesWhatIsStored`, `DamageIsLoud`: the value stored, or an error.

**Prover.** `ProofIsTrue`: a row says what the chain did. `ScenariosAreIndependent`: left
alone, every scenario ends as meant. `RunEnds`.

**Sessions.** `SessionsAreProved`: behind a session stands its key's signature over a
challenge issued for it. `OneTryPerNonce`: a nonce is good for one attempt.
`RefusedForGood`: a refused token stays refused, whatever the clock does.

### Bounds, and why they are enough

- *Contract.* Two accounts besides the owner separate seller, investor and an
  outsider; the run covers an account being several of them. Two notes let one
  default touch another's cover, and each note's properties speak of at most
  one note and the sum over the rest. Amounts 0, 1, 2 against a bond of at most
  3 give a loss below, equal to and above it, an empty loss, and a stake below
  and above the minimum. The state space is finite with no constraint: motes are
  conserved.
- *Loop.* Three steps and two calls a message give first, middle and last
  step, and first and last call.
- *Desk.* Two requests and two deploys: a deploy of an earlier request, two
  deploys of one request, and two for the same note id; so one note id is
  enough, and the `lists` run has two. `MaxRuns` and
  `MaxDeploys` are the named bounds. Scores are below, at and above the bar and
  beyond 100.

- *Book.* One entry, two deploys waiting and a bag of them: two clicks of one
  button, repayment beside default, an execution after a lost answer. A second
  seller, needed only for what fails (section 5), is left out.
- *Bond panel.* Two reads overlap; one may be for a former key. `NoteId` is empty:
  the panel opens no notes, so `EscrowNext` is stakes and withdrawals here.
- *Wallet.* Two accounts tell a switch from a return; two popups overlap.
- *Client.* Two reads share a cache in every stage of filling it; two attempts give
  a first, a retry and a last; a second block, a call's or an upgrade, lets root and
  seed differ, a cached seed fall behind, and an older lookup answer last.
- *Reader.* Two ids give first, second and none; every field is read at its own
  state. The minimum bond is positive.
- *Stored.* The algorithms do not depend on the base; a base of 5 has every status
  and a number longer than a digit. Keys are checked for every pair of paths.
- *Prover.* One foreign call at any moment suffices to disturb a scenario; two polls
  give a first and a last.
- *Sessions.* Two of each; the clock passes a lifetime and comes back.

The theorems of section 4 have none of these bounds.

Deadlock is checked for the contract, the client and the reader. It is off where
the system ends or a bound is used up: the loop, the prover, one decoding, the
requests of the desk, and the pages and the store, whose users may stop.

### Fairness

`AgentLoop`: `WF(Next)` in `FairSpec`. Every await of the loop is a model request, which
the client library times out, or a tool, which awaits a bounded number of
requests, each of them retried at most four times with growing delays
(`odra-state.ts:58`) under the HTTP client's own time limits.

`BondBoard`: for each key, `WF` of a read's answer: a fetch is answered or rejected.
`Wallet`: `WF` of the timer and of the effect, which the browser and React run; none of the
wallets, which need a person. `StateClient`: `WF` of the steps of each read (`Goes`), whose every
fetch resolves or rejects. `ProofRun`: `WF(Script)`, the script's own
steps, not the chain's. Nothing is assumed of *which* answer comes.

## 4. What is proved

Every invariant and action property a passing run checks is also a theorem; so are both
refinements. A theorem holds for any sets the constants may be (accounts finite, where
something is summed), any numbers and any bounds, under the `ASSUME`s of the modules it
extends. These say only what the code's types, its
installation or the choice of a model value give: numbers are natural, the owner is an
account, `None`, `Null` and `Absent` are no account, field or number, the
identifiers of the prover's notes differ. Five say more, each for a reason:

- `MinBond > 0` in `ProposalDesk` and `BondBoard`, and as the hypothesis of
  `BondedWasAlwaysTrue`: every install the repository describes has a minimum. With none,
  `BondedWasTrue` fails (section 5).
- Some score passes the bar, in `DeskBook`: otherwise there are no notes to list.
- `FiniteAssumption`: the accounts are finitely many. A sum needs it; a chain has it.
- `WidthAssumption` in `StoredValue`: every number written fits the width it is written
  in, the length of a whole value and of a number among them. In the code a `u32` has four
  bytes, a `U512` at most 64 and a stored value far less than 2^32; Rust's types see to it.
- No drift (`~Drifted`), in `StoredInvariantHolds`: what is decoded has the layout the
  reader expects. A contract with its fields in another order may be misread (section 5).

A module of theorems may take two components that share no state (`AccountProofs`,
`ClientProofs`) or only the contract (`ReadingProofs`); each theorem names the
specification it is about.

### The argument, component by component

Each proof has the same form: an inductive invariant, checked by TLC as an invariant of
the component's run before it was proved; one lemma or step per action; and the
properties as consequences.

**Contract** (`ReceivableEscrowProofs`). `StepCases`: a call is one of the six committed
steps or a stutter, and every later proof has one case for each.

- *Sums.* `PurseIsTheBonds`, `ReputationIsHistory` and `EveryAccountAddsUp` add over a set
  with `SumFunctionOnSet`, which is defined by recursion. The prover has no induction over
  such a definition, but has well-founded orders: `SubsetInduction` takes the smallest
  subset a fact fails for, under `FS_StrictSubsetOrderingWellFounded`. With it a table of
  the sums of all subsets exists (`TallyExists`) and the operator is that table
  (`SumIsTally`). The rest uses `SumEmpty`, `SumAdd` (one element more), `SumChange` (one
  value changed), `SumSame` and `SumCovers` (no term exceeds the sum) only.
- `TypeCorrect`: inductive, because a withdrawal and a payout are bounded by the bond.
  That the *purse* stays natural needs the check the host makes of a transfer.
- `BooksAlwaysAgree`: inductive with the types. `PurseIsAlwaysTheBonds`: likewise; every
  step changes one bond and the purse by the same amount.
- `NeverRefusedLateHolds`: the books agree, so the replay guard is not reached; no stake
  exceeds the purse, so no transfer falls short.
- `ReputationIsAlwaysHistory`: a default adds one note to those struck and its payout to
  the sum; `BooksAgree` says that the note was not among them.
- `EveryAccountAlwaysAddsUp`: a note's share in an account's position depends on that note
  alone (`PositionKept`), and each step changes one note's.
- `NoteHistoryHolds`, `ShortOnlyWhenEmptyHolds`: from the types and the books.
- `ContractKeepsThePromise`: one lemma for each committed step (`OpenMaps` to
  `WithdrawMaps`). `BooksAgree` is needed for the default, whose investor must exist.

**Loop** (`LoopProofs`). `Accounted`: the calls asked are those answered and those
queued, each once. `Counted`: the entries of the trace that are evidence are as many as
the calls counted. `Paced`: the requests sent are the steps begun. The property itself
is not inductive: `Accounted` adds that only the steps so far asked anything, which is
why the calls of the next message are new.

**Desk** (`DeskProofs`). `DeployIsThisRuns` is not inductive: what is shown comes from a
request in flight, whose deploy must be its own (`RunOwnsItsDeploy`); nor is
`OnlyViableDeploys`, which rests on what the tool has established at each of its awaits
(`CallChecked`). `RevertsOnlyOnChangeHolds` compares the contract's checks at the execution with what
every deploy carries of the tool's two reads: a bond that was enough then
(`TermsRefusal`) and an id that was free.

**Book** (`BookProofs`). The list and the chain are related through the deploys:
`ListWasTaken` (what the list says, the node took), `DoneShows` (what was executed
shows in the note, for good) and `DoneOnce` (the executed deploys of a kind are no
more than the note's status admits). From the last follows `ActsAtMostOnce`; that
nobody but the owner calls, from `PanelsMakeCalls`, for clicks and deploys alike. `Effects` is a
sum over a bag of deploys and uses the contract's sum lemmas.

**Bond panel** (`ReadingProofs`). `StakesAreReal` is what `NoEmptyStake` rests on: a stake
keeps its amount from the click to the execution.

**Reader** (`ReadingProofs`). `Sighted` carries each value seen to a moment of the
reading: a note seen absent was absent at the start, one seen present is there now
(`NotesStay`), and the answer to *bonded* was `is_bonded`'s at some moment.
`MinIsLeast` makes the first free id of the scan the least one.

**Client** (`ClientProofs`). `Sound` says what a request under way may be used for: a root
taken since the read began, an item asked for with root and seed in hand only.
`CachesOK` says what the two caches hold: a version `Findable` by now, not the newest.
`ChainOK` has that no version is ever lost; so where an item is asked for at a root its
version is not in yet, an upgrade came under the read, and null is `Missed`.
`ClientKeepsThePromise` then maps each end of a
read to `FieldRead`'s answer or throw and everything else to a stutter.

**Keys** (`ClientProofs`). `KeysAlwaysDiffer`: the numbers of the fields of one level and of
two do not meet, and `nested` is injective for indices below sixteen.

**Decoding** (`ClientProofs`). Whatever the base and the widths, the code's 256, 4 and 8
among them. The prover has no induction rule, but its library says that the order of the
naturals is well-founded; `EveryNumber`, taken from that, is the induction the rest uses.

- *A number.* `ShiftedIs` unfolds the recursion that takes digits off a number, and
  `NumberIsBack` puts them together again: read from the top, the digits from the i-th on
  are what is left of the number when i of them are off.
- *A value.* `FlattenLies`: in the bytes of a struct there is a place where each field
  starts, the next one where it ends, and its encoding lies there. `WrittenIsRead`: where
  the encoding of a field lies at the cursor, the method for its kind takes exactly its
  bytes and returns its value; and `PrefixIsRight`, that the length prefix is that of the
  bytes inside it exactly when none of them was lost or added outside.
- *The cursor.* `DecodeInvariant`: the bytes inside the prefix are those stored, with one
  less or more at the end (`Contents`); the cursor is where the fields read so far end
  (`Cursor`), and these are the first ones (`FieldsRead`). It is inductive because the last
  field has a fixed width (`LaidOut`): when a byte is missing, only that field can be cut
  (`CutIsShort`), and no earlier one reads across the end. So `AtField` adds that the last
  field of a short value is never passed, nor an unknown status.

**Prover** (`RunProofs`). `RecordOK`: the rows follow the executions, one behind between an
execution and the poll that sees it. `AsMeant`: left alone, the run's three notes are
after `k` scenarios where `Situation(k)` says, and each scenario has ended as meant.
`CustodyInTheRun` starts from a contract with one bond, which its specification did not
put there, and carries the books and the purse on from it with the lemmas about one call
(`BooksKept`, `PurseKept`).

**Sessions** (`AccountProofs`). `Grounded`: a grant stands on a challenge issued for its key
and a signature made with it, both of which are for ever. `Untried`: a challenge in
memory was never tried. `Gone`: a refused token was granted once, so that no fresh one
equals it, and has no session; the clock appears in no step of the proof.

**Wallet** (`AccountProofs`). `DisconnectHolds` speaks of the account, which is derived from
three sources; `NothingUnderWay` says of each callback that could set one that it is not
under way. `TimerOnlyUnmirrored`: the timer's callback sees no account.

### The contract under its users

`DeskRunsTheContract`, `BookRunsTheContract`, `BoardRunsTheContract` and `ReadsOnly`: the
compositions implement `EscrowSpec`, whatever the model, the panels, the wallet and the
chain's other users do. So every theorem about the contract holds in each of them, and
what is proved of a component there is about the whole contract. The prover may begin with
the owner bonded, so `RunCallsTheContract` speaks of its steps and `CustodyInTheRun` of its
states.

### What stays with TLC

- *Liveness*: `RunEnds` of the loop and of the prover, `ReadingEnds`, `ConnectIsAnswered`
  and `ReadEnds`. TLAPS reasons about neither fairness nor `ENABLED`.
- *The violation* of the run `lists`, and those of section 5, which are counterexamples.

## 5. Where the code and its documentation differ

One difference is a run of its own, because it puts a wrong note on the desk:

- `lists`: after a refused call that follows a successful one, the panel lists the
  note of the refused call, or a face value of 0, for the deploy it signs
  (`UnderwritePanel.tsx:71`).

The others are stated as definitions at the end of their modules, each with the
sentence it restates. They are in no configuration, since they fail: TLC finds a
counterexample when one is named in the `.cfg` of its module, with the constant given.

| Definition | Constant | The sentence, and what the code does |
|---|---|---|
| `ReceivableEscrow` `CapitalBehindEveryScore` | | "The signer has capital behind every score it submits" (`web/app/page.tsx:28`): `withdraw_bond` does not look at outstanding notes |
| `ReceivableEscrow` `StatusAsDocumented` | | the comment at `receivable_escrow.rs:37` lists three statuses; there is a fourth |
| `AgentLoop` `RoundTripsCapped` | | "Hard cap on model round-trips" (`loop.ts:64`): the close-out is one more |
| `AgentLoop` `ExhaustedMeansMaxSteps` | | `loop.ts:53`: a response without a message in any step counts as exhaustion |
| `ProposalDesk` `RefusesAsTheContractWould` | two ids | `underwriting-tools.ts:282`: the tool's pre-check is in another order |
| `ProposalDesk` `OnlyVerifiedScores` | | `README.md:42`: no code ties the proposed score to a verified report |
| `DeskBook` `AllFundedOrRepaid` | | "All opened notes are funded or repaid." (`FundNotePanel.tsx:225`): a default does not change the list, nor does a reverted funding |
| `DeskBook` `SlashedWhenSaid` | | "bond slashed to the investor." (`FundNotePanel.tsx:357`) is said when the node takes the deploy, which may revert |
| `DeskBook` `PaysTheSellerShown` | two sellers | "The escrow forwards the full amount to the seller" (`FundNotePanel.tsx:219`): the list has the seller in the form at the signature, the deploy the one at the run |
| `DeskBook` `RepaidStaysRepaid` | `MaxListed = 2` | `HomeDashboard.tsx:48-50`: a later accepted funding, bound to revert, shows a repaid note as funded again |
| `BondBoard` `VisitorSeesTheDesk` | | `server.ts:147`: a late answer leaves the bond of the account that left on show |
| `BondBoard` `HashAcknowledged` | | "Never fall back to the locally built hash." (`FundNotePanel.tsx:90`): `BondPanel.tsx:155` does |
| `Wallet` `NoPopupWhenConnected` | | "must not close over stale state" (`wallet.tsx:88`): the mirror lags the account by an effect, and the timer may fire between |
| `Wallet` `CancelledByTheUser` | | `directWallet.ts:114`: with no extension and no SDK the outcome is cancelled though nobody was asked (`wallet.tsx:276`) |
| `Wallet` `ConnectsWithoutSdk` | | "No SDK at all: go straight to the extension" (`wallet.tsx:212`): without the SDK the button never offers to connect (`WalletButton.tsx:10`) |
| `Wallet` `EveryClickIsAnswered` | | "the only way to notice is to time it out and try the path that resolves" (`wallet.tsx:26-27`): without an extension that path throws too, and `wallet.tsx:178` only logs it |
| `StateClient` `NullMeansNoPurse` | `MaxVersions = 1` | `odra-state.ts:196`: a purse created after the client first looked is never seen |
| `StateClient` `SeedIsLive` | | "Newest enabled version ... the last entry is live" (`odra-state.ts:158`): the seed found then is kept for the life of the process, and stays the old version's after an upgrade |
| `EscrowReader` `BondedWasTrue` | `MinBond = 0` | "mirroring the contract's own `is_bonded`" (`escrow-reader.ts:232`): with no minimum, an absent bond suffices for the contract only |
| `StoredValue` `DriftIsLoud` | `Drifted = TRUE` | `clvalue.ts:188`: fields of one type in another order decode without an error |
| `ProofRun` `OneClauseCanFail` | | "exactly ONE clause can fail" (`prove.ts:11`): without a bond, which the prover never posts, `NotBonded` comes first |
| `ProofRun` `CodesAreNamed` | | `prove.ts:56`: the table ends before the bond module's codes |

## 6. Not modelled, and what is left

Rendering (pages, `DecisionLedger`, `ProofPanel`), the command line drivers, the
contract's build drivers and its tests, generated and packaged files
(`graphify-out/`, lock files, wasm) are left out for good: they keep no state.

- *Risk oracle and provider*: modelled by their outcome. The 402 handshake is two
  requests of one function; neither side keeps state between calls.
- *Server routes*: the read-only ones call the reader that `EscrowReader` models; their
  checks of a request's form, and `invoiceIdToNoteId`, are data.
- *Recorder, build step and transfer script*: `record-session.ts` and `syncProof.mjs` copy
  `PROOF.json`, run by hand one at a time. Two things are worth knowing: a second run
  of the recorder puts its rows in the file twice, and the build overwrites the
  committed copy before it finds that the file does not parse.
- *Identifiers above 2^53* (`note-proposer.ts:42`): what happens is in the SDK.
- *A malformed note id* in the last call is `None` in `ProposalDesk`; the panel's
  `Number("")` makes an empty one 0.
- *The text of an absent key.* `odra-state.ts:231` matches three phrases in an error's
  message. `StateClient` takes them to occur in the node's answer to an absent key only;
  an outage worded like one would be read as null.
- *Disabled versions* of a package: the client takes the greatest version, enabled or
  not, and the model has none disabled.

Left to prove: liveness, should a later prover reason about fairness. Left to model: the
command line drivers, if they come to keep state.
