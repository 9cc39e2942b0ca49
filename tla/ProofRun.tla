------------------------------- MODULE ProofRun -------------------------------
(***************************************************************************)
(* agent/scripts/prove.ts: eight calls made one after the other against the *)
(* deployed contract, each waited for, and the file that says what they      *)
(* proved.  Meanwhile the contract belongs to everybody.                     *)
(*                                                                         *)
(* A deploy the node has taken is executed later, or never; the script polls *)
(* for it.  A call the account cannot pay for, or whose arguments Odra        *)
(* cannot decode, fails without the contract's code.                         *)
(***************************************************************************)
EXTENDS ReceivableEscrow, Sequences

CONSTANTS
    Signer,                \* whose key OWNER_SECRET_KEY_PATH names
    Good, Risky, Missing,  \* the ids of the run, fresh by the clock
    FaceValue,                  \* faceValue
    LowScore, HighScore,   \* 10, below the bar, and 80 or 90, above it
    MaxPolls,              \* polls in wait's timeout: 60 in the code
    MaxMoves               \* bound: moves of others during the run

\* A row of `steps`, and PROOF.json.
Row == [result : {"ok", "reverted"}, errorCode : Nat, named : BOOLEAN]

File == [distinctRejectionCodes : SUBSET Nat, steps : Seq(Row)]

\* The ids are base, base + 1 and base + 999.
ASSUME RunAssumption ==
    /\ Signer \in Account
    /\ {Good, Risky, Missing} \subseteq NoteId
    /\ Good # Risky /\ Good # Missing /\ Risky # Missing
    /\ FaceValue \in Nat \ {0} /\ {FaceValue, FaceValue \div 2} \subseteq Amount
    /\ LowScore < MinRiskScore /\ HighScore >= MinRiskScore
    /\ {LowScore, HighScore} \subseteq Score
    /\ MaxPolls \in Nat \ {0} /\ MaxMoves \in Nat
    /\ None \notin File

VARIABLES
    step,       \* the scenario the run is at
    phase,      \* "send", "wait", "done" or "failed"
    result,     \* of the last deploy: "none", "pending", Ok, or an error
    polls,
    record,     \* steps, as the script keeps them
    happened,   \* what each executed deploy came to
    proof,      \* PROOF.json, None before the script writes it
    disturbed,  \* others moved what the scenarios speak of
    moves

scriptVars == <<step, phase, result, polls, record, happened, proof>>
vars       == <<escrowVars, scriptVars, disturbed, moves>>

-----------------------------------------------------------------------------
(* The scenarios.                                                           *)

Opens(n, score, expect) ==
    [entry |-> "open_note", note |-> n, score |-> score, attached |-> 0,
     expect |-> expect]

Funds(n, amount, expect) ==
    [entry |-> "fund_note", note |-> n, score |-> 0, attached |-> amount,
     expect |-> expect]

Repays(n, expect) ==
    [entry |-> "mark_repaid", note |-> n, score |-> 0, attached |-> 0,
     expect |-> expect]

Half == FaceValue \div 2

\* Mutant: the funding control comes before the refusal of an open note.
Scenarios_Swapped ==
    << Opens(Good, HighScore, Ok), Opens(Risky, LowScore, "RiskTooHigh"),
       Opens(Good, HighScore, "NoteExists"), Funds(Missing, FaceValue, "NoNote"),
       Funds(Good, Half, "WrongAmount"), Funds(Good, FaceValue, Ok),
       Repays(Good, "NotFunded"), Repays(Good, Ok) >>

Scenarios ==
    << Opens(Good, HighScore, Ok),
       Opens(Risky, LowScore, "RiskTooHigh"),
       Opens(Good, HighScore, "NoteExists"),
       Funds(Missing, FaceValue, "NoNote"),
       Funds(Good, Half, "WrongAmount"),
       Repays(Good, "NotFunded"),
       Funds(Good, FaceValue, Ok),
       Repays(Good, Ok) >>

Call == Scenarios[step]

\* Why the call would not commit: what it attaches is the account's to begin with.
CallError(c) ==
    IF c.attached > wallet[Signer] THEN "NoFunds"
    ELSE CASE c.entry = "open_note"   -> OpenNote_Error(Signer, c.note, c.score)
           [] c.entry = "fund_note"   -> FundNote_Error(c.note, c.attached)
           [] c.entry = "mark_repaid" -> MarkRepaid_Error(Signer, c.note)

\* The seller of the notes is the signer.
Commits(c) ==
    \/ c.entry = "open_note"
       /\ \E h \in Hash : NoteOpened(Signer, c.note, Signer, FaceValue, c.score, h)
    \/ c.entry = "fund_note" /\ NoteFunded(Signer, c.note, c.attached)
    \/ c.entry = "mark_repaid" /\ NoteRepaid(Signer, c.note)

-----------------------------------------------------------------------------
(* Errors, as the node words them and as the script reads them.              *)

\* The discriminants of the contract's errors; 64647 is Odra's own.
Code(e) ==
    CASE e = "NotOwner" -> 1 [] e = "NoteExists" -> 2 [] e = "RiskTooHigh" -> 3
      [] e = "NoNote" -> 4 [] e = "AlreadyFunded" -> 5 [] e = "WrongAmount" -> 6
      [] e = "NotFunded" -> 7 [] e = "NotBonded" -> 21 [] e = "BadArguments" -> 64647

\* Mutant: any user error is the contract's.
userErrorCode_Any(e) == IF e \in {Ok, "NoFunds"} THEN 0 ELSE Code(e)

\* 0 for null.
userErrorCode(e) ==
    IF e \in {Ok, "NoFunds"} \/ Code(e) >= 64535 THEN 0 ELSE Code(e)

\* ERRORS: the codes the script has a name for.
Named == 1..7

Step(r) == [result    |-> IF r = Ok THEN "ok" ELSE "reverted",
            errorCode |-> userErrorCode(r),
            named     |-> userErrorCode(r) \in Named]

Distinct(steps) ==
    {s.errorCode : s \in {steps[i] : i \in DOMAIN steps}} \ {0}

-----------------------------------------------------------------------------
(* The run.                                                                 *)

\* The contract as installed, its deployer bonded or not.
RunInit ==
    /\ \E stake \in {0, MinBond} :
        /\ stake <= Wallet0[Owner]
        /\ bonds = [a \in Account |->
                     IF a = Owner THEN [ZeroBond EXCEPT !.amount = stake] ELSE ZeroBond]
        /\ wallet = [Wallet0 EXCEPT ![Owner] = @ - stake]
        /\ purse = stake
    /\ defaulted = [n \in NoteId |-> FALSE]
    /\ notes = [n \in NoteId |-> None]
    /\ paidOut = [n \in NoteId |-> 0]
    /\ step = 1
    /\ phase = "send"
    /\ result = "none"
    /\ polls = 0
    /\ record = <<>>
    /\ happened = <<>>
    /\ proof = None
    /\ disturbed = (CallError(Scenarios[1]) # Ok \/ wallet[Signer] < FaceValue)
    /\ moves = 0

\* send and sendPayable: the node takes the deploy.
Send ==
    /\ phase = "send"
    /\ phase' = "wait"
    /\ result' = "pending"
    /\ polls' = 0
    /\ UNCHANGED <<escrowVars, step, record, happened, proof, disturbed, moves>>

\* The node executes it, whether or not the script still waits.
Execute ==
    LET error == CallError(Call)
    IN  /\ phase # "send" /\ result = "pending" /\ step \in DOMAIN Scenarios
        /\ \/ error = Ok /\ Commits(Call) /\ result' = Ok
           \/ error # Ok /\ result' = error /\ UNCHANGED escrowVars
           \/ result' = "BadArguments" /\ UNCHANGED escrowVars
        /\ happened' = Append(happened, result')
        /\ disturbed' = (disturbed \/ result' = "BadArguments")
        /\ UNCHANGED <<step, phase, polls, record, proof, moves>>

\* wait answers, run keeps the step, and main goes to the next.
Executed ==
    /\ phase = "wait" /\ result # "pending"
    /\ record' = Append(record, Step(result))
    /\ step' = step + 1
    /\ phase' = IF step = Len(Scenarios) THEN "write" ELSE "send"
    /\ UNCHANGED <<escrowVars, result, polls, happened, proof, disturbed, moves>>

\* Mutant: polling does not stop.
NotYet_Forever ==
    /\ phase = "wait" /\ result = "pending"
    /\ polls' = (polls + 1) % MaxPolls
    /\ UNCHANGED <<escrowVars, step, phase, result, record, happened, proof,
                   disturbed, moves>>

\* Mutant: the time is not looked at.
NotYet_Untimed ==
    /\ phase = "wait"
    /\ polls' = polls + 1
    /\ UNCHANGED <<escrowVars, step, phase, result, record, happened, proof,
                   disturbed, moves>>

\* Not executed yet, or the node answers with an error.
NotYet ==
    /\ phase = "wait" /\ polls < MaxPolls
    /\ polls' = polls + 1
    /\ UNCHANGED <<escrowVars, step, phase, result, record, happened, proof,
                   disturbed, moves>>

\* wait throws: main ends without a file.
TimesOut ==
    /\ phase = "wait" /\ polls = MaxPolls
    /\ phase' = "failed"
    /\ UNCHANGED <<escrowVars, step, result, polls, record, happened, proof,
                   disturbed, moves>>

\* putDeploy or a poll throws; the node may have taken the deploy.
Fails ==
    /\ phase \in {"send", "wait"}
    /\ phase' = "failed"
    /\ result' \in IF phase = "send" THEN {"none", "pending"} ELSE {result}
    /\ UNCHANGED <<escrowVars, step, polls, record, happened, proof, disturbed, moves>>

WriteProof ==
    /\ phase = "write"
    /\ proof' = [distinctRejectionCodes |-> Distinct(record), steps |-> record]
    /\ phase' = "done"
    /\ UNCHANGED <<escrowVars, step, result, polls, record, happened, disturbed, moves>>

\* Anyone calls the contract, the owner from the desk included.
ChainMoves ==
    /\ moves < MaxMoves /\ phase \in {"send", "wait"}
    /\ EscrowNext /\ escrowVars' # escrowVars
    /\ moves' = moves + 1
    /\ disturbed' = \/ disturbed
                    \/ wallet'[Signer] # wallet[Signer]
                    \/ bonds'[Signer] # bonds[Signer]
                    \/ notes' # notes
    /\ UNCHANGED scriptVars

Script == Send \/ Executed \/ NotYet \/ TimesOut \/ Fails \/ WriteProof

RunNext == Script \/ Execute \/ ChainMoves

RunSpec == RunInit /\ [][RunNext]_vars

\* The script runs on: every request of it is answered or throws.
FairSpec == RunSpec /\ WF_vars(Script)

-----------------------------------------------------------------------------
(* Properties.                                                              *)

RunTypeOK ==
    /\ step \in 1..Len(Scenarios) + 1
    /\ phase \in {"send", "wait", "write", "done", "failed"}
    /\ polls \in 0..MaxPolls
    /\ record \in Seq(Row) /\ Len(record) = step - 1
    /\ phase \in {"write", "done"} <=> step > Len(Scenarios)
    /\ proof \in File \cup {None}
    /\ proof # None <=> phase = "done"

\* Every row of the file is what the node made of that deploy, and every code it
\* counts as a rejection was raised by the contract ("codes at or above that are
\* Odra-internal and are NOT counted", prove.ts:386).
ProofIsTrue ==
    proof # None =>
        /\ \A i \in DOMAIN proof.steps :
            /\ i \in DOMAIN happened
            /\ (proof.steps[i].result = "ok") = (happened[i] = Ok)
        /\ \A code \in proof.distinctRejectionCodes :
            \E i \in DOMAIN happened :
                happened[i] \notin {Ok, "NoFunds", "BadArguments"}
                /\ Code(happened[i]) = code

\* With a bonded owner's key, and nobody else at work on its notes, each
\* scenario ends as it was meant to: the scenarios do not spoil one another.
ScenariosAreIndependent ==
    ~disturbed => \A i \in DOMAIN happened : happened[i] = Scenarios[i].expect

\* "Polls until executed" (prove.ts:178), with a time limit: the script ends.
RunEnds == <>(phase \in {"done", "failed"})

\* "Each scenario is designed so exactly ONE clause can fail" (prove.ts:11): a
\* refusal the contract makes is the one the scenario is about.
OneClauseCanFail ==
    \A i \in DOMAIN happened :
        happened[i] \notin {"NoFunds", "BadArguments"} =>
            happened[i] \in {Ok, Scenarios[i].expect}

\* "Error discriminants, mirroring contract/src/receivable_escrow.rs"
\* (prove.ts:56): a code of the contract has a name in the file.
CodesAreNamed ==
    \A i \in DOMAIN record : record[i].errorCode # 0 => record[i].named

\* The shape of the script, and that the file it writes is true (prove.ts:228-393).
RunInvariant == RunTypeOK /\ ProofIsTrue
===============================================================================
