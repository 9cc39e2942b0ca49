------------------------------- MODULE RunProofs -------------------------------
(***************************************************************************)
(* Theorems about ProofRun, for every contract, every signer, every way the  *)
(* polls, the chain and the other callers interleave with the script, and    *)
(* any number of them.                                                      *)
(***************************************************************************)
EXTENDS ProofRun, ReceivableEscrowProofs

-----------------------------------------------------------------------------
(* The inductive invariant.                                                 *)

\* What a deploy may come to.
Results == {Ok, "NoFunds", "BadArguments", "NotOwner", "NoteExists", "RiskTooHigh", "NoNote",
            "AlreadyFunded", "WrongAmount", "NotFunded", "NotBonded"}

\* The scenario the script is at has been executed.
Ran == phase \in {"wait", "failed"} /\ result \notin {"none", "pending"}

\* The script's rows follow what the node made of the deploys, one behind it
\* between an execution and the poll that sees it.
RecordOK ==
    /\ result \in Results \cup {"none", "pending"}
    /\ happened \in Seq(Results)
    /\ Len(happened) = IF Ran THEN step ELSE step - 1
    /\ Ran => happened[step] = result
    /\ phase = "wait" => result # "none"
    /\ phase \in {"write", "done"} => result # "pending"
    /\ \A i \in 1..Len(record) : record[i] = Step(happened[i])
    /\ proof # None => proof = [distinctRejectionCodes |-> Distinct(record), steps |-> record]

\* Where the run's three notes are after k scenarios, left alone.
Situation(k) ==
    /\ Signer = Owner /\ IsBonded(Owner)
    /\ k <= 6 => wallet[Signer] >= FaceValue
    /\ ~Exists(Risky) /\ ~Exists(Missing)
    /\ k = 0 => ~Exists(Good)
    /\ k \in 1..6 => HasStatus(Good, {"Open"}) /\ notes[Good].face = FaceValue
    /\ k = 7 => HasStatus(Good, {"Funded"})

AsMeant ==
    ~disturbed => /\ Situation(Len(happened))
                  /\ \A i \in 1..Len(happened) : happened[i] = Scenarios[i].expect

RunInductive == EscrowTypeOK /\ RunTypeOK /\ RecordOK /\ AsMeant

-----------------------------------------------------------------------------
(* The scenarios.                                                           *)

USE MinBondAssumption, EscrowAssumption

\* What the run's constants are.
LEMMA RunConstants ==
    /\ Signer \in Account
    /\ Good \in NoteId /\ Risky \in NoteId /\ Missing \in NoteId
    /\ Good # Risky /\ Good # Missing
    /\ FaceValue \in Nat /\ FaceValue > 0 /\ FaceValue \in Amount
    /\ Half \in Nat /\ Half < FaceValue /\ Half \in Amount
    /\ LowScore \in Score /\ LowScore < MinRiskScore
    /\ HighScore \in Score /\ HighScore \in Nat /\ HighScore >= MinRiskScore
    /\ MinRiskScore \in Nat
<1>1. /\ Signer \in Account
      /\ Good \in NoteId /\ Risky \in NoteId /\ Missing \in NoteId
      /\ Good # Risky /\ Good # Missing
  BY RunAssumption, Zenon
<1>2. FaceValue \in Nat /\ FaceValue # 0 /\ FaceValue \in Amount /\ Half \in Amount
  BY RunAssumption, Zenon DEF Half
<1>3. /\ LowScore \in Score /\ LowScore < MinRiskScore
      /\ HighScore \in Score /\ HighScore >= MinRiskScore
  BY RunAssumption, Zenon
<1>4. FaceValue > 0 /\ Half \in Nat /\ Half < FaceValue
  BY <1>2 DEF Half
<1>5. HighScore \in Nat /\ MinRiskScore \in Nat
  BY <1>3
<1>6. QED
  BY <1>1, <1>2, <1>3, <1>4, <1>5, Zenon

\* The eight of them, one by one.
LEMMA ScenariosAre ==
    /\ Len(Scenarios) = 8 /\ DOMAIN Scenarios = 1..8
    /\ Scenarios[1] = Opens(Good, HighScore, Ok)
    /\ Scenarios[2] = Opens(Risky, LowScore, "RiskTooHigh")
    /\ Scenarios[3] = Opens(Good, HighScore, "NoteExists")
    /\ Scenarios[4] = Funds(Missing, FaceValue, "NoNote")
    /\ Scenarios[5] = Funds(Good, Half, "WrongAmount")
    /\ Scenarios[6] = Repays(Good, "NotFunded")
    /\ Scenarios[7] = Funds(Good, FaceValue, Ok)
    /\ Scenarios[8] = Repays(Good, Ok)
BY DEF Scenarios

\* Each makes one of three calls, with arguments anybody may give.
LEMMA ScenarioTyped ==
    ASSUME NEW i \in 1..8
    PROVE  /\ Scenarios[i].note \in NoteId
           /\ Scenarios[i].entry \in {"open_note", "fund_note", "mark_repaid"}
           /\ Scenarios[i].entry = "open_note" => Scenarios[i].score \in Score
           /\ Scenarios[i].entry = "fund_note" => Scenarios[i].attached \in Amount
<1>1. i = 1 \/ i = 2 \/ i = 3 \/ i = 4 \/ i = 5 \/ i = 6 \/ i = 7 \/ i = 8
  OBVIOUS
<1>2. QED
  BY <1>1, RunConstants, ScenariosAre DEF Opens, Funds, Repays

\* What a call may fail with is none of the script's own marks.
LEMMA CallErrorTyped ==
    ASSUME NEW c, c.entry \in {"open_note", "fund_note", "mark_repaid"}
    PROVE  CallError(c) \in Results
BY DEF CallError, OpenNote_Error, FundNote_Error, MarkRepaid_Error, Results, Ok

\* A scenario that commits is one of the contract's calls.
LEMMA CommitsCalls ==
    ASSUME NEW i \in 1..8, Commits(Scenarios[i])
    PROVE  EscrowNext
<1>1. Signer \in Account /\ FaceValue \in Amount
  BY RunConstants
<1>2. CASE /\ Scenarios[i].entry = "open_note"
           /\ \E h \in Hash : NoteOpened(Signer, Scenarios[i].note, Signer, FaceValue,
                                         Scenarios[i].score, h)
  BY <1>1, <1>2, ScenarioTyped DEF EscrowNext, OpenNote
<1>3. CASE /\ Scenarios[i].entry = "fund_note"
           /\ NoteFunded(Signer, Scenarios[i].note, Scenarios[i].attached)
  BY <1>1, <1>3, ScenarioTyped DEF EscrowNext, FundNote
<1>4. CASE Scenarios[i].entry = "mark_repaid" /\ NoteRepaid(Signer, Scenarios[i].note)
  BY <1>1, <1>4, ScenarioTyped DEF EscrowNext, MarkRepaid
<1>5. QED
  BY <1>2, <1>3, <1>4 DEF Commits

\* In its situation each scenario meets what it is about.
LEMMA MeetsItsClause ==
    ASSUME EscrowTypeOK, NEW i \in 1..8, Situation(i - 1)
    PROVE  CallError(Scenarios[i]) = Scenarios[i].expect
<1>1. /\ Signer \in Account /\ wallet[Signer] \in Nat
      /\ FaceValue \in Nat /\ FaceValue > 0 /\ Half \in Nat /\ Half < FaceValue
      /\ LowScore < MinRiskScore /\ HighScore \in Nat /\ HighScore >= MinRiskScore
      /\ MinRiskScore \in Nat
  BY RunConstants DEF EscrowTypeOK
<1>2. Signer = Owner /\ IsBonded(Owner) /\ ~Exists(Risky) /\ ~Exists(Missing)
  BY DEF Situation
<1>3. CASE i = 1
  <2>1. ~Exists(Good)
    BY <1>3 DEF Situation
  <2>2. QED
    BY <1>1, <1>2, <1>3, <2>1, ScenariosAre DEF Opens, CallError, OpenNote_Error, Ok
<1>4. CASE i = 2
  BY <1>1, <1>2, <1>4, ScenariosAre DEF Opens, CallError, OpenNote_Error, Ok
<1>5. CASE i \in 3..7
  <2>1. /\ HasStatus(Good, {"Open"}) /\ notes[Good].face = FaceValue
        /\ wallet[Signer] >= FaceValue
    BY <1>5 DEF Situation
  <2>2. Exists(Good) /\ notes[Good].status = "Open"
    BY <2>1 DEF HasStatus
  <2>3. CASE i = 3
    BY <1>1, <1>2, <2>2, <2>3, ScenariosAre DEF Opens, CallError, OpenNote_Error
  <2>4. CASE i = 4
    BY <1>1, <1>2, <2>1, <2>4, ScenariosAre DEF Funds, CallError, FundNote_Error
  <2>5. CASE i = 5
    BY <1>1, <2>1, <2>2, <2>5, ScenariosAre DEF Funds, CallError, FundNote_Error
  <2>6. CASE i = 6
    BY <1>1, <1>2, <2>2, <2>6, ScenariosAre DEF Repays, CallError, MarkRepaid_Error
  <2>7. CASE i = 7
    BY <1>1, <2>1, <2>2, <2>7, ScenariosAre DEF Funds, CallError, FundNote_Error
  <2>8. QED
    BY <1>5, <2>3, <2>4, <2>5, <2>6, <2>7
<1>6. CASE i = 8
  <2>1. Exists(Good) /\ notes[Good].status = "Funded"
    BY <1>6 DEF Situation, HasStatus
  <2>2. QED
    BY <1>1, <1>2, <1>6, <2>1, ScenariosAre DEF Repays, CallError, MarkRepaid_Error
<1>7. QED
  BY <1>3, <1>4, <1>5, <1>6

\* A scenario that is refused leaves the next one's situation.
LEMMA RefusalsLeaveIt ==
    ASSUME NEW i \in 2..6, Situation(i - 1)
    PROVE  Situation(i)
BY DEF Situation

\* A scenario that commits makes the next one's situation.
LEMMA CommitsMakeIt ==
    ASSUME EscrowTypeOK, EscrowTypeOK', NEW i \in {1, 7, 8}, Situation(i - 1),
           Commits(Scenarios[i])
    PROVE  Situation(i)'
<1>1. /\ Good \in NoteId /\ Risky \in NoteId /\ Missing \in NoteId
      /\ Good # Risky /\ Good # Missing /\ Signer \in Account
  BY RunConstants
<1>2. /\ Signer = Owner /\ IsBonded(Owner) /\ ~Exists(Risky) /\ ~Exists(Missing)
  BY DEF Situation
<1>3. CASE i = 1
  <2>1. PICK h \in Hash : NoteOpened(Signer, Good, Signer, FaceValue, HighScore, h)
    BY <1>3, ScenariosAre DEF Commits, Opens
  <2> DEFINE note == [seller |-> Signer, investor |-> None, face |-> FaceValue,
                      score |-> HighScore, hash |-> h, status |-> "Open"]
  <2>2. notes' = [notes EXCEPT ![Good] = note] /\ UNCHANGED <<bonds, wallet>>
    BY <2>1 DEF NoteOpened
  <2>3. note \in Note
    BY RunConstants DEF Note
  <2>4. note.status = "Open" /\ note.face = FaceValue
    OBVIOUS
  <2> HIDE DEF note
  <2>5. notes'[Good] = note /\ notes'[Risky] = notes[Risky] /\ notes'[Missing] = notes[Missing]
    BY <1>1, <2>2 DEF EscrowTypeOK
  <2>6. HasStatus(Good, {"Open"})'
    <3>1. note # None
      BY <2>3
    <3>2. QED
      BY <2>4, <2>5, <3>1 DEF Exists, HasStatus
  <2>7. wallet'[Signer] >= FaceValue
    BY <1>3, <2>2 DEF Situation
  <2>8. QED
    BY <1>2, <1>3, <2>2, <2>4, <2>5, <2>6, <2>7 DEF Situation, Exists, IsBonded
<1>4. CASE i = 7
  <2>1. NoteFunded(Signer, Good, FaceValue)
    BY <1>4, ScenariosAre DEF Commits, Funds
  <2>2. notes[Good] \in Note
    BY <1>1, <2>1 DEF NoteFunded, FundNote_Error, Exists, Ok, EscrowTypeOK
  <2>3. /\ notes'[Good] = [notes[Good] EXCEPT !.investor = Signer, !.status = "Funded"]
        /\ notes'[Risky] = notes[Risky] /\ notes'[Missing] = notes[Missing]
        /\ UNCHANGED bonds
    BY <1>1, <2>1 DEF NoteFunded, EscrowTypeOK
  <2>4. notes'[Good] \in Note /\ notes'[Good].status = "Funded"
    BY <1>1, <2>2, <2>3 DEF Note
  <2>5. HasStatus(Good, {"Funded"})'
    BY <2>4 DEF Exists, HasStatus
  <2>6. QED
    BY <1>2, <1>4, <2>3, <2>5 DEF Situation, Exists, IsBonded
<1>5. CASE i = 8
  <2>1. NoteRepaid(Signer, Good)
    BY <1>5, ScenariosAre DEF Commits, Repays
  <2>2. notes'[Risky] = notes[Risky] /\ notes'[Missing] = notes[Missing] /\ UNCHANGED bonds
    BY <1>1, <2>1 DEF NoteRepaid, EscrowTypeOK
  <2>3. QED
    BY <1>2, <1>5, <2>2 DEF Situation, Exists, IsBonded
<1>6. QED
  BY <1>3, <1>4, <1>5

-----------------------------------------------------------------------------
(* The script, step by step.                                                *)

\* A row has its form, and says of a result what ProofIsTrue asks.
LEMMA RowsTyped ==
    ASSUME NEW e \in Results
    PROVE  /\ Step(e) \in Row
           /\ (Step(e).result = "ok") = (e = Ok)
           /\ Step(e).errorCode # 0 => /\ e \notin {Ok, "NoFunds", "BadArguments"}
                                       /\ Code(e) = Step(e).errorCode
<1>1. userErrorCode(e) \in Nat
  BY DEF Results, userErrorCode, Code, Ok
<1>2. Code("BadArguments") >= 64535
  BY DEF Code
<1>3. userErrorCode(e) # 0 => /\ e \notin {Ok, "NoFunds", "BadArguments"}
                              /\ Code(e) = userErrorCode(e)
  BY <1>2 DEF userErrorCode
<1>4. /\ Step(e).errorCode = userErrorCode(e)
      /\ Step(e).result = IF e = Ok THEN "ok" ELSE "reverted"
  BY DEF Step
<1>5. Step(e) \in Row
  BY <1>1 DEF Step, Row
<1>6. QED
  BY <1>3, <1>4, <1>5

\* The contract as installed, its deployer bonded or not.
LEMMA RunStarts == RunInit => RunInductive
<1> SUFFICES ASSUME RunInit PROVE RunInductive
  OBVIOUS
<1>1. PICK stake \in {0, MinBond} :
        /\ stake <= Wallet0[Owner]
        /\ bonds = [a \in Account |->
                     IF a = Owner THEN [ZeroBond EXCEPT !.amount = stake] ELSE ZeroBond]
        /\ wallet = [Wallet0 EXCEPT ![Owner] = @ - stake]
        /\ purse = stake
  BY DEF RunInit
<1>2. /\ defaulted = [n \in NoteId |-> FALSE] /\ notes = [n \in NoteId |-> None]
      /\ paidOut = [n \in NoteId |-> 0]
      /\ step = 1 /\ phase = "send" /\ result = "none" /\ polls = 0
      /\ record = <<>> /\ happened = <<>> /\ proof = None
      /\ disturbed = (CallError(Scenarios[1]) # Ok \/ wallet[Signer] < FaceValue)
  BY DEF RunInit
<1>3. stake \in Nat
  OBVIOUS
<1>4. EscrowTypeOK
  <2>1. bonds \in [Account -> Bond]
    BY <1>1, <1>3 DEF ZeroBond, Bond
  <2>2. wallet \in [Account -> Nat]
    <3>1. \A a \in Account : Wallet0[a] \in Nat
      OBVIOUS
    <3>2. QED
      BY <1>1, <1>3, <3>1
  <2>3. QED
    BY <1>1, <1>2, <1>3, <2>1, <2>2 DEF EscrowTypeOK, BondTypeOK
<1>5. RunTypeOK
  <2>1. MaxPolls \in Nat
    BY RunAssumption, Zenon
  <2>2. QED
    BY <1>2, <2>1, ScenariosAre DEF RunTypeOK
<1>6. RecordOK
  BY <1>2 DEF RecordOK, Ran
<1>7. AsMeant
  <2> SUFFICES ASSUME ~disturbed PROVE Situation(0)
    BY <1>2 DEF AsMeant
  <2>1. CallError(Scenarios[1]) = Ok /\ ~(wallet[Signer] < FaceValue)
    BY <1>2
  <2>2. wallet[Signer] \in Nat /\ FaceValue \in Nat
    BY <1>4, RunConstants DEF EscrowTypeOK
  <2>3. wallet[Signer] >= FaceValue /\ ~(0 > wallet[Signer])
    BY <2>1, <2>2
  <2>4. Signer = Owner /\ IsBonded(Owner)
    BY <2>1, <2>3, ScenariosAre DEF Opens, CallError, OpenNote_Error, Ok
  <2>5. ~Exists(Good) /\ ~Exists(Risky) /\ ~Exists(Missing)
    BY <1>2, RunConstants DEF Exists
  <2>6. QED
    BY <2>3, <2>4, <2>5 DEF Situation
<1>8. QED
  BY <1>4, <1>5, <1>6, <1>7 DEF RunInductive

\* What holds of the counters in plain numbers.
LEMMA Counted ==
    ASSUME RunInductive
    PROVE  /\ step \in Nat /\ step >= 1 /\ step <= 9
           /\ Len(happened) \in Nat /\ Len(record) \in Nat
           /\ Len(happened) = IF Ran THEN step ELSE step - 1
           /\ Len(record) = step - 1
           /\ phase \in {"write", "done"} <=> step > 8
BY ScenariosAre DEF RunInductive, RunTypeOK, RecordOK

\* The script's own steps leave the chain, what happened on it, and whether
\* anybody disturbed it.
LEMMA ScriptLeavesTheChain ==
    ASSUME RunInductive, UNCHANGED <<escrowVars, happened, disturbed>>
    PROVE  EscrowTypeOK' /\ AsMeant'
BY DEF RunInductive, escrowVars, EscrowTypeOK, BondTypeOK, AsMeant, Situation, Exists,
       HasStatus, IsBonded

\* A row is kept of a scenario that was executed.
LEMMA ExecutedKeeps ==
    ASSUME RunInductive, Executed
    PROVE  RunInductive'
<1>1. /\ phase = "wait" /\ result # "pending" /\ record' = Append(record, Step(result))
      /\ step' = step + 1 /\ phase' = IF step = Len(Scenarios) THEN "write" ELSE "send"
      /\ UNCHANGED <<escrowVars, result, polls, happened, proof, disturbed>>
  BY DEF Executed
<1>2. Ran /\ happened[step] = result /\ result \in Results
  BY <1>1 DEF Ran, RunInductive, RecordOK
<1>3. /\ step \in 1..8 /\ Len(record) = step - 1 /\ Len(happened) = step
      /\ record \in Seq(Row)
  BY <1>1, <1>2, Counted DEF RunInductive, RunTypeOK
<1>4. /\ record' \in Seq(Row) /\ Len(record') = step
      /\ record'[step] = Step(result)
      /\ \A i \in 1..step - 1 : record'[i] = record[i]
  <2>1. Step(result) \in Row
    BY <1>2, RowsTyped
  <2>2. QED
    BY <1>1, <1>3, <2>1
<1>5. phase' = IF step = 8 THEN "write" ELSE "send"
  BY <1>1, ScenariosAre
<1>6. ~Ran'
  BY <1>5 DEF Ran
<1>7. proof = None
  BY <1>1 DEF RunInductive, RunTypeOK
<1>8. RunTypeOK'
  <2>1. step' \in 1..8 + 1 /\ (phase' \in {"write", "done"} <=> step' > 8)
    BY <1>1, <1>3, <1>5
  <2>2. QED
    BY <1>1, <1>3, <1>4, <1>5, <1>7, <2>1, ScenariosAre DEF RunInductive, RunTypeOK
<1>9. RecordOK'
  <2>1. \A i \in 1..Len(record') : record'[i] = Step(happened'[i])
    BY <1>1, <1>2, <1>3, <1>4 DEF RunInductive, RecordOK
  <2>2. Len(happened') = step' - 1
    BY <1>1, <1>3
  <2>3. QED
    BY <1>1, <1>5, <1>6, <1>7, <2>1, <2>2 DEF RunInductive, RecordOK
<1>10. QED
  BY <1>1, <1>8, <1>9, ScriptLeavesTheChain DEF RunInductive

\* A call is sent, and waited for from now on.
LEMMA SendKeeps ==
    ASSUME RunInductive, Send
    PROVE  RunInductive'
<1>1. /\ phase = "send" /\ phase' = "wait" /\ result' = "pending" /\ polls' = 0
      /\ UNCHANGED <<escrowVars, step, record, happened, proof, disturbed>>
  BY DEF Send
<1>2. ~Ran /\ ~Ran'
  BY <1>1 DEF Ran
<1>3. RunTypeOK'
  <2>1. MaxPolls \in Nat
    BY RunAssumption, Zenon
  <2>2. 0 \in 0..MaxPolls
    BY <2>1
  <2>3. QED
    BY <1>1, <2>2 DEF RunInductive, RunTypeOK
<1>4. RecordOK'
  BY <1>1, <1>2 DEF RunInductive, RunTypeOK, RecordOK
<1>5. QED
  BY <1>1, <1>3, <1>4, ScriptLeavesTheChain DEF RunInductive

\* The polls go on, run out, or fail.
LEMMA PollsKeep ==
    ASSUME RunInductive, NotYet \/ TimesOut \/ Fails
    PROVE  RunInductive'
<1>1. UNCHANGED <<escrowVars, step, record, happened, proof, disturbed>>
  BY DEF NotYet, TimesOut, Fails
<1>2. polls' \in 0..MaxPolls
  <2>1. MaxPolls \in Nat
    BY RunAssumption, Zenon
  <2>2. polls' = polls \/ (polls < MaxPolls /\ polls' = polls + 1)
    BY DEF NotYet, TimesOut, Fails
  <2>3. QED
    BY <2>1, <2>2 DEF RunInductive, RunTypeOK
<1>3. /\ phase \in {"send", "wait"} /\ phase' \in {phase, "failed"}
      /\ phase' = "send" => phase = "send"
      /\ \/ result' = result /\ phase = "wait"
         \/ phase = "send" /\ phase' = "failed" /\ result' \in {"none", "pending"}
  BY DEF NotYet, TimesOut, Fails
<1>4. Ran' = Ran
  BY <1>3 DEF Ran
<1>5. proof = None
  BY <1>3 DEF RunInductive, RunTypeOK
<1>6. RunTypeOK'
  BY <1>1, <1>2, <1>3, <1>5 DEF RunInductive, RunTypeOK
<1>7. RecordOK'
  BY <1>1, <1>3, <1>4, <1>5 DEF RunInductive, RecordOK, Ran
<1>8. QED
  BY <1>1, <1>6, <1>7, ScriptLeavesTheChain DEF RunInductive

\* The file is the rows.
LEMMA WriteProofKeeps ==
    ASSUME RunInductive, WriteProof
    PROVE  RunInductive'
<1> DEFINE file == [distinctRejectionCodes |-> Distinct(record), steps |-> record]
<1>1. /\ phase = "write" /\ proof' = file /\ phase' = "done"
      /\ UNCHANGED <<escrowVars, step, result, polls, record, happened, disturbed>>
  BY DEF WriteProof
<1>2. record \in Seq(Row)
  BY DEF RunInductive, RunTypeOK
<1>3. Distinct(record) \subseteq Nat
  <2>1. ASSUME NEW i \in DOMAIN record PROVE record[i].errorCode \in Nat
    <3>1. record[i] \in Row
      BY <1>2
    <3>2. QED
      BY <3>1 DEF Row
  <2>2. QED
    BY <2>1 DEF Distinct
<1>4. file \in File
  BY <1>2, <1>3 DEF File
<1>5. None \notin File
  BY RunAssumption, Zenon
<1>6. ~Ran /\ ~Ran'
  BY <1>1 DEF Ran
<1>7. RecordOK'
  BY <1>1, <1>6 DEF RunInductive, RecordOK
<1>8. RunTypeOK'
  <2>1. proof' \in File /\ proof' # None
    BY <1>1, <1>4, <1>5
  <2>2. QED
    BY <1>1, <2>1 DEF RunInductive, RunTypeOK
<1>9. QED
  BY <1>1, <1>7, <1>8, ScriptLeavesTheChain DEF RunInductive

\* The node executes the scenario the script is at, once.
LEMMA ExecuteKeeps ==
    ASSUME RunInductive, Execute
    PROVE  RunInductive' /\ [EscrowNext]_escrowVars
<1>1. /\ phase # "send" /\ result = "pending" /\ step \in 1..8
      /\ happened' = Append(happened, result')
      /\ disturbed' = (disturbed \/ result' = "BadArguments")
      /\ UNCHANGED <<step, phase, polls, record, proof>>
  BY ScenariosAre DEF Execute
<1>2. \/ CallError(Call) = Ok /\ Commits(Call) /\ result' = Ok
      \/ CallError(Call) # Ok /\ result' = CallError(Call) /\ UNCHANGED escrowVars
      \/ result' = "BadArguments" /\ UNCHANGED escrowVars
  BY DEF Execute
<1>3. [EscrowNext]_escrowVars
  BY <1>1, <1>2, CommitsCalls DEF Call
<1>4. EscrowTypeOK'
  BY <1>3, TypeKept DEF RunInductive
<1>5. result' \in Results
  <2>1. CallError(Call) \in Results
    BY <1>1, ScenarioTyped, CallErrorTyped DEF Call
  <2>2. QED
    BY <1>2, <2>1 DEF Results
<1>6. phase \in {"wait", "failed"}
  BY <1>1, Counted DEF RunInductive, RunTypeOK
<1>7. ~Ran /\ Ran'
  BY <1>1, <1>5, <1>6 DEF Ran, Results, Ok
<1>8. /\ happened \in Seq(Results) /\ Len(happened) = step - 1
      /\ Len(record) = step - 1
  BY <1>7, Counted DEF RunInductive, RecordOK
<1>9. /\ happened' \in Seq(Results) /\ Len(happened') = step
      /\ happened'[step] = result'
      /\ \A i \in 1..step - 1 : happened'[i] = happened[i]
  BY <1>1, <1>5, <1>8
<1>10. proof = None
  BY <1>6 DEF RunInductive, RunTypeOK
<1>11. RunTypeOK'
  BY <1>1 DEF RunInductive, RunTypeOK
<1>12. RecordOK'
  <2>1. \A i \in 1..Len(record') : record'[i] = Step(happened'[i])
    BY <1>1, <1>8, <1>9 DEF RunInductive, RecordOK
  <2>2. result' \notin {"none", "pending"} /\ phase' \notin {"write", "done"}
    BY <1>1, <1>6, <1>7 DEF Ran
  <2>3. Len(happened') = (IF Ran' THEN step' ELSE step' - 1) /\ happened'[step'] = result'
    BY <1>1, <1>7, <1>9
  <2>4. proof' = None
    BY <1>1, <1>10
  <2>5. QED
    BY <1>5, <1>9, <2>1, <2>2, <2>3, <2>4 DEF RecordOK
<1>13. AsMeant'
  <2> SUFFICES ASSUME ~disturbed'
               PROVE  /\ Situation(step)' /\ result' = Scenarios[step].expect
    <3>1. Situation(Len(happened))' <=> Situation(step)'
      BY <1>1, <1>9 DEF Situation
    <3>2. ASSUME NEW i \in 1..Len(happened'), ~disturbed', result' = Scenarios[step].expect
          PROVE  happened'[i] = Scenarios[i].expect
      <4>1. ~disturbed
        BY <1>1, <3>2
      <4>2. i = step \/ i \in 1..step - 1
        BY <1>1, <1>9
      <4>3. QED
        BY <1>8, <1>9, <3>2, <4>1, <4>2 DEF RunInductive, AsMeant
    <3>3. QED
      BY <3>1, <3>2 DEF AsMeant
  <2>1. ~disturbed /\ result' # "BadArguments"
    BY <1>1
  <2>2. Situation(step - 1)
    BY <1>8, <2>1 DEF RunInductive, AsMeant
  <2>3. CallError(Call) = Scenarios[step].expect
    BY <1>1, <2>2, MeetsItsClause DEF RunInductive, Call
  <2>4. result' = Scenarios[step].expect
    BY <1>2, <2>1, <2>3
  <2>5. Situation(step)'
    <3>1. CASE step \in {1, 7, 8}
      <4>1. Scenarios[step].expect = Ok
        BY <3>1, ScenariosAre DEF Opens, Funds, Repays
      <4>2. Commits(Scenarios[step])
        BY <1>2, <2>1, <2>3, <4>1 DEF Call
      <4>3. \A i \in {1, 7, 8} : i = step => Situation(i)'
        BY <1>4, <2>2, <4>2, CommitsMakeIt DEF RunInductive
      <4>4. QED
        BY <1>1, <3>1, <4>3 DEF Situation
    <3>2. CASE step \in 2..6
      <4>1. Scenarios[step].expect # Ok
        <5>1. step = 2 \/ step = 3 \/ step = 4 \/ step = 5 \/ step = 6
          BY <3>2
        <5>2. QED
          BY <5>1, ScenariosAre DEF Opens, Funds, Repays, Ok
      <4>2. UNCHANGED <<escrowVars, step>>
        BY <1>1, <1>2, <2>1, <2>3, <4>1
      <4>3. Situation(step)
        BY <2>2, <3>2, RefusalsLeaveIt
      <4>4. QED
        BY <4>2, <4>3 DEF escrowVars, Situation, Exists, HasStatus, IsBonded
    <3>3. QED
      BY <1>1, <3>1, <3>2
  <2>6. QED
    BY <2>4, <2>5
<1>14. QED
  BY <1>3, <1>4, <1>11, <1>12, <1>13 DEF RunInductive

\* Others call the contract; what they move of the run's is a disturbance.
LEMMA OthersKeep ==
    ASSUME RunInductive, ChainMoves
    PROVE  RunInductive'
<1>1. /\ EscrowNext /\ UNCHANGED <<step, phase, result, polls, record, happened, proof>>
      /\ disturbed' = \/ disturbed
                      \/ wallet'[Signer] # wallet[Signer]
                      \/ bonds'[Signer] # bonds[Signer]
                      \/ notes' # notes
  BY DEF ChainMoves, scriptVars
<1>2. EscrowTypeOK'
  BY <1>1, TypeKept DEF RunInductive
<1>3. RunTypeOK' /\ RecordOK'
  BY <1>1 DEF RunInductive, RunTypeOK, RecordOK, Ran
<1>4. AsMeant'
  BY <1>1 DEF RunInductive, AsMeant, Situation, Exists, HasStatus, IsBonded
<1>5. QED
  BY <1>2, <1>3, <1>4 DEF RunInductive

-----------------------------------------------------------------------------
(* What it amounts to.                                                      *)

\* Rows, results and the run's three notes stay in step, whoever else is at work
\* and whenever a call is executed.
THEOREM RunInductiveHolds == RunSpec => []RunInductive
<1>1. RunInductive /\ [RunNext]_vars => RunInductive'
  <2> SUFFICES ASSUME RunInductive, [RunNext]_vars PROVE RunInductive'
    OBVIOUS
  <2>1. CASE UNCHANGED vars
    <3>1. /\ UNCHANGED <<escrowVars, happened, disturbed>>
          /\ UNCHANGED <<step, phase, result, polls, record, proof>>
      BY <2>1 DEF vars, scriptVars
    <3>2. RunTypeOK' /\ RecordOK'
      BY <3>1 DEF RunInductive, RunTypeOK, RecordOK, Ran
    <3>3. QED
      BY <3>1, <3>2, ScriptLeavesTheChain DEF RunInductive
  <2>2. QED
    BY <2>1, SendKeeps, ExecutedKeeps, PollsKeep, WriteProofKeeps, ExecuteKeeps, OthersKeep
       DEF RunNext, Script
<1>2. QED
  BY <1>1, RunStarts, PTL DEF RunSpec

\* Every row of the file is what the node made of that deploy, and every code it
\* counts was raised by the contract (prove.ts:217-256, 386): however late a
\* deploy is executed, and whatever others do.
THEOREM RunInvariantHolds == RunSpec => []RunInvariant
<1>1. RunInductive => RunInvariant
  <2> SUFFICES ASSUME RunInductive, proof # None
               PROVE  /\ \A i \in DOMAIN proof.steps :
                          /\ i \in DOMAIN happened
                          /\ (proof.steps[i].result = "ok") = (happened[i] = Ok)
                      /\ \A code \in proof.distinctRejectionCodes :
                          \E i \in DOMAIN happened :
                              happened[i] \notin {Ok, "NoFunds", "BadArguments"}
                              /\ Code(happened[i]) = code
    BY DEF RunInductive, RunInvariant, ProofIsTrue
  <2>1. proof.steps = record /\ proof.distinctRejectionCodes = Distinct(record)
    BY DEF RunInductive, RecordOK
  <2>2. /\ DOMAIN record = 1..Len(record) /\ DOMAIN happened = 1..Len(happened)
        /\ Len(record) <= Len(happened)
    BY Counted DEF RunInductive, RunTypeOK, RecordOK
  <2>3. ASSUME NEW i \in DOMAIN record
        PROVE  /\ i \in DOMAIN happened /\ happened[i] \in Results
               /\ record[i] = Step(happened[i])
    <3>1. i \in DOMAIN happened
      BY <2>2, Counted
    <3>2. QED
      BY <2>2, <3>1 DEF RunInductive, RecordOK
  <2>4. ASSUME NEW code \in Distinct(record)
        PROVE  \E i \in DOMAIN happened :
                   happened[i] \notin {Ok, "NoFunds", "BadArguments"}
                   /\ Code(happened[i]) = code
    <3>1. PICK i \in DOMAIN record : record[i].errorCode = code /\ code # 0
      BY <2>4 DEF Distinct
    <3>2. QED
      BY <2>3, <3>1, RowsTyped
  <2>5. QED
    BY <2>1, <2>3, <2>4, RowsTyped
<1>2. QED
  BY <1>1, RunInductiveHolds, PTL

\* With a bonded owner's key, and nobody else at work on its notes, the eight
\* scenarios do not spoil one another: each ends as it was meant to, for any ids,
\* scores and face value of the run (prove.ts:284-365).
THEOREM ScenariosStayIndependent == RunSpec => []ScenariosAreIndependent
<1>1. RunInductive => ScenariosAreIndependent
  <2> SUFFICES ASSUME RunInductive, ~disturbed, NEW i \in DOMAIN happened
               PROVE  happened[i] = Scenarios[i].expect
    BY DEF ScenariosAreIndependent
  <2>1. i \in 1..Len(happened)
    BY DEF RunInductive, RecordOK
  <2>2. QED
    BY <2>1 DEF RunInductive, AsMeant
<1>2. QED
  BY <1>1, RunInductiveHolds, PTL

\* Whatever the script sends and whenever it is executed, the contract makes one
\* of its own calls or none: what is proved of every call holds during the run.
THEOREM RunCallsTheContract == RunSpec => [][EscrowNext]_escrowVars
<1>1. RunInductive /\ [RunNext]_vars => [EscrowNext]_escrowVars
  BY ExecuteKeeps DEF RunNext, Script, Send, Executed, NotYet, TimesOut, Fails, WriteProof,
                      ChainMoves, vars
<1>2. QED
  BY <1>1, RunInductiveHolds, PTL DEF RunSpec

\* The purse of a contract that holds one bond, or none, is that bond.
LEMMA RunStartsSound == RunInit => BooksAgree /\ PurseIsTheBonds
<1> SUFFICES ASSUME RunInit PROVE BooksAgree /\ PurseIsTheBonds
  OBVIOUS
<1>1. PICK stake \in {0, MinBond} :
        /\ bonds = [a \in Account |->
                     IF a = Owner THEN [ZeroBond EXCEPT !.amount = stake] ELSE ZeroBond]
        /\ purse = stake
  BY DEF RunInit
<1>2. stake \in Nat
  OBVIOUS
<1>3. BooksAgree
  BY DEF RunInit, BooksAgree, HasStatus, Exists
<1>4. /\ \A a \in Account : Staked[a] \in Nat
      /\ Staked[Owner] = stake /\ \A a \in Account \ {Owner} : Staked[a] = 0
  BY <1>1, <1>2 DEF Staked, ZeroBond
<1> DEFINE g == [S \in SUBSET Account |-> IF Owner \in S THEN stake ELSE 0]
<1>5. IsTally(g, Staked, Account)
  BY <1>2, <1>4 DEF IsTally
<1>6. g[Account] = purse
  BY <1>1
<1> HIDE DEF g
<1>7. SumFunctionOnSet(Staked, Account) = purse
  BY <1>4, <1>5, <1>6, SumIsTally, FiniteAssumption
<1>8. QED
  BY <1>3, <1>7 DEF PurseIsTheBonds, Staked

\* The prover finds and leaves a contract whose purse is its bonds and whose books
\* agree, and none of its calls is refused by a check that comes too late: its
\* contract begins with a stake in it, which no call of the run put there
\* (prove.ts:284-365).
THEOREM CustodyInTheRun == RunSpec => [](BooksAgree /\ PurseIsTheBonds /\ NeverRefusedLate)
<1>1. RunInductive => EscrowTypeOK
  BY DEF RunInductive
<1>2. RunInductive /\ RunInductive' /\ BooksAgree /\ PurseIsTheBonds
        /\ [EscrowNext]_escrowVars => BooksAgree' /\ PurseIsTheBonds'
  BY <1>1, BooksKept, PurseKept DEF RunInductive
<1>3. RunInductive /\ BooksAgree /\ PurseIsTheBonds => NeverRefusedLate
  BY <1>1, CustodySuffices
<1>4. QED
  BY <1>2, <1>3, RunStartsSound, RunInductiveHolds, RunCallsTheContract, PTL DEF RunSpec
=============================================================================
