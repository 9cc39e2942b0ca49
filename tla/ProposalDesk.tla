----------------------------- MODULE ProposalDesk -----------------------------
(***************************************************************************)
(* From a request to a note: the agent's propose_open_note tool              *)
(* (agent/src/underwriting-tools.ts), the deploy builder behind it           *)
(* (note-proposer.ts), the run and its HTTP handler (underwriter.ts,         *)
(* server.ts), the panel that shows the run and signs its deploy             *)
(* (web/components/UnderwritePanel.tsx), and the contract that executes it.  *)
(*                                                                         *)
(* The chain moves on between any two of these steps: it is ReceivableEscrow *)
(* itself, with its own Next, read twice by the tool and written once, later *)
(* and with no lock, by the deploy.  The language model is free to make any  *)
(* tool call, with any arguments, in any order.                              *)
(***************************************************************************)
EXTENDS ReceivableEscrow, Sequences

CONSTANTS
    MaxRuns,    \* bound: requests made in a behaviour
    MaxDeploys  \* bound: deploys built in a behaviour

ASSUME DeskAssumption ==
    /\ MinBond > 0
    /\ MaxRuns \in Nat \ {0}
    /\ MaxDeploys \in Nat \ {0}

VARIABLES
    run,        \* the number of the current or last request
    signer,     \* its caller_pubkey
    phase,      \* what it is waiting for: see Phase
    args,       \* the arguments of the propose_open_note call being executed
    bondSeen,   \* the bond that call read
    idFree,     \* history: the id was free when that call read the note
    lastCall,   \* the note id in the run's last such call, None without one
    lastFace,   \* the face value in its last result, 0 without one
    report,     \* its last verified risk report, or None
    proposed,   \* underwriter.run's noteProposed
    lastDeploy, \* DeployNoteProposer.lastDeployJson: an index, 0 for null
    shown,      \* the response the panel holds, or None
    deploys,    \* every deploy built, in order, with what became of it
    listed      \* the notes the panel handed to the desk's list

toolVars  == <<args, bondSeen, idFree>>
traceVars == <<lastCall, lastFace, report, proposed, lastDeploy>>
runVars   == <<run, signer, phase, toolVars, traceVars>>
deskVars  == <<runVars, shown, deploys, listed>>
vars      == <<escrowVars, deskVars>>

-----------------------------------------------------------------------------

\* "Idle": no request in flight.  "Model": the language model's turn.  "Terms":
\* the tool reads the bond and the bar.  "Note": it reads the note.  "Build": it
\* has the answer, of a state the chain may have left, and builds.
Phase == {"Idle", "Model", "Terms", "Note", "Build"}

Face == Amount \cup {0}

PercentScore == Score \cap 0..100

\* The arguments of a call; None is a note id that is no decimal integer.
Args   == [note : NoteId \cup {None}, seller : Account, face : Face,
           score : Score, hash : Hash]

Report == [score : PercentScore, hash : Hash]

Fate   == {"Built", "Sent", "Opened", "NotOwner", "NotBonded", "NoteExists",
           "RiskTooHigh"}

\* A deploy: what it says, what became of it, and, for the properties, the run
\* that built it and what the tool had read of the chain.
Deploy == [account : Account, args : Args, fate : Fate, run : 1..MaxRuns,
           bondSeen : Nat, idFree : BOOLEAN]

Shown  == [run : 1..MaxRuns, signer : Account, deploy : 0..MaxDeploys,
           proposed : BOOLEAN, note : NoteId \cup {None}, face : Face]

Listed == [deploy : 1..MaxDeploys, note : NoteId, face : Face]

NoTool  == args' = None /\ bondSeen' = 0 /\ idFree' = FALSE

NoTrace ==
    /\ lastCall' = None
    /\ lastFace' = 0
    /\ report' = None
    /\ proposed' = FALSE

DeskInit ==
    /\ run = 0
    /\ signer = Owner
    /\ phase = "Idle"
    /\ args = None
    /\ bondSeen = 0
    /\ idFree = FALSE
    /\ lastCall = None
    /\ lastFace = 0
    /\ report = None
    /\ proposed = FALSE
    /\ lastDeploy = 0
    /\ shown = None
    /\ deploys = <<>>
    /\ listed = {}

-----------------------------------------------------------------------------
(* The run.                                                                 *)

\* Mutant: the server keeps one proposer for all its requests.
StartRun_SharedProposer(caller) ==
    /\ phase = "Idle"
    /\ run < MaxRuns
    /\ run' = run + 1
    /\ signer' = caller
    /\ phase' = "Model"
    /\ shown' = None
    /\ UNCHANGED <<escrowVars, toolVars, traceVars, deploys, listed>>

\* The panel clears what it showed and posts; the server makes a proposer for
\* the connected key, and the agent starts a run of its own.
StartRun(caller) ==
    /\ phase = "Idle"
    /\ run < MaxRuns
    /\ run' = run + 1
    /\ signer' = caller
    /\ phase' = "Model"
    /\ shown' = None
    /\ lastDeploy' = 0
    /\ UNCHANGED <<escrowVars, toolVars, lastCall, lastFace, report, proposed,
                   deploys, listed>>

\* get_risk_report returns only reports whose HMAC matches; it throws on any
\* other, and a throw leaves the run as it was.
GetRiskReport(r) ==
    /\ phase = "Model"
    /\ report' = r
    /\ UNCHANGED <<escrowVars, run, signer, phase, toolVars, lastCall, lastFace,
                   proposed, lastDeploy, shown, deploys, listed>>

\* Mutant: the tool does not ask for a positive face value.
WellFormed_AnyFace(a) == a.note # None /\ a.score \in 0..100

\* The checks propose_open_note makes on its arguments alone.
WellFormed(a) == a.note # None /\ a.face > 0 /\ a.score \in 0..100

\* The model calls propose_open_note and the arguments pass.
Propose(a) ==
    /\ phase = "Model"
    /\ WellFormed(a)
    /\ phase' = "Terms"
    /\ args' = a
    /\ lastCall' = a.note
    /\ UNCHANGED <<escrowVars, run, signer, bondSeen, idFree, lastFace, report,
                   proposed, lastDeploy, shown, deploys, listed>>

\* They do not: the result is a refusal, which has no face value.
ProposeMalformed(a) ==
    /\ phase = "Model"
    /\ ~WellFormed(a)
    /\ lastCall' = a.note
    /\ lastFace' = 0
    /\ UNCHANGED <<escrowVars, run, signer, phase, toolVars, report, proposed,
                   lastDeploy, shown, deploys, listed>>

\* Mutant: the tool leaves the bond to the contract.
TermsRefusal_NoBond ==
    IF args.score < MinRiskScore THEN "RiskTooHigh" ELSE Ok

\* The clause the tool refuses on once it has read the terms.
TermsRefusal ==
    IF ~IsBonded(Owner) THEN "NotBonded"
    ELSE IF args.score < MinRiskScore THEN "RiskTooHigh"
    ELSE Ok

ReadTerms ==
    /\ phase = "Terms"
    /\ TermsRefusal = Ok
    /\ phase' = "Note"
    /\ bondSeen' = bonds[Owner].amount
    /\ UNCHANGED <<escrowVars, run, signer, args, idFree, traceVars, shown,
                   deploys, listed>>

\* Mutant: the tool leaves the id to the contract.
NoteTaken_Unread == FALSE

\* getNote finds a note under the id.
NoteTaken == Exists(args.note)

\* It finds none: the answer is on its way to the tool, and the chain goes on.
ReadNote ==
    /\ phase = "Note"
    /\ ~NoteTaken
    /\ phase' = "Build"
    /\ idFree' = ~Exists(args.note)
    /\ UNCHANGED <<escrowVars, run, signer, args, bondSeen, traceVars, shown,
                   deploys, listed>>

\* The tool refuses, on the terms or because the id is taken.
Refuse ==
    /\ \/ phase = "Terms" /\ TermsRefusal # Ok
       \/ phase = "Note" /\ NoteTaken
    /\ phase' = "Model"
    /\ lastFace' = 0
    /\ NoTool
    /\ UNCHANGED <<escrowVars, run, signer, lastCall, report, proposed,
                   lastDeploy, shown, deploys, listed>>

\* The id was free: the deploy is built for the request's signer and kept as
\* the proposer's last.
BuildDeploy ==
    /\ phase = "Build"
    /\ Len(deploys) < MaxDeploys
    /\ phase' = "Model"
    /\ proposed' = TRUE
    /\ deploys' = Append(deploys,
          [account |-> signer, args |-> args, fate |-> "Built", run |-> run,
           bondSeen |-> bondSeen, idFree |-> idFree])
    /\ lastDeploy' = Len(deploys')
    /\ lastFace' = args.face
    /\ NoTool
    /\ UNCHANGED <<escrowVars, run, signer, lastCall, report, shown, listed>>

\* The id was free and the builder throws: the result says so and still carries
\* the face value; noteProposed was set before the builder ran.
BuildFails ==
    /\ phase = "Build"
    /\ phase' = "Model"
    /\ proposed' = TRUE
    /\ lastFace' = args.face
    /\ NoTool
    /\ UNCHANGED <<escrowVars, run, signer, lastCall, report, lastDeploy, shown,
                   deploys, listed>>

\* A read of the node fails: the tool throws, and the trace gets an error in
\* place of a result.
ReadFails ==
    /\ phase \in {"Terms", "Note"}
    /\ phase' = "Model"
    /\ NoTool
    /\ UNCHANGED <<escrowVars, run, signer, traceVars, shown, deploys, listed>>

\* The run ends and the panel holds the response.  It reads the note id out of
\* the last tool call and the face value out of the last tool result.
EndRun ==
    /\ phase = "Model"
    /\ phase' = "Idle"
    /\ shown' = [run |-> run, signer |-> signer, deploy |-> lastDeploy,
                 proposed |-> proposed, note |-> lastCall, face |-> lastFace]
    /\ NoTrace
    /\ UNCHANGED <<escrowVars, run, signer, toolVars, lastDeploy, deploys, listed>>

\* The server answers 500, or the response never arrives: the panel shows an
\* error and holds no run.
RunFails ==
    /\ phase # "Idle"
    /\ phase' = "Idle"
    /\ NoTool
    /\ NoTrace
    /\ UNCHANGED <<escrowVars, run, signer, lastDeploy, shown, deploys, listed>>

-----------------------------------------------------------------------------
(* The signature, the node and the contract.                                *)

\* Mutant: the panel does not check that the run proposed a note id.
CanSign_AnyNote ==
    /\ shown # None
    /\ shown.proposed
    /\ shown.deploy # 0
    /\ deploys[shown.deploy].account = Owner

\* The button works and the wallet opens: a run is shown with a deploy and a
\* note id.  The node takes a deploy only from the account it is for, and the
\* panel lets only the owner sign.
CanSign ==
    /\ shown # None
    /\ shown.proposed
    /\ shown.deploy # 0
    /\ shown.note # None
    /\ deploys[shown.deploy].account = Owner

\* What the panel hands to the desk's list.
Listing == [deploy |-> shown.deploy, note |-> shown.note, face |-> shown.face]

\* The node keeps one copy of a deploy, however often it is sent.
Sent(i) == [deploys EXCEPT ![i].fate = IF @ = "Built" THEN "Sent" ELSE @]

\* Mutant: the panel lists the note under the hash it computed itself, though
\* the broadcast failed.
Sign_LocalHash ==
    /\ CanSign
    /\ listed' = listed \cup {Listing}
    /\ UNCHANGED <<escrowVars, runVars, shown, deploys>>

\* The owner approves, the agent relays, the node accepts, the panel hears it
\* and lists the note.  (A cancelled wallet, a relay that fails and a node that
\* refuses change nothing but the message shown.)
Sign ==
    /\ CanSign
    /\ deploys' = Sent(shown.deploy)
    /\ listed' = listed \cup {Listing}
    /\ UNCHANGED <<escrowVars, runVars, shown>>

\* The node accepts and the answer is lost on the way back: the panel shows an
\* error and lists nothing.
SignUnheard ==
    /\ CanSign
    /\ deploys' = Sent(shown.deploy)
    /\ UNCHANGED <<escrowVars, runVars, shown, listed>>

\* The contract executes an accepted deploy, in whatever order the chain picks.
Execute(i) ==
    LET a       == deploys[i].args
        verdict == OpenNote_Error(deploys[i].account, a.note, a.score)
    IN /\ deploys[i].fate = "Sent"
       /\ OpenNote(deploys[i].account, a.note, a.seller, a.face, a.score, a.hash)
       /\ deploys' = [deploys EXCEPT ![i].fate =
                          IF verdict = Ok THEN "Opened" ELSE verdict]
       /\ UNCHANGED <<runVars, shown, listed>>

\* Anyone else, and the owner by other means, calls the contract.
ChainMoves == EscrowNext /\ UNCHANGED deskVars

Next ==
    \/ \E caller \in Account : StartRun(caller)
    \/ \E r \in Report : GetRiskReport(r)
    \/ \E a \in Args : Propose(a) \/ ProposeMalformed(a)
    \/ ReadTerms
    \/ Refuse
    \/ ReadNote
    \/ BuildDeploy
    \/ BuildFails
    \/ ReadFails
    \/ EndRun
    \/ RunFails
    \/ Sign
    \/ SignUnheard
    \/ \E i \in DOMAIN deploys : Execute(i)
    \/ ChainMoves

Spec == EscrowInit /\ DeskInit /\ [][Next]_vars

-----------------------------------------------------------------------------
(* Properties.                                                              *)

\* The type of the desk's state, and the chain's own type.
DeskTypeOK ==
    /\ EscrowTypeOK
    /\ run \in 0..MaxRuns
    /\ signer \in Account
    /\ phase \in Phase
    /\ args \in Args \cup {None}
    /\ bondSeen \in Nat
    /\ idFree \in BOOLEAN
    /\ lastCall \in NoteId \cup {None}
    /\ lastFace \in Face
    /\ report \in Report \cup {None}
    /\ proposed \in BOOLEAN
    /\ lastDeploy \in 0..Len(deploys)
    /\ shown \in Shown \cup {None}
    /\ deploys \in Seq(Deploy)
    /\ Len(deploys) <= MaxDeploys
    /\ listed \subseteq Listed

\* The deploy the panel offers to sign was built in the run it shows, for the
\* key that made the request, with the button's flag set: no run hands over the
\* deploy of an earlier one (server.ts:243 makes a proposer per request,
\* note-proposer.ts:32 keeps the last deploy, underwriter.ts:100 the flag).
DeployIsThisRuns ==
    shown # None /\ shown.deploy # 0 =>
        /\ deploys[shown.deploy].run = shown.run
        /\ deploys[shown.deploy].account = shown.signer
        /\ shown.proposed

\* A note is on the desk's list only if the node took its deploy: the hash
\* shown is one the node acknowledged (casper.ts:441-444).
ListedWasAccepted ==
    \A entry \in listed : deploys[entry.deploy].fate # "Built"

\* The pre-check saves the gas it says it saves (underwriting-tools.ts:282-287):
\* a signed proposal never reverts NotOwner or RiskTooHigh, and every deploy
\* ever built asks for a face value and a score the contract's terms allow.
OnlyViableDeploys ==
    \A i \in DOMAIN deploys :
        LET d == deploys[i] IN
        /\ d.fate \notin {"NotOwner", "RiskTooHigh"}
        /\ d.args.face > 0
        /\ d.args.score \in MinRiskScore..100

\* A proposal can revert only because the chain moved after the tool looked:
\* when the contract refuses a deploy, either the owner's bond is smaller than
\* the one the tool read for it, or its id, free when the tool read the note,
\* has been taken since (propose_open_note's checks,
\* underwriting-tools.ts:289-316).
RevertsOnlyOnChange ==
    [][\A i \in DOMAIN deploys :
        LET d == deploys[i]
            fate == deploys'[i].fate
        IN fate # d.fate =>
             /\ fate = "NotBonded" => bonds[Owner].amount < d.bondSeen
             /\ fate = "NoteExists" => d.idFree]_vars

\* As the panel says of its noteId ("The note id the agent proposed, read back
\* out of its own tool call", UnderwritePanel.tsx:71): what it lists for a
\* deploy is what the deploy says.  A later call of the same run that is refused
\* changes what the panel reads and leaves the deploy.
ListsWhatItSigned ==
    \A entry \in listed :
        /\ entry.note = deploys[entry.deploy].args.note
        /\ entry.face = deploys[entry.deploy].args.face

\* As the tool says of its pre-check ("the same clauses the contract enforces,
\* in the same order", underwriting-tools.ts:282-283): the clause it refuses on
\* is the one open_note would revert with at that moment.
RefusesAsTheContractWould ==
    phase = "Terms" /\ TermsRefusal # Ok =>
        TermsRefusal = OpenNote_Error(Owner, args.note, args.score)

\* As the README says ("an unverified score is refused", README.md:42): the
\* score and hash of every deploy are those of the last report whose signature
\* the run verified, when it is built.
OnlyVerifiedScores ==
    [][\A i \in DOMAIN deploys' \ DOMAIN deploys :
        report = [score |-> deploys'[i].args.score,
                  hash  |-> deploys'[i].args.hash]]_vars

\* The shape of the desk, and that it lists only what the node took
\* (UnderwritePanel.tsx:157-178).
DeskInvariant == DeskTypeOK /\ ListedWasAccepted
=============================================================================
