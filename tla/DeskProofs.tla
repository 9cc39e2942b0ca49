------------------------------ MODULE DeskProofs ------------------------------
(***************************************************************************)
(* Theorems about ProposalDesk: the desk drives the contract only through    *)
(* its entry points, and the deploy it offers, signs and lists is the one    *)
(* the run built, checked and the node took, for any number of runs and     *)
(* deploys.                                                                 *)
(***************************************************************************)
EXTENDS ProposalDesk, ReceivableEscrowProofs

USE MinBondAssumption, EscrowAssumption, DeskAssumption

\* What the tool has established by the time it waits for the note, the
\* arguments passed the local checks, the bond it read was enough, the score
\* clears the bar; and by the time it builds, that the id was free.
CallChecked ==
    /\ phase \in {"Terms", "Note", "Build"} => args \in Args /\ WellFormed(args)
    /\ phase \in {"Note", "Build"} => args.score >= MinRiskScore /\ bondSeen >= MinBond
    /\ phase = "Build" => idFree

\* A request in flight has a number, and the proposer's deploy is its own.
RunOwnsItsDeploy ==
    phase # "Idle" =>
        /\ run > 0
        /\ lastDeploy # 0 =>
             /\ deploys[lastDeploy].run = run
             /\ deploys[lastDeploy].account = signer
             /\ proposed

\* A deploy names a note, was built for an owner with a bond on an id that was
\* free, as far as the tool could see, and only the owner's ever leaves the desk.
DeploysAreTheOwners ==
    \A i \in DOMAIN deploys :
        /\ deploys[i].args.note # None
        /\ deploys[i].bondSeen >= MinBond
        /\ deploys[i].idFree
        /\ deploys[i].fate # "Built" => deploys[i].account = Owner

\* The indices the panel and the list keep are those of deploys.
IndicesExist ==
    /\ shown # None => shown.deploy \in 0..Len(deploys)
    /\ \A entry \in listed : entry.deploy \in DOMAIN deploys

DeskInductive ==
    /\ DeskTypeOK
    /\ CallChecked
    /\ RunOwnsItsDeploy
    /\ DeploysAreTheOwners
    /\ IndicesExist
    /\ DeployIsThisRuns
    /\ ListedWasAccepted
    /\ OnlyViableDeploys

\* The desk's types in two groups: the run's, and the deploys and what refers
\* to them.
RunTyped ==
    /\ run \in 0..MaxRuns
    /\ signer \in Account
    /\ phase \in Phase
    /\ args \in Args \cup {None}
    /\ bondSeen \in Nat
    /\ idFree \in BOOLEAN
    /\ lastCall \in NoteId \cup {None}
    /\ lastFace \in Face
    /\ report \in Report \cup {None}
    /\ proposed \in BOOLEAN

DeploysTyped ==
    /\ lastDeploy \in 0..Len(deploys)
    /\ shown \in Shown \cup {None}
    /\ deploys \in Seq(Deploy)
    /\ Len(deploys) <= MaxDeploys
    /\ listed \subseteq Listed

\* What the deploys, the panel and the list promise together.
DeploysSound ==
    /\ DeploysTyped
    /\ DeploysAreTheOwners
    /\ IndicesExist
    /\ DeployIsThisRuns
    /\ ListedWasAccepted
    /\ OnlyViableDeploys

\* The five parts the steps below prove one by one.
LEMMA InductiveInParts ==
    /\ DeskInductive <=> /\ EscrowTypeOK
                         /\ RunTyped
                         /\ CallChecked
                         /\ RunOwnsItsDeploy
                         /\ DeploysSound
    /\ DeskInductive' <=> /\ EscrowTypeOK'
                          /\ RunTyped'
                          /\ CallChecked'
                          /\ RunOwnsItsDeploy'
                          /\ DeploysSound'
BY DEF DeskInductive, DeskTypeOK, RunTyped, DeploysTyped, DeploysSound

\* A step that builds, signs and lists nothing leaves them sound.
LEMMA DeploysUntouched ==
    ASSUME DeploysSound, UNCHANGED <<deploys, listed>>,
           lastDeploy' \in {0, lastDeploy}, shown' \in {None, shown}
    PROVE  DeploysSound'
<1> USE DEF DeploysSound
<1>1. DeploysTyped'
  BY DEF DeploysTyped
<1>2. DeploysAreTheOwners' /\ OnlyViableDeploys' /\ ListedWasAccepted'
  BY DEF DeploysAreTheOwners, OnlyViableDeploys, ListedWasAccepted
<1>3. IndicesExist' /\ DeployIsThisRuns'
  BY DEF IndicesExist, DeployIsThisRuns
<1>4. QED
  BY <1>1, <1>2, <1>3

\* The steps of a run that build nothing.
LEMMA RunStepsKeep ==
    ASSUME DeskInductive,
           \/ \E caller \in Account : StartRun(caller)
           \/ \E r \in Report : GetRiskReport(r)
           \/ \E a \in Args : Propose(a) \/ ProposeMalformed(a)
           \/ ReadTerms \/ Refuse \/ ReadNote \/ BuildFails \/ ReadFails \/ RunFails
    PROVE  DeskInductive'
<1>1. /\ EscrowTypeOK /\ RunTyped /\ CallChecked /\ RunOwnsItsDeploy
      /\ DeploysSound
  BY InductiveInParts
<1>2. ASSUME NEW caller \in Account, StartRun(caller) PROVE DeskInductive'
  <2> USE <1>1, <1>2 DEF StartRun, toolVars, traceVars
  <2>1. DeploysSound'
    BY DeploysUntouched
  <2>2. EscrowTypeOK'
    BY TypeKept
  <2>3. RunTyped'
    BY DEF RunTyped, Phase, Args, Face, EscrowTypeOK, BondTypeOK, Bond
  <2>4. CallChecked'
    BY DEF CallChecked
  <2>5. RunOwnsItsDeploy'
    BY DEF RunOwnsItsDeploy, RunTyped
  <2>6. QED
    BY <2>1, <2>2, <2>3, <2>4, <2>5, InductiveInParts
<1>3. ASSUME NEW r \in Report, GetRiskReport(r) PROVE DeskInductive'
  <2> USE <1>1, <1>3 DEF GetRiskReport, toolVars
  <2>1. DeploysSound'
    BY DeploysUntouched
  <2>2. EscrowTypeOK'
    BY TypeKept
  <2>3. RunTyped'
    BY DEF RunTyped, Phase, Args, Face, EscrowTypeOK, BondTypeOK, Bond
  <2>4. CallChecked'
    BY DEF CallChecked
  <2>5. RunOwnsItsDeploy'
    BY DEF RunOwnsItsDeploy, RunTyped
  <2>6. QED
    BY <2>1, <2>2, <2>3, <2>4, <2>5, InductiveInParts
<1>4. ASSUME NEW a \in Args, Propose(a) PROVE DeskInductive'
  <2> USE <1>1, <1>4 DEF Propose
  <2>1. DeploysSound'
    BY DeploysUntouched
  <2>2. EscrowTypeOK'
    BY TypeKept
  <2>3. RunTyped'
    BY DEF RunTyped, Phase, Args, Face, EscrowTypeOK, BondTypeOK, Bond
  <2>4. CallChecked'
    BY DEF CallChecked
  <2>5. RunOwnsItsDeploy'
    BY DEF RunOwnsItsDeploy, RunTyped
  <2>6. QED
    BY <2>1, <2>2, <2>3, <2>4, <2>5, InductiveInParts
<1>5. ASSUME NEW a \in Args, ProposeMalformed(a) PROVE DeskInductive'
  <2> USE <1>1, <1>5 DEF ProposeMalformed, toolVars
  <2>1. DeploysSound'
    BY DeploysUntouched
  <2>2. EscrowTypeOK'
    BY TypeKept
  <2>3. RunTyped'
    BY DEF RunTyped, Phase, Args, Face, EscrowTypeOK, BondTypeOK, Bond
  <2>4. CallChecked'
    BY DEF CallChecked
  <2>5. RunOwnsItsDeploy'
    BY DEF RunOwnsItsDeploy, RunTyped
  <2>6. QED
    BY <2>1, <2>2, <2>3, <2>4, <2>5, InductiveInParts
<1>6. CASE ReadTerms
  <2> USE <1>1, <1>6 DEF ReadTerms, traceVars
  <2>1. DeploysSound'
    BY DeploysUntouched
  <2>2. EscrowTypeOK'
    BY TypeKept
  <2>3. RunTyped'
    BY DEF RunTyped, Phase, Args, Face, EscrowTypeOK, BondTypeOK, Bond
  <2>4. CallChecked'
    <3>1. args.score \in Nat /\ bonds[Owner].amount \in Nat
      BY DEF CallChecked, Args, EscrowTypeOK, BondTypeOK, Bond
    <3>2. ~(args.score < MinRiskScore) /\ bonds[Owner].amount >= MinBond
      BY DEF TermsRefusal, IsBonded, Ok
    <3>3. QED
      BY <3>1, <3>2 DEF CallChecked
  <2>5. RunOwnsItsDeploy'
    BY DEF RunOwnsItsDeploy, RunTyped
  <2>6. QED
    BY <2>1, <2>2, <2>3, <2>4, <2>5, InductiveInParts
<1>7. CASE Refuse
  <2> USE <1>1, <1>7 DEF Refuse, NoTool
  <2>1. DeploysSound'
    BY DeploysUntouched
  <2>2. EscrowTypeOK'
    BY TypeKept
  <2>3. RunTyped'
    BY DEF RunTyped, Phase, Args, Face, EscrowTypeOK, BondTypeOK, Bond
  <2>4. CallChecked'
    BY DEF CallChecked
  <2>5. RunOwnsItsDeploy'
    BY DEF RunOwnsItsDeploy, RunTyped
  <2>6. QED
    BY <2>1, <2>2, <2>3, <2>4, <2>5, InductiveInParts
<1>8. CASE ReadNote
  <2> USE <1>1, <1>8 DEF ReadNote, traceVars
  <2>1. DeploysSound'
    BY DeploysUntouched
  <2>2. EscrowTypeOK'
    BY TypeKept
  <2>3. RunTyped'
    BY DEF RunTyped, Phase, Exists
  <2>4. CallChecked'
    BY DEF CallChecked, NoteTaken
  <2>5. RunOwnsItsDeploy'
    BY DEF RunOwnsItsDeploy, RunTyped
  <2>6. QED
    BY <2>1, <2>2, <2>3, <2>4, <2>5, InductiveInParts
<1>9. CASE BuildFails
  <2> USE <1>1, <1>9 DEF BuildFails, NoTool
  <2>1. DeploysSound'
    BY DeploysUntouched
  <2>2. EscrowTypeOK'
    BY TypeKept
  <2>3. RunTyped'
    BY DEF RunTyped, CallChecked, Phase, Args
  <2>4. CallChecked'
    BY DEF CallChecked
  <2>5. RunOwnsItsDeploy'
    BY DEF RunOwnsItsDeploy, RunTyped
  <2>6. QED
    BY <2>1, <2>2, <2>3, <2>4, <2>5, InductiveInParts
<1>10. CASE ReadFails
  <2> USE <1>1, <1>10 DEF ReadFails, NoTool, traceVars
  <2>1. DeploysSound'
    BY DeploysUntouched
  <2>2. EscrowTypeOK'
    BY TypeKept
  <2>3. RunTyped'
    BY DEF RunTyped, Phase, Args, Face, EscrowTypeOK, BondTypeOK, Bond
  <2>4. CallChecked'
    BY DEF CallChecked
  <2>5. RunOwnsItsDeploy'
    BY DEF RunOwnsItsDeploy, RunTyped
  <2>6. QED
    BY <2>1, <2>2, <2>3, <2>4, <2>5, InductiveInParts
<1>11. CASE RunFails
  <2> USE <1>1, <1>11 DEF RunFails, NoTool, NoTrace
  <2>1. DeploysSound'
    BY DeploysUntouched
  <2>2. EscrowTypeOK'
    BY TypeKept
  <2>3. RunTyped'
    BY DEF RunTyped, Phase, Args, Face, EscrowTypeOK, BondTypeOK, Bond
  <2>4. CallChecked'
    BY DEF CallChecked
  <2>5. RunOwnsItsDeploy'
    BY DEF RunOwnsItsDeploy, RunTyped
  <2>6. QED
    BY <2>1, <2>2, <2>3, <2>4, <2>5, InductiveInParts
<1>12. QED
  BY <1>2, <1>3, <1>4, <1>5, <1>6, <1>7, <1>8, <1>9, <1>10, <1>11

\* A run ends with its own number, key, flag and deploy on the panel.
LEMMA EndRunKeeps ==
    ASSUME DeskInductive, EndRun
    PROVE  DeskInductive'
<1>1. /\ EscrowTypeOK /\ RunTyped /\ CallChecked /\ RunOwnsItsDeploy
      /\ DeploysSound
  BY InductiveInParts
<1> USE <1>1 DEF EndRun, NoTrace
<1>2. EscrowTypeOK'
  BY TypeKept
<1>3. RunTyped' /\ CallChecked' /\ RunOwnsItsDeploy'
  BY DEF RunTyped, CallChecked, RunOwnsItsDeploy, Phase, Face, toolVars
<1>4. DeploysSound'
  <2> USE DEF DeploysSound
  <2>1. shown' \in Shown
    BY DEF RunTyped, DeploysTyped, RunOwnsItsDeploy, Shown
  <2>2. DeploysTyped'
    BY <2>1 DEF DeploysTyped
  <2>3. DeploysAreTheOwners' /\ OnlyViableDeploys' /\ ListedWasAccepted'
    BY DEF DeploysAreTheOwners, OnlyViableDeploys, ListedWasAccepted
  <2>4. IndicesExist' /\ DeployIsThisRuns'
    BY DEF IndicesExist, DeployIsThisRuns, RunOwnsItsDeploy, DeploysTyped
  <2>5. QED
    BY <2>2, <2>3, <2>4
<1>5. QED
  BY <1>2, <1>3, <1>4, InductiveInParts

\* When the tool has found the note id free, its call is one the contract's
\* terms allow.
LEMMA CheckedArgs ==
    ASSUME CallChecked, phase = "Build"
    PROVE  /\ args \in Args /\ args.note # None /\ args.face > 0
           /\ args.score \in MinRiskScore..100
           /\ bondSeen >= MinBond /\ idFree
BY DEF CallChecked, WellFormed

\* The new deploy is this run's, for its key, and asks for what was checked.
LEMMA BuildDeployKeeps ==
    ASSUME DeskInductive, BuildDeploy
    PROVE  DeskInductive'
<1>1. /\ EscrowTypeOK /\ RunTyped /\ CallChecked /\ RunOwnsItsDeploy
      /\ DeploysSound
  BY InductiveInParts
<1> DEFINE new == [account |-> signer, args |-> args, fate |-> "Built",
                   run |-> run, bondSeen |-> bondSeen, idFree |-> idFree]
           last == Len(deploys) + 1
<1> USE <1>1 DEF BuildDeploy, NoTool
<1>2. EscrowTypeOK'
  BY TypeKept
<1>3. /\ args \in Args /\ args.note # None /\ args.face > 0
      /\ args.score \in MinRiskScore..100
      /\ bondSeen >= MinBond /\ idFree
  BY CheckedArgs
<1>4. new \in Deploy
  BY <1>3 DEF Deploy, RunTyped, RunOwnsItsDeploy, Fate
<1>5. /\ deploys \in Seq(Deploy) /\ deploys' = Append(deploys, new)
      /\ Len(deploys) \in Nat /\ Len(deploys) < MaxDeploys
  BY DEF DeploysSound, DeploysTyped
<1> HIDE DEF new
<1>6. /\ deploys' \in Seq(Deploy) /\ Len(deploys') = last
      /\ deploys'[last] = new
      /\ \A i \in DOMAIN deploys : i \in DOMAIN deploys' /\ deploys'[i] = deploys[i]
      /\ \A i \in DOMAIN deploys' : i \in DOMAIN deploys \/ i = last
  BY <1>4, <1>5
<1>7. RunTyped' /\ CallChecked'
  BY <1>3 DEF RunTyped, CallChecked, Phase, Args
<1>8. RunOwnsItsDeploy'
  BY <1>5, <1>6 DEF RunOwnsItsDeploy, new
<1>9. DeploysSound'
  <2> USE DEF DeploysSound
  <2>1. DeploysTyped'
    BY <1>5, <1>6 DEF DeploysTyped
  <2>2. DeploysAreTheOwners'
    BY <1>3, <1>6 DEF DeploysAreTheOwners, new
  <2>3. OnlyViableDeploys'
    BY <1>3, <1>6 DEF OnlyViableDeploys, new
  <2>4. IndicesExist'
    BY <1>5, <1>6 DEF IndicesExist
  <2>5. ListedWasAccepted'
    BY <1>6 DEF ListedWasAccepted, IndicesExist
  <2>6. DeployIsThisRuns'
    BY <1>5, <1>6 DEF DeployIsThisRuns, IndicesExist
  <2>7. QED
    BY <2>1, <2>2, <2>3, <2>4, <2>5, <2>6
<1>10. QED
  BY <1>2, <1>7, <1>8, <1>9, InductiveInParts

\* A deploy's fate moves on, for the owner's deploys only: nothing else about
\* the deploys changes, and nothing listed goes back to Built.
LEMMA NewFateKeeps ==
    ASSUME DeploysSound, NEW i \in DOMAIN deploys, NEW fate \in Fate \ {"Built"},
           deploys[i].account = Owner, fate \notin {"NotOwner", "RiskTooHigh"},
           deploys' = [deploys EXCEPT ![i].fate = fate],
           UNCHANGED <<lastDeploy, shown>>,
           \A entry \in listed' :
              entry \in listed \/ (entry \in Listed /\ entry.deploy = i)
    PROVE  DeploysSound'
<1> USE DEF DeploysSound
<1>1. /\ deploys' \in Seq(Deploy) /\ Len(deploys') = Len(deploys)
      /\ DOMAIN deploys' = DOMAIN deploys
  <2>1. deploys \in Seq(Deploy) /\ deploys[i] \in Deploy
    BY DEF DeploysTyped
  <2>2. [deploys[i] EXCEPT !.fate = fate] \in Deploy
    BY <2>1 DEF Deploy
  <2>3. deploys' = [deploys EXCEPT ![i] = [deploys[i] EXCEPT !.fate = fate]]
    BY <2>1
  <2>4. QED
    BY <2>1, <2>2, <2>3
<1>2. /\ deploys'[i].fate = fate /\ deploys'[i].account = Owner
      /\ \A j \in DOMAIN deploys :
            /\ deploys'[j].args = deploys[j].args
            /\ deploys'[j].account = deploys[j].account
            /\ deploys'[j].run = deploys[j].run
            /\ deploys'[j].bondSeen = deploys[j].bondSeen
            /\ deploys'[j].idFree = deploys[j].idFree
            /\ j # i => deploys'[j].fate = deploys[j].fate
  <2>1. deploys \in Seq(Deploy) /\ deploys[i] \in Deploy
    BY DEF DeploysTyped
  <2>2. /\ deploys'[i] = [deploys[i] EXCEPT !.fate = fate]
        /\ \A j \in DOMAIN deploys : j # i => deploys'[j] = deploys[j]
    BY <2>1
  <2>3. /\ deploys'[i].fate = fate /\ deploys'[i].args = deploys[i].args
        /\ deploys'[i].account = deploys[i].account
        /\ deploys'[i].run = deploys[i].run
        /\ deploys'[i].bondSeen = deploys[i].bondSeen
        /\ deploys'[i].idFree = deploys[i].idFree
    BY <2>1, <2>2 DEF Deploy
  <2>4. QED
    BY <2>2, <2>3
<1>3. DeploysTyped'
  BY <1>1 DEF DeploysTyped
<1>4. DeploysAreTheOwners'
  BY <1>1, <1>2 DEF DeploysAreTheOwners
<1>5. OnlyViableDeploys'
  BY <1>1, <1>2 DEF OnlyViableDeploys
<1>6. IndicesExist'
  BY <1>1 DEF IndicesExist
<1>7. ListedWasAccepted'
  BY <1>1, <1>2 DEF ListedWasAccepted, IndicesExist
<1>8. DeployIsThisRuns'
  BY <1>1, <1>2 DEF DeployIsThisRuns, IndicesExist, DeploysTyped
<1>9. QED
  BY <1>3, <1>4, <1>5, <1>6, <1>7, <1>8

\* The wallet opens only on a deploy of the owner that names a note, and the
\* listed entry points at it.
LEMMA SignKeeps ==
    ASSUME DeskInductive, Sign \/ SignUnheard
    PROVE  DeskInductive'
<1>1. /\ EscrowTypeOK /\ RunTyped /\ CallChecked /\ RunOwnsItsDeploy
      /\ DeploysSound
  BY InductiveInParts
<1> DEFINE i == shown.deploy
           fate == IF deploys[i].fate = "Built" THEN "Sent" ELSE deploys[i].fate
<1>2. /\ UNCHANGED <<escrowVars, runVars, shown>>
      /\ deploys' = Sent(i) /\ CanSign
      /\ listed' = listed \/ listed' = listed \cup {Listing}
  BY DEF Sign, SignUnheard
<1>3. /\ i \in DOMAIN deploys /\ deploys[i] \in Deploy
      /\ deploys[i].account = Owner /\ shown \in Shown
  BY <1>1, <1>2 DEF CanSign, DeploysSound, DeploysTyped, IndicesExist
<1>4. /\ fate \in Fate \ {"Built"} /\ fate \notin {"NotOwner", "RiskTooHigh"}
      /\ deploys' = [deploys EXCEPT ![i].fate = fate]
  BY <1>1, <1>2, <1>3
     DEF Sent, Deploy, Fate, DeploysSound, DeploysTyped, OnlyViableDeploys
<1>5. Listing \in Listed /\ Listing.deploy = i
  BY <1>1, <1>2, <1>3
     DEF Listing, Listed, CanSign, Shown, DeploysSound, DeploysTyped, IndicesExist
<1>6. DeploysSound'
  <2>1. UNCHANGED <<lastDeploy, shown>>
    BY <1>2 DEF runVars, traceVars
  <2>2. \A entry \in listed' :
           entry \in listed \/ (entry \in Listed /\ entry.deploy = i)
    BY <1>2, <1>5
  <2> HIDE DEF fate, i
  <2>3. QED
    BY <1>1, <1>3, <1>4, <2>1, <2>2, NewFateKeeps
<1>7. EscrowTypeOK'
  BY <1>1, <1>2, TypeKept
<1>8. RunTyped' /\ CallChecked'
  BY <1>1, <1>2 DEF RunTyped, CallChecked, runVars, toolVars, traceVars
<1>9. RunOwnsItsDeploy'
  <2>1. \A j \in DOMAIN deploys :
           /\ deploys'[j].run = deploys[j].run
           /\ deploys'[j].account = deploys[j].account
    BY <1>1, <1>3, <1>4 DEF DeploysSound, DeploysTyped, Deploy
  <2>2. lastDeploy # 0 => lastDeploy \in DOMAIN deploys
    BY <1>1 DEF DeploysSound, DeploysTyped
  <2>3. QED
    BY <1>1, <1>2, <2>1, <2>2 DEF RunOwnsItsDeploy, runVars, traceVars
<1>10. QED
  BY <1>6, <1>7, <1>8, <1>9, InductiveInParts

\* The contract's answer to a deploy the desk built is one of its own calls,
\* and neither of the two reverts the tool's checks rule out.
LEMMA ExecuteCalls ==
    ASSUME DeskInductive, NEW i \in DOMAIN deploys, Execute(i)
    PROVE  /\ EscrowNext
           /\ deploys[i].account = Owner
           /\ \E fate \in Fate \ {"Built", "NotOwner", "RiskTooHigh"} :
                 deploys' = [deploys EXCEPT ![i].fate = fate]
<1> DEFINE d == deploys[i]
           a == deploys[i].args
           verdict == OpenNote_Error(d.account, a.note, a.score)
           fate == IF verdict = Ok THEN "Opened" ELSE verdict
<1>1. /\ EscrowTypeOK /\ RunTyped /\ CallChecked /\ RunOwnsItsDeploy
      /\ DeploysSound
  BY InductiveInParts
<1>2. /\ d \in Deploy /\ d.account = Owner /\ a \in Args /\ a.note # None
      /\ a.face > 0 /\ a.score \in MinRiskScore..100
  <2>1. d \in Deploy
    BY <1>1 DEF DeploysSound, DeploysTyped
  <2>2. d.account = Owner /\ a.note # None
    BY <1>1 DEF Execute, DeploysSound, DeploysAreTheOwners
  <2>3. a.face > 0 /\ a.score \in MinRiskScore..100
    BY <1>1 DEF DeploysSound, OnlyViableDeploys
  <2>4. QED
    BY <2>1, <2>2, <2>3 DEF Deploy
<1>3. /\ a.note \in NoteId /\ a.seller \in Account /\ a.face \in Amount
      /\ a.score \in Score /\ a.hash \in Hash
  BY <1>2 DEF Args, Face
<1>4. EscrowNext
  <2>1. OpenNote(Owner, a.note, a.seller, a.face, a.score, a.hash)
    BY <1>2 DEF Execute
  <2> HIDE DEF a
  <2>2. QED
    BY <1>3, <2>1 DEF EscrowNext
<1>5. fate \in Fate \ {"Built", "NotOwner", "RiskTooHigh"}
  <2>1. ~(a.score < MinRiskScore)
    BY <1>2
  <2>2. QED
    BY <1>2, <2>1 DEF OpenNote_Error, Ok, Fate
<1>6. deploys' = [deploys EXCEPT ![i].fate = fate]
  BY DEF Execute
<1>7. QED
  <2> HIDE DEF fate
  <2> QED
    BY <1>2, <1>4, <1>5, <1>6

\* An execution moves one fate on.
LEMMA ExecuteKeeps ==
    ASSUME DeskInductive, NEW i \in DOMAIN deploys, Execute(i)
    PROVE  DeskInductive'
<1>1. /\ EscrowTypeOK /\ RunTyped /\ CallChecked /\ RunOwnsItsDeploy
      /\ DeploysSound
  BY InductiveInParts
<1>2. UNCHANGED <<runVars, shown, listed>>
  BY DEF Execute
<1>3. PICK fate \in Fate \ {"Built", "NotOwner", "RiskTooHigh"} :
         deploys' = [deploys EXCEPT ![i].fate = fate]
  BY ExecuteCalls
<1>4. EscrowTypeOK'
  BY <1>1, ExecuteCalls, TypeKept
<1>5. RunTyped' /\ CallChecked'
  BY <1>1, <1>2 DEF RunTyped, CallChecked, runVars, toolVars, traceVars
<1>6. DeploysSound'
  <2>1. UNCHANGED <<lastDeploy, shown>> /\ listed' = listed
    BY <1>2 DEF runVars, traceVars
  <2>2. QED
    BY <1>1, <1>3, <2>1, ExecuteCalls, NewFateKeeps
<1>7. RunOwnsItsDeploy'
  <2>1. \A j \in DOMAIN deploys :
           /\ deploys'[j].run = deploys[j].run
           /\ deploys'[j].account = deploys[j].account
    <3> SUFFICES ASSUME NEW j \in DOMAIN deploys
                 PROVE  /\ deploys'[j].run = deploys[j].run
                        /\ deploys'[j].account = deploys[j].account
      OBVIOUS
    <3>1. deploys \in Seq(Deploy)
      BY <1>1 DEF DeploysSound, DeploysTyped
    <3>2. deploys[j] \in Deploy
      BY <3>1
    <3>3. deploys'[j] = IF j = i THEN [deploys[j] EXCEPT !.fate = fate] ELSE deploys[j]
      BY <1>3, <3>1
    <3>4. QED
      BY <3>2, <3>3 DEF Deploy
  <2>2. lastDeploy # 0 => lastDeploy \in DOMAIN deploys
    BY <1>1 DEF DeploysSound, DeploysTyped
  <2>3. QED
    BY <1>1, <1>2, <2>1, <2>2 DEF RunOwnsItsDeploy, runVars, traceVars
<1>8. QED
  BY <1>4, <1>5, <1>6, <1>7, InductiveInParts

\* What the chain does by itself leaves the desk as it was.
LEMMA ChainMovesKeeps ==
    ASSUME DeskInductive, ChainMoves \/ UNCHANGED vars
    PROVE  DeskInductive'
<1>1. /\ EscrowTypeOK /\ RunTyped /\ CallChecked /\ RunOwnsItsDeploy
      /\ DeploysSound
  BY InductiveInParts
<1>2. [EscrowNext]_escrowVars /\ UNCHANGED deskVars
  BY DEF ChainMoves, vars
<1>3. EscrowTypeOK'
  BY <1>1, <1>2, TypeKept
<1>4. RunTyped' /\ CallChecked' /\ RunOwnsItsDeploy'
  BY <1>1, <1>2 DEF RunTyped, CallChecked, RunOwnsItsDeploy, deskVars, runVars,
                    toolVars, traceVars
<1>5. DeploysSound'
  <2>1. UNCHANGED <<deploys, listed, lastDeploy, shown>>
    BY <1>2 DEF deskVars, runVars, traceVars
  <2>2. QED
    BY <1>1, <2>1, DeploysUntouched
<1>6. QED
  BY <1>3, <1>4, <1>5, InductiveInParts

-----------------------------------------------------------------------------

\* The strengthening the theorems below share: each step of the desk, of the
\* wallet, of the node and of the chain keeps all of its parts.
THEOREM DeskInductiveHolds == Spec => []DeskInductive
<1>1. EscrowInit /\ DeskInit => DeskInductive
  <2> SUFFICES ASSUME EscrowInit, DeskInit
               PROVE  DeskInductive
    OBVIOUS
  <2>1. EscrowTypeOK
    BY TypeAtStart
  <2>2. RunTyped /\ CallChecked /\ RunOwnsItsDeploy
    <3>1. RunTyped
      <4>1. run \in 0..MaxRuns /\ bondSeen \in Nat /\ lastFace \in Face
        BY DEF DeskInit, Face
      <4>2. QED
        BY <4>1 DEF DeskInit, RunTyped, Phase
    <3>2. CallChecked /\ RunOwnsItsDeploy
      BY DEF DeskInit, CallChecked, RunOwnsItsDeploy
    <3>3. QED
      BY <3>1, <3>2
  <2>3. DeploysSound
    BY DEF DeskInit, DeploysSound, DeploysTyped, DeploysAreTheOwners,
           IndicesExist, DeployIsThisRuns, ListedWasAccepted, OnlyViableDeploys
  <2>4. QED
    BY <2>1, <2>2, <2>3, InductiveInParts
<1>2. DeskInductive /\ [Next]_vars => DeskInductive'
  <2> SUFFICES ASSUME DeskInductive, [Next]_vars
               PROVE  DeskInductive'
    OBVIOUS
  <2>1. CASE \/ \E caller \in Account : StartRun(caller)
             \/ \E r \in Report : GetRiskReport(r)
             \/ \E a \in Args : Propose(a) \/ ProposeMalformed(a)
             \/ ReadTerms \/ Refuse \/ ReadNote \/ BuildFails \/ ReadFails \/ RunFails
    BY <2>1, RunStepsKeep
  <2>2. CASE BuildDeploy
    BY <2>2, BuildDeployKeeps
  <2>3. CASE EndRun
    BY <2>3, EndRunKeeps
  <2>4. CASE Sign \/ SignUnheard
    BY <2>4, SignKeeps
  <2>5. CASE \E i \in DOMAIN deploys : Execute(i)
    BY <2>5, ExecuteKeeps
  <2>6. CASE ChainMoves \/ UNCHANGED vars
    BY <2>6, ChainMovesKeeps
  <2>7. QED
    BY <2>1, <2>2, <2>3, <2>4, <2>5, <2>6 DEF Next
<1>3. QED
  BY <1>1, <1>2, PTL DEF Spec

\* The desk keeps its types and lists only what the node took.
THEOREM DeskInvariantHolds == Spec => []DeskInvariant
<1>1. DeskInductive => DeskInvariant
  BY DEF DeskInductive, DeskInvariant
<1>2. QED
  BY <1>1, DeskInductiveHolds, PTL

\* The deploy on the panel is the one its run built, for the key that asked.
THEOREM DeployIsAlwaysThisRuns == Spec => []DeployIsThisRuns
<1>1. DeskInductive => DeployIsThisRuns
  BY DEF DeskInductive
<1>2. QED
  BY <1>1, DeskInductiveHolds, PTL

\* No deploy of the desk ever reverts NotOwner or RiskTooHigh, and none asks
\* for a face value or a score the terms forbid.
THEOREM OnlyEverViableDeploys == Spec => []OnlyViableDeploys
<1>1. DeskInductive => OnlyViableDeploys
  BY DEF DeskInductive
<1>2. QED
  BY <1>1, DeskInductiveHolds, PTL

\* The contract refuses a deploy of the desk only when the owner's bond shrank
\* since the tool read it, or the id was taken since the tool found it free.
THEOREM RevertsOnlyOnChangeHolds == Spec => RevertsOnlyOnChange
<1>1. DeskInductive /\ [Next]_vars =>
        [\A i \in DOMAIN deploys :
           LET d == deploys[i]
               fate == deploys'[i].fate
           IN fate # d.fate =>
                /\ fate = "NotBonded" => bonds[Owner].amount < d.bondSeen
                /\ fate = "NoteExists" => d.idFree]_vars
  <2> SUFFICES ASSUME DeskInductive, Next, NEW i \in DOMAIN deploys,
                      deploys'[i].fate # deploys[i].fate
               PROVE  /\ deploys'[i].fate = "NotBonded" =>
                            bonds[Owner].amount < deploys[i].bondSeen
                      /\ deploys'[i].fate = "NoteExists" => deploys[i].idFree
    OBVIOUS
  <2>1. /\ EscrowTypeOK /\ RunTyped /\ CallChecked /\ DeploysSound
    BY InductiveInParts
  <2>2. deploys \in Seq(Deploy) /\ deploys[i] \in Deploy
    BY <2>1 DEF DeploysSound, DeploysTyped
  <2>3. /\ deploys[i].bondSeen >= MinBond /\ deploys[i].idFree
        /\ deploys[i].bondSeen \in Nat
        /\ bonds[Owner].amount \in Nat
    <3>1. deploys[i].bondSeen >= MinBond /\ deploys[i].idFree
      BY <2>1 DEF DeploysSound, DeploysAreTheOwners
    <3>2. deploys[i].bondSeen \in Nat
      BY <2>2 DEF Deploy
    <3>3. bonds[Owner].amount \in Nat
      BY <2>1 DEF EscrowTypeOK, BondTypeOK, Bond
    <3>4. QED
      BY <3>1, <3>2, <3>3
  <2>4. CASE deploys'[i].fate # "NotBonded"
    BY <2>3, <2>4
  <2>5. CASE deploys'[i].fate = "NotBonded"
    <3>1. ASSUME NEW j \in DOMAIN deploys, Execute(j)
          PROVE  bonds[Owner].amount < MinBond
      <4>1. /\ deploys[j].account = Owner
            /\ \E fate \in Fate :
                  deploys' = [deploys EXCEPT ![j].fate = fate]
        BY <3>1, ExecuteCalls
      <4>2. j = i
        BY <2>2, <4>1
      <4> DEFINE a == deploys[i].args
                 verdict == OpenNote_Error(Owner, a.note, a.score)
      <4>3. deploys' = [deploys EXCEPT ![i].fate =
                            IF verdict = Ok THEN "Opened" ELSE verdict]
        BY <3>1, <4>1, <4>2 DEF Execute
      <4> HIDE DEF verdict
      <4>4. deploys'[i].fate = IF verdict = Ok THEN "Opened" ELSE verdict
        BY <2>2, <4>3 DEF Deploy
      <4>5. verdict = "NotBonded"
        BY <2>5, <4>4
      <4>6. ~IsBonded(Owner)
        BY <4>5 DEF verdict, OpenNote_Error, Ok
      <4>7. QED
        BY <2>3, <4>6 DEF IsBonded
    <3>2. ASSUME Sign \/ SignUnheard
          PROVE  FALSE
      <4>1. /\ deploys' = Sent(shown.deploy)
            /\ deploys[i].fate \in Fate
        BY <2>2, <3>2 DEF Sign, SignUnheard, Deploy
      <4>2. deploys'[i].fate \in {"Sent", deploys[i].fate}
        BY <2>2, <4>1 DEF Sent, Deploy
      <4>3. QED
        BY <2>5, <4>2
    <3>3. ASSUME BuildDeploy
          PROVE  FALSE
      <4>1. deploys'[i] = deploys[i]
        BY <2>2, <3>3 DEF BuildDeploy
      <4>2. QED
        BY <4>1
    <3>4. deploys' # deploys
      OBVIOUS
    <3>5. \/ BuildDeploy \/ Sign \/ SignUnheard
          \/ \E j \in DOMAIN deploys : Execute(j)
      BY <3>4
         DEF Next, StartRun, GetRiskReport, Propose, ProposeMalformed,
             ReadTerms, Refuse, ReadNote, BuildFails, ReadFails, EndRun,
             RunFails, ChainMoves, deskVars
    <3>6. bonds[Owner].amount < MinBond
      BY <3>1, <3>2, <3>3, <3>5
    <3>7. QED
      BY <2>3, <2>5, <3>6
  <2>6. QED
    BY <2>4, <2>5
<1>2. QED
  BY <1>1, DeskInductiveHolds, PTL DEF Spec, RevertsOnlyOnChange

\* The desk composed with the contract is still the contract: whatever the
\* model, the panel and the wallet do, the chain makes only its own calls, so
\* every theorem about EscrowSpec holds of it.
THEOREM DeskRunsTheContract == Spec => EscrowSpec
<1>1. DeskInductive /\ [Next]_vars => [EscrowNext]_escrowVars
  <2> SUFFICES ASSUME DeskInductive, [Next]_vars
               PROVE  [EscrowNext]_escrowVars
    OBVIOUS
  <2>1. CASE \E i \in DOMAIN deploys : Execute(i)
    BY <2>1, ExecuteCalls
  <2>2. CASE ChainMoves
    BY <2>2 DEF ChainMoves
  <2>3. CASE UNCHANGED vars
    BY <2>3 DEF vars
  <2>4. CASE Sign \/ SignUnheard
    BY <2>4 DEF Sign, SignUnheard
  <2>5. QED
    BY <2>1, <2>2, <2>3, <2>4
       DEF Next, StartRun, GetRiskReport, Propose, ProposeMalformed, ReadTerms,
           Refuse, ReadNote, BuildDeploy, BuildFails, ReadFails, EndRun, RunFails
<1>2. QED
  BY <1>1, DeskInductiveHolds, PTL DEF Spec, EscrowSpec
=============================================================================
