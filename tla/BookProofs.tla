------------------------------ MODULE BookProofs ------------------------------
(***************************************************************************)
(* Theorems about DeskBook: what the node accepts from the panels, what the  *)
(* list shows of it and what it does on the chain, for any number of keys,   *)
(* notes, deploys in flight and entries.                                    *)
(***************************************************************************)
EXTENDS DeskBook, ReceivableEscrowProofs

-----------------------------------------------------------------------------
(* The strengthening.                                                       *)

\* A deploy of the panels is a call the contract knows: the owner's own, unless
\* it funds, and a new note's face value is an amount a run can ask for.
IsCall(d) ==
    /\ d.call # "fund_note" => d.account = Owner
    /\ d.call = "open_note" => d.amount \in Amount

PanelsMakeCalls ==
    /\ offer # None => IsCall(offer) /\ offer.call = "open_note"
    /\ \A ask \in asking : IsCall(ask.deploy)
    /\ \A d \in BagToSet(waiting) : IsCall(d)

\* Every face value on record is one some caller wrote into a call.
FacesAreAmounts == \A n \in NoteId : Exists(n) => notes[n].face \in Amount

\* What an entry says the node took.
Claims(status) ==
    CASE status = "open"   -> {"open_note"}
      [] status = "funded" -> {"open_note", "fund_note"}
      [] status = "repaid" -> {"open_note", "fund_note", "mark_repaid"}

\* It took that, and a click on Mark repaid was on an entry shown funded.
ListWasTaken ==
    /\ \A i \in DOMAIN list : Claims(list[i].status) \subseteq took[list[i].note]
    /\ \A ask \in asking :
          ask.deploy.call = "mark_repaid" =>
              Claims("funded") \subseteq took[ask.deploy.note]

PastOpen(n) == HasStatus(n, {"Funded", "Repaid", "Defaulted"})
Over(n)     == HasStatus(n, {"Repaid", "Defaulted"})

\* A deploy that took effect shows in the note, for good.
DoneShows ==
    /\ IsFiniteSet(BagToSet(done))
    /\ \A d \in BagToSet(done) :
          /\ d.call = "open_note"   => Exists(d.note)
          /\ d.call = "fund_note"   => /\ PastOpen(d.note)
                                       /\ notes[d.note].face = d.amount
                                       /\ notes[d.note].investor = d.account
          /\ d.call = "mark_repaid" => HasStatus(d.note, {"Repaid"})

AtMostOne(fact) == IF fact THEN 1 ELSE 0

\* And it is the only one of its kind.
DoneOnce ==
    \A n \in NoteId :
        /\ Effects(n, {"open_note"}) <= AtMostOne(Exists(n))
        /\ Effects(n, {"fund_note"}) <= AtMostOne(PastOpen(n))
        /\ Effects(n, {"mark_repaid", "declare_default"}) <= AtMostOne(Over(n))

BookInductive ==
    /\ BookTypeOK
    /\ PanelsMakeCalls
    /\ FacesAreAmounts
    /\ ListWasTaken
    /\ DoneShows
    /\ DoneOnce

-----------------------------------------------------------------------------
(* Bags of deploys, and sums over them.                                     *)

\* One more copy of e.
LEMMA BagGains ==
    ASSUME NEW B, IsABag(B), NEW e, NEW C, C = B (+) SetToBag({e})
    PROVE  /\ IsABag(C)
           /\ BagToSet(C) = BagToSet(B) \cup {e}
           /\ C[e] = IF e \in BagToSet(B) THEN B[e] + 1 ELSE 1
           /\ \A x \in BagToSet(B) : x # e => C[x] = B[x]
BY DEF IsABag, BagToSet, SetToBag, (+)

\* One copy less.
LEMMA BagLoses ==
    ASSUME NEW B, IsABag(B), NEW e, NEW C, C = B (-) SetToBag({e})
    PROVE  IsABag(C) /\ BagToSet(C) \subseteq BagToSet(B)
BY DEF IsABag, BagToSet, SetToBag, (-)

\* The deploys Effects counts.
Hits(n, calls) == {d \in BagToSet(done) : d.note = n /\ d.call \in calls}

\* An effect is counted in the deploys that had it.
LEMMA EffectsType ==
    ASSUME IsABag(done), IsFiniteSet(BagToSet(done)), NEW n, NEW calls
    PROVE  /\ Effects(n, calls) \in Nat
           /\ Effects(n, calls) > 0 => Hits(n, calls) # {}
<1>1. IsFiniteSet(Hits(n, calls))
  BY FS_Subset DEF Hits
<1>2. \A d \in Hits(n, calls) : done[d] \in Nat
  BY DEF Hits, IsABag, BagToSet
<1>3. SumFunctionOnSet(done, Hits(n, calls)) \in Nat
  BY <1>1, <1>2, SumType
<1>4. Hits(n, calls) = {} => SumFunctionOnSet(done, Hits(n, calls)) = 0
  BY SumEmpty
<1>5. Effects(n, calls) = SumFunctionOnSet(done, Hits(n, calls))
  BY DEF Effects, Hits
<1>6. QED
  BY <1>3, <1>4, <1>5

\* A deploy that takes effect adds one to the counts it belongs to.
LEMMA EffectsGain ==
    ASSUME IsABag(done), IsFiniteSet(BagToSet(done)), NEW e,
           done' = done (+) SetToBag({e}), NEW n, NEW calls
    PROVE  Effects(n, calls)' = Effects(n, calls)
             + (IF e.note = n /\ e.call \in calls THEN 1 ELSE 0)
<1> DEFINE S == Hits(n, calls)
           T == Hits(n, calls)'
<1>1. /\ IsABag(done') /\ BagToSet(done') = BagToSet(done) \cup {e}
      /\ done'[e] = IF e \in BagToSet(done) THEN done[e] + 1 ELSE 1
      /\ \A x \in BagToSet(done) : x # e => done'[x] = done[x]
  BY DEF IsABag, BagToSet, SetToBag, (+)
<1>2. /\ IsFiniteSet(S)
      /\ \A d \in BagToSet(done) : done[d] \in Nat
      /\ \A d \in BagToSet(done) \cup {e} : done'[d] \in Nat
  <2>1. IsFiniteSet(S)
    BY FS_Subset DEF Hits
  <2>2. QED
    BY <1>1, <2>1 DEF IsABag, BagToSet
<1>3. /\ Effects(n, calls) = SumFunctionOnSet(done, S)
      /\ Effects(n, calls)' = SumFunctionOnSet(done', T)
  BY DEF Effects, Hits
<1>4. /\ S \subseteq BagToSet(done)
      /\ T = IF e.note = n /\ e.call \in calls THEN S \cup {e} ELSE S
      /\ e \in S <=> /\ e \in BagToSet(done) /\ e.note = n /\ e.call \in calls
  BY <1>1 DEF Hits
<1> HIDE DEF S, T
<1>5. \A d \in S : done[d] \in Nat
  BY <1>2, <1>4
<1>6. SumFunctionOnSet(done, S) \in Nat
  BY <1>2, <1>5, SumType
<1>7. CASE ~(e.note = n /\ e.call \in calls)
  <2>1. \A d \in S : done'[d] = done[d]
    BY <1>1, <1>4, <1>7
  <2>2. SumFunctionOnSet(done', S) = SumFunctionOnSet(done, S)
    BY <1>2, <1>5, <2>1, SumSame
  <2>3. QED
    BY <1>3, <1>4, <1>6, <1>7, <2>2
<1>8. CASE e.note = n /\ e.call \in calls /\ e \in BagToSet(done)
  <2>1. e \in S /\ T = S
    BY <1>4, <1>8
  <2>2. \A d \in S : done[d] \in Nat /\ done'[d] \in Nat
    BY <1>2, <1>4
  <2>3. \A d \in S \ {e} : done'[d] = done[d]
    BY <1>1, <1>4
  <2>4. SumFunctionOnSet(done', S)
          = SumFunctionOnSet(done, S) + done'[e] - done[e]
    <3>1. IsFiniteSet(S) /\ e \in S
      BY <1>2, <2>1
    <3>2. QED
      BY <2>2, <2>3, <3>1, SumChange, SMTT(60)
  <2>5. done'[e] = done[e] + 1 /\ done[e] \in Nat
    BY <1>1, <1>2, <1>8
  <2>6. QED
    BY <1>3, <1>6, <1>8, <2>1, <2>4, <2>5
<1>9. CASE e.note = n /\ e.call \in calls /\ e \notin BagToSet(done)
  <2>1. e \notin S /\ T = S \cup {e}
    BY <1>4, <1>9
  <2>2. \A d \in S : done'[d] = done[d]
    BY <1>1, <1>4, <1>9
  <2>3. SumFunctionOnSet(done', S) = SumFunctionOnSet(done, S)
    BY <1>2, <1>5, <2>2, SumSame
  <2>4. \A d \in S \cup {e} : done'[d] \in Nat
    BY <1>2, <1>4
  <2>5. SumFunctionOnSet(done', S \cup {e}) = SumFunctionOnSet(done', S) + done'[e]
    BY <1>2, <2>1, <2>4, SumAdd
  <2>6. done'[e] = 1
    BY <1>1, <1>9
  <2>7. QED
    BY <1>3, <1>6, <1>9, <2>1, <2>3, <2>5, <2>6
<1>10. QED
  BY <1>7, <1>8, <1>9

-----------------------------------------------------------------------------

USE MinBondAssumption, EscrowAssumption, BookAssumption

(* The chain under the book.                                                *)

\* The contract executes a deploy of the panels as one of its own calls.
LEMMA ExecuteCalls ==
    ASSUME BookInductive, NEW d \in BagToSet(waiting), Execute(d)
    PROVE  [EscrowNext]_escrowVars
<1>1. d \in Deploy /\ IsCall(d)
  BY DEF BookInductive, BookTypeOK, PanelsMakeCalls
<1>2. /\ d.account \in Account /\ d.note \in NoteId /\ d.seller \in Account
  BY <1>1 DEF Deploy
<1>3. CASE UNCHANGED escrowVars
  BY <1>3
<1>4. CASE /\ d.call = "open_note"
           /\ \E hash \in Hash :
                NoteOpened(d.account, d.note, d.seller, d.amount,
                           AcceptedScore, hash)
  <2>1. AcceptedScore \in Score /\ d.amount \in Amount
    BY <1>1, <1>4 DEF AcceptedScore, IsCall
  <2>2. QED
    BY <1>2, <1>4, <2>1 DEF EscrowNext, OpenNote
<1>5. CASE d.call = "fund_note" /\ NoteFunded(d.account, d.note, d.amount)
  <2>1. Exists(d.note) /\ d.amount = notes[d.note].face
    BY <1>5 DEF NoteFunded, FundNote_Error, Ok
  <2>2. d.amount \in Amount
    BY <1>2, <2>1 DEF BookInductive, FacesAreAmounts
  <2>3. QED
    BY <1>2, <1>5, <2>2 DEF EscrowNext, FundNote
<1>6. CASE d.call = "mark_repaid" /\ NoteRepaid(d.account, d.note)
  BY <1>2, <1>6 DEF EscrowNext, MarkRepaid
<1>7. CASE d.call = "declare_default" /\ NoteDefaulted(d.account, d.note)
  BY <1>2, <1>7 DEF EscrowNext, DeclareDefault
<1>8. QED
  BY <1>3, <1>4, <1>5, <1>6, <1>7 DEF Execute, Commits, Reverts

\* What a step of the contract leaves true of every note.
NotesStay ==
    \A n \in NoteId :
        /\ Exists(n) => Exists(n)'
        /\ PastOpen(n) => /\ PastOpen(n)'
                          /\ notes'[n].face = notes[n].face
                          /\ notes'[n].investor = notes[n].investor
        /\ Over(n) => Over(n)'
        /\ HasStatus(n, {"Repaid"}) => HasStatus(n, {"Repaid"})'

\* Such a step keeps the contract's types, and invents no face value.
LEMMA ChainKeeps ==
    ASSUME EscrowTypeOK, FacesAreAmounts, [EscrowNext]_escrowVars
    PROVE  EscrowTypeOK' /\ FacesAreAmounts' /\ NotesStay
<1>1. EscrowTypeOK'
  BY TypeKept
<1>2. FacesAreAmounts'
  <2> SUFFICES ASSUME NEW n \in NoteId, Exists(n)'
               PROVE  notes'[n].face \in Amount
    BY DEF FacesAreAmounts
  <2>1. CASE Exists(n)
    <3>1. Terms(notes'[n]) = Terms(notes[n])
      BY <2>1, NoteAdvances
    <3>2. QED
      BY <2>1, <3>1 DEF Terms, FacesAreAmounts
  <2>2. CASE ~Exists(n)
    <3>1. PICK caller \in Account, m \in NoteId, seller \in Account,
               face \in Amount, score \in Score, hash \in Hash :
               NoteOpened(caller, m, seller, face, score, hash)
      <4>1. notes' # notes
        BY <2>2 DEF Exists
      <4>2. ~(\E caller \in Account, m \in NoteId, attached \in Amount :
                NoteFunded(caller, m, attached))
        BY <2>2 DEF NoteFunded, FundNote_Error, Exists, Ok, EscrowTypeOK
      <4>3. ~(\E caller \in Account, m \in NoteId : NoteRepaid(caller, m))
        BY <2>2 DEF NoteRepaid, MarkRepaid_Error, Exists, Ok, EscrowTypeOK
      <4>4. ~(\E caller \in Account, m \in NoteId : NoteDefaulted(caller, m))
        BY <2>2 DEF NoteDefaulted, DeclareDefault_Error, Exists, Ok, EscrowTypeOK
      <4>5. QED
        BY <4>1, <4>2, <4>3, <4>4, StepCases
           DEF escrowVars, BondPosted, BondWithdrawn
    <3>2. notes'[n].face = face
      BY <2>2, <3>1 DEF NoteOpened, Exists, EscrowTypeOK
    <3>3. QED
      BY <3>2
  <2>3. QED
    BY <2>1, <2>2
<1>3. NotesStay
  <2> SUFFICES ASSUME NEW n \in NoteId, Exists(n)
               PROVE  /\ Exists(n)'
                      /\ PastOpen(n) => /\ PastOpen(n)'
                                        /\ notes'[n].face = notes[n].face
                                        /\ notes'[n].investor = notes[n].investor
                      /\ Over(n) => Over(n)'
                      /\ HasStatus(n, {"Repaid"}) => HasStatus(n, {"Repaid"})'
    BY DEF NotesStay, PastOpen, Over, HasStatus
  <2>1. /\ notes'[n] # None
        /\ Terms(notes'[n]) = Terms(notes[n])
        /\ \/ notes'[n] = notes[n]
           \/ notes[n].status = "Open" /\ notes'[n].status = "Funded"
           \/ /\ notes[n].status = "Funded"
              /\ notes'[n].status \in {"Repaid", "Defaulted"}
              /\ notes'[n].investor = notes[n].investor
    BY NoteAdvances
  <2>2. notes'[n].face = notes[n].face
    BY <2>1 DEF Terms
  <2>3. QED
    BY <2>1, <2>2 DEF Exists, PastOpen, Over, HasStatus
<1>4. QED
  BY <1>1, <1>2, <1>3

\* Whatever the desk does, the chain makes one of its own calls or none.
LEMMA ChainStep ==
    ASSUME BookInductive, [Next]_vars
    PROVE  [EscrowNext]_escrowVars
<1>1. CASE \E d \in BagToSet(waiting) : Execute(d)
  BY <1>1, ExecuteCalls
<1>2. CASE ChainMoves
  BY <1>2 DEF ChainMoves
<1>3. CASE \E ask \in asking : Heard(ask) \/ Unheard(ask) \/ NotSent(ask)
  BY <1>3 DEF Heard, Unheard, NotSent
<1>4. CASE UNCHANGED vars
  BY <1>4 DEF vars
<1>5. QED
  BY <1>1, <1>2, <1>3, <1>4
     DEF Next, RunEnds, ClickOpen, ClickFund, ClickSettle, ClickFails

\* The effects on record go on showing, and stay the only ones, while the
\* chain moves.
LEMMA RecordStays ==
    ASSUME BookTypeOK, DoneShows, DoneOnce, NotesStay, UNCHANGED done
    PROVE  DoneShows' /\ DoneOnce'
<1>1. \A d \in BagToSet(done) : d.note \in NoteId
  BY DEF BookTypeOK, Deploy
<1>2. DoneShows'
  BY <1>1 DEF DoneShows, NotesStay
<1>3. ASSUME NEW n \in NoteId
      PROVE  /\ (Effects(n, {"open_note"}) <= AtMostOne(Exists(n)))'
             /\ (Effects(n, {"fund_note"}) <= AtMostOne(PastOpen(n)))'
             /\ (Effects(n, {"mark_repaid", "declare_default"}) <= AtMostOne(Over(n)))'
  <2>1. ASSUME NEW calls
        PROVE  Effects(n, calls) \in Nat /\ Effects(n, calls)' = Effects(n, calls)
    <3>1. IsABag(done) /\ IsFiniteSet(BagToSet(done))
      BY DEF BookTypeOK, DoneShows
    <3>2. Effects(n, calls) \in Nat
      BY <3>1, EffectsType
    <3>3. QED
      BY <3>2 DEF Effects
  <2>2. QED
    BY <2>1 DEF DoneOnce, NotesStay, AtMostOne
<1>4. QED
  BY <1>2, <1>3 DEF DoneOnce

\* The one new effect of an execution is of a deploy whose kind had none on
\* that note, and the note now shows it.
LEMMA ExecuteRecords ==
    ASSUME BookInductive, NEW e \in BagToSet(waiting), Execute(e),
           BookTypeOK', NotesStay
    PROVE  DoneShows' /\ DoneOnce'
<1>1. /\ BookTypeOK /\ DoneShows /\ DoneOnce
  BY DEF BookInductive
<1>2. CASE UNCHANGED done
  BY <1>1, <1>2, RecordStays
<1>3. CASE Commits(e) /\ done' = done (+) SetToBag({e})
  <2>1. e \in Deploy /\ e.note \in NoteId
    BY <1>1 DEF BookTypeOK, Deploy
  <2>2. IsABag(done) /\ IsFiniteSet(BagToSet(done))
    BY <1>1 DEF BookTypeOK, DoneShows
  <2>3. BagToSet(done') = BagToSet(done) \cup {e}
    BY <1>3, <2>2 DEF IsABag, BagToSet, SetToBag, (+)
  <2>4. /\ e.call = "open_note" => ~Exists(e.note) /\ Exists(e.note)'
        /\ e.call = "fund_note" =>
              /\ ~PastOpen(e.note) /\ PastOpen(e.note)'
              /\ notes'[e.note].face = e.amount
              /\ notes'[e.note].investor = e.account
        /\ e.call \in {"mark_repaid", "declare_default"} =>
              ~Over(e.note) /\ Over(e.note)'
        /\ e.call = "mark_repaid" => HasStatus(e.note, {"Repaid"})'
    <3> DEFINE m == e.note
    <3>1. notes \in [NoteId -> Note \cup {None}]
      BY <1>1 DEF BookTypeOK, EscrowTypeOK
    <3>2. CASE e.call = "open_note"
      <4>1. PICK hash \in Hash :
              NoteOpened(e.account, m, e.seller, e.amount, AcceptedScore, hash)
        BY <1>3, <3>2 DEF Commits
      <4> DEFINE note == [seller |-> e.seller, investor |-> None,
                          face |-> e.amount, score |-> AcceptedScore,
                          hash |-> hash, status |-> "Open"]
      <4>2. note \in Note
        <5>1. AcceptedScore \in Score
          BY DEF AcceptedScore
        <5>2. QED
          BY <2>1, <5>1 DEF Note, Deploy
      <4>3. notes[m] = None /\ notes' = [notes EXCEPT ![m] = note]
        BY <4>1 DEF NoteOpened, OpenNote_Error, Exists, Ok
      <4> HIDE DEF note
      <4>4. notes'[m] # None
        BY <2>1, <3>1, <4>2, <4>3
      <4>5. QED
        BY <3>2, <4>3, <4>4 DEF Exists
    <3>3. CASE e.call = "fund_note"
      <4>1. /\ notes[m] # None /\ notes[m].status = "Open"
            /\ notes[m].face = e.amount
            /\ notes' = [notes EXCEPT ![m] =
                  [notes[m] EXCEPT !.investor = e.account, !.status = "Funded"]]
        BY <1>3, <3>3 DEF Commits, NoteFunded, FundNote_Error, Exists, Ok
      <4>2. /\ notes'[m] \in Note /\ notes'[m].status = "Funded"
            /\ notes'[m].investor = e.account /\ notes'[m].face = e.amount
        BY <2>1, <3>1, <4>1 DEF Note, Deploy
      <4>3. QED
        BY <3>3, <4>1, <4>2 DEF PastOpen, HasStatus, Exists
    <3>4. CASE e.call \in {"mark_repaid", "declare_default"}
      <4> DEFINE over == IF e.call = "mark_repaid" THEN "Repaid" ELSE "Defaulted"
      <4>1. /\ notes[m] # None /\ notes[m].status = "Funded"
            /\ notes' = [notes EXCEPT ![m] = [notes[m] EXCEPT !.status = over]]
        <5>1. CASE e.call = "mark_repaid"
          BY <1>3, <5>1 DEF Commits, NoteRepaid, MarkRepaid_Error, Exists, Ok
        <5>2. CASE e.call = "declare_default"
          BY <1>3, <5>2 DEF Commits, NoteDefaulted, DeclareDefault_Error, Exists, Ok
        <5>3. QED
          BY <3>4, <5>1, <5>2
      <4>2. notes'[m] \in Note /\ notes'[m].status = over
        BY <2>1, <3>1, <4>1 DEF Note
      <4>3. QED
        BY <3>4, <4>1, <4>2 DEF Over, HasStatus, Exists
    <3>5. QED
      BY <2>1, <3>2, <3>3, <3>4 DEF Deploy, Calls
  <2>5. DoneShows'
    <3>1. IsFiniteSet(BagToSet(done'))
      BY <2>2, <2>3, FS_AddElement
    <3>2. ASSUME NEW d \in BagToSet(done)
          PROVE  /\ d.call = "open_note"   => Exists(d.note)'
                 /\ d.call = "fund_note"   => /\ PastOpen(d.note)'
                                              /\ notes'[d.note].face = d.amount
                                              /\ notes'[d.note].investor = d.account
                 /\ d.call = "mark_repaid" => HasStatus(d.note, {"Repaid"})'
      <4>1. d.note \in NoteId
        BY <1>1 DEF BookTypeOK, Deploy
      <4>2. QED
        BY <1>1, <4>1 DEF DoneShows, NotesStay
    <3>3. QED
      BY <2>3, <2>4, <3>1, <3>2 DEF DoneShows
  <2>6. ASSUME NEW n \in NoteId
        PROVE  /\ (Effects(n, {"open_note"}) <= AtMostOne(Exists(n)))'
               /\ (Effects(n, {"fund_note"}) <= AtMostOne(PastOpen(n)))'
               /\ (Effects(n, {"mark_repaid", "declare_default"})
                     <= AtMostOne(Over(n)))'
    <3>1. /\ Effects(n, {"open_note"}) \in Nat
          /\ Effects(n, {"fund_note"}) \in Nat
          /\ Effects(n, {"mark_repaid", "declare_default"}) \in Nat
      BY <2>2, EffectsType
    <3>2. /\ Effects(n, {"open_note"})' = Effects(n, {"open_note"})
                + (IF e.note = n /\ e.call \in {"open_note"} THEN 1 ELSE 0)
          /\ Effects(n, {"fund_note"})' = Effects(n, {"fund_note"})
                + (IF e.note = n /\ e.call \in {"fund_note"} THEN 1 ELSE 0)
          /\ Effects(n, {"mark_repaid", "declare_default"})'
                = Effects(n, {"mark_repaid", "declare_default"})
                + (IF e.note = n /\ e.call \in {"mark_repaid", "declare_default"}
                   THEN 1 ELSE 0)
      BY <1>3, <2>2, EffectsGain
    <3>3. QED
      BY <1>1, <2>4, <3>1, <3>2 DEF DoneOnce, NotesStay, AtMostOne
  <2>7. QED
    BY <2>5, <2>6 DEF DoneOnce
<1>4. QED
  BY <1>2, <1>3 DEF Execute

-----------------------------------------------------------------------------
(* The page.                                                                *)

PageTyped ==
    /\ offer \in Deploy \cup {None}
    /\ pending \subseteq Calls
    /\ slashed \in BOOLEAN
    /\ asking \subseteq Ask
    /\ took \in [NoteId -> SUBSET Calls]
    /\ list \in Seq(Entry)

NodeTyped ==
    /\ IsABag(waiting) /\ BagToSet(waiting) \subseteq Deploy
    /\ IsABag(done) /\ BagToSet(done) \subseteq Deploy

\* What the page, the clicks and the node's queue promise together.
PageSound == PageTyped /\ NodeTyped /\ PanelsMakeCalls /\ ListWasTaken

\* The parts the steps below prove one by one.
LEMMA InductiveInParts ==
    /\ BookInductive <=> /\ EscrowTypeOK
                         /\ FacesAreAmounts
                         /\ PageSound
                         /\ DoneShows
                         /\ DoneOnce
    /\ BookInductive' <=> /\ EscrowTypeOK'
                          /\ FacesAreAmounts'
                          /\ PageSound'
                          /\ DoneShows'
                          /\ DoneOnce'
BY DEF BookInductive, BookTypeOK, PageSound, PageTyped, NodeTyped

\* A click adds to the clicks that wait a deploy the contract knows, and a
\* click on Mark repaid one for a note the node took a funding of.
LEMMA AwaitKeeps ==
    ASSUME PageSound, NEW call \in Calls, NEW ask \in Ask, Await(call, ask),
           IsCall(ask.deploy),
           ask.deploy.call = "mark_repaid" =>
               Claims("funded") \subseteq took[ask.deploy.note],
           UNCHANGED <<offer, nodeVars, list>>
    PROVE  PageSound'
<1> USE DEF PageSound, Await, nodeVars
<1>1. PageTyped' /\ NodeTyped'
  BY DEF PageTyped, NodeTyped, Said
<1>2. PanelsMakeCalls'
  BY DEF PanelsMakeCalls
<1>3. ListWasTaken'
  BY DEF ListWasTaken
<1>4. QED
  BY <1>1, <1>2, <1>3

\* The deploy a click on an entry of the list builds.
LEMMA ClickIsAsk ==
    ASSUME NEW call \in Calls, NEW key \in Account, NEW e \in Entry
    PROVE  /\ Click(call, key, e) \in Ask
           /\ Click(call, key, e).deploy.call = call
           /\ Click(call, key, e).deploy.account = key
           /\ Click(call, key, e).deploy.note = e.note
BY DEF Click, Built, Ask, Deploy, Entry

\* Runs and clicks.
LEMMA ClicksKeep ==
    ASSUME PageSound,
           \/ \E n \in NoteId, seller \in Seller, face \in Amount :
                 RunEnds(n, seller, face)
           \/ \E key \in Account :
              \/ \E seller \in Seller, face \in Amount \cup {0} :
                    ClickOpen(key, seller, face)
              \/ \E i \in DOMAIN list : ClickFund(key, i)
              \/ \E call \in Calls, i \in DOMAIN list :
                    ClickSettle(key, call, list[i])
           \/ \E call \in Calls : ClickFails(call)
    PROVE  PageSound'
<1>1. ASSUME NEW n \in NoteId, NEW seller \in Seller, NEW face \in Amount,
             RunEnds(n, seller, face)
      PROVE  PageSound'
  <2> DEFINE d == Built("open_note", Owner,
                        [note |-> n, seller |-> seller, face |-> face])
  <2>1. d \in Deploy /\ IsCall(d) /\ d.call = "open_note"
    BY DEF Built, Deploy, Calls, IsCall
  <2> HIDE DEF d
  <2>2. /\ offer' = d /\ pending' = pending \ {"open_note"}
        /\ UNCHANGED <<slashed, asking, waiting, took, done, list>>
    BY <1>1 DEF RunEnds, nodeVars, d
  <2>3. PageTyped' /\ NodeTyped' /\ PanelsMakeCalls' /\ ListWasTaken'
    BY <2>1, <2>2 DEF PageSound, PageTyped, NodeTyped, PanelsMakeCalls, ListWasTaken
  <2>4. QED
    BY <2>3 DEF PageSound
<1>2. ASSUME NEW key \in Account, NEW seller \in Seller,
             NEW face \in Amount \cup {0}, ClickOpen(key, seller, face)
      PROVE  PageSound'
  <2> DEFINE ask == [deploy |-> offer, seller |-> seller, face |-> face]
  <2>1. /\ offer \in Deploy /\ IsCall(offer) /\ offer.call = "open_note"
        /\ face \in Nat /\ seller \in Account
    <3>1. offer # None
      BY <1>2 DEF ClickOpen
    <3>2. face \in Nat /\ seller \in Account
      OBVIOUS
    <3>3. QED
      BY <3>1, <3>2 DEF PageSound, PageTyped, PanelsMakeCalls
  <2>2. "open_note" \in Calls /\ Await("open_note", ask)
    BY <1>2 DEF ClickOpen, Calls
  <2>3. ask \in Ask /\ ask.deploy = offer
    BY <2>1 DEF Ask
  <2> HIDE DEF ask
  <2>4. QED
    BY <1>2, <2>1, <2>2, <2>3, AwaitKeeps DEF ClickOpen
<1>3. ASSUME NEW key \in Account, NEW i \in DOMAIN list, ClickFund(key, i)
      PROVE  PageSound'
  <2> DEFINE ask == Click("fund_note", key, list[i])
  <2>1. list[i] \in Entry /\ "fund_note" \in Calls
    BY DEF PageSound, PageTyped, Calls
  <2>2. ask \in Ask /\ ask.deploy.call = "fund_note"
    BY <2>1, ClickIsAsk
  <2>3. Await("fund_note", ask)
    BY <1>3 DEF ClickFund
  <2> HIDE DEF ask
  <2>4. QED
    BY <1>3, <2>1, <2>2, <2>3, AwaitKeeps DEF ClickFund, IsCall
<1>4. ASSUME NEW key \in Account, NEW call \in Calls, NEW i \in DOMAIN list,
             ClickSettle(key, call, list[i])
      PROVE  PageSound'
  <2> DEFINE ask == Click(call, key, list[i])
  <2>1. list[i] \in Entry /\ list[i].status = "funded" /\ key = Owner
        /\ call \in {"mark_repaid", "declare_default"}
    BY <1>4 DEF PageSound, PageTyped, ClickSettle, IsOwner
  <2>2. /\ ask \in Ask /\ ask.deploy.call = call /\ ask.deploy.account = Owner
        /\ ask.deploy.note = list[i].note
    BY <2>1, ClickIsAsk
  <2>3. Claims("funded") \subseteq took[list[i].note]
    BY <2>1 DEF PageSound, ListWasTaken
  <2>4. Await(call, ask)
    BY <1>4 DEF ClickSettle
  <2> HIDE DEF ask
  <2>5. QED
    BY <1>4, <2>1, <2>2, <2>3, <2>4, AwaitKeeps DEF ClickSettle, IsCall
<1>5. ASSUME NEW call \in Calls, ClickFails(call)
      PROVE  PageSound'
  <2>1. /\ slashed' \in BOOLEAN
        /\ UNCHANGED <<offer, pending, asking, waiting, took, done, list>>
    BY <1>5 DEF ClickFails, Said, nodeVars, PageSound, PageTyped
  <2>2. PageTyped' /\ NodeTyped' /\ PanelsMakeCalls' /\ ListWasTaken'
    BY <2>1 DEF PageSound, PageTyped, NodeTyped, PanelsMakeCalls, ListWasTaken
  <2>3. QED
    BY <2>2 DEF PageSound
<1>6. QED
  BY <1>1, <1>2, <1>3, <1>4, <1>5

\* What the node takes is a call of the panels; took only grows.
LEMMA AcceptedKeeps ==
    ASSUME PageSound, NEW ask \in asking, NEW sent \in BOOLEAN,
           Accepted(ask.deploy), Answered(ask, sent), UNCHANGED offer
    PROVE  /\ PanelsMakeCalls' /\ NodeTyped'
           /\ list' \in Seq(Entry) => PageTyped'
           /\ took \in [NoteId -> SUBSET Calls] /\ took' \in [NoteId -> SUBSET Calls]
           /\ \A n \in NoteId : took[n] \subseteq took'[n]
           /\ ask.deploy.call \in took'[ask.deploy.note]
           /\ \A other \in asking' :
                 other.deploy.call = "mark_repaid" =>
                     Claims("funded") \subseteq took'[other.deploy.note]
<1> DEFINE d == ask.deploy
<1>1. /\ PageTyped /\ NodeTyped /\ PanelsMakeCalls /\ ListWasTaken
  BY DEF PageSound
<1>2. d \in Deploy /\ IsCall(d) /\ d.note \in NoteId /\ d.call \in Calls
  BY <1>1 DEF PageTyped, PanelsMakeCalls, Ask, Deploy
<1> HIDE DEF d
<1>3. /\ took' = [took EXCEPT ![d.note] = @ \cup {d.call}]
      /\ waiting' = waiting (+) SetToBag({d}) /\ done' = done
      /\ asking' = asking \ {ask} /\ pending' \subseteq pending
  BY DEF Accepted, Answered, d
<1>4. took \in [NoteId -> SUBSET Calls]
  BY <1>1 DEF PageTyped
<1>5. /\ took' \in [NoteId -> SUBSET Calls] /\ d.call \in took'[d.note]
      /\ \A n \in NoteId : took[n] \subseteq took'[n]
  BY <1>2, <1>3, <1>4
<1>6. IsABag(waiting') /\ BagToSet(waiting') = BagToSet(waiting) \cup {d}
  <2>1. IsABag(waiting)
    BY <1>1 DEF NodeTyped
  <2>2. QED
    BY <1>3, <2>1 DEF IsABag, BagToSet, SetToBag, (+)
<1>7. NodeTyped'
  BY <1>1, <1>2, <1>3, <1>6 DEF NodeTyped
<1>8. PanelsMakeCalls'
  BY <1>1, <1>2, <1>3, <1>6 DEF PanelsMakeCalls
<1>9. list' \in Seq(Entry) => PageTyped'
  <2>1. slashed' \in BOOLEAN
    BY <1>1 DEF Answered, Said, PageTyped
  <2>2. QED
    BY <1>1, <1>3, <1>5, <2>1 DEF PageTyped
<1>10. ASSUME NEW other \in asking', other.deploy.call = "mark_repaid"
       PROVE  Claims("funded") \subseteq took'[other.deploy.note]
  <2>1. other \in asking /\ other.deploy.note \in NoteId
    BY <1>1, <1>3 DEF PageTyped, Ask, Deploy
  <2>2. Claims("funded") \subseteq took[other.deploy.note]
    BY <1>1, <1>10, <2>1 DEF ListWasTaken
  <2>3. QED
    BY <1>5, <2>1, <2>2
<1>11. QED
  BY <1>4, <1>5, <1>7, <1>8, <1>9, <1>10 DEF d

\* What an entry of the list is.
LEMMA EntryTyped ==
    ASSUME list \in Seq(Entry), NEW i \in DOMAIN list
    PROVE  list[i] \in Entry /\ list[i].note \in NoteId
<1>1. list[i] \in Entry
  OBVIOUS
<1>2. QED
  BY <1>1 DEF Entry

\* The list the panel makes of an accepted deploy claims only what the node
\* took: a new entry its open_note, an entry shown funded the fund_note it
\* answers, an entry shown repaid a mark_repaid on a note it took a funding of.
LEMMA HeardKeeps ==
    ASSUME PageSound, NEW ask \in asking, Heard(ask)
    PROVE  PageSound'
<1> DEFINE d == ask.deploy
<1>1. PageTyped /\ ListWasTaken /\ Accepted(d) /\ Answered(ask, TRUE)
        /\ UNCHANGED offer /\ list' = ListAfter(ask)
  BY DEF PageSound, Heard
<1>2. /\ d \in Deploy /\ d.note \in NoteId /\ d.call \in Calls
      /\ ask.seller \in Account /\ ask.face \in Nat /\ list \in Seq(Entry)
  BY <1>1 DEF PageTyped, Ask, Deploy
<1>3. /\ PanelsMakeCalls' /\ NodeTyped'
      /\ list' \in Seq(Entry) => PageTyped'
      /\ \A n \in NoteId : took[n] \subseteq took'[n]
      /\ d.call \in took'[d.note]
      /\ \A other \in asking' :
            other.deploy.call = "mark_repaid" =>
                Claims("funded") \subseteq took'[other.deploy.note]
  BY <1>1, AcceptedKeeps
<1>4. d.call = "mark_repaid" => Claims("funded") \subseteq took'[d.note]
  BY <1>1, <1>2, <1>3 DEF ListWasTaken
<1> HIDE DEF d
<1>5. \A i \in DOMAIN list :
         /\ list[i] \in Entry /\ list[i].note \in NoteId
         /\ Claims(list[i].status) \subseteq took'[list[i].note]
  <2>1. \A i \in DOMAIN list : list[i] \in Entry /\ list[i].note \in NoteId
    BY <1>2, EntryTyped
  <2>2. QED
    BY <1>1, <1>3, <2>1 DEF ListWasTaken
<1>6. ASSUME NEW status \in {"funded", "repaid"}, list' = SetStatus(d.note, status),
             Claims(status) \subseteq took'[d.note] \cup {"open_note"}
      PROVE  /\ list' \in Seq(Entry)
             /\ \A i \in DOMAIN list' :
                   Claims(list'[i].status) \subseteq took'[list'[i].note]
  <2>1. DOMAIN list' = DOMAIN list
    BY <1>6 DEF SetStatus
  <2>2. ASSUME NEW i \in DOMAIN list
        PROVE  /\ list'[i] \in Entry
               /\ Claims(list'[i].status) \subseteq took'[list'[i].note]
    <3>1. CASE list[i].note # d.note
      BY <1>5, <1>6, <3>1 DEF SetStatus
    <3>2. CASE list[i].note = d.note
      <4>1. list'[i] = [list[i] EXCEPT !.status = status]
        BY <1>6, <3>2 DEF SetStatus
      <4>2. /\ list'[i] \in Entry /\ list'[i].status = status
            /\ list'[i].note = d.note
        BY <1>5, <3>2, <4>1 DEF Entry
      <4>3. "open_note" \in took'[d.note]
        <5>1. list[i].status \in {"open", "funded", "repaid"}
          BY <1>5 DEF Entry
        <5>2. "open_note" \in Claims(list[i].status)
          BY <5>1 DEF Claims
        <5>3. QED
          BY <1>5, <3>2, <5>2
      <4>4. QED
        BY <1>6, <4>2, <4>3
    <3>3. QED
      BY <3>1, <3>2
  <2>3. list' \in Seq(Entry)
    <3>1. list' = [i \in 1..Len(list) |-> list'[i]] /\ Len(list) \in Nat
            /\ DOMAIN list = 1..Len(list)
      BY <1>2, <1>6 DEF SetStatus
    <3>2. QED
      BY <2>2, <3>1
  <2>4. QED
    BY <2>1, <2>2, <2>3
<1>7. /\ list' \in Seq(Entry)
      /\ \A i \in DOMAIN list' :
            Claims(list'[i].status) \subseteq took'[list'[i].note]
  <2>1. CASE d.call = "open_note"
    <3> DEFINE new == [note |-> d.note, seller |-> ask.seller,
                       face |-> ask.face, status |-> "open"]
    <3>1. new \in Entry /\ Claims(new.status) \subseteq took'[new.note]
      BY <1>2, <1>3, <2>1 DEF Entry, Claims
    <3>2. list' = <<new>> \o list
      BY <1>1, <2>1 DEF ListAfter, d
    <3> HIDE DEF new
    <3>3. list' \in Seq(Entry)
      BY <1>2, <3>1, <3>2
    <3>4. \A i \in DOMAIN list' :
             list'[i] = new \/ \E j \in DOMAIN list : list'[i] = list[j]
      <4>1. ASSUME NEW i \in DOMAIN list', i # 1
            PROVE  i - 1 \in DOMAIN list /\ list'[i] = list[i - 1]
        BY <1>2, <3>1, <3>2, <4>1
      <4>2. 1 \in DOMAIN list' => list'[1] = new
        BY <1>2, <3>1, <3>2
      <4>3. QED
        BY <4>1, <4>2
    <3>5. QED
      BY <1>5, <3>1, <3>3, <3>4
  <2>2. CASE d.call = "fund_note"
    <3>1. list' = SetStatus(d.note, "funded")
      BY <1>1, <2>2 DEF ListAfter, d
    <3>2. Claims("funded") \subseteq took'[d.note] \cup {"open_note"}
      BY <1>3, <2>2 DEF Claims
    <3>3. QED
      BY <1>6, <3>1, <3>2
  <2>3. CASE d.call = "mark_repaid"
    <3>1. list' = SetStatus(d.note, "repaid")
      BY <1>1, <2>3 DEF ListAfter, d
    <3>2. Claims("repaid") \subseteq took'[d.note] \cup {"open_note"}
      BY <1>3, <1>4, <2>3 DEF Claims
    <3>3. QED
      BY <1>6, <3>1, <3>2
  <2>4. CASE d.call = "declare_default"
    <3>1. list' = list
      BY <1>1, <2>4 DEF ListAfter, d
    <3>2. QED
      BY <1>2, <1>5, <3>1
  <2>5. QED
    BY <1>2, <2>1, <2>2, <2>3, <2>4 DEF Calls
<1>8. ListWasTaken'
  BY <1>3, <1>7 DEF ListWasTaken
<1>9. QED
  BY <1>3, <1>7, <1>8 DEF PageSound

\* A lost answer leaves the list behind the node, a refusal leaves all alone.
LEMMA NotHeardKeeps ==
    ASSUME PageSound, NEW ask \in asking, Unheard(ask) \/ NotSent(ask)
    PROVE  PageSound'
<1>1. CASE Unheard(ask)
  <2>1. /\ Accepted(ask.deploy) /\ Answered(ask, FALSE)
        /\ UNCHANGED <<offer, list>>
    BY <1>1 DEF Unheard
  <2>2. /\ PanelsMakeCalls' /\ NodeTyped'
        /\ list' \in Seq(Entry) => PageTyped'
        /\ \A n \in NoteId : took[n] \subseteq took'[n]
        /\ \A other \in asking' :
              other.deploy.call = "mark_repaid" =>
                  Claims("funded") \subseteq took'[other.deploy.note]
    BY <2>1, AcceptedKeeps
  <2>3. ListWasTaken /\ list \in Seq(Entry)
    BY DEF PageSound, PageTyped
  <2>4. \A i \in DOMAIN list : list[i].note \in NoteId
    BY <2>3, EntryTyped
  <2>5. ListWasTaken'
    BY <2>1, <2>2, <2>3, <2>4 DEF ListWasTaken
  <2>6. QED
    BY <2>1, <2>2, <2>3, <2>5 DEF PageSound
<1>2. CASE NotSent(ask)
  <2>1. /\ asking' \subseteq asking /\ pending' \subseteq pending
        /\ UNCHANGED <<offer, waiting, took, done, list>>
    BY <1>2 DEF NotSent, Answered, nodeVars
  <2>2. slashed' \in BOOLEAN
    BY <1>2 DEF NotSent, Answered, Said, PageSound, PageTyped
  <2>3. PageTyped' /\ NodeTyped' /\ PanelsMakeCalls' /\ ListWasTaken'
    BY <2>1, <2>2
       DEF PageSound, PageTyped, NodeTyped, PanelsMakeCalls, ListWasTaken
  <2>4. QED
    BY <2>3 DEF PageSound
<1>3. QED
  BY <1>1, <1>2

\* An execution takes a deploy out of the queue.
LEMMA ExecuteKeeps ==
    ASSUME PageSound, NEW d \in BagToSet(waiting), Execute(d)
    PROVE  PageSound'
<1>1. /\ waiting' = waiting (-) SetToBag({d})
      /\ UNCHANGED <<offer, pending, slashed, asking, took, list>>
      /\ UNCHANGED done \/ done' = done (+) SetToBag({d})
  BY DEF Execute
<1>2. IsABag(waiting) /\ IsABag(done)
  BY DEF PageSound, NodeTyped
<1>3. IsABag(waiting') /\ BagToSet(waiting') \subseteq BagToSet(waiting)
  BY <1>1, <1>2 DEF IsABag, BagToSet, SetToBag, (-)
<1>4. IsABag(done') /\ BagToSet(done') \subseteq BagToSet(done) \cup {d}
  <2>1. CASE UNCHANGED done
    BY <1>2, <2>1
  <2>2. CASE done' = done (+) SetToBag({d})
    BY <1>2, <2>2 DEF IsABag, BagToSet, SetToBag, (+)
  <2>3. QED
    BY <1>1, <2>1, <2>2
<1>5. PageTyped' /\ NodeTyped' /\ PanelsMakeCalls' /\ ListWasTaken'
  BY <1>1, <1>3, <1>4
     DEF PageSound, PageTyped, NodeTyped, PanelsMakeCalls, ListWasTaken
<1>6. QED
  BY <1>5 DEF PageSound

-----------------------------------------------------------------------------

\* The strengthening the theorems below share.
THEOREM BookInductiveHolds == Spec => []BookInductive
<1>1. EscrowInit /\ BookInit => BookInductive
  <2> SUFFICES ASSUME EscrowInit, BookInit
               PROVE  BookInductive
    OBVIOUS
  <2>1. EscrowTypeOK /\ FacesAreAmounts
    BY TypeAtStart DEF EscrowInit, FacesAreAmounts, Exists
  <2>2. /\ done = EmptyBag /\ BagToSet(done) = {} /\ BagToSet(waiting) = {}
        /\ IsABag(done) /\ IsABag(waiting)
    BY DEF BookInit, EmptyBag, SetToBag, BagToSet, IsABag
  <2>3. PageSound
    <3>1. PageTyped
      <4>1. list \in Seq(Entry)
        BY DEF BookInit
      <4>2. took \in [NoteId -> SUBSET Calls]
        BY DEF BookInit
      <4>3. QED
        BY <4>1, <4>2, Zenon DEF BookInit, PageTyped
    <3>2. NodeTyped /\ PanelsMakeCalls /\ ListWasTaken
      BY <2>2 DEF BookInit, NodeTyped, PanelsMakeCalls, ListWasTaken
    <3>3. QED
      BY <3>1, <3>2 DEF PageSound
  <2>4. DoneShows
    BY <2>2, FS_EmptySet DEF DoneShows
  <2>5. DoneOnce
    <3>1. \A n, calls : Hits(n, calls) = {}
      BY <2>2 DEF Hits
    <3>2. ASSUME NEW n, NEW calls PROVE Effects(n, calls) = 0
      <4>1. Effects(n, calls) = SumFunctionOnSet(done, {})
        BY <3>1 DEF Effects, Hits
      <4>2. QED
        BY <4>1, SumEmpty
    <3>3. QED
      BY <3>2 DEF DoneOnce, AtMostOne
  <2>6. QED
    BY <2>1, <2>3, <2>4, <2>5, InductiveInParts
<1>2. BookInductive /\ [Next]_vars => BookInductive'
  <2> SUFFICES ASSUME BookInductive, [Next]_vars
               PROVE  BookInductive'
    OBVIOUS
  <2>1. /\ EscrowTypeOK /\ FacesAreAmounts /\ PageSound /\ DoneShows /\ DoneOnce
        /\ BookTypeOK
    BY InductiveInParts DEF BookInductive
  <2>2. EscrowTypeOK' /\ FacesAreAmounts' /\ NotesStay
    BY <2>1, ChainStep, ChainKeeps
  <2>3. ASSUME PageSound', UNCHANGED done
        PROVE  BookInductive'
    <3>1. DoneShows' /\ DoneOnce'
      BY <2>1, <2>2, <2>3, RecordStays
    <3>2. QED
      BY <2>2, <2>3, <3>1, InductiveInParts
  <2>4. CASE \/ \E n \in NoteId, seller \in Seller, face \in Amount :
                   RunEnds(n, seller, face)
             \/ \E key \in Account :
                \/ \E seller \in Seller, face \in Amount \cup {0} :
                      ClickOpen(key, seller, face)
                \/ \E i \in DOMAIN list : ClickFund(key, i)
                \/ \E call \in Calls, i \in DOMAIN list :
                      ClickSettle(key, call, list[i])
             \/ \E call \in Calls : ClickFails(call)
    <3>1. PageSound'
      BY <2>1, <2>4, ClicksKeep
    <3>2. UNCHANGED done
      BY <2>4 DEF RunEnds, ClickOpen, ClickFund, ClickSettle, ClickFails, nodeVars
    <3>3. QED
      BY <2>3, <3>1, <3>2
  <2>5. CASE \E ask \in asking : Heard(ask) \/ Unheard(ask) \/ NotSent(ask)
    <3>1. PageSound'
      BY <2>1, <2>5, HeardKeeps, NotHeardKeeps
    <3>2. UNCHANGED done
      BY <2>5 DEF Heard, Unheard, NotSent, Accepted, nodeVars
    <3>3. QED
      BY <2>3, <3>1, <3>2
  <2>6. CASE \E d \in BagToSet(waiting) : Execute(d)
    <3>1. PICK d \in BagToSet(waiting) : Execute(d)
      BY <2>6
    <3>2. PageSound'
      BY <2>1, <3>1, ExecuteKeeps
    <3>3. BookTypeOK'
      BY <2>2, <3>2 DEF PageSound, PageTyped, NodeTyped, BookTypeOK
    <3>4. DoneShows' /\ DoneOnce'
      BY <2>2, <3>1, <3>3, ExecuteRecords
    <3>5. QED
      BY <2>2, <3>2, <3>4, InductiveInParts
  <2>7. CASE ChainMoves \/ UNCHANGED vars
    <3>1. UNCHANGED <<offer, pending, slashed, asking, waiting, took, done, list>>
      BY <2>7 DEF ChainMoves, bookVars, nodeVars, vars
    <3>2. PageSound'
      BY <2>1, <3>1
         DEF PageSound, PageTyped, NodeTyped, PanelsMakeCalls, ListWasTaken
    <3>3. QED
      BY <2>3, <3>1, <3>2
  <2>8. QED
    BY <2>4, <2>5, <2>6, <2>7 DEF Next
<1>3. QED
  BY <1>1, <1>2, PTL DEF Spec

\* The page keeps its types, and its list is ahead of the chain by exactly the
\* deploys the node took: once those have taken effect, the chain is at least
\* as far along as the list says.
THEOREM BookInvariantHolds == Spec => []BookInvariant
<1>1. BookInductive => BookInvariant
  <2> SUFFICES ASSUME BookInductive PROVE ShownWasAccepted
    BY DEF BookInductive, BookInvariant
  <2> SUFFICES ASSUME NEW i \in DOMAIN list
               PROVE  LET n == list[i].note
                          claims == Claims(list[i].status)
                      IN /\ claims \subseteq took[n]
                         /\ (\A call \in claims : Effects(n, {call}) > 0) =>
                              CASE list[i].status = "open" -> Exists(n)
                                [] list[i].status = "funded" ->
                                      HasStatus(n, {"Funded", "Repaid", "Defaulted"})
                                [] list[i].status = "repaid" ->
                                      HasStatus(n, {"Repaid"})
    BY DEF ShownWasAccepted, Claims
  <2> DEFINE n == list[i].note
  <2>1. list \in Seq(Entry) /\ IsABag(done) /\ IsFiniteSet(BagToSet(done))
    BY DEF BookInductive, BookTypeOK, DoneShows
  <2>2. list[i] \in Entry
    BY <2>1
  <2>3. Claims(list[i].status) \subseteq took[n]
    BY DEF BookInductive, ListWasTaken
  <2>4. ASSUME NEW call, Effects(n, {call}) > 0
        PROVE  /\ call = "open_note" => Exists(n)
               /\ call = "fund_note" => PastOpen(n)
               /\ call = "mark_repaid" => HasStatus(n, {"Repaid"})
    <3>1. PICK d \in BagToSet(done) : d.note = n /\ d.call = call
      BY <2>1, <2>4, EffectsType DEF Hits
    <3>2. QED
      BY <3>1 DEF BookInductive, DoneShows
  <2>5. CASE list[i].status = "open"
    BY <2>3, <2>4, <2>5 DEF Claims
  <2>6. CASE list[i].status = "funded"
    BY <2>3, <2>4, <2>6 DEF Claims, PastOpen
  <2>7. CASE list[i].status = "repaid"
    BY <2>3, <2>4, <2>7 DEF Claims
  <2>8. QED
    BY <2>2, <2>5, <2>6, <2>7 DEF Entry
<1>2. QED
  BY <1>1, BookInductiveHolds, PTL

\* However often a button is pressed, a note is opened, funded and settled at
\* most once.
THEOREM ActsAtMostOnce == Spec => []ActsOnce
<1>1. BookInductive => ActsOnce
  <2> SUFFICES ASSUME BookInductive, NEW n \in NoteId
               PROVE  /\ Effects(n, {"open_note"}) <= 1
                      /\ Effects(n, {"fund_note"}) <= 1
                      /\ Effects(n, {"mark_repaid", "declare_default"}) <= 1
    BY DEF ActsOnce
  <2>1. IsABag(done) /\ IsFiniteSet(BagToSet(done))
    BY DEF BookInductive, BookTypeOK, DoneShows
  <2>2. /\ Effects(n, {"open_note"}) \in Nat
        /\ Effects(n, {"fund_note"}) \in Nat
        /\ Effects(n, {"mark_repaid", "declare_default"}) \in Nat
    BY <2>1, EffectsType
  <2>3. QED
    BY <2>2 DEF BookInductive, DoneOnce, AtMostOne
<1>2. QED
  BY <1>1, BookInductiveHolds, PTL

\* A fund_note that takes effect paid the face value on record, and its signer
\* stays the investor whatever the chain does afterwards.
THEOREM FundedIsAsSigned == Spec => []FundedAsSigned
<1>1. BookInductive => FundedAsSigned
  BY DEF BookInductive, DoneShows, FundedAsSigned
<1>2. QED
  BY <1>1, BookInductiveHolds, PTL

\* No deploy the node took would revert NotOwner.
THEOREM OnlyTheOwnerEverCalls == Spec => []OnlyTheOwnerCalls
<1>1. BookInductive => OnlyTheOwnerCalls
  <2> SUFFICES ASSUME BookInductive, NEW d \in BagToSet(waiting)
               PROVE  Verdict(d) # "NotOwner"
    BY DEF OnlyTheOwnerCalls
  <2>1. d \in Deploy /\ IsCall(d)
    BY DEF BookInductive, BookTypeOK, PanelsMakeCalls
  <2>2. CASE d.call = "open_note"
    BY <2>1, <2>2 DEF Verdict, OpenNote_Error, IsCall, Ok
  <2>3. CASE d.call = "fund_note"
    BY <2>3 DEF Verdict, FundNote_Error, Ok
  <2>4. CASE d.call = "mark_repaid"
    BY <2>1, <2>4 DEF Verdict, MarkRepaid_Error, IsCall, Ok
  <2>5. CASE d.call = "declare_default"
    BY <2>1, <2>5 DEF Verdict, DeclareDefault_Error, Slash_Error,
                      Transfer_Error, IsCall, Ok
  <2>6. QED
    BY <2>1, <2>2, <2>3, <2>4, <2>5 DEF Deploy, Calls
<1>2. QED
  BY <1>1, BookInductiveHolds, PTL

\* The book composed with the contract is still the contract: every theorem
\* about EscrowSpec holds of it.
THEOREM BookRunsTheContract == Spec => EscrowSpec
<1>1. BookInductive /\ [Next]_vars => [EscrowNext]_escrowVars
  BY ChainStep
<1>2. QED
  BY <1>1, BookInductiveHolds, PTL DEF Spec, EscrowSpec
=============================================================================
