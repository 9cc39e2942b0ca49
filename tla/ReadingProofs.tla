---------------------------- MODULE ReadingProofs ----------------------------
(***************************************************************************)
(* Theorems about the two that read the contract and say what they saw: the *)
(* agent's reader (EscrowReader), for every number of ids scanned, and the   *)
(* bond panel (BondBoard), for every set of accounts and every number of     *)
(* reads, timers and stakes under way.                                      *)
(***************************************************************************)
EXTENDS EscrowReader, BondBoard, ReceivableEscrowProofs

(* The first free id.                                                       *)

\* A set of numbers that is not empty has a least one, and Min is that one.
LEMMA MinIsLeast ==
    ASSUME NEW S, S \subseteq Nat, S # {}
    PROVE  Min(S) \in S /\ (\A y \in S : Min(S) <= y)
<1> DEFINE R == {ss \in Nat \X Nat : ss[1] < ss[2]}
<1>1. OpToRel(<, Nat) = R
  BY Zenon DEF OpToRel
<1>2. IsWellFoundedOn(R, Nat)
  BY <1>1, NatLessThanWellFounded, Zenon
<1>3. PICK x \in S : \A y \in S : ~(<<y, x>> \in R)
  <2> HIDE DEF R
  <2> QED
    BY <1>2, WFMin, Zenon
<1>4. ASSUME NEW y \in S PROVE x <= y
  <2>1. x \in Nat /\ y \in Nat
    OBVIOUS
  <2>2. ~(y < x)
    BY <1>3, <2>1
  <2>3. QED
    BY <2>1, <2>2
<1>5. QED
  BY <1>4 DEF Min

\* The ids scanned are ids.
LEMMA ScannedAreIds ==
    /\ ScanLimit \in Nat \ {0}
    /\ \A i \in Scanned : i \in NoteId /\ i \in Nat \ {0}
    /\ 1 \in Scanned
<1>1. /\ ScanLimit \in Nat \ {0}
      /\ \A i \in 1..ScanLimit : i \in NoteId
  BY ReaderAssumption, Zenon
<1>2. QED
  BY <1>1 DEF Scanned

\* FreeIn is an id of the range that is not taken, all below it being taken, or
\* 0 when the range is.
LEMMA FreeInIsFirst ==
    ASSUME NEW taken
    PROVE  /\ FreeIn(taken) \in {0} \cup Scanned
           /\ FreeIn(taken) = 0 => Scanned \subseteq taken
           /\ FreeIn(taken) # 0 =>
                /\ FreeIn(taken) \in Scanned \ taken
                /\ 1..FreeIn(taken) - 1 \subseteq Scanned \cap taken
<1>1. CASE Scanned \subseteq taken
  BY <1>1 DEF FreeIn
<1>2. CASE ~(Scanned \subseteq taken)
  <2> DEFINE free == Scanned \ taken
             least == Min(free)
  <2>1. free \subseteq Nat /\ free # {}
    BY <1>2, ScannedAreIds
  <2>2. least \in free /\ \A y \in free : least <= y
    BY <2>1, MinIsLeast
  <2>3. FreeIn(taken) = least
    BY <1>2 DEF FreeIn
  <2>4. least \in 1..ScanLimit /\ least \notin taken
    BY <2>2 DEF Scanned
  <2> HIDE DEF least
  <2>5. ASSUME NEW i \in 1..least - 1 PROVE i \in Scanned \cap taken
    <3>1. least \in Nat /\ ScanLimit \in Nat /\ least <= ScanLimit
      BY <2>4, ScannedAreIds
    <3>2. i \in 1..ScanLimit /\ ~(least <= i)
      BY <3>1
    <3>3. QED
      BY <3>2, <2>2 DEF Scanned
  <2>6. QED
    BY <2>3, <2>4, <2>5 DEF Scanned
<1>3. QED
  BY <1>1, <1>2

-----------------------------------------------------------------------------
(* The inductive invariant.                                                 *)

USE MinBondAssumption, EscrowAssumption

Bond_ == Field("bonds")

\* An account without an entry has nothing bonded.
StoredOK == stored \subseteq Account /\ (Owner \notin stored => bonds[Owner].amount = 0)

\* While an operation runs, each of its fields is waited for or seen; of the
\* terms the bond comes last.
Waiting ==
    /\ op \in Op \cup {"none"}
    /\ op = "none" <=> pending = {}
    /\ op # "none" =>
        /\ pending \cap DOMAIN seen = {}
        /\ \/ pending \cup DOMAIN seen = Fields(op)
           \/ /\ op = "get_escrow_terms" /\ pending = {Bond_}
              /\ DOMAIN seen = TermsFields

\* The notes there were at the start are still there.
NotesStay == \A n \in NoteId : atStart[n] # None => Exists(n)

\* What was seen of a note or of the bond is true of a moment since the start.
Sighted ==
    op # "none" =>
        /\ IsBonded(Owner) \in standings
        /\ MinBond > 0 /\ Bond_ \in DOMAIN seen => Bonded(seen[Bond_]) \in standings
        /\ \A n \in Scanned : NoteField(n) \in DOMAIN seen =>
              IF seen[NoteField(n)] = Absent THEN atStart[n] = None ELSE Exists(n)

ResultTyped ==
    /\ Answered("free") => result.free \in {0} \cup Scanned
    /\ Answered("idIsFree") => result.idIsFree \in BOOLEAN

ReaderInductive ==
    /\ EscrowTypeOK /\ StoredOK
    /\ Waiting
    /\ NotesStay
    /\ Sighted
    /\ ResultTyped /\ FreeIdIsTheFirst /\ FullMeansFull
    /\ MinBond > 0 => BondedWasTrue

-----------------------------------------------------------------------------
(* The steps, one by one.                                                   *)

\* The reader starts with the invariant.
LEMMA ReaderStarts == ReaderInit => ReaderInductive
<1> SUFFICES ASSUME ReaderInit PROVE ReaderInductive
  OBVIOUS
<1>1. EscrowTypeOK /\ atStart = notes
  BY TypeAtStart DEF ReaderInit
<1>2. bonds[Owner].amount = 0
  BY DEF ReaderInit, EscrowInit, BondInit, ZeroBond
<1>3. op = "none" /\ pending = {} /\ stored = {} /\ DOMAIN result = {"none"}
  BY DEF ReaderInit, NoAnswer
<1>4. StoredOK /\ Waiting
  BY <1>2, <1>3 DEF StoredOK, Waiting
<1>5. NotesStay /\ Sighted
  BY <1>1, <1>3 DEF NotesStay, Sighted, Exists
<1>6. ResultTyped /\ FreeIdIsTheFirst /\ FullMeansFull /\ BondedWasTrue
  BY <1>3 DEF ResultTyped, FreeIdIsTheFirst, FullMeansFull, BondedWasTrue, Answered
<1>7. QED
  BY <1>1, <1>4, <1>5, <1>6 DEF ReaderInductive

\* An operation begins with nothing seen and every field to wait for.
LEMMA StartKeeps ==
    ASSUME ReaderInductive, NEW o \in Op, Start(o)
    PROVE  ReaderInductive'
<1>1. /\ op' = o /\ pending' = Fields(o) /\ seen' = <<>> /\ DOMAIN result' = {"none"}
      /\ atStart' = notes /\ standings' = {IsBonded(Owner)}
      /\ UNCHANGED <<escrowVars, stored>>
  BY DEF Start, NoAnswer
<1>2. UNCHANGED <<bonds, notes>> /\ EscrowTypeOK' /\ StoredOK'
  BY <1>1 DEF ReaderInductive, escrowVars, bondVars, EscrowTypeOK, BondTypeOK, StoredOK
<1>3. Fields(o) # {} /\ DOMAIN seen' = {} /\ o # "none"
  <2>1. NoteField(1) \in {NoteField(n) : n \in Scanned}
    BY ScannedAreIds
  <2>2. Field("owner") \in TermsFields
    BY DEF TermsFields
  <2>3. Fields(o) # {}
    BY <2>1, <2>2 DEF Op, Fields
  <2>4. QED
    BY <1>1, <2>3 DEF Op
<1>4. Waiting'
  BY <1>1, <1>3 DEF Waiting
<1>5. NotesStay' /\ Sighted'
  BY <1>1, <1>2, <1>3 DEF NotesStay, Sighted, Exists, IsBonded
<1>6. (ResultTyped /\ FreeIdIsTheFirst /\ FullMeansFull /\ BondedWasTrue)'
  BY <1>1 DEF ResultTyped, FreeIdIsTheFirst, FullMeansFull, BondedWasTrue, Answered
<1>7. QED
  BY <1>2, <1>4, <1>5, <1>6 DEF ReaderInductive

\* The contract moves: notes only appear, and the answers given stay true.
LEMMA ChainMovesKeeps ==
    ASSUME ReaderInductive, ChainMoves
    PROVE  ReaderInductive'
<1> USE DEF ReaderInductive
<1>1. /\ EscrowNext
      /\ stored' = stored \cup {a \in Account : bonds'[a] # bonds[a]}
      /\ standings' = IF op = "none" THEN standings
                      ELSE standings \cup {bonds'[Owner].amount >= MinBond}
      /\ UNCHANGED <<op, pending, seen, result, atStart>>
  BY DEF ChainMoves
<1>2. EscrowTypeOK'
  BY <1>1, TypeKept
<1>3. \A n \in NoteId : Exists(n) => notes'[n] # None
  BY <1>1, NoteAdvances
<1>4. StoredOK'
  BY <1>1 DEF StoredOK
<1>5. Waiting'
  BY <1>1 DEF Waiting
<1>6. NotesStay'
  BY <1>1, <1>3 DEF NotesStay, Exists
<1>7. Sighted'
  <2>1. ASSUME op # "none" PROVE IsBonded(Owner)' \in standings'
    BY <1>1, <2>1 DEF IsBonded
  <2>2. standings \subseteq standings'
    BY <1>1
  <2>3. \A n \in Scanned : n \in NoteId
    BY ScannedAreIds
  <2>4. Bonded(seen[Bond_])' = Bonded(seen[Bond_])
    BY <1>1 DEF Bonded
  <2>5. QED
    BY <1>1, <1>3, <2>1, <2>2, <2>3, <2>4 DEF Sighted, Exists
<1>8. ResultTyped'
  BY <1>1 DEF ResultTyped, Answered
<1>9. FreeIdIsTheFirst' /\ FullMeansFull'
  <2>1. \A n \in Scanned : n \in NoteId
    BY ScannedAreIds
  <2>2. 1 \in NoteId
    BY ScannedAreIds
  <2>3. ASSUME Answered("free"), result.free # 0
        PROVE  1..result.free - 1 \subseteq Scanned
    BY <2>3, ScannedAreIds DEF ResultTyped, Scanned
  <2>4. QED
    BY <1>1, <1>3, <2>1, <2>2, <2>3 DEF FreeIdIsTheFirst, FullMeansFull, Answered, Exists
<1>10. (MinBond > 0 => BondedWasTrue)'
  BY <1>1 DEF BondedWasTrue, Answered
<1>11. QED
  BY <1>2, <1>4, <1>5, <1>6, <1>7, <1>8, <1>9, <1>10

\* What the operation's end leaves alone.
LEMMA EndKeeps ==
    ASSUME ReaderInductive, NEW v, Ends(v)
    PROVE  EscrowTypeOK' /\ StoredOK' /\ Waiting' /\ NotesStay' /\ Sighted'
BY DEF Ends, ReaderInductive, escrowVars, bondVars, EscrowTypeOK, BondTypeOK, StoredOK,
       Waiting, NotesStay, Sighted, Exists

\* A read that throws ends the operation without an answer.
LEMMA ReadThrowsKeeps ==
    ASSUME ReaderInductive, NEW f \in pending, ReadThrows(f)
    PROVE  ReaderInductive'
<1>1. EscrowTypeOK' /\ StoredOK' /\ Waiting' /\ NotesStay' /\ Sighted'
  BY EndKeeps DEF ReadThrows
<1>2. DOMAIN result' = {"error"}
  BY DEF ReadThrows, Ends, Thrown
<1>3. (ResultTyped /\ FreeIdIsTheFirst /\ FullMeansFull /\ BondedWasTrue)'
  BY <1>2 DEF ResultTyped, FreeIdIsTheFirst, FullMeansFull, BondedWasTrue, Answered
<1>4. QED
  BY <1>1, <1>3 DEF ReaderInductive

\* What a read finds is true of the moment it looks.
LEMMA SeenIsTrue ==
    ASSUME EscrowTypeOK, StoredOK, NotesStay
    PROVE  /\ \A n \in NoteId :
                 IF FieldValue(NoteField(n)) = Absent THEN atStart[n] = None ELSE Exists(n)
           /\ MinBond > 0 => Bonded(FieldValue(Bond_)) = IsBonded(Owner)
<1>1. Absent \notin Nat /\ Absent # "a note"
  BY ReaderAssumption, Zenon
<1>2. ASSUME NEW n \in NoteId
      PROVE  IF FieldValue(NoteField(n)) = Absent THEN atStart[n] = None ELSE Exists(n)
  <2>1. FieldValue(NoteField(n)) = IF Exists(n) THEN "a note" ELSE Absent
    BY DEF FieldValue, NoteField
  <2>2. QED
    BY <1>1, <2>1 DEF NotesStay
<1>3. ASSUME MinBond > 0 PROVE Bonded(FieldValue(Bond_)) = IsBonded(Owner)
  <2>1. FieldValue(Bond_) = IF Owner \in stored THEN bonds[Owner].amount ELSE Absent
    BY DEF FieldValue, Bond_, Field
  <2>2. bonds[Owner].amount \in Nat
    BY DEF EscrowTypeOK, BondTypeOK, Bond
  <2>3. CASE Owner \in stored
    <3>1. FieldValue(Bond_) = bonds[Owner].amount /\ FieldValue(Bond_) # Absent
      BY <1>1, <2>1, <2>2, <2>3
    <3>2. QED
      BY <3>1 DEF Bonded, IsBonded
  <2>4. CASE Owner \notin stored
    <3>1. bonds[Owner].amount = 0
      BY <2>4 DEF StoredOK
    <3>2. QED
      BY <1>3, <2>1, <2>4, <3>1 DEF Bonded, IsBonded
  <2>5. QED
    BY <2>3, <2>4
<1>4. QED
  BY <1>2, <1>3

\* Looking at a field that is not the last keeps what was seen true.
LEMMA SightedGrows ==
    ASSUME ReaderInductive, op # "none", NEW f \in pending,
           NEW held, held = [g \in DOMAIN seen \cup {f} |->
                                IF g = f THEN FieldValue(f) ELSE seen[g]]
    PROVE  /\ MinBond > 0 /\ Bond_ \in DOMAIN held => Bonded(held[Bond_]) \in standings
           /\ \A n \in Scanned : NoteField(n) \in DOMAIN held =>
                 IF held[NoteField(n)] = Absent THEN atStart[n] = None ELSE Exists(n)
<1>1. EscrowTypeOK /\ StoredOK /\ NotesStay /\ Sighted
  BY DEF ReaderInductive
<1>2. /\ DOMAIN held = DOMAIN seen \cup {f}
      /\ \A g \in DOMAIN held : held[g] = IF g = f THEN FieldValue(f) ELSE seen[g]
  OBVIOUS
<1>3. MinBond > 0 /\ Bond_ \in DOMAIN held => Bonded(held[Bond_]) \in standings
  BY <1>1, <1>2, SeenIsTrue DEF Sighted
<1>4. ASSUME NEW n \in Scanned, NoteField(n) \in DOMAIN held
      PROVE  IF held[NoteField(n)] = Absent THEN atStart[n] = None ELSE Exists(n)
  BY <1>1, <1>2, <1>4, SeenIsTrue, ScannedAreIds DEF Sighted
<1>5. QED
  BY <1>3, <1>4

\* The last read is in: the operation holds all of its fields.
LEMMA AllHeld ==
    ASSUME Waiting, NEW f, pending = {f}, ~(op = "get_escrow_terms" /\ f # Bond_)
    PROVE  /\ op \in Op
           /\ op \in {"get_escrow_terms", "isBonded"} => Bond_ \in DOMAIN seen \cup {f}
           /\ op \notin {"get_escrow_terms", "isBonded"} =>
                 Fields(op) \subseteq DOMAIN seen \cup {f}
<1>1. op \in Op
  BY DEF Waiting
<1>2. op \in {"isBonded", "get_note", "find_free_note_id"} => Fields(op) = {f} \cup DOMAIN seen
  BY DEF Waiting
<1>3. op = "isBonded" => Bond_ \in Fields(op)
  BY DEF Fields, Bond_
<1>4. QED
  BY <1>1, <1>2, <1>3 DEF Op

\* The answer is right when what it is made from is true.
LEMMA AnswerIsRight ==
    ASSUME ReaderInductive, NEW f \in pending, pending = {f},
           ~(op = "get_escrow_terms" /\ f # Bond_),
           NEW held, held = [g \in DOMAIN seen \cup {f} |->
                                IF g = f THEN FieldValue(f) ELSE seen[g]],
           Ends(Answer(held))
    PROVE  ReaderInductive'
<1>0. op # "none"
  BY DEF ReaderInductive, Waiting
<1>1. EscrowTypeOK' /\ StoredOK' /\ Waiting' /\ NotesStay' /\ Sighted'
  BY EndKeeps
<1>2. /\ result' = Answer(held)
      /\ UNCHANGED <<notes, atStart, standings>>
  BY DEF Ends, escrowVars
<1>3. /\ op \in Op
      /\ op \in {"get_escrow_terms", "isBonded"} => Bond_ \in DOMAIN held
      /\ op \notin {"get_escrow_terms", "isBonded"} => Fields(op) \subseteq DOMAIN held
  BY AllHeld DEF ReaderInductive
<1>4. /\ MinBond > 0 /\ Bond_ \in DOMAIN held => Bonded(held[Bond_]) \in standings
      /\ \A n \in Scanned : NoteField(n) \in DOMAIN held =>
            IF held[NoteField(n)] = Absent THEN atStart[n] = None ELSE Exists(n)
  BY <1>0, SightedGrows
<1>5. CASE op \in {"get_escrow_terms", "isBonded"}
  <2>1. result' = [bonded |-> Bonded(held[Bond_])]
    BY <1>2, <1>5 DEF Answer, Bond_
  <2>2. DOMAIN result' = {"bonded"} /\ result'.bonded = Bonded(held[Bond_])
    BY <2>1
  <2>3. (MinBond > 0 => BondedWasTrue)'
    BY <1>2, <1>3, <1>4, <1>5, <2>2 DEF BondedWasTrue
  <2>4. (ResultTyped /\ FreeIdIsTheFirst /\ FullMeansFull)'
    BY <2>2 DEF ResultTyped, FreeIdIsTheFirst, FullMeansFull, Answered
  <2>5. QED
    BY <1>1, <2>3, <2>4 DEF ReaderInductive
<1>6. CASE op = "get_note"
  <2>1. result' = [idIsFree |-> held[NoteField(1)] = Absent]
    BY <1>2, <1>6 DEF Answer
  <2>2. DOMAIN result' = {"idIsFree"} /\ result'.idIsFree = (held[NoteField(1)] = Absent)
    BY <2>1
  <2>3. NoteField(1) \in DOMAIN held
    BY <1>3, <1>6 DEF Fields
  <2>4. IF held[NoteField(1)] = Absent THEN atStart[1] = None ELSE Exists(1)
    BY <1>4, <2>3, ScannedAreIds
  <2>5. (ResultTyped /\ FreeIdIsTheFirst /\ FullMeansFull /\ BondedWasTrue)'
    BY <1>2, <2>2, <2>4
       DEF ResultTyped, FreeIdIsTheFirst, FullMeansFull, BondedWasTrue, Answered, Exists
  <2>6. QED
    BY <1>1, <2>5 DEF ReaderInductive
<1>7. CASE op = "find_free_note_id"
  <2> DEFINE taken == {i \in Scanned : held[NoteField(i)] # Absent}
  <2>1. result' = [free |-> FreeIn(taken)]
    BY <1>2, <1>7 DEF Answer
  <2>2. DOMAIN result' = {"free"} /\ result'.free = FreeIn(taken)
    BY <2>1
  <2>3. \A i \in Scanned : NoteField(i) \in DOMAIN held
    BY <1>3, <1>7 DEF Fields
  <2>4. \A i \in Scanned : IF i \in taken THEN Exists(i) ELSE atStart[i] = None
    BY <1>4, <2>3
  <2> HIDE DEF taken
  <2>5. /\ FreeIn(taken) \in {0} \cup Scanned
        /\ FreeIn(taken) = 0 => \A i \in Scanned : Exists(i)
        /\ FreeIn(taken) # 0 =>
             /\ atStart[FreeIn(taken)] = None
             /\ \A i \in 1..FreeIn(taken) - 1 : Exists(i)
    BY <2>4, FreeInIsFirst
  <2>6. (ResultTyped /\ FreeIdIsTheFirst /\ FullMeansFull /\ BondedWasTrue)'
    BY <1>2, <2>2, <2>5
       DEF ResultTyped, FreeIdIsTheFirst, FullMeansFull, BondedWasTrue, Answered, Exists
  <2>7. QED
    BY <1>1, <2>6 DEF ReaderInductive
<1>8. QED
  BY <1>3, <1>5, <1>6, <1>7 DEF Op

\* A read ends its field's wait; the last one ends the operation.
LEMMA LookKeeps ==
    ASSUME ReaderInductive, NEW f \in pending, Look(f)
    PROVE  ReaderInductive'
<1> DEFINE held == [g \in DOMAIN seen \cup {f} |-> IF g = f THEN FieldValue(f) ELSE seen[g]]
<1>0. op # "none" /\ Waiting
  BY DEF ReaderInductive, Waiting
<1>1. DOMAIN held = DOMAIN seen \cup {f}
  OBVIOUS
<1>2. ASSUME seen' = held, UNCHANGED <<escrowVars, stored, op, result, atStart, standings>>,
             Waiting'
      PROVE  ReaderInductive'
  <2>1. UNCHANGED <<notes, bonds>> /\ EscrowTypeOK' /\ StoredOK' /\ NotesStay'
    BY <1>2 DEF ReaderInductive, escrowVars, bondVars, EscrowTypeOK, BondTypeOK, StoredOK,
                NotesStay, Exists
  <2>2. /\ MinBond > 0 /\ Bond_ \in DOMAIN held => Bonded(held[Bond_]) \in standings
        /\ \A n \in Scanned : NoteField(n) \in DOMAIN held =>
              IF held[NoteField(n)] = Absent THEN atStart[n] = None ELSE Exists(n)
    BY <1>0, SightedGrows
  <2> HIDE DEF held
  <2>3. Bonded(seen[Bond_])' = Bonded(held[Bond_])
    BY <1>2 DEF Bonded
  <2>4. Sighted'
    BY <1>0, <1>2, <2>1, <2>2, <2>3 DEF ReaderInductive, Sighted, IsBonded, Exists
  <2>5. (ResultTyped /\ FreeIdIsTheFirst /\ FullMeansFull /\ (MinBond > 0 => BondedWasTrue))'
    BY <1>2, <2>1 DEF ReaderInductive, ResultTyped, FreeIdIsTheFirst, FullMeansFull,
                      BondedWasTrue, Answered, Exists
  <2>6. QED
    BY <1>2, <2>1, <2>4, <2>5 DEF ReaderInductive
<1>3. CASE pending # {f}
  <2>1. /\ pending' = pending \ {f} /\ seen' = held
        /\ UNCHANGED <<escrowVars, stored, op, result, atStart, standings>>
    BY <1>3 DEF Look
  <2>2. /\ pending \cup DOMAIN seen = Fields(op) /\ pending \cap DOMAIN seen = {}
        /\ pending \ {f} # {}
    BY <1>0, <1>3 DEF Waiting
  <2>3. Waiting'
    <3> HIDE DEF held
    <3> QED
      BY <1>0, <1>1, <2>1, <2>2 DEF Waiting
  <2>4. QED
    BY <1>2, <2>1, <2>3
<1>4. CASE pending = {f} /\ op = "get_escrow_terms" /\ f # Bond_
  <2>1. /\ pending' = {Bond_} /\ seen' = held
        /\ UNCHANGED <<escrowVars, stored, op, result, atStart, standings>>
    BY <1>4 DEF Look, Bond_
  <2>2. DOMAIN seen \cup {f} = TermsFields
    BY <1>0, <1>4 DEF Waiting, Fields
  <2>3. Bond_ \notin TermsFields
    BY DEF Bond_, Field, TermsFields
  <2>4. Waiting'
    <3> HIDE DEF held
    <3> QED
      BY <1>0, <1>1, <1>4, <2>1, <2>2, <2>3 DEF Waiting
  <2>5. QED
    BY <1>2, <2>1, <2>4
<1>5. CASE pending = {f} /\ ~(op = "get_escrow_terms" /\ f # Bond_)
  <2>1. Ends(Answer(held))
    BY <1>5 DEF Look, Bond_
  <2>2. QED
    BY <1>5, <2>1, AnswerIsRight
<1>6. QED
  BY <1>3, <1>4, <1>5

\* Whatever the contract does between its reads, what the reader waits for, saw
\* and answered stays in order.
THEOREM ReaderInductiveHolds == ReaderSpec => []ReaderInductive
<1>1. ReaderInductive /\ [ReaderNext]_vars => ReaderInductive'
  <2> SUFFICES ASSUME ReaderInductive, [ReaderNext]_vars PROVE ReaderInductive'
    OBVIOUS
  <2>1. CASE UNCHANGED vars
    <3>1. UNCHANGED <<notes, bonds>> /\ EscrowTypeOK'
      BY <2>1 DEF vars, escrowVars, bondVars, ReaderInductive, EscrowTypeOK, BondTypeOK
    <3>2. StoredOK' /\ Waiting' /\ NotesStay' /\ Sighted'
      BY <2>1, <3>1 DEF vars, readVars, ReaderInductive, StoredOK, Waiting, NotesStay, Sighted,
                        Exists, Bonded, IsBonded
    <3>3. (ResultTyped /\ FreeIdIsTheFirst /\ FullMeansFull /\ (MinBond > 0 => BondedWasTrue))'
      BY <2>1, <3>1 DEF vars, readVars, ReaderInductive, ResultTyped, FreeIdIsTheFirst,
                        FullMeansFull, BondedWasTrue, Answered, Exists
    <3>4. QED
      BY <3>1, <3>2, <3>3 DEF ReaderInductive
  <2>2. QED
    BY <2>1, ChainMovesKeeps, StartKeeps, LookKeeps, ReadThrowsKeeps DEF ReaderNext
<1>2. QED
  BY <1>1, ReaderStarts, PTL DEF ReaderSpec

\* The id called free was free when the tool was called and is the first, and
\* "every id in the scanned range is taken" is said only when it is so, though
\* every read of the scan may see another state (underwriting-tools.ts:144-167).
THEOREM ReaderInvariantHolds == ReaderSpec => []ReaderInvariant
<1>1. ReaderInductive => ReaderInvariant
  <2> SUFFICES ASSUME ReaderInductive PROVE ReaderTypeOK
    BY DEF ReaderInductive, ReaderInvariant
  <2>1. op # "none" => /\ pending \cup DOMAIN seen \subseteq Fields(op) \cup {Bond_}
                       /\ pending \cap DOMAIN seen = {}
    BY DEF ReaderInductive, Waiting, Fields
  <2>2. QED
    BY <2>1 DEF ReaderInductive, StoredOK, Waiting, ResultTyped, ReaderTypeOK, Bond_
<1>2. QED
  BY <1>1, ReaderInductiveHolds, PTL

\* What isBonded and the terms say of the bond is an answer is_bonded would have
\* given while the reads were under way (escrow-reader.ts:232), for a minimum
\* bond above zero: with none, the contract calls bonded an account that never
\* posted, and the reader does not.
THEOREM BondedWasAlwaysTrue ==
    ASSUME MinBond > 0
    PROVE  ReaderSpec => []BondedWasTrue
<1>1. ReaderInductive => BondedWasTrue
  BY DEF ReaderInductive
<1>2. QED
  BY <1>1, ReaderInductiveHolds, PTL

\* The reader changes nothing of the contract: what holds of every behaviour of
\* the contract holds of it under the reader.
THEOREM ReadsOnly == ReaderSpec => EscrowSpec
<1>1. ReaderInit => EscrowInit
  BY DEF ReaderInit
<1>2. [ReaderNext]_vars => [EscrowNext]_escrowVars
  BY DEF ReaderNext, ChainMoves, Start, Look, ReadThrows, Ends, vars
<1>3. QED
  BY <1>1, <1>2, PTL DEF ReaderSpec, EscrowSpec

-----------------------------------------------------------------------------
(* The bond panel.                                                          *)

\* A stake that is signed or waits is one the panel took, and so not empty.
StakesAreReal ==
    /\ asking # None => asking.amount \in Amount \ {0}
    /\ \A s \in BagToSet(waiting) : s.amount \in Amount \ {0}

BoardInductive == BoardTypeOK /\ ReadingWhenItSaysSo /\ StakesAreReal

\* A bag with one element more.
LEMMA BagGains ==
    ASSUME NEW B, IsABag(B), NEW e, NEW C, C = B (+) Bag(e)
    PROVE  IsABag(C) /\ BagToSet(C) = BagToSet(B) \cup {e} /\ C # EmptyBag
<1>1. IsABag(C) /\ BagToSet(C) = BagToSet(B) \cup {e}
  BY DEF IsABag, BagToSet, SetToBag, (+), Bag
<1>2. BagToSet(EmptyBag) = {}
  BY DEF BagToSet, EmptyBag, SetToBag
<1>3. QED
  BY <1>1, <1>2

\* A bag with one element less.
LEMMA BagLoses ==
    ASSUME NEW B, IsABag(B), NEW e, NEW C, C = B (-) Bag(e)
    PROVE  IsABag(C) /\ BagToSet(C) \subseteq BagToSet(B)
BY DEF IsABag, BagToSet, SetToBag, (-), Bag

\* The empty bag, and the bag of one element.
LEMMA SmallBags ==
    /\ IsABag(EmptyBag) /\ BagToSet(EmptyBag) = {}
    /\ \A e : IsABag(Bag(e)) /\ BagToSet(Bag(e)) = {e} /\ Bag(e) # EmptyBag
<1>1. IsABag(EmptyBag) /\ BagToSet(EmptyBag) = {}
  BY DEF IsABag, BagToSet, EmptyBag, SetToBag
<1>2. ASSUME NEW e PROVE IsABag(Bag(e)) /\ BagToSet(Bag(e)) = {e}
  BY DEF IsABag, BagToSet, SetToBag, Bag
<1>3. QED
  BY <1>1, <1>2

\* The panel starts with a read for whoever looks.
LEMMA BoardStarts == EscrowInit /\ BoardInit => BoardInductive
<1> SUFFICES ASSUME EscrowInit, BoardInit PROVE BoardInductive
  OBVIOUS
<1> DEFINE first == [for |-> None, found |-> None]
<1>1. EscrowTypeOK
  BY TypeAtStart
<1>2. first \in Read
  BY DEF Read, Key
<1>3. /\ IsABag(reads) /\ BagToSet(reads) \subseteq Read /\ reads # EmptyBag
      /\ IsABag(timers) /\ BagToSet(timers) \subseteq Account
      /\ IsABag(waiting) /\ BagToSet(waiting) = {}
  BY <1>2, SmallBags DEF BoardInit
<1>4. BoardTypeOK
  BY <1>1, <1>3 DEF BoardInit, BoardTypeOK, Key
<1>5. QED
  BY <1>3, <1>4 DEF BoardInductive, ReadingWhenItSaysSo, StakesAreReal, BoardInit

\* The contract executes a stake as a call of its own, or reverts.
LEMMA StakeCalls ==
    ASSUME BoardInductive, NEW s \in BagToSet(waiting), Execute(s)
    PROVE  [EscrowNext]_escrowVars
<1>1. s \in Stake /\ s.amount \in Amount
  BY DEF BoardInductive, BoardTypeOK, StakesAreReal
<1>2. s.account \in Account
  BY <1>1 DEF Stake
<1>3. CASE UNCHANGED escrowVars
  BY <1>3
<1>4. CASE BondPosted(s.account, s.amount)
  BY <1>1, <1>2, <1>4 DEF EscrowNext, PostBondCall
<1>5. QED
  BY <1>3, <1>4 DEF Execute, Reverts

\* Whatever the panel does, the chain makes one of its own calls or none.
LEMMA BoardChainStep ==
    ASSUME BoardInductive, [Next]_panelVars
    PROVE  [EscrowNext]_escrowVars
<1>1. CASE \E s \in BagToSet(waiting) : Execute(s)
  BY <1>1, StakeCalls
<1>2. CASE OthersCall
  BY <1>2 DEF OthersCall
<1>3. CASE Heard \/ HeardWithoutHash \/ NotHeard
  BY <1>3 DEF Heard, HeardWithoutHash, NotHeard, Sent
<1>4. CASE \E r \in BagToSet(reads) : Answers(r)
  BY <1>4 DEF Answers, ServerReads, ShowRead, FailRead
<1>5. CASE UNCHANGED panelVars
  BY <1>5 DEF panelVars
<1>6. QED
  BY <1>1, <1>2, <1>3, <1>4, <1>5 DEF Next, Connect, ReRead, TimerFires, PostBondClick

\* What the panel and the server are doing, apart from the chain.
PanelOK ==
    /\ key \in Key
    /\ bond \in {"loading", "error", "ready"}
    /\ figures \in Figures \cup {None}
    /\ figures = None <=> bond # "ready"
    /\ deploy \in {"idle", "pending", "sent"}
    /\ hashes \in BOOLEAN

ReadsOK ==
    /\ IsABag(reads) /\ BagToSet(reads) \subseteq Read
    /\ ReadingWhenItSaysSo

StakingOK ==
    /\ asking \in Stake \cup {None}
    /\ IsABag(timers) /\ BagToSet(timers) \subseteq Account
    /\ IsABag(waiting) /\ BagToSet(waiting) \subseteq Stake
    /\ StakesAreReal

\* The invariant, part by part.
LEMMA BoardParts == BoardInductive <=> EscrowTypeOK /\ PanelOK /\ ReadsOK /\ StakingOK
BY DEF BoardInductive, BoardTypeOK, PanelOK, ReadsOK, StakingOK

\* A refresh puts a read under way.
LEMMA RefreshKeeps ==
    ASSUME PanelOK, ReadsOK, NEW k \in Key, Refresh(k),
           key' \in Key, UNCHANGED <<deploy, hashes>>
    PROVE  PanelOK' /\ ReadsOK'
<1> DEFINE read == [for |-> k, found |-> None]
<1>1. read \in Read
  BY DEF Read
<1>2. reads' = reads (+) Bag(read) /\ bond' = "loading" /\ figures' = None
  BY DEF Refresh
<1>3. IsABag(reads') /\ BagToSet(reads') = BagToSet(reads) \cup {read} /\ reads' # EmptyBag
  BY <1>2, BagGains DEF ReadsOK
<1>4. ReadsOK'
  BY <1>1, <1>3 DEF ReadsOK, ReadingWhenItSaysSo
<1>5. PanelOK'
  BY <1>2 DEF PanelOK
<1>6. QED
  BY <1>4, <1>5

\* The server's reading of a bond has the figures' form.
LEMMA FiguresTyped ==
    ASSUME EscrowTypeOK, NEW k \in Key
    PROVE  [of |-> Subject(k), staked |-> bonds[Subject(k)].amount,
            defaults |-> bonds[Subject(k)].defaults, bonded |-> IsBonded(Subject(k))] \in Figures
<1>1. Subject(k) \in Account
  BY EscrowAssumption DEF Subject, Key
<1>2. bonds[Subject(k)].amount \in Nat /\ bonds[Subject(k)].defaults \in Nat
  BY <1>1 DEF EscrowTypeOK, BondTypeOK, Bond
<1>3. IsBonded(Subject(k)) \in BOOLEAN
  BY DEF IsBonded
<1>4. QED
  BY <1>1, <1>2, <1>3 DEF Figures

\* A read is answered, shown or fails; another one stays under way where the
\* panel goes on saying that it reads.
LEMMA AnswersKeeps ==
    ASSUME EscrowTypeOK, PanelOK, ReadsOK, NEW r \in BagToSet(reads), Answers(r)
    PROVE  PanelOK' /\ ReadsOK'
<1>1. r \in Read /\ r.for \in Key /\ r.found \in Figures \cup {None}
  BY DEF ReadsOK, Read
<1>2. CASE ServerReads(r)
  <2> DEFINE less == reads (-) Bag(r)
             figs == [of |-> Subject(r.for), staked |-> bonds[Subject(r.for)].amount,
                      defaults |-> bonds[Subject(r.for)].defaults,
                      bonded |-> IsBonded(Subject(r.for))]
             read == [r EXCEPT !.found = figs]
  <2>1. reads' = less (+) Bag(read) /\ UNCHANGED <<key, bond, figures, deploy, hashes>>
    BY <1>2 DEF ServerReads, shownVars
  <2>2. figs \in Figures
    BY <1>1, FiguresTyped
  <2> HIDE DEF figs
  <2>3. read \in Read
    BY <1>1, <2>2 DEF Read
  <2> HIDE DEF read
  <2>4. IsABag(less) /\ BagToSet(less) \subseteq Read
    BY BagLoses DEF ReadsOK
  <2> HIDE DEF less
  <2>5. IsABag(reads') /\ BagToSet(reads') = BagToSet(less) \cup {read} /\ reads' # EmptyBag
    BY <2>1, <2>4, BagGains
  <2>6. ReadsOK'
    BY <2>3, <2>4, <2>5 DEF ReadsOK, ReadingWhenItSaysSo
  <2>7. QED
    BY <2>1, <2>6 DEF PanelOK
<1>3. CASE ShowRead(r) \/ FailRead(r)
  <2>1. reads' = reads (-) Bag(r) /\ bond' # "loading" /\ UNCHANGED <<key, deploy, hashes>>
    BY <1>3 DEF ShowRead, FailRead
  <2>2. /\ bond' \in {"error", "ready"} /\ figures' \in Figures \cup {None}
        /\ figures' = None <=> bond' # "ready"
    BY <1>1, <1>3 DEF ShowRead, FailRead
  <2>3. IsABag(reads') /\ BagToSet(reads') \subseteq Read
    BY <2>1, BagLoses DEF ReadsOK
  <2>4. QED
    BY <2>1, <2>2, <2>3 DEF PanelOK, ReadsOK, ReadingWhenItSaysSo
<1>4. QED
  BY <1>2, <1>3 DEF Answers

\* The node takes the stake that is being signed, or does not.
LEMMA StakeTaken ==
    ASSUME StakingOK, asking # None, Accepted \/ UNCHANGED waiting
    PROVE  /\ IsABag(waiting') /\ BagToSet(waiting') \subseteq Stake
           /\ \A s \in BagToSet(waiting') : s.amount \in Amount \ {0}
<1>1. asking \in Stake /\ asking.amount \in Amount \ {0}
  BY DEF StakingOK, StakesAreReal
<1>2. CASE UNCHANGED waiting
  BY <1>2 DEF StakingOK, StakesAreReal
<1>3. CASE waiting' = waiting (+) Bag(asking)
  <2>1. IsABag(waiting') /\ BagToSet(waiting') = BagToSet(waiting) \cup {asking}
    BY <1>3, BagGains DEF StakingOK
  <2>2. QED
    BY <1>1, <2>1 DEF StakingOK, StakesAreReal
<1>4. QED
  BY <1>2, <1>3 DEF Accepted

\* A click stakes what is there to stake, or nothing.
LEMMA ClickKeeps ==
    ASSUME PanelOK, ReadsOK, StakingOK, NEW amount \in Amount, PostBondClick(amount)
    PROVE  PanelOK' /\ ReadsOK' /\ StakingOK'
<1>1. /\ key \in Account
      /\ UNCHANGED <<key, bond, figures, reads, timers, waiting, hashes>>
  BY DEF PostBondClick, PanelOK, Key, shownVars
<1>2. amount \in Nat
  BY EscrowAssumption
<1>3. \/ deploy' = "pending" /\ amount > 0 /\ asking' = [account |-> key, amount |-> amount]
      \/ deploy' = "idle" /\ asking' = asking
  BY DEF PostBondClick, Stakeable
<1>4. PanelOK'
  BY <1>1, <1>3 DEF PanelOK
<1>5. ReadsOK'
  BY <1>1 DEF ReadsOK, ReadingWhenItSaysSo
<1>6. CASE asking' = asking
  <2>1. UNCHANGED <<asking, timers, waiting>>
    BY <1>1, <1>6
  <2>2. QED
    BY <1>4, <1>5, <2>1 DEF StakingOK, StakesAreReal
<1>7. CASE amount > 0 /\ asking' = [account |-> key, amount |-> amount]
  <2>1. asking' \in Stake /\ asking'.amount \in Amount \ {0}
    BY <1>1, <1>2, <1>7 DEF Stake
  <2>2. UNCHANGED <<timers, waiting>>
    BY <1>1
  <2>3. QED
    BY <1>4, <1>5, <2>1, <2>2 DEF StakingOK, StakesAreReal
<1>8. QED
  BY <1>3, <1>6, <1>7

\* The stake is signed, and the panel hears of it or does not.
LEMMA SignedKeeps ==
    ASSUME PanelOK, ReadsOK, StakingOK, Heard \/ HeardWithoutHash \/ NotHeard
    PROVE  PanelOK' /\ ReadsOK' /\ StakingOK'
<1>1. /\ asking # None /\ asking' = None
      /\ Accepted \/ UNCHANGED waiting
      /\ UNCHANGED <<key, bond, figures, reads>>
      /\ deploy' \in {"sent", "idle"} /\ hashes' \in {TRUE, FALSE, hashes}
      /\ timers' = timers (+) Bag(asking.account) \/ UNCHANGED timers
  BY DEF Heard, HeardWithoutHash, NotHeard, Sent, shownVars
<1>2. PanelOK' /\ ReadsOK'
  BY <1>1 DEF PanelOK, ReadsOK, ReadingWhenItSaysSo
<1>3. asking.account \in Account
  BY <1>1 DEF StakingOK, Stake
<1>4. IsABag(timers') /\ BagToSet(timers') \subseteq Account
  <2>1. CASE UNCHANGED timers
    BY <2>1 DEF StakingOK
  <2>2. CASE timers' = timers (+) Bag(asking.account)
    <3>1. IsABag(timers') /\ BagToSet(timers') = BagToSet(timers) \cup {asking.account}
      BY <2>2, BagGains DEF StakingOK
    <3>2. QED
      BY <1>3, <3>1 DEF StakingOK
  <2>3. QED
    BY <1>1, <2>1, <2>2
<1>5. StakingOK'
  BY <1>1, <1>4, StakeTaken DEF StakingOK, StakesAreReal
<1>6. QED
  BY <1>2, <1>5

\* Whatever the reads, the timers, the wallet and the chain do, in any order,
\* the panel's state stays in order.
THEOREM BoardInductiveHolds == Spec => []BoardInductive
<1>1. BoardInductive /\ [Next]_panelVars => BoardInductive'
  <2> SUFFICES ASSUME BoardInductive, [Next]_panelVars PROVE BoardInductive'
    OBVIOUS
  <2>1. EscrowTypeOK /\ PanelOK /\ ReadsOK /\ StakingOK
    BY BoardParts
  <2>2. EscrowTypeOK'
    BY <2>1, BoardChainStep, TypeKept
  <2>3. PanelOK' /\ ReadsOK' /\ StakingOK'
    <3>1. ASSUME NEW k \in Key, Connect(k) PROVE PanelOK' /\ ReadsOK' /\ StakingOK'
      <4>1. Refresh(k) /\ key' = k /\ UNCHANGED <<deploy, asking, timers, waiting, hashes>>
        BY <3>1 DEF Connect
      <4>2. QED
        BY <2>1, <4>1, RefreshKeeps DEF StakingOK, StakesAreReal
    <3>2. CASE ReRead
      <4>1. Refresh(key) /\ UNCHANGED <<key, deploy, asking, timers, waiting, hashes>>
        BY <3>2 DEF ReRead
      <4>2. key \in Key
        BY <2>1 DEF PanelOK
      <4>3. QED
        BY <2>1, <4>1, <4>2, RefreshKeeps DEF StakingOK, StakesAreReal
    <3>3. ASSUME NEW r \in BagToSet(reads), Answers(r)
          PROVE  PanelOK' /\ ReadsOK' /\ StakingOK'
      <4>1. UNCHANGED <<asking, timers, waiting>>
        BY <3>3 DEF Answers, ServerReads, ShowRead, FailRead
      <4>2. QED
        BY <2>1, <3>3, <4>1, AnswersKeeps DEF StakingOK, StakesAreReal
    <3>4. ASSUME NEW k \in BagToSet(timers), TimerFires(k)
          PROVE  PanelOK' /\ ReadsOK' /\ StakingOK'
      <4>1. /\ Refresh(k) /\ timers' = timers (-) Bag(k)
            /\ UNCHANGED <<key, deploy, asking, waiting, hashes>>
        BY <3>4 DEF TimerFires
      <4>2. k \in Key /\ key' \in Key
        BY <2>1, <4>1 DEF StakingOK, PanelOK, Key
      <4>3. IsABag(timers') /\ BagToSet(timers') \subseteq Account
        BY <2>1, <4>1, BagLoses DEF StakingOK
      <4>4. QED
        BY <2>1, <4>1, <4>2, <4>3, RefreshKeeps DEF StakingOK, StakesAreReal
    <3>5. ASSUME NEW amount \in Amount, PostBondClick(amount)
          PROVE  PanelOK' /\ ReadsOK' /\ StakingOK'
      BY <2>1, <3>5, ClickKeeps
    <3>6. CASE Heard \/ HeardWithoutHash \/ NotHeard
      BY <2>1, <3>6, SignedKeeps
    <3>7. ASSUME NEW s \in BagToSet(waiting), Execute(s)
          PROVE  PanelOK' /\ ReadsOK' /\ StakingOK'
      <4>1. /\ waiting' = waiting (-) Bag(s)
            /\ UNCHANGED <<key, bond, figures, deploy, asking, reads, timers, hashes>>
        BY <3>7 DEF Execute, shownVars
      <4>2. IsABag(waiting') /\ BagToSet(waiting') \subseteq BagToSet(waiting)
        BY <2>1, <4>1, BagLoses DEF StakingOK
      <4>3. QED
        BY <2>1, <4>1, <4>2
           DEF PanelOK, ReadsOK, ReadingWhenItSaysSo, StakingOK, StakesAreReal
    <3>8. CASE OthersCall \/ UNCHANGED panelVars
      BY <2>1, <3>8 DEF OthersCall, panelVars, boardVars, shownVars,
                        PanelOK, ReadsOK, ReadingWhenItSaysSo, StakingOK, StakesAreReal
    <3>9. QED
      BY <3>1, <3>2, <3>3, <3>4, <3>5, <3>6, <3>7, <3>8 DEF Next
  <2>4. QED
    BY <2>2, <2>3 DEF BoardInductive, BoardTypeOK, PanelOK, ReadsOK, StakingOK
<1>2. QED
  BY <1>1, BoardStarts, PTL DEF Spec

\* "Reading" is said only while a read is under way, however many overlap, and
\* no stake the node took would revert as empty (BondPanel.tsx:82-112,
\* casper.ts:357).
THEOREM BoardInvariantHolds == Spec => []BoardInvariant
<1>1. BoardInductive => BoardInvariant
  <2> SUFFICES ASSUME BoardInductive, NEW s \in BagToSet(waiting)
               PROVE  Verdict(s) # "ZeroBond"
    BY DEF BoardInductive, BoardInvariant, NoEmptyStake
  <2>1. s.amount # 0
    BY DEF BoardInductive, StakesAreReal
  <2>2. QED
    BY <2>1 DEF Verdict, PostBond_Error, Ok
<1>2. QED
  BY <1>1, BoardInductiveHolds, PTL

\* The panel's stakes and everybody's other calls are behaviours of the contract:
\* what is proved of it holds under the panel.
THEOREM BoardRunsTheContract == Spec => EscrowSpec
<1>1. BoardInductive /\ [Next]_panelVars => [EscrowNext]_escrowVars
  BY BoardChainStep
<1>2. QED
  BY <1>1, BoardInductiveHolds, PTL DEF Spec, EscrowSpec
=============================================================================
