----------------------------- MODULE EscrowReader -----------------------------
(***************************************************************************)
(* ReceivableEscrowReader (agent/src/escrow-reader.ts) and the reading tools *)
(* of the agent (underwriting-tools.ts) over a contract that moves.          *)
(*                                                                         *)
(* An operation reads several fields at once, each at a state root of its   *)
(* own: Look(f) is the moment field f's root was taken, which FieldRead      *)
(* promises lies inside the read.  When the last answer is in, the operation *)
(* answers; when one read throws, it throws.  The contract is not upgraded    *)
(* under an operation.                                                      *)
(***************************************************************************)
EXTENDS ReceivableEscrow

CONSTANTS
    ScanLimit,  \* how many ids find_free_note_id scans: 24 in the code
    Absent      \* readField's null

\* The ids are consecutive numbers; the scan starts at 1, the default.  null is
\* neither an amount nor a note.
ASSUME ReaderAssumption ==
    /\ ScanLimit \in Nat \ {0}
    /\ NoteId \subseteq Nat /\ 1..ScanLimit \subseteq NoteId
    /\ Absent \notin Nat /\ Absent # "a note"

VARIABLES
    stored,    \* the accounts with an entry in the mapping of bonds
    op,        \* the operation under way, or "none"
    pending,   \* the fields it still waits for
    seen,      \* what the others held
    result,    \* what the last operation came to
    atStart,   \* the notes when it began
    standings  \* what is_bonded would have answered since it began

readVars == <<op, pending, seen, result, atStart, standings>>
vars     == <<escrowVars, stored, readVars>>

-----------------------------------------------------------------------------
(* The fields, and the operations over them.                                *)

Scanned == 1..ScanLimit

\* A field is its name, and the id for an entry of the mapping of notes.
Field(name) == <<name, 0>>

NoteField(n) == <<"notes", n>>

TermsFields == {Field("owner"), Field("minRiskScore"), Field("blockTime"),
                Field("balance"), Field("minBond")}

\* The fields each operation asks for at once.
Fields(o) ==
    CASE o = "get_escrow_terms"  -> TermsFields
      [] o = "isBonded"          -> {Field("bonds"), Field("minBond")}
      [] o = "get_note"          -> {NoteField(1)}
      [] o = "find_free_note_id" -> {NoteField(n) : n \in Scanned}

Op == {"get_escrow_terms", "isBonded", "get_note", "find_free_note_id"}

\* What a field holds.  Of the fields init alone writes, and of the figures
\* only shown, it is enough that they are there.
FieldValue(f) ==
    CASE f[1] = "notes" -> IF Exists(f[2]) THEN "a note" ELSE Absent
      [] f[1] = "bonds" -> IF Owner \in stored THEN bonds[Owner].amount ELSE Absent
      [] OTHER          -> "there"

\* Mutant: no bond counts as a bond of the minimum.
Bonded_NullIsEnough(bond) == bond = Absent \/ bond >= MinBond

\* isBonded, and underwriterIsBonded of the terms.
Bonded(bond) == bond # Absent /\ bond >= MinBond

\* Mutant: the loop stops one short.
FreeIn_Short(taken) ==
    IF 1..ScanLimit - 1 \subseteq taken THEN 0 ELSE Min(Scanned \ taken)

\* Mutant: the last id that is free.
FreeIn_Last(ids) == Max({0} \cup {i \in Scanned : i \notin ids})

\* The first id of the range that is not taken, or 0 for null.
FreeIn(taken) ==
    IF Scanned \subseteq taken THEN 0 ELSE Min(Scanned \ taken)

\* The object or the boolean the operation returns.
Answer(held) ==
    CASE op \in {"get_escrow_terms", "isBonded"} -> [bonded |-> Bonded(held[Field("bonds")])]
      [] op = "get_note"          -> [idIsFree |-> held[NoteField(1)] = Absent]
      [] op = "find_free_note_id" ->
            [free |-> FreeIn({i \in Scanned : held[NoteField(i)] # Absent})]

NoAnswer == [none |-> TRUE]
Thrown   == [error |-> TRUE]

ReaderInit ==
    /\ EscrowInit
    /\ stored = {}
    /\ op = "none"
    /\ pending = {}
    /\ seen = <<>>
    /\ result = NoAnswer
    /\ atStart = notes
    /\ standings = {}

Start(o) ==
    /\ op = "none"
    /\ op' = o
    /\ pending' = Fields(o)
    /\ seen' = <<>>
    /\ result' = NoAnswer
    /\ atStart' = notes
    /\ standings' = {IsBonded(Owner)}
    /\ UNCHANGED <<escrowVars, stored>>

\* Mutant: the operation answers before its last read is in.
Ends_Pending(v) ==
    /\ op' = "none"
    /\ seen' = <<>>
    /\ result' = v
    /\ UNCHANGED <<escrowVars, stored, pending, atStart, standings>>

Ends(v) ==
    /\ op' = "none"
    /\ pending' = {}
    /\ seen' = <<>>
    /\ result' = v
    /\ UNCHANGED <<escrowVars, stored, atStart, standings>>

\* The read of f: of the terms, the bond is asked for when the rest is there.
Look(f) ==
    LET held == [g \in DOMAIN seen \cup {f} |->
                    IF g = f THEN FieldValue(f) ELSE seen[g]]
    IN  /\ f \in pending
        /\ IF pending # {f}
           THEN /\ pending' = pending \ {f}
                /\ seen' = held
                /\ UNCHANGED <<escrowVars, stored, op, result, atStart, standings>>
           ELSE IF op = "get_escrow_terms" /\ f # Field("bonds")
           THEN /\ pending' = {Field("bonds")}
                /\ seen' = held
                /\ UNCHANGED <<escrowVars, stored, op, result, atStart, standings>>
           ELSE Ends(Answer(held))

\* Mutant: a read that threw counts as an id nobody uses.
ReadThrows_IsAbsent(f) ==
    /\ f \in pending
    /\ pending # {f}
    /\ pending' = pending \ {f}
    /\ seen' = [g \in DOMAIN seen \cup {f} |-> IF g = f THEN Absent ELSE seen[g]]
    /\ UNCHANGED <<escrowVars, stored, op, result, atStart, standings>>

ReadThrows(f) == f \in pending /\ Ends(Thrown)

-----------------------------------------------------------------------------

\* The contract, which gives an account its entry with its first bond.
ChainMoves ==
    /\ EscrowNext
    /\ stored' = stored \cup {a \in Account : bonds'[a] # bonds[a]}
    /\ standings' = IF op = "none" THEN standings
                    ELSE standings \cup {bonds'[Owner].amount >= MinBond}
    /\ UNCHANGED <<op, pending, seen, result, atStart>>

ReaderNext ==
    \/ ChainMoves
    \/ \E o \in Op : Start(o)
    \/ \E f \in pending : Look(f) \/ ReadThrows(f)

ReaderSpec == ReaderInit /\ [][ReaderNext]_vars

-----------------------------------------------------------------------------
(* Properties.                                                              *)

Answered(kind) == kind \in DOMAIN result

\* The shape of the state.
ReaderTypeOK ==
    /\ stored \subseteq Account
    /\ op \in Op \cup {"none"}
    /\ op = "none" <=> pending = {}
    /\ op # "none" => pending \cup DOMAIN seen \subseteq Fields(op) \cup {Field("bonds")}
    /\ op # "none" => pending \cap DOMAIN seen = {}
    /\ Answered("free") => result.free \in {0} \cup Scanned
    /\ Answered("idIsFree") => result.idIsFree \in BOOLEAN

\* An id called free was free when the tool was called, and nothing below it in
\* the range is: the reads of a scan see different states, and the answer is
\* right for all of them because notes only appear.
FreeIdIsTheFirst ==
    /\ Answered("free") /\ result.free # 0 =>
        /\ atStart[result.free] = None
        /\ \A i \in 1..result.free - 1 : Exists(i)
    /\ Answered("idIsFree") /\ result.idIsFree => atStart[1] = None

\* "every id in the scanned range is taken; scan further out"
\* (underwriting-tools.ts:165) is said only when it is so, and get_note shows a
\* note only if there is one.
FullMeansFull ==
    /\ Answered("free") /\ result.free = 0 => \A i \in Scanned : Exists(i)
    /\ Answered("idIsFree") /\ ~result.idIsFree => Exists(1)

\* "mirroring the contract's own is_bonded" (escrow-reader.ts:232): the answer
\* is one the contract would have given while the reads were under way, and a
\* read that failed is not an account without a bond.
BondedWasTrue == Answered("bonded") => result.bonded \in standings

\* The shape of the reader, and that what it says of the ids was so, whichever
\* states its reads saw (underwriting-tools.ts:144-167).
ReaderInvariant == ReaderTypeOK /\ FreeIdIsTheFirst /\ FullMeansFull
===============================================================================
