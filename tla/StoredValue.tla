------------------------------ MODULE StoredValue ------------------------------
(***************************************************************************)
(* How the reader finds and decodes one stored value: the dictionary key     *)
(* (escrow-reader.ts nested, clvalue.ts dictionaryItemKey) and the cursor    *)
(* over its bytes (clvalue.ts CLReader), one action per method.              *)
(*                                                                         *)
(* A byte is a digit below Base, and the fixed widths are Word for a u32,    *)
(* Long for a u64 and one digit for a hash: 256, 4, 8 and 32 in the code.    *)
(* Hashing is injective.  How Odra writes a value is external.               *)
(***************************************************************************)
EXTENDS Naturals, Sequences, SequencesExt

CONSTANTS
    Base, Word, Long,
    Amount,   \* the numbers a stored U512 may be
    Drifted   \* the contract has another layout than the reader expects

ASSUME StoredAssumption ==
    /\ Base \in Nat /\ Base > 3
    /\ Word \in Nat \ {0} /\ Long \in Nat \ {0}
    /\ Amount \subseteq Nat
    /\ Drifted \in BOOLEAN

VARIABLES
    path,     \* the field asked for: <<index>>, or <<parent, child>>
    fields,   \* what the contract stored, field by field
    damage,   \* what happened to its bytes: nothing, or one byte less or more
    raw,      \* the bytes the node answers with
    buf, at,  \* CLReader: the bytes inside the length prefix, and the cursor
    todo,     \* the kinds of the fields still to be read
    got,      \* the values of those read
    outcome   \* "raw", "reading", "done" or "error"

storedVars == <<path, fields, damage, raw, buf, at, todo, got, outcome>>

-----------------------------------------------------------------------------
(* Keys.                                                                    *)

Index == 1..15

\* Mutant: the levels overlap.
nested_Narrow(parent, child) == parent * 8 + child

nested(parent, child) == parent * 16 + child

Path == {<<i>> : i \in Index} \cup (Index \X Index)

fieldIndex(p) == IF Len(p) = 1 THEN p[1] ELSE nested(p[1], p[2])

-----------------------------------------------------------------------------
(* Numbers.                                                                 *)

\* n without its i lowest digits.
Shifted(n) == LET rest[i \in Nat] == IF i = 0 THEN n ELSE rest[i - 1] \div Base
              IN  rest

Fits(n, width) == Shifted(n)[width] = 0

\* Little-endian digits, and back.
Digits(n, width) == [i \in 1..width |-> Shifted(n)[i - 1] % Base]

\* Mutant: big-endian.
Number_BigEndian(digits) == FoldLeft(LAMBDA n, d : n * Base + d, 0, digits)

Number(digits) ==
    LET from[i \in 1..Len(digits) + 1] ==
            IF i > Len(digits) THEN 0 ELSE from[i + 1] * Base + digits[i]
    IN  from[1]

LengthOf(n) == CHOOSE w \in 0..n : Fits(n, w) /\ \A v \in 0..w - 1 : ~Fits(n, v)

-----------------------------------------------------------------------------
(* Odra's encoding, external.                                               *)

Encoded(f) ==
    CASE f.kind = "u8"     -> <<f.value>>
      [] f.kind = "u32"    -> Digits(f.value, Word)
      [] f.kind = "u64"    -> Digits(f.value, Long)
      [] f.kind = "u512"   -> <<LengthOf(f.value)>> \o Digits(f.value, LengthOf(f.value))
      [] f.kind = "string" -> Digits(Len(f.value), Word) \o f.value
      [] f.kind = "key"    -> <<0, f.value>>
      [] f.kind = "option" -> IF f.value = <<>> THEN <<0>> ELSE <<1, 0>> \o f.value

Bytes(fs) == FlattenSeq([i \in DOMAIN fs |-> Encoded(fs[i])])

F(kind, value) == [kind |-> kind, value |-> value]

Hashes == {1, Base - 1}

\* Note and Bond, as declared.
Note ==
    {<<F("key", s), F("option", i), F("u512", v), F("u64", r), F("string", h),
       F("u8", u)>> :
        s \in Hashes, i \in {<<>>, <<2>>}, v \in Amount, r \in {0, Base + 1},
        h \in {<<>>, <<1>>}, u \in 0..Base - 1}

Bond ==
    {<<F("u512", a), F("u512", s), F("u32", d)>> :
        a \in Amount, s \in Amount, d \in 0..Base}

\* Bond with its fields in another order.
OtherBond == {<<b[1], b[3], b[2]>> : b \in Bond}

Layout(p) == IF p[1] = 3 THEN <<"key", "option", "u512", "u64", "string", "u8">>
                         ELSE <<"u512", "u512", "u32">>

\* A byte lost or added at the end, inside the length prefix or outside it.
Damaged(s, how) ==
    CASE how = "short" -> SubSeq(s, 1, Len(s) - 1)
      [] how = "long"  -> s \o <<0>>
      [] OTHER         -> s

Wrapped(bytes) == Digits(Len(bytes), Word) \o bytes

\* Every number written fits the width it is written in.
ASSUME WidthAssumption ==
    /\ Fits(Base, Word) /\ Fits(Base + 1, Long)
    /\ \A n \in Amount : Fits(LengthOf(n), 1)
    /\ \A fs \in Note \cup Bond : Fits(Len(Bytes(fs)) + 1, Word)

Init ==
    /\ path \in {<<3>>, <<4, 1>>}
    /\ fields \in IF path = <<3>> THEN Note
                  ELSE IF Drifted THEN OtherBond ELSE Bond
    /\ damage \in {"none"} \cup {"short", "long"} \X {"inside", "outside"}
    /\ raw = IF damage = "none" THEN Wrapped(Bytes(fields))
             ELSE IF damage[2] = "inside"
             THEN Wrapped(Damaged(Bytes(fields), damage[1]))
             ELSE Damaged(Wrapped(Bytes(fields)), damage[1])
    /\ buf = <<>>
    /\ at = 0
    /\ todo = Layout(path)
    /\ got = <<>>
    /\ outcome = "raw"

-----------------------------------------------------------------------------
(* readField: innerBytes, the decoder, assertFullyConsumed.                  *)

Throw ==
    /\ outcome' = "error"
    /\ UNCHANGED <<path, fields, damage, raw, buf, at, todo, got>>

innerBytes ==
    /\ outcome = "raw"
    /\ IF Len(raw) < Word \/ Len(raw) - Word # Number(SubSeq(raw, 1, Word))
       THEN Throw
       ELSE /\ buf' = SubSeq(raw, Word + 1, Len(raw))
            /\ outcome' = "reading"
            /\ UNCHANGED <<path, fields, damage, raw, at, todo, got>>

Remaining == Len(buf) - at

\* The n bytes after the cursor and `skip` more.
Peek(skip, n) == SubSeq(buf, at + skip + 1, at + skip + n)

\* The method for the next field, if it is of this kind: `width` bytes in all.
Read(kind, width, value) ==
    /\ outcome = "reading"
    /\ todo # <<>> /\ Head(todo) = kind
    /\ IF width > Remaining
       THEN Throw
       ELSE /\ at' = at + width
            /\ got' = Append(got, value)
            /\ todo' = Tail(todo)
            /\ UNCHANGED <<path, fields, damage, raw, buf, outcome>>

\* The status byte of a note: an unknown one throws.
u8 ==
    IF Remaining > 0 /\ Peek(0, 1)[1] > 3
    THEN outcome = "reading" /\ todo # <<>> /\ Head(todo) = "u8" /\ Throw
    ELSE Read("u8", 1, Peek(0, 1)[1])

u32le == Read("u32", Word, Number(Peek(0, Word)))

u64le == Read("u64", Long, Number(Peek(0, Long)))

\* A length prefix of `head` bytes that are there.
Prefix(head) == IF head > Remaining THEN 0 ELSE Number(Peek(0, head))

u512 == Read("u512", 1 + Prefix(1), Number(Peek(1, Prefix(1))))

string == Read("string", Word + Prefix(Word), Peek(Word, Prefix(Word)))

address == Read("key", 2, Peek(1, 1)[1])

\* Mutant: the tag of an empty option is not consumed.
option_TagKept ==
    IF Prefix(1) = 0 THEN Read("option", 0, <<>>) ELSE Read("option", 3, Peek(2, 1))

option ==
    IF Prefix(1) = 0 THEN Read("option", 1, <<>>) ELSE Read("option", 3, Peek(2, 1))

\* Mutant: bytes left over are not looked at.
assertFullyConsumed_Lenient ==
    /\ outcome = "reading" /\ todo = <<>>
    /\ outcome' = "done"
    /\ UNCHANGED <<path, fields, damage, raw, buf, at, todo, got>>

\* Mutant: the end of the bytes is taken for the end of the fields.
assertFullyConsumed_Early ==
    /\ outcome = "reading" /\ Remaining = 0
    /\ outcome' = "done"
    /\ UNCHANGED <<path, fields, damage, raw, buf, at, todo, got>>

assertFullyConsumed ==
    /\ outcome = "reading" /\ todo = <<>>
    /\ outcome' = IF Remaining = 0 THEN "done" ELSE "error"
    /\ UNCHANGED <<path, fields, damage, raw, buf, at, todo, got>>

Next == innerBytes \/ u8 \/ u32le \/ u64le \/ u512 \/ string \/ address \/ option
        \/ assertFullyConsumed

Spec == Init /\ [][Next]_storedVars

-----------------------------------------------------------------------------
(* Properties.                                                              *)

\* The shape of the state; the cursor never passes the end.
StoredTypeOK ==
    /\ outcome \in {"raw", "reading", "done", "error"}
    /\ at \in 0..Len(buf)
    /\ Len(got) + Len(todo) = Len(Layout(path))
    /\ outcome = "done" => todo = <<>>

\* "a silent overflow here would read a different dictionary key and return a
\* confident wrong answer" (escrow-reader.ts:52): no two fields share a key.
KeysDiffer == \A p \in Path : fieldIndex(p) = fieldIndex(path) => p = path

\* What the contract stored is what the reader returns: each field ends where
\* the next begins.  A status byte beyond the four is an error.
DecodesWhatIsStored ==
    damage = "none" /\ ~Drifted /\ outcome \in {"done", "error"} =>
        IF path = <<3>> /\ fields[6].value > 3
        THEN outcome = "error"
        ELSE outcome = "done" /\ got = [i \in DOMAIN fields |-> fields[i].value]

\* "Throws rather than silently truncating" (clvalue.ts:113): a byte lost or
\* added anywhere is an error.
DamageIsLoud == damage # "none" => outcome # "done"

\* "A field-count or ordering drift in the contract shows up here as a loud
\* failure instead of as a believable but wrong decode" (clvalue.ts:188).
DriftIsLoud ==
    outcome = "done" => got = [i \in DOMAIN fields |-> fields[i].value]

\* The shape of the cursor, and that it returns what was stored or an error
\* (clvalue.ts:112-197).
StoredInvariant == StoredTypeOK /\ DecodesWhatIsStored /\ DamageIsLoud
===============================================================================
