------------------------ MODULE ReceivableEscrowProofs ------------------------
(***************************************************************************)
(* Theorems about ReceivableEscrow, for every set of accounts and note ids, *)
(* every bar, every minimum bond and every endowment.                       *)
(***************************************************************************)
EXTENDS ReceivableEscrow, FiniteSetTheorems, TLAPS

(* Sums over finite sets.  SumFunctionOnSet is a recursive function that     *)
(* takes an arbitrary element first; a tally adds the elements of every      *)
(* subset in every order.  The two agree, by induction over the subsets: a   *)
(* set of good subsets that has T whenever it has every T \ {x} has them all. *)

\* What holds of a set once it holds of the set without any one element holds of
\* every subset: the smallest subset it failed for would have none smaller.
LEMMA SubsetInduction ==
    ASSUME NEW S, IsFiniteSet(S), NEW Good,
           \A T \in SUBSET S : (\A x \in T : T \ {x} \in Good) => T \in Good
    PROVE  \A T \in SUBSET S : T \in Good
<1> DEFINE Bad == (SUBSET S) \ Good
<1>1. SUFFICES ASSUME Bad # {} PROVE FALSE
  OBVIOUS
<1>2. IsWellFoundedOn(StrictSubsetOrdering(S), SUBSET S)
  BY FS_StrictSubsetOrderingWellFounded, FS_FiniteSubsetsOfFinite, Zenon
<1>3. PICK T \in Bad : \A U \in Bad : ~(<<U, T>> \in StrictSubsetOrdering(S))
  <2> Bad \subseteq SUBSET S
    OBVIOUS
  <2> HIDE DEF Bad
  <2> QED
    BY <1>1, <1>2, WFMin, Zenon
<1>4. PICK x \in T : T \ {x} \notin Good
  BY <1>3
<1>5. <<T \ {x}, T>> \in StrictSubsetOrdering(S)
  BY <1>3, <1>4 DEF StrictSubsetOrdering
<1>6. QED
  BY <1>3, <1>4, <1>5

\* A tally of f over the subsets of S adds it up one element at a time.
IsTally(g, f, S) ==
    /\ g \in [SUBSET S -> Nat]
    /\ g[{}] = 0
    /\ \A T \in SUBSET S, x \in S : x \notin T => g[T \cup {x}] = g[T] + f[x]

\* Every finite set has a tally, built one element at a time.
LEMMA TallyExists ==
    ASSUME NEW S, IsFiniteSet(S), NEW f, \A x \in S : f[x] \in Nat
    PROVE  \E g : IsTally(g, f, S)
<1> DEFINE Good == {T \in SUBSET S : \E g : IsTally(g, f, T)}
<1>1. {} \in Good
  <2> DEFINE g0 == [T \in SUBSET {} |-> 0]
  <2>1. IsTally(g0, f, {})
    BY DEF IsTally
  <2>2. QED
    BY <2>1
<1>2. ASSUME NEW T \in SUBSET S, NEW x \in S, T \in Good
      PROVE  T \cup {x} \in Good
  <2>1. CASE x \in T
    <3>1. T \cup {x} = T
      BY <2>1
    <3>2. QED
      BY <3>1, <1>2
  <2>2. CASE x \notin T
    <3>1. PICK g : IsTally(g, f, T)
      BY <1>2
    <3> DEFINE h == [U \in SUBSET (T \cup {x}) |->
                        IF x \in U THEN g[U \ {x}] + f[x] ELSE g[U]]
    <3>2. /\ g \in [SUBSET T -> Nat] /\ g[{}] = 0
          /\ \A U \in SUBSET T, y \in T : y \notin U => g[U \cup {y}] = g[U] + f[y]
      BY <3>1 DEF IsTally
    <3>3. h \in [SUBSET (T \cup {x}) -> Nat]
      <4>1. ASSUME NEW U \in SUBSET (T \cup {x}) PROVE h[U] \in Nat
        BY <3>2
      <4>2. QED
        BY <4>1
    <3>4. h[{}] = 0
      BY <3>2
    <3>5. ASSUME NEW U \in SUBSET (T \cup {x}), NEW y \in T \cup {x}, y \notin U
          PROVE  h[U \cup {y}] = h[U] + f[y]
      <4>1. U \cup {y} \in SUBSET (T \cup {x})
        OBVIOUS
      <4>2. CASE y = x
        <5>1. (U \cup {x}) \ {x} = U /\ U \in SUBSET T
          BY <3>5, <4>2
        <5>2. h[U \cup {x}] = g[U] + f[x]
          BY <4>1, <4>2, <5>1
        <5>3. QED
          BY <5>2, <3>5, <4>2
      <4>3. CASE y # x /\ x \notin U
        BY <3>2, <3>5, <4>1, <4>3
      <4>4. CASE y # x /\ x \in U
        <5>1. (U \cup {y}) \ {x} = (U \ {x}) \cup {y}
          BY <4>4
        <5>2. U \ {x} \in SUBSET T /\ y \in T /\ y \notin U \ {x}
          BY <3>5, <4>4
        <5>3. g[(U \ {x}) \cup {y}] = g[U \ {x}] + f[y] /\ g[U \ {x}] \in Nat
          BY <3>2, <5>2
        <5>4. h[U \cup {y}] = g[(U \cup {y}) \ {x}] + f[x] /\ h[U] = g[U \ {x}] + f[x]
          BY <4>1, <4>4
        <5>5. f[x] \in Nat /\ f[y] \in Nat
          BY <1>2, <5>2
        <5> HIDE DEF h
        <5>6. h[U \cup {y}] = (g[U \ {x}] + f[y]) + f[x]
          BY <5>1, <5>3, <5>4
        <5>7. QED
          BY <5>3, <5>4, <5>5, <5>6
      <4>5. QED
        BY <4>2, <4>3, <4>4
    <3> HIDE DEF h
    <3>6. IsTally(h, f, T \cup {x})
      BY <3>3, <3>4, <3>5 DEF IsTally
    <3>7. QED
      BY <3>6
  <2>3. QED
    BY <2>1, <2>2
<1>3. S \in Good
  <2>1. ASSUME NEW T \in SUBSET S, \A x \in T : T \ {x} \in Good
        PROVE  T \in Good
    <3>1. CASE T = {}
      BY <3>1, <1>1
    <3>2. CASE T # {}
      <4>1. PICK x \in T : TRUE
        BY <3>2
      <4>2. (T \ {x}) \cup {x} \in Good
        <5>1. T \ {x} \in Good /\ T \ {x} \in SUBSET S /\ x \in S
          BY <2>1
        <5> HIDE DEF Good
        <5>2. QED
          BY <5>1, <1>2
      <4>3. (T \ {x}) \cup {x} = T
        OBVIOUS
      <4>4. QED
        BY <4>2, <4>3
    <3>3. QED
      BY <3>1, <3>2
  <2>2. \A T \in SUBSET S : T \in Good
    <3> HIDE DEF Good
    <3> QED
      BY <2>1, SubsetInduction
  <2>3. QED
    BY <2>2
<1>4. QED
  BY <1>3

\* The sum is the tally of the whole set: the tally satisfies the equation
\* that defines the recursive function, and nothing else does.
LEMMA SumIsTally ==
    ASSUME NEW S, IsFiniteSet(S), NEW f, NEW g, IsTally(g, f, S),
           \A x \in S : f[x] \in Nat
    PROVE  SumFunctionOnSet(f, S) = g[S]
<1> DEFINE pick(s) == CHOOSE x \in s : TRUE
           Eq(i) == i = [s \in SUBSET S |->
                            IF s = {} THEN 0 ELSE f[pick(s)] + i[s \ {pick(s)}]]
           iter == CHOOSE i : Eq(i)
<1>1. \A s \in SUBSET S : s # {} => pick(s) \in s
  OBVIOUS
<1>2. Eq(g)
  <2>1. ASSUME NEW s \in SUBSET S
        PROVE  g[s] = IF s = {} THEN 0 ELSE f[pick(s)] + g[s \ {pick(s)}]
    <3>1. CASE s = {}
      BY <3>1 DEF IsTally
    <3>2. CASE s # {}
      <4>1. pick(s) \in s
        BY <3>2
      <4> HIDE DEF pick
      <4>2. g[(s \ {pick(s)}) \cup {pick(s)}] = g[s \ {pick(s)}] + f[pick(s)]
        BY <4>1 DEF IsTally
      <4>3. (s \ {pick(s)}) \cup {pick(s)} = s
        BY <4>1
      <4>4. g[s \ {pick(s)}] \in Nat /\ f[pick(s)] \in Nat
        BY <4>1 DEF IsTally
      <4>5. QED
        BY <3>2, <4>2, <4>3, <4>4
    <3>3. QED
      BY <3>1, <3>2
  <2> HIDE DEF pick
  <2>2. QED
    BY <2>1 DEF IsTally
<1>3. Eq(iter)
  <2> HIDE DEF Eq
  <2> QED
    BY <1>2
<1>4. iter[S] = g[S]
  <2> DEFINE Good == {T \in SUBSET S : iter[T] = g[T]}
  <2> HIDE DEF iter
  <2>1. \A s \in SUBSET S :
           iter[s] = IF s = {} THEN 0 ELSE f[pick(s)] + iter[s \ {pick(s)}]
    <3> HIDE DEF pick
    <3> QED
      BY <1>3
  <2>2. \A s \in SUBSET S :
           g[s] = IF s = {} THEN 0 ELSE f[pick(s)] + g[s \ {pick(s)}]
    <3> HIDE DEF pick
    <3> QED
      BY <1>2
  <2> HIDE DEF pick
  <2>3. ASSUME NEW T \in SUBSET S, \A x \in T : T \ {x} \in Good
        PROVE  T \in Good
    <3>1. CASE T = {}
      BY <3>1, <2>1, <2>2
    <3>2. CASE T # {}
      BY <3>2, <2>1, <2>2, <2>3, <1>1
    <3>3. QED
      BY <3>1, <3>2
  <2>4. \A T \in SUBSET S : T \in Good
    <3> HIDE DEF Good
    <3> QED
      BY <2>3, SubsetInduction
  <2>5. QED
    BY <2>4
<1>5. QED
  BY <1>4 DEF SumFunctionOnSet, FoldFunctionOnSet, MapThenFoldSet

\* Nothing sums to nothing.
LEMMA SumEmpty == ASSUME NEW f PROVE SumFunctionOnSet(f, {}) = 0
<1> DEFINE g == [T \in SUBSET {} |-> 0]
<1>1. IsTally(g, f, {})
  BY DEF IsTally
<1>2. IsFiniteSet({})
  BY FS_EmptySet
<1>3. g[{}] = 0
  OBVIOUS
<1> HIDE DEF g
<1>4. QED
  BY <1>1, <1>2, <1>3, SumIsTally

\* One element more adds its own value.
LEMMA SumAdd ==
    ASSUME NEW S, IsFiniteSet(S), NEW x, x \notin S, NEW f,
           \A y \in S \cup {x} : f[y] \in Nat
    PROVE  /\ SumFunctionOnSet(f, S) \in Nat
           /\ SumFunctionOnSet(f, S \cup {x}) = SumFunctionOnSet(f, S) + f[x]
<1>1. IsFiniteSet(S \cup {x})
  BY FS_AddElement
<1>2. PICK g : IsTally(g, f, S \cup {x})
  BY <1>1, TallyExists
<1> DEFINE h == [T \in SUBSET S |-> g[T]]
<1>3. IsTally(h, f, S)
  BY <1>2 DEF IsTally
<1>4. h[S] = g[S] /\ g[S] \in Nat /\ g[S \cup {x}] = g[S] + f[x]
  BY <1>2 DEF IsTally
<1> HIDE DEF h
<1>5. SumFunctionOnSet(f, S) = h[S]
  BY <1>3, SumIsTally
<1>6. SumFunctionOnSet(f, S \cup {x}) = g[S \cup {x}]
  BY <1>1, <1>2, SumIsTally
<1>7. QED
  BY <1>4, <1>5, <1>6

\* A sum of naturals is a natural.
LEMMA SumType ==
    ASSUME NEW S, IsFiniteSet(S), NEW f, \A y \in S : f[y] \in Nat
    PROVE  SumFunctionOnSet(f, S) \in Nat
<1>1. PICK g : IsTally(g, f, S)
  BY TallyExists
<1>2. SumFunctionOnSet(f, S) = g[S] /\ g[S] \in Nat
  BY <1>1, SumIsTally DEF IsTally
<1>3. QED
  BY <1>2

\* Functions equal on the set have the same sum.
LEMMA SumSame ==
    ASSUME NEW S, IsFiniteSet(S), NEW f, NEW g, \A y \in S : f[y] \in Nat,
           \A y \in S : g[y] = f[y]
    PROVE  SumFunctionOnSet(g, S) = SumFunctionOnSet(f, S)
<1>1. PICK t : IsTally(t, f, S)
  BY TallyExists
<1>2. IsTally(t, g, S)
  BY <1>1 DEF IsTally
<1>3. QED
  BY <1>1, <1>2, SumIsTally

\* Changing one entry changes the sum by as much.
LEMMA SumChange ==
    ASSUME NEW S, IsFiniteSet(S), NEW f, NEW g, NEW x \in S,
           \A y \in S : f[y] \in Nat /\ g[y] \in Nat,
           \A y \in S \ {x} : g[y] = f[y]
    PROVE  SumFunctionOnSet(g, S) = SumFunctionOnSet(f, S) + g[x] - f[x]
<1> DEFINE R == S \ {x}
<1>1. IsFiniteSet(R) /\ S = R \cup {x} /\ x \notin R
  BY FS_RemoveElement
<1> HIDE DEF R
<1>2. SumFunctionOnSet(f, S) = SumFunctionOnSet(f, R) + f[x] /\ SumFunctionOnSet(f, R) \in Nat
  BY <1>1, SumAdd
<1>3. SumFunctionOnSet(g, S) = SumFunctionOnSet(g, R) + g[x]
  BY <1>1, SumAdd
<1>4. SumFunctionOnSet(g, R) = SumFunctionOnSet(f, R)
  BY <1>1, SumSame DEF R
<1>5. QED
  BY <1>2, <1>3, <1>4

\* A sum covers each of its entries.
LEMMA SumCovers ==
    ASSUME NEW S, IsFiniteSet(S), NEW f, \A y \in S : f[y] \in Nat, NEW x \in S
    PROVE  f[x] <= SumFunctionOnSet(f, S)
<1>1. IsFiniteSet(S \ {x}) /\ (S \ {x}) \cup {x} = S
  BY FS_RemoveElement
<1>2. /\ SumFunctionOnSet(f, S \ {x}) \in Nat
      /\ SumFunctionOnSet(f, (S \ {x}) \cup {x}) = SumFunctionOnSet(f, S \ {x}) + f[x]
  BY <1>1, SumAdd
<1>3. f[x] \in Nat
  OBVIOUS
<1>4. SumFunctionOnSet(f, S) = SumFunctionOnSet(f, S \ {x}) + f[x]
  BY <1>1, <1>2, Zenon
<1>5. QED
  BY <1>2, <1>3, <1>4

-----------------------------------------------------------------------------

USE MinBondAssumption, EscrowAssumption

\* A step commits one of the six writes, or changes nothing.
LEMMA StepCases ==
    ASSUME [EscrowNext]_escrowVars
    PROVE  \/ UNCHANGED escrowVars
           \/ \E caller \in Account, n \in NoteId, seller \in Account,
                 face \in Amount, score \in Score, hash \in Hash :
                 NoteOpened(caller, n, seller, face, score, hash)
           \/ \E caller \in Account, n \in NoteId, attached \in Amount :
                 NoteFunded(caller, n, attached)
           \/ \E caller \in Account, n \in NoteId : NoteRepaid(caller, n)
           \/ \E caller \in Account, attached \in Amount :
                 BondPosted(caller, attached)
           \/ \E caller \in Account, amount \in Amount :
                 BondWithdrawn(caller, amount)
           \/ \E caller \in Account, n \in NoteId : NoteDefaulted(caller, n)
BY DEF EscrowNext, OpenNote, FundNote, MarkRepaid, PostBondCall, WithdrawBond,
       DeclareDefault, Reverts

-----------------------------------------------------------------------------
(* Type correctness.                                                        *)

\* No entry point breaks a type.
LEMMA TypeKept ==
    ASSUME EscrowTypeOK, [EscrowNext]_escrowVars
    PROVE  EscrowTypeOK'
<1> USE DEF EscrowTypeOK, BondTypeOK
<1>0. CASE UNCHANGED escrowVars
  BY <1>0 DEF escrowVars
<1>1. ASSUME NEW caller \in Account, NEW n \in NoteId, NEW seller \in Account,
             NEW face \in Amount, NEW score \in Score, NEW hash \in Hash,
             NoteOpened(caller, n, seller, face, score, hash)
      PROVE  EscrowTypeOK'
  <2>1. [seller |-> seller, investor |-> None, face |-> face,
         score |-> score, hash |-> hash, status |-> "Open"] \in Note
    BY DEF Note
  <2>2. notes' \in [NoteId -> Note \cup {None}]
    BY <1>1, <2>1 DEF NoteOpened
  <2>3. QED
    BY <1>1, <2>2 DEF NoteOpened
<1>2. ASSUME NEW caller \in Account, NEW n \in NoteId, NEW attached \in Amount,
             NoteFunded(caller, n, attached)
      PROVE  EscrowTypeOK'
  <2>1. notes[n] \in Note /\ attached <= wallet[caller]
    BY <1>2 DEF NoteFunded, FundNote_Error, Exists, Ok
  <2>2. notes' \in [NoteId -> Note \cup {None}]
    BY <1>2, <2>1 DEF NoteFunded, Note
  <2>3. wallet' \in [Account -> Nat]
    BY <1>2, <2>1 DEF NoteFunded, Moved
  <2>4. QED
    BY <1>2, <2>2, <2>3 DEF NoteFunded
<1>3. ASSUME NEW caller \in Account, NEW n \in NoteId, NoteRepaid(caller, n)
      PROVE  EscrowTypeOK'
  <2>1. notes[n] \in Note
    BY <1>3 DEF NoteRepaid, MarkRepaid_Error, Exists, Ok
  <2>2. notes' \in [NoteId -> Note \cup {None}]
    BY <1>3, <2>1 DEF NoteRepaid, Note
  <2>3. QED
    BY <1>3, <2>2 DEF NoteRepaid
<1>4. ASSUME NEW caller \in Account, NEW attached \in Amount,
             BondPosted(caller, attached)
      PROVE  EscrowTypeOK'
  <2>1. bonds' \in [Account -> Bond]
    BY <1>4 DEF BondPosted, PostBond, Bond
  <2>2. wallet' \in [Account -> Nat]
    BY <1>4 DEF BondPosted
  <2>3. QED
    BY <1>4, <2>1, <2>2 DEF BondPosted, PostBond
<1>5. ASSUME NEW caller \in Account, NEW amount \in Amount,
             BondWithdrawn(caller, amount)
      PROVE  EscrowTypeOK'
  <2>1. amount <= bonds[caller].amount /\ amount <= purse
    BY <1>5 DEF BondWithdrawn, WithdrawBond_Error, Withdraw_Error,
                Transfer_Error, Ok, Bond
  <2>2. bonds' \in [Account -> Bond]
    BY <1>5, <2>1 DEF BondWithdrawn, Withdraw, Bond
  <2>3. wallet' \in [Account -> Nat] /\ purse' \in Nat
    BY <1>5, <2>1 DEF BondWithdrawn, Paid
  <2>4. QED
    BY <1>5, <2>2, <2>3 DEF BondWithdrawn, Withdraw
<1>6. ASSUME NEW caller \in Account, NEW n \in NoteId, NoteDefaulted(caller, n)
      PROVE  EscrowTypeOK'
  <2> DEFINE paid == Payout(Owner, notes[n].face)
  <2>1. notes[n] \in Note /\ notes[n].investor \in Account
    BY <1>6 DEF NoteDefaulted, DeclareDefault_Error, Exists, Ok, Note
  <2>2. paid \in Nat /\ paid <= bonds[Owner].amount
    BY <2>1 DEF Payout, Note, Bond
  <2>3. paid <= purse
    BY <1>6, <2>2 DEF NoteDefaulted, DeclareDefault_Error, Transfer_Error, Ok
  <2>4. bonds' \in [Account -> Bond] /\ defaulted' \in [NoteId -> BOOLEAN]
    BY <1>6, <2>2 DEF NoteDefaulted, Slash, Bond
  <2>5. notes' \in [NoteId -> Note \cup {None}]
    BY <1>6, <2>1 DEF NoteDefaulted, Note
  <2>6. /\ wallet' \in [Account -> Nat] /\ purse' \in Nat
        /\ paidOut' \in [NoteId -> Nat]
    BY <1>6, <2>1, <2>2, <2>3 DEF NoteDefaulted, Paid
  <2>7. QED
    BY <2>4, <2>5, <2>6
<1>7. QED
  BY StepCases, <1>0, <1>1, <1>2, <1>3, <1>4, <1>5, <1>6

\* A contract just installed has them all.
LEMMA TypeAtStart == EscrowInit => EscrowTypeOK
BY DEF EscrowInit, BondInit, EscrowTypeOK, BondTypeOK, Bond, ZeroBond

\* The storage, the purses and the event log always have their types; in
\* particular no balance and no bond is ever negative.
THEOREM TypeCorrect == EscrowSpec => []EscrowTypeOK
BY TypeAtStart, TypeKept, PTL DEF EscrowSpec

-----------------------------------------------------------------------------
(* The two books about a default.                                           *)

\* No step makes them disagree.
LEMMA BooksKept ==
    EscrowTypeOK /\ BooksAgree /\ [EscrowNext]_escrowVars => BooksAgree'
<1> SUFFICES ASSUME EscrowTypeOK, BooksAgree, [EscrowNext]_escrowVars,
                    NEW m \in NoteId
             PROVE  /\ defaulted'[m] <=> HasStatus(m, {"Defaulted"})'
                    /\ Exists(m)' =>
                         /\ notes'[m].investor = None
                              <=> notes'[m].status = "Open"
                         /\ notes'[m].score >= MinRiskScore
                    /\ paidOut'[m] > 0 => defaulted'[m]
  BY DEF BooksAgree
<1> USE DEF EscrowTypeOK, BondTypeOK, BooksAgree, HasStatus, Exists
<1>0. CASE UNCHANGED escrowVars
  BY <1>0 DEF escrowVars
<1>1. CASE \E caller \in Account, n \in NoteId, seller \in Account,
              face \in Amount, score \in Score, hash \in Hash :
              NoteOpened(caller, n, seller, face, score, hash)
  <2> PICK caller \in Account, n \in NoteId, seller \in Account,
           face \in Amount, score \in Score, hash \in Hash :
           NoteOpened(caller, n, seller, face, score, hash)
    BY <1>1
  <2>1. /\ notes' = [notes EXCEPT ![n] =
                  [seller |-> seller, investor |-> None, face |-> face,
                   score |-> score, hash |-> hash, status |-> "Open"]]
        /\ UNCHANGED <<bonds, defaulted, purse, wallet, paidOut>>
        /\ notes[n] = None /\ ~(score < MinRiskScore)
    BY DEF NoteOpened, OpenNote_Error, Ok
  <2>2. CASE m = n
    <3>1. notes'[m].status = "Open" /\ notes'[m].investor = None
            /\ notes'[m].score = score
      BY <2>1, <2>2
    <3>2. ~defaulted[m] /\ ~(paidOut[m] > 0)
      BY <2>1, <2>2
    <3>3. score >= MinRiskScore
      <4>1. score \in Nat /\ MinRiskScore \in Nat
        OBVIOUS
      <4>2. QED
        BY <2>1, <4>1
    <3>4. ~defaulted'[m] /\ ~(paidOut'[m] > 0)
      BY <2>1, <3>2
    <3>5. notes'[m].score >= MinRiskScore
      BY <3>1, <3>3
    <3>6. notes'[m].status # "Defaulted"
      BY <3>1
    <3>7. QED
      BY <3>1, <3>4, <3>5, <3>6
  <2>3. CASE m # n
    BY <2>1, <2>3
  <2>4. QED
    BY <2>2, <2>3
<1>2. CASE \E caller \in Account, n \in NoteId, attached \in Amount :
              NoteFunded(caller, n, attached)
  BY <1>2 DEF NoteFunded, FundNote_Error, Ok, Note
<1>3. CASE \E caller \in Account, n \in NoteId : NoteRepaid(caller, n)
  BY <1>3 DEF NoteRepaid, MarkRepaid_Error, Ok, Note
<1>4. CASE \E caller \in Account, attached \in Amount :
              BondPosted(caller, attached)
  BY <1>4 DEF BondPosted, PostBond
<1>5. CASE \E caller \in Account, amount \in Amount :
              BondWithdrawn(caller, amount)
  BY <1>5 DEF BondWithdrawn, Withdraw
<1>6. CASE \E caller \in Account, n \in NoteId : NoteDefaulted(caller, n)
  BY <1>6 DEF NoteDefaulted, DeclareDefault_Error, Slash, Ok, Note
<1>7. QED
  BY StepCases, <1>0, <1>1, <1>2, <1>3, <1>4, <1>5, <1>6

\* The bond's default flags, the notes' statuses, investors and scores, and
\* the events' payouts agree after every sequence of calls.
THEOREM BooksAlwaysAgree == EscrowSpec => []BooksAgree
<1>1. EscrowInit => BooksAgree
  BY DEF EscrowInit, BondInit, BooksAgree, HasStatus, Exists
<1>2. QED
  BY <1>1, BooksKept, TypeCorrect, PTL DEF EscrowSpec

-----------------------------------------------------------------------------
(* Custody.                                                                 *)

Staked == [a \in Account |-> bonds[a].amount]

\* Every step changes one bond and the purse by the same amount, or neither.
LEMMA PurseKept ==
    EscrowTypeOK /\ EscrowTypeOK' /\ PurseIsTheBonds /\ [EscrowNext]_escrowVars
        => PurseIsTheBonds'
<1> SUFFICES ASSUME EscrowTypeOK, EscrowTypeOK', PurseIsTheBonds,
                    [EscrowNext]_escrowVars
             PROVE  PurseIsTheBonds'
  OBVIOUS
<1>1. bonds \in [Account -> Bond] /\ bonds' \in [Account -> Bond]
  BY DEF EscrowTypeOK, BondTypeOK
<1>2. ASSUME UNCHANGED bonds, UNCHANGED purse
      PROVE  PurseIsTheBonds'
  BY <1>2 DEF PurseIsTheBonds
<1>3. ASSUME NEW u \in Account, NEW d \in Int, purse' = purse + d,
             bonds'[u].amount = bonds[u].amount + d,
             \A a \in Account \ {u} : bonds'[a].amount = bonds[a].amount
      PROVE  PurseIsTheBonds'
  <2>1. \A a \in Account : Staked[a] \in Nat /\ Staked'[a] \in Nat
    BY <1>1 DEF Staked, Bond
  <2>2. \A a \in Account \ {u} : Staked'[a] = Staked[a]
    BY <1>3 DEF Staked
  <2>3. Staked'[u] = Staked[u] + d
    BY <1>3 DEF Staked
  <2>4. SumFunctionOnSet(Staked', Account)
          = SumFunctionOnSet(Staked, Account) + Staked'[u] - Staked[u]
    <3>1. IsFiniteSet(Account)
      BY FiniteAssumption
    <3>2. QED
      BY <2>1, <2>2, <3>1, SumChange
  <2>5. SumFunctionOnSet(Staked, Account) = purse /\ purse \in Nat
    BY DEF PurseIsTheBonds, Staked, EscrowTypeOK
  <2>6. SumFunctionOnSet(Staked', Account) = purse'
    BY <1>3, <2>1, <2>3, <2>4, <2>5
  <2>7. QED
    BY <2>6 DEF PurseIsTheBonds, Staked
<1>4. CASE UNCHANGED escrowVars
  BY <1>2, <1>4 DEF escrowVars
<1>5. CASE \E caller \in Account, n \in NoteId, seller \in Account,
              face \in Amount, score \in Score, hash \in Hash :
              NoteOpened(caller, n, seller, face, score, hash)
  BY <1>2, <1>5 DEF NoteOpened
<1>6. CASE \E caller \in Account, n \in NoteId, attached \in Amount :
              NoteFunded(caller, n, attached)
  BY <1>2, <1>6 DEF NoteFunded
<1>7. CASE \E caller \in Account, n \in NoteId : NoteRepaid(caller, n)
  BY <1>2, <1>7 DEF NoteRepaid
<1>8. ASSUME NEW caller \in Account, NEW attached \in Amount,
             BondPosted(caller, attached)
      PROVE  PurseIsTheBonds'
  <2>1. attached \in Int
    OBVIOUS
  <2>2. /\ bonds'[caller].amount = bonds[caller].amount + attached
        /\ \A a \in Account \ {caller} : bonds'[a].amount = bonds[a].amount
        /\ purse' = purse + attached
    BY <1>1, <1>8 DEF BondPosted, PostBond, Bond
  <2>3. QED
    BY <2>1, <2>2, <1>3
<1>9. ASSUME NEW caller \in Account, NEW amount \in Amount,
             BondWithdrawn(caller, amount)
      PROVE  PurseIsTheBonds'
  <2>1. -amount \in Int
    OBVIOUS
  <2>2. /\ bonds'[caller].amount = bonds[caller].amount + (-amount)
        /\ \A a \in Account \ {caller} : bonds'[a].amount = bonds[a].amount
        /\ purse' = purse + (-amount)
    BY <1>1, <1>9 DEF BondWithdrawn, Withdraw, Bond, EscrowTypeOK
  <2>3. QED
    BY <2>1, <2>2, <1>3
<1>10. ASSUME NEW caller \in Account, NEW n \in NoteId, NoteDefaulted(caller, n)
       PROVE  PurseIsTheBonds'
  <2> DEFINE paid == Payout(Owner, notes[n].face)
  <2>1. paid \in Nat
    BY <1>1, <1>10 DEF NoteDefaulted, DeclareDefault_Error, Exists, Ok,
                       EscrowTypeOK, Note, Payout, Bond
  <2>2. /\ bonds'[Owner].amount = bonds[Owner].amount + (-paid)
        /\ \A a \in Account \ {Owner} : bonds'[a].amount = bonds[a].amount
        /\ purse' = purse + (-paid)
    BY <1>1, <1>10, <2>1 DEF NoteDefaulted, Slash, Bond, EscrowTypeOK
  <2>3. -paid \in Int
    BY <2>1
  <2> HIDE DEF paid
  <2>4. QED
    BY <2>2, <2>3, <1>3
<1>11. QED
  BY StepCases, <1>4, <1>5, <1>6, <1>7, <1>8, <1>9, <1>10

\* The purse is the sum of the bonds after every sequence of calls: stakes and
\* withdrawals move the same amount on both sides, a slash takes from the
\* table what the transfer takes from the purse, and the motes a funding
\* brings in leave in the same call.
THEOREM PurseIsAlwaysTheBonds == EscrowSpec => []PurseIsTheBonds
<1>1. EscrowInit => PurseIsTheBonds
  <2> SUFFICES ASSUME EscrowInit PROVE PurseIsTheBonds
    OBVIOUS
  <2> DEFINE g == [S \in SUBSET Account |-> 0]
  <2>1. \A a \in Account : Staked[a] = 0
    BY DEF EscrowInit, BondInit, ZeroBond, Staked
  <2>2. IsTally(g, Staked, Account)
    BY <2>1 DEF IsTally
  <2>3. g[Account] = purse
    BY DEF EscrowInit
  <2> HIDE DEF g
  <2>4. SumFunctionOnSet(Staked, Account) = purse
    BY <2>1, <2>2, <2>3, SumIsTally, FiniteAssumption
  <2>5. QED
    BY <2>4 DEF PurseIsTheBonds, Staked
<1>2. QED
  BY <1>1, PurseKept, TypeCorrect, PTL DEF EscrowSpec

\* A purse that holds the bonds and books that agree leave nothing to refuse late.
LEMMA CustodySuffices ==
    EscrowTypeOK /\ BooksAgree /\ PurseIsTheBonds => NeverRefusedLate
<1> SUFFICES ASSUME EscrowTypeOK, BooksAgree, PurseIsTheBonds,
                    NEW caller \in Account
             PROVE  /\ \A n \in NoteId : DeclareDefault_Error(caller, n)
                           \notin {"AlreadyDefaulted", "TransferFailed"}
                    /\ \A amount \in Amount : WithdrawBond_Error(caller, amount)
                           \notin {"AlreadyDefaulted", "TransferFailed"}
  BY DEF NeverRefusedLate
<1>1. \A a \in Account : bonds[a].amount \in Nat /\ bonds[a].amount <= purse
  <2>1. \A a \in Account : Staked[a] \in Nat /\ Staked[a] = bonds[a].amount
    BY DEF EscrowTypeOK, BondTypeOK, Bond, Staked
  <2>2. \A a \in Account : Staked[a] <= SumFunctionOnSet(Staked, Account)
    BY <2>1, SumCovers, FiniteAssumption
  <2>3. SumFunctionOnSet(Staked, Account) = purse
    BY DEF PurseIsTheBonds, Staked
  <2>4. QED
    BY <2>1, <2>2, <2>3
<1>2. ASSUME NEW amount \in Amount
      PROVE  WithdrawBond_Error(caller, amount)
               \notin {"AlreadyDefaulted", "TransferFailed"}
  BY <1>1 DEF WithdrawBond_Error, Withdraw_Error, Transfer_Error, Ok,
              EscrowTypeOK
<1>3. ASSUME NEW n \in NoteId
      PROVE  DeclareDefault_Error(caller, n)
               \notin {"AlreadyDefaulted", "TransferFailed"}
  <2>1. CASE ~HasStatus(n, {"Funded"})
    BY <2>1 DEF DeclareDefault_Error, HasStatus
  <2>2. CASE HasStatus(n, {"Funded"})
    <3>1. ~defaulted[n]
      BY <2>2 DEF BooksAgree, HasStatus
    <3>2. notes[n].face \in Nat
      BY <2>2 DEF HasStatus, Exists, EscrowTypeOK, Note
    <3>3. Transfer_Error(Payout(Owner, notes[n].face)) = Ok
      BY <1>1, <3>2 DEF Transfer_Error, Payout, EscrowTypeOK
    <3>4. QED
      BY <3>1, <3>3 DEF DeclareDefault_Error, Slash_Error, Ok
  <2>3. QED
    BY <2>1, <2>2
<1>4. QED
  BY <1>2, <1>3

\* No call reaches slash's replay guard, and no transfer out of the purse
\* falls short: the first because the two books agree, the second because the
\* purse is the sum of the bonds and a call pays out of one of them.
THEOREM NeverRefusedLateHolds == EscrowSpec => []NeverRefusedLate
BY CustodySuffices, TypeCorrect, BooksAlwaysAgree, PurseIsAlwaysTheBonds, PTL

-----------------------------------------------------------------------------
(* The owner's reputation, and every account's balance.                     *)

\* The bond's counters are the history of the notes: a default is booked once,
\* on the owner's bond, with what its investor got.
THEOREM ReputationIsAlwaysHistory == EscrowSpec => []ReputationIsHistory
<1>1. EscrowInit => ReputationIsHistory
  <2> SUFFICES ASSUME EscrowInit, NEW a \in Account
               PROVE  /\ bonds[a].defaults = Cardinality(Struck(a))
                      /\ bonds[a].slashed = SumFunctionOnSet(paidOut, Struck(a))
    BY DEF ReputationIsHistory
  <2>1. bonds[a].defaults = 0 /\ bonds[a].slashed = 0
    BY DEF EscrowInit, BondInit, ZeroBond
  <2>2. Struck(a) = {}
    BY DEF EscrowInit, BondInit, Struck
  <2>3. QED
    BY <2>1, <2>2, SumEmpty, FS_EmptySet
<1>2. EscrowTypeOK /\ EscrowTypeOK' /\ ReputationIsHistory /\ [EscrowNext]_escrowVars
        => ReputationIsHistory'
  <2> SUFFICES ASSUME EscrowTypeOK, EscrowTypeOK', ReputationIsHistory,
                      [EscrowNext]_escrowVars, NEW a \in Account
               PROVE  /\ bonds'[a].defaults = Cardinality(Struck(a)')
                      /\ bonds'[a].slashed = SumFunctionOnSet(paidOut', Struck(a)')
    BY DEF ReputationIsHistory
  <2>1. /\ bonds[a].defaults = Cardinality(Struck(a))
        /\ bonds[a].slashed = SumFunctionOnSet(paidOut, Struck(a))
        /\ bonds[a].defaults \in Nat /\ bonds[a].slashed \in Nat
    BY DEF ReputationIsHistory, EscrowTypeOK, BondTypeOK, Bond
  <2>2. ASSUME bonds'[a].defaults = bonds[a].defaults,
               bonds'[a].slashed = bonds[a].slashed,
               UNCHANGED <<defaulted, paidOut>>
        PROVE  /\ bonds'[a].defaults = Cardinality(Struck(a)')
               /\ bonds'[a].slashed = SumFunctionOnSet(paidOut', Struck(a)')
    BY <2>1, <2>2 DEF Struck
  <2>3. CASE \E caller \in Account, n \in NoteId : NoteDefaulted(caller, n)
    <3> PICK caller \in Account, n \in NoteId : NoteDefaulted(caller, n)
      BY <2>3
    <3> DEFINE paid == Payout(Owner, notes[n].face)
    <3>1. /\ ~defaulted[n]
          /\ defaulted' = [defaulted EXCEPT ![n] = TRUE]
          /\ paidOut' = [paidOut EXCEPT ![n] = paid]
          /\ bonds' = [bonds EXCEPT ![Owner] = [amount   |-> @.amount - paid,
                                                slashed  |-> @.slashed + paid,
                                                defaults |-> @.defaults + 1]]
      BY DEF NoteDefaulted, Slash, DeclareDefault_Error, Slash_Error, Ok
    <3>2. /\ defaulted \in [NoteId -> BOOLEAN] /\ bonds \in [Account -> Bond]
          /\ paidOut \in [NoteId -> Nat] /\ paidOut' \in [NoteId -> Nat]
      BY DEF EscrowTypeOK, BondTypeOK
    <3> HIDE DEF paid
    <3>3. CASE a # Owner
      <4>1. Struck(a) = {} /\ Struck(a)' = {} /\ bonds'[a] = bonds[a]
        BY <3>1, <3>2, <3>3 DEF Struck
      <4>2. QED
        BY <2>1, <4>1, SumEmpty
    <3>4. CASE a = Owner
      <4>1. Struck(a)' = Struck(a) \cup {n} /\ n \notin Struck(a)
        BY <3>1, <3>2, <3>4 DEF Struck
      <4>2. IsFiniteSet(Struck(a))
        BY FS_Subset, FiniteAssumption DEF Struck
      <4>3. Cardinality(Struck(a) \cup {n}) = Cardinality(Struck(a)) + 1
        BY <4>1, <4>2, FS_AddElement
      <4>4. /\ SumFunctionOnSet(paidOut', Struck(a) \cup {n})
                 = SumFunctionOnSet(paidOut', Struck(a)) + paidOut'[n]
            /\ SumFunctionOnSet(paidOut', Struck(a))
                 = SumFunctionOnSet(paidOut, Struck(a))
        <5>1. \A m \in Struck(a) \cup {n} : paidOut'[m] \in Nat
          BY <3>2 DEF Struck
        <5>2. \A m \in Struck(a) : paidOut[m] \in Nat
          BY <3>2 DEF Struck
        <5>3. \A m \in Struck(a) : paidOut'[m] = paidOut[m]
          BY <3>1, <3>2, <4>1 DEF Struck
        <5>4. SumFunctionOnSet(paidOut', Struck(a))
                = SumFunctionOnSet(paidOut, Struck(a))
          BY <4>2, <5>2, <5>3, SumSame
        <5>5. SumFunctionOnSet(paidOut', Struck(a) \cup {n})
                = SumFunctionOnSet(paidOut', Struck(a)) + paidOut'[n]
          BY <4>1, <4>2, <5>1, SumAdd
        <5>6. QED
          BY <5>4, <5>5
      <4>5. /\ paidOut'[n] = paid
            /\ bonds'[a].defaults = bonds[a].defaults + 1
            /\ bonds'[a].slashed = bonds[a].slashed + paid
        BY <3>1, <3>2, <3>4 DEF Bond
      <4>6. QED
        BY <2>1, <4>1, <4>3, <4>4, <4>5
    <3>5. QED
      BY <3>3, <3>4
  <2>4. CASE \E caller \in Account, attached \in Amount : BondPosted(caller, attached)
    BY <2>2, <2>4 DEF BondPosted, PostBond, EscrowTypeOK, BondTypeOK, Bond
  <2>5. CASE \E caller \in Account, amount \in Amount : BondWithdrawn(caller, amount)
    BY <2>2, <2>5 DEF BondWithdrawn, Withdraw, EscrowTypeOK, BondTypeOK, Bond
  <2>6. QED
    BY StepCases, <2>2, <2>3, <2>4, <2>5
       DEF escrowVars, NoteOpened, NoteFunded, NoteRepaid
<1>3. QED
  BY <1>1, <1>2, TypeCorrect, PTL DEF EscrowSpec

\* The sums of an account's position are numbers, over finite sets of notes.
LEMMA PositionType ==
    ASSUME EscrowTypeOK, NEW a \in Account
    PROVE  /\ IsFiniteSet(Bought(a)) /\ Bought(a) \subseteq NoteId
           /\ IsFiniteSet(Sold(a)) /\ Sold(a) \subseteq NoteId
           /\ \A n \in NoteId : FaceOf[n] \in Nat /\ paidOut[n] \in Nat
           /\ SumFunctionOnSet(FaceOf, Bought(a)) \in Nat
           /\ SumFunctionOnSet(FaceOf, Sold(a)) \in Nat
           /\ SumFunctionOnSet(paidOut, Bought(a)) \in Nat
<1>1. /\ IsFiniteSet(Bought(a)) /\ Bought(a) \subseteq NoteId
      /\ IsFiniteSet(Sold(a)) /\ Sold(a) \subseteq NoteId
  BY FS_Subset, FiniteAssumption DEF Bought, Sold, PaidFor
<1>2. \A n \in NoteId : FaceOf[n] \in Nat /\ paidOut[n] \in Nat
  BY DEF FaceOf, EscrowTypeOK, Exists, Note
<1>3. QED
  BY <1>1, <1>2, SumType

\* The three sums of an account's position, after a call that leaves the notes
\* that were paid for as they are.
LEMMA PositionKept ==
    ASSUME EscrowTypeOK, EscrowTypeOK', NEW a \in Account,
           \A n \in NoteId :
               HasStatus(n, {"Funded", "Repaid", "Defaulted"})'
                 <=> HasStatus(n, {"Funded", "Repaid", "Defaulted"}),
           \A n \in NoteId : HasStatus(n, {"Funded", "Repaid", "Defaulted"}) =>
               /\ notes'[n].investor = notes[n].investor
               /\ notes'[n].seller = notes[n].seller
               /\ notes'[n].face = notes[n].face
    PROVE  /\ Bought(a)' = Bought(a) /\ Sold(a)' = Sold(a)
           /\ SumFunctionOnSet(FaceOf', Bought(a)') = SumFunctionOnSet(FaceOf, Bought(a))
           /\ SumFunctionOnSet(FaceOf', Sold(a)') = SumFunctionOnSet(FaceOf, Sold(a))
<1>1. PaidFor' = PaidFor
  BY DEF PaidFor
<1>2. \A n \in PaidFor : /\ n \in NoteId
                         /\ HasStatus(n, {"Funded", "Repaid", "Defaulted"})
                         /\ HasStatus(n, {"Funded", "Repaid", "Defaulted"})'
  BY DEF PaidFor
<1>3. Bought(a)' = Bought(a) /\ Sold(a)' = Sold(a)
  BY <1>1, <1>2 DEF Bought, Sold
<1>4. \A n \in PaidFor : FaceOf'[n] = FaceOf[n]
  BY <1>2 DEF FaceOf, HasStatus
<1>5. /\ \A n \in Bought(a) : FaceOf[n] \in Nat /\ FaceOf'[n] = FaceOf[n]
      /\ \A n \in Sold(a) : FaceOf[n] \in Nat /\ FaceOf'[n] = FaceOf[n]
  BY <1>4, PositionType DEF Bought, Sold
<1>6. IsFiniteSet(Bought(a)) /\ IsFiniteSet(Sold(a))
  BY PositionType
<1>7. SumFunctionOnSet(FaceOf', Bought(a)) = SumFunctionOnSet(FaceOf, Bought(a))
  BY <1>5, <1>6, SumSame
<1>8. SumFunctionOnSet(FaceOf', Sold(a)) = SumFunctionOnSet(FaceOf, Sold(a))
  BY <1>5, <1>6, SumSame
<1>9. QED
  BY <1>3, <1>7, <1>8

\* What one account's position adds up to.
AddsUp(a) ==
    wallet[a] + bonds[a].amount + bonds[a].slashed
      + SumFunctionOnSet(FaceOf, Bought(a))
    = Wallet0[a] + SumFunctionOnSet(FaceOf, Sold(a))
      + SumFunctionOnSet(paidOut, Bought(a))

\* Nothing is lost and nothing is made: every account's purse, stake, slashes
\* and notes account for what it started with, after every sequence of calls.
THEOREM EveryAccountAlwaysAddsUp == EscrowSpec => []EveryAccountAddsUp
<1>1. EscrowInit => EveryAccountAddsUp
  <2> SUFFICES ASSUME EscrowInit, NEW a \in Account PROVE AddsUp(a)
    BY DEF EveryAccountAddsUp, AddsUp
  <2>1. Bought(a) = {} /\ Sold(a) = {}
    BY DEF EscrowInit, Bought, Sold, PaidFor, HasStatus, Exists
  <2>2. wallet[a] = Wallet0[a] /\ bonds[a].amount = 0 /\ bonds[a].slashed = 0
    BY DEF EscrowInit, BondInit, ZeroBond
  <2>3. Wallet0[a] \in Nat
    OBVIOUS
  <2>4. QED
    BY <2>1, <2>2, <2>3, SumEmpty DEF AddsUp
<1>2. EscrowTypeOK /\ EscrowTypeOK' /\ BooksAgree /\ EveryAccountAddsUp
        /\ [EscrowNext]_escrowVars => EveryAccountAddsUp'
  <2> SUFFICES ASSUME EscrowTypeOK, EscrowTypeOK', BooksAgree, EveryAccountAddsUp,
                      [EscrowNext]_escrowVars, NEW a \in Account
               PROVE  AddsUp(a)'
    BY DEF EveryAccountAddsUp, AddsUp
  <2>1. AddsUp(a)
    BY DEF EveryAccountAddsUp, AddsUp
  <2>2. /\ wallet \in [Account -> Nat] /\ bonds \in [Account -> Bond]
        /\ notes \in [NoteId -> Note \cup {None}] /\ paidOut \in [NoteId -> Nat]
        /\ wallet[a] \in Nat /\ Wallet0[a] \in Nat
        /\ bonds[a].amount \in Nat /\ bonds[a].slashed \in Nat
    BY DEF EscrowTypeOK, BondTypeOK, Bond
  <2>3. /\ IsFiniteSet(Bought(a)) /\ Bought(a) \subseteq NoteId
        /\ IsFiniteSet(Sold(a)) /\ Sold(a) \subseteq NoteId
        /\ \A n \in NoteId : FaceOf[n] \in Nat /\ paidOut[n] \in Nat
        /\ SumFunctionOnSet(FaceOf, Bought(a)) \in Nat
        /\ SumFunctionOnSet(FaceOf, Sold(a)) \in Nat
        /\ SumFunctionOnSet(paidOut, Bought(a)) \in Nat
    BY PositionType
  <2>4. CASE UNCHANGED <<notes, paidOut>>
    <3>1. /\ Bought(a)' = Bought(a) /\ Sold(a)' = Sold(a) /\ FaceOf' = FaceOf
          /\ paidOut' = paidOut
      BY <2>4 DEF Bought, Sold, PaidFor, HasStatus, Exists, FaceOf
    <3>2. wallet'[a] + bonds'[a].amount + bonds'[a].slashed
            = wallet[a] + bonds[a].amount + bonds[a].slashed
      <4>1. CASE \E caller \in Account, attached \in Amount :
                     BondPosted(caller, attached)
        BY <2>2, <4>1 DEF BondPosted, PostBond, Bond
      <4>2. CASE \E caller \in Account, amount \in Amount :
                     BondWithdrawn(caller, amount)
        BY <2>2, <4>2 DEF BondWithdrawn, Withdraw, Paid, Bond
      <4>3. CASE UNCHANGED <<bonds, wallet>>
        BY <4>3
      <4>4. CASE \E caller \in Account, n \in NoteId : NoteDefaulted(caller, n)
        BY <2>2, <2>4, <4>4 DEF NoteDefaulted, DeclareDefault_Error, Ok, Note, Exists
      <4>5. CASE \E caller \in Account, n \in NoteId, attached \in Amount :
                     NoteFunded(caller, n, attached)
        BY <2>2, <2>4, <4>5 DEF NoteFunded, FundNote_Error, Ok, Note, Exists
      <4>6. QED
        BY StepCases, <4>1, <4>2, <4>3, <4>4, <4>5
           DEF escrowVars, NoteOpened, NoteRepaid
    <3>3. QED
      BY <2>1, <3>1, <3>2 DEF AddsUp
  <2>5. CASE \/ \E caller \in Account, n \in NoteId, seller \in Account,
                   face \in Amount, score \in Score, hash \in Hash :
                   NoteOpened(caller, n, seller, face, score, hash)
             \/ \E caller \in Account, n \in NoteId : NoteRepaid(caller, n)
    <3>1. UNCHANGED <<wallet, bonds, paidOut>>
      BY <2>5 DEF NoteOpened, NoteRepaid
    <3>2. /\ \A n \in NoteId :
               HasStatus(n, {"Funded", "Repaid", "Defaulted"})'
                 <=> HasStatus(n, {"Funded", "Repaid", "Defaulted"})
          /\ \A n \in NoteId : HasStatus(n, {"Funded", "Repaid", "Defaulted"}) =>
               /\ notes'[n].investor = notes[n].investor
               /\ notes'[n].seller = notes[n].seller
               /\ notes'[n].face = notes[n].face
      <4>1. CASE \E caller \in Account, n \in NoteId, seller \in Account,
                   face \in Amount, score \in Score, hash \in Hash :
                   NoteOpened(caller, n, seller, face, score, hash)
        BY <2>2, <4>1 DEF NoteOpened, OpenNote_Error, Ok, HasStatus, Exists, Note
      <4>2. CASE \E caller \in Account, n \in NoteId : NoteRepaid(caller, n)
        BY <2>2, <4>2 DEF NoteRepaid, MarkRepaid_Error, Ok, HasStatus, Exists, Note
      <4>3. QED
        BY <2>5, <4>1, <4>2
    <3>3. /\ Bought(a)' = Bought(a) /\ Sold(a)' = Sold(a)
          /\ SumFunctionOnSet(FaceOf', Bought(a)') = SumFunctionOnSet(FaceOf, Bought(a))
          /\ SumFunctionOnSet(FaceOf', Sold(a)') = SumFunctionOnSet(FaceOf, Sold(a))
      BY <3>2, PositionKept
    <3>4. QED
      BY <2>1, <3>1, <3>3 DEF AddsUp
  <2>6. ASSUME NEW caller \in Account, NEW n \in NoteId, NEW attached \in Amount,
               NoteFunded(caller, n, attached)
        PROVE  AddsUp(a)'
    <3> DEFINE seller == notes[n].seller
    <3>1. /\ notes[n] \in Note /\ notes[n].status = "Open"
          /\ attached = notes[n].face /\ attached \in Nat /\ seller \in Account
          /\ notes' = [notes EXCEPT ![n] = [@ EXCEPT !.investor = caller,
                                                     !.status = "Funded"]]
          /\ wallet' = Moved(caller, seller, attached)
          /\ bonds' = bonds /\ paidOut' = paidOut
      BY <2>2, <2>6 DEF NoteFunded, FundNote_Error, Ok, Exists, Note
    <3>2. /\ notes'[n] \in Note /\ notes'[n].investor = caller
          /\ notes'[n].seller = seller /\ notes'[n].face = notes[n].face
          /\ notes'[n].status = "Funded"
          /\ \A m \in NoteId \ {n} : notes'[m] = notes[m]
      BY <2>2, <3>1 DEF Note
    <3>3. paidOut[n] = 0
      BY <2>3, <3>1 DEF BooksAgree, HasStatus, Exists
    <3>4. FaceOf' = FaceOf /\ FaceOf[n] = attached
      BY <2>2, <3>1, <3>2 DEF FaceOf, Exists
    <3>5. /\ n \notin Bought(a) /\ n \notin Sold(a)
          /\ Bought(a)' = IF a = caller THEN Bought(a) \cup {n} ELSE Bought(a)
          /\ Sold(a)' = IF a = seller THEN Sold(a) \cup {n} ELSE Sold(a)
      <4>1. n \notin PaidFor /\ PaidFor' = PaidFor \cup {n}
        BY <3>1, <3>2 DEF PaidFor, HasStatus, Exists
      <4>2. \A m \in PaidFor : m \in NoteId \ {n}
        BY <4>1 DEF PaidFor
      <4>3. QED
        BY <3>2, <4>1, <4>2 DEF Bought, Sold
    <3> HIDE DEF seller
    <3>6. /\ SumFunctionOnSet(FaceOf, Bought(a) \cup {n})
               = SumFunctionOnSet(FaceOf, Bought(a)) + attached
          /\ SumFunctionOnSet(paidOut, Bought(a) \cup {n})
               = SumFunctionOnSet(paidOut, Bought(a))
      <4>1. /\ \A m \in Bought(a) \cup {n} : FaceOf[m] \in Nat
            /\ \A m \in Bought(a) \cup {n} : paidOut[m] \in Nat
        BY <2>3
      <4>2. SumFunctionOnSet(FaceOf, Bought(a) \cup {n})
              = SumFunctionOnSet(FaceOf, Bought(a)) + FaceOf[n]
        BY <2>3, <3>5, <4>1, SumAdd
      <4>3. SumFunctionOnSet(paidOut, Bought(a) \cup {n})
              = SumFunctionOnSet(paidOut, Bought(a)) + paidOut[n]
        BY <2>3, <3>5, <4>1, SumAdd
      <4>4. QED
        BY <2>3, <3>3, <3>4, <4>2, <4>3
    <3>7. SumFunctionOnSet(FaceOf, Sold(a) \cup {n})
            = SumFunctionOnSet(FaceOf, Sold(a)) + attached
      <4>1. \A m \in Sold(a) \cup {n} : FaceOf[m] \in Nat
        BY <2>3
      <4>2. SumFunctionOnSet(FaceOf, Sold(a) \cup {n})
              = SumFunctionOnSet(FaceOf, Sold(a)) + FaceOf[n]
        BY <2>3, <3>5, <4>1, SumAdd
      <4>3. QED
        BY <3>4, <4>2
    <3>8. wallet'[a] = wallet[a] - (IF a = caller THEN attached ELSE 0)
                                 + (IF a = seller THEN attached ELSE 0)
      BY <3>1 DEF Moved
    <3> DEFINE bought  == SumFunctionOnSet(FaceOf, Bought(a))
               sold    == SumFunctionOnSet(FaceOf, Sold(a))
               bought1 == SumFunctionOnSet(FaceOf', Bought(a)')
               sold1   == SumFunctionOnSet(FaceOf', Sold(a)')
               back    == SumFunctionOnSet(paidOut, Bought(a))
    <3>9. /\ bought1 = bought + (IF a = caller THEN attached ELSE 0)
          /\ sold1 = sold + (IF a = seller THEN attached ELSE 0)
          /\ SumFunctionOnSet(paidOut', Bought(a)') = back
      <4>1. bought \in Nat /\ sold \in Nat
        BY <2>3
      <4>2. CASE a = caller
        BY <3>1, <3>4, <3>5, <3>6, <3>7, <4>1, <4>2
      <4>3. CASE a # caller
        BY <3>1, <3>4, <3>5, <3>6, <3>7, <4>1, <4>3
      <4>4. QED
        BY <4>2, <4>3
    <3>10. /\ bought \in Nat /\ sold \in Nat /\ back \in Nat
           /\ wallet[a] + bonds[a].amount + bonds[a].slashed + bought
                = Wallet0[a] + sold + back
      BY <2>1, <2>3 DEF AddsUp
    <3>11. AddsUp(a)' <=> wallet'[a] + bonds'[a].amount + bonds'[a].slashed + bought1
                           = Wallet0[a] + sold1 + SumFunctionOnSet(paidOut', Bought(a)')
      BY DEF AddsUp
    <3> HIDE DEF bought, sold, bought1, sold1, back
    <3>12. bonds'[a].amount = bonds[a].amount /\ bonds'[a].slashed = bonds[a].slashed
      BY <3>1
    <3>13. attached \in Nat
      BY <3>1
    <3>14. QED
      BY <2>2, <3>8, <3>9, <3>10, <3>11, <3>12, <3>13
  <2>7. ASSUME NEW caller \in Account, NEW n \in NoteId, NoteDefaulted(caller, n)
        PROVE  AddsUp(a)'
    <3> DEFINE paid == Payout(Owner, notes[n].face)
               investor == notes[n].investor
    <3>1. /\ notes[n] \in Note /\ notes[n].status = "Funded" /\ investor \in Account
          /\ notes' = [notes EXCEPT ![n].status = "Defaulted"]
          /\ bonds' = [bonds EXCEPT ![Owner] = [amount   |-> @.amount - paid,
                                                slashed  |-> @.slashed + paid,
                                                defaults |-> @.defaults + 1]]
          /\ wallet' = [wallet EXCEPT ![investor] = @ + paid]
          /\ paidOut' = [paidOut EXCEPT ![n] = paid]
      BY <2>2, <2>7 DEF NoteDefaulted, DeclareDefault_Error, Slash, Paid, Ok, Exists, Note
    <3>2. paid \in Nat
      BY <2>2, <3>1 DEF Payout, Note, Bond
    <3> HIDE DEF paid
    <3>3. paidOut[n] = 0
      BY <2>3, <3>1 DEF BooksAgree, HasStatus, Exists
    <3>4. /\ Bought(a)' = Bought(a) /\ Sold(a)' = Sold(a)
          /\ SumFunctionOnSet(FaceOf', Bought(a)') = SumFunctionOnSet(FaceOf, Bought(a))
          /\ SumFunctionOnSet(FaceOf', Sold(a)') = SumFunctionOnSet(FaceOf, Sold(a))
      <4>1. /\ notes'[n] \in Note /\ notes'[n].investor = notes[n].investor
            /\ notes'[n].seller = notes[n].seller /\ notes'[n].face = notes[n].face
            /\ notes'[n].status = "Defaulted"
            /\ \A m \in NoteId \ {n} : notes'[m] = notes[m]
        BY <2>2, <3>1 DEF Note
      <4>2. \A m \in NoteId :
               HasStatus(m, {"Funded", "Repaid", "Defaulted"})'
                 <=> HasStatus(m, {"Funded", "Repaid", "Defaulted"})
        BY <3>1, <4>1 DEF HasStatus, Exists
      <4>3. \A m \in NoteId :
               /\ notes'[m].investor = notes[m].investor
               /\ notes'[m].seller = notes[m].seller
               /\ notes'[m].face = notes[m].face
        BY <4>1
      <4>4. QED
        BY <4>2, <4>3, PositionKept
    <3>5. n \in Bought(a) <=> a = investor
      BY <3>1 DEF Bought, PaidFor, HasStatus, Exists
    <3>6. SumFunctionOnSet(paidOut', Bought(a))
            = SumFunctionOnSet(paidOut, Bought(a)) + (IF a = investor THEN paid ELSE 0)
      <4>1. \A m \in Bought(a) : paidOut[m] \in Nat /\ paidOut'[m] \in Nat
        BY <2>2, <2>3 DEF EscrowTypeOK
      <4>2. \A m \in Bought(a) \ {n} : paidOut'[m] = paidOut[m]
        BY <2>2, <2>3, <3>1
      <4>3. CASE a = investor
        <5>1. SumFunctionOnSet(paidOut', Bought(a))
                = SumFunctionOnSet(paidOut, Bought(a)) + paidOut'[n] - paidOut[n]
          BY <2>3, <3>5, <4>1, <4>2, <4>3, SumChange
        <5>2. paidOut'[n] = paid
          BY <2>2, <3>1
        <5>3. QED
          BY <2>3, <3>2, <3>3, <4>3, <5>1, <5>2
      <4>4. CASE a # investor
        <5>1. \A m \in Bought(a) : paidOut'[m] = paidOut[m]
          BY <3>5, <4>2, <4>4
        <5>2. \A m \in Bought(a) : paidOut[m] \in Nat
          BY <4>1
        <5>3. SumFunctionOnSet(paidOut', Bought(a)) = SumFunctionOnSet(paidOut, Bought(a))
          BY <2>3, <5>1, <5>2, SumSame
        <5>4. QED
          BY <2>3, <4>4, <5>3
      <4>5. QED
        BY <4>3, <4>4
    <3>7. /\ wallet'[a] = wallet[a] + (IF a = investor THEN paid ELSE 0)
          /\ bonds'[a].amount + bonds'[a].slashed = bonds[a].amount + bonds[a].slashed
          /\ bonds'[a].amount \in Nat /\ bonds'[a].slashed \in Nat
      <4>1. wallet'[a] = wallet[a] + (IF a = investor THEN paid ELSE 0)
        BY <2>2, <3>1, <3>2
      <4>2. bonds'[a].amount + bonds'[a].slashed = bonds[a].amount + bonds[a].slashed
        BY <2>2, <3>1, <3>2 DEF Bond
      <4>3. bonds'[a].amount \in Nat /\ bonds'[a].slashed \in Nat
        BY DEF EscrowTypeOK, BondTypeOK, Bond
      <4>4. QED
        BY <4>1, <4>2, <4>3
    <3> HIDE DEF investor
    <3> DEFINE bought  == SumFunctionOnSet(FaceOf, Bought(a))
               sold    == SumFunctionOnSet(FaceOf, Sold(a))
               back    == SumFunctionOnSet(paidOut, Bought(a))
    <3>8. /\ bought \in Nat /\ sold \in Nat /\ back \in Nat
          /\ wallet[a] + bonds[a].amount + bonds[a].slashed + bought
               = Wallet0[a] + sold + back
      BY <2>1, <2>3 DEF AddsUp
    <3>9. AddsUp(a)' <=> wallet'[a] + bonds'[a].amount + bonds'[a].slashed + bought
                           = Wallet0[a] + sold + (back + IF a = investor THEN paid ELSE 0)
      BY <3>4, <3>6 DEF AddsUp
    <3> HIDE DEF bought, sold, back
    <3>10. QED
      BY <2>2, <3>2, <3>7, <3>8, <3>9
  <2>8. QED
    BY StepCases, <2>4, <2>5, <2>6, <2>7 DEF escrowVars, BondPosted, BondWithdrawn
<1>3. QED
  BY <1>1, <1>2, TypeCorrect, BooksAlwaysAgree, PTL DEF EscrowSpec

-----------------------------------------------------------------------------
(* What a step may do to a note, and to the bond of a defaulted one.        *)

\* What any one step may do to a note on record.
LEMMA NoteAdvances ==
    ASSUME EscrowTypeOK, [EscrowNext]_escrowVars, NEW m \in NoteId, Exists(m)
    PROVE  /\ notes'[m] # None
           /\ Terms(notes'[m]) = Terms(notes[m])
           /\ \/ notes'[m] = notes[m]
              \/ notes[m].status = "Open" /\ notes'[m].status = "Funded"
              \/ /\ notes[m].status = "Funded"
                 /\ notes'[m].status \in {"Repaid", "Defaulted"}
                 /\ notes'[m].investor = notes[m].investor
<1>1. notes[m] \in Note /\ notes[m] # None
  BY DEF EscrowTypeOK, Exists
<1>2. CASE notes'[m] = notes[m]
  BY <1>1, <1>2
<1>3. CASE /\ notes[m].status = "Open"
           /\ \E a \in Account : notes'[m] =
                [notes[m] EXCEPT !.investor = a, !.status = "Funded"]
  <2>1. PICK a \in Account :
          notes'[m] = [notes[m] EXCEPT !.investor = a, !.status = "Funded"]
    BY <1>3
  <2>2. notes'[m] \in Note /\ notes'[m].status = "Funded"
    BY <1>1, <2>1 DEF Note
  <2>3. Terms(notes'[m]) = Terms(notes[m])
    BY <1>1, <2>1 DEF Note, Terms
  <2>4. QED
    BY <1>3, <2>2, <2>3
<1>4. CASE /\ notes[m].status = "Funded"
           /\ \E s \in {"Repaid", "Defaulted"} :
                notes'[m] = [notes[m] EXCEPT !.status = s]
  <2>1. PICK s \in {"Repaid", "Defaulted"} :
          notes'[m] = [notes[m] EXCEPT !.status = s]
    BY <1>4
  <2>2. /\ notes'[m] \in Note /\ notes'[m].status = s
        /\ notes'[m].investor = notes[m].investor
    BY <1>1, <2>1 DEF Note
  <2>3. Terms(notes'[m]) = Terms(notes[m])
    BY <1>1, <2>1 DEF Note, Terms
  <2>4. QED
    BY <1>4, <2>2, <2>3
<1>5. \/ notes'[m] = notes[m]
      \/ /\ notes[m].status = "Open"
         /\ \E a \in Account : notes'[m] =
              [notes[m] EXCEPT !.investor = a, !.status = "Funded"]
      \/ /\ notes[m].status = "Funded"
         /\ \E s \in {"Repaid", "Defaulted"} :
              notes'[m] = [notes[m] EXCEPT !.status = s]
  <2> USE DEF EscrowTypeOK
  <2>1. CASE \E caller \in Account, n \in NoteId, seller \in Account,
                face \in Amount, score \in Score, hash \in Hash :
                NoteOpened(caller, n, seller, face, score, hash)
    BY <2>1, <1>1 DEF NoteOpened, OpenNote_Error, Exists, Ok
  <2>2. CASE \E caller \in Account, n \in NoteId, attached \in Amount :
                NoteFunded(caller, n, attached)
    BY <2>2 DEF NoteFunded, FundNote_Error, Ok
  <2>3. CASE \E caller \in Account, n \in NoteId : NoteRepaid(caller, n)
    BY <2>3 DEF NoteRepaid, MarkRepaid_Error, Ok
  <2>4. CASE \E caller \in Account, n \in NoteId : NoteDefaulted(caller, n)
    <3>1. PICK n \in NoteId : /\ notes' = [notes EXCEPT ![n].status = "Defaulted"]
                              /\ \E caller \in Account : DeclareDefault_Error(caller, n) = Ok
      BY <2>4 DEF NoteDefaulted
    <3>2. notes[n].status = "Funded"
      BY <3>1 DEF DeclareDefault_Error, Ok
    <3>3. CASE n = m
      BY <3>1, <3>2, <3>3
    <3>4. CASE n # m
      BY <3>1, <3>4
    <3>5. QED
      BY <3>3, <3>4
  <2>5. QED
    BY StepCases, <2>1, <2>2, <2>3, <2>4
       DEF escrowVars, BondPosted, BondWithdrawn
<1>6. QED
  BY <1>2, <1>3, <1>4, <1>5

\* A note's terms are frozen, its investor is set once, and its status only
\* goes forward, one step at a time.
THEOREM NoteHistoryHolds == EscrowSpec => NoteHistory
<1> DEFINE Step ==
      \A n \in NoteId : Exists(n) =>
        /\ notes'[n] # None
        /\ Terms(notes'[n]) = Terms(notes[n])
        /\ \/ notes'[n] = notes[n]
           \/ notes[n].status = "Open" /\ notes'[n].status = "Funded"
           \/ /\ notes[n].status = "Funded"
              /\ notes'[n].status \in {"Repaid", "Defaulted"}
              /\ notes'[n].investor = notes[n].investor
<1>1. EscrowTypeOK /\ [EscrowNext]_escrowVars => Step
  BY NoteAdvances
<1>2. QED
  BY <1>1, TypeCorrect, PTL DEF EscrowSpec, NoteHistory

\* A default pays in full or empties the owner's bond.
THEOREM ShortOnlyWhenEmptyHolds == EscrowSpec => ShortOnlyWhenEmpty
<1> DEFINE Step ==
      \A n \in NoteId : ~defaulted[n] /\ defaulted'[n] =>
        \/ paidOut'[n] = notes[n].face
        \/ paidOut'[n] > 0 /\ bonds'[Owner].amount = 0
<1>1. EscrowTypeOK /\ [EscrowNext]_escrowVars => Step
  <2> SUFFICES ASSUME EscrowTypeOK, [EscrowNext]_escrowVars, NEW m \in NoteId,
                      ~defaulted[m], defaulted'[m]
               PROVE  \/ paidOut'[m] = notes[m].face
                      \/ paidOut'[m] > 0 /\ bonds'[Owner].amount = 0
    OBVIOUS
  <2>1. PICK caller \in Account, n \in NoteId : NoteDefaulted(caller, n)
    BY StepCases DEF escrowVars, NoteOpened, NoteFunded, NoteRepaid, BondPosted,
                     PostBond, BondWithdrawn, Withdraw
  <2>2. n = m
    BY <2>1 DEF NoteDefaulted, Slash, EscrowTypeOK, BondTypeOK
  <2>3. /\ paidOut'[m] = Payout(Owner, notes[m].face)
        /\ bonds'[Owner].amount = bonds[Owner].amount - Payout(Owner, notes[m].face)
        /\ bonds[Owner].amount \in Nat /\ bonds[Owner].amount # 0
    BY <2>1, <2>2 DEF NoteDefaulted, Slash, DeclareDefault_Error, Slash_Error, Ok,
                      EscrowTypeOK, BondTypeOK, Bond
  <2>4. QED
    BY <2>3 DEF Payout
<1>2. QED
  BY <1>1, TypeCorrect, PTL DEF EscrowSpec, ShortOnlyWhenEmpty

-----------------------------------------------------------------------------
(* ReceivableEscrow implements CollateralisedNotes: each committed call maps *)
(* to one step of the promise under the mapping that defines Promise, and a *)
(* withdrawal of nothing and a revert map to a stutter.                     *)

\* The abstract stage and terms, as functions of the contract's register.
StageOf == [n \in NoteId |-> IF Exists(n) THEN notes[n].status ELSE "Absent"]
TermsOf == [n \in NoteId |->
               IF Exists(n)
               THEN [seller |-> notes[n].seller, face |-> notes[n].face]
               ELSE None]
BuyerOf == [n \in NoteId |-> IF Exists(n) THEN notes[n].investor ELSE None]
PotOf   == [a \in Account |-> bonds[a].amount]

\* A function that changes in one place is the old one with that place updated.
LEMMA PointUpdate ==
    ASSUME NEW S, NEW f, NEW g, NEW x \in S,
           f = [y \in S |-> f[y]], g = [y \in S |-> g[y]],
           \A y \in S \ {x} : g[y] = f[y]
    PROVE  g = [f EXCEPT ![x] = g[x]]
OBVIOUS

\* The mappings are functions, before and after a step.
LEMMA MappingsAreFunctions ==
    /\ StageOf = [n \in NoteId |-> StageOf[n]]
    /\ StageOf' = [n \in NoteId |-> StageOf'[n]]
    /\ TermsOf = [n \in NoteId |-> TermsOf[n]]
    /\ TermsOf' = [n \in NoteId |-> TermsOf'[n]]
    /\ BuyerOf = [n \in NoteId |-> BuyerOf[n]]
    /\ BuyerOf' = [n \in NoteId |-> BuyerOf'[n]]
    /\ PotOf = [a \in Account |-> PotOf[a]]
    /\ PotOf' = [a \in Account |-> PotOf'[a]]
BY DEF StageOf, TermsOf, BuyerOf, PotOf

\* The contract begins where the promise does.
LEMMA InitMaps == EscrowInit => Promise!Init
BY DEF EscrowInit, BondInit, ZeroBond, Promise!Init, Exists

\* A note opened is an offer.
LEMMA OpenMaps ==
    ASSUME EscrowTypeOK, NEW caller \in Account, NEW n \in NoteId,
           NEW seller \in Account, NEW face \in Amount, NEW score \in Score,
           NEW hash \in Hash,
           NoteOpened(caller, n, seller, face, score, hash)
    PROVE  Promise!Offer(n)
<1> DEFINE note == [seller |-> seller, investor |-> None, face |-> face,
                    score |-> score, hash |-> hash, status |-> "Open"]
<1>1. /\ caller = Owner /\ IsBonded(Owner) /\ notes[n] = None
      /\ notes' = [notes EXCEPT ![n] = note]
      /\ UNCHANGED <<bonds, defaulted, purse, wallet, paidOut>>
  BY DEF NoteOpened, OpenNote_Error, Exists, Ok
<1>2. note \in Note /\ note # None /\ face \in Nat
  BY DEF Note
<1>3. /\ \A m \in NoteId \ {n} : notes'[m] = notes[m]
      /\ notes'[n] = note
  BY <1>1 DEF EscrowTypeOK
<1>4. /\ StageOf[n] = "Absent"
      /\ StageOf' = [StageOf EXCEPT ![n] = "Open"]
  <2>1. /\ StageOf[n] = "Absent" /\ StageOf'[n] = "Open"
        /\ \A m \in NoteId \ {n} : StageOf'[m] = StageOf[m]
    BY <1>1, <1>2, <1>3 DEF StageOf, Exists
  <2>2. StageOf' = [StageOf EXCEPT ![n] = StageOf'[n]]
    BY <2>1, MappingsAreFunctions, PointUpdate
  <2>3. QED
    BY <2>1, <2>2
<1>5. /\ TermsOf'[n] = [seller |-> seller, face |-> face]
      /\ TermsOf' = [TermsOf EXCEPT ![n] = TermsOf'[n]]
  <2>1. /\ TermsOf'[n] = [seller |-> seller, face |-> face]
        /\ \A m \in NoteId \ {n} : TermsOf'[m] = TermsOf[m]
    BY <1>1, <1>2, <1>3 DEF TermsOf, Exists
  <2>2. QED
    BY <2>1, MappingsAreFunctions, PointUpdate
<1>6. BuyerOf' = BuyerOf
  BY <1>1, <1>2, <1>3 DEF BuyerOf, Exists
<1>7. PotOf' = PotOf /\ PotOf[Owner] >= MinBond
  BY <1>1 DEF PotOf, IsBonded
<1>8. QED
  BY <1>1, <1>2, <1>4, <1>5, <1>6, <1>7
     DEF Promise!Offer, StageOf, TermsOf, BuyerOf, PotOf

\* A note funded is a note financed.
LEMMA FundMaps ==
    ASSUME EscrowTypeOK, NEW caller \in Account, NEW n \in NoteId,
           NEW attached \in Amount, NoteFunded(caller, n, attached)
    PROVE  Promise!Finance(n, caller)
<1>1. /\ attached <= wallet[caller] /\ attached = notes[n].face
      /\ notes[n] # None /\ notes[n] \in Note /\ notes[n].status = "Open"
      /\ notes' = [notes EXCEPT ![n] = [@ EXCEPT !.investor = caller,
                                                 !.status = "Funded"]]
      /\ wallet' = Moved(caller, notes[n].seller, attached)
      /\ UNCHANGED <<bonds, defaulted, purse, paidOut>>
  BY DEF NoteFunded, FundNote_Error, Exists, Ok, EscrowTypeOK
<1>2. \A m \in NoteId \ {n} : notes'[m] = notes[m]
  BY <1>1 DEF EscrowTypeOK
<1>3. /\ notes'[n] \in Note /\ notes'[n] # None /\ notes'[n].status = "Funded"
      /\ notes'[n].investor = caller /\ notes'[n].seller = notes[n].seller
      /\ notes'[n].face = notes[n].face
  BY <1>1 DEF EscrowTypeOK, Note
<1>4. StageOf[n] = "Open" /\ StageOf' = [StageOf EXCEPT ![n] = "Funded"]
  <2>1. /\ StageOf[n] = "Open" /\ StageOf'[n] = "Funded"
        /\ \A m \in NoteId \ {n} : StageOf'[m] = StageOf[m]
    BY <1>1, <1>2, <1>3 DEF StageOf, Exists
  <2>2. StageOf' = [StageOf EXCEPT ![n] = StageOf'[n]]
    BY <2>1, MappingsAreFunctions, PointUpdate
  <2>3. QED
    BY <2>1, <2>2
<1>5. /\ TermsOf' = TermsOf /\ TermsOf[n].face = attached
      /\ TermsOf[n].seller = notes[n].seller
  BY <1>1, <1>2, <1>3 DEF TermsOf, Exists
<1>6. BuyerOf' = [BuyerOf EXCEPT ![n] = caller]
  <2>1. /\ BuyerOf'[n] = caller
        /\ \A m \in NoteId \ {n} : BuyerOf'[m] = BuyerOf[m]
    BY <1>1, <1>2, <1>3 DEF BuyerOf, Exists
  <2>2. BuyerOf' = [BuyerOf EXCEPT ![n] = BuyerOf'[n]]
    BY <2>1, MappingsAreFunctions, PointUpdate
  <2>3. QED
    BY <2>1, <2>2
<1>7. PotOf' = PotOf
  BY <1>1 DEF PotOf
<1>8. /\ wallet[caller] >= TermsOf[n].face
      /\ wallet' = [b \in Account |->
            wallet[b] - (IF b = caller THEN TermsOf[n].face ELSE 0)
              + (IF b = TermsOf[n].seller THEN TermsOf[n].face ELSE 0)]
  <2>1. attached \in Nat /\ wallet[caller] \in Nat
    BY DEF EscrowTypeOK
  <2>2. QED
    BY <1>1, <1>5, <2>1 DEF Moved
<1>9. QED
  BY <1>1, <1>4, <1>5, <1>6, <1>7, <1>8
     DEF Promise!Finance, StageOf, TermsOf, BuyerOf, PotOf

\* A note repaid is a note settled.
LEMMA RepayMaps ==
    ASSUME EscrowTypeOK, NEW caller \in Account, NEW n \in NoteId,
           NoteRepaid(caller, n)
    PROVE  Promise!Settle(n)
<1>1. /\ notes[n] # None /\ notes[n] \in Note /\ notes[n].status = "Funded"
      /\ notes' = [notes EXCEPT ![n].status = "Repaid"]
      /\ UNCHANGED <<bonds, defaulted, purse, wallet, paidOut>>
  BY DEF NoteRepaid, MarkRepaid_Error, Exists, Ok, EscrowTypeOK
<1>2. \A m \in NoteId \ {n} : notes'[m] = notes[m]
  BY <1>1 DEF EscrowTypeOK
<1>3. /\ notes'[n] \in Note /\ notes'[n] # None /\ notes'[n].status = "Repaid"
      /\ notes'[n].investor = notes[n].investor
      /\ notes'[n].seller = notes[n].seller /\ notes'[n].face = notes[n].face
  BY <1>1 DEF EscrowTypeOK, Note
<1>4. StageOf[n] = "Funded" /\ StageOf' = [StageOf EXCEPT ![n] = "Repaid"]
  <2>1. /\ StageOf[n] = "Funded" /\ StageOf'[n] = "Repaid"
        /\ \A m \in NoteId \ {n} : StageOf'[m] = StageOf[m]
    BY <1>1, <1>2, <1>3 DEF StageOf, Exists
  <2>2. StageOf' = [StageOf EXCEPT ![n] = StageOf'[n]]
    BY <2>1, MappingsAreFunctions, PointUpdate
  <2>3. QED
    BY <2>1, <2>2
<1>5. TermsOf' = TermsOf /\ BuyerOf' = BuyerOf
  BY <1>1, <1>2, <1>3 DEF TermsOf, BuyerOf, Exists
<1>6. PotOf' = PotOf
  BY <1>1 DEF PotOf
<1>7. QED
  BY <1>1, <1>4, <1>5, <1>6
     DEF Promise!Settle, StageOf, TermsOf, BuyerOf, PotOf

\* A note defaulted is a note written off.
LEMMA DefaultMaps ==
    ASSUME EscrowTypeOK, NEW caller \in Account, NEW n \in NoteId,
           NoteDefaulted(caller, n)
    PROVE  Promise!WriteOff(n)
<1> DEFINE paid == Payout(Owner, notes[n].face)
<1>1. /\ notes[n] # None /\ notes[n] \in Note /\ notes[n].status = "Funded"
      /\ bonds[Owner].amount # 0
      /\ notes' = [notes EXCEPT ![n].status = "Defaulted"]
      /\ Slash(n, Owner, notes[n].face)
      /\ wallet' = [wallet EXCEPT ![notes[n].investor] = @ + paid]
      /\ paidOut' = [paidOut EXCEPT ![n] = paid]
  BY DEF NoteDefaulted, DeclareDefault_Error, Slash_Error, Paid, Exists, Ok,
         EscrowTypeOK
<1>2. \A m \in NoteId \ {n} : notes'[m] = notes[m]
  BY <1>1 DEF EscrowTypeOK
<1>3. /\ notes'[n] \in Note /\ notes'[n] # None
      /\ notes'[n].status = "Defaulted"
      /\ notes'[n].investor = notes[n].investor
      /\ notes'[n].seller = notes[n].seller /\ notes'[n].face = notes[n].face
  BY <1>1 DEF EscrowTypeOK, Note
<1>4. StageOf[n] = "Funded" /\ StageOf' = [StageOf EXCEPT ![n] = "Defaulted"]
  <2>1. /\ StageOf[n] = "Funded" /\ StageOf'[n] = "Defaulted"
        /\ \A m \in NoteId \ {n} : StageOf'[m] = StageOf[m]
    BY <1>1, <1>2, <1>3 DEF StageOf, Exists
  <2>2. StageOf' = [StageOf EXCEPT ![n] = StageOf'[n]]
    BY <2>1, MappingsAreFunctions, PointUpdate
  <2>3. QED
    BY <2>1, <2>2
<1>5. /\ TermsOf' = TermsOf /\ TermsOf[n].face = notes[n].face
      /\ BuyerOf' = BuyerOf /\ BuyerOf[n] = notes[n].investor
  BY <1>1, <1>2, <1>3 DEF TermsOf, BuyerOf, Exists
<1>6. bonds[Owner].amount \in Nat /\ notes[n].face \in Nat
  BY <1>1 DEF EscrowTypeOK, BondTypeOK, Bond, Note
<1>7. /\ paid \in 0..PotOf[Owner] /\ PotOf[Owner] > 0
      /\ paid = TermsOf[n].face
           \/ (paid < TermsOf[n].face /\ paid = PotOf[Owner])
  BY <1>1, <1>5, <1>6 DEF Payout, PotOf
<1>8. PotOf' = [PotOf EXCEPT ![Owner] = @ - paid]
  BY <1>1 DEF Slash, PotOf, EscrowTypeOK, BondTypeOK
<1>9. QED
  <2> HIDE DEF paid
  <2>1. \E x \in 0..PotOf[Owner] :
          /\ x = TermsOf[n].face \/ (x < TermsOf[n].face /\ x = PotOf[Owner])
          /\ PotOf' = [PotOf EXCEPT ![Owner] = @ - x]
          /\ wallet' = [wallet EXCEPT ![BuyerOf[n]] = @ + x]
          /\ paidOut' = [paidOut EXCEPT ![n] = x]
    BY <1>1, <1>5, <1>7, <1>8
  <2>2. QED
    BY <2>1, <1>4, <1>5, <1>7
       DEF Promise!WriteOff, StageOf, TermsOf, BuyerOf, PotOf

\* A bond posted is a stake.
LEMMA PostMaps ==
    ASSUME EscrowTypeOK, NEW caller \in Account, NEW attached \in Amount,
           BondPosted(caller, attached)
    PROVE  Promise!Stake(caller)
<1>1. /\ attached <= wallet[caller] /\ attached # 0
      /\ PostBond(caller, attached)
      /\ wallet' = [wallet EXCEPT ![caller] = @ - attached]
      /\ UNCHANGED <<notes, paidOut>>
  BY DEF BondPosted, PostBond_Error, Ok
<1>2. attached \in 1..wallet[caller]
  BY <1>1 DEF EscrowTypeOK
<1>3. PotOf' = [PotOf EXCEPT ![caller] = @ + attached]
  <2>1. /\ PotOf'[caller] = PotOf[caller] + attached
        /\ \A a \in Account \ {caller} : PotOf'[a] = PotOf[a]
    BY <1>1 DEF PostBond, PotOf, EscrowTypeOK, BondTypeOK, Bond
  <2>2. PotOf' = [PotOf EXCEPT ![caller] = PotOf'[caller]]
    BY <2>1, MappingsAreFunctions, PointUpdate
  <2>3. QED
    BY <2>1, <2>2
<1>4. StageOf' = StageOf /\ TermsOf' = TermsOf /\ BuyerOf' = BuyerOf
  BY <1>1 DEF StageOf, TermsOf, BuyerOf, Exists
<1>5. QED
  BY <1>1, <1>2, <1>3, <1>4 DEF Promise!Stake, StageOf, TermsOf, BuyerOf, PotOf

\* A withdrawal of nothing commits, and changes nothing.
LEMMA WithdrawMaps ==
    ASSUME EscrowTypeOK, NEW caller \in Account, NEW amount \in Amount,
           BondWithdrawn(caller, amount)
    PROVE  Promise!Unstake(caller) \/ UNCHANGED Promise!vars
<1>1. /\ amount <= bonds[caller].amount
      /\ Withdraw(caller, amount)
      /\ wallet' = [wallet EXCEPT ![caller] = @ + amount]
      /\ UNCHANGED <<notes, paidOut>>
  BY DEF BondWithdrawn, WithdrawBond_Error, Withdraw_Error, Paid, Ok,
         EscrowTypeOK, BondTypeOK, Bond
<1>2. PotOf' = [PotOf EXCEPT ![caller] = @ - amount]
  <2>1. /\ PotOf'[caller] = PotOf[caller] - amount
        /\ \A a \in Account \ {caller} : PotOf'[a] = PotOf[a]
    BY <1>1 DEF Withdraw, PotOf, EscrowTypeOK, BondTypeOK, Bond
  <2>2. PotOf' = [PotOf EXCEPT ![caller] = PotOf'[caller]]
    BY <2>1, MappingsAreFunctions, PointUpdate
  <2>3. QED
    BY <2>1, <2>2
<1>3. StageOf' = StageOf /\ TermsOf' = TermsOf /\ BuyerOf' = BuyerOf
  BY <1>1 DEF StageOf, TermsOf, BuyerOf, Exists
<1>4. PotOf \in [Account -> Nat]
  BY DEF PotOf, EscrowTypeOK, BondTypeOK, Bond
<1>5. CASE amount = 0
  <2>1. PotOf' = PotOf
    BY <1>2, <1>4, <1>5
  <2>2. wallet' = wallet
    BY <1>1, <1>5 DEF EscrowTypeOK
  <2>3. QED
    BY <1>1, <1>3, <2>1, <2>2 DEF Promise!vars, StageOf, TermsOf, BuyerOf, PotOf
<1>6. CASE amount # 0
  <2>1. amount \in 1..PotOf[caller]
    BY <1>1, <1>4, <1>6 DEF PotOf
  <2>2. QED
    BY <1>1, <1>2, <1>3, <2>1
       DEF Promise!Unstake, StageOf, TermsOf, BuyerOf, PotOf
<1>7. QED
  BY <1>5, <1>6

\* The contract keeps every promise of CollateralisedNotes, for every set of
\* accounts, notes and endowments (all entry points).
THEOREM ContractKeepsThePromise == EscrowSpec => KeepsThePromise
<1>1. EscrowTypeOK /\ [EscrowNext]_escrowVars => [Promise!Next]_(Promise!vars)
  <2> SUFFICES ASSUME EscrowTypeOK, [EscrowNext]_escrowVars
               PROVE  Promise!Next \/ UNCHANGED Promise!vars
    OBVIOUS
  <2>0. CASE UNCHANGED escrowVars
    BY <2>0 DEF escrowVars, Promise!vars, Exists
  <2>1. CASE \E caller \in Account, n \in NoteId, seller \in Account,
                face \in Amount, score \in Score, hash \in Hash :
                NoteOpened(caller, n, seller, face, score, hash)
    BY <2>1, OpenMaps DEF Promise!Next
  <2>2. CASE \E caller \in Account, n \in NoteId, attached \in Amount :
                NoteFunded(caller, n, attached)
    BY <2>2, FundMaps DEF Promise!Next
  <2>3. CASE \E caller \in Account, n \in NoteId : NoteRepaid(caller, n)
    BY <2>3, RepayMaps DEF Promise!Next
  <2>4. CASE \E caller \in Account, attached \in Amount :
                BondPosted(caller, attached)
    BY <2>4, PostMaps DEF Promise!Next
  <2>5. CASE \E caller \in Account, amount \in Amount :
                BondWithdrawn(caller, amount)
    BY <2>5, WithdrawMaps DEF Promise!Next
  <2>6. CASE \E caller \in Account, n \in NoteId : NoteDefaulted(caller, n)
    BY <2>6, DefaultMaps DEF Promise!Next
  <2>7. QED
    BY StepCases, <2>0, <2>1, <2>2, <2>3, <2>4, <2>5, <2>6
<1>2. QED
  BY <1>1, InitMaps, TypeCorrect, PTL
     DEF EscrowSpec, KeepsThePromise, Promise!Spec
=============================================================================
