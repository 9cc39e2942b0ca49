------------------------------ MODULE LoopProofs ------------------------------
(***************************************************************************)
(* Theorems about AgentLoop, for every number of steps and of calls a       *)
(* message.                                                                 *)
(***************************************************************************)
EXTENDS AgentLoop, FiniteSetTheorems, SequenceTheorems, TLAPS

(* The evidence of a trace, counted.                                        *)

IsEvidence(entry) == entry.named /\ entry.kind \in {"tool_result", "error"}

Evidence(t) == {i \in DOMAIN t : IsEvidence(t[i])}

\* The evidence of a trace is a finite set.
LEMMA EvidenceFinite ==
    ASSUME NEW S, NEW t \in Seq(S)
    PROVE  IsFiniteSet(Evidence(t))
<1>1. IsFiniteSet(1..Len(t))
  BY FS_Interval
<1>2. Evidence(t) \in SUBSET (1..Len(t))
  BY DEF Evidence
<1>3. QED
  BY <1>1, <1>2, FS_Subset

\* One more entry is one more piece of evidence or none.
LEMMA EvidenceGrows ==
    ASSUME NEW S, NEW t \in Seq(S), NEW e
    PROVE  Cardinality(Evidence(t \o <<e>>)) =
               Cardinality(Evidence(t)) + (IF IsEvidence(e) THEN 1 ELSE 0)
<1> DEFINE u == t \o <<e>>
<1>1. /\ DOMAIN u = 1..Len(t) + 1
      /\ u[Len(t) + 1] = e
      /\ \A i \in 1..Len(t) : u[i] = t[i]
  OBVIOUS
<1>2. DOMAIN t = 1..Len(t) /\ Len(t) \in Nat
  OBVIOUS
<1> HIDE DEF u
<1>3. Evidence(u) = IF IsEvidence(e) THEN Evidence(t) \cup {Len(t) + 1} ELSE Evidence(t)
  <2> DEFINE ev(x) == IsEvidence(x)
  <2> SUFFICES {i \in DOMAIN u : ev(u[i])} =
                 IF ev(e) THEN {i \in DOMAIN t : ev(t[i])} \cup {Len(t) + 1}
                 ELSE {i \in DOMAIN t : ev(t[i])}
    BY DEF Evidence
  <2> HIDE DEF ev
  <2> QED
    BY <1>1, <1>2
<1>4. Len(t) + 1 \notin Evidence(t)
  BY <1>2 DEF Evidence
<1>5. IsFiniteSet(Evidence(t)) /\ Cardinality(Evidence(t)) \in Nat
  BY EvidenceFinite, FS_CardinalityType
<1>6. Cardinality(Evidence(t) \cup {Len(t) + 1}) = Cardinality(Evidence(t)) + 1
  BY <1>4, <1>5, FS_AddElement
<1>7. QED
  BY <1>3, <1>5, <1>6 DEF u

-----------------------------------------------------------------------------
(* The inductive invariant.                                                 *)

\* The requests sent are the steps begun; calls wait while calls are performed.
Paced ==
    /\ pc = "asking" => trips = step - 1
    /\ pc = "calling" => trips = step
    /\ pc = "closing" => trips <= MaxSteps
    /\ trips <= MaxSteps + 1
    /\ pc = "calling" <=> queue # <<>>

\* What was asked is answered or waits, each call once, and only the steps so
\* far asked anything.
Accounted ==
    /\ IsFiniteSet(asked)
    /\ asked = Answered \cup {queue[i] : i \in DOMAIN queue}
    /\ Len(answers) + Len(queue) = Cardinality(asked)
    /\ \A c \in asked : c[1] <= step /\ (pc = "asking" => c[1] < step)

\* Every call performed is counted, answered and in evidence.
Counted ==
    /\ toolCalls = Len(answers)
    /\ toolCalls = Cardinality(Evidence(trace))
    /\ pc = "returned" /\ ~reply.exhausted => trace[Len(trace)].kind = "final"

LoopInductive == TypeOK /\ Paced /\ Accounted /\ Counted

-----------------------------------------------------------------------------
(* The steps, one by one.                                                   *)

USE LoopAssumption

\* Two entries, one after the other.
LEMMA TwoEntries ==
    ASSUME NEW t \in Seq(TraceEntry), NEW d \in TraceEntry, NEW e \in TraceEntry
    PROVE  t \o <<d, e>> = (t \o <<d>>) \o <<e>>
<1> DEFINE u == t \o <<d, e>>
           v == (t \o <<d>>) \o <<e>>
<1>0. <<d, e>> \in Seq(TraceEntry) /\ <<d>> \in Seq(TraceEntry) /\ <<e>> \in Seq(TraceEntry)
  OBVIOUS
<1>1. u \in Seq(TraceEntry) /\ v \in Seq(TraceEntry)
  OBVIOUS
<1>2. Len(u) = Len(t) + 2 /\ Len(v) = Len(t) + 2 /\ Len(t) \in Nat
  OBVIOUS
<1>3. u[Len(t) + 1] = d /\ u[Len(t) + 2] = e
  OBVIOUS
<1>4. v[Len(t) + 1] = d /\ v[Len(t) + 2] = e
  OBVIOUS
<1>5. \A i \in 1..Len(t) : u[i] = t[i] /\ v[i] = t[i]
  OBVIOUS
<1> HIDE DEF u, v
<1>6. \A i \in 1..Len(u) : u[i] = v[i]
  BY <1>2, <1>3, <1>4, <1>5
<1>7. u = v
  BY <1>1, <1>2, <1>6, SeqEqual
<1>8. QED
  BY <1>7 DEF u, v

\* The entries the loop pushes are entries of a trace.
LEMMA EntriesTyped ==
    ASSUME step \in 1..MaxSteps
    PROVE  /\ \A kind \in {"thought", "tool_call", "tool_result", "final", "error"},
                 named \in BOOLEAN : Entry(kind, named) \in TraceEntry
           /\ ExhaustedEntry \in TraceEntry
           /\ MemoEntry("final") \in TraceEntry
<1>1. \A kind \in {"thought", "tool_call", "tool_result", "final", "error"},
         named \in BOOLEAN : Entry(kind, named) \in TraceEntry
  BY DEF Entry, TraceEntry
<1>2. ExhaustedEntry \in TraceEntry
  BY DEF ExhaustedEntry, MemoEntry, TraceEntry
<1>3. MemoEntry("final") \in TraceEntry
  BY DEF MemoEntry, TraceEntry
<1>4. QED
  BY <1>1, <1>2, <1>3

\* No text and no memo is evidence of a call; an error naming a tool is, and so
\* is a result.
LEMMA EntriesCounted ==
    /\ \A kind : ~IsEvidence(Entry(kind, FALSE))
    /\ ~IsEvidence(Entry("tool_call", TRUE))
    /\ IsEvidence(Entry("error", TRUE))
    /\ IsEvidence(Entry("tool_result", TRUE))
    /\ ~IsEvidence(ExhaustedEntry)
    /\ ~IsEvidence(MemoEntry("final"))
BY DEF IsEvidence, Entry, ExhaustedEntry, MemoEntry

\* One entry, and what it does to a trace.
LEMMA Pushed ==
    ASSUME NEW t \in Seq(TraceEntry), NEW e \in TraceEntry
    PROVE  /\ t \o <<e>> \in Seq(TraceEntry)
           /\ Len(t \o <<e>>) = Len(t) + 1
           /\ (t \o <<e>>)[Len(t) + 1] = e
           /\ ~IsEvidence(e) => Cardinality(Evidence(t \o <<e>>)) = Cardinality(Evidence(t))
           /\ IsEvidence(e) =>
                  Cardinality(Evidence(t \o <<e>>)) = Cardinality(Evidence(t)) + 1
<1>1. /\ t \o <<e>> \in Seq(TraceEntry)
      /\ Len(t \o <<e>>) = Len(t) + 1
      /\ (t \o <<e>>)[Len(t) + 1] = e
  OBVIOUS
<1>2. Cardinality(Evidence(t \o <<e>>)) =
          Cardinality(Evidence(t)) + (IF IsEvidence(e) THEN 1 ELSE 0)
  BY EvidenceGrows, Zenon
<1>3. Cardinality(Evidence(t)) \in Nat
  BY EvidenceFinite, FS_CardinalityType, Zenon
<1>4. QED
  BY <1>1, <1>2, <1>3

\* The thought before an answer or a request is no evidence.
LEMMA ThoughtPushed ==
    ASSUME step \in 1..MaxSteps, trace \in Seq(TraceEntry), NEW hasText \in BOOLEAN
    PROVE  /\ trace \o Thought(hasText) \in Seq(TraceEntry)
           /\ Cardinality(Evidence(trace \o Thought(hasText))) = Cardinality(Evidence(trace))
<1>1. CASE hasText
  <2>1. Entry("thought", FALSE) \in TraceEntry
    BY EntriesTyped
  <2>2. trace \o Thought(hasText) = trace \o <<Entry("thought", FALSE)>>
    BY <1>1 DEF Thought
  <2>3. QED
    BY <2>1, <2>2, Pushed, EntriesCounted
<1>2. CASE ~hasText
  <2>1. trace \o Thought(hasText) = trace
    BY <1>2 DEF Thought
  <2>2. QED
    BY <2>1, Zenon
<1>3. QED
  BY <1>1, <1>2

\* The loop starts with the invariant.
LEMMA LoopStarts == Init => LoopInductive
<1> SUFFICES ASSUME Init PROVE LoopInductive
  OBVIOUS
<1>1. TypeOK
  <2>1. <<>> \in Seq((1..MaxSteps) \X (1..MaxCalls)) /\ <<>> \in Seq(TraceEntry)
    OBVIOUS
  <2>2. QED
    BY <2>1 DEF Init, TypeOK, NoReply
<1>2. Paced
  BY DEF Init, Paced
<1>3. Accounted
  BY FS_EmptySet DEF Init, Accounted, Answered
<1>4. Counted
  <2>1. Evidence(<<>>) = {}
    BY DEF Evidence
  <2>2. QED
    BY <2>1, FS_EmptySet DEF Init, Counted
<1>5. QED
  BY <1>1, <1>2, <1>3, <1>4 DEF LoopInductive

\* A request without calls: the run throws, goes on to the memo or returns.
LEMMA NoCallsKeeps ==
    ASSUME LoopInductive,
           ModelThrows \/ ModelSendsNothing \/ (\E hasText \in BOOLEAN : ModelAnswers(hasText))
    PROVE  LoopInductive'
<1> USE DEF LoopInductive
<1>0. /\ trace \in Seq(TraceEntry) /\ step \in 1..MaxSteps /\ trips \in Nat
      /\ Entry("error", FALSE) \in TraceEntry /\ Entry("final", FALSE) \in TraceEntry
      /\ ExhaustedEntry \in TraceEntry
  <2>1. trace \in Seq(TraceEntry) /\ step \in 1..MaxSteps /\ trips \in Nat
    BY DEF TypeOK
  <2>2. QED
    BY <2>1, EntriesTyped
<1>1. /\ pc = "asking" /\ trips' = trips + 1 /\ pc' \in {"threw", "closing", "returned"}
      /\ UNCHANGED <<step, queue, asked, answers, toolCalls>>
  BY DEF ModelThrows, ModelSendsNothing, ModelAnswers
<1>2. /\ trace' \in Seq(TraceEntry)
      /\ Cardinality(Evidence(trace')) = Cardinality(Evidence(trace))
      /\ pc' = "returned" => trace'[Len(trace')].kind = "final"
      /\ reply' \in [steps : 0..MaxSteps, exhausted : BOOLEAN, hasText : BOOLEAN]
  <2>1. CASE ModelThrows
    BY <2>1 DEF ModelThrows, TypeOK
  <2>2. CASE ModelSendsNothing
    <3> DEFINE t == trace \o <<Entry("error", FALSE)>>
    <3>1. trace' = t \o <<ExhaustedEntry>> /\ pc' = "closing" /\ reply' = reply
      <4>1. trace \o <<Entry("error", FALSE), ExhaustedEntry>> = t \o <<ExhaustedEntry>>
        BY <1>0, TwoEntries
      <4> HIDE DEF t
      <4>2. QED
        BY <2>2, <4>1 DEF ModelSendsNothing
    <3>2. t \in Seq(TraceEntry) /\ Cardinality(Evidence(t)) = Cardinality(Evidence(trace))
      BY <1>0, Pushed, EntriesCounted
    <3> HIDE DEF t
    <3>3. QED
      BY <3>1, <3>2, <1>0, Pushed, EntriesCounted DEF TypeOK
  <2>3. CASE \E hasText \in BOOLEAN : ModelAnswers(hasText)
    <3>1. PICK hasText \in BOOLEAN : ModelAnswers(hasText)
      BY <2>3
    <3> DEFINE t == trace \o Thought(hasText)
    <3>2. trace' = t \o <<Entry("final", FALSE)>>
      BY <3>1 DEF ModelAnswers
    <3>3. t \in Seq(TraceEntry) /\ Cardinality(Evidence(t)) = Cardinality(Evidence(trace))
      BY <1>0, ThoughtPushed
    <3>4. Entry("final", FALSE).kind = "final"
      BY DEF Entry
    <3>5. reply' \in [steps : 0..MaxSteps, exhausted : BOOLEAN, hasText : BOOLEAN]
      BY <3>1, <1>0 DEF ModelAnswers
    <3> HIDE DEF t
    <3>6. /\ trace' \in Seq(TraceEntry)
          /\ Len(trace') = Len(t) + 1 /\ trace'[Len(t) + 1] = Entry("final", FALSE)
          /\ Cardinality(Evidence(trace')) = Cardinality(Evidence(t))
      BY <3>2, <3>3, <1>0, Pushed, EntriesCounted
    <3>7. QED
      BY <3>3, <3>4, <3>5, <3>6
  <2>4. QED
    BY <2>1, <2>2, <2>3
<1>3. TypeOK'
  BY <1>0, <1>1, <1>2 DEF TypeOK
<1>4. Paced'
  BY <1>0, <1>1 DEF Paced
<1>5. Accounted'
  BY <1>0, <1>1 DEF Accounted, Answered
<1>6. Counted'
  BY <1>1, <1>2 DEF Counted
<1>7. QED
  BY <1>3, <1>4, <1>5, <1>6

\* A message with tool calls: as many as it brings are asked for and wait.
LEMMA RequestsKeeps ==
    ASSUME LoopInductive, NEW hasText \in BOOLEAN, NEW n \in 1..MaxCalls,
           ModelRequests(hasText, n)
    PROVE  LoopInductive'
<1> USE DEF LoopInductive
<1> DEFINE calls == [i \in 1..n |-> <<step, i>>]
           new   == {calls[i] : i \in 1..n}
<1>0. /\ trace \in Seq(TraceEntry) /\ step \in 1..MaxSteps /\ trips \in Nat
      /\ pc = "asking" /\ trips' = trips + 1 /\ pc' = "calling"
      /\ queue' = calls /\ asked' = asked \cup new /\ trace' = trace \o Thought(hasText)
      /\ UNCHANGED <<step, answers, toolCalls, reply>>
  BY DEF ModelRequests, TypeOK
<1>1. /\ trace' \in Seq(TraceEntry)
      /\ Cardinality(Evidence(trace')) = Cardinality(Evidence(trace))
  BY <1>0, ThoughtPushed
<1>2. calls \in Seq((1..MaxSteps) \X (1..MaxCalls)) /\ Len(calls) = n /\ DOMAIN calls = 1..n
  <2>1. n \in Nat
    OBVIOUS
  <2>2. calls \in [1..n -> (1..MaxSteps) \X (1..MaxCalls)]
    BY <1>0
  <2>3. DOMAIN calls = 1..n
    OBVIOUS
  <2> DEFINE Pair == (1..MaxSteps) \X (1..MaxCalls)
  <2>4. calls \in [1..n -> Pair]
    BY <2>2
  <2> HIDE DEF calls, Pair
  <2>5. calls \in Seq(Pair) /\ Len(calls) = n
    BY <2>1, <2>4, <2>3
  <2>6. QED
    BY <2>3, <2>5 DEF Pair
<1>3. new = {<<step, i>> : i \in 1..n}
  OBVIOUS
<1>4. IsFiniteSet(new) /\ Cardinality(new) = n
  <2> DEFINE f == [i \in 1..n |-> <<step, i>>]
  <2>1. f \in Bijection(1..n, new)
    BY <1>3 DEF Bijection, Injection, Surjection, IsInjective
  <2>2. IsFiniteSet(1..n) /\ Cardinality(1..n) = n
    BY FS_Interval
  <2>3. ExistsBijection(1..n, new)
    BY <2>1 DEF ExistsBijection
  <2> HIDE DEF new
  <2>4. QED
    BY <2>2, <2>3, FS_Bijection
<1>5. asked \cap new = {}
  BY <1>0, <1>3 DEF Accounted
<1>6. queue = <<>> /\ Len(answers) = Cardinality(asked) /\ IsFiniteSet(asked)
  <2>1. queue = <<>>
    BY <1>0 DEF Paced
  <2>2. Len(answers) \in Nat
    BY DEF TypeOK
  <2>3. QED
    BY <2>1, <2>2 DEF Accounted
<1>7. TypeOK'
  <2>1. new \subseteq (1..MaxSteps) \X (1..MaxCalls)
    BY <1>0, <1>3
  <2> HIDE DEF calls, new
  <2>2. QED
    BY <1>0, <1>1, <1>2, <2>1 DEF TypeOK
<1>8. Paced'
  <2>1. calls # <<>>
    BY <1>2
  <2> HIDE DEF calls, new
  <2>2. QED
    BY <1>0, <2>1 DEF Paced
<1>9. Accounted'
  <2>1. IsFiniteSet(asked \cup new) /\ Cardinality(asked \cup new) = Cardinality(asked) + n
    <3> HIDE DEF new
    <3>1. Cardinality(asked \cap new) = 0
      BY <1>5, FS_EmptySet
    <3>2. IsFiniteSet(asked \cup new) /\ Cardinality(asked \cup new) =
             Cardinality(asked) + Cardinality(new) - Cardinality(asked \cap new)
      BY <1>4, <1>6, FS_Union
    <3>3. Cardinality(asked) \in Nat
      BY <1>6, FS_CardinalityType
    <3>4. QED
      BY <1>4, <3>1, <3>2, <3>3
  <2>2. \A c \in asked \cup new : c[1] <= step
    BY <1>0, <1>3 DEF Accounted
  <2>3. new = {calls[i] : i \in DOMAIN calls}
    BY <1>2
  <2>4. asked = Answered
    BY <1>6 DEF Accounted
  <2>5. Answered' = Answered
    BY <1>0 DEF Answered
  <2> HIDE DEF calls, new
  <2>6. QED
    BY <1>0, <1>2, <1>6, <2>1, <2>2, <2>3, <2>4, <2>5 DEF Accounted
<1>10. Counted'
  BY <1>0, <1>1 DEF Counted
<1>11. QED
  BY <1>7, <1>8, <1>9, <1>10

\* The closing memo, or its failure.
LEMMA CloseKeeps ==
    ASSUME LoopInductive, NEW hasText \in BOOLEAN, NEW fails \in BOOLEAN, Close(hasText, fails)
    PROVE  LoopInductive'
<1> USE DEF LoopInductive
<1>0. /\ trace \in Seq(TraceEntry) /\ step \in 1..MaxSteps /\ trips \in Nat
      /\ pc = "closing" /\ trips' = trips + 1 /\ pc' = "returned"
      /\ UNCHANGED <<step, queue, asked, answers, toolCalls>>
      /\ reply' = [steps |-> MaxSteps, exhausted |-> TRUE, hasText |-> hasText]
  BY DEF Close, TypeOK
<1>1. /\ ExhaustedEntry \in TraceEntry
      /\ MemoEntry("final") \in TraceEntry
  BY <1>0, EntriesTyped
<1>2. /\ trace' \in Seq(TraceEntry)
      /\ Cardinality(Evidence(trace')) = Cardinality(Evidence(trace))
  <2>1. CASE fails
    <3>1. trace' = trace \o <<ExhaustedEntry>>
      BY <2>1 DEF Close
    <3>2. QED
      BY <3>1, <1>0, <1>1, Pushed, EntriesCounted
  <2>2. CASE ~fails /\ hasText
    <3>1. trace' = trace \o <<MemoEntry("final")>>
      BY <2>2 DEF Close
    <3>2. QED
      BY <3>1, <1>0, <1>1, Pushed, EntriesCounted
  <2>3. CASE ~fails /\ ~hasText
    <3>1. trace' = trace \o <<>>
      BY <2>3 DEF Close
    <3>2. trace \o <<>> = trace
      BY <1>0
    <3>3. QED
      BY <3>1, <3>2, <1>0
  <2>4. QED
    BY <2>1, <2>2, <2>3
<1>3. reply' \in [steps : 0..MaxSteps, exhausted : BOOLEAN, hasText : BOOLEAN] /\ reply'.exhausted
  BY <1>0
<1>4. TypeOK'
  BY <1>0, <1>2, <1>3 DEF TypeOK
<1>5. Paced'
  BY <1>0 DEF Paced
<1>6. Accounted'
  BY <1>0 DEF Accounted, Answered
<1>7. Counted'
  BY <1>0, <1>2, <1>3 DEF Counted
<1>8. QED
  BY <1>4, <1>5, <1>6, <1>7

\* A call performed: it leaves the queue, is answered, and left one piece of
\* evidence.
LEMMA PerformKeeps ==
    ASSUME LoopInductive, NEW entries \in Seq(TraceEntry), Perform(entries),
           Cardinality(Evidence(trace \o entries)) = Cardinality(Evidence(trace)) + 1
    PROVE  LoopInductive'
<1> USE DEF LoopInductive
<1> DEFINE Calls == (1..MaxSteps) \X (1..MaxCalls)
<1>0. /\ trace \in Seq(TraceEntry) /\ step \in 1..MaxSteps /\ trips \in Nat
      /\ queue \in Seq(Calls) /\ answers \in Seq(Calls) /\ toolCalls \in Nat
  BY DEF TypeOK
<1>1. /\ pc = "calling" /\ toolCalls' = toolCalls + 1
      /\ queue' = Tail(queue) /\ answers' = Append(answers, Head(queue))
      /\ UNCHANGED <<trips, asked, reply>>
  BY DEF Perform, Performed
<1>2. /\ pc' \in {"calling", "asking", "closing"}
      /\ pc' = "calling" <=> Len(queue) > 1
      /\ pc' = "asking" => step' = step + 1 /\ step < MaxSteps
      /\ pc' # "asking" => step' = step
  <2>1. queue # <<>>
    BY <1>1 DEF Paced
  <2>2. Len(queue) \in Nat \ {0}
    BY <1>0, <2>1
  <2>3. \/ Len(queue) > 1 /\ pc' = "calling" /\ step' = step
        \/ Len(queue) = 1 /\ step < MaxSteps /\ pc' = "asking" /\ step' = step + 1
        \/ Len(queue) = 1 /\ pc' = "closing" /\ step' = step
    BY DEF Perform
  <2> HIDE DEF LoopInductive
  <2>4. CASE Len(queue) > 1 /\ pc' = "calling" /\ step' = step
    BY <2>4, Zenon
  <2>5. CASE Len(queue) = 1 /\ step < MaxSteps /\ pc' = "asking" /\ step' = step + 1
    <3>1. ~(Len(queue) > 1)
      BY <2>5
    <3>2. QED
      BY <2>5, <3>1, Zenon
  <2>6. CASE Len(queue) = 1 /\ pc' = "closing" /\ step' = step
    <3>1. ~(Len(queue) > 1)
      BY <2>6
    <3>2. QED
      BY <2>6, <3>1, Zenon
  <2>7. QED
    BY <2>3, <2>4, <2>5, <2>6
<1>3. /\ trace' \in Seq(TraceEntry)
      /\ Cardinality(Evidence(trace')) = Cardinality(Evidence(trace)) + 1
  <2>1. CASE trace' = trace \o entries
    BY <2>1, <1>0
  <2>2. CASE trace' = trace \o entries \o <<ExhaustedEntry>>
    <3>1. trace \o entries \in Seq(TraceEntry) /\ ExhaustedEntry \in TraceEntry
      BY <1>0, EntriesTyped
    <3>2. QED
      BY <2>2, <3>1, Pushed, EntriesCounted
  <2>3. QED
    BY <2>1, <2>2 DEF Perform
<1>4. queue # <<>> /\ Len(queue) \in Nat \ {0}
  <2>1. queue # <<>>
    BY <1>1 DEF Paced
  <2>2. QED
    BY <1>0, <2>1
<1>5. /\ Head(queue) \in Calls /\ Head(queue) = queue[1]
      /\ queue' \in Seq(Calls) /\ Len(queue') = Len(queue) - 1
      /\ \A i \in 1..Len(queue) - 1 : queue'[i] = queue[i + 1]
  BY <1>0, <1>1, <1>4
<1>6. /\ answers' \in Seq(Calls) /\ Len(answers') = Len(answers) + 1
      /\ answers'[Len(answers) + 1] = Head(queue)
      /\ \A i \in 1..Len(answers) : answers'[i] = answers[i]
  BY <1>0, <1>1, <1>5
<1>7. /\ DOMAIN queue = 1..Len(queue) /\ DOMAIN queue' = 1..Len(queue) - 1
      /\ DOMAIN answers = 1..Len(answers) /\ DOMAIN answers' = 1..Len(answers) + 1
      /\ Len(answers) \in Nat
  <2> HIDE DEF Calls, LoopInductive
  <2>1. DOMAIN queue = 1..Len(queue)
    BY <1>0
  <2>2. DOMAIN queue' = 1..Len(queue) - 1
    BY <1>5
  <2>3. DOMAIN answers = 1..Len(answers) /\ Len(answers) \in Nat
    BY <1>0
  <2>4. DOMAIN answers' = 1..Len(answers) + 1
    BY <1>6
  <2>5. QED
    BY <2>1, <2>2, <2>3, <2>4
<1> HIDE DEF Calls
<1>8. TypeOK'
  <2>1. asked' \subseteq Calls
    BY <1>1 DEF TypeOK, Calls
  <2>2. step' \in 1..MaxSteps /\ trips' \in Nat /\ toolCalls' \in Nat
    BY <1>0, <1>1, <1>2
  <2>3. reply' \in [steps : 0..MaxSteps, exhausted : BOOLEAN, hasText : BOOLEAN]
    BY <1>1 DEF TypeOK
  <2>4. pc' \in {"asking", "calling", "closing", "returned", "threw"}
    BY <1>2
  <2>5. QED
    BY <1>3, <1>5, <1>6, <2>1, <2>2, <2>3, <2>4 DEF TypeOK, Calls
<1>9. Paced'
  <2>1. queue' # <<>> <=> Len(queue) > 1
    BY <1>4, <1>5
  <2>2. QED
    BY <1>0, <1>1, <1>2, <2>1 DEF Paced
<1>10. Accounted'
  <2>1. Answered' = Answered \cup {Head(queue)}
    <3> HIDE DEF LoopInductive
    <3>1. \A i \in DOMAIN answers : i \in DOMAIN answers' /\ answers'[i] = answers[i]
      BY <1>6, <1>7
    <3>2. /\ Len(answers) + 1 \in DOMAIN answers'
          /\ answers'[Len(answers) + 1] = Head(queue)
      BY <1>6, <1>7
    <3>3. \A i \in DOMAIN answers' : i = Len(answers) + 1 \/ i \in DOMAIN answers
      BY <1>7
    <3>4. QED
      BY <3>1, <3>2, <3>3 DEF Answered
  <2>2. {queue[i] : i \in DOMAIN queue} = {Head(queue)} \cup {queue'[i] : i \in DOMAIN queue'}
    <3>1. ASSUME NEW i \in DOMAIN queue, i # 1
          PROVE  i - 1 \in DOMAIN queue' /\ queue[i] = queue'[i - 1]
      BY <3>1, <1>4, <1>5, <1>7
    <3>2. ASSUME NEW i \in DOMAIN queue'
          PROVE  i + 1 \in DOMAIN queue /\ queue[i + 1] = queue'[i]
      BY <1>4, <1>5, <1>7
    <3>3. 1 \in DOMAIN queue /\ Head(queue) = queue[1]
      BY <1>4, <1>5, <1>7
    <3>4. QED
      BY <3>1, <3>2, <3>3
  <2>3. asked' = Answered' \cup {queue'[i] : i \in DOMAIN queue'}
    BY <1>1, <2>1, <2>2 DEF Accounted
  <2>4. Len(answers') + Len(queue') = Cardinality(asked')
    BY <1>1, <1>4, <1>5, <1>6, <1>7 DEF Accounted
  <2>5. \A c \in asked : c[1] \in Int
    BY DEF TypeOK
  <2>6. \A c \in asked' : c[1] <= step' /\ (pc' = "asking" => c[1] < step')
    BY <1>0, <1>1, <1>2, <2>5 DEF Accounted
  <2>7. QED
    BY <1>1, <2>3, <2>4, <2>6 DEF Accounted
<1>11. Counted'
  BY <1>0, <1>1, <1>2, <1>3, <1>6 DEF Counted
<1>12. QED
  BY <1>8, <1>9, <1>10, <1>11

\* The one or two entries of a call are a trace.
LEMMA ShortTraces ==
    /\ \A e \in TraceEntry : <<e>> \in Seq(TraceEntry)
    /\ \A d, e \in TraceEntry : <<d, e>> \in Seq(TraceEntry)
<1>1. ASSUME NEW e \in TraceEntry PROVE <<e>> \in Seq(TraceEntry)
  OBVIOUS
<1>2. ASSUME NEW d \in TraceEntry, NEW e \in TraceEntry PROVE <<d, e>> \in Seq(TraceEntry)
  OBVIOUS
<1>3. QED
  BY <1>1, <1>2, Zenon

\* However a call ends, it leaves one piece of evidence.
LEMMA CallKeeps ==
    ASSUME LoopInductive, Call
    PROVE  LoopInductive'
<1>0. trace \in Seq(TraceEntry) /\ step \in 1..MaxSteps
  BY DEF LoopInductive, TypeOK
<1>1. /\ Entry("error", TRUE) \in TraceEntry /\ Entry("tool_call", TRUE) \in TraceEntry
      /\ Entry("tool_result", TRUE) \in TraceEntry
  BY <1>0, EntriesTyped
<1>2. CASE MalformedArguments
  <2>1. Cardinality(Evidence(trace \o <<Entry("error", TRUE)>>)) =
            Cardinality(Evidence(trace)) + 1
    BY <1>0, <1>1, Pushed, EntriesCounted
  <2>2. <<Entry("error", TRUE)>> \in Seq(TraceEntry)
    BY <1>1, ShortTraces, Zenon
  <2>3. QED
    BY <1>2, <2>1, <2>2, PerformKeeps DEF MalformedArguments
<1>3. ASSUME NEW e \in TraceEntry, IsEvidence(e), Perform(<<Entry("tool_call", TRUE), e>>)
      PROVE  LoopInductive'
  <2> DEFINE t == trace \o <<Entry("tool_call", TRUE)>>
             both == <<Entry("tool_call", TRUE), e>>
  <2>1. t \in Seq(TraceEntry) /\ Cardinality(Evidence(t)) = Cardinality(Evidence(trace))
    BY <1>0, <1>1, Pushed, EntriesCounted
  <2>2. trace \o both = t \o <<e>>
    BY <1>0, <1>1, TwoEntries
  <2>3. both \in Seq(TraceEntry)
    BY <1>1, ShortTraces, Zenon
  <2> HIDE DEF t
  <2>4. Cardinality(Evidence(t \o <<e>>)) = Cardinality(Evidence(t)) + 1
    BY <1>3, <2>1, Pushed
  <2>5. Cardinality(Evidence(trace \o both)) = Cardinality(Evidence(trace)) + 1
    BY <2>1, <2>2, <2>4
  <2>6. Perform(both)
    BY <1>3
  <2> HIDE DEF both
  <2>7. QED
    BY <2>3, <2>5, <2>6, PerformKeeps
<1>4. CASE ToolFails
  BY <1>1, <1>3, <1>4, EntriesCounted DEF ToolFails
<1>5. CASE ToolReturns
  BY <1>1, <1>3, <1>5, EntriesCounted DEF ToolReturns
<1>6. QED
  BY <1>2, <1>4, <1>5 DEF Call

\* Requests, calls and the memo keep the run paced, its calls accounted for and
\* its evidence counted.
THEOREM LoopInductiveHolds == Spec => []LoopInductive
<1>1. LoopInductive /\ [Next]_loopVars => LoopInductive'
  <2> SUFFICES ASSUME LoopInductive, [Next]_loopVars PROVE LoopInductive'
    OBVIOUS
  <2>1. CASE Ask
    BY <2>1, NoCallsKeeps, RequestsKeeps DEF Ask
  <2>2. CASE Call
    BY <2>2, CallKeeps
  <2>3. CASE Memo
    BY <2>3, CloseKeeps DEF Memo
  <2>4. CASE UNCHANGED loopVars
    BY <2>4 DEF loopVars, LoopInductive, TypeOK, Paced, Accounted, Counted, Answered
  <2>5. QED
    BY <2>1, <2>2, <2>3, <2>4 DEF Next
<1>2. QED
  BY <1>1, LoopStarts, PTL DEF Spec

\* The state of a run has its type, and a run never costs more than its steps
\* and the closing request (loop.ts:140 and 259).
THEOREM LoopInvariantHolds == Spec => []LoopInvariant
<1>1. LoopInductive => LoopInvariant
  BY DEF LoopInductive, LoopInvariant, Paced, TripsBounded
<1>2. QED
  BY <1>1, LoopInductiveHolds, PTL

\* Whenever the model is asked, every call it ever requested has been answered,
\* exactly once, whatever went wrong with it (loop.ts:191-243).
THEOREM AlwaysAnsweredBeforeAsked == Spec => []AnsweredBeforeAsked
<1>1. LoopInductive => AnsweredBeforeAsked
  <2> SUFFICES ASSUME LoopInductive, pc \in {"asking", "closing"}
               PROVE  asked = Answered /\ Len(answers) = Cardinality(asked)
    BY DEF AnsweredBeforeAsked
  <2>1. queue = <<>> /\ Len(answers) \in Nat
    BY DEF LoopInductive, Paced, TypeOK
  <2>2. QED
    BY <2>1 DEF LoopInductive, Accounted
<1>2. QED
  BY <1>1, LoopInductiveHolds, PTL

\* A run that returns brings one result or error for every call it counted,
\* which are the calls requested, and the final entry when it says it was not
\* exhausted (loop.ts:165-243).
THEOREM EvidenceIsComplete == Spec => []EvidenceComplete
<1>1. LoopInductive => EvidenceComplete
  <2> SUFFICES ASSUME LoopInductive, pc = "returned"
               PROVE  /\ toolCalls = Cardinality(asked)
                      /\ toolCalls = Cardinality(Evidence(trace))
                      /\ ~reply.exhausted => trace[Len(trace)].kind = "final"
    BY DEF EvidenceComplete, Evidence, IsEvidence
  <2>1. queue = <<>> /\ Len(answers) \in Nat
    BY DEF LoopInductive, Paced, TypeOK
  <2>2. QED
    BY <2>1 DEF LoopInductive, Accounted, Counted
<1>2. QED
  BY <1>1, LoopInductiveHolds, PTL

-----------------------------------------------------------------------------
(* What a trace tells of the end of its run.                                *)

IsGivingUp(entry) == entry.kind = "error" /\ ~entry.named

GivesUp(t) == \E i \in DOMAIN t : IsGivingUp(t[i])

HasFinal(t) == \E i \in DOMAIN t : t[i].kind = "final"

FinalIsLast(t) == \A i \in DOMAIN t : t[i].kind = "final" => i = Len(t)

\* The property in these terms.
LEMMA EndIsToldByTrace ==
    EndIsTold <=>
        /\ GivesUp(trace) <=> pc = "closing" \/ (pc = "returned" /\ reply.exhausted)
        /\ FinalIsLast(trace)
        /\ HasFinal(trace) <=> pc = "returned" /\ (reply.exhausted => reply.hasText)
BY Zenon DEF EndIsTold, GaveUp, GivesUp, IsGivingUp, HasFinal, FinalIsLast

\* One more entry tells what it tells, and nothing before it is taken back.
LEMMA OneMore ==
    ASSUME NEW t \in Seq(TraceEntry), NEW e \in TraceEntry
    PROVE  /\ t \o << e >> \in Seq(TraceEntry)
           /\ GivesUp(t \o << e >>) <=> GivesUp(t) \/ IsGivingUp(e)
           /\ HasFinal(t \o << e >>) <=> HasFinal(t) \/ e.kind = "final"
           /\ ~HasFinal(t) => FinalIsLast(t) /\ FinalIsLast(t \o << e >>)
<1> DEFINE u == t \o << e >>
<1>1. /\ u \in Seq(TraceEntry)
      /\ Len(u) = Len(t) + 1
      /\ u[Len(t) + 1] = e
      /\ \A i \in 1..Len(t) : u[i] = t[i]
  OBVIOUS
<1>2. DOMAIN t = 1..Len(t) /\ Len(t) \in Nat
  OBVIOUS
<1>3. DOMAIN u = 1..Len(t) + 1
  BY <1>1
<1> HIDE DEF u
<1>4. /\ \A i \in DOMAIN t : i \in DOMAIN u /\ u[i] = t[i]
      /\ Len(u) \in DOMAIN u /\ u[Len(u)] = e
      /\ \A i \in DOMAIN u : i \in DOMAIN t \/ i = Len(u)
  BY <1>1, <1>2, <1>3
<1>5. GivesUp(u) <=> GivesUp(t) \/ IsGivingUp(e)
  BY <1>4, Zenon DEF GivesUp
<1>6. HasFinal(u) <=> HasFinal(t) \/ e.kind = "final"
  BY <1>4, Zenon DEF HasFinal
<1>7. ~HasFinal(t) => FinalIsLast(t) /\ FinalIsLast(u)
  BY <1>4, Zenon DEF HasFinal, FinalIsLast
<1>8. QED
  BY <1>1, <1>5, <1>6, <1>7, Zenon DEF u

\* Which entries tell of an end.
LEMMA EntriesTelling ==
    /\ \A kind : IsGivingUp(Entry(kind, FALSE)) <=> kind = "error"
    /\ \A kind : ~IsGivingUp(Entry(kind, TRUE))
    /\ \A kind, named : Entry(kind, named).kind = kind
    /\ IsGivingUp(ExhaustedEntry) /\ ExhaustedEntry.kind = "error"
    /\ ~IsGivingUp(MemoEntry("final")) /\ MemoEntry("final").kind = "final"
BY DEF IsGivingUp, Entry, ExhaustedEntry, MemoEntry

\* What the entries of a request leave of a trace that tells of no end.
LEMMA AskTells ==
    ASSUME TypeOK, EndIsTold, Ask
    PROVE  EndIsTold'
<1>0. /\ trace \in Seq(TraceEntry) /\ step \in 1..MaxSteps
      /\ \A kind \in {"thought", "tool_call", "tool_result", "final", "error"} :
            Entry(kind, FALSE) \in TraceEntry
      /\ ExhaustedEntry \in TraceEntry
  <2>1. trace \in Seq(TraceEntry) /\ step \in 1..MaxSteps
    BY DEF TypeOK
  <2>2. QED
    BY <2>1, EntriesTyped
<1>1. pc = "asking"
  BY DEF Ask, ModelThrows, ModelSendsNothing, ModelAnswers, ModelRequests
<1>2. ~GivesUp(trace) /\ ~HasFinal(trace)
  BY <1>1, EndIsToldByTrace
<1>3. FinalIsLast(trace)
  BY <1>2, Zenon DEF FinalIsLast, HasFinal
<1>4. ASSUME NEW hasText \in BOOLEAN
      PROVE  LET t == trace \o Thought(hasText) IN
             t \in Seq(TraceEntry) /\ ~GivesUp(t) /\ ~HasFinal(t) /\ FinalIsLast(t)
  <2>1. CASE hasText
    <3>1. trace \o Thought(hasText) = trace \o << Entry("thought", FALSE) >>
      BY <2>1 DEF Thought
    <3>2. /\ Entry("thought", FALSE) \in TraceEntry
          /\ ~IsGivingUp(Entry("thought", FALSE)) /\ Entry("thought", FALSE).kind # "final"
      BY <1>0, EntriesTelling
    <3> DEFINE u == trace \o << Entry("thought", FALSE) >>
    <3>3. /\ u \in Seq(TraceEntry)
          /\ GivesUp(u) <=> GivesUp(trace) \/ IsGivingUp(Entry("thought", FALSE))
          /\ HasFinal(u) <=> HasFinal(trace) \/ Entry("thought", FALSE).kind = "final"
          /\ ~HasFinal(trace) => FinalIsLast(u)
      BY <3>2, <1>0, OneMore
    <3> HIDE DEF u
    <3>4. u \in Seq(TraceEntry) /\ ~GivesUp(u) /\ ~HasFinal(u) /\ FinalIsLast(u)
      BY <1>2, <3>2, <3>3
    <3>5. QED
      BY <3>1, <3>4 DEF u
  <2>2. CASE ~hasText
    <3>1. trace \o Thought(hasText) = trace
      BY <2>2, <1>0 DEF Thought
    <3>2. QED
      BY <3>1, <1>0, <1>2, <1>3
  <2>3. QED
    BY <2>1, <2>2
<1>5. CASE ModelThrows
  BY <1>2, <1>3, <1>5, EndIsToldByTrace
     DEF ModelThrows, EndIsTold, GaveUp, GivesUp, IsGivingUp, HasFinal, FinalIsLast
<1>6. CASE ModelSendsNothing
  <2> DEFINE t == trace \o << Entry("error", FALSE) >>
             u == t \o << ExhaustedEntry >>
  <2>1. trace' = u /\ pc' = "closing"
    <3>1. trace \o <<Entry("error", FALSE), ExhaustedEntry>> = u
      BY <1>0, TwoEntries
    <3> HIDE DEF u
    <3>2. QED
      BY <1>6, <3>1 DEF ModelSendsNothing
  <2>2. t \in Seq(TraceEntry) /\ ~HasFinal(t)
    BY <1>0, <1>2, OneMore, EntriesTelling
  <2> HIDE DEF t
  <2>3. GivesUp(u) /\ ~HasFinal(u) /\ FinalIsLast(u)
    BY <1>0, <2>2, OneMore, EntriesTelling
  <2> HIDE DEF u
  <2>4. GivesUp(trace)' /\ ~HasFinal(trace)' /\ FinalIsLast(trace)'
    BY <2>1, <2>3 DEF GivesUp, HasFinal, FinalIsLast
  <2>5. QED
    BY <2>1, <2>4 DEF EndIsTold, GaveUp, GivesUp, IsGivingUp, HasFinal, FinalIsLast
<1>7. ASSUME NEW hasText \in BOOLEAN, ModelAnswers(hasText)
      PROVE  EndIsTold'
  <2> DEFINE t == trace \o Thought(hasText)
             u == t \o << Entry("final", FALSE) >>
  <2>1. trace' = u /\ pc' = "returned" /\ ~reply'.exhausted
    BY <1>7 DEF ModelAnswers
  <2>2. t \in Seq(TraceEntry) /\ ~GivesUp(t) /\ ~HasFinal(t)
    BY <1>4
  <2> HIDE DEF t
  <2>3. ~GivesUp(u) /\ HasFinal(u) /\ FinalIsLast(u)
    BY <1>0, <2>2, OneMore, EntriesTelling
  <2> HIDE DEF u
  <2>4. ~GivesUp(trace)' /\ HasFinal(trace)' /\ FinalIsLast(trace)'
    BY <2>1, <2>3 DEF GivesUp, HasFinal, FinalIsLast
  <2>5. QED
    BY <2>1, <2>4 DEF EndIsTold, GaveUp, GivesUp, IsGivingUp, HasFinal, FinalIsLast
<1>8. ASSUME NEW hasText \in BOOLEAN, NEW n \in 1..MaxCalls, ModelRequests(hasText, n)
      PROVE  EndIsTold'
  <2> DEFINE t == trace \o Thought(hasText)
  <2>1. trace' = t /\ pc' = "calling"
    BY <1>8 DEF ModelRequests
  <2>2. ~GivesUp(t) /\ ~HasFinal(t) /\ FinalIsLast(t)
    BY <1>4
  <2> HIDE DEF t
  <2>3. ~GivesUp(trace)' /\ ~HasFinal(trace)' /\ FinalIsLast(trace)'
    BY <2>1, <2>2 DEF GivesUp, HasFinal, FinalIsLast
  <2>4. QED
    BY <2>1, <2>3 DEF EndIsTold, GaveUp, GivesUp, IsGivingUp, HasFinal, FinalIsLast
<1>9. QED
  BY <1>5, <1>6, <1>7, <1>8 DEF Ask

\* A call tells of no end; only what the loop adds after the last one does.
LEMMA PerformTells ==
    ASSUME TypeOK, EndIsTold, NEW entries, Perform(entries),
           trace \o entries \in Seq(TraceEntry),
           ~GivesUp(trace \o entries), ~HasFinal(trace \o entries)
    PROVE  EndIsTold'
<1> DEFINE t == trace \o entries
<1>1. t \in Seq(TraceEntry) /\ ~GivesUp(t) /\ ~HasFinal(t)
  OBVIOUS
<1>2. FinalIsLast(t)
  BY <1>1, Zenon DEF FinalIsLast, HasFinal
<1>3. \/ pc' \in {"calling", "asking"} /\ trace' = t
      \/ pc' = "closing" /\ trace' = t \o << ExhaustedEntry >>
  BY DEF Perform
<1>4. ExhaustedEntry \in TraceEntry
  BY EntriesTyped DEF TypeOK
<1> HIDE DEF t
<1>5. CASE pc' \in {"calling", "asking"} /\ trace' = t
  <2>1. ~GivesUp(trace)' /\ ~HasFinal(trace)' /\ FinalIsLast(trace)'
    BY <1>1, <1>2, <1>5 DEF GivesUp, HasFinal, FinalIsLast
  <2>2. QED
    BY <1>5, <2>1 DEF EndIsTold, GaveUp, GivesUp, IsGivingUp, HasFinal, FinalIsLast
<1>6. CASE pc' = "closing" /\ trace' = t \o << ExhaustedEntry >>
  <2> DEFINE u == t \o << ExhaustedEntry >>
  <2>1. GivesUp(u) /\ ~HasFinal(u) /\ FinalIsLast(u)
    BY <1>1, <1>4, OneMore, EntriesTelling
  <2>2. trace' = u
    BY <1>6
  <2> HIDE DEF u
  <2>3. GivesUp(trace)' /\ ~HasFinal(trace)' /\ FinalIsLast(trace)'
    BY <2>1, <2>2 DEF GivesUp, HasFinal, FinalIsLast
  <2>4. QED
    BY <1>6, <2>3 DEF EndIsTold, GaveUp, GivesUp, IsGivingUp, HasFinal, FinalIsLast
<1>7. QED
  BY <1>3, <1>5, <1>6

\* However a call ends, its entries name a tool and are no final ones.
LEMMA CallTells ==
    ASSUME TypeOK, EndIsTold, Call
    PROVE  EndIsTold'
<1>0. /\ trace \in Seq(TraceEntry)
      /\ \A kind \in {"thought", "tool_call", "tool_result", "final", "error"} :
            Entry(kind, TRUE) \in TraceEntry
  <2>1. trace \in Seq(TraceEntry) /\ step \in 1..MaxSteps
    BY DEF TypeOK
  <2>2. QED
    BY <2>1, EntriesTyped
<1>1. pc = "calling"
  BY DEF Call, MalformedArguments, ToolFails, ToolReturns, Perform, Performed
<1>2. ~GivesUp(trace) /\ ~HasFinal(trace)
  BY <1>1, EndIsToldByTrace
<1>3. ASSUME NEW t \in Seq(TraceEntry), ~GivesUp(t), ~HasFinal(t),
             NEW kind \in {"tool_call", "tool_result", "error"}
      PROVE  LET u == t \o << Entry(kind, TRUE) >> IN
             u \in Seq(TraceEntry) /\ ~GivesUp(u) /\ ~HasFinal(u)
  <2>1. /\ Entry(kind, TRUE) \in TraceEntry
        /\ ~IsGivingUp(Entry(kind, TRUE)) /\ Entry(kind, TRUE).kind # "final"
    BY <1>0, EntriesTelling
  <2>2. QED
    BY <1>3, <2>1, OneMore
<1>4. CASE MalformedArguments
  <2>1. LET u == trace \o << Entry("error", TRUE) >> IN
        u \in Seq(TraceEntry) /\ ~GivesUp(u) /\ ~HasFinal(u)
    BY <1>0, <1>2, <1>3
  <2>2. QED
    BY <1>4, <2>1, PerformTells DEF MalformedArguments
<1>5. ASSUME NEW kind \in {"tool_result", "error"},
             Perform(<<Entry("tool_call", TRUE), Entry(kind, TRUE)>>)
      PROVE  EndIsTold'
  <2> DEFINE t == trace \o << Entry("tool_call", TRUE) >>
             u == t \o << Entry(kind, TRUE) >>
             both == <<Entry("tool_call", TRUE), Entry(kind, TRUE)>>
  <2>1. t \in Seq(TraceEntry) /\ ~GivesUp(t) /\ ~HasFinal(t)
    BY <1>0, <1>2, <1>3
  <2>2. trace \o both = u
    <3>1. Entry("tool_call", TRUE) \in TraceEntry /\ Entry(kind, TRUE) \in TraceEntry
      BY <1>0
    <3>2. QED
      BY <3>1, <1>0, TwoEntries, Zenon
  <2> HIDE DEF t
  <2>3. u \in Seq(TraceEntry) /\ ~GivesUp(u) /\ ~HasFinal(u)
    BY <2>1, <1>3
  <2>4. Perform(both)
    BY <1>5
  <2> HIDE DEF u, both
  <2>5. QED
    BY <2>2, <2>3, <2>4, PerformTells
<1>6. QED
  BY <1>4, <1>5 DEF Call, ToolFails, ToolReturns

\* The memo is the final entry when there is one; its failure is an entry too.
LEMMA MemoTells ==
    ASSUME TypeOK, EndIsTold, Memo
    PROVE  EndIsTold'
<1>0. trace \in Seq(TraceEntry) /\ ExhaustedEntry \in TraceEntry /\ MemoEntry("final") \in TraceEntry
  BY EntriesTyped DEF TypeOK
<1>1. PICK hasText \in BOOLEAN, fails \in BOOLEAN : ~(hasText /\ fails) /\ Close(hasText, fails)
  BY DEF Memo
<1>2. /\ pc = "closing" /\ pc' = "returned"
      /\ reply'.exhausted /\ reply'.hasText = hasText
  BY <1>1 DEF Close
<1>3. GivesUp(trace) /\ ~HasFinal(trace)
  BY <1>2, EndIsToldByTrace
<1>4. /\ GivesUp(trace)' /\ FinalIsLast(trace)'
      /\ HasFinal(trace)' <=> hasText
  <2>1. CASE fails
    <3> DEFINE u == trace \o << ExhaustedEntry >>
    <3>1. GivesUp(u) /\ ~HasFinal(u) /\ FinalIsLast(u)
      BY <1>0, <1>3, OneMore, EntriesTelling
    <3>2. trace' = u /\ ~hasText
      BY <1>1, <2>1 DEF Close
    <3> HIDE DEF u
    <3>3. QED
      BY <3>1, <3>2 DEF GivesUp, HasFinal, FinalIsLast
  <2>2. CASE ~fails /\ hasText
    <3> DEFINE u == trace \o << MemoEntry("final") >>
    <3>1. GivesUp(u) /\ HasFinal(u) /\ FinalIsLast(u)
      BY <1>0, <1>3, OneMore, EntriesTelling
    <3>2. trace' = u
      BY <1>1, <2>2 DEF Close
    <3> HIDE DEF u
    <3>3. QED
      BY <2>2, <3>1, <3>2 DEF GivesUp, HasFinal, FinalIsLast
  <2>3. CASE ~fails /\ ~hasText
    <3>1. trace' = trace
      BY <1>0, <1>1, <2>3 DEF Close
    <3>2. FinalIsLast(trace)
      BY <1>3, Zenon DEF FinalIsLast, HasFinal
    <3>3. QED
      BY <1>3, <2>3, <3>1, <3>2 DEF GivesUp, HasFinal, FinalIsLast
  <2>4. QED
    BY <2>1, <2>2, <2>3
<1>5. QED
  BY <1>2, <1>4 DEF EndIsTold, GaveUp, GivesUp, IsGivingUp, HasFinal, FinalIsLast

\* The trace of a run tells how it ended: one that gave up says so and brings
\* its trace back, with its memo last when there is one; only one that had not
\* given up can throw; the final entry is there exactly for an answer
\* (loop.ts:180-189 and 255-299).
THEOREM TheEndIsAlwaysTold == Spec => []EndIsTold
<1>1. Init => EndIsTold
  BY DEF Init, NoReply, EndIsTold, GaveUp
<1>2. TypeOK /\ EndIsTold /\ [Next]_loopVars => EndIsTold'
  <2> SUFFICES ASSUME TypeOK, EndIsTold, [Next]_loopVars PROVE EndIsTold'
    OBVIOUS
  <2>1. CASE UNCHANGED loopVars
    BY <2>1 DEF loopVars, EndIsTold, GaveUp
  <2>2. QED
    BY <2>1, AskTells, CallTells, MemoTells DEF Next
<1>3. LoopInductive => TypeOK
  BY DEF LoopInductive
<1>4. QED
  BY <1>1, <1>2, <1>3, LoopInductiveHolds, PTL DEF Spec
=============================================================================
