------------------------------- MODULE AgentLoop -------------------------------
(***************************************************************************)
(* One run of the agent loop (agent/src/kernel/loop.ts): ask the model,     *)
(* perform the tool calls it requests one after the other, feed every       *)
(* outcome back, ask again; at most MaxSteps times, and then once more, with *)
(* the tools withdrawn, for a closing memo.                                 *)
(*                                                                         *)
(* The model is free: it may throw, send no message, answer, or request     *)
(* calls whose arguments do not parse, whose tool does not exist, or whose  *)
(* tool throws.  The wording of messages is left out; a tool call is its    *)
(* id, and a trace entry its step, its kind and whether it names a tool.    *)
(***************************************************************************)
EXTENDS Integers, FiniteSets, Sequences

CONSTANTS
    MaxSteps,  \* RunAgentOptions.maxSteps
    MaxCalls   \* bound: the most tool calls one message of the model requests

ASSUME LoopAssumption == MaxSteps \in Nat \ {0} /\ MaxCalls \in Nat

VARIABLES
    pc,         \* where the run awaits: "asking" the model, "calling" a tool,
                \* "closing" (the memo); or how it ended: "returned", "threw"
    step,       \* the for loop's counter
    trips,      \* requests sent to the model
    queue,      \* the calls of the last message still to perform
    asked,      \* ids of the tool_calls echoed into `messages`
    answers,    \* the tool_call_ids of the tool messages in `messages`
    trace,      \* the trace entries pushed
    toolCalls,  \* the counter of the same name
    reply       \* [steps, exhausted, hasText] once returned

loopVars == <<pc, step, trips, queue, asked, answers, trace, toolCalls, reply>>

Entry(kind, named) == [step |-> step, kind |-> kind, named |-> named]

\* The entries of the memo carry maxSteps, and so does the one the loop leaves
\* when it goes on to the memo.
MemoEntry(kind) == [step |-> MaxSteps, kind |-> kind, named |-> FALSE]

ExhaustedEntry == MemoEntry("error")

NoReply == [steps |-> 0, exhausted |-> FALSE, hasText |-> FALSE]

Init ==
    /\ pc = "asking"
    /\ step = 1
    /\ trips = 0
    /\ queue = <<>>
    /\ asked = {}
    /\ answers = <<>>
    /\ trace = <<>>
    /\ toolCalls = 0
    /\ reply = NoReply

-----------------------------------------------------------------------------
(* The request of a step.                                                   *)

\* The client throws: nothing catches it, and the run's trace is lost.
ModelThrows ==
    /\ pc = "asking"
    /\ pc' = "threw"
    /\ trips' = trips + 1
    /\ UNCHANGED <<step, queue, asked, answers, trace, toolCalls, reply>>

\* A response without a message breaks out of the loop.
ModelSendsNothing ==
    /\ pc = "asking"
    /\ pc' = "closing"
    /\ trips' = trips + 1
    /\ trace' = trace \o <<Entry("error", FALSE), ExhaustedEntry>>
    /\ UNCHANGED <<step, queue, asked, answers, toolCalls, reply>>

\* What a message's content adds to the trace.
Thought(hasText) == IF hasText THEN <<Entry("thought", FALSE)>> ELSE <<>>

\* A message without tool calls is the final answer.
ModelAnswers(hasText) ==
    /\ pc = "asking"
    /\ pc' = "returned"
    /\ trips' = trips + 1
    /\ trace' = trace \o Thought(hasText) \o <<Entry("final", FALSE)>>
    /\ reply' = [steps |-> step, exhausted |-> FALSE, hasText |-> hasText]
    /\ UNCHANGED <<step, queue, asked, answers, toolCalls>>

\* A message with tool calls is echoed into `messages`, its calls are queued.
ModelRequests(hasText, n) ==
    LET calls == [i \in 1..n |-> <<step, i>>] IN
    /\ pc = "asking"
    /\ pc' = "calling"
    /\ trips' = trips + 1
    /\ queue' = calls
    /\ asked' = asked \cup {calls[i] : i \in 1..n}
    /\ trace' = trace \o Thought(hasText)
    /\ UNCHANGED <<step, answers, toolCalls, reply>>

-----------------------------------------------------------------------------
(* The calls of a step.                                                     *)

\* What a performed call does besides moving the run on.
Performed ==
    /\ pc = "calling"
    /\ toolCalls' = toolCalls + 1
    /\ queue' = Tail(queue)
    /\ UNCHANGED <<trips, asked, reply>>

\* Mutant: arguments that do not parse get no tool message.
Perform_SkipsMalformed(entries) ==
    /\ Performed
    /\ answers' = IF Len(entries) = 1 THEN answers
                  ELSE Append(answers, Head(queue))
    /\ trace' = trace \o entries
    /\ pc' = IF Len(queue) > 1 THEN "calling"
             ELSE IF step < MaxSteps THEN "asking" ELSE "closing"
    /\ step' = IF pc' = "asking" THEN step + 1 ELSE step

\* Mutant: the loop runs once more after the last step.
Perform_OneTooMany(entries) ==
    /\ Performed
    /\ answers' = Append(answers, Head(queue))
    /\ trace' = trace \o entries
    /\ pc' = IF Len(queue) > 1 THEN "calling"
             ELSE IF step <= MaxSteps THEN "asking" ELSE "closing"
    /\ step' = IF pc' = "asking" THEN step + 1 ELSE step

\* Mutant: after the calls of the last step nothing more happens.
Perform_Hangs(entries) ==
    /\ Performed
    /\ answers' = Append(answers, Head(queue))
    /\ trace' = trace \o entries
    /\ \/ Len(queue) > 1 /\ pc' = "calling" /\ step' = step
       \/ Len(queue) = 1 /\ step < MaxSteps /\ pc' = "asking" /\ step' = step + 1

\* The first call of the queue is performed, leaves its entries in the trace
\* and is answered in `messages`; after the last one the loop goes on.
Perform(entries) ==
    /\ Performed
    /\ answers' = Append(answers, Head(queue))
    /\ \/ /\ Len(queue) > 1
          /\ pc' = "calling" /\ step' = step
          /\ trace' = trace \o entries
       \/ /\ Len(queue) = 1 /\ step < MaxSteps
          /\ pc' = "asking" /\ step' = step + 1
          /\ trace' = trace \o entries
       \/ /\ Len(queue) = 1 /\ step = MaxSteps
          /\ pc' = "closing" /\ step' = step
          /\ trace' = trace \o entries \o <<ExhaustedEntry>>

\* Mutant: arguments that do not parse leave no trace.
MalformedArguments_Silent == Perform(<<>>)

MalformedArguments == Perform(<<Entry("error", TRUE)>>)

\* An unknown tool, or one that throws.
ToolFails == Perform(<<Entry("tool_call", TRUE), Entry("error", TRUE)>>)

ToolReturns == Perform(<<Entry("tool_call", TRUE), Entry("tool_result", TRUE)>>)

-----------------------------------------------------------------------------
(* The closing memo.                                                        *)

\* Mutant: a failed close-out is not caught.
Close_Uncaught(hasText, fails) ==
    /\ pc = "closing"
    /\ pc' = IF fails THEN "threw" ELSE "returned"
    /\ trips' = trips + 1
    /\ trace' = trace
    /\ reply' = [steps |-> MaxSteps, exhausted |-> TRUE, hasText |-> hasText]
    /\ UNCHANGED <<step, queue, asked, answers, toolCalls>>

\* A memo is pushed when it has text; a failure is caught and pushed.
Close(hasText, fails) ==
    /\ pc = "closing"
    /\ pc' = "returned"
    /\ trips' = trips + 1
    /\ trace' = trace \o
         (IF fails THEN <<ExhaustedEntry>>
          ELSE IF hasText THEN <<MemoEntry("final")>>
          ELSE <<>>)
    /\ reply' = [steps |-> MaxSteps, exhausted |-> TRUE, hasText |-> hasText]
    /\ UNCHANGED <<step, queue, asked, answers, toolCalls>>

-----------------------------------------------------------------------------

Ask ==
    \/ ModelThrows
    \/ ModelSendsNothing
    \/ \E hasText \in BOOLEAN : ModelAnswers(hasText)
    \/ \E hasText \in BOOLEAN, n \in 1..MaxCalls : ModelRequests(hasText, n)

Call == MalformedArguments \/ ToolFails \/ ToolReturns

Memo == \E hasText, fails \in BOOLEAN : ~(hasText /\ fails) /\ Close(hasText, fails)

Ended == pc \in {"returned", "threw"}

Next == Ask \/ Call \/ Memo

Spec == Init /\ [][Next]_loopVars

\* Every await of the loop ends: the model client times out, and a tool awaits
\* a bounded number of requests.
FairSpec == Spec /\ WF_loopVars(Next)

-----------------------------------------------------------------------------
(* Properties.                                                              *)

TraceEntry == [step : 1..MaxSteps, named : BOOLEAN,
               kind : {"thought", "tool_call", "tool_result", "final", "error"}]

\* The type of the run's state.
TypeOK ==
    /\ pc \in {"asking", "calling", "closing", "returned", "threw"}
    /\ step \in 1..MaxSteps
    /\ trips \in Nat
    /\ queue \in Seq((1..MaxSteps) \X (1..MaxCalls))
    /\ asked \subseteq (1..MaxSteps) \X (1..MaxCalls)
    /\ answers \in Seq((1..MaxSteps) \X (1..MaxCalls))
    /\ trace \in Seq(TraceEntry)
    /\ toolCalls \in Nat
    /\ reply \in [steps : 0..MaxSteps, exhausted : BOOLEAN, hasText : BOOLEAN]

Answered == {answers[i] : i \in DOMAIN answers}

\* Whenever the model is asked, with or without tools, every call it ever
\* requested has its answer in `messages`, exactly one, whatever went wrong
\* with the call (the loop over `requested`, loop.ts:191-243).
AnsweredBeforeAsked ==
    pc \in {"asking", "closing"} =>
        /\ asked = Answered
        /\ Len(answers) = Cardinality(asked)

\* A run that returns brings the evidence of everything it did: one result or
\* error naming a tool for every call counted, and a final entry, the last
\* one, whenever it says it was not exhausted.
EvidenceComplete ==
    pc = "returned" =>
        /\ toolCalls = Cardinality(asked)
        /\ toolCalls = Cardinality({i \in DOMAIN trace :
               trace[i].named /\ trace[i].kind \in {"tool_result", "error"}})
        /\ ~reply.exhausted => trace[Len(trace)].kind = "final"

\* A stuck model is cut off: the run costs at most MaxSteps requests and the
\* closing one.
TripsBounded == trips <= MaxSteps + 1

\* The trace says that the run gave up: the model sent nothing, or the steps
\* are used up.
GaveUp == \E i \in DOMAIN trace : trace[i].kind = "error" /\ ~trace[i].named

\* How a run ended can be read off its trace.  A run that gave up says so there
\* and never throws, whatever becomes of its memo: it brings the trace back,
\* marked exhausted, as no other run is; a run that throws loses a trace without
\* that mark only.  The trace has a final entry, its last, exactly when the run
\* returned with an answer or with a memo that has text (loop.ts:180-189 and
\* 255-299).
EndIsTold ==
    /\ GaveUp <=> pc = "closing" \/ (pc = "returned" /\ reply.exhausted)
    /\ \A i \in DOMAIN trace : trace[i].kind = "final" => i = Len(trace)
    /\ (\E i \in DOMAIN trace : trace[i].kind = "final") <=>
          pc = "returned" /\ (reply.exhausted => reply.hasText)

\* Every run ends, whatever the model does (FairSpec).
RunEnds == <>Ended

\* As the comment on maxSteps says (loop.ts:64, "Hard cap on model
\* round-trips"): no run sends the model more than maxSteps requests.
RoundTripsCapped == trips <= MaxSteps

\* As the comment on exhausted says (loop.ts:53, "True when the loop stopped
\* because it hit `maxSteps`"): an exhausted run used up its steps.
ExhaustedMeansMaxSteps == reply.exhausted => step = MaxSteps

\* The shape of a run, which includes its budget (loop.ts:140 and 259).
LoopInvariant == TypeOK /\ TripsBounded
=============================================================================
