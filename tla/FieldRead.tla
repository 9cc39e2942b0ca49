------------------------------- MODULE FieldRead -------------------------------
(***************************************************************************)
(* What a read of the contract promises whoever asks, whatever the node,    *)
(* the caches, the retries and upgrades of the contract do: the answer is    *)
(* what one version of the contract held at some moment of the read, or an   *)
(* error, and an error is never an answer.  Which version it is of, the asker *)
(* is not told; a read a contract is upgraded under may miss what is there.  *)
(***************************************************************************)
EXTENDS Naturals, Sequences

CONSTANTS
    Reader,   \* the reads that may be under way at once
    Key,      \* the dictionary items the readers ask for
    Balance,  \* the one thing asked for that is not a dictionary item
    Value,
    Null,     \* no record, or no purse
    Error     \* the read threw

What == Key \cup {Balance}

\* What one version of the contract holds.  A version that takes over the keys
\* of the one before is none of its own here: its readers see no difference.
Contents == [What -> Value \cup {Null}]

Idle == [what |-> Null, since |-> 0]

VARIABLES
    history,  \* the states of the chain so far: in each, what every version holds,
              \* counted from the one that is newest when the process starts
    reading,  \* what each reader is asking for, and the block it began at
    answer    \* what its last read came to, Null until then

\* The contract never removes an entry, nor its purse.
Grows(s, t) == \A w \in What : s[w] # Null => t[w] # Null

Newest == history[Len(history)]

Init ==
    /\ history \in {<< << c >> >> : c \in Contents}
    /\ reading = [r \in Reader |-> Idle]
    /\ answer = [r \in Reader |-> Null]

\* The chain moves on by one state.
Grown == history' = Append(history, Newest') /\ UNCHANGED <<reading, answer>>

\* A call of some version, which a caller may name.
Block ==
    /\ Grown
    /\ \E v \in DOMAIN Newest, c \in Contents :
          Grows(Newest[v], c) /\ Newest' = [Newest EXCEPT ![v] = c]

Upgrade ==
    /\ Grown
    /\ \E c \in Contents : Newest' = Append(Newest, c)

Ask(r) ==
    /\ reading[r] = Idle
    /\ \E w \in What : reading' = [reading EXCEPT ![r] = [what |-> w, since |-> Len(history)]]
    /\ answer' = [answer EXCEPT ![r] = Null]
    /\ UNCHANGED history

\* What some version held at some moment of the read.
Held(r, v) ==
    \E h \in reading[r].since..Len(history) :
        \E n \in DOMAIN history[h] : v = history[h][n][reading[r].what]

\* A balance may also be null because a version had no purse before the read.
NoPurse(r, v) ==
    /\ v = Null
    /\ reading[r].what = Balance
    /\ \E h \in 1..Len(history) : \E n \in DOMAIN history[h] : history[h][n][Balance] = Null

\* The contract was upgraded under the read: the new version's item is looked
\* for in a state from before the upgrade.
Missed(r, v) ==
    /\ v = Null
    /\ reading[r].what \in Key
    /\ Len(history[reading[r].since]) < Len(Newest)

\* The read threw.
Threw(v) == v = Error

Tell(r) ==
    /\ reading[r] # Idle
    /\ reading' = [reading EXCEPT ![r] = Idle]
    /\ \E v \in Value \cup {Null, Error} :
        /\ Held(r, v) \/ NoPurse(r, v) \/ Missed(r, v) \/ Threw(v)
        /\ answer' = [answer EXCEPT ![r] = v]
    /\ UNCHANGED history

Next == Block \/ Upgrade \/ \E r \in Reader : Ask(r) \/ Tell(r)

Spec == Init /\ [][Next]_<<history, reading, answer>>
===============================================================================
