------------------------------ MODULE SessionStore ------------------------------
(***************************************************************************)
(* The session store of the agent's kernel (agent/src/kernel/session.ts): a  *)
(* caller asks for a challenge, signs it with its key, redeems the signature *)
(* for a session, and shows the session's token from then on.                *)
(*                                                                         *)
(* A key stands for its account hash too, which is computed from it, and for *)
(* each way of writing it: the store compares keys in lower case.            *)
(***************************************************************************)
EXTENDS Integers, FiniteSets

CONSTANTS
    Key, Nonce, Token,
    ChallengeTtl,   \* CHALLENGE_TTL_MS
    SessionTtl,     \* SESSION_TTL_MS
    MaxTime         \* bound: the last instant of the clock

ASSUME StoreAssumption ==
    /\ ChallengeTtl \in Nat /\ SessionTtl \in Nat
    /\ MaxTime \in Nat

VARIABLES
    now,          \* Date.now(), which is the machine's and may be set back
    challenges,   \* the challenges in memory
    sessions,     \* the sessions in memory
    issued,       \* every challenge issued: its nonce and its key
    signed,       \* every signature made
    tried,        \* the nonces somebody has tried to redeem
    granted,      \* every session granted: its token, its key and its nonce
    refused       \* the tokens that were good once and have been refused

memory == <<challenges, sessions>>
storeVars == <<now, memory, issued, signed, tried, granted, refused>>

-----------------------------------------------------------------------------

StoreInit ==
    /\ now = 0
    /\ challenges = {} /\ sessions = {}
    /\ issued = {} /\ signed = {} /\ tried = {} /\ granted = {} /\ refused = {}

Nonces(S) == {c.nonce : c \in S}

Tokens(S) == {s.token : s \in S}

\* What sweep leaves.
Unexpired(S) == {e \in S : e.expiresAt >= now}

\* The key's signature over the message, which names a key and a nonce.
Signature(signer, key, nonce) == [signer |-> signer, key |-> key, nonce |-> nonce]

\* A nonce is twenty-four random bytes: never one issued before.
IssueChallenge(key) ==
    \E nonce \in Nonce \ Nonces(issued) :
        /\ issued' = issued \cup {[nonce |-> nonce, key |-> key]}
        /\ challenges' = Unexpired(challenges \cup
                {[nonce |-> nonce, key |-> key, expiresAt |-> now + ChallengeTtl]})
        /\ sessions' = Unexpired(sessions)
        /\ UNCHANGED <<now, signed, tried, granted, refused>>

\* The holder of a key signs a message it was given, its own or another's.
Sign(signer) ==
    \E i \in issued :
        /\ signed' = signed \cup {Signature(signer, i.key, i.nonce)}
        /\ UNCHANGED <<now, memory, issued, tried, granted, refused>>

\* The challenge is there, in time, and for this key.
Open(key, nonce) ==
    \E c \in challenges : c.nonce = nonce /\ c.key = key /\ c.expiresAt >= now

\* Mutant: the session runs out before it begins.
Grants_Backwards(key, nonce) ==
    \E token \in Token \ Tokens(granted) :
        /\ sessions' = sessions \cup
               {[token |-> token, key |-> key, expiresAt |-> now - SessionTtl]}
        /\ granted' = granted \cup {[token |-> token, key |-> key, nonce |-> nonce]}

\* A session under a fresh token.
Grants(key, nonce) ==
    \E token \in Token \ Tokens(granted) :
        /\ sessions' = sessions \cup
               {[token |-> token, key |-> key, expiresAt |-> now + SessionTtl]}
        /\ granted' = granted \cup {[token |-> token, key |-> key, nonce |-> nonce]}

\* Mutant: a challenge that was not answered well may be answered again.
Redeem_Again(key, nonce, signature) ==
    /\ tried' = tried \cup {nonce}
    /\ IF Open(key, nonce) /\ signature = Signature(key, key, nonce)
       THEN /\ challenges' = {c \in challenges : c.nonce # nonce}
            /\ Grants(key, nonce)
       ELSE UNCHANGED <<challenges, sessions, granted>>
    /\ UNCHANGED <<now, issued, signed, refused>>

\* Mutant: the signature is verified, and the key it was issued for is not.
Redeem_AnyKey(key, nonce, signature) ==
    /\ challenges' = {c \in challenges : c.nonce # nonce}
    /\ tried' = tried \cup {nonce}
    /\ IF /\ \E k \in Key : Open(k, nonce)
          /\ signature.signer = key /\ signature.nonce = nonce
       THEN Grants(key, nonce)
       ELSE UNCHANGED <<sessions, granted>>
    /\ UNCHANGED <<now, issued, signed, refused>>

\* The challenge is used up, whatever comes of it.
Redeem(key, nonce, signature) ==
    /\ challenges' = {c \in challenges : c.nonce # nonce}
    /\ tried' = tried \cup {nonce}
    /\ IF Open(key, nonce) /\ signature = Signature(key, key, nonce)
       THEN Grants(key, nonce)
       ELSE UNCHANGED <<sessions, granted>>
    /\ UNCHANGED <<now, issued, signed, refused>>

Good(token) == \E s \in sessions : s.token = token /\ s.expiresAt >= now

\* Mutant: an expired session is refused and not deleted.
Resolve_Keeps(token) ==
    /\ refused' = IF Good(token) THEN refused ELSE refused \cup {token}
    /\ UNCHANGED <<now, memory, issued, signed, tried, granted>>

\* A token that is not good is refused, and its session, if there is one, deleted.
Resolve(token) ==
    /\ IF Good(token)
       THEN UNCHANGED <<sessions, refused>>
       ELSE /\ refused' = refused \cup {token}
            /\ sessions' = {s \in sessions : s.token # token}
    /\ UNCHANGED <<now, challenges, issued, signed, tried, granted>>

Restart ==
    /\ challenges' = {} /\ sessions' = {}
    /\ UNCHANGED <<now, issued, signed, tried, granted, refused>>

\* The clock goes on, or is set back.
Clock ==
    /\ now' \in {now - 1, now + 1} \cap 0..MaxTime
    /\ UNCHANGED <<memory, issued, signed, tried, granted, refused>>

StoreNext ==
    \/ \E key \in Key : IssueChallenge(key) \/ Sign(key)
    \/ \E key \in Key, nonce \in Nonces(issued), signature \in signed :
            Redeem(key, nonce, signature)
    \/ \E token \in Tokens(granted) : Resolve(token)
    \/ Restart
    \/ Clock

StoreSpec == StoreInit /\ [][StoreNext]_storeVars

-----------------------------------------------------------------------------
(* Properties.                                                              *)

\* The shape of the state.
SessionTypeOK ==
    /\ now \in 0..MaxTime
    /\ issued \subseteq [nonce : Nonce, key : Key]
    /\ challenges \subseteq [nonce : Nonce, key : Key, expiresAt : Nat]
    /\ sessions \subseteq [token : Token, key : Key, expiresAt : Nat]
    /\ signed \subseteq [signer : Key, key : Key, nonce : Nonce]
    /\ granted \subseteq [token : Token, key : Key, nonce : Nonce]
    /\ tried \subseteq Nonce /\ refused \subseteq Token

\* Behind each session that a token resolves to stands a signature made with the
\* session's own key over a challenge that the store issued for that key
\* (redeem, session.ts:93-105), across restarts and whatever others have signed.
SessionsAreProved ==
    \A s \in sessions : \E g \in granted :
        /\ g.token = s.token /\ g.key = s.key
        /\ [nonce |-> g.nonce, key |-> g.key] \in issued
        /\ Signature(g.key, g.key, g.nonce) \in signed

\* "The challenge is consumed whether or not verification succeeds, so a nonce
\* cannot be brute-forced by replaying signatures against it" (session.ts:81): a
\* session is never granted for a nonce that was tried before.
OneTryPerNonce == [][\A g \in granted' \ granted : g.nonce \notin tried]_storeVars

\* A token once refused is never good again, even when the clock that had run it
\* out is set back (the delete of resolve, session.ts:123, and of sweep, 141).
RefusedForGood == \A token \in refused : ~Good(token)

\* The shape of the store, and what stands behind each session in it
\* (session.ts:53-115).
StoreInvariant == SessionTypeOK /\ SessionsAreProved
=============================================================================
