----------------------------- MODULE AccountProofs -----------------------------
(***************************************************************************)
(* Who is who: theorems about Wallet, the account a page is connected to, for *)
(* every set of accounts and every bound on the extension's popups; and about *)
(* SessionStore, the sessions a server grants to a key, for any number of     *)
(* keys, challenges and sessions, any lifetimes and any clock.               *)
(***************************************************************************)
EXTENDS SessionStore, Wallet, TLAPS

-----------------------------------------------------------------------------
(* The session store.                                                       *)

\* Why a session is proved: it was granted, and a grant stands on a challenge
\* issued for its key and a signature made with it.  Why one try is enough: a
\* challenge that is still in memory was issued, and never tried.
Grounded ==
    /\ \A c \in challenges : [nonce |-> c.nonce, key |-> c.key] \in issued
    /\ \A s \in sessions : \E g \in granted : g.token = s.token /\ g.key = s.key
    /\ \A g \in granted :
        /\ [nonce |-> g.nonce, key |-> g.key] \in issued
        /\ Signature(g.key, g.key, g.nonce) \in signed

Untried ==
    /\ \A c \in challenges : c.nonce \notin tried
    /\ tried \subseteq Nonces(issued)

\* Why a refused token stays refused: it was granted, so no fresh one equals it,
\* and it has no session left in memory.
Gone ==
    /\ refused \subseteq Tokens(granted)
    /\ \A s \in sessions : s.token \notin refused

\* One try of the challenge, as the proofs use it: what a redeem may grant.
LEMMA RedeemGrants ==
    ASSUME NEW key \in Key, NEW nonce \in Nonces(issued), NEW signature \in signed,
           Redeem(key, nonce, signature)
    PROVE  \/ UNCHANGED <<sessions, granted>>
           \/ /\ Open(key, nonce) /\ signature = Signature(key, key, nonce)
              /\ \E token \in Token \ Tokens(granted) :
                    /\ sessions' = sessions \cup
                          {[token |-> token, key |-> key, expiresAt |-> now + SessionTtl]}
                    /\ granted' = granted \cup
                          {[token |-> token, key |-> key, nonce |-> nonce]}
BY DEF Redeem, Grants

\* The state keeps its shape.
LEMMA StoreTypeCorrect == StoreSpec => []SessionTypeOK
<1>1. StoreInit => SessionTypeOK
  BY StoreAssumption DEF StoreInit, SessionTypeOK
<1>2. ASSUME SessionTypeOK, [StoreNext]_storeVars PROVE SessionTypeOK'
  <2> USE <1>2 DEF SessionTypeOK
  <2>1. ASSUME NEW key \in Key, IssueChallenge(key) PROVE SessionTypeOK'
    BY <2>1, StoreAssumption DEF IssueChallenge, Unexpired
  <2>2. ASSUME NEW key \in Key, Sign(key) PROVE SessionTypeOK'
    BY <2>2 DEF Sign, Signature, memory
  <2>3. ASSUME NEW key \in Key, NEW nonce \in Nonces(issued), NEW signature \in signed,
               Redeem(key, nonce, signature)
        PROVE  SessionTypeOK'
    <3>1. nonce \in Nonce
      BY DEF Nonces
    <3>2. challenges' \subseteq challenges /\ tried' = tried \cup {nonce}
          /\ UNCHANGED <<now, issued, signed, refused>>
      BY <2>3 DEF Redeem
    <3>3. now + SessionTtl \in Nat
      BY StoreAssumption
    <3>4. /\ sessions' \subseteq [token : Token, key : Key, expiresAt : Nat]
          /\ granted' \subseteq [token : Token, key : Key, nonce : Nonce]
      BY <2>3, <3>1, <3>3, RedeemGrants
    <3> QED
      BY <3>1, <3>2, <3>4
  <2>4. ASSUME NEW token \in Tokens(granted), Resolve(token) PROVE SessionTypeOK'
    BY <2>4 DEF Resolve, Tokens
  <2>5. ASSUME Restart PROVE SessionTypeOK'
    BY <2>5 DEF Restart, memory
  <2>6. ASSUME Clock PROVE SessionTypeOK'
    BY <2>6 DEF Clock, memory
  <2>7. ASSUME UNCHANGED storeVars PROVE SessionTypeOK'
    BY <2>7 DEF storeVars, memory
  <2> QED
    BY <1>2, <2>1, <2>2, <2>3, <2>4, <2>5, <2>6, <2>7 DEF StoreNext
<1> QED
  BY <1>1, <1>2, PTL DEF StoreSpec

\* Every session, and every grant, stands on a challenge and on a signature.
LEMMA GroundedHolds == StoreSpec => []Grounded
<1>1. StoreInit => Grounded
  BY DEF StoreInit, Grounded
<1>2. ASSUME Grounded, [StoreNext]_storeVars PROVE Grounded'
  <2> USE <1>2 DEF Grounded
  <2>1. ASSUME NEW key \in Key, IssueChallenge(key) PROVE Grounded'
    BY <2>1 DEF IssueChallenge, Unexpired
  <2>2. ASSUME NEW key \in Key, Sign(key) PROVE Grounded'
    BY <2>2 DEF Sign, memory
  <2>3. ASSUME NEW key \in Key, NEW nonce \in Nonces(issued), NEW signature \in signed,
               Redeem(key, nonce, signature)
        PROVE  Grounded'
    <3>1. challenges' \subseteq challenges /\ UNCHANGED <<issued, signed>>
      BY <2>3 DEF Redeem
    <3>2. CASE UNCHANGED <<sessions, granted>>
      BY <3>1, <3>2
    <3>3. CASE /\ Open(key, nonce) /\ signature = Signature(key, key, nonce)
               /\ \E token \in Token \ Tokens(granted) :
                    /\ sessions' = sessions \cup
                          {[token |-> token, key |-> key, expiresAt |-> now + SessionTtl]}
                    /\ granted' = granted \cup
                          {[token |-> token, key |-> key, nonce |-> nonce]}
      <4>1. [nonce |-> nonce, key |-> key] \in issued
        BY <3>3 DEF Open
      <4>2. PICK token \in Token \ Tokens(granted) :
                /\ sessions' = sessions \cup
                      {[token |-> token, key |-> key, expiresAt |-> now + SessionTtl]}
                /\ granted' = granted \cup
                      {[token |-> token, key |-> key, nonce |-> nonce]}
        BY <3>3
      <4> DEFINE grant == [token |-> token, key |-> key, nonce |-> nonce]
      <4>3. /\ grant.token = token /\ grant.key = key /\ grant.nonce = nonce
            /\ granted' = granted \cup {grant}
        BY <4>2
      <4> HIDE DEF grant
      <4>4. \A s \in sessions' : s \in sessions \/ (s.token = token /\ s.key = key)
        BY <4>2
      <4>5. \A s \in sessions' : \E g \in granted' : g.token = s.token /\ g.key = s.key
        BY <4>3, <4>4
      <4>6. /\ [nonce |-> grant.nonce, key |-> grant.key] \in issued
            /\ Signature(grant.key, grant.key, grant.nonce) \in signed
        BY <3>3, <4>1, <4>3
      <4>7. \A g \in granted' : /\ [nonce |-> g.nonce, key |-> g.key] \in issued
                                /\ Signature(g.key, g.key, g.nonce) \in signed
        BY <4>3, <4>6
      <4> QED
        BY <3>1, <4>5, <4>7
    <3> QED
      BY <2>3, <3>2, <3>3, RedeemGrants
  <2>4. ASSUME NEW token \in Tokens(granted), Resolve(token) PROVE Grounded'
    BY <2>4 DEF Resolve
  <2>5. ASSUME Restart PROVE Grounded'
    BY <2>5 DEF Restart
  <2>6. ASSUME Clock PROVE Grounded'
    BY <2>6 DEF Clock, memory
  <2>7. ASSUME UNCHANGED storeVars PROVE Grounded'
    BY <2>7 DEF storeVars, memory
  <2> QED
    BY <1>2, <2>1, <2>2, <2>3, <2>4, <2>5, <2>6, <2>7 DEF StoreNext
<1> QED
  BY <1>1, <1>2, PTL DEF StoreSpec

\* A session's key signed a challenge issued for it.
LEMMA SessionsProved == StoreSpec => []SessionsAreProved
<1>1. Grounded => SessionsAreProved
  BY DEF Grounded, SessionsAreProved
<1> QED
  BY <1>1, GroundedHolds, PTL

\* The invariant of the session run (redeem, session.ts:85-115), for every store.
THEOREM StoreInvariantHolds == StoreSpec => []StoreInvariant
BY StoreTypeCorrect, SessionsProved, PTL DEF StoreInvariant

\* A challenge in memory has not been tried.
LEMMA UntriedHolds == StoreSpec => []Untried
<1>1. StoreInit => Untried
  BY DEF StoreInit, Untried
<1>2. ASSUME Untried, Grounded, [StoreNext]_storeVars PROVE Untried'
  <2> USE <1>2 DEF Untried
  <2>1. ASSUME NEW key \in Key, IssueChallenge(key) PROVE Untried'
    <3>1. PICK nonce \in Nonce \ Nonces(issued) :
            /\ issued' = issued \cup {[nonce |-> nonce, key |-> key]}
            /\ challenges' \subseteq challenges \cup
                  {[nonce |-> nonce, key |-> key, expiresAt |-> now + ChallengeTtl]}
            /\ tried' = tried
      BY <2>1 DEF IssueChallenge, Unexpired
    <3>2. Nonces(issued) \subseteq Nonces(issued')
      BY <3>1 DEF Nonces
    <3>3. nonce \notin tried
      BY <3>1
    <3> QED
      BY <3>1, <3>2, <3>3 DEF Nonces
  <2>2. ASSUME NEW key \in Key, Sign(key) PROVE Untried'
    BY <2>2 DEF Sign, memory, Nonces
  <2>3. ASSUME NEW key \in Key, NEW nonce \in Nonces(issued), NEW signature \in signed,
               Redeem(key, nonce, signature)
        PROVE  Untried'
    BY <2>3 DEF Redeem, Nonces
  <2>4. ASSUME NEW token \in Tokens(granted), Resolve(token) PROVE Untried'
    BY <2>4 DEF Resolve, Nonces
  <2>5. ASSUME Restart PROVE Untried'
    BY <2>5 DEF Restart, Nonces
  <2>6. ASSUME Clock PROVE Untried'
    BY <2>6 DEF Clock, memory, Nonces
  <2>7. ASSUME UNCHANGED storeVars PROVE Untried'
    BY <2>7 DEF storeVars, memory, Nonces
  <2> QED
    BY <1>2, <2>1, <2>2, <2>3, <2>4, <2>5, <2>6, <2>7 DEF StoreNext
<1> QED
  BY <1>1, <1>2, GroundedHolds, PTL DEF StoreSpec

\* A challenge is good for one try: no grant for a nonce that was tried before.
THEOREM OneTry == StoreSpec => OneTryPerNonce
<1>1. ASSUME Untried, [StoreNext]_storeVars
      PROVE  [\A g \in granted' \ granted : g.nonce \notin tried]_storeVars
  <2>1. ASSUME NEW key \in Key, NEW nonce \in Nonces(issued), NEW signature \in signed,
               Redeem(key, nonce, signature)
        PROVE  \A g \in granted' \ granted : g.nonce \notin tried
    BY <1>1, <2>1, RedeemGrants DEF Untried, Open
  <2>2. ASSUME ~ \E key \in Key, nonce \in Nonces(issued), signature \in signed :
                    Redeem(key, nonce, signature)
        PROVE  granted' = granted
    BY <1>1, <2>2 DEF StoreNext, IssueChallenge, Sign, Resolve, Restart, Clock, storeVars
  <2> QED
    BY <2>1, <2>2
<1> QED
  BY <1>1, UntriedHolds, PTL DEF StoreSpec, OneTryPerNonce

\* A token refused has no session, and never gets one.
LEMMA GoneHolds == StoreSpec => []Gone
<1>1. StoreInit => Gone
  BY DEF StoreInit, Gone
<1>2. ASSUME Gone, [StoreNext]_storeVars PROVE Gone'
  <2> USE <1>2 DEF Gone
  <2>1. ASSUME NEW key \in Key, IssueChallenge(key) PROVE Gone'
    BY <2>1 DEF IssueChallenge, Unexpired, Tokens
  <2>2. ASSUME NEW key \in Key, Sign(key) PROVE Gone'
    BY <2>2 DEF Sign, memory, Tokens
  <2>3. ASSUME NEW key \in Key, NEW nonce \in Nonces(issued), NEW signature \in signed,
               Redeem(key, nonce, signature)
        PROVE  Gone'
    <3>1. refused' = refused
      BY <2>3 DEF Redeem
    <3>2. Tokens(granted) \subseteq Tokens(granted')
      BY <2>3, RedeemGrants DEF Tokens
    <3>3. \A s \in sessions' : s.token \notin refused
      BY <2>3, RedeemGrants
    <3> QED
      BY <3>1, <3>2, <3>3
  <2>4. ASSUME NEW token \in Tokens(granted), Resolve(token) PROVE Gone'
    BY <2>4 DEF Resolve, Tokens
  <2>5. ASSUME Restart PROVE Gone'
    BY <2>5 DEF Restart, Tokens
  <2>6. ASSUME Clock PROVE Gone'
    BY <2>6 DEF Clock, memory, Tokens
  <2>7. ASSUME UNCHANGED storeVars PROVE Gone'
    BY <2>7 DEF storeVars, memory, Tokens
  <2> QED
    BY <1>2, <2>1, <2>2, <2>3, <2>4, <2>5, <2>6, <2>7 DEF StoreNext
<1> QED
  BY <1>1, <1>2, PTL DEF StoreSpec

\* What has been refused is never good again.
THEOREM Refused == StoreSpec => []RefusedForGood
<1>1. Gone => RefusedForGood
  BY DEF Gone, RefusedForGood, Good
<1> QED
  BY <1>1, GoneHolds, PTL

-----------------------------------------------------------------------------
(* The wallet: the inductive invariant.                                     *)

\* The type of the state, in the parts the proofs speak of.
KindsOK ==
    /\ sdk \in {"loading", "late", "ready"}
    /\ sdkAccount \in Maybe /\ clickAccount \in Maybe /\ directKey \in Maybe
    /\ first \in {"none", "asked", "found"} /\ found \in Maybe
    /\ sending \in {"no", "sign", "relay", "sdk"}
    /\ outcome \in {"none", "cancelled", "hash", "error", "nothing"}

FlagsOK ==
    /\ haveAccount \in BOOLEAN /\ timer \in BOOLEAN
    /\ asked \in BOOLEAN /\ left \in BOOLEAN /\ loose \in BOOLEAN
    /\ handedOver \in BOOLEAN /\ declined \in BOOLEAN /\ extension \in BOOLEAN

\* The extension's calls are counted, and the pending timer leaves room for the
\* popup it may open.
PopupsCounted ==
    /\ popups \in Nat /\ approved \in Nat
    /\ popups + approved <= MaxPopups
    /\ timer = TRUE => popups + approved < MaxPopups

\* The timer is set while the ref holds no account, and the effect that changes
\* the ref clears it.
TimerOnlyUnmirrored == timer => ~haveAccount

\* Until it is at the relay a deploy has not been handed over.
HandedOverAtTheRelay == sending \in {"sign", "sdk"} => ~handedOver

\* Once the user has left with nothing under way, nothing is under way until
\* they ask for more.
NothingUnderWay ==
    left /\ ~loose =>
        /\ clickAccount = None /\ directKey = None /\ sdk = "ready" /\ ~timer
        /\ ~(popups + approved > 0) /\ first = "none"

WalletInductive ==
    /\ KindsOK
    /\ FlagsOK
    /\ PopupsCounted
    /\ TimerOnlyUnmirrored
    /\ HandedOverAtTheRelay
    /\ NothingUnderWay

-----------------------------------------------------------------------------

USE WalletAssumption

\* The page starts with the invariant.
LEMMA WalletStarts == Init => WalletInductive
<1> SUFFICES ASSUME Init PROVE WalletInductive
  OBVIOUS
<1>1. KindsOK
  BY DEF Init, KindsOK, Maybe
<1>2. FlagsOK
  BY DEF Init, FlagsOK
<1>3. PopupsCounted
  BY DEF Init, PopupsCounted
<1>4. TimerOnlyUnmirrored /\ HandedOverAtTheRelay /\ NothingUnderWay
  BY DEF Init, TimerOnlyUnmirrored, HandedOverAtTheRelay, NothingUnderWay
<1>5. QED
  BY <1>1, <1>2, <1>3, <1>4 DEF WalletInductive

\* The SDK's steps; its account may come at any time, but its first answer is
\* not awaited by a user who left with nothing under way.
LEMMA SdkKeeps ==
    ASSUME WalletInductive, Sdk \/ (\E a \in Account : SignedIn(a))
    PROVE  WalletInductive'
<1>1. CASE Adopt
  <2>1. KindsOK'
    BY <1>1 DEF Adopt, sendVars, WalletInductive, KindsOK, Maybe
  <2>2. FlagsOK'
    BY <1>1 DEF Adopt, sendVars, WalletInductive, FlagsOK
  <2>3. PopupsCounted'
    BY <1>1 DEF Adopt, sendVars, WalletInductive, FlagsOK, PopupsCounted
  <2>4. TimerOnlyUnmirrored'
    BY <1>1 DEF Adopt, sendVars, WalletInductive, FlagsOK, TimerOnlyUnmirrored, account
  <2>5. HandedOverAtTheRelay'
    BY <1>1 DEF Adopt, sendVars, WalletInductive, HandedOverAtTheRelay
  <2>6. NothingUnderWay'
    BY <1>1 DEF Adopt, sendVars, WalletInductive, FlagsOK, NothingUnderWay, PopupsCounted, account
  <2>7. QED
    BY <2>1, <2>2, <2>3, <2>4, <2>5, <2>6 DEF WalletInductive
<1>2. CASE StopPolling
  <2>1. KindsOK'
    BY <1>2 DEF StopPolling, sendVars, WalletInductive, KindsOK, Maybe
  <2>2. FlagsOK'
    BY <1>2 DEF StopPolling, sendVars, WalletInductive, FlagsOK
  <2>3. PopupsCounted'
    BY <1>2 DEF StopPolling, sendVars, WalletInductive, FlagsOK, PopupsCounted
  <2>4. TimerOnlyUnmirrored'
    BY <1>2 DEF StopPolling, sendVars, WalletInductive, FlagsOK, TimerOnlyUnmirrored, account
  <2>5. HandedOverAtTheRelay'
    BY <1>2 DEF StopPolling, sendVars, WalletInductive, HandedOverAtTheRelay
  <2>6. NothingUnderWay'
    BY <1>2 DEF StopPolling, sendVars, WalletInductive, FlagsOK, NothingUnderWay, PopupsCounted, account
  <2>7. QED
    BY <2>1, <2>2, <2>3, <2>4, <2>5, <2>6 DEF WalletInductive
<1>3. CASE SdkAnswers
  <2>1. KindsOK'
    BY <1>3 DEF SdkAnswers, sendVars, WalletInductive, KindsOK, Maybe
  <2>2. FlagsOK'
    BY <1>3 DEF SdkAnswers, sendVars, WalletInductive, FlagsOK
  <2>3. PopupsCounted'
    BY <1>3 DEF SdkAnswers, sendVars, WalletInductive, FlagsOK, PopupsCounted
  <2>4. TimerOnlyUnmirrored'
    BY <1>3 DEF SdkAnswers, sendVars, WalletInductive, FlagsOK, TimerOnlyUnmirrored, account
  <2>5. HandedOverAtTheRelay'
    BY <1>3 DEF SdkAnswers, sendVars, WalletInductive, HandedOverAtTheRelay
  <2>6. NothingUnderWay'
    BY <1>3 DEF SdkAnswers, sendVars, WalletInductive, FlagsOK, NothingUnderWay, PopupsCounted, account
  <2>7. QED
    BY <2>1, <2>2, <2>3, <2>4, <2>5, <2>6 DEF WalletInductive
<1>4. CASE TakeFirst
  <2>1. KindsOK'
    BY <1>4 DEF TakeFirst, sendVars, WalletInductive, KindsOK, Maybe
  <2>2. FlagsOK'
    BY <1>4 DEF TakeFirst, sendVars, WalletInductive, FlagsOK
  <2>3. PopupsCounted'
    BY <1>4 DEF TakeFirst, sendVars, WalletInductive, FlagsOK, PopupsCounted
  <2>4. TimerOnlyUnmirrored'
    BY <1>4 DEF TakeFirst, sendVars, WalletInductive, FlagsOK, TimerOnlyUnmirrored, account
  <2>5. HandedOverAtTheRelay'
    BY <1>4 DEF TakeFirst, sendVars, WalletInductive, HandedOverAtTheRelay
  <2>6. NothingUnderWay'
    BY <1>4 DEF TakeFirst, sendVars, WalletInductive, FlagsOK, NothingUnderWay, PopupsCounted, account
  <2>7. QED
    BY <2>1, <2>2, <2>3, <2>4, <2>5, <2>6 DEF WalletInductive
<1>5. CASE SignedOut
  <2>1. KindsOK'
    BY <1>5 DEF SignedOut, sendVars, WalletInductive, KindsOK, Maybe
  <2>2. FlagsOK'
    BY <1>5 DEF SignedOut, sendVars, WalletInductive, FlagsOK
  <2>3. PopupsCounted'
    BY <1>5 DEF SignedOut, sendVars, WalletInductive, FlagsOK, PopupsCounted
  <2>4. TimerOnlyUnmirrored'
    BY <1>5 DEF SignedOut, sendVars, WalletInductive, FlagsOK, TimerOnlyUnmirrored, account
  <2>5. HandedOverAtTheRelay'
    BY <1>5 DEF SignedOut, sendVars, WalletInductive, HandedOverAtTheRelay
  <2>6. NothingUnderWay'
    BY <1>5 DEF SignedOut, sendVars, WalletInductive, FlagsOK, NothingUnderWay, PopupsCounted, account
  <2>7. QED
    BY <2>1, <2>2, <2>3, <2>4, <2>5, <2>6 DEF WalletInductive
<1>6. CASE \E a \in Account : SignedIn(a)
  <2>1. KindsOK'
    BY <1>6 DEF SignedIn, sendVars, WalletInductive, KindsOK, Maybe
  <2>2. FlagsOK'
    BY <1>6 DEF SignedIn, sendVars, WalletInductive, FlagsOK
  <2>3. PopupsCounted'
    BY <1>6 DEF SignedIn, sendVars, WalletInductive, FlagsOK, PopupsCounted
  <2>4. TimerOnlyUnmirrored'
    BY <1>6 DEF SignedIn, sendVars, WalletInductive, FlagsOK, TimerOnlyUnmirrored, account
  <2>5. HandedOverAtTheRelay'
    BY <1>6 DEF SignedIn, sendVars, WalletInductive, HandedOverAtTheRelay
  <2>6. NothingUnderWay'
    BY <1>6 DEF SignedIn, sendVars, WalletInductive, FlagsOK, NothingUnderWay, PopupsCounted, account
  <2>7. QED
    BY <2>1, <2>2, <2>3, <2>4, <2>5, <2>6 DEF WalletInductive
<1>7. QED
  BY <1>1, <1>2, <1>3, <1>4, <1>5, <1>6 DEF Sdk

\* The extension's answers take from what is under way; the key comes to a page
\* that still had a call open.
LEMMA ExtensionKeeps ==
    ASSUME WalletInductive, Extension \/ (\E a \in Account : DirectConnects(a))
    PROVE  WalletInductive'
<1>1. CASE Approve
  <2>1. KindsOK'
    BY <1>1 DEF Approve, sendVars, WalletInductive, KindsOK, Maybe
  <2>2. FlagsOK'
    BY <1>1 DEF Approve, sendVars, WalletInductive, FlagsOK
  <2>3. PopupsCounted'
    BY <1>1 DEF Approve, sendVars, WalletInductive, FlagsOK, PopupsCounted
  <2>4. TimerOnlyUnmirrored'
    BY <1>1 DEF Approve, sendVars, WalletInductive, FlagsOK, TimerOnlyUnmirrored, account
  <2>5. HandedOverAtTheRelay'
    BY <1>1 DEF Approve, sendVars, WalletInductive, HandedOverAtTheRelay
  <2>6. NothingUnderWay'
    BY <1>1 DEF Approve, sendVars, WalletInductive, FlagsOK, NothingUnderWay, PopupsCounted, account
  <2>7. QED
    BY <2>1, <2>2, <2>3, <2>4, <2>5, <2>6 DEF WalletInductive
<1>2. CASE DirectFails
  <2>1. KindsOK'
    BY <1>2 DEF DirectFails, sendVars, WalletInductive, KindsOK, Maybe
  <2>2. FlagsOK'
    BY <1>2 DEF DirectFails, sendVars, WalletInductive, FlagsOK
  <2>3. PopupsCounted'
    BY <1>2 DEF DirectFails, sendVars, WalletInductive, FlagsOK, PopupsCounted
  <2>4. TimerOnlyUnmirrored'
    BY <1>2 DEF DirectFails, sendVars, WalletInductive, FlagsOK, TimerOnlyUnmirrored, account
  <2>5. HandedOverAtTheRelay'
    BY <1>2 DEF DirectFails, sendVars, WalletInductive, HandedOverAtTheRelay
  <2>6. NothingUnderWay'
    BY <1>2 DEF DirectFails, sendVars, WalletInductive, FlagsOK, NothingUnderWay, PopupsCounted, account
  <2>7. QED
    BY <2>1, <2>2, <2>3, <2>4, <2>5, <2>6 DEF WalletInductive
<1>3. CASE \E a \in Account : DirectConnects(a)
  <2>1. KindsOK'
    BY <1>3 DEF DirectConnects, sendVars, WalletInductive, KindsOK, Maybe
  <2>2. FlagsOK'
    BY <1>3 DEF DirectConnects, sendVars, WalletInductive, FlagsOK
  <2>3. PopupsCounted'
    BY <1>3 DEF DirectConnects, sendVars, WalletInductive, FlagsOK, PopupsCounted
  <2>4. TimerOnlyUnmirrored'
    BY <1>3 DEF DirectConnects, sendVars, WalletInductive, FlagsOK, TimerOnlyUnmirrored, account
  <2>5. HandedOverAtTheRelay'
    BY <1>3 DEF DirectConnects, sendVars, WalletInductive, HandedOverAtTheRelay
  <2>6. NothingUnderWay'
    BY <1>3 DEF DirectConnects, sendVars, WalletInductive, FlagsOK, NothingUnderWay, PopupsCounted, account
  <2>7. QED
    BY <2>1, <2>2, <2>3, <2>4, <2>5, <2>6 DEF WalletInductive
<1>4. QED
  BY <1>1, <1>2, <1>3 DEF Extension

\* The page's own: its effect, its timer and the two buttons.
LEMMA PageKeeps ==
    ASSUME WalletInductive, Page
    PROVE  WalletInductive'
<1>1. CASE RunEffect
  <2>1. KindsOK'
    BY <1>1 DEF RunEffect, sendVars, WalletInductive, KindsOK, Maybe
  <2>2. FlagsOK'
    BY <1>1 DEF RunEffect, sendVars, WalletInductive, FlagsOK
  <2>3. PopupsCounted'
    BY <1>1 DEF RunEffect, sendVars, WalletInductive, FlagsOK, PopupsCounted
  <2>4. TimerOnlyUnmirrored'
    BY <1>1 DEF RunEffect, sendVars, WalletInductive, FlagsOK, TimerOnlyUnmirrored, Mirrored, account
  <2>5. HandedOverAtTheRelay'
    BY <1>1 DEF RunEffect, sendVars, WalletInductive, HandedOverAtTheRelay
  <2>6. NothingUnderWay'
    BY <1>1 DEF RunEffect, sendVars, WalletInductive, FlagsOK, NothingUnderWay, PopupsCounted, account
  <2>7. QED
    BY <2>1, <2>2, <2>3, <2>4, <2>5, <2>6 DEF WalletInductive
<1>2. CASE Connect
  <2>1. KindsOK'
    BY <1>2 DEF Connect, OfferConnect, sendVars, WalletInductive, KindsOK, Maybe
  <2>2. FlagsOK'
    BY <1>2 DEF Connect, OfferConnect, sendVars, WalletInductive, FlagsOK
  <2>3. PopupsCounted'
    BY <1>2 DEF Connect, OfferConnect, sendVars, WalletInductive, FlagsOK, PopupsCounted
  <2>4. TimerOnlyUnmirrored'
    BY <1>2 DEF Connect, OfferConnect, sendVars, WalletInductive, FlagsOK, TimerOnlyUnmirrored, Mirrored, account
  <2>5. HandedOverAtTheRelay'
    BY <1>2 DEF Connect, OfferConnect, sendVars, WalletInductive, HandedOverAtTheRelay
  <2>6. NothingUnderWay'
    BY <1>2 DEF Connect, OfferConnect, sendVars, WalletInductive, FlagsOK, NothingUnderWay, PopupsCounted, account
  <2>7. QED
    BY <2>1, <2>2, <2>3, <2>4, <2>5, <2>6 DEF WalletInductive
<1>3. CASE TimerFires
  <2>1. KindsOK'
    BY <1>3 DEF TimerFires, RunDirect, sendVars, WalletInductive, KindsOK, Maybe
  <2>2. FlagsOK'
    BY <1>3 DEF TimerFires, RunDirect, sendVars, WalletInductive, FlagsOK
  <2>3. PopupsCounted'
    BY <1>3 DEF TimerFires, RunDirect, sendVars, WalletInductive, FlagsOK, PopupsCounted
  <2>4. TimerOnlyUnmirrored'
    BY <1>3 DEF TimerFires, RunDirect, sendVars, WalletInductive, FlagsOK, TimerOnlyUnmirrored, Mirrored, account
  <2>5. HandedOverAtTheRelay'
    BY <1>3 DEF TimerFires, RunDirect, sendVars, WalletInductive, HandedOverAtTheRelay
  <2>6. NothingUnderWay'
    BY <1>3 DEF TimerFires, RunDirect, sendVars, WalletInductive, FlagsOK, NothingUnderWay, PopupsCounted, account
  <2>7. QED
    BY <2>1, <2>2, <2>3, <2>4, <2>5, <2>6 DEF WalletInductive
<1>4. CASE Disconnect
  <2>1. KindsOK'
    BY <1>4 DEF Disconnect, OfferDisconnect, sendVars, WalletInductive, KindsOK, Maybe
  <2>2. FlagsOK'
    BY <1>4 DEF Disconnect, OfferDisconnect, sendVars, WalletInductive, FlagsOK
  <2>3. PopupsCounted'
    BY <1>4 DEF Disconnect, OfferDisconnect, sendVars, WalletInductive, FlagsOK, PopupsCounted
  <2>4. TimerOnlyUnmirrored'
    BY <1>4 DEF Disconnect, OfferDisconnect, sendVars, WalletInductive, FlagsOK, TimerOnlyUnmirrored, Mirrored, account
  <2>5. HandedOverAtTheRelay'
    BY <1>4 DEF Disconnect, OfferDisconnect, sendVars, WalletInductive, HandedOverAtTheRelay
  <2>6. NothingUnderWay'
    BY <1>4 DEF Disconnect, OfferDisconnect, sendVars, WalletInductive, FlagsOK, NothingUnderWay, PopupsCounted, account
  <2>7. QED
    BY <2>1, <2>2, <2>3, <2>4, <2>5, <2>6 DEF WalletInductive
<1>5. QED
  BY <1>1, <1>2, <1>3, <1>4 DEF Page

\* sendDeploy, which the connection does not feel.
LEMMA SendKeeps ==
    ASSUME WalletInductive, Send
    PROVE  WalletInductive'
<1>1. CASE StartSend
  <2>1. KindsOK'
    BY <1>1 DEF StartSend, Returns, linkVars, WalletInductive, KindsOK, Maybe
  <2>2. FlagsOK'
    BY <1>1 DEF StartSend, Returns, linkVars, WalletInductive, FlagsOK
  <2>3. PopupsCounted'
    BY <1>1 DEF StartSend, Returns, linkVars, WalletInductive, FlagsOK, PopupsCounted
  <2>4. TimerOnlyUnmirrored'
    BY <1>1 DEF StartSend, Returns, linkVars, WalletInductive, FlagsOK, TimerOnlyUnmirrored
  <2>5. HandedOverAtTheRelay'
    BY <1>1 DEF StartSend, Returns, linkVars, WalletInductive, HandedOverAtTheRelay
  <2>6. NothingUnderWay'
    BY <1>1 DEF StartSend, Returns, linkVars, WalletInductive, NothingUnderWay
  <2>7. QED
    BY <2>1, <2>2, <2>3, <2>4, <2>5, <2>6 DEF WalletInductive
<1>2. CASE Declines
  <2>1. KindsOK'
    BY <1>2 DEF Declines, Returns, linkVars, WalletInductive, KindsOK, Maybe
  <2>2. FlagsOK'
    BY <1>2 DEF Declines, Returns, linkVars, WalletInductive, FlagsOK
  <2>3. PopupsCounted'
    BY <1>2 DEF Declines, Returns, linkVars, WalletInductive, FlagsOK, PopupsCounted
  <2>4. TimerOnlyUnmirrored'
    BY <1>2 DEF Declines, Returns, linkVars, WalletInductive, FlagsOK, TimerOnlyUnmirrored
  <2>5. HandedOverAtTheRelay'
    BY <1>2 DEF Declines, Returns, linkVars, WalletInductive, HandedOverAtTheRelay
  <2>6. NothingUnderWay'
    BY <1>2 DEF Declines, Returns, linkVars, WalletInductive, NothingUnderWay
  <2>7. QED
    BY <2>1, <2>2, <2>3, <2>4, <2>5, <2>6 DEF WalletInductive
<1>3. CASE Signs
  <2>1. KindsOK'
    BY <1>3 DEF Signs, Returns, linkVars, WalletInductive, KindsOK, Maybe
  <2>2. FlagsOK'
    BY <1>3 DEF Signs, Returns, linkVars, WalletInductive, FlagsOK
  <2>3. PopupsCounted'
    BY <1>3 DEF Signs, Returns, linkVars, WalletInductive, FlagsOK, PopupsCounted
  <2>4. TimerOnlyUnmirrored'
    BY <1>3 DEF Signs, Returns, linkVars, WalletInductive, FlagsOK, TimerOnlyUnmirrored
  <2>5. HandedOverAtTheRelay'
    BY <1>3 DEF Signs, Returns, linkVars, WalletInductive, HandedOverAtTheRelay
  <2>6. NothingUnderWay'
    BY <1>3 DEF Signs, Returns, linkVars, WalletInductive, NothingUnderWay
  <2>7. QED
    BY <2>1, <2>2, <2>3, <2>4, <2>5, <2>6 DEF WalletInductive
<1>4. CASE RelayAccepts
  <2>1. KindsOK'
    BY <1>4 DEF RelayAccepts, Returns, linkVars, WalletInductive, KindsOK, Maybe
  <2>2. FlagsOK'
    BY <1>4 DEF RelayAccepts, Returns, linkVars, WalletInductive, FlagsOK
  <2>3. PopupsCounted'
    BY <1>4 DEF RelayAccepts, Returns, linkVars, WalletInductive, FlagsOK, PopupsCounted
  <2>4. TimerOnlyUnmirrored'
    BY <1>4 DEF RelayAccepts, Returns, linkVars, WalletInductive, FlagsOK, TimerOnlyUnmirrored
  <2>5. HandedOverAtTheRelay'
    BY <1>4 DEF RelayAccepts, Returns, linkVars, WalletInductive, HandedOverAtTheRelay
  <2>6. NothingUnderWay'
    BY <1>4 DEF RelayAccepts, Returns, linkVars, WalletInductive, NothingUnderWay
  <2>7. QED
    BY <2>1, <2>2, <2>3, <2>4, <2>5, <2>6 DEF WalletInductive
<1>5. CASE ExtensionFails
  <2>1. KindsOK'
    BY <1>5 DEF ExtensionFails, Returns, linkVars, WalletInductive, KindsOK, Maybe
  <2>2. FlagsOK'
    BY <1>5 DEF ExtensionFails, Returns, linkVars, WalletInductive, FlagsOK
  <2>3. PopupsCounted'
    BY <1>5 DEF ExtensionFails, Returns, linkVars, WalletInductive, FlagsOK, PopupsCounted
  <2>4. TimerOnlyUnmirrored'
    BY <1>5 DEF ExtensionFails, Returns, linkVars, WalletInductive, FlagsOK, TimerOnlyUnmirrored
  <2>5. HandedOverAtTheRelay'
    BY <1>5 DEF ExtensionFails, Returns, linkVars, WalletInductive, HandedOverAtTheRelay
  <2>6. NothingUnderWay'
    BY <1>5 DEF ExtensionFails, Returns, linkVars, WalletInductive, NothingUnderWay
  <2>7. QED
    BY <2>1, <2>2, <2>3, <2>4, <2>5, <2>6 DEF WalletInductive
<1>6. CASE NoExtension
  <2>1. KindsOK'
    BY <1>6 DEF NoExtension, Returns, linkVars, WalletInductive, KindsOK, Maybe
  <2>2. FlagsOK'
    BY <1>6 DEF NoExtension, Returns, linkVars, WalletInductive, FlagsOK
  <2>3. PopupsCounted'
    BY <1>6 DEF NoExtension, Returns, linkVars, WalletInductive, FlagsOK, PopupsCounted
  <2>4. TimerOnlyUnmirrored'
    BY <1>6 DEF NoExtension, Returns, linkVars, WalletInductive, FlagsOK, TimerOnlyUnmirrored
  <2>5. HandedOverAtTheRelay'
    BY <1>6 DEF NoExtension, Returns, linkVars, WalletInductive, HandedOverAtTheRelay
  <2>6. NothingUnderWay'
    BY <1>6 DEF NoExtension, Returns, linkVars, WalletInductive, NothingUnderWay
  <2>7. QED
    BY <2>1, <2>2, <2>3, <2>4, <2>5, <2>6 DEF WalletInductive
<1>7. CASE SdkReturns
  <2>1. KindsOK'
    BY <1>7 DEF SdkReturns, Returns, linkVars, WalletInductive, KindsOK, Maybe
  <2>2. FlagsOK'
    BY <1>7 DEF SdkReturns, Returns, linkVars, WalletInductive, FlagsOK
  <2>3. PopupsCounted'
    BY <1>7 DEF SdkReturns, Returns, linkVars, WalletInductive, FlagsOK, PopupsCounted
  <2>4. TimerOnlyUnmirrored'
    BY <1>7 DEF SdkReturns, Returns, linkVars, WalletInductive, FlagsOK, TimerOnlyUnmirrored
  <2>5. HandedOverAtTheRelay'
    BY <1>7 DEF SdkReturns, Returns, linkVars, WalletInductive, HandedOverAtTheRelay
  <2>6. NothingUnderWay'
    BY <1>7 DEF SdkReturns, Returns, linkVars, WalletInductive, NothingUnderWay
  <2>7. QED
    BY <2>1, <2>2, <2>3, <2>4, <2>5, <2>6 DEF WalletInductive
<1>8. QED
  BY <1>1, <1>2, <1>3, <1>4, <1>5, <1>6, <1>7 DEF Send

\* No order of SDK events, extension answers, timers, effects and clicks breaks
\* what the page keeps.
THEOREM WalletInductiveHolds == Spec => []WalletInductive
<1>1. WalletInductive /\ [Next]_vars => WalletInductive'
  <2> SUFFICES ASSUME WalletInductive, [Next]_vars PROVE WalletInductive'
    OBVIOUS
  <2>1. CASE UNCHANGED vars
    BY <2>1 DEF vars, linkVars, sendVars, WalletInductive, KindsOK, FlagsOK, PopupsCounted,
                TimerOnlyUnmirrored, HandedOverAtTheRelay, NothingUnderWay
  <2>2. QED
    BY <2>1, SdkKeeps, ExtensionKeeps, PageKeeps, SendKeeps DEF Next
<1>2. QED
  BY <1>1, WalletStarts, PTL DEF Spec

\* The page's state has its type, the grace timer runs only while there is no
\* account, and a deploy handed to the relay is not handed to the SDK as well
\* (wallet.tsx:182-188 and 264-273).
THEOREM WalletInvariantHolds == Spec => []WalletInvariant
<1>1. WalletInductive => WalletTypeOK
  <2> SUFFICES ASSUME WalletInductive PROVE WalletTypeOK
    OBVIOUS
  <2>1. popups + approved \in 0..MaxPopups
    BY DEF WalletInductive, PopupsCounted
  <2>2. QED
    BY <2>1 DEF WalletInductive, KindsOK, FlagsOK, WalletTypeOK
<1>2. WalletInductive => TimerOnlyWithoutAccount /\ NeverSentBothWays
  BY DEF WalletInductive, FlagsOK, TimerOnlyUnmirrored, HandedOverAtTheRelay,
         TimerOnlyWithoutAccount, NeverSentBothWays, Mirrored
<1>3. QED
  BY <1>1, <1>2, WalletInductiveHolds, PTL DEF WalletInvariant

\* Who disconnects with nothing under way stays disconnected until they ask for
\* more (wallet.tsx:217-230).
THEOREM DisconnectAlwaysHolds == Spec => []DisconnectHolds
<1>1. WalletInductive => DisconnectHolds
  BY DEF WalletInductive, NothingUnderWay, DisconnectHolds, account
<1>2. QED
  BY <1>1, WalletInductiveHolds, PTL
===============================================================================
