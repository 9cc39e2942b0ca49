-------------------------------- MODULE Wallet --------------------------------
(***************************************************************************)
(* The wallet of the page: WalletProvider (web/lib/wallet.tsx), the extension *)
(* path beside it (directWallet.ts) and the button (WalletButton.tsx).       *)
(*                                                                         *)
(* There are two ways to a key: the CSPR.click SDK, which reports by events,  *)
(* and the extension, which answers promises.  connect() starts the first and *)
(* a timer that starts the second.  Between them come the user's clicks and   *)
(* React, which runs an effect some time after the state it looks at is set.  *)
(* The SDK and the extension are not part of the repository: they may do what *)
(* their interfaces allow.                                                  *)
(***************************************************************************)
EXTENDS Naturals

CONSTANTS
    Account,
    None,
    MaxPopups  \* bound: connection requests open in the extension

ASSUME WalletAssumption == None \notin Account /\ MaxPopups \in Nat \ {0}

VARIABLES
    sdk,          \* "loading", "late" (no longer polled for) or "ready"
    sdkAccount,   \* the SDK's active account, or None
    clickAccount, \* what the page took over from the SDK, or None
    directKey,    \* what the extension answered, or None
    haveAccount,  \* the ref that mirrors `account`
    timer,        \* graceTimer is set
    first,        \* getActiveAccountAsync: "none", "asked" or "found"
    found,        \* its answer, when found
    popups,       \* the requestConnection calls under way
    approved,     \* the getActivePublicKey calls under way
    asked,        \* the user clicked Connect, and nothing has come of it yet
    left,         \* the user clicked Disconnect, and has not asked for more
    loose,        \* something was under way when they did
    extension,    \* there is an extension in this browser
    sending,      \* where sendDeploy is: "no", "sign", "relay" or "sdk"
    handedOver,   \* the deploy went to the relay
    declined,     \* the user declined it
    outcome       \* "none", "cancelled", "hash", "error", "nothing"

linkVars == <<sdk, sdkAccount, clickAccount, directKey, haveAccount, timer, first,
              found, popups, approved, asked, left, loose, extension>>
sendVars == <<sending, handedOver, declined, outcome>>
vars     == <<linkVars, sendVars>>

-----------------------------------------------------------------------------

Maybe == Account \cup {None}

account == IF clickAccount # None THEN clickAccount ELSE directKey

Init ==
    /\ sdk = "loading"
    /\ sdkAccount \in Maybe
    /\ clickAccount = None
    /\ directKey = None
    /\ haveAccount = FALSE
    /\ timer = FALSE
    /\ first = "none"
    /\ found = None
    /\ popups = 0
    /\ approved = 0
    /\ asked = FALSE
    /\ left = FALSE
    /\ loose = FALSE
    /\ extension \in BOOLEAN
    /\ sending = "no"
    /\ handedOver = FALSE
    /\ declined = FALSE
    /\ outcome = "none"

-----------------------------------------------------------------------------
(* The SDK.                                                                 *)

\* adopt(): the runtime is there, its events are wired and its account asked for.
Adopt ==
    /\ sdk # "ready"
    /\ sdk' = "ready"
    /\ first' = "asked"
    /\ UNCHANGED <<found, sdkAccount, clickAccount, directKey, haveAccount,
                   timer, popups, approved, asked, left, loose, extension,
                   sendVars>>

\* Twenty seconds without it: the page stops looking.
StopPolling ==
    /\ sdk = "loading"
    /\ sdk' = "late"
    /\ UNCHANGED <<sdkAccount, clickAccount, directKey, haveAccount, timer,
                   first, found, popups, approved, asked, left, loose,
                   extension, sendVars>>

\* The SDK makes up its answer to getActiveAccountAsync, or fails it.
SdkAnswers ==
    /\ first = "asked"
    /\ \/ first' = "found" /\ found' = sdkAccount
       \/ first' = "none" /\ UNCHANGED found
    /\ UNCHANGED <<sdk, sdkAccount, clickAccount, directKey, haveAccount, timer,
                   popups, approved, asked, left, loose, extension, sendVars>>

\* The answer reaches the page, which takes it whatever has happened since.
TakeFirst ==
    /\ first = "found"
    /\ clickAccount' = found
    /\ first' = "none"
    /\ found' = None
    /\ asked' = (asked /\ found = None)
    /\ UNCHANGED <<sdk, sdkAccount, directKey, haveAccount, timer, popups,
                   approved, left, loose, extension, sendVars>>

\* The user signs in or switches in the SDK's own modal; the event makes the page
\* read the active account.
SignedIn(a) ==
    /\ sdk = "ready"
    /\ sdkAccount' = a
    /\ clickAccount' = a
    /\ left' = FALSE
    /\ asked' = FALSE
    /\ UNCHANGED <<sdk, directKey, haveAccount, timer, first, found, popups,
                   approved, loose, extension, sendVars>>

\* Signed out or disconnected on the SDK's side.
SignedOut ==
    /\ sdk = "ready"
    /\ sdkAccount' = None
    /\ clickAccount' = None
    /\ UNCHANGED <<sdk, directKey, haveAccount, timer, first, found, popups,
                   approved, asked, left, loose, extension, sendVars>>

-----------------------------------------------------------------------------
(* The extension.                                                           *)

\* connectDirect() has the extension open its approval popup; without one it
\* throws, which runDirect logs.
RunDirect ==
    \/ extension /\ popups' = popups + 1 /\ asked' = FALSE
    \/ ~extension /\ UNCHANGED <<popups, asked>>

\* The user approves, and the page asks for the active key.
Approve ==
    /\ popups > 0
    /\ popups' = popups - 1
    /\ approved' = approved + 1
    /\ UNCHANGED <<sdk, sdkAccount, clickAccount, directKey, haveAccount, timer,
                   first, found, asked, left, loose, extension, sendVars>>

\* runDirect sets the key it gets, whatever has happened since.
DirectConnects(a) ==
    /\ approved > 0
    /\ approved' = approved - 1
    /\ directKey' = a
    /\ asked' = FALSE
    /\ UNCHANGED <<sdk, sdkAccount, clickAccount, haveAccount, timer, first,
                   found, popups, left, loose, extension, sendVars>>

\* A popup declined or dismissed, or no active account: logged.
DirectFails ==
    /\ \/ popups > 0 /\ popups' = popups - 1 /\ UNCHANGED approved
       \/ approved > 0 /\ approved' = approved - 1 /\ UNCHANGED popups
    /\ UNCHANGED <<sdk, sdkAccount, clickAccount, directKey, haveAccount, timer,
                   first, found, asked, left, loose, extension, sendVars>>

-----------------------------------------------------------------------------
(* The page.                                                                *)

Mirrored == haveAccount <=> account # None

\* Mutant: the effect leaves the timer to itself.
RunEffect_KeepsTimer ==
    /\ ~Mirrored
    /\ haveAccount' = (account # None)
    /\ UNCHANGED <<sdk, sdkAccount, clickAccount, directKey, timer, first,
                   found, popups, approved, asked, left, loose, extension,
                   sendVars>>

\* The effect on `account`.
RunEffect ==
    /\ ~Mirrored
    /\ haveAccount' = (account # None)
    /\ timer' = (timer /\ account = None)
    /\ UNCHANGED <<sdk, sdkAccount, clickAccount, directKey, first, found,
                   popups, approved, asked, left, loose, extension, sendVars>>

\* The button offers to connect, or to disconnect.  React has run its effects
\* before it handles a click.
OfferConnect    == sdk = "ready" /\ account = None
OfferDisconnect == sdk = "ready" /\ account # None

\* Mutant: connect() trusts the SDK's signIn.
Connect_NoTimer ==
    /\ OfferConnect
    /\ Mirrored
    /\ popups + approved < MaxPopups
    /\ asked' = TRUE
    /\ left' = FALSE
    /\ UNCHANGED <<sdk, sdkAccount, clickAccount, directKey, haveAccount, timer,
                   first, found, popups, approved, loose, extension, sendVars>>

\* connect(): signIn(), which opens nothing and answers nothing (or throws), and
\* the timer, set anew.
Connect ==
    /\ OfferConnect
    /\ Mirrored
    /\ popups + approved < MaxPopups
    /\ timer' = TRUE
    /\ asked' = TRUE
    /\ left' = FALSE
    /\ UNCHANGED <<sdk, sdkAccount, clickAccount, directKey, haveAccount, first,
                   found, popups, approved, loose, extension, sendVars>>

\* Mutant: an interval, where the code sets a timeout.
TimerFires_Interval ==
    /\ timer
    /\ IF haveAccount
       THEN UNCHANGED <<popups, asked>>
       ELSE RunDirect
    /\ UNCHANGED <<sdk, sdkAccount, clickAccount, directKey, haveAccount, timer,
                   first, found, approved, left, loose, extension, sendVars>>

TimerFires ==
    /\ timer
    /\ timer' = FALSE
    /\ IF haveAccount
       THEN UNCHANGED <<popups, asked>>
       ELSE RunDirect
    /\ UNCHANGED <<sdk, sdkAccount, clickAccount, directKey, haveAccount, first,
                   found, approved, left, loose, extension, sendVars>>

\* Mutant: disconnect() leaves the extension's key.
Disconnect_KeepsDirect ==
    /\ OfferDisconnect
    /\ Mirrored
    /\ timer' = FALSE
    /\ clickAccount' = None
    /\ sdkAccount' \in {None, sdkAccount}
    /\ asked' = FALSE
    /\ left' = TRUE
    /\ loose' = (popups + approved > 0 \/ first # "none")
    /\ UNCHANGED <<sdk, directKey, haveAccount, first, found, popups, approved,
                   extension, sendVars>>

\* disconnect(): everything the page holds is cleared; the SDK is told, and may
\* throw; the extension is told, and the page does not wait.
Disconnect ==
    /\ OfferDisconnect
    /\ Mirrored
    /\ timer' = FALSE
    /\ directKey' = None
    /\ clickAccount' = None
    /\ sdkAccount' \in {None, sdkAccount}
    /\ asked' = FALSE
    /\ left' = TRUE
    /\ loose' = (popups + approved > 0 \/ first # "none")
    /\ UNCHANGED <<sdk, haveAccount, first, found, popups, approved, extension,
                   sendVars>>

-----------------------------------------------------------------------------
(* sendDeploy.                                                              *)

StartSend ==
    /\ account # None
    /\ sending = "no"
    /\ sending' = "sign"
    /\ handedOver' = FALSE
    /\ declined' = FALSE
    /\ outcome' = "none"
    /\ UNCHANGED linkVars

Returns(o) == sending' = "no" /\ outcome' = o

\* The user declines in the extension's popup.
Declines ==
    /\ sending = "sign" /\ extension
    /\ declined' = TRUE
    /\ Returns("cancelled")
    /\ UNCHANGED <<linkVars, handedOver>>

\* The user signs, and the deploy goes to the relay.
Signs ==
    /\ sending = "sign" /\ extension
    /\ sending' = "relay"
    /\ handedOver' = TRUE
    /\ UNCHANGED <<linkVars, declined, outcome>>

RelayAccepts ==
    /\ sending = "relay"
    /\ Returns("hash")
    /\ UNCHANGED <<linkVars, handedOver, declined>>

\* Mutant: whatever fails, the SDK is tried next.
ExtensionFails_TriesSdk ==
    /\ sending \in {"sign", "relay"} /\ extension
    /\ sending' = "sdk"
    /\ UNCHANGED <<linkVars, handedOver, declined, outcome>>

\* The extension throws, or the relay or the node refuses, or its answer is lost.
ExtensionFails ==
    /\ sending \in {"sign", "relay"} /\ extension
    /\ Returns("error")
    /\ UNCHANGED <<linkVars, handedOver, declined>>

\* There is no extension: the SDK is asked, if it is there.
NoExtension ==
    /\ sending = "sign" /\ ~extension
    /\ IF sdk = "ready"
       THEN sending' = "sdk" /\ UNCHANGED outcome
       ELSE Returns("cancelled")
    /\ UNCHANGED <<linkVars, handedOver, declined>>

\* The SDK answers that the user cancelled, with a hash, with neither, with an
\* error, or with nothing at all, which the page calls cancelled.  Or it never
\* answers.
SdkReturns ==
    /\ sending = "sdk"
    /\ \/ declined' = TRUE /\ Returns("cancelled")
       \/ \E o \in {"cancelled", "hash", "nothing", "error"} :
             Returns(o) /\ UNCHANGED declined
    /\ UNCHANGED <<linkVars, handedOver>>

-----------------------------------------------------------------------------

Sdk       == Adopt \/ StopPolling \/ SdkAnswers \/ TakeFirst \/ SignedOut
Extension == Approve \/ DirectFails
Page      == RunEffect \/ Connect \/ TimerFires \/ Disconnect
Send      == \/ StartSend \/ Declines \/ Signs \/ RelayAccepts
             \/ ExtensionFails \/ NoExtension \/ SdkReturns

Next ==
    \/ Sdk \/ Extension \/ Page \/ Send
    \/ \E a \in Account : SignedIn(a) \/ DirectConnects(a)

Spec == Init /\ [][Next]_vars

\* The browser fires timers and React runs effects.  The user and the wallets
\* need do nothing.
FairSpec == Spec /\ WF_vars(TimerFires) /\ WF_vars(RunEffect)

-----------------------------------------------------------------------------
(* Properties.                                                              *)

\* The type of the page's state and of the two wallets'.
WalletTypeOK ==
    /\ sdk \in {"loading", "late", "ready"}
    /\ {sdkAccount, clickAccount, directKey} \subseteq Maybe
    /\ {haveAccount, timer, asked, left, loose, extension,
      handedOver, declined} \subseteq BOOLEAN
    /\ first \in {"none", "asked", "found"} /\ found \in Maybe
    /\ popups + approved \in 0..MaxPopups
    /\ sending \in {"no", "sign", "relay", "sdk"}
    /\ outcome \in {"none", "cancelled", "hash", "error", "nothing"}

\* A disconnect holds: unless an approval or the SDK's first answer was already
\* under way when the user left, no timer, effect or leftover key connects the
\* page again before the user asks for it (disconnect, wallet.tsx:217-230).
DisconnectHolds == left /\ ~loose => account = None

\* While the page has run its effects, a pending grace timer means there is no
\* account: a sign-in the SDK completes in time calls off the extension's popup
\* (the effect at wallet.tsx:182-188).
TimerOnlyWithoutAccount == timer /\ Mirrored => account = None

\* One signature, one way to the node: a deploy that went to the relay is never
\* handed to the SDK as well, whatever the relay answered (wallet.tsx:264-273).
NeverSentBothWays == sending = "sdk" => ~handedOver

\* Where there is an extension, a click on Connect is answered though the SDK
\* opens nothing and throws nothing: the extension is asked, or an account comes,
\* or the user leaves (the grace timer, wallet.tsx:18-29).
ConnectIsAnswered == asked /\ extension ~> ~asked

\* As the comment on the wait says of a button that "sat at 'Opening wallet...'
\* for 72s with no popup" ("the only way to notice is to time it out and try the
\* path that resolves", wallet.tsx:24-27): no click stays without an answer.
\* Without an extension that path throws, and the failure is logged, not shown.
EveryClickIsAnswered == asked ~> ~asked

\* As the comment on the ref says ("must not close over stale state",
\* wallet.tsx:87-88): the timer opens no popup while an account is connected.
NoPopupWhenConnected == [][TimerFires /\ popups' > popups => account = None]_vars

\* As the comment on the extension's answer says ("`cancelled` is a first-class
\* outcome: the user declining in the popup", directWallet.ts:114): an outcome
\* is cancelled only when the user declined.
CancelledByTheUser == outcome = "cancelled" => declined

\* As connect() says ("No SDK at all: go straight to the extension",
\* wallet.tsx:212): when the page has stopped waiting for the SDK and has no
\* account, it offers to connect.
ConnectsWithoutSdk == sdk = "late" /\ account = None => OfferConnect

\* The shape of the page, that an account calls the timer off, and that a deploy
\* goes one way (wallet.tsx:182-188 and 264-273).
WalletInvariant == WalletTypeOK /\ TimerOnlyWithoutAccount /\ NeverSentBothWays
=============================================================================
