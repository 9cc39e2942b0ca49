------------------------------ MODULE StateClient ------------------------------
(***************************************************************************)
(* OdraStateClient (agent/src/kernel/odra-state.ts): how one process reads   *)
(* a contract's dictionary and its balance from a node that may be busy,    *)
(* down or wrong, through two values it caches for the life of the process.  *)
(*                                                                         *)
(* A read has up to two requests under way: the state root, and the named    *)
(* keys the seed or the purse is found in.  The item is asked for when both  *)
(* are there.  Every request is tried again after a 429, a 5xx or a network *)
(* error.  The node, the package and the chain are external: the chain goes  *)
(* on, and the contract is upgraded, at any moment.                         *)
(***************************************************************************)
EXTENDS Naturals, Sequences

CONSTANTS
    Reader, Key, Balance, Value, Null, Error, \* as in FieldRead
    Attempts,    \* attempts of fetchWithRetry: 4 in the code
    MaxBlocks,   \* bound: blocks
    MaxVersions  \* bound: versions of the contract

\* The balance is no dictionary item, and null nothing that is asked for.
ASSUME ClientAssumption ==
    /\ Balance \notin Key /\ Null \notin Key \cup {Balance}
    /\ Attempts \in Nat \ {0}
    /\ MaxBlocks \in Nat /\ MaxVersions \in Nat

VARIABLES
    history,   \* the states of the chain so far, as in FieldRead
    answer,    \* what each reader's last read came to
    packaged,  \* contractHash is a package's, not a contract's
    job,       \* the read each reader is at
    seedUref,  \* the cached seed: the version it is of, or 0
    mainPurse  \* the cached purse: the version it is of, or 0 (null) once looked for

clientVars == <<packaged, job, seedUref, mainPurse>>
vars       == <<history, answer, clientVars>>

-----------------------------------------------------------------------------

Now == Len(history)

NoCall == [method |-> "none", version |-> 0, tries |-> 0]

Call(method) == [method |-> method, version |-> 0, tries |-> 1]

CallOf(v) == [method |-> "version", version |-> v, tries |-> 1]

\* seed is the version the seed, or the purse, in hand is of.  With nothing asked
\* for any more but a call under way, it is what is left of a read that threw; the
\* reader starts nothing until that has ended, while another may.
NoJob == [what |-> Null, since |-> 0, height |-> 0, seed |-> 0,
          left |-> NoCall, right |-> NoCall]

NotLooked == [looked |-> FALSE, of |-> 0]

\* What the reads amount to, in the terms of FieldRead.
reading == [r \in Reader |-> [what |-> job[r].what, since |-> job[r].since]]

Promise == INSTANCE FieldRead

\* The version calls to the package run.
newest == Len(history[Now])

\* What version v holds at height h, which is nothing before it was installed.
Held(v, h) == IF v \in DOMAIN history[h] THEN history[h][v] ELSE [w \in Promise!What |-> Null]

ClientInit ==
    /\ history \in {<< << c >> >> : c \in Promise!Contents}
    /\ answer = [r \in Reader |-> Null]
    /\ packaged \in BOOLEAN
    /\ job = [r \in Reader |-> NoJob]
    /\ seedUref = 0
    /\ mainPurse = NotLooked

NewBlock ==
    /\ Now < MaxBlocks
    /\ \E v \in 1..newest : \E c \in Promise!Contents :
        /\ Promise!Grows(history[Now][v], c)
        /\ history' = Append(history, [history[Now] EXCEPT ![v] = c])
    /\ UNCHANGED <<answer, clientVars>>

Upgrade ==
    /\ Now < MaxBlocks
    /\ newest < MaxVersions
    /\ \E c \in Promise!Contents : history' = Append(history, Append(history[Now], c))
    /\ UNCHANGED <<answer, clientVars>>

-----------------------------------------------------------------------------
(* What a read does next.                                                   *)

Returns(r, v) ==
    /\ answer' = [answer EXCEPT ![r] = v]
    /\ job' = [job EXCEPT ![r] = NoJob]

\* readRaw: the item is asked for at the root once root and seed are there.
WithItem(j) ==
    IF j.height # 0 /\ j.seed # 0 THEN [j EXCEPT !.left = Call("item")] ELSE j

\* Mutant: the root is asked for only when the seed is not cached yet, the
\* block the seed was found at being taken for the root.
ReadRaw_OldRoot(r, k) ==
    job' = [job EXCEPT ![r] = WithItem(
        [NoJob EXCEPT !.what = k, !.since = Now, !.seed = seedUref,
                      !.height = IF seedUref # 0 THEN 1 ELSE 0,
                      !.left = IF seedUref # 0 THEN NoCall ELSE Call("root"),
                      !.right = IF seedUref # 0 THEN NoCall ELSE Call("contract")])]

ReadRaw(r, k) ==
    job' = [job EXCEPT ![r] =
        [NoJob EXCEPT !.what = k, !.since = Now, !.seed = seedUref,
                      !.left = Call("root"),
                      !.right = IF seedUref # 0 THEN NoCall ELSE Call("contract")]]

ContractBalance(r) ==
    job' = [job EXCEPT ![r] =
        [NoJob EXCEPT !.what = Balance, !.since = Now, !.seed = mainPurse.of,
                      !.left = IF mainPurse.of # 0 THEN Call("balance") ELSE NoCall,
                      !.right = IF mainPurse.looked THEN NoCall ELSE Call("contract")]]

Start(r, w) ==
    /\ job[r] = NoJob
    /\ IF w # Balance THEN ReadRaw(r, w) ELSE ContractBalance(r)
    /\ answer' = [answer EXCEPT ![r] = Null]
    /\ UNCHANGED <<history, packaged, seedUref, mainPurse>>

\* contractBalanceMotes without a purse, which the cache may say.
NoPurse(r) ==
    /\ job[r].what = Balance
    /\ job[r].left = NoCall
    /\ job[r].right = NoCall
    /\ Returns(r, Null)
    /\ UNCHANGED <<history, packaged, seedUref, mainPurse>>

RootHash(r) ==
    /\ job[r].left.method = "root"
    /\ job' = [job EXCEPT ![r] = WithItem([@ EXCEPT !.left = NoCall, !.height = Now])]
    /\ UNCHANGED <<history, answer, packaged, seedUref, mainPurse>>

-----------------------------------------------------------------------------
(* namedKeys, and what its two callers look for in them.                    *)

\* The hash is a package's: the version newest by now is asked about next.
PackageFound(r) ==
    /\ job[r].right.method = "contract"
    /\ packaged
    /\ job' = [job EXCEPT ![r].right = CallOf(newest)]
    /\ UNCHANGED <<history, answer, packaged, seedUref, mainPurse>>

HasKeys(r) ==
    \/ job[r].right.method = "contract" /\ ~packaged
    \/ job[r].right.method = "version"

\* The version whose keys they are: a hash that is a contract's is the first's.
Found(r) == IF packaged THEN job[r].right.version ELSE 1

StateSeedUref(r) ==
    /\ HasKeys(r)
    /\ job[r].what \in Key
    /\ seedUref' = Found(r)
    /\ job' = [job EXCEPT ![r] = WithItem([@ EXCEPT !.right = NoCall, !.seed = Found(r)])]
    /\ UNCHANGED <<history, answer, packaged, mainPurse>>

ContractPurseUref(r) ==
    LET purse == IF Held(Found(r), Now)[Balance] = Null THEN 0 ELSE Found(r)
    IN  /\ HasKeys(r)
        /\ job[r].what = Balance
        /\ mainPurse' = [looked |-> TRUE, of |-> purse]
        /\ job' = [job EXCEPT ![r].right = NoCall, ![r].seed = purse,
                              ![r].left = IF purse = 0 THEN NoCall ELSE Call("balance")]
        /\ UNCHANGED <<history, answer, packaged, seedUref>>

\* The keys a read that threw had asked for still fill the cache.
StrayEnds(r) ==
    /\ HasKeys(r)
    /\ job[r].what = Null
    /\ seedUref' = Found(r)
    /\ job' = [job EXCEPT ![r] = NoJob]
    /\ UNCHANGED <<history, answer, packaged, mainPurse>>

-----------------------------------------------------------------------------
(* The answers.                                                             *)

\* The value at the root, null when the node says there is none, as it does of a
\* seed newer than the root.
Item(r) ==
    LET j == job[r]
    IN  /\ j.left.method = "item"
        /\ Returns(r, Held(j.seed, j.height)[j.what])
        /\ UNCHANGED <<history, packaged, seedUref, mainPurse>>

QueryBalance(r) ==
    /\ job[r].left.method = "balance"
    /\ Returns(r, Held(job[r].seed, Now)[Balance])
    /\ UNCHANGED <<history, packaged, seedUref, mainPurse>>

\* The keys asked for by a read that throws at its root go on by themselves, and
\* nobody hears when they fail.
Throws(r, side) ==
    /\ answer' = IF job[r].what = Null THEN answer ELSE [answer EXCEPT ![r] = Error]
    /\ job' = [job EXCEPT ![r] = [NoJob EXCEPT !.right =
                  IF side = "left" THEN job[r].right ELSE NoCall]]
    /\ UNCHANGED <<history, packaged, seedUref, mainPurse>>

\* Mutant: one attempt too many.
Retry_OneMore(r, side) ==
    /\ job[r][side] # NoCall
    /\ job[r][side].tries <= Attempts
    /\ job' = [job EXCEPT ![r][side].tries = @ + 1]
    /\ UNCHANGED <<history, answer, packaged, seedUref, mainPurse>>

\* Mutant: the attempts are not counted.
Retry_Forever(r, side) ==
    /\ job[r][side] # NoCall
    /\ job' = [job EXCEPT ![r][side].tries = IF @ < Attempts THEN @ + 1 ELSE 1]
    /\ UNCHANGED <<history, answer, packaged, seedUref, mainPurse>>

\* 429, a 5xx or a network error, with an attempt left.
Retry(r, side) ==
    /\ job[r][side] # NoCall
    /\ job[r][side].tries < Attempts
    /\ job' = [job EXCEPT ![r][side].tries = @ + 1]
    /\ UNCHANGED <<history, answer, packaged, seedUref, mainPurse>>

GiveUp(r, side) ==
    /\ job[r][side] # NoCall
    /\ job[r][side].tries = Attempts
    /\ Throws(r, side)

\* Mutant: every error of the item's request reads as no record.
Refused_IsNull(r, side) ==
    /\ job[r][side] # NoCall
    /\ IF job[r][side].method = "item"
       THEN /\ Returns(r, Null)
            /\ UNCHANGED <<history, packaged, seedUref, mainPurse>>
       ELSE Throws(r, side)

\* Another 4xx, an error of the RPC other than "not found", no result, keys
\* without a `state`, a package without versions, or bytes that do not decode.
Refused(r, side) ==
    /\ job[r][side] # NoCall
    /\ Throws(r, side)

-----------------------------------------------------------------------------

Outcome(r, side) == Refused(r, side) \/ Retry(r, side) \/ GiveUp(r, side)

Right(r) == PackageFound(r) \/ StateSeedUref(r) \/ ContractPurseUref(r) \/ StrayEnds(r)

Left(r) == RootHash(r) \/ Item(r) \/ QueryBalance(r) \/ NoPurse(r)

\* A step of a read under way.
Goes(r) ==
    \/ \E side \in {"left", "right"} : Outcome(r, side)
    \/ Left(r) \/ Right(r)

ClientNext ==
    \/ NewBlock \/ Upgrade
    \/ \E r \in Reader : Goes(r) \/ \E w \in Promise!What : Start(r, w)

ClientSpec == ClientInit /\ [][ClientNext]_vars

\* Every fetch comes back, with an answer or an error.
FairSpec == ClientSpec /\ \A r \in Reader : WF_vars(Goes(r))

-----------------------------------------------------------------------------
(* Properties.                                                              *)

\* The versions namedKeys may have found by now.
Findable == IF packaged THEN 1..newest ELSE {1}

\* The shape of the state: a read waits for at most its two requests, each
\* within its attempts, and the caches hold nothing but what namedKeys found.
ClientTypeOK ==
    /\ packaged \in BOOLEAN
    /\ seedUref \in {0} \cup Findable
    /\ mainPurse.of \in {0} \cup Findable
    /\ mainPurse.of # 0 => mainPurse.looked
    /\ \A r \in Reader :
        LET j == job[r]
        IN  /\ answer[r] \in Value \cup {Null, Error}
            /\ j.since <= Now /\ j.height <= Now /\ j.seed \in {0} \cup Findable
            /\ {j.left.tries, j.right.tries} \subseteq 0..Attempts
            /\ j.left.method \in {"none", "root", "item", "balance"}
            /\ j.right.method \in {"none", "contract", "version"}
            /\ j.left.method = "item" => j.right = NoCall

\* The client implements FieldRead: an item is answered with what a version of
\* the contract held while it was being read, though root and seed come from two
\* requests, the cached seed stays when the contract is upgraded, and an older
\* lookup may answer last and replace a newer one's; null is never a failure
\* ("Every other error must propagate so an outage is never read as an
\* unrestricted agent", odra-state.ts:227).
KeepsThePromise == Promise!Spec

\* "Retries are bounded ... so a node that is genuinely down still surfaces as
\* an error rather than hanging the request" (odra-state.ts:48).
ReadEnds == \A r \in Reader : job[r] # NoJob ~> job[r] = NoJob

\* "The contract's native token balance in motes, or null when the module
\* holds no purse" (odra-state.ts:196): null is answered only if some version had
\* no purse when the balance was asked for.
NullMeansNoPurse ==
    [][\A r \in Reader :
        /\ job[r].what = Balance
        /\ job'[r] = NoJob
        /\ answer'[r] = Null
        => \E v \in DOMAIN history[job[r].since] :
              history[job[r].since][v][Balance] = Null]_vars

\* "Newest enabled version. Odra deploys append, so the last entry is live"
\* (odra-state.ts:158): a seed found through the package is that of the version
\* its calls run.
SeedIsLive == packaged /\ seedUref # 0 => seedUref = newest

===============================================================================
