----------------------------- MODULE ClientProofs -----------------------------
(***************************************************************************)
(* Theorems about StateClient, for every set of readers, keys and values,    *)
(* every number of attempts, blocks and upgrades: the shape of a read, and    *)
(* that the client implements FieldRead.  And two about StoredValue, for every    *)
(* base, width and amount: the keys the client is asked for, and that what   *)
(* the contract stored is what the reader returns, or an error.             *)
(***************************************************************************)
EXTENDS StateClient, StoredValue, NaturalsInduction, WellFoundedInduction,
        SequenceTheorems, TLAPS

(* The inductive invariant.                                                 *)

What == Key \cup {Balance}

LeftCall  == [method : {"none", "root", "item", "balance"}, version : Nat, tries : 0..Attempts]
RightCall == [method : {"none", "contract", "version"}, version : Nat, tries : 0..Attempts]

Job == [what : What \cup {Null}, since : Nat, height : Nat, seed : Nat,
        left : LeftCall, right : RightCall]

\* A read under way began at a block there was, and took its root since; it asks
\* for an item when it has root and seed, uses only versions that were there to be
\* found, and has come to no purse only if some version had none.  What is left of
\* a read that threw is at most the keys it asked for.
Sound(j, now, found, missing) ==
    /\ j.what \in What => j.since \in 1..now
    /\ j.what = Null => j = [NoJob EXCEPT !.right = j.right]
    /\ j.height # 0 => j.height >= j.since /\ j.height <= now
    /\ j.seed # 0 => j.seed \in found /\ j.right = NoCall
    /\ j.left.method = "item" => j.height # 0 /\ j.seed # 0 /\ j.what \in Key
    /\ j.left.method = "root" => j.what \in Key
    /\ j.left.method = "balance" => j.what = Balance /\ j.seed # 0
    /\ j.what = Balance /\ j.left = NoCall /\ j.right = NoCall => missing
    /\ j.right.method = "version" => j.right.version \in found

\* No version is ever lost.
ChainOK ==
    /\ history \in Seq(Seq(Promise!Contents)) /\ Now >= 1
    /\ \A h \in 1..Now : Len(history[h]) >= 1
    /\ \A g \in 1..Now, h \in 1..Now : g <= h => Len(history[g]) <= Len(history[h])

PurseMissing == \E h \in 1..Now : \E v \in DOMAIN history[h] : history[h][v][Balance] = Null

CachesOK ==
    /\ packaged \in BOOLEAN
    /\ seedUref \in {0} \cup Findable
    /\ mainPurse \in [looked : BOOLEAN, of : {0} \cup Findable]
    /\ mainPurse.of # 0 => mainPurse.looked
    /\ mainPurse.looked /\ mainPurse.of = 0 => PurseMissing

JobsOK ==
    /\ job \in [Reader -> Job]
    /\ \A r \in Reader : Sound(job[r], Now, Findable, PurseMissing)

AnswersOK == answer \in [Reader -> Value \cup {Null, Error}]

ClientInductive == ChainOK /\ CachesOK /\ JobsOK /\ AnswersOK

-----------------------------------------------------------------------------
(* Reads, one request further.                                              *)

USE ClientAssumption

\* The calls a read may have under way.
LEMMA CallsTyped ==
    /\ NoCall \in LeftCall /\ NoCall \in RightCall
    /\ \A m \in {"root", "item", "balance"} : Call(m) \in LeftCall
    /\ Call("contract") \in RightCall
    /\ \A v \in Nat : /\ CallOf(v) \in RightCall /\ CallOf(v) # NoCall
                      /\ CallOf(v).method = "version" /\ CallOf(v).version = v
    /\ \A m : Call(m).method = m /\ Call(m) # NoCall
    /\ NoCall.method = "none"
BY DEF NoCall, Call, CallOf, LeftCall, RightCall

\* Null is nothing that is asked for.
LEMMA NullIsNothing == Null \notin What /\ Balance \notin Key /\ Balance \in What /\ Key \subseteq What
BY DEF What

\* A reader without a read is sound, and so is what a read that threw leaves.
LEMMA NoJobSound ==
    ASSUME NEW now \in Nat, NEW found, NEW missing, NEW c \in RightCall,
           c.method = "version" => c.version \in found
    PROVE  LET j == [NoJob EXCEPT !.right = c]
           IN  j \in Job /\ Sound(j, now, found, missing) /\ j.what = Null /\ j.since = 0
<1> DEFINE j == [NoJob EXCEPT !.right = c]
<1>1. /\ j.what = Null /\ j.since = 0 /\ j.height = 0 /\ j.seed = 0
      /\ j.left = NoCall /\ j.right = c
  BY DEF NoJob
<1>2. j \in Job
  BY CallsTyped DEF NoJob, Job
<1>3. j = [NoJob EXCEPT !.right = j.right]
  BY <1>1
<1> HIDE DEF j
<1>4. Sound(j, now, found, missing)
  BY <1>1, <1>3, CallsTyped, NullIsNothing DEF Sound
<1>5. QED
  BY <1>1, <1>2, <1>4 DEF j

\* In particular a reader without a read.
LEMMA NoJobIsSound ==
    ASSUME NEW now \in Nat, NEW found, NEW missing
    PROVE  NoJob \in Job /\ Sound(NoJob, now, found, missing)
<1>1. NoJob = [NoJob EXCEPT !.right = NoCall]
  BY DEF NoJob
<1>2. NoCall \in RightCall /\ NoCall.method # "version"
  BY CallsTyped
<1>3. QED
  BY <1>1, <1>2, NoJobSound

\* A read is under way when something is asked for.
LEMMA UnderWay ==
    ASSUME NEW j \in Job, NEW now, NEW found, NEW missing, Sound(j, now, found, missing),
           j.what # Null \/ j.left # NoCall \/ j.height # 0 \/ j.seed # 0
    PROVE  j.what \in What /\ j.since \in 1..now
<1>1. [NoJob EXCEPT !.right = j.right].left = NoCall
  BY DEF NoJob
<1>2. [NoJob EXCEPT !.right = j.right].height = 0 /\ [NoJob EXCEPT !.right = j.right].seed = 0
  BY DEF NoJob
<1>3. j.what # Null
  BY <1>1, <1>2 DEF Sound
<1>4. QED
  BY <1>3 DEF Sound, Job

\* One request of a read replaced.
LEMMA LeftSet ==
    ASSUME NEW j \in Job, NEW c \in LeftCall
    PROVE  LET k == [j EXCEPT !.left = c]
           IN  /\ k \in Job /\ k.left = c /\ k.right = j.right
               /\ k.what = j.what /\ k.since = j.since /\ k.height = j.height /\ k.seed = j.seed
BY DEF Job

\* The same for the call on the right.
LEMMA RightSet ==
    ASSUME NEW j \in Job, NEW c \in RightCall
    PROVE  LET k == [j EXCEPT !.right = c]
           IN  /\ k \in Job /\ k.right = c /\ k.left = j.left
               /\ k.what = j.what /\ k.since = j.since /\ k.height = j.height /\ k.seed = j.seed
BY DEF Job

\* What is left of a read that threw keeps its shape when its call moves on.
LEMMA LeftOverSet ==
    ASSUME NEW j, NEW c, j = [NoJob EXCEPT !.right = j.right]
    PROVE  LET k == [j EXCEPT !.right = c] IN k = [NoJob EXCEPT !.right = k.right]
<1>1. [j EXCEPT !.right = c] = [NoJob EXCEPT !.right = c]
  BY DEF NoJob
<1>2. [NoJob EXCEPT !.right = c].right = c
  BY DEF NoJob
<1>3. QED
  BY <1>1, <1>2

\* The item is asked for when root and seed are there, and not before.
LEMMA WithItemSound ==
    ASSUME NEW now \in Nat, NEW found, NEW missing, NEW j \in Job,
           Sound(j, now, found, missing), j.what \in Key
    PROVE  /\ WithItem(j) \in Job /\ Sound(WithItem(j), now, found, missing)
           /\ WithItem(j).what = j.what /\ WithItem(j).since = j.since
<1>1. CASE j.height # 0 /\ j.seed # 0
  <2> DEFINE k == [j EXCEPT !.left = Call("item")]
  <2>1. WithItem(j) = k
    BY <1>1 DEF WithItem
  <2>2. Call("item") \in LeftCall /\ Call("item").method = "item" /\ Call("item") # NoCall
    BY CallsTyped
  <2>3. /\ k \in Job /\ k.left = Call("item") /\ k.right = j.right
        /\ k.what = j.what /\ k.since = j.since /\ k.height = j.height /\ k.seed = j.seed
    BY <2>2, LeftSet
  <2> HIDE DEF k
  <2>4. j.what # Null
    BY NullIsNothing
  <2>5. Sound(k, now, found, missing)
    BY <1>1, <2>2, <2>3, <2>4 DEF Sound
  <2>6. QED
    BY <2>1, <2>3, <2>5
<1>2. CASE ~(j.height # 0 /\ j.seed # 0)
  BY <1>2 DEF WithItem
<1>3. QED
  BY <1>1, <1>2

\* What only grows leaves a read sound.
LEMMA SoundGrows ==
    ASSUME NEW j \in Job, NEW now \in Nat, NEW later \in Nat, NEW f1, NEW f2, NEW m1, NEW m2,
           now <= later, f1 \subseteq f2, m1 => m2, Sound(j, now, f1, m1)
    PROVE  Sound(j, later, f2, m2)
<1>1. j.since \in Nat /\ j.height \in Nat
  BY DEF Job
<1>2. QED
  BY <1>1 DEF Sound

\* A step that leaves the chain and the package alone.
LEMMA ChainStays ==
    ASSUME ClientInductive, UNCHANGED <<history, packaged>>
    PROVE  /\ ChainOK' /\ Now' = Now /\ newest' = newest /\ Findable' = Findable
           /\ PurseMissing' = PurseMissing /\ Now \in Nat
BY DEF ClientInductive, ChainOK, Now, newest, Findable, PurseMissing

\* One read moves on.
LEMMA JobMoves ==
    ASSUME ClientInductive, UNCHANGED <<history, packaged>>, NEW r \in Reader,
           NEW j \in Job, Sound(j, Now, Findable, PurseMissing), job' = [job EXCEPT ![r] = j]
    PROVE  JobsOK'
<1>1. Now' = Now /\ Findable' = Findable /\ PurseMissing' = PurseMissing
  BY ChainStays
<1>2. job' \in [Reader -> Job]
  BY DEF ClientInductive, JobsOK
<1>3. ASSUME NEW q \in Reader PROVE Sound(job'[q], Now, Findable, PurseMissing)
  <2>1. job'[q] = IF q = r THEN j ELSE job[q]
    BY DEF ClientInductive, JobsOK
  <2>2. QED
    BY <2>1 DEF ClientInductive, JobsOK
<1>4. QED
  BY <1>1, <1>2, <1>3 DEF JobsOK

\* The caches, where a step leaves them alone.
LEMMA CachesStay ==
    ASSUME ClientInductive, UNCHANGED <<history, packaged, seedUref, mainPurse>>
    PROVE  CachesOK'
BY ChainStays DEF ClientInductive, CachesOK

\* A read comes to an end.
LEMMA ReturnsKeeps ==
    ASSUME ClientInductive, UNCHANGED <<history, packaged>>, NEW r \in Reader,
           NEW v \in Value \cup {Null, Error}, Returns(r, v)
    PROVE  JobsOK' /\ AnswersOK'
<1>1. NoJob \in Job /\ Sound(NoJob, Now, Findable, PurseMissing)
  BY NoJobIsSound, ChainStays
<1>2. JobsOK'
  BY <1>1, JobMoves DEF Returns
<1>3. AnswersOK'
  BY DEF Returns, ClientInductive, AnswersOK
<1>4. QED
  BY <1>2, <1>3

\* What the invariant says of one reader's read.
LEMMA JobTyped ==
    ASSUME ClientInductive, NEW r \in Reader
    PROVE  /\ job[r] \in Job /\ Sound(job[r], Now, Findable, PurseMissing)
           /\ job[r].left \in LeftCall /\ job[r].right \in RightCall
           /\ job[r].since \in Nat /\ job[r].height \in Nat /\ job[r].seed \in Nat
           /\ Now \in Nat /\ Now >= 1
<1>1. job[r] \in Job /\ Sound(job[r], Now, Findable, PurseMissing)
  BY DEF ClientInductive, JobsOK
<1>2. Now \in Nat /\ Now >= 1
  BY DEF ClientInductive, ChainOK, Now
<1>3. QED
  BY <1>1, <1>2 DEF Job

\* The versions there are, and those that may be found.
LEMMA VersionsTyped ==
    ASSUME ClientInductive
    PROVE  /\ newest \in Nat /\ newest >= 1 /\ Now \in 1..Now
           /\ 1 \in Findable /\ Findable \subseteq 1..newest
           /\ packaged => newest \in Findable
<1>1. Now \in Nat /\ Now >= 1
  BY DEF ClientInductive, ChainOK, Now
<1>2. Now \in 1..Now
  BY <1>1
<1>3. history[Now] \in Seq(Promise!Contents) /\ Len(history[Now]) >= 1
  BY <1>2 DEF ClientInductive, ChainOK, Now
<1>4. newest \in Nat /\ newest >= 1
  BY <1>3 DEF newest
<1>5. QED
  BY <1>2, <1>4 DEF Findable

\* The version whose keys were answered is one that may be found.
LEMMA FoundIsThere ==
    ASSUME ClientInductive, NEW r \in Reader, HasKeys(r)
    PROVE  Found(r) \in Findable /\ Found(r) \in 1..newest /\ Found(r) \in Nat /\ Found(r) # 0
<1>1. Sound(job[r], Now, Findable, PurseMissing)
  BY JobTyped
<1>2. Found(r) \in Findable
  BY <1>1, VersionsTyped DEF HasKeys, Found, Sound
<1>3. QED
  BY <1>2, VersionsTyped

-----------------------------------------------------------------------------
(* The steps, one by one.                                                   *)

\* The client starts with nothing read and nothing cached.
LEMMA ClientStarts == ClientInit => ClientInductive
<1> SUFFICES ASSUME ClientInit PROVE ClientInductive
  OBVIOUS
<1>1. ChainOK
  <2>1. PICK c \in Promise!Contents : history = << << c >> >>
    BY DEF ClientInit
  <2>2. << c >> \in Seq(Promise!Contents) /\ Len(<< c >>) = 1
    OBVIOUS
  <2>3. /\ history \in Seq(Seq(Promise!Contents)) /\ Len(history) = 1
        /\ Len(history[1]) = 1
    BY <2>1, <2>2
  <2>4. QED
    BY <2>3 DEF ChainOK, Now
<1>2. CachesOK
  BY DEF ClientInit, CachesOK, NotLooked
<1>3. JobsOK
  <2>1. Now \in Nat
    BY <1>1 DEF ChainOK, Now
  <2>2. QED
    BY <2>1, NoJobIsSound DEF ClientInit, JobsOK
<1>4. AnswersOK
  BY DEF ClientInit, AnswersOK
<1>5. QED
  BY <1>1, <1>2, <1>3, <1>4 DEF ClientInductive

\* The chain moves on by one state, which loses no version; what was true of
\* earlier ones stays so.
LEMMA ChainGrows ==
    ASSUME ClientInductive, NEW s \in Seq(Promise!Contents), Len(s) >= newest,
           history' = Append(history, s), UNCHANGED <<answer, clientVars>>
    PROVE  ClientInductive'
<1>1. UNCHANGED <<answer, packaged, job, seedUref, mainPurse>>
  BY DEF clientVars
<1>2. /\ history \in Seq(Seq(Promise!Contents)) /\ Now \in Nat /\ Now >= 1
      /\ newest \in Nat /\ newest >= 1 /\ Now \in 1..Now
  BY VersionsTyped DEF ClientInductive, ChainOK, Now
<1>3. /\ history' \in Seq(Seq(Promise!Contents)) /\ Now' = Now + 1
      /\ history'[Now + 1] = s
      /\ \A h \in 1..Now : history'[h] = history[h]
  BY <1>2 DEF Now
<1>4. newest' = Len(s) /\ Len(s) \in Nat
  BY <1>3 DEF newest
<1>5. ChainOK'
  <2>1. ASSUME NEW h \in 1..Now' PROVE h \in 1..Now \/ h = Now + 1
    BY <1>2, <1>3
  <2>2. ASSUME NEW h \in 1..Now' PROVE Len(history'[h]) >= 1
    <3>1. CASE h \in 1..Now
      BY <1>3, <3>1 DEF ClientInductive, ChainOK
    <3>2. CASE h = Now + 1
      <4>1. history'[h] = s
        BY <1>3, <3>2, Zenon
      <4>2. Len(s) >= 1
        BY <1>2, <1>4
      <4>3. QED
        BY <4>1, <4>2
    <3>3. QED
      BY <2>1, <3>1, <3>2
  <2>3. ASSUME NEW g \in 1..Now', NEW h \in 1..Now', g <= h
        PROVE  Len(history'[g]) <= Len(history'[h])
    <3>1. CASE h \in 1..Now
      <4>1. g \in 1..Now
        BY <1>2, <2>3, <3>1
      <4>2. Len(history[g]) <= Len(history[h])
        BY <2>3, <3>1, <4>1 DEF ClientInductive, ChainOK
      <4>3. QED
        BY <1>3, <3>1, <4>1, <4>2
    <3>2. CASE h = Now + 1 /\ g \in 1..Now
      <4>1. Len(history[g]) <= Len(history[Now])
        BY <1>2, <3>2 DEF ClientInductive, ChainOK
      <4>2. Len(history[g]) \in Nat
        BY <1>2, <3>2 DEF Now
      <4>3. Len(history[Now]) <= Len(s) /\ Len(history[Now]) \in Nat
        BY <1>2 DEF newest
      <4>4. history'[h] = s /\ history'[g] = history[g]
        BY <1>3, <3>2, Zenon
      <4>5. Len(history[g]) <= Len(s)
        BY <1>4, <4>1, <4>2, <4>3
      <4>6. QED
        BY <4>4, <4>5
    <3>3. CASE h = Now + 1 /\ g = Now + 1
      <4>1. history'[h] = s /\ history'[g] = s
        BY <1>3, <3>3, Zenon
      <4>2. QED
        BY <1>4, <4>1
    <3>4. QED
      BY <2>1, <3>1, <3>2, <3>3
  <2>4. Now' >= 1
    BY <1>2, <1>3
  <2>5. QED
    BY <1>3, <2>2, <2>3, <2>4, Zenon DEF ChainOK
<1>6. PurseMissing => PurseMissing'
  <2>1. ASSUME NEW h \in 1..Now, NEW v \in DOMAIN history[h], history[h][v][Balance] = Null
        PROVE  PurseMissing'
    <3>1. h \in 1..Now'
      BY <1>2, <1>3
    <3>2. history'[h] = history[h]
      BY <1>3
    <3>3. v \in DOMAIN history'[h] /\ history'[h][v][Balance] = Null
      BY <2>1, <3>2, Zenon
    <3>4. QED
      BY <3>1, <3>3, Zenon DEF PurseMissing
  <2>2. QED
    BY <2>1 DEF PurseMissing
<1>7. Findable \subseteq Findable'
  BY <1>1, <1>2, <1>4 DEF Findable
<1>8. CachesOK'
  BY <1>1, <1>6, <1>7 DEF ClientInductive, CachesOK
<1>9. JobsOK'
  <2>1. job' \in [Reader -> Job]
    BY <1>1 DEF ClientInductive, JobsOK
  <2>2. ASSUME NEW r \in Reader PROVE Sound(job'[r], Now', Findable', PurseMissing')
    <3>1. /\ job[r] \in Job /\ Sound(job[r], Now, Findable, PurseMissing)
          /\ Now \in Nat /\ Now' \in Nat /\ Now <= Now' /\ job'[r] = job[r]
      BY <1>1, <1>2, <1>3, JobTyped
    <3>2. QED
      BY <1>6, <1>7, <3>1, SoundGrows
  <2>3. QED
    BY <2>1, <2>2 DEF JobsOK
<1>10. AnswersOK'
  BY <1>1 DEF ClientInductive, AnswersOK
<1>11. QED
  BY <1>5, <1>8, <1>9, <1>10 DEF ClientInductive

\* A block changes one version and an upgrade adds one.
LEMMA ChainStepKeeps ==
    ASSUME ClientInductive, NewBlock \/ Upgrade
    PROVE  ClientInductive'
<1>1. history[Now] \in Seq(Promise!Contents) /\ newest = Len(history[Now])
  BY VersionsTyped DEF ClientInductive, ChainOK, Now, newest
<1>2. CASE NewBlock
  <2>1. PICK v \in 1..newest, c \in Promise!Contents :
            history' = Append(history, [history[Now] EXCEPT ![v] = c])
    BY <1>2 DEF NewBlock
  <2>2. /\ [history[Now] EXCEPT ![v] = c] \in Seq(Promise!Contents)
        /\ Len([history[Now] EXCEPT ![v] = c]) >= newest
    <3>1. v \in 1..Len(history[Now]) /\ newest \in Nat
      BY <1>1, VersionsTyped
    <3>2. /\ [history[Now] EXCEPT ![v] = c] \in Seq(Promise!Contents)
          /\ Len([history[Now] EXCEPT ![v] = c]) = newest
      BY <1>1, <3>1, ExceptSeq
    <3>3. QED
      BY <3>1, <3>2
  <2>3. QED
    BY <1>2, <2>1, <2>2, ChainGrows DEF NewBlock
<1>3. CASE Upgrade
  <2>1. PICK c \in Promise!Contents : history' = Append(history, Append(history[Now], c))
    BY <1>3 DEF Upgrade
  <2>2. /\ Append(history[Now], c) \in Seq(Promise!Contents)
        /\ Len(Append(history[Now], c)) >= newest
    BY <1>1
  <2>3. QED
    BY <1>3, <2>1, <2>2, ChainGrows DEF Upgrade
<1>4. QED
  BY <1>2, <1>3

\* A read begins with what the caches spare it.
LEMMA StartKeeps ==
    ASSUME ClientInductive, NEW r \in Reader, NEW w \in Promise!What, Start(r, w)
    PROVE  /\ ClientInductive'
           /\ job[r] = NoJob
           /\ \E j : job' = [job EXCEPT ![r] = j] /\ j.what = w /\ j.since = Now
<1>1. /\ job[r] = NoJob /\ answer' = [answer EXCEPT ![r] = Null]
      /\ UNCHANGED <<history, packaged, seedUref, mainPurse>>
  BY DEF Start
<1>2. /\ Now \in Nat /\ Now \in 1..Now /\ NoJob \in Job
      /\ seedUref \in {0} \cup Findable /\ mainPurse.of \in {0} \cup Findable
      /\ mainPurse.looked /\ mainPurse.of = 0 => PurseMissing
      /\ Findable \subseteq Nat
  BY JobTyped, NoJobIsSound, VersionsTyped DEF ClientInductive, CachesOK
<1>3. \E j \in Job : /\ job' = [job EXCEPT ![r] = j] /\ j.what = w /\ j.since = Now
                     /\ Sound(j, Now, Findable, PurseMissing)
  <2>1. CASE w # Balance
    <3>1. w \in Key
      BY <2>1 DEF Promise!What
    <3> DEFINE right == IF seedUref # 0 THEN NoCall ELSE Call("contract")
               j == [NoJob EXCEPT !.what = w, !.since = Now, !.seed = seedUref,
                                  !.left = Call("root"), !.right = right]
    <3>2. job' = [job EXCEPT ![r] = j]
      BY <2>1 DEF Start, ReadRaw
    <3>3. /\ Call("root") \in LeftCall /\ right \in RightCall /\ w \in What \cup {Null}
          /\ right.method # "version" /\ seedUref \in Nat
      BY <1>2, <3>1, CallsTyped DEF What
    <3>4. /\ j.what = w /\ j.since = Now /\ j.seed = seedUref /\ j.height = 0
          /\ j.left = Call("root") /\ j.right = right
      BY DEF NoJob
    <3>5. j \in Job
      BY <1>2, <3>3 DEF Job
    <3>6. Sound(j, Now, Findable, PurseMissing)
      <4>1. /\ Call("root").method = "root" /\ w # Null /\ w # Balance
            /\ seedUref # 0 => right = NoCall /\ seedUref \in Findable
        BY <1>2, <3>1, CallsTyped, NullIsNothing
      <4> HIDE DEF j, right
      <4>2. QED
        BY <1>2, <3>1, <3>3, <3>4, <4>1 DEF Sound
    <3>7. QED
      BY <3>2, <3>4, <3>5, <3>6
  <2>2. CASE w = Balance
    <3> DEFINE left  == IF mainPurse.of # 0 THEN Call("balance") ELSE NoCall
               right == IF mainPurse.looked THEN NoCall ELSE Call("contract")
               j == [NoJob EXCEPT !.what = Balance, !.since = Now, !.seed = mainPurse.of,
                                  !.left = left, !.right = right]
    <3>1. job' = [job EXCEPT ![r] = j]
      BY <2>2 DEF Start, ContractBalance
    <3>2. /\ left \in LeftCall /\ right \in RightCall /\ Balance \in What \cup {Null}
          /\ right.method # "version" /\ mainPurse.of \in Nat
      <4>1. mainPurse.of \in Nat
        <5>1. mainPurse.of \in {0} \cup Findable /\ Findable \subseteq Nat
          BY <1>2, Zenon
        <5>2. 0 \in Nat
          OBVIOUS
        <5>3. QED
          BY <5>1, <5>2, Zenon
      <4>2. left \in LeftCall
        BY CallsTyped
      <4>3. right \in RightCall /\ right.method # "version"
        BY CallsTyped
      <4>4. QED
        BY <4>1, <4>2, <4>3, NullIsNothing
    <3>3. /\ j.what = Balance /\ j.since = Now /\ j.seed = mainPurse.of /\ j.height = 0
          /\ j.left = left /\ j.right = right
      BY DEF NoJob
    <3>4. j \in Job
      BY <1>2, <3>2 DEF Job
    <3>5. /\ left.method \in {"none", "balance"}
          /\ left.method = "balance" => mainPurse.of # 0
          /\ mainPurse.of # 0 => right = NoCall /\ mainPurse.of \in Findable
          /\ left = NoCall /\ right = NoCall => PurseMissing
      BY <1>2, CallsTyped DEF ClientInductive, CachesOK
    <3>6. Sound(j, Now, Findable, PurseMissing)
      <4> HIDE DEF j, left, right
      <4> QED
        BY <1>2, <3>2, <3>3, <3>5, NullIsNothing DEF Sound
    <3>7. QED
      BY <2>2, <3>1, <3>3, <3>4, <3>6
  <2>3. QED
    BY <2>1, <2>2
<1>4. JobsOK'
  BY <1>1, <1>3, JobMoves
<1>5. AnswersOK'
  BY <1>1 DEF ClientInductive, AnswersOK
<1>6. ClientInductive'
  BY <1>1, <1>4, <1>5, ChainStays, CachesStay DEF ClientInductive
<1>7. QED
  BY <1>1, <1>3, <1>6

\* A step that only moves one read on, asking for the same thing.
MovesOn(r) ==
    /\ UNCHANGED <<history, answer, packaged>>
    /\ \E j \in Job :
          /\ job' = [job EXCEPT ![r] = j]
          /\ Sound(j, Now, Findable, PurseMissing)
          /\ j.what = job[r].what /\ j.since = job[r].since

\* Such a step keeps everything but, perhaps, the caches.
LEMMA MovesOnKeeps ==
    ASSUME ClientInductive, NEW r \in Reader, MovesOn(r)
    PROVE  ChainOK' /\ JobsOK' /\ AnswersOK'
BY ChainStays, JobMoves DEF MovesOn, ClientInductive, AnswersOK

\* The root is in.
LEMMA RootHashMoves ==
    ASSUME ClientInductive, NEW r \in Reader, RootHash(r)
    PROVE  MovesOn(r)
<1> DEFINE j == [job[r] EXCEPT !.left = NoCall, !.height = Now]
<1>1. /\ job[r].left.method = "root" /\ job' = [job EXCEPT ![r] = WithItem(j)]
      /\ UNCHANGED <<history, answer, packaged>>
  BY DEF RootHash, ClientInductive, JobsOK
<1>2. /\ job[r] \in Job /\ Sound(job[r], Now, Findable, PurseMissing)
      /\ Now \in Nat /\ Now >= 1
  BY JobTyped
<1>3. /\ j \in Job /\ j.what = job[r].what /\ j.since = job[r].since
      /\ j.seed = job[r].seed /\ j.height = Now /\ j.left = NoCall /\ j.right = job[r].right
  BY <1>2, CallsTyped DEF Job
<1>4. Sound(j, Now, Findable, PurseMissing) /\ j.what \in Key
  <2>1. job[r].what \in Key
    BY <1>1, <1>2 DEF Sound
  <2>2. job[r].what \in What /\ job[r].what # Null /\ job[r].what # Balance
    BY <2>1, NullIsNothing
  <2> HIDE DEF j
  <2>3. NoCall.method = "none"
    BY CallsTyped
  <2>4. QED
    BY <1>2, <1>3, <2>1, <2>2, <2>3 DEF Sound
<1> HIDE DEF j
<1>5. /\ WithItem(j) \in Job /\ Sound(WithItem(j), Now, Findable, PurseMissing)
      /\ WithItem(j).what = job[r].what /\ WithItem(j).since = job[r].since
  BY <1>2, <1>3, <1>4, WithItemSound
<1>6. QED
  BY <1>1, <1>5 DEF MovesOn

\* The hash was a package's.
LEMMA PackageFoundMoves ==
    ASSUME ClientInductive, NEW r \in Reader, PackageFound(r)
    PROVE  MovesOn(r)
<1> DEFINE j == [job[r] EXCEPT !.right = CallOf(newest)]
<1>1. /\ job[r].right.method = "contract" /\ job' = [job EXCEPT ![r] = j]
      /\ packaged /\ UNCHANGED <<history, answer, packaged>>
  BY DEF PackageFound, ClientInductive, JobsOK
<1>2. job[r] \in Job /\ Sound(job[r], Now, Findable, PurseMissing)
  BY JobTyped
<1>3. /\ CallOf(newest) \in RightCall /\ CallOf(newest) # NoCall
      /\ CallOf(newest).method = "version" /\ CallOf(newest).version \in Findable
      /\ job[r].right # NoCall
  BY <1>1, CallsTyped, VersionsTyped
<1>4. /\ j \in Job /\ j.right = CallOf(newest) /\ j.left = job[r].left
      /\ j.what = job[r].what /\ j.since = job[r].since
      /\ j.height = job[r].height /\ j.seed = job[r].seed
  BY <1>2, <1>3, RightSet
<1>5. job[r].what = Null => j = [NoJob EXCEPT !.right = j.right]
  <2>1. ASSUME job[r].what = Null PROVE job[r] = [NoJob EXCEPT !.right = job[r].right]
    BY <1>2, <2>1 DEF Sound
  <2>2. QED
    BY <2>1, LeftOverSet
<1> HIDE DEF j
<1>6. Sound(j, Now, Findable, PurseMissing)
  BY <1>2, <1>3, <1>4, <1>5 DEF Sound
<1>7. QED
  BY <1>1, <1>4, <1>6 DEF MovesOn

\* A version found is one the seed's cache may hold.
LEMMA SeedKept ==
    ASSUME ClientInductive, UNCHANGED <<history, packaged, mainPurse>>, seedUref' \in Findable
    PROVE  CachesOK'
BY ChainStays DEF ClientInductive, CachesOK

\* The keys hold the seed.
LEMMA StateSeedMoves ==
    ASSUME ClientInductive, NEW r \in Reader, StateSeedUref(r)
    PROVE  MovesOn(r) /\ CachesOK'
<1> DEFINE found == Found(r)
           j == [job[r] EXCEPT !.right = NoCall, !.seed = found]
<1>1. /\ HasKeys(r) /\ job[r].what \in Key /\ job' = [job EXCEPT ![r] = WithItem(j)]
      /\ seedUref' = found /\ UNCHANGED <<history, answer, packaged, mainPurse>>
  BY DEF StateSeedUref, ClientInductive, JobsOK
<1>2. /\ job[r] \in Job /\ Sound(job[r], Now, Findable, PurseMissing) /\ Now \in Nat
      /\ job[r].what \in What /\ job[r].what # Null /\ job[r].what # Balance
  BY <1>1, JobTyped, NullIsNothing
<1>3. found \in Findable /\ found \in Nat /\ found # 0
  BY <1>1, FoundIsThere
<1> HIDE DEF found
<1>4. /\ j \in Job /\ j.right = NoCall /\ j.left = job[r].left
      /\ j.what = job[r].what /\ j.since = job[r].since
      /\ j.height = job[r].height /\ j.seed = found
  BY <1>2, <1>3, CallsTyped DEF Job
<1> HIDE DEF j
<1>5. Sound(j, Now, Findable, PurseMissing)
  <2>1. NoCall.method = "none"
    BY CallsTyped
  <2>2. QED
    BY <1>2, <1>3, <1>4, <2>1 DEF Sound
<1>6. /\ WithItem(j) \in Job /\ Sound(WithItem(j), Now, Findable, PurseMissing)
      /\ WithItem(j).what = job[r].what /\ WithItem(j).since = job[r].since
  BY <1>1, <1>2, <1>4, <1>5, WithItemSound
<1>7. CachesOK'
  BY <1>1, <1>3, SeedKept
<1>8. QED
  BY <1>1, <1>6, <1>7 DEF MovesOn

\* The keys hold the purse, or there is none.
LEMMA ContractPurseMoves ==
    ASSUME ClientInductive, NEW r \in Reader, ContractPurseUref(r)
    PROVE  MovesOn(r) /\ CachesOK'
<1> DEFINE none  == Held(Found(r), Now)[Balance] = Null
           purse == IF none THEN 0 ELSE Found(r)
           left  == IF purse = 0 THEN NoCall ELSE Call("balance")
           j == [job[r] EXCEPT !.right = NoCall, !.seed = purse, !.left = left]
<1>1. /\ HasKeys(r) /\ job[r].what = Balance
      /\ job' = [job EXCEPT ![r].right = NoCall, ![r].seed = purse, ![r].left = left]
      /\ mainPurse' = [looked |-> TRUE, of |-> purse]
      /\ UNCHANGED <<history, answer, packaged, seedUref>>
  BY DEF ContractPurseUref
<1>2. /\ job[r] \in Job /\ Sound(job[r], Now, Findable, PurseMissing)
      /\ Now \in Nat /\ Now >= 1 /\ Now \in 1..Now
  BY JobTyped, VersionsTyped
<1>3. job' = [job EXCEPT ![r] = j]
  BY <1>1, <1>2 DEF ClientInductive, JobsOK
<1>4. /\ Found(r) \in Findable /\ Found(r) \in 1..newest /\ Found(r) \in Nat /\ Found(r) # 0
      /\ job[r].what \in What /\ job[r].what # Null /\ job[r].what \notin Key
  BY <1>1, FoundIsThere, NullIsNothing
<1>5. none => PurseMissing
  <2>1. history[Now] \in Seq(Promise!Contents) /\ newest = Len(history[Now])
    BY <1>2 DEF ClientInductive, ChainOK, Now, newest
  <2>2. Found(r) \in DOMAIN history[Now]
    BY <1>4, <2>1
  <2>3. Held(Found(r), Now) = history[Now][Found(r)]
    BY <2>2 DEF Held
  <2>4. QED
    BY <1>2, <2>2, <2>3 DEF PurseMissing
<1>6. /\ purse \in {0} \cup Findable /\ purse \in Nat /\ (purse = 0 => PurseMissing)
      /\ left \in LeftCall /\ left.method \in {"none", "balance"}
      /\ left.method = "balance" => purse # 0
      /\ left = NoCall => purse = 0
  BY <1>4, <1>5, CallsTyped
<1> HIDE DEF none, purse, left
<1>7. /\ j \in Job /\ j.right = NoCall /\ j.left = left
      /\ j.what = job[r].what /\ j.since = job[r].since
      /\ j.height = job[r].height /\ j.seed = purse
  BY <1>2, <1>6, CallsTyped DEF Job
<1> HIDE DEF j
<1>8. Sound(j, Now, Findable, PurseMissing)
  <2>1. NoCall.method = "none"
    BY CallsTyped
  <2>2. QED
    BY <1>1, <1>2, <1>4, <1>6, <1>7, <2>1 DEF Sound
<1>9. CachesOK'
  BY <1>1, <1>6, ChainStays DEF ClientInductive, CachesOK
<1>10. QED
  BY <1>1, <1>3, <1>7, <1>8, <1>9 DEF MovesOn

\* The keys a read that threw had asked for: the reader is idle before and after.
LEMMA StrayEndsMoves ==
    ASSUME ClientInductive, NEW r \in Reader, StrayEnds(r)
    PROVE  MovesOn(r) /\ CachesOK'
<1>1. /\ HasKeys(r) /\ job[r].what = Null /\ job' = [job EXCEPT ![r] = NoJob]
      /\ seedUref' = Found(r) /\ UNCHANGED <<history, answer, packaged, mainPurse>>
  BY DEF StrayEnds
<1>2. job[r].what = NoJob.what /\ job[r].since = NoJob.since
  <2>1. job[r] = [NoJob EXCEPT !.right = job[r].right]
    BY <1>1, JobTyped DEF Sound
  <2>2. /\ [NoJob EXCEPT !.right = job[r].right].what = NoJob.what
        /\ [NoJob EXCEPT !.right = job[r].right].since = NoJob.since
    BY DEF NoJob
  <2>3. QED
    BY <2>1, <2>2
<1>3. NoJob \in Job /\ Sound(NoJob, Now, Findable, PurseMissing)
  BY JobTyped, NoJobIsSound
<1>4. CachesOK'
  BY <1>1, FoundIsThere, SeedKept
<1>5. QED
  BY <1>1, <1>2, <1>3, <1>4 DEF MovesOn

\* A request is tried again.
LEMMA RetryMoves ==
    ASSUME ClientInductive, NEW r \in Reader, NEW side \in {"left", "right"}, Retry(r, side)
    PROVE  MovesOn(r)
<1>1. /\ job[r][side] # NoCall /\ job[r][side].tries < Attempts
      /\ job' = [job EXCEPT ![r][side].tries = @ + 1]
      /\ UNCHANGED <<history, answer, packaged>>
  BY DEF Retry
<1>2. /\ job[r] \in Job /\ Sound(job[r], Now, Findable, PurseMissing)
      /\ job[r].left \in LeftCall /\ job[r].right \in RightCall
  BY JobTyped
<1>3. CASE side = "left"
  <2> DEFINE c == [job[r].left EXCEPT !.tries = @ + 1]
             j == [job[r] EXCEPT !.left = c]
  <2>1. /\ c \in LeftCall /\ c.method = job[r].left.method
        /\ c.tries = job[r].left.tries + 1 /\ job[r].left.tries \in Nat
    BY <1>1, <1>2, <1>3 DEF LeftCall
  <2>2. c # NoCall
    BY <2>1 DEF NoCall
  <2>3. job' = [job EXCEPT ![r] = j]
    BY <1>1, <1>2, <1>3 DEF ClientInductive, JobsOK, Job, LeftCall
  <2> HIDE DEF c
  <2>4. /\ j \in Job /\ j.left = c /\ j.right = job[r].right
        /\ j.what = job[r].what /\ j.since = job[r].since
        /\ j.height = job[r].height /\ j.seed = job[r].seed
    BY <1>2, <2>1, LeftSet
  <2> HIDE DEF j
  <2>5. job[r].what # Null
    BY <1>1, <1>2, <1>3, UnderWay, NullIsNothing
  <2>6. Sound(j, Now, Findable, PurseMissing)
    BY <1>2, <2>1, <2>2, <2>4, <2>5 DEF Sound
  <2>7. QED
    BY <1>1, <2>3, <2>4, <2>6 DEF MovesOn
<1>4. CASE side = "right"
  <2> DEFINE c == [job[r].right EXCEPT !.tries = @ + 1]
             j == [job[r] EXCEPT !.right = c]
  <2>1. /\ c \in RightCall /\ c.tries = job[r].right.tries + 1 /\ job[r].right.tries \in Nat
        /\ c.method = job[r].right.method /\ c.version = job[r].right.version
    BY <1>1, <1>2, <1>4 DEF RightCall
  <2>2. c # NoCall /\ job[r].right # NoCall
    BY <1>1, <1>4, <2>1 DEF NoCall
  <2>3. job' = [job EXCEPT ![r] = j]
    BY <1>1, <1>2, <1>4 DEF ClientInductive, JobsOK, Job, RightCall
  <2> HIDE DEF c
  <2>4. /\ j \in Job /\ j.right = c /\ j.left = job[r].left
        /\ j.what = job[r].what /\ j.since = job[r].since
        /\ j.height = job[r].height /\ j.seed = job[r].seed
    BY <1>2, <2>1, RightSet
  <2>5. job[r].what = Null => j = [NoJob EXCEPT !.right = j.right]
    <3>1. ASSUME job[r].what = Null PROVE job[r] = [NoJob EXCEPT !.right = job[r].right]
      BY <1>2, <3>1 DEF Sound
    <3>2. QED
      BY <3>1, LeftOverSet
  <2> HIDE DEF j
  <2>6. Sound(j, Now, Findable, PurseMissing)
    BY <1>2, <2>1, <2>2, <2>4, <2>5 DEF Sound
  <2>7. QED
    BY <1>1, <2>3, <2>4, <2>6 DEF MovesOn
<1>5. QED
  BY <1>3, <1>4

\* A read that throws leaves at most the keys it asked for; if it was that itself,
\* the reader hears nothing.
LEMMA ThrowsLeaves ==
    ASSUME ClientInductive, NEW r \in Reader, NEW side \in {"left", "right"},
           Throws(r, side), job[r][side] # NoCall
    PROVE  /\ ClientInductive'
           /\ UNCHANGED history
           /\ \E j : job' = [job EXCEPT ![r] = j] /\ j.what = Null /\ j.since = 0
           /\ \/ job[r].what \in What /\ answer' = [answer EXCEPT ![r] = Error]
              \/ job[r].what = Null /\ job[r].since = 0 /\ answer' = answer
<1> DEFINE c == IF side = "left" THEN job[r].right ELSE NoCall
           j == [NoJob EXCEPT !.right = c]
<1>1. /\ job' = [job EXCEPT ![r] = j]
      /\ answer' = IF job[r].what = Null THEN answer ELSE [answer EXCEPT ![r] = Error]
      /\ UNCHANGED <<history, packaged, seedUref, mainPurse>>
  BY DEF Throws
<1>2. /\ job[r] \in Job /\ Sound(job[r], Now, Findable, PurseMissing) /\ Now \in Nat
      /\ job[r].right \in RightCall
  BY JobTyped
<1>3. c \in RightCall /\ (c.method = "version" => c.version \in Findable)
  BY <1>2, CallsTyped DEF Sound
<1> HIDE DEF c
<1>4. j \in Job /\ Sound(j, Now, Findable, PurseMissing) /\ j.what = Null /\ j.since = 0
  BY <1>2, <1>3, NoJobSound
<1> HIDE DEF j
<1>5. JobsOK'
  BY <1>1, <1>4, JobMoves
<1>6. AnswersOK'
  BY <1>1 DEF ClientInductive, AnswersOK
<1>7. ClientInductive'
  BY <1>1, <1>5, <1>6, ChainStays, CachesStay DEF ClientInductive
<1>8. \/ job[r].what \in What /\ answer' = [answer EXCEPT ![r] = Error]
      \/ job[r].what = Null /\ job[r].since = 0 /\ answer' = answer
  <2>1. CASE job[r].what = Null
    <3>1. job[r] = [NoJob EXCEPT !.right = job[r].right]
      BY <1>2, <2>1 DEF Sound
    <3>2. [NoJob EXCEPT !.right = job[r].right].since = 0
      BY DEF NoJob
    <3>3. job[r].since = 0
      BY <3>1, <3>2
    <3>4. QED
      BY <1>1, <2>1, <3>3
  <2>2. CASE job[r].what # Null
    BY <1>1, <1>2, <2>2 DEF Job
  <2>3. QED
    BY <2>1, <2>2
<1>9. QED
  BY <1>1, <1>4, <1>7, <1>8

\* What a version holds, or will hold, is a value or null.
LEMMA HeldTyped ==
    ASSUME ClientInductive, NEW h \in 1..Now, NEW v, NEW w \in What
    PROVE  Held(v, h)[w] \in Value \cup {Null, Error}
<1>1. history[h] \in Seq(Promise!Contents)
  BY DEF ClientInductive, ChainOK, Now
<1>2. Promise!What = What
  BY DEF Promise!What, What
<1>3. CASE v \in DOMAIN history[h]
  <2>1. history[h][v] \in [What -> Value \cup {Null}]
    BY <1>1, <1>2, <1>3 DEF Promise!Contents
  <2>2. Held(v, h) = history[h][v]
    BY <1>3 DEF Held
  <2>3. QED
    BY <2>1, <2>2
<1>4. CASE v \notin DOMAIN history[h]
  <2>1. Held(v, h) = [x \in What |-> Null]
    BY <1>2, <1>4 DEF Held
  <2>2. QED
    BY <2>1
<1>5. QED
  BY <1>3, <1>4

\* The three answers that are not errors: each ends the read with a value or
\* null.
LEMMA ItemReturns ==
    ASSUME ClientInductive, NEW r \in Reader, Item(r)
    PROVE  /\ job[r].what \in Key /\ job[r].what \in What /\ job[r].seed \in 1..newest
           /\ job[r].height \in 1..Now /\ job[r].since \in 1..job[r].height
           /\ Held(job[r].seed, job[r].height)[job[r].what] \in Value \cup {Null, Error}
           /\ Returns(r, Held(job[r].seed, job[r].height)[job[r].what])
<1>1. /\ job[r].left.method = "item"
      /\ Returns(r, Held(job[r].seed, job[r].height)[job[r].what])
  BY DEF Item
<1>2. /\ job[r] \in Job /\ Sound(job[r], Now, Findable, PurseMissing)
      /\ job[r].height \in Nat /\ Now \in Nat /\ job[r].since \in Nat
  BY JobTyped
<1>3. /\ job[r].what \in Key /\ job[r].height # 0 /\ job[r].seed \in Findable
      /\ job[r].height >= job[r].since /\ job[r].height <= Now
  BY <1>1, <1>2 DEF Sound
<1>4. job[r].what \in What /\ job[r].since \in 1..Now
  BY <1>2, <1>3, NullIsNothing DEF Sound
<1>5. job[r].height \in 1..Now /\ job[r].since \in 1..job[r].height
  BY <1>2, <1>3, <1>4
<1>6. QED
  BY <1>1, <1>3, <1>4, <1>5, HeldTyped, VersionsTyped

\* query_balance is answered from the newest state, of a purse that is there.
LEMMA BalanceReturns ==
    ASSUME ClientInductive, NEW r \in Reader, QueryBalance(r)
    PROVE  /\ job[r].what = Balance /\ Balance \in What /\ job[r].seed \in 1..newest
           /\ Now \in 1..Now /\ job[r].since \in 1..Now
           /\ Held(job[r].seed, Now)[Balance] \in Value \cup {Null, Error}
           /\ Returns(r, Held(job[r].seed, Now)[Balance])
<1>1. job[r].left.method = "balance" /\ Returns(r, Held(job[r].seed, Now)[Balance])
  BY DEF QueryBalance
<1>2. Sound(job[r], Now, Findable, PurseMissing)
  BY JobTyped
<1>3. job[r].what = Balance /\ job[r].seed \in Findable
  BY <1>1, <1>2 DEF Sound
<1>4. job[r].since \in 1..Now /\ Balance \in What
  BY <1>2, <1>3, NullIsNothing DEF Sound
<1>5. QED
  BY <1>1, <1>3, <1>4, HeldTyped, VersionsTyped

\* Without a purse the balance is null, and some version had none at some block.
LEMMA NoPurseReturns ==
    ASSUME ClientInductive, NEW r \in Reader, NoPurse(r)
    PROVE  job[r].what = Balance /\ Balance \in What /\ PurseMissing /\ Returns(r, Null)
<1>1. /\ job[r].what = Balance /\ job[r].left = NoCall /\ job[r].right = NoCall
      /\ Returns(r, Null)
  BY DEF NoPurse
<1>2. Sound(job[r], Now, Findable, PurseMissing)
  BY JobTyped
<1>3. PurseMissing
  BY <1>1, <1>2 DEF Sound
<1>4. QED
  BY <1>1, <1>3, NullIsNothing

-----------------------------------------------------------------------------
(* The invariant.                                                           *)

\* A step that moves a read on keeps the invariant, if it keeps the caches.
LEMMA OneReadOn ==
    ASSUME ClientInductive, NEW r \in Reader, MovesOn(r), CachesOK'
    PROVE  ClientInductive'
BY MovesOnKeeps DEF ClientInductive

\* A step that ends a read keeps the invariant, whatever it answers.
LEMMA OneReadEnds ==
    ASSUME ClientInductive, NEW r \in Reader, NEW v \in Value \cup {Null, Error}, Returns(r, v),
           UNCHANGED <<history, packaged, seedUref, mainPurse>>
    PROVE  ClientInductive'
BY ReturnsKeeps, ChainStays, CachesStay DEF ClientInductive

\* The inductive invariant is one: every step of every reader keeps it.
THEOREM ClientInductiveHolds == ClientSpec => []ClientInductive
<1>1. ClientInit => ClientInductive
  BY ClientStarts
<1>2. ASSUME ClientInductive, [ClientNext]_vars PROVE ClientInductive'
  <2>1. CASE NewBlock \/ Upgrade
    BY <1>2, <2>1, ChainStepKeeps
  <2>2. ASSUME NEW r \in Reader, Left(r) PROVE ClientInductive'
    <3>1. CASE RootHash(r)
      <4>1. UNCHANGED <<history, packaged, seedUref, mainPurse>>
        BY <3>1 DEF RootHash
      <4>2. QED
        BY <1>2, <3>1, <4>1, RootHashMoves, CachesStay, OneReadOn
    <3>2. CASE Item(r)
      <4>1. UNCHANGED <<history, packaged, seedUref, mainPurse>>
        BY <3>2 DEF Item
      <4>2. PICK v \in Value \cup {Null, Error} : Returns(r, v)
        BY <1>2, <3>2, ItemReturns
      <4>3. QED
        BY <1>2, <4>1, <4>2, OneReadEnds
    <3>3. CASE QueryBalance(r)
      <4>1. UNCHANGED <<history, packaged, seedUref, mainPurse>>
        BY <3>3 DEF QueryBalance
      <4>2. PICK v \in Value \cup {Null, Error} : Returns(r, v)
        BY <1>2, <3>3, BalanceReturns
      <4>3. QED
        BY <1>2, <4>1, <4>2, OneReadEnds
    <3>4. CASE NoPurse(r)
      <4>1. UNCHANGED <<history, packaged, seedUref, mainPurse>>
        BY <3>4 DEF NoPurse
      <4>2. QED
        BY <1>2, <3>4, <4>1, NoPurseReturns, OneReadEnds
    <3>5. QED
      BY <2>2, <3>1, <3>2, <3>3, <3>4 DEF Left
  <2>3. ASSUME NEW r \in Reader, Right(r) PROVE ClientInductive'
    <3>1. CASE PackageFound(r)
      <4>1. UNCHANGED <<history, packaged, seedUref, mainPurse>>
        BY <3>1 DEF PackageFound
      <4>2. QED
        BY <1>2, <3>1, <4>1, PackageFoundMoves, CachesStay, OneReadOn
    <3>2. CASE StateSeedUref(r)
      BY <1>2, <3>2, StateSeedMoves, OneReadOn
    <3>3. CASE ContractPurseUref(r)
      BY <1>2, <3>3, ContractPurseMoves, OneReadOn
    <3>4. CASE StrayEnds(r)
      BY <1>2, <3>4, StrayEndsMoves, OneReadOn
    <3>5. QED
      BY <2>3, <3>1, <3>2, <3>3, <3>4 DEF Right
  <2>4. ASSUME NEW r \in Reader, NEW w \in Promise!What, Start(r, w) PROVE ClientInductive'
    BY <1>2, <2>4, StartKeeps
  <2>5. ASSUME NEW r \in Reader, NEW side \in {"left", "right"}, Outcome(r, side)
        PROVE  ClientInductive'
    <3>1. CASE Retry(r, side)
      <4>1. UNCHANGED <<history, packaged, seedUref, mainPurse>>
        BY <3>1 DEF Retry
      <4>2. QED
        BY <1>2, <3>1, <4>1, RetryMoves, CachesStay, OneReadOn
    <3>2. CASE GiveUp(r, side) \/ Refused(r, side)
      BY <1>2, <3>2, ThrowsLeaves DEF GiveUp, Refused
    <3>3. QED
      BY <2>5, <3>1, <3>2 DEF Outcome
  <2>6. CASE UNCHANGED vars
    <3>1. /\ UNCHANGED <<history, packaged, seedUref, mainPurse>>
          /\ UNCHANGED <<answer, job>>
      BY <2>6 DEF vars, clientVars
    <3>2. JobsOK' /\ AnswersOK'
      BY <1>2, <3>1, ChainStays DEF ClientInductive, JobsOK, AnswersOK
    <3>3. QED
      BY <1>2, <3>1, <3>2, ChainStays, CachesStay DEF ClientInductive
  <2>7. QED
    BY <1>2, <2>1, <2>2, <2>3, <2>4, <2>5, <2>6 DEF ClientNext, Goes
<1>3. QED
  BY <1>1, <1>2, PTL DEF ClientSpec

\* Two requests at most, each within its attempts, no item asked for while the
\* seed is still being found, and caches that hold what namedKeys found
\* (agent/src/kernel/odra-state.ts).
THEOREM ClientTypeCorrect == ClientSpec => []ClientTypeOK
<1>1. ASSUME ClientInductive PROVE ClientTypeOK
  <2>1. ASSUME NEW r \in Reader
        PROVE  LET j == job[r]
               IN  /\ answer[r] \in Value \cup {Null, Error}
                   /\ j.since <= Now /\ j.height <= Now /\ j.seed \in {0} \cup Findable
                   /\ {j.left.tries, j.right.tries} \subseteq 0..Attempts
                   /\ j.left.method \in {"none", "root", "item", "balance"}
                   /\ j.right.method \in {"none", "contract", "version"}
                   /\ j.left.method = "item" => j.right = NoCall
    <3>1. /\ Sound(job[r], Now, Findable, PurseMissing) /\ job[r].left \in LeftCall
          /\ job[r].right \in RightCall /\ job[r].height \in Nat /\ Now \in Nat
          /\ job[r] \in Job /\ Now >= 1
      BY <1>1, JobTyped
    <3>2. answer[r] \in Value \cup {Null, Error}
      BY <1>1 DEF ClientInductive, AnswersOK
    <3>3. job[r].since <= Now
      <4>1. CASE job[r].what = Null
        <5>1. job[r] = [NoJob EXCEPT !.right = job[r].right]
          BY <3>1, <4>1 DEF Sound
        <5>2. [NoJob EXCEPT !.right = job[r].right].since = 0
          BY DEF NoJob
        <5>3. job[r].since = 0
          BY <5>1, <5>2, Zenon
        <5>4. QED
          BY <3>1, <5>3
      <4>2. CASE job[r].what # Null
        BY <3>1, <4>2 DEF Sound, Job
      <4>3. QED
        BY <4>1, <4>2
    <3>4. job[r].height <= Now /\ job[r].seed \in {0} \cup Findable
      BY <3>1 DEF Sound
    <3>5. job[r].left.method = "item" => job[r].right = NoCall
      BY <3>1 DEF Sound
    <3>6. QED
      BY <3>1, <3>2, <3>3, <3>4, <3>5 DEF LeftCall, RightCall
  <2>2. QED
    BY <1>1, <2>1 DEF ClientTypeOK, ClientInductive, CachesOK
<1>2. QED
  BY <1>1, ClientInductiveHolds, PTL

-----------------------------------------------------------------------------
(* The promise.                                                             *)

\* A step that moves a read on is none the asker can see.
LEMMA MovesOnUnseen ==
    ASSUME ClientInductive, NEW r \in Reader, MovesOn(r)
    PROVE  UNCHANGED <<history, reading, answer>>
<1>1. PICK j \in Job : /\ job' = [job EXCEPT ![r] = j]
                       /\ j.what = job[r].what /\ j.since = job[r].since
  BY DEF MovesOn
<1>2. ASSUME NEW q \in Reader
      PROVE  job'[q].what = job[q].what /\ job'[q].since = job[q].since
  BY <1>1 DEF ClientInductive, JobsOK
<1>3. reading' = reading
  BY <1>2 DEF reading
<1>4. QED
  BY <1>3 DEF MovesOn

\* A read that ends is told to the asker.
LEMMA EndIsTold ==
    ASSUME ClientInductive, NEW r \in Reader, NEW v \in Value \cup {Null, Error}, NEW j,
           job[r].what \in What, j.what = Null, j.since = 0,
           job' = [job EXCEPT ![r] = j], answer' = [answer EXCEPT ![r] = v], UNCHANGED history,
           Promise!Held(r, v) \/ Promise!NoPurse(r, v) \/ Promise!Missed(r, v) \/ Promise!Threw(v)
    PROVE  Promise!Tell(r)
<1>1. reading[r] # Promise!Idle
  <2>1. reading[r].what = job[r].what /\ Promise!Idle.what = Null
    BY DEF reading, Promise!Idle
  <2>2. QED
    BY <2>1, NullIsNothing
<1>2. ASSUME NEW q \in Reader PROVE job'[q] = IF q = r THEN j ELSE job[q]
  BY DEF ClientInductive, JobsOK
<1>3. reading' = [reading EXCEPT ![r] = Promise!Idle]
  <2>1. [what |-> j.what, since |-> j.since] = Promise!Idle
    BY DEF Promise!Idle
  <2>2. QED
    BY <1>2, <2>1 DEF reading
<1>4. QED
  BY <1>1, <1>3 DEF Promise!Tell

\* An answer is one that ends a read.
LEMMA ReturnIsTold ==
    ASSUME ClientInductive, NEW r \in Reader, NEW v \in Value \cup {Null, Error},
           job[r].what \in What, Returns(r, v), UNCHANGED history,
           Promise!Held(r, v) \/ Promise!NoPurse(r, v) \/ Promise!Missed(r, v)
    PROVE  Promise!Tell(r)
<1>1. NoJob.what = Null /\ NoJob.since = 0
  BY DEF NoJob
<1>2. job' = [job EXCEPT ![r] = NoJob] /\ answer' = [answer EXCEPT ![r] = v]
  BY DEF Returns
<1>3. QED
  BY <1>1, <1>2, EndIsTold

\* A block and an upgrade, as the promise sees them.
LEMMA ChainStepIsSeen ==
    ASSUME ClientInductive, NewBlock \/ Upgrade
    PROVE  Promise!Block \/ Promise!Upgrade
<1>1. /\ UNCHANGED <<reading, answer>>
      /\ Now \in Nat /\ history \in Seq(Seq(Promise!Contents)) /\ Now = Len(history)
      /\ Promise!Newest = history[Now]
  BY JobTyped DEF NewBlock, Upgrade, clientVars, reading, ClientInductive, ChainOK, Now,
                  Promise!Newest
<1>2. ASSUME NEW s \in Seq(Promise!Contents), history' = Append(history, s)
      PROVE  Promise!Newest' = s /\ Promise!Grown
  <2>1. Promise!Newest' = s
    BY <1>1, <1>2 DEF Promise!Newest
  <2>2. QED
    BY <1>1, <1>2, <2>1 DEF Promise!Grown
<1>3. /\ history[Now] \in Seq(Promise!Contents) /\ newest = Len(history[Now])
      /\ DOMAIN history[Now] = 1..newest
  BY VersionsTyped DEF ClientInductive, ChainOK, Now, newest
<1>4. CASE NewBlock
  <2>1. PICK v \in 1..newest, c \in Promise!Contents :
            /\ Promise!Grows(history[Now][v], c)
            /\ history' = Append(history, [history[Now] EXCEPT ![v] = c])
    BY <1>4 DEF NewBlock
  <2>2. [history[Now] EXCEPT ![v] = c] \in Seq(Promise!Contents)
    <3>1. v \in 1..Len(history[Now])
      BY <1>3
    <3>2. QED
      BY <1>3, <3>1, ExceptSeq
  <2>3. Promise!Newest' = [history[Now] EXCEPT ![v] = c] /\ Promise!Grown
    BY <1>2, <2>1, <2>2
  <2>4. Promise!Block
    BY <1>1, <1>3, <2>1, <2>3 DEF Promise!Block
  <2>5. QED
    BY <2>4
<1>5. CASE Upgrade
  <2>1. PICK c \in Promise!Contents : history' = Append(history, Append(history[Now], c))
    BY <1>5 DEF Upgrade
  <2>2. Append(history[Now], c) \in Seq(Promise!Contents)
    BY <1>3
  <2>3. Promise!Newest' = Append(history[Now], c) /\ Promise!Grown
    BY <1>2, <2>1, <2>2
  <2>4. Promise!Upgrade
    BY <1>1, <2>1, <2>3 DEF Promise!Upgrade
  <2>5. QED
    BY <2>4
<1>6. QED
  BY <1>4, <1>5

\* A read begun is asked for.
LEMMA StartIsAsk ==
    ASSUME ClientInductive, NEW r \in Reader, NEW w \in Promise!What, Start(r, w)
    PROVE  Promise!Ask(r)
<1>1. PICK j : job' = [job EXCEPT ![r] = j] /\ j.what = w /\ j.since = Now
  BY StartKeeps
<1>2. job[r] = NoJob /\ answer' = [answer EXCEPT ![r] = Null] /\ history' = history
  BY DEF Start
<1>3. reading[r] = Promise!Idle
  BY <1>2 DEF reading, NoJob, Promise!Idle
<1>4. ASSUME NEW q \in Reader PROVE job'[q] = IF q = r THEN j ELSE job[q]
  BY <1>1 DEF ClientInductive, JobsOK
<1>5. reading' = [reading EXCEPT ![r] = [what |-> w, since |-> Len(history)]]
  BY <1>1, <1>4 DEF reading, Now
<1>6. QED
  BY <1>2, <1>3, <1>5 DEF Promise!Ask

\* An item is what a version held while it was being read, or nothing because
\* the contract was upgraded after the root was taken.
LEMMA ItemIsTold ==
    ASSUME ClientInductive, NEW r \in Reader, Item(r)
    PROVE  Promise!Tell(r)
<1> DEFINE h == job[r].height
           n == job[r].seed
           v == Held(n, h)[job[r].what]
<1>1. /\ job[r].what \in Key /\ job[r].what \in What /\ n \in 1..newest
      /\ h \in 1..Now /\ job[r].since \in 1..h
      /\ v \in Value \cup {Null, Error} /\ Returns(r, v)
  BY ItemReturns
<1>2. reading[r].what = job[r].what /\ reading[r].since = job[r].since
  BY DEF reading
<1>3. UNCHANGED history
  BY DEF Item
<1>4. Now \in Nat /\ newest \in Nat /\ Now = Len(history) /\ newest = Len(Promise!Newest)
  BY JobTyped, VersionsTyped DEF Now, newest, Promise!Newest
<1>5. CASE n \in DOMAIN history[h]
  <2>1. v = history[h][n][reading[r].what]
    BY <1>2, <1>5 DEF Held
  <2>2. h \in reading[r].since..Len(history)
    BY <1>1, <1>2, <1>4
  <2>3. Promise!Held(r, v)
    BY <1>5, <2>1, <2>2 DEF Promise!Held
  <2>4. QED
    BY <1>1, <1>3, <2>3, ReturnIsTold
<1>6. CASE n \notin DOMAIN history[h]
  <2>1. v = Null
    <3>1. Held(n, h) = [x \in Promise!What |-> Null]
      BY <1>6 DEF Held
    <3>2. job[r].what \in Promise!What
      BY <1>1 DEF Promise!What
    <3>3. QED
      BY <3>1, <3>2
  <2>2. history[h] \in Seq(Promise!Contents) /\ history[job[r].since] \in Seq(Promise!Contents)
    <3>1. h \in 1..Len(history) /\ job[r].since \in 1..Len(history)
      BY <1>1, <1>4
    <3>2. history \in Seq(Seq(Promise!Contents))
      BY DEF ClientInductive, ChainOK
    <3> HIDE DEF h
    <3>3. QED
      BY <3>1, <3>2
  <2>3. Len(history[h]) < n
    BY <1>1, <1>4, <1>6, <2>2
  <2>4. Len(history[job[r].since]) <= Len(history[h])
    <3> DEFINE s == job[r].since
    <3>1. s \in 1..Now /\ h \in s..Now
      BY <1>1, <1>4
    <3>2. \A i \in 1..Now : \A m \in i..Now : Len(history[i]) <= Len(history[m])
      BY DEF ClientInductive, ChainOK
    <3> HIDE DEF s, h
    <3>3. Len(history[s]) <= Len(history[h])
      BY <3>1, <3>2, Zenon
    <3>4. QED
      BY <3>3 DEF s
  <2>5. Len(history[reading[r].since]) < Len(Promise!Newest)
    BY <1>1, <1>2, <1>4, <2>2, <2>3, <2>4
  <2>6. Promise!Missed(r, v)
    BY <1>1, <1>2, <2>1, <2>5 DEF Promise!Missed
  <2>7. QED
    BY <1>1, <1>3, <2>6, ReturnIsTold
<1>7. QED
  BY <1>5, <1>6

\* A balance is that of some version's purse, or null as some version had none.
LEMMA BalanceIsTold ==
    ASSUME ClientInductive, NEW r \in Reader, QueryBalance(r) \/ NoPurse(r)
    PROVE  Promise!Tell(r)
<1>1. reading[r].what = job[r].what /\ reading[r].since = job[r].since
  BY DEF reading
<1>2. UNCHANGED history
  BY DEF QueryBalance, NoPurse
<1>3. Now = Len(history) /\ Now \in Nat
  BY JobTyped DEF Now
<1>4. CASE QueryBalance(r)
  <2> DEFINE n == job[r].seed
             v == Held(n, Now)[Balance]
  <2>1. /\ job[r].what = Balance /\ Balance \in What /\ n \in 1..newest
        /\ Now \in 1..Now /\ job[r].since \in 1..Now
        /\ v \in Value \cup {Null, Error} /\ Returns(r, v)
    BY <1>4, BalanceReturns
  <2>2. n \in DOMAIN history[Now]
    <3>1. history[Now] \in Seq(Promise!Contents) /\ newest = Len(history[Now])
      BY <2>1 DEF ClientInductive, ChainOK, Now, newest
    <3>2. QED
      BY <2>1, <3>1
  <2>3. v = history[Now][n][reading[r].what]
    BY <1>1, <2>1, <2>2 DEF Held
  <2>4. Now \in reading[r].since..Len(history)
    BY <1>1, <1>3, <2>1
  <2>5. Promise!Held(r, v)
    BY <2>2, <2>3, <2>4 DEF Promise!Held
  <2>6. QED
    BY <1>2, <2>1, <2>5, ReturnIsTold
<1>5. CASE NoPurse(r)
  <2>1. job[r].what = Balance /\ Balance \in What /\ PurseMissing /\ Returns(r, Null)
    BY <1>5, NoPurseReturns
  <2>2. Promise!NoPurse(r, Null)
    BY <1>1, <1>3, <2>1 DEF PurseMissing, Promise!NoPurse
  <2>3. QED
    BY <1>2, <2>1, <2>2, ReturnIsTold
<1>6. QED
  BY <1>4, <1>5

\* A read that throws is told the error; what is left of one tells nobody.
LEMMA ThrowIsTold ==
    ASSUME ClientInductive, NEW r \in Reader, NEW side \in {"left", "right"},
           Throws(r, side), job[r][side] # NoCall
    PROVE  Promise!Tell(r) \/ UNCHANGED <<history, reading, answer>>
<1>1. PICK j : job' = [job EXCEPT ![r] = j] /\ j.what = Null /\ j.since = 0
  BY ThrowsLeaves
<1>2. UNCHANGED history
  BY ThrowsLeaves
<1>3. CASE job[r].what \in What /\ answer' = [answer EXCEPT ![r] = Error]
  <2>1. Promise!Threw(Error)
    BY DEF Promise!Threw
  <2>2. QED
    BY <1>1, <1>2, <1>3, <2>1, EndIsTold
<1>4. CASE job[r].what = Null /\ job[r].since = 0 /\ answer' = answer
  <2>1. ASSUME NEW q \in Reader
        PROVE  job'[q].what = job[q].what /\ job'[q].since = job[q].since
    BY <1>1, <1>4 DEF ClientInductive, JobsOK
  <2>2. reading' = reading
    BY <2>1 DEF reading
  <2>3. QED
    BY <1>2, <1>4, <2>2
<1>5. QED
  BY <1>3, <1>4, ThrowsLeaves

\* The client implements FieldRead: whatever the retries, the two requests of a
\* read, the cached seed and purse and upgrades of the contract do, a read is
\* answered with what a version of the contract held meanwhile, or with an error
\* (agent/src/kernel/odra-state.ts:227).
THEOREM ClientKeepsThePromise == ClientSpec => KeepsThePromise
<1>1. ClientInit => Promise!Init
  <2>1. ASSUME ClientInit PROVE reading = [r \in Reader |-> Promise!Idle]
    BY <2>1 DEF ClientInit, reading, NoJob, Promise!Idle
  <2>2. QED
    BY <2>1 DEF ClientInit, Promise!Init
<1>2. ASSUME ClientInductive, [ClientNext]_vars
      PROVE  [Promise!Next]_<<history, reading, answer>>
  <2>1. CASE NewBlock \/ Upgrade
    BY <1>2, <2>1, ChainStepIsSeen DEF Promise!Next
  <2>2. CASE UNCHANGED vars
    <3>1. UNCHANGED <<history, answer, job>>
      BY <2>2 DEF vars, clientVars
    <3>2. QED
      BY <3>1 DEF reading
  <2>3. ASSUME NEW r \in Reader, Left(r) PROVE [Promise!Next]_<<history, reading, answer>>
    <3>1. CASE RootHash(r)
      BY <1>2, <3>1, RootHashMoves, MovesOnUnseen
    <3>2. CASE Item(r)
      BY <1>2, <3>2, ItemIsTold DEF Promise!Next
    <3>3. CASE QueryBalance(r) \/ NoPurse(r)
      BY <1>2, <3>3, BalanceIsTold DEF Promise!Next
    <3>4. QED
      BY <2>3, <3>1, <3>2, <3>3 DEF Left
  <2>4. ASSUME NEW r \in Reader, Right(r) PROVE [Promise!Next]_<<history, reading, answer>>
    <3>1. MovesOn(r)
      BY <1>2, <2>4, PackageFoundMoves, StateSeedMoves, ContractPurseMoves, StrayEndsMoves
      DEF Right
    <3>2. QED
      BY <1>2, <3>1, MovesOnUnseen
  <2>5. ASSUME NEW r \in Reader, NEW w \in Promise!What, Start(r, w)
        PROVE  [Promise!Next]_<<history, reading, answer>>
    BY <1>2, <2>5, StartIsAsk DEF Promise!Next
  <2>6. ASSUME NEW r \in Reader, NEW side \in {"left", "right"}, Outcome(r, side)
        PROVE  [Promise!Next]_<<history, reading, answer>>
    <3>1. CASE Retry(r, side)
      BY <1>2, <3>1, RetryMoves, MovesOnUnseen
    <3>2. CASE GiveUp(r, side) \/ Refused(r, side)
      <4>1. Throws(r, side) /\ job[r][side] # NoCall
        BY <3>2 DEF GiveUp, Refused
      <4>2. Promise!Tell(r) \/ UNCHANGED <<history, reading, answer>>
        BY <1>2, <4>1, ThrowIsTold
      <4>3. QED
        BY <4>2 DEF Promise!Next
    <3>3. QED
      BY <2>6, <3>1, <3>2 DEF Outcome
  <2>7. QED
    BY <1>2, <2>1, <2>2, <2>3, <2>4, <2>5, <2>6 DEF ClientNext, Goes
<1>3. QED
  BY <1>1, <1>2, ClientInductiveHolds, PTL DEF ClientSpec, KeepsThePromise, Promise!Spec

-----------------------------------------------------------------------------
(* StoredValue: dictionary keys.                                            *)

\* Fields of one level have their own index, fields of two levels a larger one,
\* and a level holds fewer fields than the next level's step.
LEMMA IndexIsInjective ==
    ASSUME NEW p \in Path, NEW q \in Path, fieldIndex(p) = fieldIndex(q)
    PROVE  p = q
<1>1. ASSUME NEW s \in Path
      PROVE  \/ \E i \in Index : s = <<i>> /\ fieldIndex(s) = i
             \/ \E i, j \in Index : s = <<i, j>> /\ fieldIndex(s) = i * 16 + j
  <2>1. CASE \E i \in Index : s = <<i>>
    BY <2>1 DEF fieldIndex
  <2>2. CASE \E i, j \in Index : s = <<i, j>>
    BY <2>2 DEF fieldIndex, nested
  <2>3. QED
    BY <2>1, <2>2 DEF Path
<1>2. ASSUME NEW i \in Index, NEW j \in Index, NEW k \in Index, NEW l \in Index
      PROVE  /\ i # k * 16 + l
             /\ i * 16 + j = k * 16 + l => i = k /\ j = l
  BY DEF Index
<1>3. QED
  BY <1>1, <1>2

\* The field asked for is a field, of one level or of two.
PathOK == path \in Path

\* It stays so: no step changes the path.
LEMMA PathIsAsked == Spec => []PathOK
<1>1. Init => PathOK
  BY DEF Init, Path, Index, PathOK
<1>2. PathOK /\ [Next]_storedVars => PathOK'
  <2> SUFFICES ASSUME Next PROVE path' = path
    BY DEF storedVars, PathOK
  <2>1. QED
    BY DEF Next, Throw, innerBytes, Read, u8, u32le, u64le, u512, string, address,
           option, assertFullyConsumed
<1>3. QED
  BY <1>1, <1>2, PTL DEF Spec

\* No two fields of the contract's state share a dictionary key
\* (escrow-reader.ts nested, clvalue.ts dictionaryItemKey), so that the client
\* never returns one field for another.
THEOREM KeysAlwaysDiffer == Spec => []KeysDiffer
<1>1. PathOK => KeysDiffer
  BY IndexIsInjective DEF KeysDiffer, PathOK
<1>2. QED
  BY <1>1, PathIsAsked, PTL

-----------------------------------------------------------------------------
(* StoredValue: decoding.  What holds of every number, by the least left out.*)

\* A set of numbers that is not empty has a least one.
LEMMA LeastNumber ==
    ASSUME NEW S, S \subseteq Nat, S # {}
    PROVE  \E x \in S : \A y \in S : x <= y
<1> DEFINE R == {ss \in Nat \X Nat : ss[1] < ss[2]}
<1>1. OpToRel(<, Nat) = R
  BY Zenon DEF OpToRel
<1>2. IsWellFoundedOn(R, Nat)
  BY <1>1, NatLessThanWellFounded, Zenon
<1>3. PICK x \in S : \A y \in S : ~(<<y, x>> \in R)
  <2> HIDE DEF R
  <2> QED
    BY <1>2, WFMin, Zenon
<1>4. ASSUME NEW y \in S PROVE x <= y
  <2>1. x \in Nat /\ y \in Nat
    OBVIOUS
  <2>2. ~(y < x)
    BY <1>3, <2>1
  <2>3. QED
    BY <2>1, <2>2
<1>5. QED
  BY <1>4

\* What holds of 0 and of every successor holds of every number.
LEMMA EveryNumber ==
    ASSUME NEW S, 0 \in S, \A n \in Nat : n \in S => n + 1 \in S
    PROVE  \A n \in Nat : n \in S
<1> SUFFICES ASSUME NEW m \in Nat, m \notin S PROVE FALSE
  OBVIOUS
<1>1. PICK x \in Nat \ S : \A y \in Nat \ S : x <= y
  BY LeastNumber
<1>2. x # 0 /\ x - 1 \in Nat /\ x - 1 + 1 = x
  BY <1>1
<1>3. x - 1 \in S
  BY <1>1, <1>2
<1>4. QED
  BY <1>1, <1>2, <1>3

HIDE ClientAssumption
USE StoredAssumption

-----------------------------------------------------------------------------
(* Numbers and their digits.                                                *)

\* Quotient and remainder.
LEMMA Division ==
    ASSUME NEW n \in Nat
    PROVE  /\ n \div Base \in Nat /\ n % Base \in 0..Base - 1
           /\ n = (n \div Base) * Base + (n % Base)
           /\ n > 0 => n \div Base < n
           /\ n < Base => n \div Base = 0
<1>1. n \div Base \in Nat /\ n % Base \in 0..Base - 1 /\ n = (n \div Base) * Base + (n % Base)
  OBVIOUS
<1>2. n > 0 => n \div Base < n
  BY <1>1
<1>3. n < Base => n \div Base = 0
  BY <1>1
<1>4. QED
  BY <1>1, <1>2, <1>3

\* The digits taken off, up to the k-th.
IsShift(rest, n, k) ==
    /\ rest \in [0..k -> Nat]
    /\ rest[0] = n
    /\ \A i \in 1..k : rest[i] = rest[i - 1] \div Base

\* There is such a function.
LEMMA ShiftExists == \A n \in Nat, k \in Nat : \E rest : IsShift(rest, n, k)
<1> SUFFICES ASSUME NEW n \in Nat
             PROVE  \A k \in Nat : k \in {j \in Nat : \E rest : IsShift(rest, n, j)}
  OBVIOUS
<1> DEFINE S == {j \in Nat : \E rest : IsShift(rest, n, j)}
<1>1. 0 \in S
  <2>1. IsShift([i \in 0..0 |-> n], n, 0)
    BY DEF IsShift
  <2>2. QED
    BY <2>1
<1>2. ASSUME NEW k \in Nat, k \in S PROVE k + 1 \in S
  <2>1. PICK rest : IsShift(rest, n, k)
    BY <1>2
  <2> DEFINE more == [i \in 0..k + 1 |-> IF i <= k THEN rest[i] ELSE rest[k] \div Base]
  <2>2. rest[k] \in Nat /\ rest[k] \div Base \in Nat
    <3>1. rest[k] \in Nat
      BY <2>1 DEF IsShift
    <3>2. QED
      BY <3>1, Division
  <2>3. more \in [0..k + 1 -> Nat] /\ more[0] = n
    BY <2>1, <2>2 DEF IsShift
  <2>4. ASSUME NEW i \in 1..k + 1 PROVE more[i] = more[i - 1] \div Base
    BY <2>1 DEF IsShift
  <2>5. IsShift(more, n, k + 1)
    <3> HIDE DEF more
    <3> QED
      BY <2>3, <2>4 DEF IsShift
  <2>6. QED
    BY <2>5
<1> HIDE DEF S
<1>3. QED
  BY <1>1, <1>2, EveryNumber DEF S

\* It is the only one, as far as two of them go.
LEMMA ShiftUnique ==
    ASSUME NEW n \in Nat, NEW k \in Nat, NEW l \in Nat, NEW f, NEW g,
           IsShift(f, n, k), IsShift(g, n, l)
    PROVE  \A i \in Nat : i <= k /\ i <= l => f[i] = g[i]
<1> DEFINE S == {i \in Nat : i <= k /\ i <= l => f[i] = g[i]}
<1>1. 0 \in S
  BY DEF IsShift
<1>2. ASSUME NEW i \in Nat, i \in S PROVE i + 1 \in S
  <2> SUFFICES ASSUME i + 1 <= k, i + 1 <= l PROVE f[i + 1] = g[i + 1]
    OBVIOUS
  <2>1. f[i] = g[i]
    BY <1>2
  <2>2. i + 1 \in 1..k /\ i + 1 \in 1..l /\ i + 1 - 1 = i
    OBVIOUS
  <2>3. QED
    BY <2>1, <2>2 DEF IsShift
<1> HIDE DEF S
<1>3. \A i \in Nat : i \in S
  BY <1>1, <1>2, EveryNumber
<1>4. QED
  BY <1>3 DEF S

\* Shifted is the function it is defined to be.
LEMMA ShiftedIs ==
    ASSUME NEW n \in Nat
    PROVE  /\ Shifted(n) \in [Nat -> Nat] /\ Shifted(n)[0] = n
           /\ \A i \in Nat : Shifted(n)[i + 1] = Shifted(n)[i] \div Base
<1> DEFINE Part(k) == CHOOSE rest : IsShift(rest, n, k)
           whole   == [i \in Nat |-> Part(i)[i]]
<1>1. \A k \in Nat : IsShift(Part(k), n, k)
  BY ShiftExists
<1> HIDE DEF Part
<1>2. whole \in [Nat -> Nat] /\ whole[0] = n
  BY <1>1 DEF IsShift
<1>3. ASSUME NEW i \in Nat PROVE whole[i + 1] = whole[i] \div Base
  <2>1. Part(i + 1)[i + 1] = Part(i + 1)[i] \div Base
    <3>1. i + 1 \in 1..i + 1 /\ i + 1 - 1 = i /\ i + 1 \in Nat
      OBVIOUS
    <3>2. QED
      BY <1>1, <3>1 DEF IsShift
  <2>2. Part(i + 1)[i] = Part(i)[i]
    BY <1>1, ShiftUnique
  <2>3. QED
    BY <2>1, <2>2
<1>4. whole = [i \in Nat |-> IF i = 0 THEN n ELSE whole[i - 1] \div Base]
  <2>1. ASSUME NEW i \in Nat
        PROVE  whole[i] = IF i = 0 THEN n ELSE whole[i - 1] \div Base
    <3>1. CASE i = 0
      BY <1>2, <3>1
    <3>2. CASE i # 0
      <4>1. i - 1 \in Nat /\ i - 1 + 1 = i
        BY <3>2
      <4> HIDE DEF whole
      <4>2. QED
        BY <1>3, <3>2, <4>1
    <3>3. QED
      BY <3>1, <3>2
  <2>2. QED
    BY <2>1
<1> HIDE DEF whole
<1> DEFINE f == Shifted(n)
<1>5. f = [i \in Nat |-> IF i = 0 THEN n ELSE f[i - 1] \div Base]
  BY <1>4, Zenon DEF Shifted
<1> HIDE DEF f
<1>6. \A i \in Nat : f[i] = IF i = 0 THEN n ELSE f[i - 1] \div Base
  BY <1>5
<1>7. f[0] = n /\ \A i \in Nat : f[i + 1] = f[i] \div Base
  <2>1. ASSUME NEW i \in Nat PROVE i + 1 \in Nat /\ i + 1 # 0 /\ i + 1 - 1 = i
    OBVIOUS
  <2>2. QED
    BY <1>6, <2>1
<1>8. \A i \in Nat : f[i] \in Nat
  <2> DEFINE S == {i \in Nat : f[i] \in Nat}
  <2>1. 0 \in S
    BY <1>7
  <2>2. ASSUME NEW i \in Nat, i \in S PROVE i + 1 \in S
    <3>1. f[i] \in Nat /\ f[i + 1] = f[i] \div Base
      BY <1>7, <2>2
    <3>2. f[i] \div Base \in Nat
      BY <3>1, Division, Zenon
    <3>3. QED
      BY <3>1, <3>2
  <2> HIDE DEF S
  <2>3. \A i \in Nat : i \in S
    BY <2>1, <2>2, EveryNumber
  <2>4. QED
    BY <2>3 DEF S
<1>9. f = [i \in Nat |-> f[i]]
  BY <1>5
<1>10. QED
  BY <1>7, <1>8, <1>9 DEF f

\* Digits taken off leave less, or nothing.
LEMMA Shrinks ==
    ASSUME NEW n \in Nat
    PROVE  \A i \in Nat : Shifted(n)[i] = 0 \/ Shifted(n)[i] + i <= n
<1> DEFINE f == Shifted(n)
           S == {i \in Nat : f[i] = 0 \/ f[i] + i <= n}
<1>1. /\ f[0] = n
      /\ \A i \in Nat : f[i] \in Nat /\ f[i + 1] = f[i] \div Base
  BY ShiftedIs
<1> HIDE DEF f
<1>2. 0 \in S
  BY <1>1
<1>3. ASSUME NEW i \in Nat, i \in S PROVE i + 1 \in S
  <2>1. f[i] \in Nat /\ f[i + 1] = f[i] \div Base /\ f[i + 1] \in Nat
    BY <1>1
  <2>2. CASE f[i] = 0
    BY <2>1, <2>2, Division
  <2>3. CASE f[i] # 0
    <3>1. f[i + 1] < f[i]
      BY <2>1, <2>3, Division
    <3>2. QED
      BY <1>3, <2>1, <2>3, <3>1
  <2>4. QED
    BY <2>2, <2>3
<1> HIDE DEF S
<1>4. \A i \in Nat : i \in S
  BY <1>2, <1>3, EveryNumber
<1>5. QED
  BY <1>4 DEF S, f

\* Digit by digit, in numbers.
LEMMA ShiftedGoesOn ==
    ASSUME NEW n \in Nat
    PROVE  /\ Shifted(n)[0] = n
           /\ \A i \in Nat : /\ Shifted(n)[i] \in Nat
                             /\ Shifted(n)[i + 1] = Shifted(n)[i] \div Base
<1> DEFINE f == Shifted(n)
<1>1. f \in [Nat -> Nat] /\ f[0] = n /\ \A i \in Nat : f[i + 1] = f[i] \div Base
  BY ShiftedIs, Zenon
<1> HIDE DEF f
<1>2. \A i \in Nat : f[i] \in Nat
  BY <1>1
<1>3. f[0] = n /\ \A i \in Nat : f[i] \in Nat /\ f[i + 1] = f[i] \div Base
  BY <1>1, <1>2, Zenon
<1>4. QED
  BY <1>3, Zenon DEF f

\* What fits a width fits a larger one.
LEMMA FitsMore ==
    ASSUME NEW n \in Nat, NEW v \in Nat, NEW w \in Nat, v <= w, Fits(n, v)
    PROVE  Fits(n, w)
<1> DEFINE f == Shifted(n)
           S == {i \in Nat : v <= i => f[i] = 0}
<1>1. f[v] = 0 /\ \A i \in Nat : f[i] \in Nat /\ f[i + 1] = f[i] \div Base
  <2>1. f[v] = 0
    BY Zenon DEF Fits
  <2>2. QED
    BY <2>1, ShiftedGoesOn, Zenon
<1> HIDE DEF f
<1>2. 0 \in S
  BY <1>1
<1>3. ASSUME NEW i \in Nat, i \in S PROVE i + 1 \in S
  <2>1. CASE v = i + 1
    BY <1>1, <2>1
  <2>2. CASE v <= i
    <3>1. f[i] = 0 /\ f[i + 1] = f[i] \div Base
      BY <1>1, <1>3, <2>2
    <3>2. QED
      BY <3>1, Division
  <2>3. CASE v > i + 1
    BY <2>3
  <2>4. QED
    BY <2>1, <2>2, <2>3
<1> HIDE DEF S
<1>4. w \in S
  BY <1>2, <1>3, EveryNumber
<1>5. QED
  BY <1>4 DEF S, f, Fits

\* A digit fits one digit, and is that digit.
LEMMA OneDigit ==
    ASSUME NEW n \in Nat
    PROVE  /\ Digits(n, 1) = <<n % Base>>
           /\ n < Base => Fits(n, 1)
           /\ Fits(n, 1) => n % Base = n
<1>1. Shifted(n)[0] = n /\ Shifted(n)[0 + 1] = n \div Base
  BY ShiftedIs
<1>2. Digits(n, 1) = [i \in 1..1 |-> n % Base]
  BY <1>1 DEF Digits
<1>3. QED
  BY <1>1, <1>2, Division DEF Fits

\* The length of a number is a number of digits it fits.
LEMMA LengthFits ==
    ASSUME NEW n \in Nat
    PROVE  LengthOf(n) \in Nat /\ Fits(n, LengthOf(n))
<1> DEFINE S == {w \in 0..n : Fits(n, w)}
<1>1. n \in S
  <2>1. Shifted(n)[n] = 0 \/ Shifted(n)[n] + n <= n
    BY Shrinks
  <2>2. Shifted(n)[n] \in Nat
    BY ShiftedIs
  <2>3. QED
    BY <2>1, <2>2 DEF Fits
<1>2. PICK w \in S : \A v \in S : w <= v
  <2>1. S \subseteq Nat /\ S # {}
    BY <1>1
  <2> HIDE DEF S
  <2>2. QED
    BY <2>1, LeastNumber
<1>3. w \in 0..n /\ Fits(n, w) /\ \A v \in 0..w - 1 : ~Fits(n, v)
  <2>1. ASSUME NEW v \in 0..w - 1, Fits(n, v) PROVE FALSE
    <3>1. v \in S /\ v < w
      BY <1>2, <2>1
    <3>2. QED
      BY <1>2, <3>1
  <2>2. QED
    BY <1>2, <2>1
<1> DEFINE l == LengthOf(n)
<1>4. l \in 0..n /\ Fits(n, l)
  BY <1>3, Zenon DEF LengthOf
<1>5. QED
  BY <1>4

\* A number comes back from the digits it fits.
LEMMA NumberIsBack ==
    ASSUME NEW n \in Nat, NEW w \in Nat, Fits(n, w)
    PROVE  /\ Digits(n, w) \in Seq(Nat) /\ Len(Digits(n, w)) = w
           /\ Number(Digits(n, w)) = n
<1> DEFINE f == Shifted(n)
           s == Digits(n, w)
<1>1. f[0] = n /\ f[w] = 0 /\ \A i \in Nat : f[i] \in Nat /\ f[i + 1] = f[i] \div Base
  <2>1. f[w] = 0
    BY Zenon DEF Fits
  <2>2. QED
    BY <2>1, ShiftedGoesOn, Zenon
<1>2. s = [i \in 1..w |-> f[i - 1] % Base]
  BY DEF Digits
<1> HIDE DEF f
<1>3. \A i \in 1..w : /\ i - 1 \in Nat /\ s[i] = f[i - 1] % Base /\ s[i] \in Nat
                      /\ f[i] * Base + s[i] = f[i - 1]
  <2> TAKE i \in 1..w
  <2>1. i - 1 \in Nat /\ i - 1 + 1 = i
    OBVIOUS
  <2>2. s[i] = f[i - 1] % Base /\ f[i - 1] \in Nat /\ f[i] = f[i - 1] \div Base
    BY <1>1, <1>2, <2>1
  <2> DEFINE m == f[i - 1]
  <2>3. m \in Nat
    BY <2>2
  <2> HIDE DEF m
  <2>4. m % Base \in Nat /\ m = (m \div Base) * Base + (m % Base)
    <3>1. m % Base \in 0..Base - 1 /\ m = (m \div Base) * Base + (m % Base)
      BY <2>3, Division, Zenon
    <3>2. QED
      BY <3>1
  <2> HIDE DEF s
  <2>5. QED
    BY <2>1, <2>2, <2>4, Zenon DEF m
<1>4. s \in Seq(Nat) /\ Len(s) = w
  <2>1. s \in [1..w -> Nat]
    BY <1>2, <1>3
  <2> HIDE DEF s
  <2>2. QED
    BY <2>1
<1> DEFINE Is(from) == from = [i \in 1..Len(s) + 1 |->
                                  IF i > Len(s) THEN 0 ELSE from[i + 1] * Base + s[i]]
           from == CHOOSE g : Is(g)
<1> HIDE DEF s
<1>5. Is([i \in 1..w + 1 |-> f[i - 1]])
  <2> DEFINE g == [i \in 1..w + 1 |-> f[i - 1]]
  <2>1. ASSUME NEW i \in 1..w + 1
        PROVE  g[i] = IF i > w THEN 0 ELSE g[i + 1] * Base + s[i]
    <3>1. CASE i > w
      BY <1>1, <3>1
    <3>2. CASE i \in 1..w
      <4>1. g[i + 1] = f[i] /\ g[i] = f[i - 1]
        BY <3>2
      <4> HIDE DEF g
      <4>2. QED
        BY <1>3, <3>2, <4>1
    <3>3. QED
      BY <3>1, <3>2
  <2>2. g = [i \in 1..w + 1 |-> IF i > w THEN 0 ELSE g[i + 1] * Base + s[i]]
    BY <2>1
  <2>3. QED
    BY <1>4, <2>2
<1>6. Is(from)
  <2> HIDE DEF Is
  <2> QED
    BY <1>5
<1>7. Number(s) = from[1]
  BY DEF Number
<1> HIDE DEF from
<1>8. \A i \in 1..w + 1 : from[i] = IF i > w THEN 0 ELSE from[i + 1] * Base + s[i]
  BY <1>4, <1>6
<1> HIDE DEF Is
<1> DEFINE S == {k \in Nat : k <= w => from[w + 1 - k] = f[w - k]}
<1>9. 0 \in S
  BY <1>1, <1>8
<1>10. ASSUME NEW k \in Nat, k \in S PROVE k + 1 \in S
  <2> SUFFICES ASSUME k + 1 <= w PROVE from[w + 1 - (k + 1)] = f[w - (k + 1)]
    OBVIOUS
  <2> DEFINE i == w - k
  <2>1. i \in 1..w /\ w + 1 - k = i + 1 /\ w + 1 - (k + 1) = i /\ w - (k + 1) = i - 1
    OBVIOUS
  <2>2. from[i + 1] = f[i]
    BY <1>10, <2>1
  <2> HIDE DEF i
  <2>3. from[i] = f[i] * Base + s[i]
    BY <1>8, <2>1, <2>2
  <2>4. QED
    BY <1>3, <2>1, <2>3
<1> HIDE DEF S
<1>11. w \in S
  BY <1>9, <1>10, EveryNumber
<1>12. from[w + 1 - w] = f[w - w]
  BY <1>11 DEF S
<1>13. from[1] = n
  BY <1>1, <1>12
<1>14. QED
  BY <1>4, <1>7, <1>13 DEF s

\* A smaller number has a smaller quotient.
LEMMA SmallerQuotient ==
    ASSUME NEW m \in Nat, NEW n \in Nat, m <= n
    PROVE  m \div Base <= n \div Base
<1> DEFINE p == m \div Base
           q == n \div Base
           r == m % Base
           s == n % Base
<1>1. p \in Nat /\ q \in Nat /\ r \in Nat /\ s \in Nat /\ s < Base
      /\ m = p * Base + r /\ n = q * Base + s
  BY Division
<1> HIDE DEF p, q, r, s
<1>2. CASE p <= q
  BY <1>2 DEF p, q
<1>3. CASE p > q
  <2> DEFINE d == p - (q + 1)
  <2>1. d \in Nat /\ p = q + 1 + d
    BY <1>1, <1>3
  <2> HIDE DEF d
  <2>2. (q + 1 + d) * Base = q * Base + Base + d * Base
    BY <1>1, <2>1
  <2>3. d * Base >= 0
    BY <2>1
  <2>4. m = q * Base + Base + d * Base + r
    BY <1>1, <2>1, <2>2
  <2>5. q * Base \in Nat /\ d * Base \in Nat
    BY <1>1, <2>1
  <2>6. QED
    BY <1>1, <2>3, <2>4, <2>5
<1>4. QED
  BY <1>1, <1>2, <1>3

\* What a number fits, a smaller one fits.
LEMMA FitsLess ==
    ASSUME NEW m \in Nat, NEW n \in Nat, NEW w \in Nat, m <= n, Fits(n, w)
    PROVE  Fits(m, w)
<1> DEFINE f == Shifted(m)
           g == Shifted(n)
           S == {i \in Nat : f[i] <= g[i]}
<1>1. f[0] = m /\ \A i \in Nat : f[i] \in Nat /\ f[i + 1] = f[i] \div Base
  BY ShiftedGoesOn, Zenon
<1>2. g[0] = n /\ \A i \in Nat : g[i] \in Nat /\ g[i + 1] = g[i] \div Base
  BY ShiftedGoesOn, Zenon
<1> HIDE DEF f, g
<1>3. 0 \in S
  BY <1>1, <1>2
<1>4. ASSUME NEW i \in Nat, i \in S PROVE i + 1 \in S
  <2>1. f[i] \in Nat /\ g[i] \in Nat /\ f[i] <= g[i]
        /\ f[i + 1] = f[i] \div Base /\ g[i + 1] = g[i] \div Base
    BY <1>1, <1>2, <1>4
  <2>2. f[i + 1] <= g[i + 1]
    BY <2>1, SmallerQuotient
  <2>3. QED
    BY <2>2
<1> HIDE DEF S
<1>5. w \in S
  BY <1>3, <1>4, EveryNumber
<1>6. g[w] = 0 /\ f[w] <= g[w] /\ f[w] \in Nat
  BY <1>1, <1>5 DEF S, Fits, g
<1>7. QED
  BY <1>6 DEF Fits, f

-----------------------------------------------------------------------------
(* Sequences joined, and where each lies in the whole.                      *)

\* One sequence after another, as the proofs use it.
Then(s, t) == s \o t

LEMMA ThenIs ==
    ASSUME NEW s \in Seq(Nat), NEW t \in Seq(Nat)
    PROVE  /\ Then(s, t) \in Seq(Nat) /\ Len(s) \in Nat /\ Len(t) \in Nat
           /\ Len(Then(s, t)) = Len(s) + Len(t)
           /\ \A x \in 1..Len(s) : Then(s, t)[x] = s[x]
           /\ \A x \in 1..Len(t) : Then(s, t)[Len(s) + x] = t[x]
BY DEF Then

\* The n sequences parts joined, up to each of them.
IsJoined(upTo, parts, n) ==
    /\ upTo \in [1..n -> Seq(Nat)]
    /\ upTo[1] = parts[1]
    /\ \A i \in 2..n : upTo[i] = Then(upTo[i - 1], parts[i])

\* They can be joined.
LEMMA JoinedExists ==
    ASSUME NEW n \in Nat \ {0}, NEW parts, \A i \in 1..n : parts[i] \in Seq(Nat)
    PROVE  \E upTo : IsJoined(upTo, parts, n)
<1> DEFINE S == {k \in Nat : k + 1 <= n => \E upTo : IsJoined(upTo, parts, k + 1)}
<1>2. 0 \in S
  <2>1. IsJoined([i \in 1..1 |-> parts[1]], parts, 1)
    BY DEF IsJoined
  <2>2. QED
    BY <2>1
<1>3. ASSUME NEW k \in Nat, k \in S PROVE k + 1 \in S
  <2> SUFFICES ASSUME k + 2 <= n
               PROVE  \E upTo : IsJoined(upTo, parts, k + 2)
    <3>1. k + 1 + 1 = k + 2
      OBVIOUS
    <3>2. QED
      BY <3>1
  <2>1. PICK upTo : IsJoined(upTo, parts, k + 1)
    BY <1>3
  <2> DEFINE last == Then(upTo[k + 1], parts[k + 2])
             more == [i \in 1..k + 2 |-> IF i <= k + 1 THEN upTo[i] ELSE last]
  <2>2. upTo[k + 1] \in Seq(Nat) /\ parts[k + 2] \in Seq(Nat)
    BY <2>1 DEF IsJoined
  <2>3. last \in Seq(Nat)
    BY <2>2, ThenIs
  <2> HIDE DEF last
  <2>4. more \in [1..k + 2 -> Seq(Nat)]
    BY <2>1, <2>3 DEF IsJoined
  <2>5. more[1] = parts[1]
    BY <2>1 DEF IsJoined
  <2>6. ASSUME NEW i \in 2..k + 2 PROVE more[i] = Then(more[i - 1], parts[i])
    <3>1. CASE i = k + 2
      <4>1. more[i] = last /\ more[i - 1] = upTo[k + 1]
        BY <3>1
      <4> HIDE DEF more
      <4>2. QED
        BY <3>1, <4>1 DEF last
    <3>2. CASE i \in 2..k + 1
      <4>1. more[i] = upTo[i] /\ more[i - 1] = upTo[i - 1]
        BY <3>2
      <4> HIDE DEF more
      <4>2. QED
        BY <3>2, <4>1, <2>1 DEF IsJoined
    <3>3. QED
      BY <3>1, <3>2
  <2> HIDE DEF more
  <2>7. QED
    BY <2>4, <2>5, <2>6 DEF IsJoined
<1> HIDE DEF S
<1>4. n - 1 \in S
  <2>1. \A k \in Nat : k \in S
    BY <1>2, <1>3, EveryNumber
  <2>2. QED
    BY <2>1
<1>5. n - 1 + 1 = n
  OBVIOUS
<1>6. QED
  BY <1>4, <1>5 DEF S

\* FlattenSeq is the last value of what its recursion defines.
LEMMA FlattenRuns ==
    ASSUME NEW n \in Nat \ {0}, NEW parts, \A i \in 1..n : parts[i] \in Seq(Nat),
           Len(parts) = n
    PROVE  \E f : /\ FlattenSeq(parts) = f[n]
                  /\ f = [i \in 1..n |-> IF i = 1 THEN parts[i] ELSE Then(f[i - 1], parts[i])]
<1> DEFINE Is(g) == g = [i \in 1..Len(parts) |->
                            IF i = 1 THEN parts[i] ELSE g[i - 1] \o parts[i]]
           f == CHOOSE g : Is(g)
<1>1. FlattenSeq(parts) = f[n]
  BY DEF FlattenSeq
<1>2. PICK upTo : IsJoined(upTo, parts, n)
  BY JoinedExists
<1>3. ASSUME NEW g
      PROVE  Is(g) <=> g = [i \in 1..n |-> IF i = 1 THEN parts[i] ELSE Then(g[i - 1], parts[i])]
  BY Zenon DEF Then
<1> HIDE DEF Is
<1>4. Is(upTo)
  <2>1. upTo = [i \in 1..n |-> upTo[i]]
    BY <1>2 DEF IsJoined
  <2>2. \A i \in 1..n : upTo[i] = IF i = 1 THEN parts[i] ELSE Then(upTo[i - 1], parts[i])
    BY <1>2 DEF IsJoined
  <2>3. QED
    BY <1>3, <2>1, <2>2
<1>5. Is(f)
  BY <1>4
<1> HIDE DEF f
<1>6. f = [i \in 1..n |-> IF i = 1 THEN parts[i] ELSE Then(f[i - 1], parts[i])]
  BY <1>3, <1>5
<1>7. QED
  BY <1>1, <1>6

\* The index two above a natural number, in a range it does not leave.
LEMMA TwoUp ==
    ASSUME NEW k \in Nat, NEW n \in Nat, k + 2 <= n
    PROVE  k + 2 \in 2..n /\ k + 2 \in 1..n /\ k + 2 - 1 = k + 1 /\ k + 1 <= n
OBVIOUS

\* What satisfies that recursion joins the sequences.
LEMMA RunsJoin ==
    ASSUME NEW n \in Nat \ {0}, NEW parts, \A i \in 1..n : parts[i] \in Seq(Nat), NEW f,
           f = [i \in 1..n |-> IF i = 1 THEN parts[i] ELSE Then(f[i - 1], parts[i])]
    PROVE  IsJoined(f, parts, n)
<1>1. 1 \in 1..n /\ f[1] = parts[1]
  <2>1. 1 \in 1..n
    OBVIOUS
  <2>2. f[1] = IF 1 = 1 THEN parts[1] ELSE Then(f[1 - 1], parts[1])
    BY <2>1, Zenon
  <2>3. QED
    BY <2>1, <2>2
<1>2. ASSUME NEW i \in 2..n PROVE f[i] = Then(f[i - 1], parts[i])
  <2>1. i \in 1..n /\ i # 1
    OBVIOUS
  <2>2. f[i] = IF i = 1 THEN parts[i] ELSE Then(f[i - 1], parts[i])
    BY <2>1, Zenon
  <2>3. QED
    BY <2>1, <2>2
<1> DEFINE T == {k \in Nat : k + 1 <= n => f[k + 1] \in Seq(Nat)}
<1>3. 0 \in T
  <2>1. f[1] \in Seq(Nat)
    BY <1>1
  <2>2. 0 + 1 = 1
    OBVIOUS
  <2>3. QED
    BY <2>1, <2>2
<1>4. ASSUME NEW k \in Nat, k \in T PROVE k + 1 \in T
  <2> SUFFICES ASSUME k + 2 <= n PROVE f[k + 2] \in Seq(Nat)
    <3>1. k + 1 + 1 = k + 2
      OBVIOUS
    <3>2. QED
      BY <3>1
  <2>1. k + 2 \in 2..n /\ k + 2 \in 1..n /\ k + 2 - 1 = k + 1 /\ k + 1 <= n
    BY TwoUp, Zenon
  <2>2. f[k + 1] \in Seq(Nat) /\ parts[k + 2] \in Seq(Nat)
    BY <1>4, <2>1
  <2>3. f[k + 2] = Then(f[k + 1], parts[k + 2])
    BY <1>2, <2>1
  <2> DEFINE s == f[k + 1]
             t == parts[k + 2]
  <2>4. s \in Seq(Nat) /\ t \in Seq(Nat) /\ f[k + 2] = Then(s, t)
    BY <2>2, <2>3
  <2> HIDE DEF s, t
  <2>5. QED
    BY <2>4, ThenIs
<1> HIDE DEF T
<1>5. \A i \in 1..n : f[i] \in Seq(Nat)
  <2>1. \A k \in Nat : k \in T
    BY <1>3, <1>4, EveryNumber
  <2>2. ASSUME NEW i \in 1..n PROVE i - 1 \in Nat /\ i - 1 + 1 = i /\ i <= n
    OBVIOUS
  <2>3. QED
    BY <2>1, <2>2 DEF T
<1>6. f \in [1..n -> Seq(Nat)]
  <2>1. f = [i \in 1..n |-> f[i]]
    BY Zenon
  <2>2. QED
    BY <1>5, <2>1
<1>7. QED
  BY <1>1, <1>2, <1>6 DEF IsJoined

\* FlattenSeq is its last value.
LEMMA FlattenIsJoined ==
    ASSUME NEW n \in Nat \ {0}, NEW parts, \A i \in 1..n : parts[i] \in Seq(Nat),
           Len(parts) = n
    PROVE  \E upTo : IsJoined(upTo, parts, n) /\ FlattenSeq(parts) = upTo[n]
<1>1. PICK f : /\ FlattenSeq(parts) = f[n]
               /\ f = [i \in 1..n |-> IF i = 1 THEN parts[i] ELSE Then(f[i - 1], parts[i])]
  BY FlattenRuns
<1>2. IsJoined(f, parts, n)
  BY <1>1, RunsJoin
<1>3. QED
  BY <1>1, <1>2

\* Where each of the sequences lies in the whole.
Lies(start, parts, n, whole) ==
    /\ start \in [0..n -> Nat]
    /\ start[0] = 0 /\ start[n] = Len(whole)
    /\ \A i \in 1..n :
          /\ start[i] = start[i - 1] + Len(parts[i])
          /\ start[i] <= Len(whole)
          /\ \A j \in 1..Len(parts[i]) : whole[start[i - 1] + j] = parts[i][j]

\* Each lies after those before it.
LEMMA FlattenLies ==
    ASSUME NEW n \in Nat \ {0}, NEW parts, \A i \in 1..n : parts[i] \in Seq(Nat),
           Len(parts) = n
    PROVE  /\ FlattenSeq(parts) \in Seq(Nat)
           /\ \E start : Lies(start, parts, n, FlattenSeq(parts))
<1>1. PICK f : IsJoined(f, parts, n) /\ FlattenSeq(parts) = f[n]
  BY FlattenIsJoined
<1> DEFINE start == [i \in 0..n |-> IF i = 0 THEN 0 ELSE Len(f[i])]
<1>2. \A i \in 1..n : f[i] \in Seq(Nat) /\ Len(f[i]) \in Nat /\ Len(parts[i]) \in Nat
  <2>1. \A i \in 1..n : f[i] \in Seq(Nat)
    BY <1>1 DEF IsJoined
  <2>2. QED
    BY <2>1
<1>3. ASSUME NEW i \in 1..n
      PROVE  /\ start[i] = start[i - 1] + Len(parts[i])
             /\ start[i] = Len(f[i])
             /\ \A j \in 1..Len(parts[i]) : f[i][start[i - 1] + j] = parts[i][j]
  <2>1. start[i] = Len(f[i])
    OBVIOUS
  <2>2. CASE i = 1
    <3>1. f[i] = parts[i] /\ start[i - 1] = 0 /\ Len(parts[i]) \in Nat
      BY <1>1, <1>2, <2>2 DEF IsJoined
    <3> HIDE DEF start
    <3>2. QED
      BY <2>1, <3>1
  <2>3. CASE i # 1
    <3>1. i \in 2..n /\ i - 1 \in 1..n
      BY <2>3
    <3>2. f[i] = Then(f[i - 1], parts[i])
      BY <1>1, <3>1 DEF IsJoined
    <3>3. start[i - 1] = Len(f[i - 1])
      BY <3>1
    <3>4. f[i - 1] \in Seq(Nat) /\ parts[i] \in Seq(Nat)
      BY <1>2, <3>1
    <3> HIDE DEF start
    <3>5. /\ Len(f[i - 1]) \in Nat /\ Len(parts[i]) \in Nat
          /\ Len(f[i]) = Len(f[i - 1]) + Len(parts[i])
          /\ \A x \in 1..Len(parts[i]) : f[i][Len(f[i - 1]) + x] = parts[i][x]
      <4> DEFINE s == f[i - 1]
                 t == parts[i]
      <4>1. s \in Seq(Nat) /\ t \in Seq(Nat) /\ f[i] = Then(s, t)
        BY <3>2, <3>4
      <4> HIDE DEF s, t
      <4>2. /\ Len(s) \in Nat /\ Len(t) \in Nat
            /\ Len(f[i]) = Len(s) + Len(t)
            /\ \A x \in 1..Len(t) : f[i][Len(s) + x] = t[x]
        BY <4>1, ThenIs
      <4>3. QED
        BY <4>2 DEF s, t
    <3>6. QED
      BY <2>1, <3>3, <3>5
  <2>4. QED
    BY <2>2, <2>3
<1> DEFINE Begins(i, k) == /\ Len(f[i]) <= Len(f[k])
                           /\ \A x \in 1..Len(f[i]) : f[k][x] = f[i][x]
<1>4. ASSUME NEW i \in 1..n, NEW m \in 1..n - 1, Begins(i, m) PROVE Begins(i, m + 1)
  <2>1. m + 1 \in 2..n /\ m + 1 - 1 = m /\ m \in 1..n /\ m + 1 \in 1..n
    OBVIOUS
  <2>2. f[m + 1] = Then(f[m], parts[m + 1])
    BY <1>1, <2>1 DEF IsJoined
  <2>3. f[m] \in Seq(Nat) /\ parts[m + 1] \in Seq(Nat) /\ Len(f[i]) \in Nat
    BY <1>2, <2>1
  <2>4. /\ Len(f[m]) \in Nat /\ Len(parts[m + 1]) \in Nat
        /\ Len(f[m + 1]) = Len(f[m]) + Len(parts[m + 1])
        /\ \A x \in 1..Len(f[m]) : f[m + 1][x] = f[m][x]
    <3> DEFINE s == f[m]
               t == parts[m + 1]
    <3>1. s \in Seq(Nat) /\ t \in Seq(Nat) /\ f[m + 1] = Then(s, t)
      BY <2>2, <2>3
    <3> HIDE DEF s, t
    <3>2. /\ Len(s) \in Nat /\ Len(t) \in Nat
          /\ Len(f[m + 1]) = Len(s) + Len(t)
          /\ \A x \in 1..Len(s) : f[m + 1][x] = s[x]
      BY <3>1, ThenIs
    <3>3. QED
      BY <3>2 DEF s, t
  <2>5. Len(f[i]) <= Len(f[m]) /\ \A x \in 1..Len(f[i]) : f[m][x] = f[i][x]
    BY <1>4
  <2>6. \A x \in 1..Len(f[i]) : x \in 1..Len(f[m])
    BY <2>3, <2>4, <2>5
  <2>7. \A x \in 1..Len(f[i]) : f[m + 1][x] = f[i][x]
    BY <2>4, <2>5, <2>6, Zenon
  <2>8. Len(f[i]) <= Len(f[m + 1])
    <3> DEFINE a == Len(f[i])
               b == Len(f[m])
               c == Len(parts[m + 1])
    <3>1. a \in Nat /\ b \in Nat /\ c \in Nat /\ a <= b /\ Len(f[m + 1]) = b + c
      BY <2>3, <2>4, <2>5, Zenon
    <3> HIDE DEF a, b, c
    <3>2. a <= b + c
      BY <3>1
    <3>3. QED
      BY <3>1, <3>2, Zenon DEF a
  <2>9. QED
    BY <2>7, <2>8, Zenon
<1>5. \A i \in 1..n : Begins(i, i)
  BY <1>2
<1> HIDE DEF Begins, start
<1>6. ASSUME NEW i \in 1..n PROVE Begins(i, n)
  <2> DEFINE S == {k \in Nat : i + k <= n => Begins(i, i + k)}
  <2>1. 0 \in S
    <3>1. i + 0 = i
      OBVIOUS
    <3>2. QED
      BY <1>5, <3>1
  <2>2. ASSUME NEW k \in Nat, k \in S PROVE k + 1 \in S
    <3> SUFFICES ASSUME i + (k + 1) <= n PROVE Begins(i, i + (k + 1))
      OBVIOUS
    <3>1. i + k \in 1..n - 1 /\ i + (k + 1) = (i + k) + 1 /\ i + k <= n
      OBVIOUS
    <3>2. Begins(i, i + k)
      BY <2>2, <3>1
    <3>3. QED
      BY <1>4, <3>1, <3>2
  <2> HIDE DEF S
  <2>3. \A k \in Nat : k \in S
    BY <2>1, <2>2, EveryNumber
  <2>4. n - i \in Nat /\ i + (n - i) = n /\ n <= n
    OBVIOUS
  <2>5. QED
    BY <2>3, <2>4 DEF S
<1>7. n \in 1..n
  OBVIOUS
<1>8. start \in [0..n -> Nat] /\ start[0] = 0 /\ start[n] = Len(f[n])
  BY <1>2, <1>7 DEF start
<1>9. ASSUME NEW i \in 1..n
      PROVE  /\ start[i] = start[i - 1] + Len(parts[i])
             /\ start[i] <= Len(f[n])
             /\ \A j \in 1..Len(parts[i]) : f[n][start[i - 1] + j] = parts[i][j]
  <2>1. start[i - 1] \in Nat /\ Len(f[i]) \in Nat /\ Len(parts[i]) \in Nat
    BY <1>2, <1>8
  <2>2. ASSUME NEW j \in 1..Len(parts[i]) PROVE start[i - 1] + j \in 1..Len(f[i])
    BY <1>3, <2>1
  <2>3. /\ start[i] = start[i - 1] + Len(parts[i]) /\ start[i] = Len(f[i])
        /\ \A j \in 1..Len(parts[i]) : f[i][start[i - 1] + j] = parts[i][j]
    BY <1>3, Zenon
  <2>4. Len(f[i]) <= Len(f[n]) /\ \A x \in 1..Len(f[i]) : f[n][x] = f[i][x]
    BY <1>6, Zenon DEF Begins
  <2>5. \A j \in 1..Len(parts[i]) : f[n][start[i - 1] + j] = parts[i][j]
    BY <2>2, <2>3, <2>4, Zenon
  <2>6. QED
    BY <2>3, <2>4, <2>5
<1>10. f[n] \in Seq(Nat)
  BY <1>2, <1>7
<1>11. Lies(start, parts, n, f[n])
  BY <1>8, <1>9 DEF Lies
<1>12. QED
  BY <1>1, <1>10, <1>11

-----------------------------------------------------------------------------
(* A field written is the field read where it lies.                         *)

\* The fields Odra can write in the widths it writes them in.
Writable(f) ==
    CASE f.kind = "u8"     -> f.value \in 0..Base - 1
      [] f.kind = "u32"    -> f.value \in Nat /\ Fits(f.value, Word)
      [] f.kind = "u64"    -> f.value \in Nat /\ Fits(f.value, Long)
      [] f.kind = "u512"   -> f.value \in Nat /\ Fits(LengthOf(f.value), 1)
      [] f.kind = "string" -> f.value \in Seq(Nat) /\ Fits(Len(f.value), Word)
      [] f.kind = "key"    -> f.value \in Nat
      [] f.kind = "option" -> f.value = <<>> \/ \E h \in Nat : f.value = <<h>>
      [] OTHER             -> FALSE

\* The bytes s lie in b after the first a.
Holds(b, a, s) == /\ b \in Seq(Nat) /\ a \in Nat /\ s \in Seq(Nat)
                  /\ a + Len(s) <= Len(b)
                  /\ \A j \in 1..Len(s) : b[a + j] = s[j]

\* A slice is what lies there.
LEMMA SliceIs ==
    ASSUME NEW b, NEW a, NEW s, Holds(b, a, s)
    PROVE  SubSeq(b, a + 1, a + Len(s)) = s
<1> DEFINE t == SubSeq(b, a + 1, a + Len(s))
<1>1. b \in Seq(Nat) /\ a \in Nat /\ s \in Seq(Nat) /\ Len(s) \in Nat /\ Len(b) \in Nat
      /\ a + Len(s) <= Len(b)
  BY DEF Holds
<1>2. t \in Seq(Nat) /\ Len(t) = Len(s) /\ \A j \in 1..Len(s) : t[j] = b[a + j]
  BY <1>1
<1> HIDE DEF t
<1>3. \A j \in 1..Len(s) : t[j] = s[j]
  BY <1>2 DEF Holds
<1>4. t = s
  BY <1>1, <1>2, <1>3, SeqEqual
<1>5. QED
  BY <1>4 DEF t

\* Of two sequences that lie there joined, each lies in its place.
LEMMA HoldsParts ==
    ASSUME NEW b, NEW a, NEW s \in Seq(Nat), NEW t \in Seq(Nat), Holds(b, a, Then(s, t))
    PROVE  Holds(b, a, s) /\ Holds(b, a + Len(s), t)
<1> DEFINE u == Then(s, t)
<1>1. /\ u \in Seq(Nat) /\ Len(s) \in Nat /\ Len(t) \in Nat
      /\ Len(u) = Len(s) + Len(t)
      /\ \A x \in 1..Len(s) : u[x] = s[x]
      /\ \A x \in 1..Len(t) : u[Len(s) + x] = t[x]
  BY ThenIs
<1> HIDE DEF u
<1>2. /\ b \in Seq(Nat) /\ a \in Nat /\ Len(b) \in Nat
      /\ a + Len(u) <= Len(b)
      /\ \A j \in 1..Len(u) : b[a + j] = u[j]
  BY DEF Holds, u
<1>3. \A j \in 1..Len(s) : b[a + j] = s[j]
  <2> TAKE j \in 1..Len(s)
  <2>1. j \in 1..Len(u)
    BY <1>1, <1>2
  <2>2. QED
    BY <1>1, <1>2, <2>1, Zenon
<1>4. \A j \in 1..Len(t) : b[a + Len(s) + j] = t[j]
  <2> TAKE j \in 1..Len(t)
  <2>1. Len(s) + j \in 1..Len(u) /\ a + Len(s) + j = a + (Len(s) + j)
    BY <1>1, <1>2
  <2>2. QED
    BY <1>1, <1>2, <2>1
<1>5. QED
  BY <1>1, <1>2, <1>3, <1>4 DEF Holds

\* What the cursor's slice returns.
LEMMA PeekIs ==
    ASSUME NEW skip \in Nat, NEW s, at \in Nat, Holds(buf, at + skip, s)
    PROVE  Peek(skip, Len(s)) = s
<1>1. SubSeq(buf, at + skip + 1, at + skip + Len(s)) = s
  BY SliceIs
<1>2. QED
  BY <1>1 DEF Peek

\* A number read where its digits lie.
LEMMA NumberRead ==
    ASSUME NEW skip \in Nat, NEW v \in Nat, NEW w \in Nat, Fits(v, w), at \in Nat,
           Holds(buf, at + skip, Digits(v, w))
    PROVE  Number(Peek(skip, w)) = v
<1>1. Len(Digits(v, w)) = w /\ Number(Digits(v, w)) = v
  BY NumberIsBack
<1>2. Peek(skip, Len(Digits(v, w))) = Digits(v, w)
  BY PeekIs
<1>3. QED
  BY <1>1, <1>2

\* A length prefix read where its digits lie.
LEMMA PrefixRead ==
    ASSUME NEW v \in Nat, NEW w \in Nat, Fits(v, w), at \in Nat,
           Holds(buf, at, Digits(v, w))
    PROVE  Prefix(w) = v
<1>1. at + 0 = at
  OBVIOUS
<1>2. Number(Peek(0, w)) = v
  BY <1>1, NumberRead
<1>3. Len(Digits(v, w)) = w
  BY NumberIsBack
<1>4. at + w <= Len(buf) /\ Len(buf) \in Nat
  BY <1>3 DEF Holds
<1>5. ~(w > Remaining)
  BY <1>4 DEF Remaining
<1>6. QED
  BY <1>2, <1>5 DEF Prefix

\* A prefix below Base is its one digit.
LEMMA DigitPrefix ==
    ASSUME NEW l \in Nat, Fits(l, 1)
    PROVE  Digits(l, 1) = <<l>>
BY OneDigit

\* 0 and 1 fit every width.
LEMMA SmallFits ==
    /\ Fits(0, 1) /\ Fits(1, 1)
    /\ \A n \in 0..Base : Fits(n, Word)
    /\ \A n \in 0..Base + 1 : Fits(n, Long)
<1>1. Fits(0, 1) /\ Fits(1, 1)
  BY OneDigit
<1>2. ASSUME NEW n \in 0..Base PROVE Fits(n, Word)
  BY FitsLess, WidthAssumption
<1>3. ASSUME NEW n \in 0..Base + 1 PROVE Fits(n, Long)
  BY FitsLess, WidthAssumption
<1>4. QED
  BY <1>1, <1>2, <1>3

\* The bytes of each kind, as parts joined.
LEMMA EncodedKinds ==
    ASSUME NEW f
    PROVE  /\ f.kind = "u8" => Encoded(f) = <<f.value>>
           /\ f.kind = "u32" => Encoded(f) = Digits(f.value, Word)
           /\ f.kind = "u64" => Encoded(f) = Digits(f.value, Long)
           /\ f.kind = "u512" =>
                 Encoded(f) = Then(<<LengthOf(f.value)>>, Digits(f.value, LengthOf(f.value)))
           /\ f.kind = "string" => Encoded(f) = Then(Digits(Len(f.value), Word), f.value)
           /\ f.kind = "key" => Encoded(f) = <<0, f.value>>
           /\ f.kind = "option" =>
                 Encoded(f) = IF f.value = <<>> THEN << 0 >> ELSE Then(<<1, 0>>, f.value)
<1>1. CASE f.kind = "u8"
  BY <1>1, Zenon DEF Encoded
<1>2. CASE f.kind = "u32"
  BY <1>2, Zenon DEF Encoded
<1>3. CASE f.kind = "u64"
  BY <1>3, Zenon DEF Encoded
<1>4. CASE f.kind = "u512"
  BY <1>4, Zenon DEF Encoded, Then
<1>5. CASE f.kind = "string"
  BY <1>5, Zenon DEF Encoded, Then
<1>6. CASE f.kind = "key"
  BY <1>6, Zenon DEF Encoded
<1>7. CASE f.kind = "option"
  BY <1>7, Zenon DEF Encoded, Then
<1>8. QED
  BY <1>1, <1>2, <1>3, <1>4, <1>5, <1>6, <1>7

\* A fixed-width number.
LEMMA FixedRead ==
    ASSUME NEW v \in Nat, NEW w \in Nat \ {0}, Fits(v, w)
    PROVE  /\ Digits(v, w) \in Seq(Nat) /\ Len(Digits(v, w)) = w
           /\ at \in Nat /\ Holds(buf, at, Digits(v, w)) => Number(Peek(0, w)) = v
<1>1. Digits(v, w) \in Seq(Nat) /\ Len(Digits(v, w)) = w
  BY NumberIsBack
<1>2. at \in Nat /\ Holds(buf, at, Digits(v, w)) => Number(Peek(0, w)) = v
  BY NumberRead
<1>3. QED
  BY <1>1, <1>2

\* A number with its length before it.
LEMMA U512Read ==
    ASSUME NEW v \in Nat, Fits(LengthOf(v), 1), NEW e,
           e = Then(<<LengthOf(v)>>, Digits(v, LengthOf(v)))
    PROVE  /\ e \in Seq(Nat) /\ Len(e) > 0
           /\ at \in Nat /\ Holds(buf, at, e) =>
                 Len(e) = 1 + Prefix(1) /\ Number(Peek(1, Prefix(1))) = v
<1> DEFINE l == LengthOf(v)
           p == Digits(l, 1)
           d == Digits(v, l)
<1>1. l \in Nat /\ Fits(v, l) /\ Fits(l, 1)
  BY LengthFits
<1> HIDE DEF l
<1>2. /\ p \in Seq(Nat) /\ Len(p) = 1 /\ p = <<l>>
      /\ d \in Seq(Nat) /\ Len(d) = l
  BY <1>1, NumberIsBack, DigitPrefix
<1>3. e = Then(p, d)
  BY <1>2 DEF l
<1> HIDE DEF p, d
<1>4. e \in Seq(Nat) /\ Len(e) = 1 + l
  <2>1. p \in Seq(Nat) /\ Len(p) = 1 /\ d \in Seq(Nat) /\ Len(d) = l
    BY <1>2
  <2>2. Then(p, d) \in Seq(Nat) /\ Len(Then(p, d)) = Len(p) + Len(d)
    BY <2>1, ThenIs, Zenon
  <2>3. QED
    BY <1>3, <2>1, <2>2
<1>5. ASSUME at \in Nat, Holds(buf, at, e)
      PROVE  Len(e) = 1 + Prefix(1) /\ Number(Peek(1, Prefix(1))) = v
  <2>1. Holds(buf, at, p) /\ Holds(buf, at + Len(p), d)
    <3>1. p \in Seq(Nat) /\ d \in Seq(Nat) /\ Holds(buf, at, Then(p, d))
      BY <1>2, <1>3, <1>5, Zenon
    <3>2. QED
      BY <3>1, HoldsParts
  <2>2. Holds(buf, at, p) /\ Holds(buf, at + 1, d)
    BY <1>2, <2>1
  <2>3. Prefix(1) = l
    BY <1>1, <1>5, <2>2, PrefixRead DEF p
  <2>4. Number(Peek(1, l)) = v
    BY <1>1, <1>5, <2>2, NumberRead DEF d
  <2>5. QED
    BY <1>4, <2>3, <2>4
<1>6. QED
  BY <1>1, <1>4, <1>5

\* A string with its length before it.
LEMMA StringRead ==
    ASSUME NEW v \in Seq(Nat), Fits(Len(v), Word), NEW e,
           e = Then(Digits(Len(v), Word), v)
    PROVE  /\ e \in Seq(Nat) /\ Len(e) > 0
           /\ at \in Nat /\ Holds(buf, at, e) =>
                 Len(e) = Word + Prefix(Word) /\ Peek(Word, Prefix(Word)) = v
<1> DEFINE l == Len(v)
           p == Digits(l, Word)
<1>1. l \in Nat /\ Fits(l, Word) /\ Word \in Nat /\ Word > 0
  OBVIOUS
<1> HIDE DEF l
<1>2. p \in Seq(Nat) /\ Len(p) = Word
  BY <1>1, NumberIsBack
<1>3. e = Then(p, v)
  BY DEF l
<1> HIDE DEF p
<1>4. e \in Seq(Nat) /\ Len(e) = Word + l
  BY <1>2, <1>3, ThenIs DEF l
<1>5. ASSUME at \in Nat, Holds(buf, at, e)
      PROVE  Len(e) = Word + Prefix(Word) /\ Peek(Word, Prefix(Word)) = v
  <2>1. Holds(buf, at, p) /\ Holds(buf, at + Len(p), v)
    BY <1>2, <1>3, <1>5, HoldsParts
  <2>2. Holds(buf, at, p) /\ Holds(buf, at + Word, v)
    BY <1>2, <2>1
  <2>3. Prefix(Word) = l
    BY <1>1, <1>5, <2>2, PrefixRead DEF p
  <2>4. Peek(Word, l) = v
    BY <1>1, <1>5, <2>2, PeekIs DEF l
  <2>5. QED
    BY <1>4, <2>3, <2>4
<1>6. QED
  BY <1>1, <1>4, <1>5

\* A hash after its tag.
LEMMA KeyRead ==
    ASSUME NEW v \in Nat
    PROVE  /\ <<0, v>> \in Seq(Nat) /\ Len(<<0, v>>) = 2
           /\ at \in Nat /\ Holds(buf, at, <<0, v>>) => Peek(1, 1)[1] = v
<1>1. <<0, v>> \in Seq(Nat) /\ Len(<<0, v>>) = 2
  OBVIOUS
<1>2. ASSUME at \in Nat, Holds(buf, at, <<0, v>>) PROVE Peek(1, 1)[1] = v
  <2>1. <<0, v>> = Then(<< 0 >>, <<v>>) /\ << 0 >> \in Seq(Nat) /\ <<v>> \in Seq(Nat)
        /\ Len(<< 0 >>) = 1 /\ Len(<<v>>) = 1
    BY DEF Then
  <2>2. Holds(buf, at + 1, <<v>>)
    <3> DEFINE s == << 0 >>
               t == <<v>>
    <3>1. s \in Seq(Nat) /\ t \in Seq(Nat) /\ Len(s) = 1 /\ Holds(buf, at, Then(s, t))
      BY <1>2, <2>1
    <3> HIDE DEF s, t
    <3>2. Holds(buf, at + 1, t)
      BY <3>1, HoldsParts
    <3>3. QED
      BY <3>2 DEF t
  <2>3. Peek(1, 1) = <<v>>
    BY <1>2, <2>1, <2>2, PeekIs
  <2>4. QED
    BY <2>3
<1>3. QED
  BY <1>1, <1>2

\* A tag, and the hash if there is one.
LEMMA OptionRead ==
    ASSUME NEW v, v = <<>> \/ \E h \in Nat : v = <<h>>, NEW e,
           e = IF v = <<>> THEN << 0 >> ELSE Then(<<1, 0>>, v)
    PROVE  /\ e \in Seq(Nat) /\ Len(e) > 0
           /\ at \in Nat /\ Holds(buf, at, e) =>
                 IF Prefix(1) = 0 THEN Len(e) = 1 /\ v = <<>>
                                  ELSE Len(e) = 3 /\ Peek(2, 1) = v
<1>1. CASE v = <<>>
  <2>1. e = << 0 >> /\ Digits(0, 1) = << 0 >> /\ Fits(0, 1)
    BY <1>1, DigitPrefix, SmallFits
  <2>2. at \in Nat /\ Holds(buf, at, e) => Prefix(1) = 0
    BY <2>1, PrefixRead
  <2>3. e \in Seq(Nat) /\ Len(e) = 1
    <3>1. << 0 >> \in Seq(Nat) /\ Len(<< 0 >>) = 1
      OBVIOUS
    <3>2. QED
      BY <2>1, <3>1, Zenon
  <2>4. QED
    BY <1>1, <2>2, <2>3
<1>2. CASE \E h \in Nat : v = <<h>>
  <2>1. PICK h \in Nat : v = <<h>>
    BY <1>2
  <2>2. e = Then(<<1, 0>>, v) /\ Digits(1, 1) = << 1 >> /\ Fits(1, 1)
    <3>1. v # <<>>
      BY <2>1
    <3>2. QED
      BY <3>1, DigitPrefix, SmallFits
  <2>3. <<1, 0>> \in Seq(Nat) /\ Len(<<1, 0>>) = 2 /\ v \in Seq(Nat) /\ Len(v) = 1
        /\ <<1, 0>> = Then(<< 1 >>, << 0 >>) /\ << 1 >> \in Seq(Nat) /\ << 0 >> \in Seq(Nat)
    BY <2>1 DEF Then
  <2>4. e \in Seq(Nat) /\ Len(e) = 3
    <3> DEFINE s == <<1, 0>>
    <3>1. s \in Seq(Nat) /\ v \in Seq(Nat) /\ Len(s) = 2 /\ Len(v) = 1 /\ e = Then(s, v)
      BY <2>2, <2>3
    <3> HIDE DEF s
    <3>2. Then(s, v) \in Seq(Nat) /\ Len(Then(s, v)) = Len(s) + Len(v)
      BY <3>1, ThenIs, Zenon
    <3>3. e \in Seq(Nat) /\ Len(e) = 2 + 1
      BY <3>1, <3>2, Zenon
    <3>4. QED
      BY <3>3
  <2>5. ASSUME at \in Nat, Holds(buf, at, e) PROVE Prefix(1) = 1 /\ Peek(2, 1) = v
    <3>1. Holds(buf, at, <<1, 0>>) /\ Holds(buf, at + 2, v)
      BY <2>2, <2>3, <2>5, HoldsParts
    <3>2. Holds(buf, at, << 1 >>)
      BY <2>3, <3>1, HoldsParts
    <3>3. Prefix(1) = 1
      BY <2>2, <2>5, <3>2, PrefixRead
    <3>4. Peek(2, 1) = v
      BY <2>3, <2>5, <3>1, PeekIs
    <3>5. QED
      BY <3>3, <3>4
  <2>6. QED
    BY <2>4, <2>5
<1>3. QED
  BY <1>1, <1>2

\* The width the method for a field takes, and the value it returns.
Reads(f) ==
    CASE f.kind = "u8"     -> Len(Encoded(f)) = 1 /\ Remaining > 0 /\ Peek(0, 1)[1] = f.value
      [] f.kind = "u32"    -> Len(Encoded(f)) = Word /\ Number(Peek(0, Word)) = f.value
      [] f.kind = "u64"    -> Len(Encoded(f)) = Long /\ Number(Peek(0, Long)) = f.value
      [] f.kind = "u512"   -> /\ Len(Encoded(f)) = 1 + Prefix(1)
                              /\ Number(Peek(1, Prefix(1))) = f.value
      [] f.kind = "string" -> /\ Len(Encoded(f)) = Word + Prefix(Word)
                              /\ Peek(Word, Prefix(Word)) = f.value
      [] f.kind = "key"    -> Len(Encoded(f)) = 2 /\ Peek(1, 1)[1] = f.value
      [] f.kind = "option" -> IF Prefix(1) = 0
                              THEN Len(Encoded(f)) = 1 /\ f.value = <<>>
                              ELSE Len(Encoded(f)) = 3 /\ Peek(2, 1) = f.value
      [] OTHER             -> FALSE

\* Every field that can be written is bytes, at least one of them, and where
\* they lie the method for its kind takes them all and returns the value.
LEMMA WrittenIsRead ==
    ASSUME NEW f, Writable(f)
    PROVE  /\ Encoded(f) \in Seq(Nat) /\ Len(Encoded(f)) > 0
           /\ at \in Nat /\ Holds(buf, at, Encoded(f)) => Reads(f)
<1>1. CASE f.kind = "u8"
  <2>1. f.value \in Nat /\ Encoded(f) = <<f.value>>
    <3>1. f.value \in 0..Base - 1
      BY <1>1, Zenon DEF Writable
    <3>2. f.value \in Nat
      BY <3>1
    <3>3. QED
      BY <1>1, <3>2, EncodedKinds, Zenon
  <2> DEFINE v == f.value
             s == <<v>>
  <2>2. s \in Seq(Nat) /\ Len(s) = 1 /\ s[1] = v
    BY <2>1
  <2> HIDE DEF s
  <2>3. Encoded(f) = s
    BY <2>1 DEF s
  <2>4. ASSUME at \in Nat, Holds(buf, at, s) PROVE Remaining > 0 /\ Peek(0, 1) = s
    <3>1. at + 1 <= Len(buf) /\ Len(buf) \in Nat /\ at + 0 = at
      BY <2>2, <2>4 DEF Holds
    <3>2. Peek(0, Len(s)) = s
      BY <2>4, <3>1, PeekIs
    <3>3. QED
      BY <2>2, <2>4, <3>1, <3>2 DEF Remaining
  <2>5. at \in Nat /\ Holds(buf, at, Encoded(f)) => Reads(f)
    <3> SUFFICES ASSUME at \in Nat, Holds(buf, at, Encoded(f)) PROVE Reads(f)
      OBVIOUS
    <3>1. Remaining > 0 /\ Peek(0, 1) = s
      BY <2>3, <2>4, Zenon
    <3>2. Len(Encoded(f)) = 1 /\ Remaining > 0 /\ Peek(0, 1)[1] = f.value
      BY <2>2, <2>3, <3>1, Zenon
    <3>3. QED
      BY <1>1, <3>2, Zenon DEF Reads
  <2>6. Encoded(f) \in Seq(Nat) /\ Len(Encoded(f)) = 1 /\ 1 > 0
    BY <2>2, <2>3
  <2>7. QED
    BY <2>5, <2>6, Zenon
<1>2. CASE f.kind = "u32"
  <2>1. f.value \in Nat /\ Fits(f.value, Word) /\ Encoded(f) = Digits(f.value, Word)
    BY <1>2, EncodedKinds DEF Writable
  <2>2. /\ Encoded(f) \in Seq(Nat) /\ Len(Encoded(f)) = Word
        /\ at \in Nat /\ Holds(buf, at, Encoded(f)) => Number(Peek(0, Word)) = f.value
    BY <2>1, FixedRead
  <2>3. QED
    BY <1>2, <2>2 DEF Reads
<1>3. CASE f.kind = "u64"
  <2>1. f.value \in Nat /\ Fits(f.value, Long) /\ Encoded(f) = Digits(f.value, Long)
    BY <1>3, EncodedKinds DEF Writable
  <2>2. /\ Encoded(f) \in Seq(Nat) /\ Len(Encoded(f)) = Long
        /\ at \in Nat /\ Holds(buf, at, Encoded(f)) => Number(Peek(0, Long)) = f.value
    BY <2>1, FixedRead
  <2>3. QED
    BY <1>3, <2>2 DEF Reads
<1>4. CASE f.kind = "u512"
  <2>1. /\ f.value \in Nat /\ Fits(LengthOf(f.value), 1)
        /\ Encoded(f) = Then(<<LengthOf(f.value)>>, Digits(f.value, LengthOf(f.value)))
    BY <1>4, EncodedKinds DEF Writable
  <2>2. /\ Encoded(f) \in Seq(Nat) /\ Len(Encoded(f)) > 0
        /\ at \in Nat /\ Holds(buf, at, Encoded(f)) =>
              Len(Encoded(f)) = 1 + Prefix(1) /\ Number(Peek(1, Prefix(1))) = f.value
    BY <2>1, U512Read
  <2>3. QED
    BY <1>4, <2>2 DEF Reads
<1>5. CASE f.kind = "string"
  <2>1. /\ f.value \in Seq(Nat) /\ Fits(Len(f.value), Word)
        /\ Encoded(f) = Then(Digits(Len(f.value), Word), f.value)
    BY <1>5, EncodedKinds DEF Writable
  <2>2. /\ Encoded(f) \in Seq(Nat) /\ Len(Encoded(f)) > 0
        /\ at \in Nat /\ Holds(buf, at, Encoded(f)) =>
              Len(Encoded(f)) = Word + Prefix(Word) /\ Peek(Word, Prefix(Word)) = f.value
    BY <2>1, StringRead
  <2>3. QED
    BY <1>5, <2>2 DEF Reads
<1>6. CASE f.kind = "key"
  <2>1. f.value \in Nat /\ Encoded(f) = <<0, f.value>>
    BY <1>6, EncodedKinds DEF Writable
  <2>2. /\ Encoded(f) \in Seq(Nat) /\ Len(Encoded(f)) = 2
        /\ at \in Nat /\ Holds(buf, at, Encoded(f)) => Peek(1, 1)[1] = f.value
    BY <2>1, KeyRead
  <2>3. QED
    BY <1>6, <2>2 DEF Reads
<1>7. CASE f.kind = "option"
  <2>1. /\ f.value = <<>> \/ \E h \in Nat : f.value = <<h>>
        /\ Encoded(f) = IF f.value = <<>> THEN << 0 >> ELSE Then(<<1, 0>>, f.value)
    BY <1>7, EncodedKinds DEF Writable
  <2>2. /\ Encoded(f) \in Seq(Nat) /\ Len(Encoded(f)) > 0
        /\ at \in Nat /\ Holds(buf, at, Encoded(f)) =>
              IF Prefix(1) = 0 THEN Len(Encoded(f)) = 1 /\ f.value = <<>>
                               ELSE Len(Encoded(f)) = 3 /\ Peek(2, 1) = f.value
    BY <2>1, OptionRead
  <2>3. QED
    BY <1>7, <2>2 DEF Reads
<1>8. QED
  BY <1>1, <1>2, <1>3, <1>4, <1>5, <1>6, <1>7 DEF Writable

-----------------------------------------------------------------------------
(* The inductive invariant.                                                 *)

\* The encodings of the fields stored, whose bytes are joined.
Parts == [i \in DOMAIN fields |-> Encoded(fields[i])]

\* The cursor is where the fields read end.
Cursor == \E start : /\ Lies(start, Parts, Len(fields), Bytes(fields))
                     /\ at = start[Len(got)]

\* What the steps leave as Init chose it.
AsStored ==
    /\ path \in {<< 3 >>, <<4, 1>>}
    /\ fields \in IF path = << 3 >> THEN Note ELSE Bond
    /\ damage = "none" \/ damage \in {"short", "long"} \X {"inside", "outside"}
    /\ raw = IF damage = "none" THEN Wrapped(Bytes(fields))
             ELSE IF damage[2] = "inside"
             THEN Wrapped(Damaged(Bytes(fields), damage[1]))
             ELSE Damaged(Wrapped(Bytes(fields)), damage[1])

\* The bytes inside the length prefix.
Contents == IF damage = "none" THEN Bytes(fields) ELSE Damaged(Bytes(fields), damage[1])

\* A note with a status the reader does not know.
Unknown == path = << 3 >> /\ fields[6].value > 3

\* The fields read are the first ones, and those still to be read the others.
FieldsRead ==
    /\ Len(got) \in 0..Len(fields)
    /\ got = [i \in 1..Len(got) |-> fields[i].value]
    /\ todo = SubSeq(Layout(path), Len(got) + 1, Len(Layout(path)))

\* While reading, the cursor is where the next field begins, and neither a field
\* that is cut short nor an unknown status was passed.
AtField ==
    outcome = "reading" =>
        /\ damage = "none" \/ damage[2] = "inside"
        /\ buf = Contents
        /\ Cursor
        /\ damage # "none" /\ damage[1] = "short" => Len(got) < Len(fields)
        /\ Unknown => Len(got) < 6

\* What the end says.
AtEnd ==
    /\ outcome = "raw" => buf = <<>> /\ at = 0 /\ got = <<>>
    /\ outcome = "done" => damage = "none" /\ Len(got) = Len(fields) /\ ~Unknown
    /\ outcome = "error" => damage # "none" \/ Unknown

DecodeInvariant == StoredTypeOK /\ AsStored /\ FieldsRead /\ AtField /\ AtEnd

-----------------------------------------------------------------------------
(* What is stored is laid out as the reader expects.                        *)

\* A field is its kind and its value.
LEMMA FieldIs ==
    ASSUME NEW k, NEW v
    PROVE  F(k, v).kind = k /\ F(k, v).value = v
BY DEF F

\* Each kind of field written.
LEMMA WritableKinds ==
    /\ \A v \in 0..Base - 1 : Writable(F("u8", v))
    /\ \A v \in Nat : Fits(v, Word) => Writable(F("u32", v))
    /\ \A v \in Nat : Fits(v, Long) => Writable(F("u64", v))
    /\ \A v \in Nat : Fits(LengthOf(v), 1) => Writable(F("u512", v))
    /\ \A v \in Seq(Nat) : Fits(Len(v), Word) => Writable(F("string", v))
    /\ \A v \in Nat : Writable(F("key", v))
    /\ \A v : (v = <<>> \/ \E h \in Nat : v = <<h>>) => Writable(F("option", v))
<1>1. ASSUME NEW v \in 0..Base - 1 PROVE Writable(F("u8", v))
  <2> DEFINE f == F("u8", v)
  <2>1. f.kind = "u8" /\ f.value = v
    BY FieldIs
  <2> HIDE DEF f
  <2>2. Writable(f)
    BY <2>1, Zenon DEF Writable
  <2>3. QED
    BY <2>2 DEF f
<1>2. ASSUME NEW v \in Nat, Fits(v, Word) PROVE Writable(F("u32", v))
  <2> DEFINE f == F("u32", v)
  <2>1. f.kind = "u32" /\ f.value = v
    BY FieldIs
  <2> HIDE DEF f
  <2>2. Writable(f)
    BY <1>2, <2>1, Zenon DEF Writable
  <2>3. QED
    BY <2>2 DEF f
<1>3. ASSUME NEW v \in Nat, Fits(v, Long) PROVE Writable(F("u64", v))
  <2> DEFINE f == F("u64", v)
  <2>1. f.kind = "u64" /\ f.value = v
    BY FieldIs
  <2> HIDE DEF f
  <2>2. Writable(f)
    BY <1>3, <2>1, Zenon DEF Writable
  <2>3. QED
    BY <2>2 DEF f
<1>4. ASSUME NEW v \in Nat, Fits(LengthOf(v), 1) PROVE Writable(F("u512", v))
  <2> DEFINE f == F("u512", v)
  <2>1. f.kind = "u512" /\ f.value = v
    BY FieldIs
  <2> HIDE DEF f
  <2>2. Writable(f)
    BY <1>4, <2>1, Zenon DEF Writable
  <2>3. QED
    BY <2>2 DEF f
<1>5. ASSUME NEW v \in Seq(Nat), Fits(Len(v), Word) PROVE Writable(F("string", v))
  <2> DEFINE f == F("string", v)
  <2>1. f.kind = "string" /\ f.value = v
    BY FieldIs
  <2> HIDE DEF f
  <2>2. Writable(f)
    BY <1>5, <2>1, Zenon DEF Writable
  <2>3. QED
    BY <2>2 DEF f
<1>6. ASSUME NEW v \in Nat PROVE Writable(F("key", v))
  <2> DEFINE f == F("key", v)
  <2>1. f.kind = "key" /\ f.value = v
    BY FieldIs
  <2> HIDE DEF f
  <2>2. Writable(f)
    BY <2>1, Zenon DEF Writable
  <2>3. QED
    BY <2>2 DEF f
<1>7. ASSUME NEW v, v = <<>> \/ \E h \in Nat : v = <<h>> PROVE Writable(F("option", v))
  <2> DEFINE f == F("option", v)
  <2>1. f.kind = "option" /\ f.value = v
    BY FieldIs
  <2> HIDE DEF f
  <2>2. Writable(f)
    BY <1>7, <2>1, Zenon DEF Writable
  <2>3. QED
    BY <2>2 DEF f
<1>8. QED
  BY <1>1, <1>2, <1>3, <1>4, <1>5, <1>6, <1>7, Zenon

\* The notes and bonds stored are laid out as the reader expects.
LEMMA NoteIsLaid ==
    ASSUME NEW fs \in Note
    PROVE  /\ DOMAIN fs = 1..6 /\ Len(fs) = 6
           /\ fs[1].kind = "key" /\ fs[2].kind = "option" /\ fs[3].kind = "u512"
           /\ fs[4].kind = "u64" /\ fs[5].kind = "string" /\ fs[6].kind = "u8"
           /\ \A i \in 1..6 : Writable(fs[i])
           /\ fs[6].value \in Nat
<1>1. PICK s \in Hashes, i \in {<<>>, << 2 >>}, v \in Amount, r \in {0, Base + 1},
           h \in {<<>>, << 1 >>}, u \in 0..Base - 1 :
           fs = <<F("key", s), F("option", i), F("u512", v), F("u64", r), F("string", h),
                  F("u8", u)>>
  BY DEF Note
<1>2. /\ fs[1] = F("key", s) /\ fs[2] = F("option", i) /\ fs[3] = F("u512", v)
      /\ fs[4] = F("u64", r) /\ fs[5] = F("string", h) /\ fs[6] = F("u8", u)
      /\ DOMAIN fs = 1..6 /\ Len(fs) = 6
  BY <1>1
<1>3. s \in Nat
  BY DEF Hashes
<1>4. v \in Nat /\ Fits(LengthOf(v), 1)
  BY WidthAssumption
<1>5. r \in Nat /\ Fits(r, Long)
  BY SmallFits
<1>6. h \in Seq(Nat) /\ Fits(Len(h), Word)
  <2>1. h \in Seq(Nat) /\ Len(h) \in 0..Base
    <3>1. CASE h = <<>>
      BY <3>1
    <3>2. CASE h = << 1 >>
      BY <3>2
    <3>3. QED
      BY <3>1, <3>2
  <2>2. QED
    BY <2>1, SmallFits
<1>7. i = <<>> \/ \E x \in Nat : i = <<x>>
  OBVIOUS
<1>8. /\ Writable(fs[1]) /\ Writable(fs[2]) /\ Writable(fs[3])
      /\ Writable(fs[4]) /\ Writable(fs[5]) /\ Writable(fs[6])
  BY <1>2, <1>3, <1>4, <1>5, <1>6, <1>7, WritableKinds, Zenon
<1>9. \A x \in 1..6 : x = 1 \/ x = 2 \/ x = 3 \/ x = 4 \/ x = 5 \/ x = 6
  OBVIOUS
<1>10. \A x \in 1..6 : Writable(fs[x])
  BY <1>8, <1>9, Zenon
<1>11. u \in Nat
  OBVIOUS
<1>12. /\ fs[1].kind = "key" /\ fs[2].kind = "option" /\ fs[3].kind = "u512"
       /\ fs[4].kind = "u64" /\ fs[5].kind = "string" /\ fs[6].kind = "u8"
       /\ fs[6].value = u
  BY <1>2, FieldIs
<1>13. QED
  BY <1>2, <1>10, <1>11, <1>12, Zenon

\* Likewise the bonds.
LEMMA BondIsLaid ==
    ASSUME NEW fs \in Bond
    PROVE  /\ DOMAIN fs = 1..3 /\ Len(fs) = 3
           /\ fs[1].kind = "u512" /\ fs[2].kind = "u512" /\ fs[3].kind = "u32"
           /\ \A i \in 1..3 : Writable(fs[i])
<1>1. PICK a \in Amount, s \in Amount, d \in 0..Base :
           fs = <<F("u512", a), F("u512", s), F("u32", d)>>
  BY DEF Bond
<1>2. /\ fs[1] = F("u512", a) /\ fs[2] = F("u512", s) /\ fs[3] = F("u32", d)
      /\ DOMAIN fs = 1..3 /\ Len(fs) = 3
  BY <1>1
<1>3. a \in Nat /\ Fits(LengthOf(a), 1) /\ s \in Nat /\ Fits(LengthOf(s), 1)
  BY WidthAssumption
<1>4. d \in Nat /\ Fits(d, Word)
  BY SmallFits
<1>5. Writable(fs[1]) /\ Writable(fs[2]) /\ Writable(fs[3])
  BY <1>2, <1>3, <1>4, WritableKinds, Zenon
<1>6. \A x \in 1..3 : x = 1 \/ x = 2 \/ x = 3
  OBVIOUS
<1>7. \A x \in 1..3 : Writable(fs[x])
  BY <1>5, <1>6, Zenon
<1>8. fs[1].kind = "u512" /\ fs[2].kind = "u512" /\ fs[3].kind = "u32"
  BY <1>2, FieldIs
<1>9. QED
  BY <1>2, <1>7, <1>8, Zenon

\* The kinds of fields.
Kinds == {"u8", "u32", "u64", "u512", "string", "key", "option"}

\* How what is stored is laid out: the last field, and no other, is a fixed
\* number of one digit or of a word.
LEMMA LaidOut ==
    ASSUME AsStored
    PROVE  /\ DOMAIN fields = 1..Len(fields) /\ Len(fields) \in Nat \ {0}
           /\ Len(Layout(path)) = Len(fields) /\ Layout(path) \in Seq(Kinds)
           /\ \A i \in 1..Len(fields) : /\ Writable(fields[i])
                                        /\ fields[i].kind = Layout(path)[i]
           /\ \A i \in 1..Len(fields) :
                 Layout(path)[i] = "u8" => path = << 3 >> /\ i = 6 /\ Len(fields) = 6
           /\ \A i \in 1..Len(fields) : Layout(path)[i] = "u32" => path # << 3 >> /\ i = Len(fields)
           /\ Layout(path)[Len(fields)] \in {"u8", "u32"}
           /\ path = << 3 >> => Len(fields) = 6 /\ fields[6].value \in Nat
           /\ Fits(Len(Bytes(fields)) + 1, Word)
<1>1. Fits(Len(Bytes(fields)) + 1, Word)
  <2>1. fields \in Note \cup Bond
    BY DEF AsStored
  <2>2. QED
    BY <2>1, WidthAssumption
<1>2. CASE path = << 3 >>
  <2> DEFINE l == <<"key", "option", "u512", "u64", "string", "u8">>
  <2>1. Layout(path) = l
    BY <1>2 DEF Layout
  <2>2. fields \in Note
    BY <1>2, Zenon DEF AsStored
  <2>3. /\ DOMAIN fields = 1..6 /\ Len(fields) = 6
        /\ fields[1].kind = "key" /\ fields[2].kind = "option" /\ fields[3].kind = "u512"
        /\ fields[4].kind = "u64" /\ fields[5].kind = "string" /\ fields[6].kind = "u8"
        /\ \A i \in 1..6 : Writable(fields[i])
        /\ fields[6].value \in Nat
    BY <2>2, NoteIsLaid, Zenon
  <2>4. l \in Seq(Kinds) /\ Len(l) = 6
        /\ l[1] = "key" /\ l[2] = "option" /\ l[3] = "u512"
        /\ l[4] = "u64" /\ l[5] = "string" /\ l[6] = "u8"
    BY DEF Kinds
  <2> HIDE DEF l
  <2>5. \A x \in 1..6 : x = 1 \/ x = 2 \/ x = 3 \/ x = 4 \/ x = 5 \/ x = 6
    OBVIOUS
  <2>6. \A i \in 1..6 : fields[i].kind = l[i]
    BY <2>3, <2>4, <2>5, Zenon
  <2>7. \A i \in 1..6 : l[i] = "u8" => i = 6
    BY <2>4, <2>5
  <2>8. \A i \in 1..6 : l[i] # "u32"
    BY <2>4, <2>5
  <2>9. 6 \in Nat \ {0}
    OBVIOUS
  <2>10. l[6] \in {"u8", "u32"}
    BY <2>4
  <2>11. QED
    BY <1>1, <1>2, <2>1, <2>3, <2>4, <2>6, <2>7, <2>8, <2>9, <2>10, Zenon
<1>3. CASE path # << 3 >>
  <2> DEFINE l == <<"u512", "u512", "u32">>
  <2>1. Layout(path) = l
    <3>1. path = <<4, 1>>
      BY <1>3, Zenon DEF AsStored
    <3>2. path[1] # 3
      BY <3>1
    <3>3. QED
      BY <3>2 DEF Layout
  <2>2. fields \in Bond
    BY <1>3, Zenon DEF AsStored
  <2>3. /\ DOMAIN fields = 1..3 /\ Len(fields) = 3
        /\ fields[1].kind = "u512" /\ fields[2].kind = "u512" /\ fields[3].kind = "u32"
        /\ \A i \in 1..3 : Writable(fields[i])
    BY <2>2, BondIsLaid, Zenon
  <2>4. l \in Seq(Kinds) /\ Len(l) = 3 /\ l[1] = "u512" /\ l[2] = "u512" /\ l[3] = "u32"
    BY DEF Kinds
  <2> HIDE DEF l
  <2>5. \A x \in 1..3 : x = 1 \/ x = 2 \/ x = 3
    OBVIOUS
  <2>6. \A i \in 1..3 : fields[i].kind = l[i]
    BY <2>3, <2>4, <2>5, Zenon
  <2>7. \A i \in 1..3 : l[i] # "u8"
    BY <2>4, <2>5
  <2>8. \A i \in 1..3 : l[i] = "u32" => i = 3
    BY <2>4, <2>5
  <2>9. 3 \in Nat \ {0}
    OBVIOUS
  <2>10. l[3] \in {"u8", "u32"}
    BY <2>4
  <2>11. QED
    BY <1>1, <1>3, <2>1, <2>3, <2>4, <2>6, <2>7, <2>8, <2>9, <2>10, Zenon
<1>4. QED
  BY <1>2, <1>3, Zenon

\* The encodings of the fields stored.
LEMMA PartsAre ==
    ASSUME AsStored
    PROVE  /\ Len(Parts) = Len(fields)
           /\ \A i \in 1..Len(fields) :
                 Parts[i] = Encoded(fields[i]) /\ Parts[i] \in Seq(Nat) /\ Len(Parts[i]) > 0
           /\ Bytes(fields) = FlattenSeq(Parts)
<1> DEFINE n == Len(fields)
<1>1. DOMAIN fields = 1..n /\ n \in Nat \ {0} /\ \A i \in 1..n : Writable(fields[i])
  BY LaidOut, Zenon
<1> HIDE DEF n
<1>2. Parts = [i \in 1..n |-> Encoded(fields[i])]
  BY <1>1 DEF Parts
<1>3. Len(Parts) = n
  BY <1>1, <1>2
<1>4. \A i \in 1..n : Parts[i] = Encoded(fields[i])
  BY <1>2, Zenon
<1>5. \A i \in 1..n : Encoded(fields[i]) \in Seq(Nat) /\ Len(Encoded(fields[i])) > 0
  BY <1>1, WrittenIsRead, Zenon
<1>6. Bytes(fields) = FlattenSeq(Parts)
  BY DEF Bytes, Parts
<1>7. QED
  BY <1>3, <1>4, <1>5, <1>6, Zenon DEF n

\* They lie one after another in the bytes.
LEMMA Placed ==
    ASSUME AsStored
    PROVE  /\ Bytes(fields) \in Seq(Nat) /\ Len(Bytes(fields)) \in Nat
           /\ Len(Bytes(fields)) > 0
           /\ \E start : Lies(start, Parts, Len(fields), Bytes(fields))
<1> DEFINE n == Len(fields)
           b == Bytes(fields)
<1>1. n \in Nat \ {0}
  BY LaidOut, Zenon
<1>2. Len(Parts) = n /\ b = FlattenSeq(Parts)
      /\ \A i \in 1..n : Parts[i] \in Seq(Nat) /\ Len(Parts[i]) > 0
  BY PartsAre
<1> HIDE DEF n, b
<1>3. b \in Seq(Nat) /\ \E start : Lies(start, Parts, n, b)
  BY <1>1, <1>2, FlattenLies, Zenon
<1>4. Len(b) \in Nat /\ Len(b) > 0
  <2>1. PICK start : Lies(start, Parts, n, b)
    BY <1>3
  <2>2. 1 \in 1..n /\ 1 - 1 = 0
    BY <1>1
  <2>3. start[1] = start[0] + Len(Parts[1]) /\ start[1] <= Len(b) /\ start[0] = 0
    BY <2>1, <2>2 DEF Lies
  <2>4. Len(Parts[1]) \in Nat /\ Len(Parts[1]) > 0
    BY <1>2, <2>2
  <2>5. Len(b) \in Nat
    BY <1>3
  <2>6. QED
    BY <2>3, <2>4, <2>5
<1>5. QED
  BY <1>3, <1>4, Zenon DEF n, b

-----------------------------------------------------------------------------
(* The length prefix, and damage.                                           *)

\* The length prefix of what is wrapped, and what is inside it.
LEMMA WrappedIs ==
    ASSUME NEW c \in Seq(Nat), Fits(Len(c), Word)
    PROVE  /\ Wrapped(c) \in Seq(Nat) /\ Len(Wrapped(c)) = Word + Len(c)
           /\ Number(SubSeq(Wrapped(c), 1, Word)) = Len(c)
           /\ SubSeq(Wrapped(c), Word + 1, Len(Wrapped(c))) = c
           /\ \A j \in 1..Word : Wrapped(c)[j] = Digits(Len(c), Word)[j]
           /\ Digits(Len(c), Word) \in Seq(Nat) /\ Len(Digits(Len(c), Word)) = Word
           /\ Number(Digits(Len(c), Word)) = Len(c)
<1> DEFINE p == Digits(Len(c), Word)
           w == Wrapped(c)
<1>1. Len(c) \in Nat /\ Word \in Nat
  OBVIOUS
<1>2. p \in Seq(Nat) /\ Len(p) = Word /\ Number(p) = Len(c)
  BY <1>1, NumberIsBack
<1>3. w = Then(p, c)
  BY DEF Wrapped, Then
<1> HIDE DEF p, w
<1>4. /\ Then(p, c) \in Seq(Nat) /\ Len(Then(p, c)) = Len(p) + Len(c)
      /\ \A x \in 1..Len(p) : Then(p, c)[x] = p[x]
      /\ \A x \in 1..Len(c) : Then(p, c)[Len(p) + x] = c[x]
  BY <1>2, ThenIs, Zenon
<1>5. /\ w \in Seq(Nat) /\ Len(w) = Word + Len(c)
      /\ \A x \in 1..Word : w[x] = p[x]
      /\ \A x \in 1..Len(c) : w[Word + x] = c[x]
  BY <1>2, <1>3, <1>4, Zenon
<1>6. Number(SubSeq(w, 1, Word)) = Len(c)
  <2>1. 0 + Len(p) <= Len(w) /\ 0 \in Nat
    BY <1>1, <1>2, <1>5
  <2>2. \A j \in 1..Len(p) : w[0 + j] = p[j]
    BY <1>1, <1>2, <1>5
  <2>3. Holds(w, 0, p)
    BY <1>2, <1>5, <2>1, <2>2, Zenon DEF Holds
  <2>4. SubSeq(w, 0 + 1, 0 + Len(p)) = p
    BY <2>3, SliceIs
  <2>5. 0 + 1 = 1 /\ 0 + Len(p) = Word
    BY <1>1, <1>2
  <2>6. QED
    BY <1>2, <2>4, <2>5
<1>7. SubSeq(w, Word + 1, Len(w)) = c
  <2>1. Word \in Nat /\ Word + Len(c) <= Len(w)
    BY <1>1, <1>5
  <2>2. Holds(w, Word, c)
    BY <1>5, <2>1, Zenon DEF Holds
  <2>3. SubSeq(w, Word + 1, Word + Len(c)) = c
    BY <2>2, SliceIs
  <2>4. QED
    BY <1>5, <2>3
<1>8. QED
  BY <1>2, <1>5, <1>6, <1>7, Zenon DEF p, w

\* What the damage leaves or makes of a sequence of bytes.
LEMMA DamagedIs ==
    ASSUME NEW s \in Seq(Nat), Len(s) > 0, NEW how \in {"short", "long"}
    PROVE  /\ Damaged(s, how) \in Seq(Nat)
           /\ how = "short" => Len(Damaged(s, how)) = Len(s) - 1
           /\ how = "long" => Len(Damaged(s, how)) = Len(s) + 1
           /\ \A j \in 1..Len(s) - 1 : Damaged(s, how)[j] = s[j]
           /\ how = "long" => \A j \in 1..Len(s) : Damaged(s, how)[j] = s[j]
<1>1. CASE how = "short"
  <2> DEFINE t == SubSeq(s, 1, Len(s) - 1)
  <2>1. Damaged(s, how) = t
    BY <1>1, Zenon DEF Damaged
  <2>2. t \in Seq(Nat) /\ Len(t) = Len(s) - 1 /\ \A j \in 1..Len(s) - 1 : t[j] = s[j]
    <3> DEFINE m == Len(s) - 1
    <3>1. m \in 0..Len(s) /\ m \in Nat
      OBVIOUS
    <3> HIDE DEF m
    <3>2. SubSeq(s, 1, m) \in Seq(Nat) /\ Len(SubSeq(s, 1, m)) = m
          /\ \A j \in 1..m : SubSeq(s, 1, m)[j] = s[j]
      BY <3>1
    <3>3. QED
      BY <3>2, Zenon DEF m
  <2>3. how # "long"
    BY <1>1
  <2> HIDE DEF t
  <2>4. QED
    BY <1>1, <2>1, <2>2, <2>3, Zenon
<1>2. CASE how = "long"
  <2> DEFINE z == << 0 >>
             t == Then(s, z)
  <2>1. Damaged(s, how) = t
    <3>1. how # "short"
      BY <1>2
    <3>2. QED
      BY <1>2, <3>1, Zenon DEF Damaged, Then
  <2>2. z \in Seq(Nat) /\ Len(z) = 1
    OBVIOUS
  <2> HIDE DEF z
  <2>3. t \in Seq(Nat) /\ Len(t) = Len(s) + Len(z) /\ \A j \in 1..Len(s) : t[j] = s[j]
    BY <2>2, ThenIs, Zenon
  <2> HIDE DEF t
  <2>4. \A j \in 1..Len(s) - 1 : j \in 1..Len(s)
    OBVIOUS
  <2>5. how # "short"
    BY <1>2
  <2>6. QED
    BY <1>2, <2>1, <2>2, <2>3, <2>4, <2>5, Zenon
<1>3. QED
  BY <1>1, <1>2

\* The bytes inside the prefix: those stored, or one less, or one more.
LEMMA ContentsAre ==
    ASSUME AsStored
    PROVE  /\ Contents \in Seq(Nat) /\ Len(Contents) \in Nat
           /\ Fits(Len(Contents), Word)
           /\ damage = "none" => Contents = Bytes(fields)
           /\ damage # "none" /\ damage[1] = "short" => Len(Contents) = Len(Bytes(fields)) - 1
           /\ damage # "none" /\ damage[1] # "short" => Len(Contents) = Len(Bytes(fields)) + 1
           /\ \A j \in 1..Len(Bytes(fields)) : j <= Len(Contents) =>
                 Contents[j] = Bytes(fields)[j]
<1> DEFINE b == Bytes(fields)
           c == Contents
<1>1. b \in Seq(Nat) /\ Len(b) \in Nat /\ Len(b) > 0 /\ Fits(Len(b) + 1, Word)
  BY Placed, LaidOut, Zenon
<1>2. \A m \in 0..Len(b) + 1 : Fits(m, Word)
  <2> HIDE DEF b
  <2>1. Len(b) + 1 \in Nat /\ Word \in Nat
    BY <1>1
  <2>2. QED
    BY <1>1, <2>1, FitsLess
<1>3. CASE damage = "none"
  <2>1. c = b
    BY <1>3 DEF Contents
  <2> HIDE DEF b, c
  <2>2. Len(b) \in 0..Len(b) + 1
    BY <1>1
  <2>3. QED
    BY <1>1, <1>2, <1>3, <2>1, <2>2, Zenon DEF b, c
<1>4. CASE damage # "none"
  <2> DEFINE how == damage[1]
  <2>1. how \in {"short", "long"}
    BY <1>4 DEF AsStored
  <2>2. c = Damaged(b, how)
    BY <1>4 DEF Contents
  <2> HIDE DEF b, c, how
  <2>3. /\ c \in Seq(Nat)
        /\ how = "short" => Len(c) = Len(b) - 1
        /\ how = "long" => Len(c) = Len(b) + 1
        /\ \A j \in 1..Len(b) - 1 : c[j] = b[j]
        /\ how = "long" => \A j \in 1..Len(b) : c[j] = b[j]
    BY <1>1, <2>1, <2>2, DamagedIs
  <2>4. Len(c) \in 0..Len(b) + 1
    BY <1>1, <2>1, <2>3
  <2>5. \A j \in 1..Len(b) : j <= Len(c) => c[j] = b[j]
    <3> TAKE j \in 1..Len(b)
    <3>1. CASE how = "short"
      <4>1. j <= Len(c) => j \in 1..Len(b) - 1
        BY <1>1, <2>3, <3>1
      <4>2. QED
        BY <2>3, <4>1, Zenon
    <3>2. CASE how = "long"
      BY <2>3, <3>2, Zenon
    <3>3. QED
      BY <2>1, <3>1, <3>2
  <2>6. Fits(Len(c), Word) /\ Len(c) \in Nat
    BY <1>2, <2>4
  <2>7. how # "short" => Len(c) = Len(b) + 1
    BY <2>1, <2>3
  <2>8. QED
    BY <1>4, <2>3, <2>5, <2>6, <2>7, Zenon DEF b, c, how
<1>5. QED
  BY <1>3, <1>4

\* The prefix is right exactly when no byte outside it was lost or added.
LEMMA PrefixIsRight ==
    ASSUME AsStored
    PROVE  IF damage = "none" \/ damage[2] = "inside"
           THEN /\ ~(Len(raw) < Word \/ Len(raw) - Word # Number(SubSeq(raw, 1, Word)))
                /\ SubSeq(raw, Word + 1, Len(raw)) = Contents
           ELSE Len(raw) < Word \/ Len(raw) - Word # Number(SubSeq(raw, 1, Word))
<1> DEFINE b == Bytes(fields)
           c == Contents
<1>1. b \in Seq(Nat) /\ Len(b) \in Nat /\ Len(b) > 0 /\ Fits(Len(b), Word)
      /\ c \in Seq(Nat) /\ Len(c) \in Nat /\ Fits(Len(c), Word)
  <2>1. b \in Seq(Nat) /\ Len(b) \in Nat /\ Len(b) > 0 /\ Fits(Len(b) + 1, Word)
    BY Placed, LaidOut, Zenon
  <2> HIDE DEF b
  <2>2. Fits(Len(b), Word)
    BY <2>1, FitsLess
  <2>3. QED
    BY <2>1, <2>2, ContentsAre
<1>2. CASE damage = "none" \/ damage[2] = "inside"
  <2>1. raw = Wrapped(c)
    <3>1. CASE damage = "none"
      <4>1. raw = Wrapped(Bytes(fields)) /\ c = Bytes(fields)
        BY <3>1, Zenon DEF AsStored, Contents
      <4>2. QED
        BY <4>1, Zenon
    <3>2. CASE damage # "none"
      <4>1. damage[2] = "inside"
        BY <1>2, <3>2
      <4>2. raw = Wrapped(Damaged(Bytes(fields), damage[1]))
            /\ c = Damaged(Bytes(fields), damage[1])
        BY <3>2, <4>1, Zenon DEF AsStored, Contents
      <4>3. QED
        BY <4>2, Zenon
    <3>3. QED
      BY <3>1, <3>2
  <2> HIDE DEF c
  <2>2. /\ Len(raw) = Word + Len(c) /\ Number(SubSeq(raw, 1, Word)) = Len(c)
        /\ SubSeq(raw, Word + 1, Len(raw)) = c
    BY <1>1, <2>1, WrappedIs
  <2>3. ~(Len(raw) < Word \/ Len(raw) - Word # Number(SubSeq(raw, 1, Word)))
    BY <1>1, <2>2
  <2>4. QED
    BY <1>2, <2>2, <2>3, Zenon DEF c
<1>3. CASE damage # "none" /\ damage[2] # "inside"
  <2> DEFINE w == Wrapped(b)
             how == damage[1]
             p == Digits(Len(b), Word)
  <2>1. how \in {"short", "long"} /\ raw = Damaged(w, how)
    BY <1>3 DEF AsStored
  <2> HIDE DEF b
  <2>2. /\ w \in Seq(Nat) /\ Len(w) = Word + Len(b)
        /\ \A j \in 1..Word : w[j] = p[j]
        /\ p \in Seq(Nat) /\ Len(p) = Word /\ Number(p) = Len(b)
    BY <1>1, WrappedIs
  <2> HIDE DEF w, how, p
  <2>3. Len(w) \in Nat /\ Len(w) > 0
    BY <1>1, <2>2
  <2>4. /\ raw \in Seq(Nat)
        /\ how = "short" => Len(raw) = Len(w) - 1
        /\ how = "long" => Len(raw) = Len(w) + 1
        /\ \A j \in 1..Len(w) - 1 : raw[j] = w[j]
    BY <2>1, <2>2, <2>3, DamagedIs
  <2>5. Len(raw) # Word + Len(b) /\ Len(raw) >= Word /\ Len(raw) \in Nat
    <3>1. Len(raw) = Len(w) - 1 \/ Len(raw) = Len(w) + 1
      BY <2>1, <2>4, Zenon
    <3>2. /\ Len(w) = Word + Len(b) /\ Word \in Nat
          /\ Len(b) \in Nat /\ Len(b) > 0 /\ Len(w) \in Nat
      BY <1>1, <2>2, <2>3
    <3>3. QED
      BY <3>1, <3>2
  <2>6. Number(SubSeq(raw, 1, Word)) = Len(b)
    <3>1. 0 + Len(p) <= Len(raw) /\ 0 \in Nat /\ 0 + 1 = 1 /\ 0 + Len(p) = Word
      BY <2>2, <2>5
    <3>2. \A j \in 1..Len(p) : 0 + j = j /\ j \in 1..Word /\ j \in 1..Len(w) - 1
      <4>1. /\ Len(p) = Word /\ Len(w) = Word + Len(b)
            /\ Word \in Nat /\ Len(b) \in Nat /\ Len(b) > 0
        BY <1>1, <2>2
      <4>2. Word <= Len(w) - 1 /\ Len(w) - 1 \in Nat
        BY <4>1
      <4>3. QED
        BY <4>1, <4>2
    <3>3. \A j \in 1..Len(p) : raw[0 + j] = p[j]
      BY <2>2, <2>4, <3>2, Zenon
    <3>4. Holds(raw, 0, p)
      BY <2>2, <2>4, <3>1, <3>3, Zenon DEF Holds
    <3>5. SubSeq(raw, 0 + 1, 0 + Len(p)) = p
      BY <3>4, SliceIs
    <3>6. QED
      BY <2>2, <3>1, <3>5, Zenon
  <2>7. Len(raw) - Word # Len(b)
    BY <1>1, <2>5
  <2>8. QED
    BY <1>3, <2>6, <2>7, Zenon
<1>4. QED
  BY <1>2, <1>3, Zenon

\* What no step changes.
Kept == UNCHANGED <<path, fields, damage, raw>>

\* It stays as it was stored.
LEMMA StaysStored ==
    ASSUME Kept
    PROVE  /\ AsStored => AsStored'
           /\ Contents' = Contents /\ Unknown' = Unknown
           /\ \A start : Lies(start, Parts, Len(fields), Bytes(fields))' =
                         Lies(start, Parts, Len(fields), Bytes(fields))
<1>1. path' = path /\ fields' = fields /\ damage' = damage /\ raw' = raw
  BY DEF Kept
<1>2. AsStored => AsStored'
  BY <1>1 DEF AsStored
<1>3. Contents' = Contents /\ Unknown' = Unknown
  BY <1>1 DEF Contents, Unknown
<1>4. Parts' = Parts
  BY <1>1 DEF Parts
<1>5. QED
  BY <1>1, <1>2, <1>3, <1>4

\* The prefix read: the cursor is at the first field.
LEMMA innerBytesDecodes ==
    ASSUME DecodeInvariant, innerBytes
    PROVE  DecodeInvariant'
<1>1. AsStored /\ StoredTypeOK /\ FieldsRead /\ outcome = "raw" /\ buf = <<>> /\ at = 0
      /\ got = <<>>
  BY DEF DecodeInvariant, AtEnd, innerBytes
<1>2. CASE damage = "none" \/ damage[2] = "inside"
  <2>1. /\ buf' = Contents /\ outcome' = "reading"
        /\ UNCHANGED <<path, fields, damage, raw, at, todo, got>>
    BY <1>1, <1>2, PrefixIsRight, Zenon DEF innerBytes
  <2>2. Kept
    BY <2>1 DEF Kept
  <2>3. AsStored' /\ Contents' = Contents /\ Unknown' = Unknown
    BY <1>1, <2>2, StaysStored
  <2>4. StoredTypeOK'
    <3>1. Contents \in Seq(Nat) /\ Len(Contents) \in Nat
      BY <1>1, ContentsAre
    <3>2. at' = 0 /\ Len(buf') \in Nat
      BY <1>1, <2>1, <3>1
    <3>3. Len(Layout(path))' = Len(Layout(path))
      BY <2>1
    <3>4. QED
      BY <1>1, <2>1, <3>2, <3>3 DEF StoredTypeOK
  <2>5. FieldsRead'
    BY <1>1, <2>1 DEF FieldsRead
  <2>6. Cursor'
    <3>1. PICK start : Lies(start, Parts, Len(fields), Bytes(fields))
      BY <1>1, Placed
    <3>2. Lies(start, Parts, Len(fields), Bytes(fields))'
      BY <2>2, <3>1, StaysStored
    <3>3. Len(got') = 0 /\ start[0] = 0 /\ at' = 0
      BY <1>1, <2>1, <3>1 DEF Lies
    <3>4. QED
      BY <3>2, <3>3 DEF Cursor
  <2>7. Len(got') = 0 /\ Len(fields') \in Nat \ {0}
    <3>1. Len(fields) \in Nat \ {0}
      BY <1>1, LaidOut, Zenon
    <3>2. QED
      BY <1>1, <2>1, <3>1
  <2>8. AtField'
    <3>1. Len(got') < Len(fields') /\ Len(got') < 6
      BY <2>7
    <3>2. damage' = "none" \/ damage'[2] = "inside"
      BY <1>2, <2>1
    <3>3. buf' = Contents'
      BY <2>1, <2>3
    <3>4. QED
      BY <2>6, <3>1, <3>2, <3>3 DEF AtField
  <2>9. AtEnd'
    BY <2>1 DEF AtEnd
  <2>10. QED
    BY <2>3, <2>4, <2>5, <2>8, <2>9 DEF DecodeInvariant
<1>3. CASE damage # "none" /\ damage[2] # "inside"
  <2>1. Throw
    BY <1>1, <1>3, PrefixIsRight, Zenon DEF innerBytes
  <2>2. outcome' = "error" /\ UNCHANGED <<path, fields, damage, raw, buf, at, todo, got>>
    BY <2>1 DEF Throw
  <2>3. Kept
    BY <2>2 DEF Kept
  <2>4. AsStored'
    BY <1>1, <2>3, StaysStored
  <2>5. StoredTypeOK'
    BY <1>1, <2>2 DEF StoredTypeOK
  <2>6. FieldsRead' /\ AtField' /\ AtEnd'
    BY <1>1, <1>3, <2>2 DEF FieldsRead, AtField, AtEnd
  <2>7. QED
    BY <2>4, <2>5, <2>6 DEF DecodeInvariant
<1>4. QED
  BY <1>2, <1>3

-----------------------------------------------------------------------------
(* The methods, one after another.                                          *)

\* The next field is cut short.
Cut == damage # "none" /\ damage[1] = "short" /\ Len(got) + 1 = Len(fields)

\* Where one of the sequences lies, by its number from 0.
LEMMA LiesAt ==
    ASSUME NEW start, NEW parts, NEW n \in Nat, NEW whole, Lies(start, parts, n, whole),
           NEW k \in Nat, k + 1 \in 1..n
    PROVE  /\ start[k] \in Nat /\ start[k + 1] \in Nat
           /\ start[k + 1] = start[k] + Len(parts[k + 1])
           /\ start[k + 1] <= Len(whole)
           /\ \A j \in 1..Len(parts[k + 1]) : whole[start[k] + j] = parts[k + 1][j]
<1>1. k + 1 - 1 = k /\ k \in 0..n /\ k + 1 \in 0..n
  OBVIOUS
<1>2. start \in [0..n -> Nat]
  BY DEF Lies
<1>3. start[k] \in Nat /\ start[k + 1] \in Nat
  BY <1>1, <1>2
<1> DEFINE m == k + 1
<1>4. m \in 1..n /\ m - 1 = k
  BY <1>1
<1> HIDE DEF m
<1>5. /\ start[m] = start[m - 1] + Len(parts[m])
      /\ start[m] <= Len(whole)
      /\ \A j \in 1..Len(parts[m]) : whole[start[m - 1] + j] = parts[m][j]
  BY <1>4, Zenon DEF Lies
<1>6. /\ start[m] = start[k] + Len(parts[m])
      /\ start[m] <= Len(whole)
      /\ \A j \in 1..Len(parts[m]) : whole[start[k] + j] = parts[m][j]
  BY <1>4, <1>5, Zenon
<1>7. QED
  BY <1>3, <1>6, Zenon DEF m

\* What is left of a layout after its first k kinds.
LEMMA LayoutLeft ==
    ASSUME NEW n \in Nat, NEW l \in Seq(Kinds), Len(l) = n, NEW k \in 0..n,
           NEW t, t = SubSeq(l, k + 1, Len(l)), t # <<>>
    PROVE  /\ k \in Nat /\ k + 1 \in 1..n
           /\ Head(t) = l[k + 1]
           /\ Tail(t) = SubSeq(l, k + 2, Len(l))
           /\ Len(Tail(t)) = Len(t) - 1
<1>1. k \in Nat /\ k + 1 \in 1..n
  OBVIOUS
<1>2. t \in Seq(Kinds) /\ Len(t) = n - k /\ \A i \in 1..n - k : t[i] = l[k + i]
  OBVIOUS
<1>3. Head(t) = l[k + 1]
  BY <1>1, <1>2
<1> DEFINE u == SubSeq(l, k + 2, Len(l))
<1>4. u \in Seq(Kinds) /\ Len(u) = n - (k + 1)
      /\ \A i \in 1..n - (k + 1) : u[i] = l[k + 1 + i]
  BY <1>1
<1>5. /\ Tail(t) \in Seq(Kinds) /\ Len(Tail(t)) = n - k - 1
      /\ \A i \in 1..n - k - 1 : Tail(t)[i] = t[i + 1]
  BY <1>1, <1>2
<1> HIDE DEF u
<1>6. \A i \in 1..Len(u) : Tail(t)[i] = u[i]
  <2> TAKE i \in 1..Len(u)
  <2>1. i \in 1..n - (k + 1) /\ i \in 1..n - k - 1 /\ i + 1 \in 1..n - k
        /\ k + (i + 1) = k + 1 + i
    BY <1>1, <1>4
  <2>2. u[i] = l[k + 1 + i] /\ Tail(t)[i] = t[i + 1] /\ t[i + 1] = l[k + (i + 1)]
    BY <1>2, <1>4, <1>5, <2>1, Zenon
  <2>3. QED
    BY <2>1, <2>2
<1>7. Len(Tail(t)) = Len(u) /\ Len(Tail(t)) = Len(t) - 1
  BY <1>1, <1>2, <1>4, <1>5
<1>8. Tail(t) = u
  BY <1>4, <1>5, <1>6, <1>7, SeqEqual
<1>9. QED
  BY <1>1, <1>3, <1>7, <1>8 DEF u

\* The next field, and its place in the bytes stored.
LEMMA AtNext ==
    ASSUME DecodeInvariant, outcome = "reading", todo # <<>>
    PROVE  LET k == Len(got)  f == fields[k + 1]
           IN  /\ k \in Nat /\ k + 1 \in 1..Len(fields)
               /\ Head(todo) = Layout(path)[k + 1] /\ f.kind = Head(todo)
               /\ Tail(todo) = SubSeq(Layout(path), k + 2, Len(Layout(path)))
               /\ Len(Tail(todo)) = Len(todo) - 1
               /\ Writable(f) /\ Encoded(f) \in Seq(Nat) /\ Len(Encoded(f)) > 0
               /\ at \in Nat
               /\ \E start : /\ Lies(start, Parts, Len(fields), Bytes(fields))
                             /\ at = start[k] /\ start[k + 1] = at + Len(Encoded(f))
                             /\ start[k + 1] <= Len(Bytes(fields))
                             /\ \A j \in 1..Len(Encoded(f)) :
                                   Bytes(fields)[at + j] = Encoded(f)[j]
<1> DEFINE k == Len(got)
           n == Len(fields)
           l == Layout(path)
           f == fields[k + 1]
<1>1. AsStored /\ FieldsRead /\ Cursor
  BY DEF DecodeInvariant, AtField
<1>2. /\ n \in Nat \ {0} /\ Len(l) = n /\ l \in Seq(Kinds)
      /\ \A i \in 1..n : Writable(fields[i]) /\ fields[i].kind = l[i]
  BY <1>1, LaidOut, Zenon
<1>3. k \in 0..n /\ todo = SubSeq(l, k + 1, Len(l))
  BY <1>1, <1>2 DEF FieldsRead
<1> HIDE DEF k, n, l
<1>4. n \in Nat
  BY <1>2
<1>5. /\ k \in Nat /\ k + 1 \in 1..n
      /\ Head(todo) = l[k + 1]
      /\ Tail(todo) = SubSeq(l, k + 2, Len(l))
      /\ Len(Tail(todo)) = Len(todo) - 1
  <2>1. l \in Seq(Kinds) /\ Len(l) = n
    BY <1>2
  <2>2. \A t : t = SubSeq(l, k + 1, Len(l)) /\ t # <<>> =>
           /\ k \in Nat /\ k + 1 \in 1..n
           /\ Head(t) = l[k + 1]
           /\ Tail(t) = SubSeq(l, k + 2, Len(l))
           /\ Len(Tail(t)) = Len(t) - 1
    BY <1>3, <1>4, <2>1, LayoutLeft
  <2>3. QED
    BY <1>3, <2>2
<1>6. Writable(f) /\ f.kind = l[k + 1]
  BY <1>2, <1>5
<1>7. Encoded(f) \in Seq(Nat) /\ Len(Encoded(f)) > 0
  BY <1>6, WrittenIsRead
<1>8. PICK start : Lies(start, Parts, n, Bytes(fields)) /\ at = start[k]
  BY <1>1 DEF Cursor, k, n
<1>9. Parts[k + 1] = Encoded(f)
  BY <1>1, <1>5, PartsAre DEF n
<1>10. /\ start[k + 1] = at + Len(Encoded(f))
       /\ start[k + 1] <= Len(Bytes(fields))
       /\ \A j \in 1..Len(Encoded(f)) : Bytes(fields)[at + j] = Encoded(f)[j]
  <2> DEFINE b == Bytes(fields)
             p == Parts
  <2>1. Lies(start, p, n, b) /\ at = start[k] /\ p[k + 1] = Encoded(f)
    BY <1>8, <1>9
  <2> HIDE DEF b, p, f
  <2>2. \A x \in Nat : x + 1 \in 1..n =>
           /\ start[x + 1] = start[x] + Len(p[x + 1])
           /\ start[x + 1] <= Len(b)
           /\ \A y \in 1..Len(p[x + 1]) : b[start[x] + y] = p[x + 1][y]
    BY <1>4, <2>1, LiesAt
  <2>3. /\ start[k + 1] = start[k] + Len(p[k + 1])
        /\ start[k + 1] <= Len(b)
        /\ \A y \in 1..Len(p[k + 1]) : b[start[k] + y] = p[k + 1][y]
    BY <1>5, <2>2, Zenon
  <2>4. QED
    BY <2>1, <2>3, Zenon DEF b
<1>11. at \in Nat
  BY <1>3, <1>8 DEF Lies
<1>12. QED
  BY <1>4, <1>5, <1>6, <1>7, <1>8, <1>10, <1>11, Zenon DEF k, n, l

\* If it is not cut short, the method for its kind reads it.
LEMMA NextIsRead ==
    ASSUME DecodeInvariant, outcome = "reading", todo # <<>>, ~Cut
    PROVE  LET f == fields[Len(got) + 1]
           IN  Reads(f) /\ ~(Len(Encoded(f)) > Remaining)
<1> DEFINE k == Len(got)
           n == Len(fields)
           f == fields[k + 1]
           e == Encoded(f)
           b == Bytes(fields)
           c == Contents
<1>1. /\ k \in Nat /\ k + 1 \in 1..n /\ Writable(f)
      /\ e \in Seq(Nat) /\ Len(e) > 0 /\ at \in Nat
  BY AtNext
<1>2. AsStored /\ buf = Contents
  BY DEF DecodeInvariant, AtField
<1>3. PICK start : /\ Lies(start, Parts, n, b)
                   /\ at = start[k] /\ start[k + 1] = at + Len(e)
                   /\ start[k + 1] <= Len(b)
                   /\ \A j \in 1..Len(e) : b[at + j] = e[j]
  BY AtNext
<1>4. b \in Seq(Nat) /\ Len(b) \in Nat /\ n \in Nat \ {0}
  BY <1>2, Placed, LaidOut, Zenon
<1>5. /\ c \in Seq(Nat) /\ Len(c) \in Nat
      /\ damage = "none" => c = b
      /\ damage # "none" /\ damage[1] = "short" => Len(c) = Len(b) - 1
      /\ damage # "none" /\ damage[1] # "short" => Len(c) = Len(b) + 1
      /\ \A j \in 1..Len(b) : j <= Len(c) => c[j] = b[j]
  BY <1>2, ContentsAre
<1>6. damage # "none" /\ damage[1] = "short" => k + 1 < n
  <2>1. ~(damage # "none" /\ damage[1] = "short" /\ k + 1 = n)
    BY DEF Cut
  <2> HIDE DEF k, n
  <2>2. QED
    BY <1>1, <1>4, <2>1
<1>7. k + 1 < n => start[k + 1] < Len(b)
  <2>1. \A i \in 1..n : Len(Parts[i]) \in Nat /\ Len(Parts[i]) > 0
    <3>1. \A i \in 1..n : Parts[i] \in Seq(Nat) /\ Len(Parts[i]) > 0
      BY <1>2, PartsAre
    <3> HIDE DEF n
    <3>2. QED
      BY <3>1
  <2> HIDE DEF k, n, b
  <2> SUFFICES ASSUME k + 1 < n PROVE start[k + 1] < Len(b)
    OBVIOUS
  <2> DEFINE i == k + 1
  <2>2. i \in Nat /\ i + 1 \in 1..n /\ i + 1 = k + 2 /\ n \in Nat
    BY <1>1, <1>4
  <2> HIDE DEF i
  <2>3. start[i + 1] = start[i] + Len(Parts[i + 1]) /\ start[i + 1] <= Len(b)
        /\ start[i] \in Nat
    BY <1>3, <2>2, LiesAt
  <2>4. Len(Parts[i + 1]) \in Nat /\ Len(Parts[i + 1]) > 0
    BY <2>1, <2>2
  <2>5. start[i] < Len(b)
    BY <1>4, <2>3, <2>4
  <2>6. QED
    BY <2>5 DEF i
<1> HIDE DEF k, n, f, e, b, c
<1>8. at + Len(e) <= Len(c) /\ at + Len(e) <= Len(b) /\ Len(e) \in Nat
  <2>1. Len(e) \in Nat /\ Len(b) \in Nat /\ at \in Nat /\ at + Len(e) <= Len(b)
        /\ start[k + 1] = at + Len(e)
    BY <1>1, <1>3, <1>4
  <2>2. CASE damage = "none"
    BY <1>5, <2>1, <2>2, Zenon
  <2>3. CASE damage # "none" /\ damage[1] = "short"
    <3>1. start[k + 1] < Len(b) /\ Len(c) = Len(b) - 1
      BY <1>5, <1>6, <1>7, <2>3, Zenon
    <3>2. QED
      BY <2>1, <3>1
  <2>4. CASE damage # "none" /\ damage[1] # "short"
    <3>1. Len(c) = Len(b) + 1
      BY <1>5, <2>4, Zenon
    <3>2. QED
      BY <2>1, <3>1
  <2>5. QED
    BY <2>2, <2>3, <2>4, Zenon
<1>9. Holds(c, at, e)
  <2>1. ASSUME NEW j \in 1..Len(e) PROVE c[at + j] = e[j]
    <3>1. at + j \in 1..Len(b) /\ at + j <= Len(c)
      <4>1. j \in Nat /\ j > 0 /\ j <= Len(e) /\ Len(e) \in Nat
        BY <1>8
      <4>2. at \in Nat /\ Len(b) \in Nat /\ Len(c) \in Nat
        BY <1>1, <1>4, <1>5
      <4>3. QED
        BY <1>8, <4>1, <4>2
    <3>2. QED
      BY <1>3, <1>5, <3>1, Zenon
  <2>2. QED
    BY <1>1, <1>5, <1>8, <2>1, Zenon DEF Holds
<1>10. Reads(f)
  BY <1>1, <1>2, <1>9, WrittenIsRead, Zenon DEF e, c
<1>11. ~(Len(e) > Remaining)
  BY <1>1, <1>2, <1>5, <1>8 DEF Remaining, c
<1>12. QED
  BY <1>10, <1>11 DEF k, f, e

\* If it is cut short, one byte is missing.
LEMMA CutIsShort ==
    ASSUME DecodeInvariant, outcome = "reading", todo # <<>>, Cut
    PROVE  Remaining = Len(Encoded(fields[Len(got) + 1])) - 1
<1> DEFINE k == Len(got)
           n == Len(fields)
           e == Encoded(fields[k + 1])
           b == Bytes(fields)
<1>1. k \in Nat /\ k + 1 \in 1..n /\ e \in Seq(Nat) /\ at \in Nat
  BY AtNext
<1>2. AsStored /\ buf = Contents
  BY DEF DecodeInvariant, AtField
<1>3. PICK start : Lies(start, Parts, n, b) /\ start[k + 1] = at + Len(e)
  BY AtNext
<1>4. b \in Seq(Nat) /\ Len(b) \in Nat
  BY <1>2, Placed
<1>5. Len(buf) = Len(b) - 1
  BY <1>2, ContentsAre DEF Cut
<1>6. k + 1 = n
  BY DEF Cut
<1>7. start[n] = Len(b)
  BY <1>3 DEF Lies
<1> HIDE DEF k, n, e, b
<1>8. Len(e) \in Nat
  BY <1>1
<1>9. Len(b) = at + Len(e)
  BY <1>3, <1>6, <1>7
<1>10. Remaining = Len(e) - 1
  BY <1>1, <1>4, <1>5, <1>8, <1>9 DEF Remaining
<1>11. QED
  BY <1>10 DEF k, e

\* An error that damage or an unknown status explains.
LEMMA ErrorIsExplained ==
    ASSUME DecodeInvariant, Throw, damage # "none" \/ Unknown
    PROVE  DecodeInvariant'
<1>1. outcome' = "error" /\ UNCHANGED <<path, fields, damage, raw, buf, at, todo, got>>
  BY DEF Throw
<1>2. AsStored' /\ Unknown' = Unknown
  <2>1. Kept
    BY <1>1 DEF Kept
  <2>2. QED
    BY <2>1, StaysStored DEF DecodeInvariant
<1>3. StoredTypeOK'
  BY <1>1 DEF StoredTypeOK, DecodeInvariant
<1>4. FieldsRead' /\ AtField' /\ AtEnd'
  BY <1>1, <1>2 DEF FieldsRead, AtField, AtEnd, DecodeInvariant
<1>5. QED
  BY <1>2, <1>3, <1>4 DEF DecodeInvariant

\* One field more in the values read.
LEMMA OneMore ==
    ASSUME NEW n \in Nat, NEW k \in Nat, k + 1 \in 1..n, NEW values, NEW s,
           s = [i \in 1..k |-> values[i]]
    PROVE  /\ Append(s, values[k + 1]) = [i \in 1..k + 1 |-> values[i]]
           /\ Len(Append(s, values[k + 1])) = k + 1
<1> DEFINE V == {values[i] : i \in 1..n}
           v == values[k + 1]
<1>1. s \in Seq(V) /\ Len(s) = k
  <2>1. \A i \in 1..k : values[i] \in V
    OBVIOUS
  <2> HIDE DEF V
  <2>2. s \in [1..k -> V]
    BY <2>1
  <2>3. QED
    BY <2>2
<1>2. v \in V
  OBVIOUS
<1> HIDE DEF V
<1>3. s[k + 1] = s[k + 1] /\ \A i \in 1..k : s[i] = values[i]
  OBVIOUS
<1> DEFINE t == Append(s, v)
<1>4. t \in Seq(V) /\ Len(t) = k + 1 /\ t[k + 1] = v /\ \A i \in 1..k : t[i] = s[i]
  BY <1>1, <1>2
<1> HIDE DEF t
<1>5. t = [i \in 1..k + 1 |-> t[i]]
  BY <1>4
<1>6. \A i \in 1..k + 1 : t[i] = values[i]
  <2> TAKE i \in 1..k + 1
  <2>1. CASE i = k + 1
    BY <1>4, <2>1
  <2>2. CASE i \in 1..k
    BY <1>3, <1>4, <2>2
  <2>3. QED
    BY <2>1, <2>2
<1>7. t = [i \in 1..k + 1 |-> values[i]]
  BY <1>5, <1>6
<1>8. QED
  BY <1>4, <1>7 DEF t

\* A field read as it was written.
LEMMA Advances ==
    ASSUME DecodeInvariant, outcome = "reading", todo # <<>>, ~Cut,
           ~(Unknown /\ Len(got) + 1 = 6),
           at' = at + Len(Encoded(fields[Len(got) + 1])),
           got' = Append(got, fields[Len(got) + 1].value),
           todo' = Tail(todo),
           UNCHANGED <<path, fields, damage, raw, buf, outcome>>
    PROVE  DecodeInvariant'
<1> DEFINE k == Len(got)
           n == Len(fields)
           f == fields[k + 1]
           e == Encoded(f)
<1>1. /\ k \in Nat /\ k + 1 \in 1..n
      /\ Tail(todo) = SubSeq(Layout(path), k + 2, Len(Layout(path)))
      /\ Len(Tail(todo)) = Len(todo) - 1
      /\ e \in Seq(Nat) /\ at \in Nat
  BY AtNext, Zenon
<1>2. AsStored /\ FieldsRead /\ AtField /\ StoredTypeOK
  BY DEF DecodeInvariant
<1>3. Kept
  BY DEF Kept
<1>4. n \in Nat
  BY <1>2, LaidOut, Zenon
<1>5. got' = [i \in 1..k + 1 |-> fields[i].value] /\ Len(got') = k + 1
  <2> DEFINE values == [i \in 1..n |-> fields[i].value]
  <2>1. got = [i \in 1..k |-> fields[i].value] /\ k <= n
    BY <1>2, <1>4 DEF FieldsRead
  <2>2. \A i \in 1..n : values[i] = fields[i].value
    OBVIOUS
  <2>3. got' = Append(got, values[k + 1])
    BY <1>1, <2>2
  <2> HIDE DEF values, n, k
  <2>4. got = [i \in 1..k |-> values[i]]
    BY <1>1, <1>4, <2>1, <2>2
  <2>5. got' = [i \in 1..k + 1 |-> values[i]] /\ Len(got') = k + 1
    BY <1>1, <1>4, <2>3, <2>4, OneMore
  <2>6. [i \in 1..k + 1 |-> values[i]] = [i \in 1..k + 1 |-> fields[i].value]
    BY <1>1, <1>4, <2>2
  <2>7. QED
    BY <2>5, <2>6
<1>6. AsStored' /\ Contents' = Contents /\ Unknown' = Unknown
  BY <1>2, <1>3, StaysStored
<1>7. ~(Len(e) > Remaining) /\ Len(e) \in Nat
  BY <1>1, NextIsRead
<1>8. StoredTypeOK'
  <2>1. Contents \in Seq(Nat) /\ Len(Contents) \in Nat /\ buf = Contents
    BY <1>2, ContentsAre DEF AtField
  <2>2. at' \in 0..Len(buf')
    BY <1>1, <1>7, <2>1 DEF Remaining
  <2>3. Len(got') + Len(todo') = Len(Layout(path)')
    <3>1. Len(got) + Len(todo) = Len(Layout(path)) /\ todo' = Tail(todo)
      BY <1>2 DEF StoredTypeOK
    <3>2. Layout(path)' = Layout(path)
      OBVIOUS
    <3>3. Len(todo) \in Nat
      <4>1. Len(Layout(path)) = n /\ Layout(path) \in Seq(Kinds)
        BY <1>2, LaidOut, Zenon
      <4>2. todo = SubSeq(Layout(path), k + 1, Len(Layout(path)))
        BY <1>2 DEF FieldsRead
      <4> HIDE DEF k, n
      <4>3. \A l \in Seq(Kinds), a \in Nat, z \in Nat : Len(SubSeq(l, a, z)) \in Nat
        OBVIOUS
      <4>4. k + 1 \in Nat
        BY <1>1
      <4>5. QED
        BY <1>4, <4>1, <4>2, <4>3, <4>4, Zenon
    <3> HIDE DEF k
    <3>4. k = Len(got)
      BY DEF k
    <3>5. QED
      BY <1>1, <1>5, <3>1, <3>2, <3>3, <3>4
  <2>4. QED
    BY <2>2, <2>3 DEF StoredTypeOK
<1>9. FieldsRead'
  <2>1. Len(got') \in 0..Len(fields')
    BY <1>1, <1>4, <1>5
  <2>2. got' = [i \in 1..Len(got') |-> fields'[i].value]
    BY <1>5
  <2>3. Len(got') + 1 = k + 2
    BY <1>1, <1>5
  <2>4. todo' = SubSeq(Layout(path'), Len(got') + 1, Len(Layout(path')))
    BY <1>1, <2>3
  <2>5. QED
    BY <2>1, <2>2, <2>4 DEF FieldsRead
<1>10. Cursor'
  <2>1. PICK start : /\ Lies(start, Parts, n, Bytes(fields))
                     /\ at = start[k] /\ start[k + 1] = at + Len(e)
    BY AtNext
  <2>2. Lies(start, Parts, Len(fields), Bytes(fields))'
    BY <1>3, <2>1, StaysStored
  <2>3. at' = start[Len(got')]
    BY <1>5, <2>1
  <2>4. QED
    BY <2>2, <2>3 DEF Cursor
<1>11. AtField'
  <2>1. damage' = "none" \/ damage'[2] = "inside"
    BY <1>2 DEF AtField
  <2>2. buf' = Contents'
    BY <1>2, <1>6 DEF AtField
  <2>3. damage' # "none" /\ damage'[1] = "short" => Len(got') < Len(fields')
    <3>1. damage # "none" /\ damage[1] = "short" => k + 1 # n
      BY DEF Cut
    <3> HIDE DEF k, n
    <3>2. Len(fields') = n
      BY DEF n
    <3>3. QED
      BY <1>1, <1>4, <1>5, <3>1, <3>2
  <2>4. Unknown' => Len(got') < 6
    <3>1. Unknown => k < 6 /\ k + 1 # 6
      BY <1>2 DEF AtField
    <3> HIDE DEF k
    <3>2. QED
      BY <1>1, <1>5, <1>6, <3>1
  <2>5. QED
    BY <1>10, <2>1, <2>2, <2>3, <2>4 DEF AtField
<1>12. AtEnd'
  BY DEF AtEnd
<1>13. QED
  BY <1>6, <1>8, <1>9, <1>11, <1>12 DEF DecodeInvariant

\* Only the last field may be cut short or a status.
LEMMA NotLast ==
    ASSUME DecodeInvariant, outcome = "reading", todo # <<>>
    PROVE  /\ Head(todo) \notin {"u8", "u32"} => ~Cut /\ ~(Unknown /\ Len(got) + 1 = 6)
           /\ Head(todo) = "u32" => ~Unknown
           /\ Head(todo) = "u8" => path = << 3 >> /\ Len(got) + 1 = 6
<1> DEFINE k == Len(got)
           n == Len(fields)
           l == Layout(path)
<1>1. k \in Nat /\ k + 1 \in 1..n /\ Head(todo) = l[k + 1]
  BY AtNext
<1>2. /\ \A i \in 1..n : l[i] = "u8" => path = << 3 >> /\ i = 6
      /\ \A i \in 1..n : l[i] = "u32" => path # << 3 >>
      /\ l[n] \in {"u8", "u32"}
      /\ path = << 3 >> => n = 6
  BY LaidOut, Zenon DEF DecodeInvariant
<1>3. Head(todo) \notin {"u8", "u32"} => k + 1 # n
  BY <1>1, <1>2
<1>4. Head(todo) \notin {"u8", "u32"} => ~(path = << 3 >> /\ k + 1 = 6)
  BY <1>2, <1>3
<1>5. QED
  BY <1>1, <1>2, <1>3, <1>4 DEF Cut, Unknown

\* A rate or a date.
LEMMA u64leDecodes ==
    ASSUME DecodeInvariant, u64le
    PROVE  DecodeInvariant'
<1> DEFINE f == fields[Len(got) + 1]
<1>1. /\ outcome = "reading" /\ todo # <<>> /\ Head(todo) = "u64"
      /\ IF Long > Remaining
         THEN Throw
         ELSE /\ at' = at + (Long)
              /\ got' = Append(got, Number(Peek(0, Long)))
              /\ todo' = Tail(todo)
              /\ UNCHANGED <<path, fields, damage, raw, buf, outcome>>
  BY Zenon DEF u64le, Read
<1>2. f.kind = "u64"
  BY <1>1, AtNext
<1>3. ~Cut /\ ~(Unknown /\ Len(got) + 1 = 6)
  BY <1>1, NotLast
<1>4. Reads(f) /\ ~(Len(Encoded(f)) > Remaining)
  BY <1>1, <1>3, NextIsRead
<1>5. Len(Encoded(f)) = Long /\ Number(Peek(0, Long)) = f.value
  BY <1>2, <1>4, Zenon DEF Reads
<1> HIDE DEF f
<1>6. /\ at' = at + Len(Encoded(f)) /\ got' = Append(got, f.value) /\ todo' = Tail(todo)
      /\ UNCHANGED <<path, fields, damage, raw, buf, outcome>>
  BY <1>1, <1>4, <1>5, Zenon
<1>7. QED
  BY <1>1, <1>3, <1>6, Advances, Zenon DEF f

\* An amount.
LEMMA u512Decodes ==
    ASSUME DecodeInvariant, u512
    PROVE  DecodeInvariant'
<1> DEFINE f == fields[Len(got) + 1]
<1>1. /\ outcome = "reading" /\ todo # <<>> /\ Head(todo) = "u512"
      /\ IF 1 + Prefix(1) > Remaining
         THEN Throw
         ELSE /\ at' = at + (1 + Prefix(1))
              /\ got' = Append(got, Number(Peek(1, Prefix(1))))
              /\ todo' = Tail(todo)
              /\ UNCHANGED <<path, fields, damage, raw, buf, outcome>>
  BY Zenon DEF u512, Read
<1>2. f.kind = "u512"
  BY <1>1, AtNext
<1>3. ~Cut /\ ~(Unknown /\ Len(got) + 1 = 6)
  BY <1>1, NotLast
<1>4. Reads(f) /\ ~(Len(Encoded(f)) > Remaining)
  BY <1>1, <1>3, NextIsRead
<1>5. Len(Encoded(f)) = 1 + Prefix(1) /\ Number(Peek(1, Prefix(1))) = f.value
  BY <1>2, <1>4, Zenon DEF Reads
<1> HIDE DEF f
<1>6. /\ at' = at + Len(Encoded(f)) /\ got' = Append(got, f.value) /\ todo' = Tail(todo)
      /\ UNCHANGED <<path, fields, damage, raw, buf, outcome>>
  BY <1>1, <1>4, <1>5, Zenon
<1>7. QED
  BY <1>1, <1>3, <1>6, Advances, Zenon DEF f

\* A hash of the invoice.
LEMMA stringDecodes ==
    ASSUME DecodeInvariant, string
    PROVE  DecodeInvariant'
<1> DEFINE f == fields[Len(got) + 1]
<1>1. /\ outcome = "reading" /\ todo # <<>> /\ Head(todo) = "string"
      /\ IF Word + Prefix(Word) > Remaining
         THEN Throw
         ELSE /\ at' = at + (Word + Prefix(Word))
              /\ got' = Append(got, Peek(Word, Prefix(Word)))
              /\ todo' = Tail(todo)
              /\ UNCHANGED <<path, fields, damage, raw, buf, outcome>>
  BY Zenon DEF string, Read
<1>2. f.kind = "string"
  BY <1>1, AtNext
<1>3. ~Cut /\ ~(Unknown /\ Len(got) + 1 = 6)
  BY <1>1, NotLast
<1>4. Reads(f) /\ ~(Len(Encoded(f)) > Remaining)
  BY <1>1, <1>3, NextIsRead
<1>5. Len(Encoded(f)) = Word + Prefix(Word) /\ Peek(Word, Prefix(Word)) = f.value
  BY <1>2, <1>4, Zenon DEF Reads
<1> HIDE DEF f
<1>6. /\ at' = at + Len(Encoded(f)) /\ got' = Append(got, f.value) /\ todo' = Tail(todo)
      /\ UNCHANGED <<path, fields, damage, raw, buf, outcome>>
  BY <1>1, <1>4, <1>5, Zenon
<1>7. QED
  BY <1>1, <1>3, <1>6, Advances, Zenon DEF f

\* An account.
LEMMA addressDecodes ==
    ASSUME DecodeInvariant, address
    PROVE  DecodeInvariant'
<1> DEFINE f == fields[Len(got) + 1]
<1>1. /\ outcome = "reading" /\ todo # <<>> /\ Head(todo) = "key"
      /\ IF 2 > Remaining
         THEN Throw
         ELSE /\ at' = at + (2)
              /\ got' = Append(got, Peek(1, 1)[1])
              /\ todo' = Tail(todo)
              /\ UNCHANGED <<path, fields, damage, raw, buf, outcome>>
  BY Zenon DEF address, Read
<1>2. f.kind = "key"
  BY <1>1, AtNext
<1>3. ~Cut /\ ~(Unknown /\ Len(got) + 1 = 6)
  BY <1>1, NotLast
<1>4. Reads(f) /\ ~(Len(Encoded(f)) > Remaining)
  BY <1>1, <1>3, NextIsRead
<1>5. Len(Encoded(f)) = 2 /\ Peek(1, 1)[1] = f.value
  BY <1>2, <1>4, Zenon DEF Reads
<1> HIDE DEF f
<1>6. /\ at' = at + Len(Encoded(f)) /\ got' = Append(got, f.value) /\ todo' = Tail(todo)
      /\ UNCHANGED <<path, fields, damage, raw, buf, outcome>>
  BY <1>1, <1>4, <1>5, Zenon
<1>7. QED
  BY <1>1, <1>3, <1>6, Advances, Zenon DEF f

\* An account that may be missing.
LEMMA optionDecodes ==
    ASSUME DecodeInvariant, option
    PROVE  DecodeInvariant'
<1> DEFINE f == fields[Len(got) + 1]
           w == IF Prefix(1) = 0 THEN 1 ELSE 3
           v == IF Prefix(1) = 0 THEN <<>> ELSE Peek(2, 1)
<1>1. Read("option", w, v)
  BY Zenon DEF option
<1>2. /\ outcome = "reading" /\ todo # <<>> /\ Head(todo) = "option"
      /\ IF w > Remaining
         THEN Throw
         ELSE /\ at' = at + w
              /\ got' = Append(got, v)
              /\ todo' = Tail(todo)
              /\ UNCHANGED <<path, fields, damage, raw, buf, outcome>>
  BY <1>1, Zenon DEF Read
<1>3. f.kind = "option"
  BY <1>2, AtNext
<1>4. ~Cut /\ ~(Unknown /\ Len(got) + 1 = 6)
  BY <1>2, NotLast
<1>5. Reads(f) /\ ~(Len(Encoded(f)) > Remaining)
  BY <1>2, <1>4, NextIsRead
<1>6. Len(Encoded(f)) = w /\ v = f.value
  BY <1>3, <1>5, Zenon DEF Reads
<1> HIDE DEF f, w, v
<1>7. /\ at' = at + Len(Encoded(f)) /\ got' = Append(got, f.value) /\ todo' = Tail(todo)
      /\ UNCHANGED <<path, fields, damage, raw, buf, outcome>>
  BY <1>2, <1>5, <1>6, Zenon
<1>8. QED
  BY <1>2, <1>4, <1>7, Advances, Zenon DEF f

\* The last field of a bond, which may be one byte short.
LEMMA u32leDecodes ==
    ASSUME DecodeInvariant, u32le
    PROVE  DecodeInvariant'
<1> DEFINE f == fields[Len(got) + 1]
<1>1. /\ outcome = "reading" /\ todo # <<>> /\ Head(todo) = "u32"
      /\ IF Word > Remaining
         THEN Throw
         ELSE /\ at' = at + Word
              /\ got' = Append(got, Number(Peek(0, Word)))
              /\ todo' = Tail(todo)
              /\ UNCHANGED <<path, fields, damage, raw, buf, outcome>>
  BY Zenon DEF u32le, Read
<1>2. f.kind = "u32" /\ Writable(f)
  BY <1>1, AtNext
<1>3. ~Unknown
  BY <1>1, NotLast
<1>4. CASE Cut
  <2>1. Remaining = Len(Encoded(f)) - 1
    BY <1>1, <1>4, CutIsShort
  <2>2. Len(Encoded(f)) = Word
    <3>1. f.value \in Nat /\ Fits(f.value, Word)
      BY <1>2, Zenon DEF Writable
    <3>2. Encoded(f) = Digits(f.value, Word)
      BY <1>2, EncodedKinds
    <3>3. Word \in Nat
      OBVIOUS
    <3>4. QED
      BY <3>1, <3>2, <3>3, NumberIsBack, Zenon
  <2>3. Word > Remaining
    BY <2>1, <2>2
  <2>4. Throw
    BY <1>1, <2>3, Zenon
  <2>5. damage # "none"
    BY <1>4 DEF Cut
  <2>6. QED
    BY <2>4, <2>5, ErrorIsExplained
<1>5. CASE ~Cut
  <2>1. Reads(f) /\ ~(Len(Encoded(f)) > Remaining)
    BY <1>1, <1>5, NextIsRead
  <2>2. Len(Encoded(f)) = Word /\ Number(Peek(0, Word)) = f.value
    BY <1>2, <2>1, Zenon DEF Reads
  <2> HIDE DEF f
  <2>3. /\ at' = at + Len(Encoded(f)) /\ got' = Append(got, f.value) /\ todo' = Tail(todo)
        /\ UNCHANGED <<path, fields, damage, raw, buf, outcome>>
    BY <1>1, <2>1, <2>2, Zenon
  <2>4. QED
    BY <1>1, <1>3, <1>5, <2>3, Advances, Zenon DEF f
<1>6. QED
  BY <1>4, <1>5, Zenon

\* The status of a note, which may be missing or unknown.
LEMMA u8Decodes ==
    ASSUME DecodeInvariant, u8
    PROVE  DecodeInvariant'
<1> DEFINE f == fields[Len(got) + 1]
<1>1. outcome = "reading" /\ todo # <<>> /\ Head(todo) = "u8"
  BY Zenon DEF u8, Read
<1>2. f.kind = "u8" /\ path = << 3 >> /\ Len(got) + 1 = 6 /\ f = fields[6]
  BY <1>1, AtNext, NotLast
<1>3. CASE Cut
  <2>1. Remaining = Len(Encoded(f)) - 1
    BY <1>1, <1>3, CutIsShort
  <2>2. Encoded(f) = <<f.value>>
    BY <1>2, EncodedKinds
  <2>3. Remaining = 0
    BY <2>1, <2>2
  <2>4. Throw
    <3>1. ~(Remaining > 0) /\ 1 > Remaining
      BY <2>3
    <3>2. QED
      BY <3>1, Zenon DEF u8, Read
  <2>5. damage # "none"
    BY <1>3 DEF Cut
  <2>6. QED
    BY <2>4, <2>5, ErrorIsExplained
<1>4. CASE ~Cut
  <2>1. Reads(f) /\ ~(Len(Encoded(f)) > Remaining)
    BY <1>1, <1>4, NextIsRead
  <2>2. Len(Encoded(f)) = 1 /\ Remaining > 0 /\ Peek(0, 1)[1] = f.value
    BY <1>2, <2>1, Zenon DEF Reads
  <2>3. CASE f.value > 3
    <3>1. Throw
      BY <2>2, <2>3, Zenon DEF u8
    <3>2. Unknown
      BY <1>2, <2>3, Zenon DEF Unknown
    <3>3. QED
      BY <3>1, <3>2, ErrorIsExplained
  <2>4. CASE ~(f.value > 3)
    <3>1. ~Unknown
      BY <1>2, <2>4, Zenon DEF Unknown
    <3>2. Read("u8", 1, f.value)
      BY <2>2, <2>4, Zenon DEF u8
    <3>3. /\ at' = at + Len(Encoded(f)) /\ got' = Append(got, f.value) /\ todo' = Tail(todo)
          /\ UNCHANGED <<path, fields, damage, raw, buf, outcome>>
      BY <2>1, <2>2, <3>2, Zenon DEF Read
    <3>4. QED
      BY <1>1, <1>4, <3>1, <3>3, Advances, Zenon
  <2>5. QED
    BY <2>3, <2>4, Zenon
<1>5. QED
  BY <1>3, <1>4, Zenon

\* The end: no byte may be left.
LEMMA assertFullyConsumedDecodes ==
    ASSUME DecodeInvariant, assertFullyConsumed
    PROVE  DecodeInvariant'
<1> DEFINE n == Len(fields)
           b == Bytes(fields)
<1>1. /\ outcome = "reading" /\ todo = <<>>
      /\ outcome' = IF Remaining = 0 THEN "done" ELSE "error"
      /\ UNCHANGED <<path, fields, damage, raw, buf, at, todo, got>>
  BY DEF assertFullyConsumed
<1>2. AsStored /\ FieldsRead /\ StoredTypeOK /\ buf = Contents /\ Cursor
      /\ (damage # "none" /\ damage[1] = "short" => Len(got) < n)
      /\ (Unknown => Len(got) < 6)
  BY <1>1 DEF DecodeInvariant, AtField
<1>3. /\ n \in Nat \ {0} /\ Len(Layout(path)) = n
      /\ path = << 3 >> => n = 6
  BY <1>2, LaidOut, Zenon
<1>4. Len(got) = n
  <2>1. Len(todo) = 0 /\ Len(got) \in 0..n /\ Len(got) + Len(todo) = n
    BY <1>1, <1>2, <1>3 DEF StoredTypeOK, FieldsRead
  <2> HIDE DEF n
  <2>2. QED
    BY <1>3, <2>1
<1>5. ~Unknown /\ ~(damage # "none" /\ damage[1] = "short")
  <2>1. Unknown => n = 6
    BY <1>3 DEF Unknown
  <2> HIDE DEF n
  <2>2. QED
    BY <1>2, <1>3, <1>4, <2>1
<1>6. at = Len(b) /\ Len(b) \in Nat
  <2>1. PICK start : Lies(start, Parts, n, b) /\ at = start[Len(got)]
    BY <1>2 DEF Cursor
  <2>2. start[n] = Len(b)
    BY <2>1 DEF Lies
  <2>3. Len(b) \in Nat
    BY <1>2, Placed
  <2>4. QED
    BY <1>4, <2>1, <2>2, <2>3, Zenon
<1>7. damage # "none" => Remaining # 0
  <2> SUFFICES ASSUME damage # "none" PROVE Remaining # 0
    OBVIOUS
  <2>1. Len(buf) = Len(b) + 1
    BY <1>2, <1>5, ContentsAre
  <2> HIDE DEF b
  <2>2. QED
    BY <1>6, <2>1 DEF Remaining
<1>8. damage = "none" => Remaining = 0
  <2> SUFFICES ASSUME damage = "none" PROVE Remaining = 0
    OBVIOUS
  <2>1. buf = b
    BY <1>2, ContentsAre
  <2> HIDE DEF b
  <2>2. QED
    BY <1>6, <2>1 DEF Remaining
<1>9. AsStored' /\ Unknown' = Unknown
  <2>1. Kept
    BY <1>1 DEF Kept
  <2>2. QED
    BY <1>2, <2>1, StaysStored
<1>10. StoredTypeOK'
  BY <1>1, <1>2 DEF StoredTypeOK
<1>11. FieldsRead' /\ AtField'
  BY <1>1, <1>2 DEF FieldsRead, AtField
<1>12. AtEnd'
  <2>1. CASE damage = "none"
    BY <1>1, <1>4, <1>5, <1>8, <1>9, <2>1 DEF AtEnd
  <2>2. CASE damage # "none"
    BY <1>1, <1>7, <2>2 DEF AtEnd
  <2>3. QED
    BY <2>1, <2>2
<1>13. QED
  BY <1>9, <1>10, <1>11, <1>12 DEF DecodeInvariant

\* It holds at first.
LEMMA DecodesAtFirst ==
    ASSUME ~Drifted, Init
    PROVE  DecodeInvariant
<1>1. AsStored
  BY Zenon DEF Init, AsStored
<1>2. buf = <<>> /\ at = 0 /\ todo = Layout(path) /\ got = <<>> /\ outcome = "raw"
  BY DEF Init
<1>3. Len(fields) \in Nat \ {0} /\ Layout(path) \in Seq(Kinds)
  BY <1>1, LaidOut, Zenon
<1> DEFINE l == Layout(path)
<1>4. l \in Seq(Kinds) /\ todo = l
  BY <1>2, <1>3
<1> HIDE DEF l
<1>5. todo = SubSeq(l, Len(got) + 1, Len(l)) /\ Len(got) + Len(todo) = Len(l)
  BY <1>2, <1>4
<1>6. StoredTypeOK
  BY <1>2, <1>5 DEF StoredTypeOK, l
<1>7. FieldsRead
  <2>1. Len(got) \in 0..Len(fields) /\ got = [i \in 1..Len(got) |-> fields[i].value]
    BY <1>2, <1>3
  <2>2. QED
    BY <1>5, <2>1 DEF FieldsRead, l
<1>8. AtField /\ AtEnd
  BY <1>2 DEF AtField, AtEnd
<1>9. QED
  BY <1>1, <1>6, <1>7, <1>8 DEF DecodeInvariant

\* And says what the reader promises.
LEMMA DecodesSays ==
    ASSUME DecodeInvariant
    PROVE  StoredInvariant
<1>1. StoredTypeOK /\ DamageIsLoud
  BY DEF DecodeInvariant, AtEnd, DamageIsLoud
<1>2. ASSUME damage = "none", outcome \in {"done", "error"}
      PROVE  IF path = << 3 >> /\ fields[6].value > 3
             THEN outcome = "error"
             ELSE outcome = "done" /\ got = [i \in DOMAIN fields |-> fields[i].value]
  <2>1. CASE Unknown
    BY <1>2, <2>1 DEF Unknown, DecodeInvariant, AtEnd
  <2>2. CASE ~Unknown
    <3>1. outcome = "done" /\ Len(got) = Len(fields)
      BY <1>2, <2>2 DEF DecodeInvariant, AtEnd
    <3>2. DOMAIN fields = 1..Len(fields)
      BY LaidOut, Zenon DEF DecodeInvariant
    <3>3. got = [i \in 1..Len(got) |-> fields[i].value]
      BY DEF DecodeInvariant, FieldsRead
    <3>4. got = [i \in DOMAIN fields |-> fields[i].value]
      BY <3>1, <3>2, <3>3, Zenon
    <3>5. QED
      BY <2>2, <3>1, <3>4 DEF Unknown
  <2>3. QED
    BY <2>1, <2>2
<1>3. QED
  BY <1>1, <1>2 DEF StoredInvariant, DecodesWhatIsStored

\* For every base, width and amount that fits: what the contract stored is what
\* the reader returns, or an error (clvalue.ts CLReader, escrow-reader.ts).
THEOREM StoredInvariantHolds ==
    ASSUME ~Drifted
    PROVE  Spec => []StoredInvariant
<1>1. Init => DecodeInvariant
  BY DecodesAtFirst
<1>2. DecodeInvariant /\ [Next]_storedVars => DecodeInvariant'
  <2> SUFFICES ASSUME DecodeInvariant, [Next]_storedVars PROVE DecodeInvariant'
    OBVIOUS
  <2>1. CASE innerBytes
    BY <2>1, innerBytesDecodes
  <2>2. CASE u8
    BY <2>2, u8Decodes
  <2>3. CASE u32le
    BY <2>3, u32leDecodes
  <2>4. CASE u64le
    BY <2>4, u64leDecodes
  <2>5. CASE u512
    BY <2>5, u512Decodes
  <2>6. CASE string
    BY <2>6, stringDecodes
  <2>7. CASE address
    BY <2>7, addressDecodes
  <2>8. CASE option
    BY <2>8, optionDecodes
  <2>9. CASE assertFullyConsumed
    BY <2>9, assertFullyConsumedDecodes
  <2>10. CASE UNCHANGED storedVars
    <3>1. /\ UNCHANGED <<path, fields, damage, raw>>
          /\ UNCHANGED <<buf, at, todo, got, outcome>>
      BY <2>10 DEF storedVars
    <3>2. AsStored' /\ Contents' = Contents /\ Unknown' = Unknown
      BY <3>1, StaysStored DEF Kept, DecodeInvariant
    <3>3. Cursor => Cursor'
      <4> SUFFICES ASSUME Cursor PROVE Cursor'
        OBVIOUS
      <4>1. PICK start : /\ Lies(start, Parts, Len(fields), Bytes(fields))
                         /\ at = start[Len(got)]
        BY DEF Cursor
      <4>2. Lies(start, Parts, Len(fields), Bytes(fields))' /\ at' = start[Len(got')]
        BY <3>1, <4>1, StaysStored DEF Kept
      <4>3. QED
        BY <4>2 DEF Cursor
    <3>4. StoredTypeOK'
      BY <3>1 DEF StoredTypeOK, DecodeInvariant
    <3>5. FieldsRead' /\ AtEnd'
      BY <3>1, <3>2 DEF FieldsRead, AtEnd, DecodeInvariant
    <3>6. AtField'
      BY <3>1, <3>2, <3>3 DEF AtField, DecodeInvariant
    <3>7. QED
      BY <3>2, <3>4, <3>5, <3>6 DEF DecodeInvariant
  <2>11. QED
    BY <2>1, <2>2, <2>3, <2>4, <2>5, <2>6, <2>7, <2>8, <2>9, <2>10, Zenon DEF Next
<1>3. DecodeInvariant => StoredInvariant
  BY DecodesSays
<1>4. QED
  BY <1>1, <1>2, <1>3, PTL DEF Spec
=============================================================================
