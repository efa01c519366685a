--------------------------- MODULE NodeCertProofs ---------------------------
(***************************************************************************)
(* At most four rejections fall into the first hour, for any set of callers *)
(* and requests, any delays the assumptions on the constants allow and any  *)
(* number of failures; and the redirect owns its listener and gives port    *)
(* 443 up, for any nodes, node infos, renewals and reloads.                 *)
(***************************************************************************)
EXTENDS NodeCert, TLAPS

\* A leaf is left to Zenon unless it names another prover.
USE ZenonT(60)

-----------------------------------------------------------------------------
(* The orders (CertOrder)                                                   *)

Entries == [rejections : 0 .. MaxFailed, locals : 0 .. MaxFailed, left : Nat]

OrderTypes ==
    /\ order \in [Jobs -> Ordering \cup {"idle"}]
    /\ cooldown \in [Keys -> Entries]
    /\ spent \in [Keys -> [count : Nat, since : Nat]]

\* The pauses that lie between the first of n rejections and the order after the last.
Paused(n) == CASE n = 0 -> 0
               [] n = 1 -> RejectionBase
               [] n = 2 -> 3 * RejectionBase
               [] n = 3 -> 7 * RejectionBase
               [] OTHER -> 15 * RejectionBase

\* The inductive invariant, per request.  An order under way has sat out every pause;
\* without one, what is not sat out yet is still left.  The entry has counted every
\* slot that was spent, so that the next pause is long enough.
Paced(k) ==
    /\ \A i, j \in Flying(k) : i = j
    /\ spent[k].count <= cooldown[k].rejections /\ spent[k].count <= 4
    /\ spent[k].since <= Hour =>
          Paused(spent[k].count) <= spent[k].since + (IF Flying(k) = {} THEN cooldown[k].left ELSE 0)

OrderInv == OrderTypes /\ \A k \in Keys : k \notin overlap => Paced(k)

-----------------------------------------------------------------------------
(* What a step does to the order of a job and to the entry of its request.   *)

Begins(j) ==
    /\ order[j] = "idle" /\ cooldown[KeyOf[j]].left = 0
    /\ order' = [order EXCEPT ![j] = "preflight"]
    /\ overlap' = overlap \union (IF Flying(KeyOf[j]) = {} THEN {} ELSE {KeyOf[j]})
    /\ UNCHANGED <<cooldown, spent>>

Advances(j) ==
    /\ order[j] \in Ordering
    /\ \E stage \in Ordering : order' = [order EXCEPT ![j] = stage]
    /\ UNCHANGED <<cooldown, spent, overlap>>

\* The order ends, and no slot of the hour is spent.
EndsFree(j) ==
    /\ order[j] \in Ordering
    /\ order' = [order EXCEPT ![j] = "idle"]
    /\ \E e \in Entries : /\ e.rejections >= cooldown[KeyOf[j]].rejections
                          /\ cooldown' = [cooldown EXCEPT ![KeyOf[j]] = e]
    /\ UNCHANGED <<spent, overlap>>

EndsRejected(j) ==
    /\ order[j] \in Ordering
    /\ order' = [order EXCEPT ![j] = "idle"]
    /\ cooldown' = [cooldown EXCEPT ![KeyOf[j]] = AfterRejection(cooldown[KeyOf[j]])]
    /\ Spend(KeyOf[j])
    /\ UNCHANGED overlap

Succeeds(j) ==
    /\ order[j] \in Ordering
    /\ order' = [order EXCEPT ![j] = "idle"]
    /\ cooldown' = [cooldown EXCEPT ![KeyOf[j]] = NoFailure]
    /\ spent' = [spent EXCEPT ![KeyOf[j]] = NoneSpent]
    /\ UNCHANGED overlap

-----------------------------------------------------------------------------
\* A pause of doublingBackoff is a number.
LEMMA BackoffNat ==
    ASSUME NEW base \in Nat, NEW most \in Nat, NEW failed \in Nat
    PROVE  DoublingBackoff(base, most, failed) \in Nat
<1>1. CASE failed <= 1 BY SMTT(60), <1>1 DEF DoublingBackoff, Least
<1>2. CASE failed = 2 BY SMTT(60), <1>2 DEF DoublingBackoff, Least
<1>3. CASE failed = 3 BY SMTT(60), <1>3 DEF DoublingBackoff, Least
<1>4. CASE failed = 4 BY SMTT(60), <1>4 DEF DoublingBackoff, Least
<1>5. CASE failed > 4 BY SMTT(60), <1>5 DEF DoublingBackoff, Least
<1>. QED BY SMTT(60), <1>1, <1>2, <1>3, <1>4, <1>5

\* A rejection after n slots were spent pauses long enough for the next one.
LEMMA BackoffLong ==
    ASSUME NEW n \in 0 .. 3, NEW r \in Nat, n <= r
    PROVE  Paused(n) + DoublingBackoff(RejectionBase, RejectionMax, r + 1) >= Paused(n + 1)
<1>. USE OrderConstants, BackoffConstants DEF DoublingBackoff, Least, Paused
<1>1. CASE r = 0 BY SMTT(60), <1>1
<1>2. CASE r = 1 BY SMTT(60), <1>2
<1>3. CASE r = 2 BY SMTT(60), <1>3
<1>4. CASE r = 3 BY SMTT(60), <1>4
<1>5. CASE r > 3 BY SMTT(60), <1>5
<1>. QED BY SMTT(60), <1>1, <1>2, <1>3, <1>4, <1>5

\* Every kind of failure leaves an entry, and none of them counts down.
LEMMA FailureEntries ==
    ASSUME NEW e \in Entries, NEW pause \in RateLimitPauses
    PROVE  /\ AfterRejection(e) \in Entries /\ AfterRejection(e).rejections >= e.rejections
           /\ AfterRateLimit(e, pause) \in Entries
           /\ AfterRateLimit(e, pause).rejections >= e.rejections
           /\ AfterLocalFailure(e) \in Entries
           /\ AfterLocalFailure(e).rejections >= e.rejections
<1>1. pause \in Nat BY OrderConstants DEF RateLimitPauses, Least, Most
<1>2. e.rejections + 1 \in Nat /\ e.locals + 1 \in Nat BY SMTT(60), OrderConstants DEF Entries
<1>3. /\ DoublingBackoff(RejectionBase, RejectionMax, e.rejections + 1) \in Nat
      /\ DoublingBackoff(LocalBase, LocalMax, e.locals + 1) \in Nat
  BY <1>2, BackoffNat, OrderConstants
<1>4. /\ Least(e.rejections + 1, MaxFailed) \in 0 .. MaxFailed
      /\ Least(e.rejections + 1, MaxFailed) >= e.rejections
      /\ Least(e.locals + 1, MaxFailed) \in 0 .. MaxFailed
  BY SMTT(60), OrderConstants DEF Entries, Least
<1>5. e.rejections >= e.rejections BY SMTT(60), OrderConstants DEF Entries
<1>6. AfterRejection(e) \in Entries /\ AfterRejection(e).rejections >= e.rejections
  BY <1>3, <1>4 DEF Entries, AfterRejection
<1>7. AfterRateLimit(e, pause) \in Entries /\ AfterRateLimit(e, pause).rejections >= e.rejections
  BY <1>1, <1>4 DEF Entries, AfterRateLimit
<1>8. AfterLocalFailure(e) \in Entries /\ AfterLocalFailure(e).rejections >= e.rejections
  BY <1>3, <1>4, <1>5 DEF Entries, AfterLocalFailure
<1>. QED BY <1>6, <1>7, <1>8

\* A failure that RecordFailure notes ends the order, with or without a slot.
LEMMA FailuresEnd ==
    ASSUME OrderTypes, NEW j \in Jobs, NEW authorising \in BOOLEAN,
           order[j] \in Ordering, OrderFails(j, authorising), UNCHANGED overlap
    PROVE  EndsFree(j) \/ EndsRejected(j)
<1>. DEFINE e == cooldown[KeyOf[j]]
<1>1. e \in Entries BY OrderConstants DEF OrderTypes
<1>2. RateDefault \in RateLimitPauses BY DEF RateLimitPauses
<1>3. CASE RecordFailure(j, AfterRejection(e)) /\ Spend(KeyOf[j])
  BY <1>3 DEF EndsRejected, RecordFailure, OrderGo
<1>4. CASE RecordFailure(j, AfterRejection(e)) /\ UNCHANGED spent
  BY <1>1, <1>2, <1>4, FailureEntries DEF EndsFree, RecordFailure, OrderGo
<1>5. CASE (\E pause \in RateLimitPauses : RecordFailure(j, AfterRateLimit(e, pause))) /\ UNCHANGED spent
  BY <1>1, <1>5, FailureEntries DEF EndsFree, RecordFailure, OrderGo
<1>6. CASE RecordFailure(j, AfterLocalFailure(e)) /\ UNCHANGED spent
  BY <1>1, <1>2, <1>6, FailureEntries DEF EndsFree, RecordFailure, OrderGo
<1>. QED BY <1>3, <1>4, <1>5, <1>6 DEF OrderFails

\* A local failure noted on its own, by a file or by port 80.
LEMMA LocalFailureEnds ==
    ASSUME OrderTypes, NEW j \in Jobs, order[j] \in Ordering,
           RecordFailure(j, AfterLocalFailure(cooldown[KeyOf[j]])), UNCHANGED <<spent, overlap>>
    PROVE  EndsFree(j)
<1>1. cooldown[KeyOf[j]] \in Entries BY OrderConstants DEF OrderTypes
<1>2. RateDefault \in RateLimitPauses BY DEF RateLimitPauses
<1>. QED BY <1>1, <1>2, FailureEntries DEF EndsFree, RecordFailure, OrderGo

\* Every step of a job is one of the five.
LEMMA StepKinds ==
    ASSUME OrderTypes, NEW j \in Jobs, OrderStep(j)
    PROVE  Begins(j) \/ Advances(j) \/ EndsFree(j) \/ EndsRejected(j) \/ Succeeds(j)
<1>0. cooldown[KeyOf[j]] \in Entries /\ cooldown = [cooldown EXCEPT ![KeyOf[j]] = @]
  BY OrderConstants DEF OrderTypes
<1>00. cooldown[KeyOf[j]].rejections >= cooldown[KeyOf[j]].rejections
  BY SMTT(60), <1>0, OrderConstants DEF Entries
<1>1. CASE BeginOrder(j) BY <1>1 DEF BeginOrder, Begins, OrderGo, Check
<1>2. CASE Preflight(j)
  <2>1. CASE OrderGo(j, "account")
    BY <1>2, <2>1 DEF Preflight, Advances, OrderGo, Ordering
  <2>2. CASE OrderGo(j, "idle")
    BY <1>0, <1>00, <1>2, <2>2 DEF Preflight, EndsFree, OrderGo, Ordering
  <2>. QED BY <1>2, <2>1, <2>2 DEF Preflight, SelfTestFails
<1>3. CASE Account(j)
  <2>1. order[j] \in Ordering /\ UNCHANGED overlap BY <1>3 DEF Account, Ordering
  <2>2. CASE OrderGo(j, "obtain") /\ UNCHANGED <<cooldown, spent>>
    BY <2>1, <2>2 DEF Advances, OrderGo, Ordering
  <2>3. CASE OrderFails(j, FALSE) BY <2>1, <2>3, FailuresEnd
  <2>. QED BY <1>3, <2>2, <2>3 DEF Account, LegoUserFails
<1>4. CASE Obtain(j)
  <2>1. order[j] \in Ordering /\ UNCHANGED overlap BY <1>4 DEF Obtain, Ordering
  <2>2. CASE (OrderGo(j, "record") \/ OrderGo(j, "writeCert")) /\ UNCHANGED <<cooldown, spent>>
    BY <2>1, <2>2 DEF Advances, OrderGo, Ordering
  <2>3. CASE OrderFails(j, TRUE) BY <2>1, <2>3, FailuresEnd
  <2>4. CASE RecordFailure(j, AfterLocalFailure(cooldown[KeyOf[j]])) /\ UNCHANGED spent
    BY <2>1, <2>4, LocalFailureEnds
  <2>. QED BY <1>4, <2>2, <2>3, <2>4 DEF Obtain
<1>5. ASSUME NEW stage \in {"writeCert", "writeKey"}, NEW next \in Ordering, WriteFile(j, stage, next)
      PROVE  Advances(j) \/ EndsFree(j)
  <2>1. order[j] \in Ordering /\ UNCHANGED <<spent, overlap>> BY <1>5 DEF WriteFile, Ordering
  <2>2. CASE OrderGo(j, next) /\ UNCHANGED cooldown BY <2>1, <2>2 DEF Advances, OrderGo
  <2>3. CASE RecordFailure(j, AfterLocalFailure(cooldown[KeyOf[j]]))
    BY <2>1, <2>3, LocalFailureEnds
  <2>. QED BY <1>5, <2>2, <2>3 DEF WriteFile
<1>6. CASE RecordSuccess(j) BY <1>6 DEF RecordSuccess, Succeeds, OrderGo, Ordering
<1>7. "writeKey" \in Ordering /\ "record" \in Ordering BY DEF Ordering
<1>. QED BY <1>1, <1>2, <1>3, <1>4, <1>5, <1>6, <1>7 DEF OrderStep

-----------------------------------------------------------------------------
\* What a spent slot does to the history of a request.
LEMMA SlotSpent ==
    ASSUME OrderTypes, NEW k \in Keys, Spend(k)
    PROVE  /\ spent' \in [Keys -> [count : Nat, since : Nat]]
           /\ spent[k].count # 0 /\ spent[k].since > Hour => spent'[k] = spent[k]
           /\ spent[k].count = 0 => spent'[k] = [count |-> 1, since |-> 0]
           /\ spent[k].count # 0 /\ spent[k].since <= Hour =>
                 spent'[k] = [count |-> spent[k].count + 1, since |-> spent[k].since]
<1>. DEFINE slot == IF spent[k].count = 0 THEN [count |-> 1, since |-> 0]
                    ELSE IF spent[k].since <= Hour
                         THEN [count |-> spent[k].count + 1, since |-> spent[k].since]
                         ELSE spent[k]
<1>1. spent[k] \in [count : Nat, since : Nat] BY DEF OrderTypes
<1>2. slot \in [count : Nat, since : Nat] BY SMTT(60), <1>1
<1>3. spent' = [spent EXCEPT ![k] = slot] BY DEF Spend
<1>4. spent' \in [Keys -> [count : Nat, since : Nat]] /\ spent'[k] = slot
  BY <1>2, <1>3 DEF OrderTypes
<1>. QED BY SMTT(60), <1>1, <1>4, OrderConstants

\* The types are kept by every kind of step.
LEMMA KindsKeepTypes ==
    ASSUME OrderTypes, NEW j \in Jobs,
           Begins(j) \/ Advances(j) \/ EndsFree(j) \/ EndsRejected(j) \/ Succeeds(j)
    PROVE  OrderTypes'
<1>. USE OrderConstants
<1>1. cooldown[KeyOf[j]] \in Entries /\ KeyOf[j] \in Keys BY DEF OrderTypes
<1>2. RateDefault \in RateLimitPauses BY DEF RateLimitPauses
<1>3. order' \in [Jobs -> Ordering \cup {"idle"}]
  BY DEF OrderTypes, Begins, Advances, EndsFree, EndsRejected, Succeeds, Ordering
<1>4. AfterRejection(cooldown[KeyOf[j]]) \in Entries /\ NoFailure \in Entries
  BY SMTT(60), <1>1, <1>2, FailureEntries DEF NoFailure, Entries
<1>5. cooldown' \in [Keys -> Entries]
  BY <1>4 DEF OrderTypes, Begins, Advances, EndsFree, EndsRejected, Succeeds
<1>6. Spend(KeyOf[j]) => spent' \in [Keys -> [count : Nat, since : Nat]]
  BY <1>1, SlotSpent
<1>7. spent' \in [Keys -> [count : Nat, since : Nat]]
  BY SMTT(60), <1>6 DEF OrderTypes, Begins, Advances, EndsFree, EndsRejected, Succeeds, NoneSpent
<1>. QED BY <1>3, <1>5, <1>7 DEF OrderTypes

\* A step of a job leaves the pace of the requests of others alone.
LEMMA OthersKeepPace ==
    ASSUME OrderTypes, NEW j \in Jobs, NEW k \in Keys, KeyOf[j] # k,
           k \notin overlap => Paced(k), k \notin overlap',
           Begins(j) \/ Advances(j) \/ EndsFree(j) \/ EndsRejected(j) \/ Succeeds(j)
    PROVE  Paced(k)'
<1>1. k \notin overlap
  BY DEF Begins, Advances, EndsFree, EndsRejected, Succeeds
<1>2. Flying(k)' = Flying(k)
  BY SMTT(60) DEF OrderTypes, Flying, Begins, Advances, EndsFree, EndsRejected, Succeeds
<1>3. cooldown'[k] = cooldown[k] /\ spent'[k] = spent[k]
  BY DEF OrderTypes, Begins, Advances, EndsFree, EndsRejected, Succeeds, Spend
<1>. QED BY <1>1, <1>2, <1>3 DEF Paced

\* The only order under way for a request ends, and none is left.
LEMMA LastOne ==
    ASSUME OrderTypes, NEW j \in Jobs, Paced(KeyOf[j]), order[j] \in Ordering,
           order' = [order EXCEPT ![j] = "idle"]
    PROVE  Flying(KeyOf[j]) # {} /\ Flying(KeyOf[j])' = {}
<1>1. j \in Flying(KeyOf[j]) BY DEF Flying
<1>2. "idle" \notin Ordering BY DEF Ordering
<1>. QED BY <1>1, <1>2 DEF Flying, Paced, OrderTypes

\* A step of a job keeps the pace of its own request: an order begins when the pause is
\* over, spends a slot only inside the hour, and the pause that follows covers it.
LEMMA OwnKeepsPace ==
    ASSUME OrderTypes, OrderTypes', NEW j \in Jobs, NEW k \in Keys, KeyOf[j] = k,
           k \notin overlap => Paced(k), k \notin overlap',
           Begins(j) \/ Advances(j) \/ EndsFree(j) \/ EndsRejected(j) \/ Succeeds(j)
    PROVE  Paced(k)'
<1>1. k \notin overlap /\ Paced(k)
  BY DEF Begins, Advances, EndsFree, EndsRejected, Succeeds
<1>2. /\ spent[k].count \in Nat /\ spent[k].since \in Nat /\ cooldown[k].left \in Nat
      /\ cooldown[k].rejections \in 0 .. MaxFailed
      /\ Hour \in Nat /\ RejectionBase \in Nat \ {0} /\ MaxFailed \in Nat /\ MaxFailed >= 5
      /\ Paused(spent[k].count) \in Nat
  BY SMTT(60), OrderConstants DEF OrderTypes, Entries, Paused
<1>3. CASE Begins(j)
  <2>1. Flying(k) = {} BY <1>3 DEF Begins
  <2>2. Flying(k)' = {j} BY <1>3, <2>1 DEF Begins, Flying, OrderTypes, Ordering
  <2>3. cooldown[k].left = 0 /\ UNCHANGED <<cooldown, spent>> BY <1>3 DEF Begins
  <2>. QED BY <1>1, <1>2, <2>1, <2>2, <2>3 DEF Paced
<1>4. CASE Advances(j)
  <2>1. Flying(k)' = Flying(k) BY <1>4 DEF Advances, Flying, OrderTypes
  <2>. QED BY <1>1, <1>4, <2>1 DEF Paced, Advances
<1>5. CASE EndsFree(j)
  <2>1. Flying(k) # {} /\ Flying(k)' = {} BY <1>1, <1>5, LastOne DEF EndsFree
  <2>2. PICK e \in Entries : e.rejections >= cooldown[k].rejections /\ cooldown'[k] = e
    BY <1>5 DEF EndsFree, OrderTypes
  <2>3. e.left \in Nat /\ e.rejections \in Nat BY SMTT(60), OrderConstants DEF Entries
  <2>4. spent' = spent BY <1>5 DEF EndsFree
  <2>. QED BY SMTT(60), <1>1, <1>2, <2>1, <2>2, <2>3, <2>4 DEF Paced
<1>6. CASE EndsRejected(j)
  <2>1. Flying(k) # {} /\ Flying(k)' = {} BY <1>1, <1>6, LastOne DEF EndsRejected
  <2>2. cooldown'[k] = AfterRejection(cooldown[k]) BY <1>6 DEF EndsRejected, OrderTypes
  <2>. DEFINE n == spent[k].count
              pause == DoublingBackoff(RejectionBase, RejectionMax, cooldown[k].rejections + 1)
  <2>3. /\ cooldown'[k].rejections = Least(cooldown[k].rejections + 1, MaxFailed)
        /\ cooldown'[k].left = pause
    BY SMTT(60), <2>2 DEF AfterRejection, OrderTypes, Entries
  <2>4. pause \in Nat
    <3>1. RejectionBase \in Nat /\ RejectionMax \in Nat BY OrderConstants
    <3>2. cooldown[k].rejections + 1 \in Nat BY SMTT(60), <1>2
    <3>. QED BY <3>1, <3>2, BackoffNat
  <2>. HIDE DEF pause
  <2>5. CASE n # 0 /\ spent[k].since > Hour
    <3>1. spent'[k] = spent[k] BY <1>6, <2>5, SlotSpent DEF EndsRejected
    <3>. QED BY SMTT(60), <1>1, <1>2, <2>1, <2>3, <2>4, <2>5, <3>1 DEF Paced, Least
  <2>6. CASE n = 0 \/ spent[k].since <= Hour
    <3>1. n \in 0 .. 3 BY SMTT(60), <1>1, <1>2, <2>1, <2>6, BackoffConstants DEF Paced, Paused
    <3>2. spent'[k] = IF n = 0 THEN [count |-> 1, since |-> 0]
                      ELSE [count |-> n + 1, since |-> spent[k].since]
      BY <1>6, <2>6, SlotSpent DEF EndsRejected
    <3>3. Paused(n) + pause >= Paused(n + 1)
      BY SMTT(60), <1>1, <1>2, <3>1, BackoffLong DEF Paced, pause
    <3>4. n + 1 <= cooldown'[k].rejections BY SMTT(60), <1>1, <1>2, <2>3, <3>1 DEF Paced, Least
    <3>5. Paused(n + 1) \in Nat BY SMTT(60), <1>2, <3>1 DEF Paused
    <3>6. CASE n = 0
      <4>1. Paused(n) = 0 BY SMTT(60), <3>6 DEF Paused
      <4>. QED
        BY SMTT(60), <1>2, <2>1, <2>3, <2>4, <3>1, <3>2, <3>3, <3>4, <3>5, <3>6, <4>1 DEF Paced
    <3>7. CASE n # 0
      <4>1. Paused(n) <= spent[k].since BY SMTT(60), <1>1, <1>2, <2>1, <2>6, <3>7 DEF Paced
      <4>. QED
        BY SMTT(60), <1>2, <2>1, <2>3, <2>4, <3>1, <3>2, <3>3, <3>4, <3>5, <3>7, <4>1 DEF Paced
    <3>. QED BY <3>6, <3>7
  <2>. QED BY SMTT(60), <1>2, <2>5, <2>6
<1>7. CASE Succeeds(j)
  <2>1. Flying(k)' = {} BY <1>1, <1>7, LastOne DEF Succeeds
  <2>2. cooldown'[k] = NoFailure /\ spent'[k] = NoneSpent BY <1>7 DEF Succeeds, OrderTypes
  <2>. QED BY SMTT(60), <2>1, <2>2 DEF Paced, NoFailure, NoneSpent, Paused
<1>. QED BY <1>3, <1>4, <1>5, <1>6, <1>7

\* The passing of time: what the pauses lose, the hour gains.
LEMMA TickKeepsPace ==
    ASSUME OrderInv, Tick
    PROVE  OrderInv'
<1>. USE OrderConstants
<1>1. OrderTypes'
  <2>1. \A k \in Keys : Most(cooldown[k].left - 1, 0) \in Nat
    BY SMTT(60) DEF OrderInv, OrderTypes, Entries, Most
  <2>2. cooldown' \in [Keys -> Entries]
    BY <2>1 DEF OrderInv, OrderTypes, Entries, Tick, PausesRun
  <2>3. spent' \in [Keys -> [count : Nat, since : Nat]]
    BY SMTT(60) DEF OrderInv, OrderTypes, Tick, Least
  <2>. QED BY <2>2, <2>3 DEF OrderInv, OrderTypes, Tick
<1>2. ASSUME NEW k \in Keys, k \notin overlap' PROVE Paced(k)'
  <2>1. Paced(k) /\ Flying(k)' = Flying(k) BY <1>2 DEF OrderInv, Tick, Flying
  <2>2. /\ spent[k].count \in Nat /\ spent[k].since \in Nat /\ cooldown[k].left \in Nat
        /\ cooldown[k].rejections \in Nat /\ Paused(spent[k].count) \in Nat
    BY SMTT(60) DEF OrderInv, OrderTypes, Entries, Paused
  <2>3. /\ cooldown'[k].rejections = cooldown[k].rejections
        /\ cooldown'[k].left = Most(cooldown[k].left - 1, 0)
    BY DEF Tick, PausesRun, OrderInv, OrderTypes, Entries
  <2>4. /\ spent'[k].count = spent[k].count
        /\ spent'[k].since = IF spent[k].count = 0 THEN spent[k].since
                             ELSE Least(spent[k].since + 1, Hour + 1)
    BY DEF Tick, OrderInv, OrderTypes
  <2>5. spent[k].count = 0 => Paused(spent[k].count) = 0 BY SMTT(60) DEF Paused
  <2>6. cooldown'[k].left \in Nat /\ spent'[k].since \in Nat
    BY SMTT(60), <2>2, <2>3, <2>4 DEF Most, Least
  <2>7. spent'[k].since <= Hour =>
          Paused(spent[k].count) <= spent'[k].since + (IF Flying(k) = {} THEN cooldown'[k].left ELSE 0)
    BY SMTT(60), <2>1, <2>2, <2>3, <2>4, <2>5, <2>6 DEF Paced, Most, Least
  <2>. QED BY <2>1, <2>3, <2>4, <2>7 DEF Paced
<1>. QED BY <1>1, <1>2 DEF OrderInv

\* The initial states are paced, and every step keeps the pace.
LEMMA OrderInvInit == OrderInit => OrderInv
<1>1. SUFFICES ASSUME OrderInit PROVE OrderInv OBVIOUS
<1>2. \A k \in Keys : Flying(k) = {} BY <1>1 DEF OrderInit, OrderInitWith, Flying, Ordering
<1>3. OrderTypes
  BY SMTT(60), <1>1, OrderConstants DEF OrderInit, OrderInitWith, OrderTypes, NoFailure, NoneSpent,
     Entries
<1>4. \A k \in Keys : Paced(k)
  BY SMTT(60), <1>1, <1>2 DEF OrderInit, OrderInitWith, Paced, NoFailure, NoneSpent, Paused
<1>. QED BY <1>3, <1>4 DEF OrderInv

LEMMA OrderInvNext == OrderInv /\ [OrderNext]_orderVars => OrderInv'
<1>. SUFFICES ASSUME OrderInv, [OrderNext]_orderVars PROVE OrderInv' OBVIOUS
<1>1. ASSUME NEW j \in Jobs, OrderStep(j) PROVE OrderInv'
  <2>1. Begins(j) \/ Advances(j) \/ EndsFree(j) \/ EndsRejected(j) \/ Succeeds(j)
    BY <1>1, StepKinds DEF OrderInv
  <2>2. OrderTypes' BY <2>1, KindsKeepTypes DEF OrderInv
  <2>3. ASSUME NEW k \in Keys, k \notin overlap' PROVE Paced(k)'
    BY <2>1, <2>2, <2>3, OthersKeepPace, OwnKeepsPace DEF OrderInv
  <2>. QED BY <2>2, <2>3 DEF OrderInv
<1>2. CASE Tick BY <1>2, TickKeepsPace
<1>3. CASE Crash
  <2>1. OrderTypes'
    BY SMTT(60), <1>3, OrderConstants DEF Crash, OrderInv, OrderTypes, NoFailure, NoneSpent, Entries
  <2>2. \A k \in Keys : Flying(k)' = {} BY <1>3 DEF Crash, Flying, Ordering
  <2>3. \A k \in Keys : Paced(k)'
    BY SMTT(60), <1>3, <2>2 DEF Crash, Paced, NoFailure, NoneSpent, Paused
  <2>. QED BY <2>1, <2>3 DEF OrderInv
<1>4. ASSUME UNCHANGED <<order, cooldown, spent, overlap>> PROVE OrderInv'
  BY SMTT(60), <1>4 DEF OrderInv, OrderTypes, Paced, Flying
<1>5. ASSUME NEW f \in Files, Age(f) PROVE OrderInv' BY <1>4, <1>5 DEF Age
<1>6. CASE UNCHANGED orderVars BY <1>4, <1>6 DEF orderVars
<1>. QED BY <1>1, <1>2, <1>3, <1>5, <1>6 DEF OrderNext

\* At most four rejections fall into the first hour of a request, whatever fails when
\* (node/cert_cooldown.go, RecordFailure), unless two orders for it were under way at
\* once.
THEOREM RejectionsPaced == OrderSpec => []AtMostFour
<1>1. OrderInv => AtMostFour BY DEF OrderInv, Paced, AtMostFour
<1>. QED BY <1>1, OrderInvInit, OrderInvNext, PTL DEF OrderSpec

-----------------------------------------------------------------------------
(* The redirect's manager (HTTPSRedirect)                                    *)

ManagerShape ==
    /\ entries = [t \in Tags |-> entries[t]]
    /\ socket = [s \in Servers |-> socket[s]]

Owned == \A s \in Servers : socket[s] \in {"bound", "serving"} => server = s

KeptForANode == server # 0 => blockers = {} /\ \E t \in Tags : entries[t] # NoEntry

OnePort ==
    \A t, u \in Tags : entries[t].host = entries[u].host => entries[t].port = entries[u].port

ManagerInv == ManagerShape /\ Owned /\ KeptForANode /\ OnePort

\* Nothing listens for the redirect.
Silent == \A s \in Servers : socket[s] \notin {"bound", "serving"}

\* Without a server nothing listens.
LEMMA NoServer == Owned /\ server = 0 => Silent
BY RedirectConstants DEF Owned, Silent

\* Stopping silences the listener, whether or not its goroutine has come to serve.
LEMMA StopSilences ==
    ASSUME Owned, StopLocked
    PROVE  server' = 0 /\ Silent' /\ socket' = [s \in Servers |-> socket'[s]]
BY DEF StopLocked, Owned, Silent

\* A listener is started for the manager, or not at all.
LEMMA StartOwns ==
    ASSUME ManagerInv, server = 0, StartLocked
    PROVE  Owned' /\ socket' = [s \in Servers |-> socket'[s]]
<1>1. Silent
  BY NoServer DEF ManagerInv
<1>2. CASE UNCHANGED <<server, socket>>
  BY <1>2 DEF ManagerInv, ManagerShape, Owned
<1>3. ASSUME NEW s \in Servers, server' = s, socket' = [socket EXCEPT ![s] = "bound"]
      PROVE  Owned' /\ socket' = [z \in Servers |-> socket'[z]]
  BY <1>1, <1>3 DEF Silent, ManagerInv, ManagerShape, Owned
<1> QED
  BY <1>2, <1>3 DEF StartLocked

\* An entry goes, and its node's place with it.
LEMMA EntryGoes ==
    ASSUME ManagerInv, NEW t \in Tags, SetEntry(t, NoEntry)
    PROVE  /\ entries' = [u \in Tags |-> entries'[u]]
           /\ entries'[t] = NoEntry /\ \A u \in Tags \ {t} : entries'[u] = entries[u]
BY DEF ManagerInv, ManagerShape, SetEntry

\* The entries that remain agree on their ports, when none of them lacks a host.
Hosts == \A t \in Tags : entries[t].host = "none" => entries[t] = NoEntry

LEMMA PrepareKeeps ==
    ASSUME ManagerInv, Hosts, NEW t \in Tags, NEW i, Prepare(t, i)
    PROVE  ManagerInv' /\ Hosts' /\ (Blocks(i) => t \in blockers')
<1>1. CASE Blocks(i)
  <2>1. SetEntry(t, NoEntry) /\ blockers' = blockers \union {t} /\ StopLocked
    BY <1>1 DEF Prepare
  <2>2. server' = 0 /\ Silent' /\ socket' = [s \in Servers |-> socket'[s]]
    BY <2>1, StopSilences DEF ManagerInv
  <2>3. OnePort' /\ Hosts'
    BY SMTT(60), <2>1, EntryGoes DEF ManagerInv, OnePort, Hosts, NoEntry
  <2> QED
    BY <2>1, <2>2, <2>3, EntryGoes DEF ManagerInv, ManagerShape, Owned, KeptForANode, Silent
<1>2. CASE ~Blocks(i)
  BY SMTT(60), <1>2 DEF Prepare, ManagerInv, ManagerShape, Owned, KeptForANode, OnePort, Hosts
<1> QED
  BY <1>1, <1>2

LEMMA RemoveKeeps ==
    ASSUME ManagerInv, Hosts, NEW t \in Tags, Remove(t)
    PROVE  ManagerInv' /\ Hosts' /\ blockers' = blockers \ {t}
<1>1. SetEntry(t, NoEntry) /\ blockers' = blockers \ {t}
  BY DEF Remove
<1>2. OnePort' /\ Hosts'
  BY SMTT(60), <1>1, EntryGoes DEF ManagerInv, OnePort, Hosts, NoEntry
<1>3. CASE \A u \in Tags \ {t} : entries[u] = NoEntry
  <2>1. server' = 0 /\ Silent' /\ socket' = [s \in Servers |-> socket'[s]]
    BY <1>3, StopSilences DEF Remove, ManagerInv
  <2> QED
    BY <1>1, <1>2, <2>1, EntryGoes DEF ManagerInv, ManagerShape, Owned, KeptForANode, Silent
<1>4. CASE \E u \in Tags \ {t} : entries[u] # NoEntry
  <2>1. \E u \in Tags : entries'[u] # NoEntry
    BY <1>1, <1>4, EntryGoes
  <2>2. CASE blockers \ {t} = {} /\ server = 0
    <3>1. Owned' /\ socket' = [s \in Servers |-> socket'[s]]
      BY <1>4, <2>2, StartOwns DEF Remove
    <3> QED
      BY <1>1, <1>2, <2>1, <2>2, <3>1, EntryGoes DEF ManagerInv, ManagerShape, KeptForANode
  <2>3. CASE ~(blockers \ {t} = {} /\ server = 0)
    <3>1. UNCHANGED <<server, socket>>
      BY <1>4, <2>3 DEF Remove
    <3> QED
      BY <1>1, <1>2, <2>1, <3>1, EntryGoes DEF ManagerInv, ManagerShape, Owned, KeptForANode
  <2> QED
    BY <2>2, <2>3
<1> QED
  BY <1>1, <1>3, <1>4

\* Upsert refuses a host that another node has sent elsewhere.
LEMMA ApplyKeeps ==
    ASSUME ManagerInv, Hosts, NEW t \in Tags, NEW e, e.host # "none", Apply(t, e)
    PROVE  ManagerInv' /\ Hosts' /\ blockers \ {t} \subseteq blockers'
<1>1. CASE Conflict(t, e.host, e.port)
  BY SMTT(60), <1>1 DEF Apply, ManagerInv, ManagerShape, Owned, KeptForANode, OnePort, Hosts
<1>2. CASE ~Conflict(t, e.host, e.port)
  <2>1. SetEntry(t, e) /\ blockers' = blockers \ {t}
    BY <1>2 DEF Apply
  <2>2. /\ entries' = [u \in Tags |-> entries'[u]]
        /\ entries'[t] = e /\ \A u \in Tags \ {t} : entries'[u] = entries[u]
    BY <2>1 DEF SetEntry, ManagerInv, ManagerShape
  <2>3. e # NoEntry
    BY SMTT(60) DEF NoEntry
  <2>4. \A u \in Tags \ {t} : entries[u].host = e.host => entries[u].port = e.port
    BY SMTT(60), <1>2 DEF Conflict, NoEntry
  <2>5. OnePort' /\ Hosts'
    BY SMTT(60), <2>2, <2>4 DEF ManagerInv, OnePort, Hosts
  <2>6. CASE blockers \ {t} = {} /\ server = 0
    <3>1. Owned' /\ socket' = [s \in Servers |-> socket'[s]]
      BY <1>2, <2>6, StartOwns DEF Apply
    <3> QED
      BY <2>1, <2>2, <2>3, <2>5, <2>6, <3>1 DEF ManagerInv, ManagerShape, KeptForANode
  <2>7. CASE ~(blockers \ {t} = {} /\ server = 0)
    <3>1. UNCHANGED <<server, socket>>
      BY <1>2, <2>7 DEF Apply
    <3> QED
      BY <2>1, <2>2, <2>3, <2>5, <3>1 DEF ManagerInv, ManagerShape, Owned, KeptForANode
  <2> QED
    BY <2>6, <2>7
<1> QED
  BY <1>1, <1>2

LEMMA CloseManagerKeeps ==
    ASSUME ManagerInv, CloseManager
    PROVE  ManagerInv' /\ Hosts' /\ server' = 0
<1>1. server' = 0 /\ Silent' /\ socket' = [s \in Servers |-> socket'[s]]
  BY StopSilences DEF CloseManager, ManagerInv
<1> QED
  BY <1>1 DEF CloseManager, ManagerInv, ManagerShape, Owned, KeptForANode, OnePort, Hosts, Silent,
     NoEntry

\* The goroutine of a server clears only its own fields.
LEMMA GoroutineKeeps ==
    ASSUME ManagerInv, Hosts, NEW s \in Servers, Goroutine(s)
    PROVE  ManagerInv' /\ Hosts' /\ (server = 0 => server' = 0) /\ blockers' = blockers
BY SMTT(60) DEF Goroutine, Serve, Die, Exit, ClearOwn, ManagerInv, ManagerShape, Owned,
   KeptForANode, OnePort, Hosts

-----------------------------------------------------------------------------
(* The nodes (NodeCert)                                                      *)

NodeStages == {"cert", "prepare", "add", "refresh", "up", "down"}

\* A call has its four fields; one under way has a host, and a node's own call runs
\* while the node is refreshing.
Calls ==
    /\ upsert = [u \in Callers |-> upsert[u]]
    /\ \A u \in Callers :
          /\ upsert[u] = [stage |-> upsert[u].stage, host |-> upsert[u].host,
                          port |-> upsert[u].port, cert |-> upsert[u].cert]
          /\ upsert[u].stage \in {"key", "apply"} => upsert[u].host # "none"
          /\ u \in Controllers /\ upsert[u].stage # "none" => at[u] = "refresh"

\* Before AddNode a node that needs the port blocks it, unless a call that had read an
\* earlier info took the blocker away.
StillBlocked ==
    ~closed => \A c \in Controllers : at[c] = "add" /\ Blocks(info[c]) /\ c \notin raced
                                       => c \in blockers

\* A manager that was closed when nothing was under way stays closed, for nothing begins
\* any more.
AtRest ==
    closed /\ late = {} =>
        /\ server = 0
        /\ \A c \in Controllers : at[c] \in {"up", "down"}
        /\ \A r \in Renewers : order[r] = "idle" /\ upsert[r].stage = "none"

\* The inductive invariant.
CertInv ==
    /\ ManagerInv /\ Hosts
    /\ at \in [Controllers -> NodeStages] /\ info = [c \in Controllers |-> info[c]]
    /\ Calls /\ StillBlocked /\ AtRest

\* Everything a step of the nodes may leave alone.
LEMMA CertFrame ==
    ASSUME CertInv, UNCHANGED <<entries, blockers, server, socket>>
    PROVE  ManagerInv' /\ Hosts'
BY DEF CertInv, ManagerInv, ManagerShape, Owned, KeptForANode, OnePort, Hosts

LEMMA CertInvInit == RedirectInit /\ NodeInit => CertInv
<1> SUFFICES ASSUME RedirectInit, NodeInit PROVE CertInv
  OBVIOUS
<1>1. ManagerInv /\ Hosts
  BY DEF RedirectInit, ManagerInv, ManagerShape, Owned, KeptForANode, OnePort, Hosts, NoEntry
<1> QED
  BY <1>1 DEF NodeInit, CertInv, Calls, StillBlocked, AtRest, NoCall, NodeStages

\* The steps up to AddNode, a retry and a reload.
LEMMA StartKeeps ==
    ASSUME CertInv, NEW c \in Controllers,
           \/ CertThere(c) \/ (c \in Jobs /\ IssueStep(c)) \/ CertRefused(c)
           \/ AddNode(c) \/ RetryNode(c)
           \/ \E i \in InfosOf[c] : ReloadNode(c, i)
    PROVE  CertInv'
<1> USE DEF CertInv, Step, NodeStages
<1>1. UNCHANGED <<entries, blockers, server, socket, upsert, closed, late, raced>>
  BY DEF CertThere, IssueStep, CertRefused, AddNode, RetryNode, ReloadNode, redirectVars
<1>2. ManagerInv' /\ Hosts'
  BY <1>1, CertFrame
<1>3. at[c] # "refresh" /\ (closed => at[c] \notin {"up", "down"})
  BY DEF CertThere, IssueStep, CertRefused, AddNode, RetryNode, ReloadNode
<1>4. PICK stage \in NodeStages \ {"add"} : Step(c, stage)
  BY DEF CertThere, IssueStep, CertRefused, AddNode, RetryNode, ReloadNode
<1>5. info' = [d \in Controllers |-> info'[d]] /\ \A d \in Controllers \ {c} : info'[d] = info[d]
  BY DEF CertThere, IssueStep, CertRefused, AddNode, RetryNode, ReloadNode
<1> QED
  BY <1>1, <1>2, <1>3, <1>4, <1>5 DEF Calls, StillBlocked, AtRest

LEMMA PrepareNodeKeeps ==
    ASSUME CertInv, NEW c \in Controllers, PrepareNode(c)
    PROVE  CertInv'
<1>1. ManagerInv' /\ Hosts' /\ (Blocks(info[c]) => c \in blockers')
  BY NodeCertConstants, PrepareKeeps DEF CertInv, PrepareNode
<1>2. blockers \ {c} \subseteq blockers'
  BY DEF PrepareNode, Prepare
<1> QED
  BY <1>1, <1>2 DEF CertInv, PrepareNode, Step, Calls, StillBlocked, AtRest, NodeStages

\* A call ends, its node comes up.
LEMMA EndKeeps ==
    ASSUME CertInv, NEW u \in Callers, upsert[u].stage # "none" \/ (u \in Controllers /\ at[u] = "refresh"),
           EndCall(u)
    PROVE  /\ at' \in [Controllers -> NodeStages]
           /\ \A c \in Controllers : at'[c] \in {at[c], "up"}
           /\ Calls'
           /\ \A r \in Callers : upsert'[r] = upsert[r] \/ upsert'[r].stage = "none"
BY SMTT(60) DEF EndCall, Step, NoCall, CertInv, Calls, NodeStages

\* A step of a call, by a node or a renewal, on what the node was when it began.
LEMMA CallKeeps ==
    ASSUME CertInv, NEW u \in Callers, LoadKey(u) \/ ApplyUpsert(u)
    PROVE  CertInv'
<1> USE NodeCertConstants DEF CertInv
<1>1. NodeOf(u) \in Tags /\ upsert[u].stage \in {"key", "apply"}
  BY DEF LoadKey, ApplyUpsert, NodeOf, Callers
<1>2. ~(closed /\ late = {})
  BY <1>1 DEF AtRest, Calls, Callers
<1>3. CASE ApplyUpsert(u)
  <2> DEFINE e == [host |-> upsert[u].host, port |-> upsert[u].port, cert |-> upsert[u].cert]
  <2>1. e.host # "none"
    BY <1>1 DEF Calls
  <2>2. Apply(NodeOf(u), e) /\ EndCall(u)
    BY <1>3 DEF ApplyUpsert
  <2> HIDE DEF e
  <2>3. ManagerInv' /\ Hosts' /\ blockers \ {NodeOf(u)} \subseteq blockers'
    BY <1>1, <2>1, <2>2, ApplyKeeps
  <2>4. /\ at' \in [Controllers -> NodeStages] /\ Calls'
        /\ \A c \in Controllers : at'[c] \in {at[c], "up"}
    BY <1>1, <2>2, EndKeeps
  <2> QED
    BY <1>2, <1>3, <2>3, <2>4 DEF ApplyUpsert, StillBlocked, AtRest
<1>4. CASE LoadKey(u) /\ EndCall(u)
  <2>1. ManagerInv' /\ Hosts'
    BY <1>4, CertFrame DEF LoadKey, redirectVars
  <2>2. /\ at' \in [Controllers -> NodeStages] /\ Calls'
        /\ \A c \in Controllers : at'[c] \in {at[c], "up"}
    BY <1>1, <1>4, EndKeeps
  <2> QED
    BY <1>2, <1>4, <2>1, <2>2 DEF LoadKey, redirectVars, StillBlocked, AtRest
<1>5. CASE LoadKey(u) /\ upsert' = [upsert EXCEPT ![u].stage = "apply"] /\ UNCHANGED at
  <2>1. ManagerInv' /\ Hosts'
    BY <1>5, CertFrame DEF LoadKey, redirectVars
  <2>2. /\ upsert'[u] = [stage |-> "apply", host |-> upsert[u].host,
                         port |-> upsert[u].port, cert |-> upsert[u].cert]
        /\ upsert' = [v \in Callers |-> upsert'[v]]
        /\ \A v \in Callers \ {u} : upsert'[v] = upsert[v]
    BY SMTT(60), <1>5 DEF Calls
  <2>3. Calls'
    BY SMTT(60), <1>1, <1>5, <2>2 DEF Calls
  <2> QED
    BY <1>2, <1>5, <2>1, <2>3 DEF LoadKey, redirectVars, StillBlocked, AtRest
<1> QED
  BY <1>3, <1>4, <1>5 DEF LoadKey

\* A call begins, or ends at once.
LEMMA BeginKeeps ==
    ASSUME CertInv, NEW u \in Callers, NEW c \in Controllers, BeginUpsert(u, c),
           upsert[u].stage # "none" \/ (u \in Controllers /\ at[u] = "refresh")
    PROVE  CertInv'
<1> USE NodeCertConstants DEF CertInv
<1>1. ~(closed /\ late = {}) /\ (u \in Controllers => at[u] = "refresh")
  BY DEF AtRest, Calls, Callers
<1>2. UNCHANGED <<info, closed, late, raced>>
  BY DEF BeginUpsert
<1>3. CASE EndCall(u)
  <2>1. /\ at' \in [Controllers -> NodeStages] /\ Calls'
        /\ \A d \in Controllers : at'[d] \in {at[d], "up"}
    BY <1>3, EndKeeps
  <2>2. CASE Blocks(info[c]) /\ Prepare(c, info[c])
    <3>1. ManagerInv' /\ Hosts' /\ blockers \subseteq blockers'
      BY <2>2, PrepareKeeps DEF Prepare
    <3> QED
      BY <1>1, <1>2, <2>1, <3>1 DEF StillBlocked, AtRest
  <2>3. CASE ~Blocks(info[c]) /\ Remove(c)
    <3>1. ManagerInv' /\ Hosts' /\ blockers' = blockers \ {c}
      BY <2>3, RemoveKeeps
    <3> QED
      BY <1>1, <1>2, <2>1, <2>3, <3>1 DEF StillBlocked, AtRest
  <2>4. CASE UNCHANGED <<entries, blockers, server, socket>>
    <3>1. ManagerInv' /\ Hosts'
      BY <2>4, CertFrame
    <3> QED
      BY <1>1, <1>2, <2>1, <2>4, <3>1 DEF StillBlocked, AtRest
  <2> QED
    BY <2>2, <2>3, <2>4 DEF BeginUpsert
<1>4. CASE ~EndCall(u)
  <2>1. /\ HasEndpoint(info[c]) /\ UNCHANGED <<entries, blockers, server, socket, at>>
        /\ upsert' = [upsert EXCEPT ![u] = [stage |-> "key", host |-> info[c].host,
                         port |-> info[c].public, cert |-> disk[CertFilesOf[c]].cert]]
    BY <1>4 DEF BeginUpsert
  <2>2. ManagerInv' /\ Hosts'
    BY <2>1, CertFrame
  <2>3. Calls'
    BY <1>1, <2>1 DEF Calls, HasEndpoint
  <2> QED
    BY <1>1, <1>2, <2>1, <2>2, <2>3 DEF StillBlocked, AtRest
<1> QED
  BY <1>3, <1>4

\* A renewal, the clock and the age of certificates.
LEMMA RenewKeeps ==
    ASSUME CertInv,
           \/ \E r \in Renewers : RenewStep(r)
           \/ (Tick \/ \E f \in Files : Age(f)) /\ UNCHANGED <<redirectVars, nodeVars>>
    PROVE  CertInv'
<1> USE NodeCertConstants DEF CertInv
<1>1. ASSUME NEW r \in Renewers, RenewStep(r) PROVE CertInv'
  <2>1. UNCHANGED <<redirectVars, at, info, closed, late, raced>> /\ ~(closed /\ late = {})
    BY <1>1 DEF RenewStep, AtRest
  <2>2. ManagerInv' /\ Hosts'
    BY <2>1, CertFrame DEF redirectVars
  <2>3. r \in Callers /\ r \notin Controllers
    BY DEF Callers
  <2>4. CASE upsert' = upsert
    BY <2>1, <2>2, <2>4 DEF redirectVars, Calls, StillBlocked, AtRest
  <2>5. CASE upsert' = [upsert EXCEPT ![r].stage = "renewed"]
    <3>1. /\ upsert'[r] = [stage |-> "renewed", host |-> upsert[r].host,
                           port |-> upsert[r].port, cert |-> upsert[r].cert]
          /\ upsert' = [v \in Callers |-> upsert'[v]]
          /\ \A v \in Callers \ {r} : upsert'[v] = upsert[v]
      BY SMTT(60), <2>3, <2>5 DEF Calls
    <3>2. Calls'
      BY SMTT(60), <2>1, <2>3, <3>1 DEF Calls
    <3> QED
      BY <2>1, <2>2, <3>2 DEF redirectVars, StillBlocked, AtRest
  <2> QED
    BY <1>1, <2>4, <2>5 DEF RenewStep
<1>2. CASE (Tick \/ \E f \in Files : Age(f)) /\ UNCHANGED <<redirectVars, nodeVars>>
  <2>1. UNCHANGED <<order, redirectVars, nodeVars>>
    BY <1>2 DEF Tick, Age
  <2>2. ManagerInv' /\ Hosts'
    BY <2>1, CertFrame DEF redirectVars
  <2> QED
    BY <2>1, <2>2 DEF redirectVars, nodeVars, Calls, StillBlocked, AtRest
<1> QED
  BY <1>1, <1>2

\* Node.Close and the goroutines of the servers.
LEMMA CloseKeeps ==
    ASSUME CertInv,
           \/ CloseRedirect
           \/ \E c \in Controllers : CloseNode(c)
           \/ \E s \in Servers : Goroutine(s) /\ UNCHANGED <<orderVars, nodeVars>>
    PROVE  CertInv'
<1> USE DEF CertInv
<1>1. CASE CloseRedirect
  <2>1. ManagerInv' /\ Hosts' /\ server' = 0
    BY <1>1, CloseManagerKeeps DEF CloseRedirect
  <2>2. UNCHANGED <<order, at, info, upsert, raced>> /\ closed' /\ late' = Busy
    BY <1>1 DEF CloseRedirect, orderVars
  <2>3. Busy = {} => /\ \A c \in Controllers : at[c] \in {"up", "down"}
                     /\ \A r \in Renewers : order[r] = "idle" /\ upsert[r].stage = "none"
    BY SMTT(60) DEF Busy, NoCall
  <2> QED
    BY <2>1, <2>2, <2>3 DEF Calls, StillBlocked, AtRest
<1>2. ASSUME NEW c \in Controllers, CloseNode(c) PROVE CertInv'
  <2>1. UNCHANGED <<order, entries, blockers, server, socket, at, info, upsert, closed, late, raced>>
    BY <1>2 DEF CloseNode, orderVars
  <2>2. ManagerInv' /\ Hosts'
    BY <2>1, CertFrame
  <2> QED
    BY <2>1, <2>2 DEF Calls, StillBlocked, AtRest
<1>3. ASSUME NEW s \in Servers, Goroutine(s), UNCHANGED <<orderVars, nodeVars>> PROVE CertInv'
  <2>1. ManagerInv' /\ Hosts' /\ (server = 0 => server' = 0) /\ blockers' = blockers
    BY <1>3, GoroutineKeeps
  <2> QED
    BY <1>3, <2>1 DEF orderVars, nodeVars, Calls, StillBlocked, AtRest
<1> QED
  BY <1>1, <1>2, <1>3

LEMMA CertInvNext == CertInv /\ [NodeCertNext]_certVars => CertInv'
<1> SUFFICES ASSUME CertInv, [NodeCertNext]_certVars PROVE CertInv'
  OBVIOUS
<1>1. CASE UNCHANGED certVars
  <2>1. ManagerInv' /\ Hosts'
    BY <1>1, CertFrame DEF certVars, redirectVars
  <2> QED
    BY <1>1, <2>1 DEF certVars, orderVars, redirectVars, nodeVars, CertInv, Calls, StillBlocked,
       AtRest
<1>2. ASSUME NEW c \in Controllers, RefreshNode(c) PROVE CertInv'
  BY <1>2, BeginKeeps DEF RefreshNode, Callers
<1>3. ASSUME NEW r \in Renewers, RefreshRenewed(r) PROVE CertInv'
  BY <1>3, BeginKeeps, NodeCertConstants DEF RefreshRenewed, Callers
<1>4. ASSUME NEW u \in Callers, LoadKey(u) \/ ApplyUpsert(u) PROVE CertInv'
  BY <1>4, CallKeeps
<1>5. ASSUME NEW c \in Controllers, NodeStep(c) PROVE CertInv'
  BY <1>2, <1>4, <1>5, StartKeeps, PrepareNodeKeeps DEF NodeStep, Callers
<1>6. ASSUME NEW r \in Renewers, RenewalStep(r) PROVE CertInv'
  BY <1>3, <1>4, <1>6, RenewKeeps DEF RenewalStep, Callers
<1> QED
  BY <1>1, <1>5, <1>6, StartKeeps, RenewKeeps, CloseKeeps DEF NodeCertNext

\* The manager knows of every listener that serves, keeps one only for a node that wants
\* it and while none needs the port, and sends a host to one port (https_redirect.go).
THEOREM RedirectOwnsListener == NodeCertSpec => []ListenerOwned
<1>1. CertInv => ListenerOwned
  <2> SUFFICES ASSUME CertInv PROVE \A t \in Tags : Targets(entries[t].host) = {entries[t].port}
    BY DEF CertInv, ManagerInv, Owned, KeptForANode, ListenerOwned
  <2> QED
    BY DEF CertInv, ManagerInv, OnePort, Targets
<1> QED
  BY <1>1, CertInvInit, CertInvNext, PTL DEF NodeCertSpec

\* The redirect leaves port 443 to a node that is about to listen on it, and does not
\* take it again once it is closed (controller.go, Start; node.go, Close).
THEOREM RedirectGivesPortUp == NodeCertSpec => []PortGivenUp
<1>1. CertInv => PortGivenUp
  <2> SUFFICES ASSUME CertInv,
                      \/ ~closed /\ \E c \in Controllers : at[c] = "add" /\ Blocks(info[c]) /\ c \notin raced
                      \/ closed /\ late = {}
               PROVE  Silent
    BY DEF PortGivenUp, Silent
  <2>1. server = 0
    BY DEF CertInv, ManagerInv, KeptForANode, StillBlocked, AtRest
  <2> QED
    BY <2>1, NoServer DEF CertInv, ManagerInv
<1> QED
  BY <1>1, CertInvInit, CertInvNext, PTL DEF NodeCertSpec
=============================================================================
