----------------------------- MODULE CertOrder -----------------------------
(***************************************************************************)
(* ACME orders (node/cert.go, cert_cooldown.go, cert_preflight.go, lego.go):*)
(* an attempt to issue or to renew a certificate is checked, self-tested,   *)
(* ordered and written to two files, and a failed order pauses the next one *)
(* for the same request.  A job is one caller of placeCertOrder: the start  *)
(* or the monitor of a node, or its renewal task.  The pause is kept as the *)
(* time that is left of it.                                                 *)
(***************************************************************************)
EXTENDS Integers

CONSTANTS
    Jobs,            \* the callers
    Keys,            \* what an order asks for, and with which credentials
    KeyOf,           \* job -> key (certOrderCooldownKey)
    Files,           \* pairs of a certificate file and a key file
    FilesOf,         \* job -> the pair its config names
    Renewers,        \* the jobs that renew; the others issue
    HttpJobs,        \* the jobs whose mode is http: they need port 80
    RejectionBase, RejectionMax, LocalBase, LocalMax, RateDefault, RateMax,
    RetryAfters,     \* the delays a rate-limit answer may name
    Hour,            \* the length of the first hour, in the unit of the delays
    MaxFailures,     \* bound on the failures, of any kind
    MaxShared,       \* bound on them after a crash or two orders of a key at once
    MaxFailed,       \* the failures are counted up to this: the delay is at its cap
    MaxIssues,       \* no certificate ages once this many were issued
    MaxCrashes       \* bound on the crashes of the process

ASSUME OrderConstants ==
    /\ KeyOf \in [Jobs -> Keys] /\ FilesOf \in [Jobs -> Files] /\ HttpJobs \subseteq Jobs
    /\ Renewers \subseteq Jobs /\ MaxFailed \in Nat /\ MaxFailed >= 5
    /\ RejectionBase \in Nat \ {0} /\ RejectionMax \in Nat /\ LocalBase \in Nat \ {0}
    /\ LocalMax \in Nat /\ RateDefault \in Nat /\ RateMax \in Nat
    /\ RetryAfters \subseteq Nat /\ Hour \in Nat /\ MaxFailures \in Nat
    /\ MaxShared \in Nat
    /\ MaxIssues \in Nat /\ MaxCrashes \in Nat

\* Four doublings reach either cap, a 5m base is at its 1h cap after them; an
\* hour is over before a fifth rejection: 15 bases are 75 minutes.
ASSUME BackoffConstants ==
    /\ 8 * RejectionBase <= RejectionMax /\ RejectionMax <= 16 * RejectionBase
    /\ LocalMax <= 16 * LocalBase
    /\ Hour < 15 * RejectionBase

VARIABLES
    order,     \* where each job is in placeCertOrder
    cooldown,  \* certOrders.entries: key -> rejections, local failures, time left
    mine,      \* the issue an order was given
    disk,      \* the issue each file of a pair was written from, 0 for no file
    due,       \* pairs whose certificate is in the renewal window
    spent,     \* history: key -> rejections and time since the first of them
    overlap,   \* history: keys two orders of which were under way at once
    issued, failures, crashes

orderVars == <<order, cooldown, mine, disk, due, spent, overlap, issued, failures,
               crashes>>

Least(a, b) == IF a <= b THEN a ELSE b
Most(a, b) == IF a >= b THEN a ELSE b

NoFailure == [rejections |-> 0, locals |-> 0, left |-> 0]
NoneSpent == [count |-> 0, since |-> 0]

\* A process finds no files, or those an earlier one has left; it may have been
\* killed between the two.
NoPair == [cert |-> 0, key |-> 0]
HalfPair == [cert |-> 1, key |-> 0]
FirstPair == [cert |-> 1, key |-> 1]

OrderInitWith(failed) ==
    /\ order = [j \in Jobs |-> "idle"]
    /\ cooldown = [k \in Keys |-> NoFailure]
    /\ mine = [j \in Jobs |-> 0]
    /\ disk \in [Files -> {NoPair, HalfPair, FirstPair}]
    /\ due = {}
    /\ spent = [k \in Keys |-> NoneSpent] /\ overlap = {}
    /\ issued = 1 /\ failures = failed /\ crashes = 0

OrderInit == OrderInitWith(0)

Ordering == {"preflight", "account", "obtain", "writeCert", "writeKey", "record"}

\* The orders of k under way, from the look at the cooldown on.
Flying(k) == {j \in Jobs : KeyOf[j] = k /\ order[j] \in Ordering}

OrderGo(j, stage) == order' = [order EXCEPT ![j] = stage]

\* A failure of any kind; how many there are is the bound.
OrderFault == /\ failures < IF overlap = {} /\ crashes = 0 THEN MaxFailures ELSE MaxShared
              /\ failures' = failures + 1

-----------------------------------------------------------------------------
(* The cooldown                                                              *)

\* Mutant: the delay does not grow.
FlatBackoff(base, most, failed) == base

\* doublingBackoff
DoublingBackoff(base, most, failed) ==
    Least(most, CASE failed <= 1 -> base
                  [] failed = 2 -> 2 * base
                  [] failed = 3 -> 4 * base
                  [] failed = 4 -> 8 * base
                  [] OTHER -> 16 * base)

\* rateLimitPause: the delay the answer names, if one can be read.
RateLimitPauses ==
    {RateDefault} \union {Least(Most(r, LocalBase), RateMax) : r \in RetryAfters}

\* RecordFailure: what becomes of the entry, per kind of failure.
AfterRejection(e) ==
    [e EXCEPT !.rejections = Least(@ + 1, MaxFailed),
              !.left = DoublingBackoff(RejectionBase, RejectionMax, e.rejections + 1)]

AfterRateLimit(e, pause) == [e EXCEPT !.rejections = Least(@ + 1, MaxFailed), !.left = pause]

AfterLocalFailure(e) ==
    [e EXCEPT !.locals = Least(@ + 1, MaxFailed),
              !.left = DoublingBackoff(LocalBase, LocalMax, e.locals + 1)]

\* A rejection spends a slot; the first one starts the hour.
Spend(k) ==
    spent' = [spent EXCEPT ![k] =
        IF @.count = 0 THEN [count |-> 1, since |-> 0]
        ELSE IF @.since <= Hour THEN [count |-> @.count + 1, since |-> @.since]
        ELSE @]

RecordFailure(j, entry) ==
    /\ cooldown' = [cooldown EXCEPT ![KeyOf[j]] = entry]
    /\ OrderGo(j, "idle")

\* The order of j fails in one of the ways RecordFailure tells apart.
OrderFails(j, authorising) ==
    LET e == cooldown[KeyOf[j]]
    IN  /\ OrderFault
        /\ \/ /\ RecordFailure(j, AfterRejection(e))
              /\ IF authorising THEN Spend(KeyOf[j]) ELSE UNCHANGED spent
           \/ /\ \E pause \in RateLimitPauses : RecordFailure(j, AfterRateLimit(e, pause))
              /\ UNCHANGED spent
           \/ RecordFailure(j, AfterLocalFailure(e)) /\ UNCHANGED spent

-----------------------------------------------------------------------------
(* placeCertOrder                                                            *)

Missing(f) == disk[f].cert = 0 \/ disk[f].key = 0

\* renewCertTask looks at the certificate only.
RenewalWanted(j) == disk[FilesOf[j]].cert # 0 /\ FilesOf[j] \in due

\* requestCert orders nothing for a pair that is there.
Wanted(j) == IF j \in Renewers THEN RenewalWanted(j) ELSE Missing(FilesOf[j])

\* certOrderCooldown.Check
Check(k) == cooldown[k].left = 0

\* The static check may fail, and so may Check: neither leaves a trace.
BeginOrder(j) ==
    /\ order[j] = "idle" /\ Wanted(j) /\ Check(KeyOf[j])
    /\ OrderGo(j, "preflight")
    /\ overlap' = overlap \union (IF Flying(KeyOf[j]) = {} THEN {} ELSE {KeyOf[j]})
    /\ UNCHANGED <<cooldown, mine, disk, due, spent, issued, failures, crashes>>

\* Another order answers an HTTP-01 challenge.
Port80Busy(j) == j \in HttpJobs /\ \E i \in HttpJobs \ {j} : order[i] = "obtain"

\* A directory cannot be written, the DNS provider refuses the test record or takes
\* too long, or the domain does not resolve.
SelfTestFails(j) == OrderGo(j, "idle") /\ OrderFault

\* certPreflight.Run: a failed self-test starts no cooldown.
Preflight(j) ==
    /\ order[j] = "preflight"
    /\ \/ ~Port80Busy(j) /\ OrderGo(j, "account") /\ UNCHANGED failures
       \/ Port80Busy(j) /\ OrderGo(j, "idle") /\ UNCHANGED failures
       \/ SelfTestFails(j)
    /\ UNCHANGED <<cooldown, mine, disk, due, spent, overlap, issued, crashes>>

\* NewLegoUser: the account is loaded, or registered and saved; the CA may reject
\* the registration, which spends no slot, and neither file nor network is sure.
LegoUserFails(j) == OrderFails(j, FALSE)

\* NewLego
Account(j) ==
    /\ order[j] = "account"
    /\ \/ OrderGo(j, "obtain") /\ UNCHANGED <<cooldown, spent, failures>>
       \/ LegoUserFails(j)
    /\ UNCHANGED <<mine, disk, due, overlap, issued, crashes>>

\* RenewCert asks again whether the renewal is due: another node with the same
\* files may have been first.
StillDue(j) == j \in Renewers => FilesOf[j] \in due

\* Obtain and Renew, at the CA.  A challenge that finds port 80 taken is a local
\* failure.
Obtain(j) ==
    /\ order[j] = "obtain"
    /\ \/ /\ ~StillDue(j) /\ OrderGo(j, "record")
          /\ UNCHANGED <<cooldown, mine, spent, issued, failures>>
       \/ /\ StillDue(j) /\ OrderGo(j, "writeCert")
          /\ issued' = issued + 1 /\ mine' = [mine EXCEPT ![j] = issued + 1]
          /\ UNCHANGED <<cooldown, spent, failures>>
       \/ StillDue(j) /\ OrderFails(j, TRUE) /\ UNCHANGED <<mine, issued>>
       \/ /\ StillDue(j) /\ Port80Busy(j)
          /\ RecordFailure(j, AfterLocalFailure(cooldown[KeyOf[j]]))
          /\ UNCHANGED <<mine, spent, issued, failures>>
    /\ UNCHANGED <<disk, due, overlap, crashes>>

\* writeCert: two files, one after the other; a file that cannot be written
\* fails the order.
WriteFile(j, stage, next) ==
    /\ order[j] = stage
    /\ \/ /\ IF stage = "writeCert"
             THEN /\ disk' = [disk EXCEPT ![FilesOf[j]].cert = mine[j]]
                  /\ due' = due \ {FilesOf[j]}
             ELSE disk' = [disk EXCEPT ![FilesOf[j]].key = mine[j]] /\ UNCHANGED due
          /\ OrderGo(j, next) /\ UNCHANGED <<cooldown, failures>>
       \/ /\ RecordFailure(j, AfterLocalFailure(cooldown[KeyOf[j]])) /\ OrderFault
          /\ UNCHANGED <<disk, due>>
    /\ UNCHANGED <<mine, spent, overlap, issued, crashes>>

\* RecordSuccess
RecordSuccess(j) ==
    /\ order[j] = "record"
    /\ cooldown' = [cooldown EXCEPT ![KeyOf[j]] = NoFailure]
    /\ spent' = [spent EXCEPT ![KeyOf[j]] = NoneSpent]
    /\ OrderGo(j, "idle")
    /\ UNCHANGED <<mine, disk, due, overlap, issued, failures, crashes>>

OrderStep(j) ==
    \/ BeginOrder(j) \/ Preflight(j) \/ Account(j) \/ Obtain(j)
    \/ WriteFile(j, "writeCert", "writeKey") \/ WriteFile(j, "writeKey", "record")
    \/ RecordSuccess(j)

-----------------------------------------------------------------------------
(* Time, age and crashes, external                                           *)

\* Mutant: a pause has no end.
TickKeepsPauses == UNCHANGED cooldown

\* The pauses run down.
PausesRun == cooldown' = [k \in Keys |-> [cooldown[k] EXCEPT !.left = Most(@ - 1, 0)]]

Tick ==
    /\ PausesRun
    /\ spent' = [k \in Keys |-> IF spent[k].count = 0 THEN spent[k]
                                ELSE [spent[k] EXCEPT !.since = Least(@ + 1, Hour + 1)]]
    /\ UNCHANGED <<order, mine, disk, due, overlap, issued, failures, crashes>>

\* certRenewalDue: a certificate comes into its last 31 days.
Age(f) ==
    /\ disk[f].cert # 0 /\ issued < MaxIssues
    /\ due' = due \union {f}
    /\ UNCHANGED <<order, cooldown, mine, disk, spent, overlap, issued, failures,
                   crashes>>

\* The cooldown is kept in memory, the files are not.
Crash ==
    /\ crashes < MaxCrashes /\ crashes' = crashes + 1 /\ OrderFault
    /\ order' = [j \in Jobs |-> "idle"] /\ mine' = [j \in Jobs |-> 0]
    /\ cooldown' = [k \in Keys |-> NoFailure]
    /\ spent' = [k \in Keys |-> NoneSpent] /\ overlap' = {}
    /\ UNCHANGED <<disk, due, issued>>

OrderNext == \/ \E j \in Jobs : OrderStep(j)
             \/ Tick \/ Crash \/ \E f \in Files : Age(f)

\* The callers come back: a failed start is retried, the renewal runs daily.
OrderFairness == WF_orderVars(Tick) /\ \A j \in Jobs : WF_orderVars(OrderStep(j))

OrderSpec == OrderInit /\ [][OrderNext]_orderVars
OrderFairSpec == OrderSpec /\ OrderFairness

-----------------------------------------------------------------------------
(* Properties                                                                *)

\* The delays keep at most four rejections inside the first hour
\* (cert_cooldown.go, acmeRejectionBackoffBase), as long as no two orders for
\* the same request are under way at once: Check and RecordFailure are not one
\* step, and nodes that share a domain share the key.
AtMostFour ==
    \A k \in Keys : k \notin overlap /\ spent[k].since <= Hour => spent[k].count <= 4

\* As the comment has it, for nodes that share a domain too.
AtMostFourEver == \A k \in Keys : spent[k].since <= Hour => spent[k].count <= 4

\* Once the failures end every pair is there and every certificate that is due
\* is renewed (cert.go, placeCertOrder: the next attempt goes straight through).
Issued == /\ \A j \in Jobs \ Renewers : <>[]~Missing(FilesOf[j])
          /\ \A j \in Renewers : <>[](FilesOf[j] \notin due)
=============================================================================
