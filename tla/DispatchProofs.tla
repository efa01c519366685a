--------------------------- MODULE DispatchProofs ---------------------------
(***************************************************************************)
(* Traffic is counted once and reported at most once, and a removal finds   *)
(* every link of its user, for any sets of users and connections and any    *)
(* number of transfers, removals and reports; sniffing loses no data and     *)
(* leaves no fake address.                                                  *)
(***************************************************************************)
EXTENDS Dispatch, Sniffing, TLAPS

\* A leaf is left to Zenon unless it names another prover.
USE ZenonT(60)

ConnStages == {"none", "check", "manage", "store", "link", "count", "route", "open", "closed"}

ConnRecords ==
    [at : ConnStages, user : Users \cup {None},
     kind : {"none", "pipe", "link", "stream", "hook"}, lm : Conns \cup {None},
     ts : Conns \cup {None}, cut : BOOLEAN, up : Nat, down : Nat]

ReportRecords ==
    [at : {"idle", "next", "down", "zeroUp", "zeroDown"}, todo : SUBSET Users,
     user : Users \cup {None}, ts : Conns \cup {None}, up : Nat, down : Nat,
     batch : [Users -> Nat]]

DispatchTypes ==
    /\ core \in {"xray", "sing"}
    /\ conn \in [Conns -> ConnRecords]
    /\ managers \in [Users -> Conns \cup {None}]
    /\ counters \in [Users -> Conns \cup {None}]
    /\ count \in [Conns -> [up : Nat, down : Nat]]
    /\ report \in ReportRecords
    /\ moved \in [Users -> Nat] /\ reported \in [Users -> Nat]

\* A connection with record r holds a storage once it is past the counter.
Counted(r) == r.at \in {"route", "open"} \/ (r.at = "link" /\ r.kind = "link")

Sound(r) ==
    /\ r.ts # None <=> Counted(r)
    /\ r.at \notin {"none", "closed"} => r.user \in Users

\* The connection with record r may still become the maker of a storage.
Fresh(r) == r.ts = None /\ r.at # "closed"

\* A storage in the map has one user, the user of every connection that holds it, and
\* what no connection has made yet is nowhere and empty.
Owned ==
    /\ \A c \in Conns : Sound(conn[c])
    /\ \A u, v \in Users : counters[u] = counters[v] /\ counters[u] # None => u = v
    /\ \A c \in Conns, v \in Users :
          conn[c].ts # None /\ counters[v] = conn[c].ts => v = conn[c].user
    /\ \A c \in Conns : Fresh(conn[c]) =>
          /\ \A u \in Users : counters[u] # c
          /\ \A d \in Conns : conn[d].ts # c
          /\ count[c] = Zero

\* The report reads storages that stay in the map until it is done with them: the lock
\* keeps the removals out.  What it has read is at most what is there.
Reading ==
    /\ Locked => report.at = "idle"
    /\ report.at = "idle" => report = NoReport
    /\ \A u \in report.todo : counters[u] # None
    /\ report.at \in {"down", "zeroUp", "zeroDown"} =>
          /\ report.user \in Users \ report.todo
          /\ report.ts # None /\ counters[report.user] = report.ts
    /\ report.at \in {"down", "zeroUp"} => report.up <= count[report.ts].up
    /\ report.at \in {"zeroUp", "zeroDown"} => report.down <= count[report.ts].down

\* The inductive invariant.
DispatchInv == DispatchTypes /\ Owned /\ Reading /\ TrafficConserved

\* A step that neither counts, reads nor forgets: record r replaces that of c.
Still(c, r) ==
    /\ conn' = [conn EXCEPT ![c] = r]
    /\ r \in ConnRecords /\ Sound(r)
    /\ r.ts = None \/ (r.ts = conn[c].ts /\ r.user = conn[c].user)
    /\ Fresh(r) => Fresh(conn[c])

Aside ==
    /\ core' = core
    /\ conn' = conn \/ \E c \in Conns, r \in ConnRecords : Still(c, r)
    /\ managers' \in [Users -> Conns \cup {None}]
    /\ Locked' => Locked \/ report.at = "idle"
    /\ UNCHANGED <<counters, count, report, moved, reported, leaky>>

-----------------------------------------------------------------------------
\* Such a step keeps the invariant.
LEMMA AsideKeeps ==
    ASSUME DispatchInv, Aside
    PROVE  DispatchInv'
<1>1. DispatchTypes' BY DEF DispatchInv, DispatchTypes, Aside, Still
<1>2. Owned'
  <2>1. CASE conn' = conn BY <2>1 DEF DispatchInv, Owned, Aside
  <2>2. ASSUME NEW c \in Conns, NEW r \in ConnRecords, Still(c, r) PROVE Owned'
    <3>1. conn'[c] = r /\ \A d \in Conns \ {c} : conn'[d] = conn[d]
      BY <2>2 DEF Still, DispatchInv, DispatchTypes
    <3>2. \A d \in Conns : Sound(conn'[d])
      BY <2>2, <3>1 DEF Still, DispatchInv, Owned
    <3>3. \A d \in Conns : conn'[d].ts = None
                           \/ (conn'[d].ts = conn[d].ts /\ conn'[d].user = conn[d].user)
      BY <2>2, <3>1 DEF Still
    <3>4. \A d \in Conns : Fresh(conn'[d]) => Fresh(conn[d])
      BY <2>2, <3>1 DEF Still
    <3>5. None \notin Conns BY DispatchConstants
    <3>6. UNCHANGED <<counters, count>> BY DEF Aside
    <3>. HIDE DEF Fresh, Sound
    <3>. QED BY SMTT(60), <3>2, <3>3, <3>4, <3>5, <3>6 DEF DispatchInv, Owned
  <2>. QED BY <2>1, <2>2 DEF Aside
<1>3. Reading'
  <2>1. Locked' => report.at = "idle" BY DEF Aside, DispatchInv, Reading
  <2>. QED BY <2>1 DEF DispatchInv, Reading, Aside, NoReport
<1>4. TrafficConserved'
  BY DEF DispatchInv, TrafficConserved, Aside, InHand, Pending
<1>. QED BY <1>1, <1>2, <1>3, <1>4 DEF DispatchInv

-----------------------------------------------------------------------------
(* The steps that are aside.                                                 *)

\* The set-up of a connection, up to its counter and beyond it, and its end.
LEMMA SetUpAside ==
    ASSUME DispatchInv, NEW c \in Conns,
           \/ \E u \in Users, kind \in Kinds : Accept(c, u, kind)
           \/ \E gap, refused \in BOOLEAN : CheckLimit(c, gap, refused)
           \/ LoadManager(c) \/ StoreManager(c) \/ AddLink(c)
           \/ \E refused \in BOOLEAN : RoutedDispatch(c, refused)
           \/ CloseConn(c)
    PROVE  Aside
<1>. DEFINE k == conn[c]
<1>1. k \in ConnRecords /\ Sound(k) /\ None \notin Conns
  BY DispatchConstants DEF DispatchInv, DispatchTypes, Owned
<1>2. Ended \in ConnRecords /\ Sound(Ended) /\ Ended.ts = None /\ ~Fresh(Ended)
  BY DEF Ended, NoConn, ConnRecords, ConnStages, Sound, Counted, Fresh
<1>3. ASSUME NEW u \in Users, NEW kind \in Kinds, Accept(c, u, kind) PROVE Aside
  <2>. DEFINE r == [k EXCEPT !.at = "check", !.user = u, !.kind = kind]
  <2>1. kind \in {"pipe", "link", "stream", "hook"} BY DEF Kinds
  <2>2. r \in ConnRecords /\ r.at = "check" /\ r.user = u /\ r.ts = k.ts /\ k.at = "none"
    BY <1>1, <1>3, <2>1 DEF Accept, ConnRecords, ConnStages
  <2>3. k.ts = None BY <1>1, <2>2 DEF Sound, Counted
  <2>4. Still(c, r) BY <1>3, <2>2, <2>3 DEF Accept, Still, Sound, Counted, Fresh
  <2>. QED
    BY <1>3, <2>2, <2>4 DEF Accept, Aside, sharedVars, ghostVars, DispatchInv, DispatchTypes, Locked
<1>4. ASSUME NEW gap \in BOOLEAN, NEW refused \in BOOLEAN, CheckLimit(c, gap, refused) PROVE Aside
  <2>. DEFINE r == [k EXCEPT !.at = IF core = "sing" THEN "count" ELSE "manage"]
  <2>1. r \in ConnRecords /\ r.at \in {"count", "manage"} /\ r.user = k.user /\ r.ts = k.ts /\ k.at = "check"
    BY SMTT(60), <1>1, <1>4 DEF CheckLimit, ConnRecords, ConnStages
  <2>2. conn' = [conn EXCEPT ![c] = r] \/ conn' = [conn EXCEPT ![c] = Ended]
    BY <1>4 DEF CheckLimit
  <2>3. Sound(r) /\ r.ts = None /\ Fresh(k) BY <1>1, <2>1 DEF Sound, Counted, Fresh
  <2>4. Still(c, r) \/ Still(c, Ended) BY <1>2, <2>1, <2>2, <2>3 DEF Still
  <2>. QED BY <1>2, <1>4, <2>1, <2>4 DEF CheckLimit, Aside, sharedVars, DispatchInv, DispatchTypes, Locked
<1>5. ASSUME LoadManager(c) \/ StoreManager(c) PROVE Aside
  <2>1. /\ k.at \in {"manage", "store"} /\ k.user \in Users /\ k.ts = None
        /\ AfterManager(c) = IF k.kind = "link" THEN "count" ELSE "link"
    BY <1>1, <1>5 DEF LoadManager, StoreManager, Sound, Counted, AfterManager
  <2>2. managers' \in [Users -> Conns \cup {None}]
    BY SMTT(60), <1>5, <2>1 DEF LoadManager, StoreManager, sharedVars, DispatchInv, DispatchTypes
  <2>3. PICK lm \in Conns \cup {None}, stage \in {"store", AfterManager(c)} :
            conn' = [conn EXCEPT ![c] = [k EXCEPT !.lm = lm, !.at = stage]]
    <3>1. CASE LoadManager(c) /\ managers[k.user] = None
      <4>1. conn' = [conn EXCEPT ![c] = [k EXCEPT !.lm = k.lm, !.at = "store"]]
        BY <1>1, <3>1 DEF LoadManager, ConnRecords
      <4>. QED BY <1>1, <4>1 DEF ConnRecords
    <3>2. CASE LoadManager(c) /\ managers[k.user] # None
      <4>1. conn' = [conn EXCEPT ![c] = [k EXCEPT !.lm = managers[k.user], !.at = AfterManager(c)]]
        BY <1>1, <3>2 DEF LoadManager, ConnRecords, DispatchInv, DispatchTypes
      <4>2. managers[k.user] \in Conns \cup {None} BY <2>1 DEF DispatchInv, DispatchTypes
      <4>. QED BY <4>1, <4>2
    <3>3. CASE StoreManager(c)
      <4>1. conn' = [conn EXCEPT ![c] = [k EXCEPT !.lm = c, !.at = AfterManager(c)]]
        BY <1>1, <3>3 DEF StoreManager, ConnRecords, DispatchInv, DispatchTypes
      <4>. QED BY <4>1
    <3>. QED BY <1>5, <3>1, <3>2, <3>3
  <2>. DEFINE r == [k EXCEPT !.lm = lm, !.at = stage]
  <2>4. r \in ConnRecords /\ r.at = stage /\ r.user = k.user /\ r.ts = None /\ r.kind = k.kind
    BY <1>1, <2>1, <2>3 DEF ConnRecords, ConnStages
  <2>5. Still(c, r) BY <2>1, <2>3, <2>4 DEF Still, Sound, Counted, Fresh
  <2>. QED BY <1>5, <2>2, <2>4, <2>5 DEF LoadManager, StoreManager, Aside, sharedVars, ghostVars, Locked
<1>6. CASE AddLink(c)
  <2>. DEFINE r == [k EXCEPT !.at = AfterLink(c)]
  <2>1. k.at = "link" /\ AfterLink(c) = IF k.kind = "link" THEN "route" ELSE "count"
    BY <1>6 DEF AddLink, AfterLink
  <2>2. r \in ConnRecords /\ r.at = AfterLink(c) /\ r.user = k.user /\ r.ts = k.ts /\ r.kind = k.kind
    BY <1>1, <2>1 DEF ConnRecords, ConnStages
  <2>3. conn' = [conn EXCEPT ![c] = r] BY <1>1, <1>6 DEF AddLink, ConnRecords
  <2>4. Still(c, r) BY <1>1, <2>1, <2>2, <2>3 DEF Still, Sound, Counted, Fresh
  <2>. QED BY <1>6, <2>2, <2>4 DEF AddLink, Aside, ghostVars, DispatchInv, DispatchTypes, Locked
<1>7. ASSUME NEW refused \in BOOLEAN, RoutedDispatch(c, refused) PROVE Aside
  <2>. DEFINE r == [k EXCEPT !.at = "open"]
  <2>1. r \in ConnRecords /\ r.at = "open" /\ r.user = k.user /\ r.ts = k.ts /\ k.at = "route"
    BY <1>1, <1>7 DEF RoutedDispatch, ConnRecords, ConnStages
  <2>2. conn' = [conn EXCEPT ![c] = r] \/ conn' = [conn EXCEPT ![c] = Ended]
    BY <1>1, <1>7 DEF RoutedDispatch, End, ConnRecords
  <2>3. Sound(r) /\ ~Fresh(r) BY <1>1, <2>1 DEF Sound, Counted, Fresh
  <2>4. Still(c, r) \/ Still(c, Ended) BY <1>2, <2>1, <2>2, <2>3 DEF Still
  <2>. QED BY <1>2, <1>7, <2>1, <2>4 DEF RoutedDispatch, Aside, DispatchInv, DispatchTypes, Locked
<1>8. CASE CloseConn(c)
  <2>1. Still(c, Ended) BY <1>2, <1>8 DEF CloseConn, End, Still
  <2>. QED BY <1>2, <1>8, <2>1 DEF CloseConn, Aside, DispatchInv, DispatchTypes, Locked
<1>. QED BY <1>3, <1>4, <1>5, <1>6, <1>7, <1>8

\* The calls of the sync task, but for the counter they forget.
LEMMA SyncAside ==
    ASSUME DispatchInv,
           \/ \E u \in Users : RemoveUser(u) \/ AddUser(u)
           \/ LoadLinks \/ Snapshot \/ (\E c \in Conns : CloseLink(c))
           \/ ForgetLinks \/ AddToInbound \/ RememberUsers \/ UpdateLimiter
    PROVE  Aside
<1>. USE DEF Aside, sharedVars, ghostVars, Locked
<1>0. managers \in [Users -> Conns \cup {None}] /\ core \in {"xray", "sing"}
  BY DEF DispatchInv, DispatchTypes
<1>1. ASSUME NEW u \in Users, RemoveUser(u) PROVE Aside BY <1>0, <1>1 DEF RemoveUser, NoSync
<1>2. ASSUME NEW u \in Users, AddUser(u) PROVE Aside BY <1>0, <1>2 DEF AddUser, NoSync
<1>3. CASE LoadLinks BY <1>0, <1>3 DEF LoadLinks
<1>4. CASE Snapshot BY <1>0, <1>4 DEF Snapshot
<1>5. ASSUME NEW c \in Conns, CloseLink(c) PROVE Aside
  <2>. DEFINE r == [conn[c] EXCEPT !.cut = TRUE]
  <2>1. conn[c] \in ConnRecords /\ Sound(conn[c]) BY DEF DispatchInv, DispatchTypes, Owned
  <2>2. /\ r \in ConnRecords /\ r.at = conn[c].at /\ r.user = conn[c].user
        /\ r.ts = conn[c].ts /\ r.kind = conn[c].kind
    BY <2>1 DEF ConnRecords
  <2>3. conn' = [conn EXCEPT ![c] = r] BY <1>5, <2>1 DEF CloseLink, ConnRecords
  <2>4. Still(c, r) BY <2>1, <2>2, <2>3 DEF Still, Sound, Counted, Fresh
  <2>. QED BY <1>0, <1>5, <2>2, <2>4 DEF CloseLink
<1>6. CASE ForgetLinks BY <1>0, <1>6 DEF ForgetLinks
<1>7. CASE AddToInbound BY <1>0, <1>7 DEF AddToInbound
<1>8. CASE RememberUsers BY <1>0, <1>8 DEF RememberUsers
<1>9. CASE UpdateLimiter BY <1>0, <1>9 DEF UpdateLimiter, NoSync
<1>. QED BY <1>1, <1>2, <1>3, <1>4, <1>5, <1>6, <1>7, <1>8, <1>9

\* Sessions come and go, and sing-mux is turned on and off.
LEMMA MuxAside ==
    ASSUME DispatchInv, SetSingMux \/ \E u \in Users : OpenCarrier(u) \/ CloseCarrier(u)
    PROVE  Aside
BY DEF DispatchInv, DispatchTypes, SetSingMux, OpenCarrier, CloseCarrier, Aside, sharedVars,
       ghostVars, Locked

-----------------------------------------------------------------------------
(* The steps that count, read or forget.                                     *)

\* What waits, and what the report has in hand, are numbers.
LEMMA PendingNat ==
    ASSUME DispatchTypes, NEW v \in Users
    PROVE  Pending(v) \in Nat
<1>1. counters[v] # None => count[counters[v]] \in [up : Nat, down : Nat] BY DEF DispatchTypes
<1>. QED BY SMTT(60), <1>1 DEF Pending

LEMMA InHandNat ==
    ASSUME DispatchTypes, NEW v \in Users
    PROVE  InHand(v) \in Nat
<1>1. report.batch \in [Users -> Nat] /\ report.up \in Nat BY DEF DispatchTypes, ReportRecords
<1>. QED BY SMTT(60), <1>1 DEF InHand

\* A connection takes the storage of its user, or the empty one it makes.
LEMMA GetCounterKeeps ==
    ASSUME DispatchInv, NEW c \in Conns, GetCounter(c)
    PROVE  DispatchInv'
<1>. DEFINE k == conn[c]
            u == k.user
            ts == StorageFor(c, u)
            r == [k EXCEPT !.ts = ts, !.at = AfterCount(c)]
<1>1. k \in ConnRecords /\ Sound(k) /\ k.at = "count" /\ None \notin Conns
  BY DispatchConstants DEF DispatchInv, DispatchTypes, Owned, GetCounter
<1>2. u \in Users /\ k.ts = None /\ Fresh(k) BY <1>1 DEF Sound, Counted, Fresh
<1>3. counters[u] \in Conns \cup {None} /\ ts \in Conns
  BY <1>2 DEF DispatchInv, DispatchTypes, StorageFor
<1>4. AfterCount(c) \in {"link", "open", "route"} /\ (AfterCount(c) = "link" => k.kind = "link")
  BY DEF AfterCount
<1>5. /\ r \in ConnRecords /\ r.ts = ts /\ r.user = u /\ r.at = AfterCount(c) /\ r.kind = k.kind
  BY <1>1, <1>3, <1>4 DEF ConnRecords, ConnStages
<1>6. conn' = [conn EXCEPT ![c] = r]
  BY <1>1, <1>2, <1>3 DEF GetCounter, ConnRecords, DispatchInv, DispatchTypes
<1>7. counters' = [counters EXCEPT ![u] = ts] BY DEF GetCounter
<1>8. UNCHANGED <<core, managers, count, sync, report, moved, reported, leaky>>
  BY DEF GetCounter, ghostVars
<1>9. conn'[c] = r /\ \A d \in Conns \ {c} : conn'[d] = conn[d]
  BY <1>6 DEF DispatchInv, DispatchTypes
<1>10. counters'[u] = ts /\ \A v \in Users \ {u} : counters'[v] = counters[v]
  BY <1>2, <1>7 DEF DispatchInv, DispatchTypes
<1>11. ts = counters[u] \/ (counters[u] = None /\ ts = c) BY DEF StorageFor
<1>12. \A v \in Users : counters[v] # c BY <1>2 DEF DispatchInv, Owned
<1>13. \A d \in Conns : conn[d].ts # c BY <1>2 DEF DispatchInv, Owned
<1>14. count[c] = Zero BY <1>2 DEF DispatchInv, Owned
<1>. HIDE DEF k, u, ts, r
<1>15. DispatchTypes'
  BY <1>2, <1>3, <1>5, <1>6, <1>7, <1>8 DEF DispatchInv, DispatchTypes
<1>16. Owned'
  <2>1. Sound(r) /\ ~Fresh(r)
    BY <1>1, <1>2, <1>3, <1>4, <1>5 DEF Sound, Counted, Fresh
  <2>2. \A d \in Conns : Sound(conn'[d]) BY <1>9, <2>1 DEF DispatchInv, Owned
  <2>3. \A v, w \in Users : counters'[v] = counters'[w] /\ counters'[v] # None => v = w
    BY SMTT(60), <1>2, <1>10, <1>11, <1>12 DEF DispatchInv, Owned
  <2>4. ASSUME NEW d \in Conns, NEW v \in Users, conn'[d].ts # None, counters'[v] = conn'[d].ts
        PROVE  v = conn'[d].user
    <3>1. CASE d = c
      BY SMTT(60), <1>2, <1>5, <1>9, <1>10, <1>11, <1>12, <2>4, <3>1 DEF DispatchInv, Owned
    <3>2. CASE d # c
      <4>1. conn'[d] = conn[d] BY <1>9, <3>2
      <4>2. counters[v] = conn[d].ts BY <1>10, <1>11, <1>13, <2>4, <4>1
      <4>. QED BY SMTT(60), <2>4, <4>1, <4>2 DEF DispatchInv, Owned
    <3>. QED BY <3>1, <3>2
  <2>5. ASSUME NEW d \in Conns, Fresh(conn'[d])
        PROVE  /\ \A v \in Users : counters'[v] # d
               /\ \A b \in Conns : conn'[b].ts # d
               /\ count[d] = Zero
    <3>1. d # c /\ Fresh(conn[d]) BY <1>9, <2>1, <2>5
    <3>2. /\ \A v \in Users : counters[v] # d
          /\ \A b \in Conns : conn[b].ts # d
          /\ count[d] = Zero
      BY <3>1 DEF DispatchInv, Owned
    <3>3. ts # d BY <1>2, <1>11, <3>1, <3>2
    <3>. QED BY <1>5, <1>9, <1>10, <3>2, <3>3
  <2>. QED BY <1>8, <2>2, <2>3, <2>4, <2>5 DEF Owned
<1>17. Reading'
  <2>1. \A v \in Users : counters[v] # None => counters'[v] = counters[v]
    BY <1>10, <1>11
  <2>2. report.todo \subseteq Users BY DEF DispatchInv, DispatchTypes, ReportRecords
  <2>. QED BY <1>8, <2>1, <2>2 DEF DispatchInv, Reading, Locked, NoReport
<1>18. TrafficConserved'
  <2>1. ASSUME NEW v \in Users PROVE Pending(v)' = Pending(v)
    <3>1. CASE counters'[v] = counters[v] BY <1>8, <3>1 DEF Pending
    <3>2. CASE counters'[v] # counters[v]
      <4>1. counters[v] = None /\ counters'[v] = c BY <1>10, <1>11, <3>2
      <4>. QED BY SMTT(60), <1>1, <1>8, <1>14, <4>1 DEF Pending, Zero
    <3>. QED BY <3>1, <3>2
  <2>2. \A v \in Users : InHand(v)' = InHand(v) BY <1>8 DEF InHand
  <2>. QED BY <1>8, <2>1, <2>2 DEF DispatchInv, TrafficConserved
<1>. QED BY <1>15, <1>16, <1>17, <1>18 DEF DispatchInv

\* A transfer adds to the storage of its connection: to what waits of its user while the
\* storage is in the map, to nothing otherwise.
LEMMA TransferKeeps ==
    ASSUME DispatchInv, NEW c \in Conns, NEW dir \in {"up", "down"}, Transfer(c, dir)
    PROVE  DispatchInv'
<1>. DEFINE k == conn[c]
            u == k.user
            s == k.ts
            total(t) == t.up + t.down
            r == [k EXCEPT ![dir] = @ + 1]
            t1 == [count[s] EXCEPT ![dir] = @ + 1]
<1>1. k \in ConnRecords /\ Sound(k) /\ k.at = "open" /\ None \notin Conns
  BY DispatchConstants DEF DispatchInv, DispatchTypes, Owned, Transfer
<1>2. u \in Users /\ s \in Conns BY <1>1 DEF Sound, Counted, ConnRecords
<1>3. count[s] \in [up : Nat, down : Nat] BY <1>2 DEF DispatchInv, DispatchTypes
<1>4. /\ t1 \in [up : Nat, down : Nat] /\ total(t1) = total(count[s]) + 1
      /\ t1.up >= count[s].up /\ t1.down >= count[s].down
  <2>1. CASE dir = "up" BY SMTT(60), <1>3, <2>1
  <2>2. CASE dir = "down" BY SMTT(60), <1>3, <2>2
  <2>. QED BY <2>1, <2>2
<1>5. /\ r \in ConnRecords /\ r.at = k.at /\ r.user = u /\ r.ts = s /\ r.kind = k.kind
  <2>1. CASE dir = "up" BY SMTT(60), <1>1, <2>1 DEF ConnRecords
  <2>2. CASE dir = "down" BY SMTT(60), <1>1, <2>2 DEF ConnRecords
  <2>. QED BY <2>1, <2>2
<1>6. conn' = [conn EXCEPT ![c] = r] /\ count' = [count EXCEPT ![s] = t1]
  BY <1>2 DEF Transfer, DispatchInv, DispatchTypes
<1>7. /\ moved' = [moved EXCEPT ![u] = @ + 1]
      /\ leaky' = IF counters[u] = s THEN leaky ELSE leaky \cup {u}
      /\ UNCHANGED <<core, managers, counters, sync, report, reported>>
  BY DEF Transfer
<1>8. conn'[c] = r /\ \A d \in Conns \ {c} : conn'[d] = conn[d]
  BY <1>6 DEF DispatchInv, DispatchTypes
<1>9. count'[s] = t1 /\ \A d \in Conns \ {s} : count'[d] = count[d]
  BY <1>2, <1>6 DEF DispatchInv, DispatchTypes
<1>10. DispatchTypes'
  <2>1. moved' \in [Users -> Nat] BY SMTT(60), <1>2, <1>7 DEF DispatchInv, DispatchTypes
  <2>. HIDE DEF k, u, s, r, t1
  <2>. QED BY <1>4, <1>5, <1>6, <1>7, <2>1 DEF DispatchInv, DispatchTypes
<1>11. \A d \in Conns : /\ conn'[d].ts = conn[d].ts /\ conn'[d].user = conn[d].user
                        /\ conn'[d].at = conn[d].at /\ conn'[d].kind = conn[d].kind
  BY <1>5, <1>8
<1>12. \A v \in Users : counters[v] = s => v = u
  BY <1>1, <1>2 DEF DispatchInv, Owned
<1>13. \A d \in Conns : Fresh(conn[d]) => d # s BY DEF DispatchInv, Owned
<1>14. moved'[u] = moved[u] + 1 /\ \A v \in Users \ {u} : moved'[v] = moved[v]
  BY <1>2, <1>7 DEF DispatchInv, DispatchTypes
<1>. HIDE DEF k, u, s, r, t1
<1>15. Owned'
  <2>1. \A d \in Conns : Sound(conn'[d]) /\ (Fresh(conn'[d]) => Fresh(conn[d]))
    BY SMTT(60), <1>11 DEF DispatchInv, Owned, Sound, Counted, Fresh
  <2>2. \A d \in Conns : Fresh(conn'[d]) => count'[d] = Zero
    BY <1>9, <1>13, <2>1 DEF DispatchInv, Owned
  <2>. QED BY SMTT(60), <1>7, <1>11, <2>1, <2>2 DEF DispatchInv, Owned
<1>16. Reading'
  <2>1. \A d \in Conns : /\ count[d].up \in Nat /\ count[d].down \in Nat
                         /\ count'[d].up \in Nat /\ count'[d].down \in Nat
                         /\ count[d].up <= count'[d].up /\ count[d].down <= count'[d].down
    BY SMTT(60), <1>3, <1>4, <1>9 DEF DispatchInv, DispatchTypes
  <2>2. report.up \in Nat /\ report.down \in Nat /\ report.ts \in Conns \cup {None}
    BY DEF DispatchInv, DispatchTypes, ReportRecords
  <2>3. report.ts # None => /\ count[report.ts].up <= count'[report.ts].up
                            /\ count[report.ts].down <= count'[report.ts].down
                            /\ count[report.ts].up \in Nat /\ count'[report.ts].up \in Nat
                            /\ count[report.ts].down \in Nat /\ count'[report.ts].down \in Nat
    BY <2>1, <2>2
  <2>4. Locked' = Locked /\ report' = report /\ counters' = counters
    BY <1>7 DEF Locked
  <2>. QED BY SMTT(60), <2>2, <2>3, <2>4 DEF DispatchInv, Reading, NoReport
<1>17. TrafficConserved'
  <2>1. ASSUME NEW v \in Users
        PROVE  /\ reported'[v] + InHand(v)' + Pending(v)' <= moved'[v]
               /\ v \notin leaky' => reported'[v] + InHand(v)' + Pending(v)' = moved'[v]
    <3>1. InHand(v)' = InHand(v) /\ reported'[v] = reported[v] BY <1>7 DEF InHand
    <3>2. /\ reported[v] \in Nat /\ InHand(v) \in Nat /\ Pending(v) \in Nat /\ moved[v] \in Nat
      BY PendingNat, InHandNat DEF DispatchInv, DispatchTypes
    <3>3. CASE counters[v] = s
      <4>1. v = u BY <1>12, <3>3
      <4>2. Pending(v)' = Pending(v) + 1
        BY <1>1, <1>2, <1>3, <1>4, <1>7, <1>9, <3>3 DEF Pending
      <4>3. moved'[v] = moved[v] + 1 /\ leaky' = leaky BY <1>7, <1>14, <3>3, <4>1
      <4>. QED BY SMTT(60), <3>1, <3>2, <4>2, <4>3 DEF DispatchInv, TrafficConserved
    <3>4. CASE counters[v] # s
      <4>1. Pending(v)' = Pending(v)
        BY <1>7, <1>9, <3>4 DEF Pending, DispatchInv, DispatchTypes
      <4>2. moved'[v] \in {moved[v], moved[v] + 1} BY <1>14
      <4>3. v \notin leaky' => v \notin leaky /\ v # u BY <1>7, <3>4
      <4>. QED BY SMTT(60), <1>14, <3>1, <3>2, <4>1, <4>2, <4>3 DEF DispatchInv, TrafficConserved
    <3>. QED BY <3>3, <3>4
  <2>. QED BY <2>1 DEF TrafficConserved
<1>. QED BY <1>10, <1>15, <1>16, <1>17 DEF DispatchInv

\* Storages may leave the map, and those that were made may change.
LEMMA OwnedKept ==
    ASSUME DispatchInv, conn' = conn,
           \A v \in Users : counters'[v] \in {counters[v], None},
           \A d \in Conns : (\A v \in Users : counters[v] # d) => count'[d] = count[d]
    PROVE  Owned'
<1>1. None \notin Conns BY DispatchConstants
<1>. QED BY SMTT(60), <1>1 DEF DispatchInv, Owned

\* A removal forgets the storage of its user while no report reads.
LEMMA DeleteKeeps ==
    ASSUME DispatchInv, DeleteCounter \/ ForgetUsers
    PROVE  DispatchInv'
<1>. DEFINE u == sync.user
<1>1. report.at = "idle" /\ report = NoReport
  BY DEF DeleteCounter, ForgetUsers, DispatchInv, Reading, Locked
<1>2. /\ counters' = [counters EXCEPT ![u] = None]
      /\ leaky' = IF Pending(u) = 0 THEN leaky ELSE leaky \cup {u}
      /\ UNCHANGED <<core, conn, managers, count, report, moved, reported>>
  BY DEF DeleteCounter, ForgetUsers, Delete
<1>3. \A v \in Users : counters'[v] = IF v = u THEN None ELSE counters[v]
  BY <1>2 DEF DispatchInv, DispatchTypes
<1>4. DispatchTypes' BY <1>2 DEF DispatchInv, DispatchTypes
<1>5. Owned' BY <1>2, <1>3, OwnedKept
<1>6. Reading' BY <1>1, <1>2 DEF Reading, NoReport
<1>7. ASSUME NEW v \in Users
      PROVE  /\ reported'[v] + InHand(v)' + Pending(v)' <= moved'[v]
             /\ v \notin leaky' => reported'[v] + InHand(v)' + Pending(v)' = moved'[v]
  <2>1. InHand(v)' = InHand(v) /\ reported'[v] = reported[v] /\ moved'[v] = moved[v]
    BY <1>2 DEF InHand
  <2>2. reported[v] \in Nat /\ InHand(v) \in Nat /\ Pending(v) \in Nat /\ moved[v] \in Nat
    BY PendingNat, InHandNat DEF DispatchInv, DispatchTypes
  <2>3. CASE v = u
    <3>1. Pending(v)' = 0 BY <1>3, <2>3 DEF Pending
    <3>2. v \notin leaky' => v \notin leaky /\ Pending(v) = 0 BY <1>2, <2>3
    <3>. QED BY SMTT(60), <2>1, <2>2, <3>1, <3>2 DEF DispatchInv, TrafficConserved
  <2>4. CASE v # u
    <3>1. Pending(v)' = Pending(v) BY SMTT(60), <1>2, <1>3, <2>4 DEF Pending
    <3>2. v \notin leaky' => v \notin leaky BY <1>2
    <3>. QED BY <2>1, <2>2, <3>1, <3>2 DEF DispatchInv, TrafficConserved
  <2>. QED BY <2>3, <2>4
<1>. QED BY <1>4, <1>5, <1>6, <1>7 DEF DispatchInv, TrafficConserved

\* The report begins, and loads the two counters of a user, without a trace.
LEMMA LoadsKeep ==
    ASSUME DispatchInv, BeginReport \/ (\E u \in Users : LoadUp(u)) \/ LoadDown
    PROVE  DispatchInv'
<1>1. UNCHANGED <<core, conn, managers, counters, count, sync, moved, reported, leaky>>
  BY DEF BeginReport, LoadUp, LoadDown, sharedVars, ghostVars
<1>2. report \in ReportRecords /\ counters \in [Users -> Conns \cup {None}]
      /\ count \in [Conns -> [up : Nat, down : Nat]]
  BY DEF DispatchInv, DispatchTypes
<1>3. Owned' BY <1>1 DEF DispatchInv, Owned
<1>4. /\ report' \in ReportRecords /\ Reading'
      /\ \A v \in Users : InHand(v)' = InHand(v)
  <2>1. CASE BeginReport
    <3>1. report = NoReport /\ ~Locked BY <2>1 DEF BeginReport, DispatchInv, Reading
    <3>2. report' = [NoReport EXCEPT !.at = "next", !.todo = {u \in Users : counters[u] # None}]
      BY <2>1 DEF BeginReport
    <3>3. /\ report' \in ReportRecords /\ report'.at = "next" /\ report'.batch = report.batch
          /\ report'.todo = {u \in Users : counters[u] # None}
      BY <3>1, <3>2 DEF NoReport, ReportRecords
    <3>4. Reading' BY <1>1, <3>1, <3>3 DEF Reading, Locked
    <3>5. \A v \in Users : InHand(v)' = InHand(v)
      BY <3>1, <3>3 DEF InHand, NoReport
    <3>. QED BY <3>3, <3>4, <3>5
  <2>2. ASSUME NEW u \in Users, LoadUp(u)
        PROVE  report' \in ReportRecords /\ Reading' /\ \A v \in Users : InHand(v)' = InHand(v)
    <3>1. report.at = "next" /\ u \in report.todo BY <2>2 DEF LoadUp
    <3>2. counters[u] \in Conns BY <1>2, <3>1 DEF DispatchInv, Reading
    <3>3. count[counters[u]].up \in Nat BY <1>2, <3>2
    <3>4. /\ report' \in ReportRecords /\ report'.at = "down" /\ report'.todo = report.todo \ {u}
          /\ report'.user = u /\ report'.ts = counters[u] /\ report'.up = count[counters[u]].up
          /\ report'.batch = report.batch
      BY <1>2, <2>2, <3>2, <3>3 DEF LoadUp, ReportRecords
    <3>5. Reading'
      BY SMTT(60), <1>1, <3>1, <3>2, <3>3, <3>4, DispatchConstants DEF DispatchInv, Reading, Locked
    <3>6. \A v \in Users : InHand(v)' = InHand(v) BY <3>1, <3>4 DEF InHand
    <3>. QED BY <3>4, <3>5, <3>6
  <2>3. CASE LoadDown
    <3>1. report.at = "down" /\ report.ts \in Conns
      BY <1>2, <2>3 DEF LoadDown, DispatchInv, Reading, ReportRecords
    <3>2. count[report.ts].down \in Nat BY <1>2, <3>1
    <3>3. /\ report' \in ReportRecords /\ report'.at \in {"zeroUp", "next"}
          /\ report'.down = count[report.ts].down
          /\ report'.todo = report.todo /\ report'.user = report.user /\ report'.ts = report.ts
          /\ report'.up = report.up /\ report'.batch = report.batch
      BY <1>2, <2>3, <3>2 DEF LoadDown, ReportRecords
    <3>4. Reading' BY SMTT(60), <1>1, <3>1, <3>2, <3>3 DEF DispatchInv, Reading, Locked
    <3>5. \A v \in Users : InHand(v)' = InHand(v) BY <3>1, <3>3 DEF InHand
    <3>. QED BY <3>3, <3>4, <3>5
  <2>. QED BY <2>1, <2>2, <2>3
<1>5. DispatchTypes' BY <1>1, <1>4 DEF DispatchInv, DispatchTypes
<1>6. \A v \in Users : Pending(v)' = Pending(v) BY <1>1 DEF Pending
<1>7. TrafficConserved' BY <1>1, <1>4, <1>6 DEF DispatchInv, TrafficConserved
<1>. QED BY <1>3, <1>4, <1>5, <1>7 DEF DispatchInv

\* The counter of one direction is set to zero: what was loaded is in hand, what was
\* counted since is lost and noted.
LEMMA ZeroUpKeeps ==
    ASSUME DispatchInv, ZeroUp
    PROVE  DispatchInv'
<1>. DEFINE u == report.user
            s == report.ts
<1>1. /\ report \in ReportRecords /\ report.at = "zeroUp" /\ u \in Users /\ s \in Conns
      /\ counters[u] = s /\ report.up <= count[s].up /\ report.down <= count[s].down
      /\ None \notin Conns
  BY DispatchConstants DEF ZeroUp, DispatchInv, DispatchTypes, Reading, ReportRecords
<1>2. /\ count[s] \in [up : Nat, down : Nat] /\ report.up \in Nat /\ report.down \in Nat
      /\ report.batch \in [Users -> Nat]
  BY <1>1 DEF DispatchInv, DispatchTypes, ReportRecords
<1>3. /\ count'[s] = [up |-> 0, down |-> count[s].down]
      /\ \A d \in Conns \ {s} : count'[d] = count[d]
      /\ count' \in [Conns -> [up : Nat, down : Nat]]
  BY <1>1, <1>2 DEF ZeroUp, DispatchInv, DispatchTypes
<1>4. /\ report' \in ReportRecords /\ report'.at = "zeroDown"
      /\ report'.todo = report.todo /\ report'.user = u /\ report'.ts = s
      /\ report'.up = report.up /\ report'.down = report.down /\ report'.batch = report.batch
  BY <1>1 DEF ZeroUp, ReportRecords
<1>5. UNCHANGED <<core, conn, managers, counters, sync, moved, reported>> BY DEF ZeroUp
<1>6. leaky' = IF count[s].up = report.up THEN leaky ELSE leaky \cup {u}
  BY DEF ZeroUp, LostBetween
<1>. HIDE DEF u, s
<1>7. DispatchTypes' BY <1>3, <1>4, <1>5 DEF DispatchInv, DispatchTypes
<1>8. Owned' BY <1>1, <1>3, <1>5, OwnedKept
<1>9. Reading'
  <2>1. ~Locked' BY <1>1, <1>5 DEF DispatchInv, Reading, Locked
  <2>2. /\ report'.user \in Users \ report'.todo /\ report'.ts # None
        /\ counters'[report'.user] = report'.ts /\ report'.down <= count'[report'.ts].down
    BY SMTT(60), <1>1, <1>3, <1>4, <1>5 DEF DispatchInv, Reading, u
  <2>3. \A v \in report'.todo : counters'[v] # None BY <1>4, <1>5 DEF DispatchInv, Reading
  <2>. QED BY <1>4, <2>1, <2>2, <2>3 DEF Reading
<1>10. ASSUME NEW v \in Users
       PROVE  /\ reported'[v] + InHand(v)' + Pending(v)' <= moved'[v]
              /\ v \notin leaky' => reported'[v] + InHand(v)' + Pending(v)' = moved'[v]
  <2>1. reported[v] \in Nat /\ InHand(v) \in Nat /\ Pending(v) \in Nat /\ moved[v] \in Nat
    BY PendingNat, InHandNat DEF DispatchInv, DispatchTypes
  <2>2. reported' = reported /\ moved' = moved BY <1>5
  <2>3. CASE v = u
    <3>1. InHand(v) = report.batch[v] /\ InHand(v)' = report.batch[v] + report.up
      BY SMTT(60), <1>1, <1>2, <1>4, <2>3 DEF InHand
    <3>2. Pending(v) = count[s].up + count[s].down /\ Pending(v)' = count[s].down
      BY SMTT(60), <1>1, <1>2, <1>3, <1>5, <2>3 DEF Pending
    <3>3. v \notin leaky' => v \notin leaky /\ count[s].up = report.up BY <1>6, <2>3
    <3>. QED BY SMTT(60), <1>1, <1>2, <2>1, <2>2, <3>1, <3>2, <3>3 DEF DispatchInv, TrafficConserved
  <2>4. CASE v # u
    <3>1. InHand(v)' = InHand(v) BY <1>1, <1>4, <2>4 DEF InHand, u
    <3>2. counters[v] # s BY <1>1, <2>4 DEF DispatchInv, Owned
    <3>3. Pending(v)' = Pending(v)
      BY <1>3, <1>5, <3>2 DEF Pending, DispatchInv, DispatchTypes
    <3>4. v \notin leaky' => v \notin leaky BY <1>6
    <3>. QED BY <2>1, <2>2, <3>1, <3>3, <3>4
      DEF DispatchInv, TrafficConserved
  <2>. QED BY <2>3, <2>4
<1>. QED BY <1>7, <1>8, <1>9, <1>10 DEF DispatchInv, TrafficConserved

LEMMA AppendKeeps ==
    ASSUME DispatchInv, AppendTraffic
    PROVE  DispatchInv'
<1>. DEFINE u == report.user
            s == report.ts
            got == IF u \in known THEN report.up + report.down ELSE 0
            batch == [report.batch EXCEPT ![u] = report.batch[u] + got]
<1>1. /\ report \in ReportRecords /\ report.at = "zeroDown" /\ u \in Users \ report.todo /\ s \in Conns
      /\ counters[u] = s /\ report.down <= count[s].down /\ None \notin Conns
  BY DispatchConstants DEF AppendTraffic, DispatchInv, DispatchTypes, Reading, ReportRecords
<1>2. /\ count[s] \in [up : Nat, down : Nat] /\ report.up \in Nat /\ report.down \in Nat
      /\ report.batch \in [Users -> Nat] /\ got \in Nat /\ report.todo \subseteq Users
  BY SMTT(60), <1>1 DEF DispatchInv, DispatchTypes, ReportRecords
<1>3. /\ count'[s] = [up |-> count[s].up, down |-> 0]
      /\ \A d \in Conns \ {s} : count'[d] = count[d]
      /\ count' \in [Conns -> [up : Nat, down : Nat]]
  BY <1>1, <1>2 DEF AppendTraffic, ZeroDown, DispatchInv, DispatchTypes
<1>4. batch \in [Users -> Nat] BY SMTT(60), <1>1, <1>2
<1>5. /\ report' \in ReportRecords /\ report'.at = "next" /\ report'.todo = report.todo
      /\ report'.batch = batch
  <2>1. report' = [report EXCEPT !.at = "next", !.batch = batch]
    BY <1>1 DEF AppendTraffic, ReportRecords
  <2>. HIDE DEF batch
  <2>. QED BY <1>1, <1>4, <2>1 DEF ReportRecords
<1>6. /\ UNCHANGED <<core, conn, managers, sync, moved, reported>>
      /\ counters' = IF u \in known THEN counters ELSE [counters EXCEPT ![u] = None]
  BY DEF AppendTraffic
<1>7. leaky \subseteq leaky' /\ (u \notin leaky' => u \in known /\ count[s].down = report.down)
  BY DEF AppendTraffic, LostBetween
<1>8. /\ counters'[u] = IF u \in known THEN s ELSE None
      /\ \A v \in Users \ {u} : counters'[v] = counters[v]
      /\ counters' \in [Users -> Conns \cup {None}]
  BY <1>1, <1>6 DEF DispatchInv, DispatchTypes
<1>. HIDE DEF u, s
<1>9. DispatchTypes' BY <1>3, <1>5, <1>6, <1>8 DEF DispatchInv, DispatchTypes
<1>10. Owned' BY <1>1, <1>3, <1>6, <1>8, OwnedKept
<1>11. Reading'
  <2>1. ~Locked' BY <1>1, <1>6 DEF DispatchInv, Reading, Locked
  <2>2. \A v \in report'.todo : counters'[v] # None
    BY <1>1, <1>2, <1>5, <1>8 DEF DispatchInv, Reading
  <2>. QED BY <1>5, <2>1, <2>2 DEF Reading
<1>12. ASSUME NEW v \in Users
       PROVE  /\ reported'[v] + InHand(v)' + Pending(v)' <= moved'[v]
              /\ v \notin leaky' => reported'[v] + InHand(v)' + Pending(v)' = moved'[v]
  <2>1. reported[v] \in Nat /\ InHand(v) \in Nat /\ Pending(v) \in Nat /\ moved[v] \in Nat
        /\ report.batch[v] \in Nat
    BY <1>2, PendingNat, InHandNat DEF DispatchInv, DispatchTypes
  <2>2. reported' = reported /\ moved' = moved BY <1>6
  <2>3. CASE v = u
    <3>1. InHand(v) = report.batch[v] + report.up BY <1>1, <2>3 DEF InHand, u
    <3>2. InHand(v)' = report.batch[v] + got BY SMTT(60), <1>1, <1>2, <1>5, <2>3 DEF InHand
    <3>3. Pending(v) = count[s].up + count[s].down BY <1>1, <2>3 DEF Pending
    <3>4. Pending(v)' = IF u \in known THEN count[s].up ELSE 0
      BY SMTT(60), <1>1, <1>2, <1>3, <1>8, <2>3 DEF Pending
    <3>. QED
      BY SMTT(60), <1>1, <1>2, <1>7, <2>1, <2>2, <2>3, <3>1, <3>2, <3>3, <3>4
      DEF DispatchInv, TrafficConserved
  <2>4. CASE v # u
    <3>1. InHand(v)' = InHand(v)
      <4>1. InHand(v) = report.batch[v] BY SMTT(60), <2>1, <2>4 DEF InHand, u
      <4>2. report'.batch[v] = report.batch[v] BY <1>2, <1>5, <2>4
      <4>. QED BY SMTT(60), <1>5, <2>1, <4>1, <4>2 DEF InHand
    <3>2. counters[v] # s BY SMTT(60), <1>1, <2>4 DEF DispatchInv, Owned
    <3>3. Pending(v)' = Pending(v)
      BY SMTT(60), <1>3, <1>8, <2>4, <3>2 DEF Pending, DispatchInv, DispatchTypes
    <3>. QED BY <1>7, <2>1, <2>2, <3>1, <3>3 DEF DispatchInv, TrafficConserved
  <2>. QED BY <2>3, <2>4
<1>. QED BY <1>9, <1>10, <1>11, <1>12 DEF DispatchInv, TrafficConserved

\* The request is answered, or what it held is gone.
LEMMA PostKeeps ==
    ASSUME DispatchInv, NEW ok \in BOOLEAN, PostTraffic(ok)
    PROVE  DispatchInv'
<1>1. /\ report.at = "next" /\ report' = NoReport
      /\ UNCHANGED <<core, conn, managers, counters, count, sync, moved>>
  BY DEF PostTraffic, sharedVars
<1>2. report.batch \in [Users -> Nat] /\ reported \in [Users -> Nat]
  BY DEF DispatchInv, DispatchTypes, ReportRecords
<1>3. NoReport \in ReportRecords BY DEF NoReport, ReportRecords
<1>4. reported' \in [Users -> Nat] BY SMTT(60), <1>2 DEF PostTraffic
<1>5. DispatchTypes' BY <1>1, <1>3, <1>4 DEF DispatchInv, DispatchTypes
<1>6. Owned' BY <1>1 DEF DispatchInv, Owned
<1>7. Reading' BY <1>1 DEF Reading, NoReport
<1>8. ASSUME NEW v \in Users
      PROVE  /\ reported'[v] + InHand(v)' + Pending(v)' <= moved'[v]
             /\ v \notin leaky' => reported'[v] + InHand(v)' + Pending(v)' = moved'[v]
  <2>1. reported[v] \in Nat /\ Pending(v) \in Nat /\ moved[v] \in Nat /\ report.batch[v] \in Nat
    BY <1>2, PendingNat DEF DispatchInv, DispatchTypes
  <2>2. InHand(v) = report.batch[v] /\ InHand(v)' = 0 BY SMTT(60), <1>1, <2>1 DEF InHand, NoReport
  <2>3. Pending(v)' = Pending(v) /\ moved'[v] = moved[v] BY <1>1 DEF Pending
  <2>4. /\ reported[v] + InHand(v) + Pending(v) <= moved[v]
        /\ v \notin leaky => reported[v] + InHand(v) + Pending(v) = moved[v]
    BY DEF DispatchInv, TrafficConserved
  <2>5. CASE ok
    <3>1. reported'[v] = reported[v] + report.batch[v] /\ leaky' = leaky
      BY <2>5 DEF PostTraffic
    <3>. QED BY SMTT(60), <2>1, <2>2, <2>3, <2>4, <3>1
  <2>6. CASE ~ok
    <3>1. reported'[v] = reported[v] /\ (v \notin leaky' => v \notin leaky /\ report.batch[v] = 0)
      BY SMTT(60), <2>1, <2>6 DEF PostTraffic
    <3>. QED BY SMTT(60), <2>1, <2>2, <2>3, <2>4, <3>1
  <2>. QED BY <2>5, <2>6
<1>. QED BY <1>5, <1>6, <1>7, <1>8 DEF DispatchInv, TrafficConserved

-----------------------------------------------------------------------------
LEMMA DispatchInvInit == DispatchInit => DispatchInv
<1>. SUFFICES ASSUME DispatchInit PROVE DispatchInv OBVIOUS
<1>. USE DEF DispatchInit
<1>1. NoConn \in ConnRecords /\ Sound(NoConn) /\ NoConn.ts = None
  BY DEF NoConn, ConnRecords, ConnStages, Sound, Counted
<1>2. NoReport \in ReportRecords BY DEF NoReport, ReportRecords
<1>3. DispatchTypes BY <1>1, <1>2 DEF DispatchTypes, Zero
<1>4. Owned BY <1>1, DispatchConstants DEF Owned
<1>5. Reading BY DEF Reading, NoReport
<1>6. TrafficConserved BY SMTT(60) DEF TrafficConserved, InHand, Pending, NoReport
<1>. QED BY <1>3, <1>4, <1>5, <1>6 DEF DispatchInv

LEMMA DispatchInvNext == DispatchInv /\ [DispatchNext]_dispatchVars => DispatchInv'
<1>. SUFFICES ASSUME DispatchInv, [DispatchNext]_dispatchVars PROVE DispatchInv' OBVIOUS
<1>1. ASSUME NEW c \in Conns, SetUp(c) \/ CloseConn(c) PROVE DispatchInv'
  BY <1>1, SetUpAside, GetCounterKeeps, AsideKeeps DEF SetUp
<1>2. ASSUME NEW c \in Conns, NEW dir \in {"up", "down"}, Transfer(c, dir) PROVE DispatchInv'
  BY <1>2, TransferKeeps
<1>3. CASE SetSingMux \/ \E u \in Users : OpenCarrier(u) \/ CloseCarrier(u)
  BY <1>3, MuxAside, AsideKeeps
<1>4. CASE SyncStep BY <1>4, SyncAside, DeleteKeeps, AsideKeeps DEF SyncStep
<1>5. CASE ReportStep
  BY <1>5, LoadsKeep, ZeroUpKeeps, AppendKeeps, PostKeeps DEF ReportStep
<1>6. CASE UNCHANGED dispatchVars
  <2>1. Aside BY <1>6 DEF dispatchVars, sharedVars, ghostVars, Aside, DispatchInv, DispatchTypes, Locked
  <2>. QED BY <2>1, AsideKeeps
<1>. QED BY <1>1, <1>2, <1>3, <1>4, <1>5, <1>6 DEF DispatchNext

\* No traffic of a user is reported twice, and none is missing but for the four reasons
\* TrafficConserved names (common/counter, GetUserTrafficSlice of both cores): the locks
\* that keep a removal away from a report, and storages nobody shares, are enough.
THEOREM TrafficCountedOnce == DispatchSpec => []TrafficConserved
<1>1. DispatchInv => TrafficConserved BY DEF DispatchInv
<1>. QED BY <1>1, DispatchInvInit, DispatchInvNext, PTL DEF DispatchSpec

-----------------------------------------------------------------------------
(* Links: what a removal finds in the manager of its user.                   *)

SyncRecords ==
    [at : {"idle", "counter", "load", "snapshot", "close", "forgetUsers", "inbound",
           "remember", "limiterDel", "limiterAdd"},
     user : Users \cup {None}, lm : Conns \cup {None}, closing : SUBSET Conns]

\* The manager of a connection with record r is set from the manager's look-up to the
\* connection's end; the connections of sing-box never have one.
Shape(r) ==
    /\ r.lm # None => r.at \in {"link", "count", "route", "open"}
    /\ r.at \in {"link", "count", "route", "open"} /\ r.kind # "hook" => r.lm # None
    /\ r.at \in {"manage", "store", "link"} => r.kind # "hook"
    /\ r.at \notin {"none", "closed"} => (r.kind = "hook" <=> core = "sing")

\* The link of a connection with record r was added.
Linked(r) == r.at \in {"route", "open"} \/ (r.at = "count" /\ r.kind # "link")

\* A removal of the user has to close c.
Live(c) == conn[c].lm # None /\ ~conn[c].cut /\ c \notin raced

\* A removal of a user of Xray is under way, and its managers are not yet forgotten.
Removing == sync.at \in {"counter", "load", "snapshot", "close"}

\* Every live connection is in the manager of its user once it is linked; while a removal
\* runs none of its user's is being linked, the manager that the removal has loaded is
\* theirs, and those it has still to close are all that are left.
LinkInv ==
    /\ links \in [Conns -> SUBSET Conns] /\ sync \in SyncRecords
    /\ \A c \in Conns : Shape(conn[c])
    /\ \A c, m \in Conns : c \in links[m] => conn[c].lm = m
    /\ \A c \in Conns : Live(c) => managers[conn[c].user] = conn[c].lm
    /\ \A c \in Conns : Live(c) /\ Linked(conn[c]) => c \in links[conn[c].lm]
    /\ Removing => /\ sync.user \in Users \ users
                   /\ \A c \in Conns : conn[c].user = sync.user /\ BeingLinked(c) => c \in raced
    /\ sync.at = "snapshot" => /\ sync.lm \in Conns
                               /\ \A c \in Conns : Live(c) /\ conn[c].user = sync.user
                                                   => conn[c].lm = sync.lm
    /\ sync.at = "close" => \A c \in Conns : Live(c) /\ conn[c].user = sync.user
                                             => c \in sync.closing

\* Connection d is where it was; a step that moves c alone leaves the others there.
Same(d) ==
    /\ conn'[d].at = conn[d].at /\ conn'[d].user = conn[d].user /\ conn'[d].kind = conn[d].kind
    /\ conn'[d].lm = conn[d].lm /\ conn'[d].cut = conn[d].cut

Apart(c) ==
    /\ UNCHANGED <<core, managers, sync, users>>
    /\ links' \in [Conns -> SUBSET Conns]
    /\ \A d \in Conns \ {c} : /\ Same(d) /\ (d \in raced' <=> d \in raced)
                              /\ \A m \in Conns : d \in links'[m] <=> d \in links[m]

\* A step of one connection keeps the invariant when its new record is in order, it is in
\* the manager it should be in, and it does not come to life under a removal.
LEMMA OneKeepsLinks ==
    ASSUME DispatchTypes, LinkInv, NEW c \in Conns, Apart(c),
           Shape(conn[c])',
           \A m \in Conns : c \in links'[m] => conn'[c].lm = m,
           Live(c)' => managers[conn'[c].user] = conn'[c].lm,
           Live(c)' /\ Linked(conn'[c]) => c \in links'[conn'[c].lm],
           Removing /\ conn'[c].user = sync.user =>
               /\ BeingLinked(c)' => c \in raced'
               /\ Live(c)' => Live(c) /\ conn[c].user = sync.user /\ conn'[c].lm = conn[c].lm
    PROVE  LinkInv'
<1>1. \A d \in Conns \ {c} : /\ Live(d)' <=> Live(d)
                             /\ BeingLinked(d)' <=> BeingLinked(d)
                             /\ Linked(conn'[d]) <=> Linked(conn[d])
                             /\ Shape(conn[d])' <=> Shape(conn[d])
                             /\ conn'[d].user = conn[d].user /\ conn'[d].lm = conn[d].lm
  BY DEF Apart, Same, Live, BeingLinked, Linked, Shape
<1>2. UNCHANGED <<managers, sync, users>> /\ (Removing' <=> Removing) BY DEF Apart, Removing
<1>3. \A d \in Conns \ {c} : /\ d \in raced' <=> d \in raced
                             /\ \A m \in Conns : d \in links'[m] <=> d \in links[m]
  BY DEF Apart
<1>4. links' \in [Conns -> SUBSET Conns] BY DEF Apart
<1>. HIDE DEF Live, BeingLinked, Linked, Shape, Removing
<1>5. \A d \in Conns : Shape(conn[d])' BY <1>1 DEF LinkInv
<1>6. ASSUME NEW d \in Conns, NEW m \in Conns, d \in links'[m] PROVE conn'[d].lm = m
  <2>1. CASE d = c BY <1>6, <2>1
  <2>2. CASE d # c
    <3>1. d \in links[m] BY <1>3, <1>6, <2>2
    <3>2. conn[d].lm = m BY <3>1 DEF LinkInv
    <3>. QED BY <1>1, <2>2, <3>2
  <2>. QED BY <2>1, <2>2
<1>7. \A d \in Conns : Live(d)' => managers'[conn'[d].user] = conn'[d].lm
  BY <1>1, <1>2 DEF LinkInv
<1>8. \A d \in Conns : Live(d)' /\ Linked(conn'[d]) => d \in links'[conn'[d].lm]
  <2>1. ASSUME NEW d \in Conns \ {c}, Live(d), Linked(conn[d]) PROVE d \in links'[conn'[d].lm]
    <3>1. d \in links[conn[d].lm] BY <2>1 DEF LinkInv
    <3>2. conn[d].lm \in Conns BY <2>1 DEF Live, DispatchTypes, ConnRecords
    <3>. QED BY <1>1, <1>3, <3>1, <3>2
  <2>. QED BY <1>1, <2>1
<1>9. Removing' => /\ sync'.user \in Users \ users'
                   /\ \A d \in Conns : conn'[d].user = sync'.user /\ BeingLinked(d)'
                                       => d \in raced'
  <2>. SUFFICES ASSUME Removing' PROVE /\ sync'.user \in Users \ users'
                                       /\ \A d \in Conns : conn'[d].user = sync'.user
                                                            /\ BeingLinked(d)' => d \in raced'
    OBVIOUS
  <2>1. /\ sync.user \in Users \ users
        /\ \A d \in Conns : conn[d].user = sync.user /\ BeingLinked(d) => d \in raced
    BY <1>2 DEF LinkInv
  <2>2. ASSUME NEW d \in Conns, conn'[d].user = sync.user, BeingLinked(d)' PROVE d \in raced'
    <3>1. CASE d = c BY <1>2, <2>2, <3>1
    <3>2. CASE d # c BY <1>1, <1>3, <2>1, <2>2, <3>2
    <3>. QED BY <3>1, <3>2
  <2>. QED BY <1>2, <2>1, <2>2
<1>10. sync'.at = "snapshot" => /\ sync'.lm \in Conns
                                /\ \A d \in Conns : Live(d)' /\ conn'[d].user = sync'.user
                                                    => conn'[d].lm = sync'.lm
  <2>1. sync.at = "snapshot" => Removing BY DEF Removing
  <2>. QED BY <1>1, <1>2, <2>1 DEF LinkInv
<1>11. sync'.at = "close" => \A d \in Conns : Live(d)' /\ conn'[d].user = sync'.user
                                              => d \in sync'.closing
  <2>1. sync.at = "close" => Removing BY DEF Removing
  <2>. QED BY <1>1, <1>2, <2>1 DEF LinkInv
<1>12. sync' \in SyncRecords BY <1>2 DEF LinkInv
<1>. QED BY <1>4, <1>5, <1>6, <1>7, <1>8, <1>9, <1>10, <1>11, <1>12 DEF LinkInv

\* A connection without a manager is in none.
LEMMA NoManagerNoLink ==
    ASSUME LinkInv, NEW c \in Conns, conn[c].lm = None
    PROVE  \A m \in Conns : c \notin links[m]
BY DispatchConstants DEF LinkInv

LEMMA AcceptLinks ==
    ASSUME DispatchInv, LinkInv, NEW c \in Conns, NEW u \in Users, NEW kind \in Kinds,
           Accept(c, u, kind)
    PROVE  LinkInv'
<1>1. DispatchTypes /\ conn \in [Conns -> ConnRecords] BY DEF DispatchInv, DispatchTypes
<1>2. /\ conn[c].at = "none"
      /\ conn' = [conn EXCEPT ![c] = [conn[c] EXCEPT !.at = "check", !.user = u, !.kind = kind]]
      /\ UNCHANGED <<core, managers, links, sync, users, raced>>
  BY DEF Accept, sharedVars, userVars, ghostVars
<1>3. conn[c].lm = None BY <1>2 DEF LinkInv, Shape
<1>4. /\ conn'[c].at = "check" /\ conn'[c].lm = None /\ conn'[c].kind = kind
      /\ \A d \in Conns \ {c} : conn'[d] = conn[d]
  BY SMTT(60), <1>1, <1>2, <1>3 DEF ConnRecords
<1>5. Apart(c) BY <1>2, <1>4 DEF Apart, Same, LinkInv
<1>6. Shape(conn[c])'
  BY <1>1, <1>2, <1>4 DEF Shape, Kinds, DispatchTypes
<1>7. ~Live(c)' /\ ~BeingLinked(c)' BY <1>4 DEF Live, BeingLinked
<1>8. \A m \in Conns : c \in links'[m] => conn'[c].lm = m
  BY <1>2, <1>3, NoManagerNoLink
<1>. QED BY <1>1, <1>5, <1>6, <1>7, <1>8, OneKeepsLinks

LEMMA CheckLimitLinks ==
    ASSUME DispatchInv, LinkInv, NEW c \in Conns, NEW gap \in BOOLEAN, NEW refused \in BOOLEAN,
           CheckLimit(c, gap, refused)
    PROVE  LinkInv'
<1>1. DispatchTypes /\ conn \in [Conns -> ConnRecords] BY DEF DispatchInv, DispatchTypes
<1>2. /\ conn[c].at = "check" /\ UNCHANGED <<core, managers, links, sync, users>>
  BY DEF CheckLimit, sharedVars, userVars
<1>3. conn[c].lm = None /\ (conn[c].kind = "hook" <=> core = "sing")
  BY <1>2 DEF LinkInv, Shape
<1>4. PICK passes \in BOOLEAN :
        /\ conn' = [conn EXCEPT ![c] =
              IF passes THEN [conn[c] EXCEPT !.at = IF core = "sing" THEN "count" ELSE "manage"]
              ELSE Ended]
        /\ raced' = IF passes /\ conn[c].user \notin users THEN raced \cup {c} ELSE raced
  <2>1. CASE core = "sing"
    BY <2>1 DEF CheckLimit, CheckAccess
  <2>2. CASE core # "sing"
    BY <2>2 DEF CheckLimit, LinkAllowed
  <2>. QED BY <2>1, <2>2
<1>5. \A d \in Conns \ {c} : conn'[d] = conn[d] /\ (d \in raced' <=> d \in raced)
  BY <1>1, <1>4
<1>6. CASE passes
  <2>1. /\ conn'[c].at = IF core = "sing" THEN "count" ELSE "manage"
        /\ conn'[c].lm = None /\ conn'[c].kind = conn[c].kind /\ conn'[c].user = conn[c].user
    BY SMTT(60), <1>1, <1>3, <1>4, <1>6 DEF ConnRecords
  <2>2. Apart(c) BY <1>2, <1>5 DEF Apart, Same, LinkInv
  <2>3. Shape(conn[c])' BY <1>1, <1>2, <1>3, <2>1 DEF Shape, DispatchTypes
  <2>4. ~Live(c)' BY <2>1 DEF Live
  <2>5. Removing /\ conn'[c].user = sync.user => c \in raced'
    BY <1>4, <1>6, <2>1 DEF LinkInv
  <2>6. \A m \in Conns : c \in links'[m] => conn'[c].lm = m
    BY <1>2, <1>3, NoManagerNoLink
  <2>. QED BY <1>1, <2>2, <2>3, <2>4, <2>5, <2>6, OneKeepsLinks
<1>7. CASE ~passes
  <2>1. conn'[c].at = "closed" /\ conn'[c].lm = None
    BY <1>1, <1>4, <1>7 DEF Ended, NoConn
  <2>2. Apart(c) BY <1>2, <1>5 DEF Apart, Same, LinkInv
  <2>3. Shape(conn[c])' BY <2>1 DEF Shape
  <2>4. ~Live(c)' /\ ~BeingLinked(c)' BY <2>1 DEF Live, BeingLinked
  <2>6. \A m \in Conns : c \in links'[m] => conn'[c].lm = m
    BY <1>2, <1>3, NoManagerNoLink
  <2>. QED BY <1>1, <2>2, <2>3, <2>4, <2>6, OneKeepsLinks
<1>. QED BY <1>6, <1>7

LEMMA LoadManagerLinks ==
    ASSUME DispatchInv, LinkInv, NEW c \in Conns, LoadManager(c)
    PROVE  LinkInv'
<1>. DEFINE lm == managers[conn[c].user]
<1>1. DispatchTypes /\ conn \in [Conns -> ConnRecords] BY DEF DispatchInv, DispatchTypes
<1>2. /\ conn[c].at = "manage" /\ UNCHANGED <<core, managers, links, sync, users, raced>>
      /\ conn' = IF lm = None THEN [conn EXCEPT ![c].at = "store"]
                 ELSE [conn EXCEPT ![c].lm = lm, ![c].at = AfterManager(c)]
  BY DEF LoadManager, sharedVars, userVars, ghostVars
<1>3. /\ conn[c].lm = None /\ conn[c].kind # "hook" /\ core # "sing"
  BY <1>2 DEF LinkInv, Shape
<1>4. /\ \A d \in Conns \ {c} : conn'[d] = conn[d]
      /\ conn'[c].user = conn[c].user /\ conn'[c].kind = conn[c].kind
      /\ conn'[c].lm = lm
      /\ conn'[c].at = IF lm = None THEN "store" ELSE AfterManager(c)
  BY SMTT(60), <1>1, <1>2, <1>3 DEF ConnRecords
<1>5. AfterManager(c) \in {"link", "count"} /\ (AfterManager(c) = "count" => conn[c].kind = "link")
  BY DEF AfterManager
<1>. HIDE DEF lm
<1>6. Apart(c) BY <1>2, <1>4 DEF Apart, Same, LinkInv
<1>7. Shape(conn[c])' BY SMTT(60), <1>2, <1>3, <1>4, <1>5 DEF Shape
<1>8. ~Linked(conn'[c]) BY <1>3, <1>4, <1>5 DEF Linked
<1>9. managers[conn'[c].user] = conn'[c].lm BY <1>4 DEF lm
<1>10. Removing /\ conn'[c].user = sync.user => c \in raced' /\ ~Live(c)'
  BY <1>2, <1>4 DEF LinkInv, BeingLinked, Live
<1>11. \A m \in Conns : c \in links'[m] => conn'[c].lm = m
  BY <1>2, <1>3, NoManagerNoLink
<1>. QED BY <1>1, <1>6, <1>7, <1>8, <1>9, <1>10, <1>11, OneKeepsLinks

LEMMA AddLinkLinks ==
    ASSUME DispatchInv, LinkInv, NEW c \in Conns, AddLink(c)
    PROVE  LinkInv'
<1>. DEFINE lm == conn[c].lm
<1>1. DispatchTypes /\ conn \in [Conns -> ConnRecords] /\ links \in [Conns -> SUBSET Conns]
  BY DEF DispatchInv, DispatchTypes, LinkInv
<1>2. /\ conn[c].at = "link" /\ UNCHANGED <<core, managers, sync, users, raced>>
      /\ conn' = [conn EXCEPT ![c].at = AfterLink(c)]
      /\ links' = [links EXCEPT ![lm] = @ \cup {c}]
  BY DEF AddLink, userVars, ghostVars
<1>3. conn[c].kind # "hook" /\ lm # None /\ core # "sing" BY <1>2 DEF LinkInv, Shape
<1>4. lm \in Conns BY <1>1, <1>3 DEF ConnRecords
<1>5. /\ \A d \in Conns \ {c} : conn'[d] = conn[d]
      /\ conn'[c].user = conn[c].user /\ conn'[c].kind = conn[c].kind /\ conn'[c].lm = lm
      /\ conn'[c].cut = conn[c].cut /\ conn'[c].at = AfterLink(c)
  BY SMTT(60), <1>1, <1>2 DEF ConnRecords
<1>6. AfterLink(c) \in {"route", "count"} /\ (AfterLink(c) = "count" => conn[c].kind # "link")
  BY DEF AfterLink
<1>7. \A m \in Conns : c \in links[m] => m = lm BY DEF LinkInv
<1>. HIDE DEF lm
<1>8. /\ links' \in [Conns -> SUBSET Conns] /\ c \in links'[lm]
      /\ \A m \in Conns : c \in links'[m] => m = lm
      /\ \A m \in Conns : \A d \in Conns \ {c} : d \in links'[m] <=> d \in links[m]
  BY <1>1, <1>2, <1>4, <1>7
<1>9. Apart(c) BY <1>2, <1>5, <1>8 DEF Apart, Same
<1>10. Shape(conn[c])' BY <1>2, <1>3, <1>5, <1>6 DEF Shape
<1>11. Live(c)' <=> Live(c) BY <1>2, <1>5 DEF Live, lm
<1>12. Live(c) => managers[conn[c].user] = lm BY DEF LinkInv, lm
<1>13. Removing /\ conn'[c].user = sync.user => c \in raced' /\ ~Live(c)
  BY <1>2, <1>5 DEF LinkInv, BeingLinked, Live
<1>. QED BY <1>1, <1>5, <1>8, <1>9, <1>10, <1>11, <1>12, <1>13, OneKeepsLinks

\* A step that moves the connection on past its link and touches nothing else.
LEMMA OnwardLinks ==
    ASSUME DispatchInv, LinkInv, NEW c \in Conns,
           UNCHANGED <<core, managers, links, sync, users, raced>>,
           \A d \in Conns \ {c} : conn'[d] = conn[d],
           conn'[c].user = conn[c].user, conn'[c].kind = conn[c].kind,
           conn'[c].lm = conn[c].lm, conn'[c].cut = conn[c].cut,
           conn[c].at \in {"count", "route", "open"},
           conn'[c].at \in {"link", "route", "open"},
           conn'[c].at = "link" => conn[c].at = "count" /\ conn[c].kind = "link",
           conn'[c].at # "link" => conn[c].at # "count" \/ conn[c].kind # "link"
    PROVE  LinkInv'
<1>1. DispatchTypes /\ links \in [Conns -> SUBSET Conns] BY DEF DispatchInv, LinkInv
<1>2. Apart(c) BY <1>1 DEF Apart, Same
<1>3. Shape(conn[c])' BY DEF LinkInv, Shape
<1>4. Live(c)' <=> Live(c) BY DEF Live
<1>5. Linked(conn'[c]) => Linked(conn[c]) BY DEF Linked
<1>6. BeingLinked(c)' => BeingLinked(c) BY DEF BeingLinked
<1>7. \A m \in Conns : c \in links'[m] => conn'[c].lm = m BY DEF LinkInv
<1>8. Live(c) => managers[conn[c].user] = conn[c].lm BY DEF LinkInv
<1>9. Live(c) /\ Linked(conn[c]) => c \in links[conn[c].lm] BY DEF LinkInv
<1>10. Removing /\ conn[c].user = sync.user /\ BeingLinked(c) => c \in raced BY DEF LinkInv
<1>. QED BY <1>1, <1>2, <1>3, <1>4, <1>5, <1>6, <1>7, <1>8, <1>9, <1>10, OneKeepsLinks

\* The connection ends, and leaves its manager.
LEMMA EndLinks ==
    ASSUME DispatchInv, LinkInv, NEW c \in Conns, End(c),
           UNCHANGED <<core, managers, sync, users>>
    PROVE  LinkInv'
<1>1. DispatchTypes /\ conn \in [Conns -> ConnRecords] /\ links \in [Conns -> SUBSET Conns]
  BY DEF DispatchInv, DispatchTypes, LinkInv
<1>2. /\ conn'[c].at = "closed" /\ conn'[c].lm = None
      /\ \A d \in Conns \ {c} : conn'[d] = conn[d] /\ (d \in raced' <=> d \in raced)
  BY <1>1 DEF End, Ended, NoConn
<1>3. /\ links' \in [Conns -> SUBSET Conns]
      /\ \A m \in Conns : c \notin links'[m]
      /\ \A m \in Conns : \A d \in Conns \ {c} : d \in links'[m] <=> d \in links[m]
  <2>1. CASE conn[c].lm = None BY <1>1, <2>1, NoManagerNoLink DEF End, RemoveWriter
  <2>2. CASE conn[c].lm # None
    <3>1. conn[c].lm \in Conns BY <1>1, <2>2 DEF ConnRecords
    <3>2. links' = [links EXCEPT ![conn[c].lm] = @ \ {c}] BY <2>2 DEF End, RemoveWriter
    <3>3. \A m \in Conns : c \in links[m] => m = conn[c].lm BY DEF LinkInv
    <3>. QED BY <1>1, <3>1, <3>2, <3>3
  <2>. QED BY <2>1, <2>2
<1>4. Apart(c) BY <1>2, <1>3 DEF Apart, Same
<1>5. Shape(conn[c])' BY <1>2 DEF Shape
<1>6. ~Live(c)' /\ ~BeingLinked(c)' BY <1>2 DEF Live, BeingLinked
<1>. QED BY <1>1, <1>3, <1>4, <1>5, <1>6, OneKeepsLinks

LEMMA LaterLinks ==
    ASSUME DispatchInv, LinkInv, NEW c \in Conns,
           \/ GetCounter(c)
           \/ \E refused \in BOOLEAN : RoutedDispatch(c, refused)
           \/ CloseConn(c)
           \/ \E dir \in {"up", "down"} : Transfer(c, dir)
    PROVE  LinkInv'
<1>1. conn \in [Conns -> ConnRecords] BY DEF DispatchInv, DispatchTypes
<1>2. CASE GetCounter(c)
  <2>1. PICK ts : conn' = [conn EXCEPT ![c].ts = ts, ![c].at = AfterCount(c)]
    BY <1>2 DEF GetCounter
  <2>2. conn[c].at = "count" /\ UNCHANGED <<core, managers, links, sync, users, raced>>
    BY <1>2 DEF GetCounter, userVars, ghostVars
  <2>3. /\ AfterCount(c) \in {"link", "open", "route"}
        /\ AfterCount(c) = "link" <=> conn[c].kind = "link"
    BY DEF AfterCount
  <2>4. /\ conn'[c].user = conn[c].user /\ conn'[c].kind = conn[c].kind
        /\ conn'[c].lm = conn[c].lm /\ conn'[c].cut = conn[c].cut /\ conn'[c].at = AfterCount(c)
        /\ \A d \in Conns \ {c} : conn'[d] = conn[d]
    BY SMTT(60), <1>1, <2>1 DEF ConnRecords
  <2>. QED BY <2>2, <2>3, <2>4, OnwardLinks
<1>3. ASSUME NEW refused \in BOOLEAN, RoutedDispatch(c, refused) PROVE LinkInv'
  <2>1. conn[c].at = "route" /\ UNCHANGED <<core, managers, sync, users>>
    BY <1>3 DEF RoutedDispatch, userVars
  <2>2. CASE refused BY <1>3, <2>1, <2>2, EndLinks DEF RoutedDispatch
  <2>3. CASE ~refused
    <3>1. conn' = [conn EXCEPT ![c].at = "open"] /\ UNCHANGED <<links, raced>>
      BY <1>3, <2>3 DEF RoutedDispatch
    <3>2. /\ conn'[c].user = conn[c].user /\ conn'[c].kind = conn[c].kind
          /\ conn'[c].lm = conn[c].lm /\ conn'[c].cut = conn[c].cut /\ conn'[c].at = "open"
          /\ \A d \in Conns \ {c} : conn'[d] = conn[d]
      BY SMTT(60), <1>1, <3>1 DEF ConnRecords
    <3>. QED BY <2>1, <3>1, <3>2, OnwardLinks
  <2>. QED BY <2>2, <2>3
<1>4. CASE CloseConn(c) BY <1>4, EndLinks DEF CloseConn, userVars
<1>5. ASSUME NEW dir \in {"up", "down"}, Transfer(c, dir) PROVE LinkInv'
  <2>1. /\ conn[c].at = "open" /\ conn' = [conn EXCEPT ![c][dir] = @ + 1]
        /\ UNCHANGED <<core, managers, links, sync, users, raced>>
    BY <1>5 DEF Transfer, userVars
  <2>2. /\ conn'[c].user = conn[c].user /\ conn'[c].kind = conn[c].kind
        /\ conn'[c].lm = conn[c].lm /\ conn'[c].cut = conn[c].cut /\ conn'[c].at = "open"
        /\ \A d \in Conns \ {c} : conn'[d] = conn[d]
    BY <1>1, <2>1 DEF ConnRecords
  <2>. QED BY <2>1, <2>2, OnwardLinks
<1>. QED BY <1>2, <1>3, <1>4, <1>5

\* A new manager replaces the one that was stored since: whoever is in that one is raced.
LEMMA StoreManagerLinks ==
    ASSUME DispatchInv, LinkInv, NEW c \in Conns, StoreManager(c)
    PROVE  LinkInv'
<1>. DEFINE u == conn[c].user
            lm == managers[u]
<1>1. /\ conn \in [Conns -> ConnRecords] /\ managers \in [Users -> Conns \cup {None}]
      /\ None \notin Conns
  BY DispatchConstants DEF DispatchInv, DispatchTypes
<1>2. /\ conn[c].at = "store" /\ UNCHANGED <<core, links, sync, users>>
      /\ raced' = IF lm = None THEN raced ELSE raced \cup Sharing(lm)
      /\ managers' = [managers EXCEPT ![u] = c]
      /\ conn' = [conn EXCEPT ![c].lm = c, ![c].at = AfterManager(c)]
  BY DEF StoreManager, userVars
<1>3. conn[c].lm = None /\ conn[c].kind # "hook" /\ core # "sing" BY <1>2 DEF LinkInv, Shape
<1>4. u \in Users BY <1>2 DEF DispatchInv, Owned, Sound
<1>5. AfterManager(c) \in {"link", "count"} /\ (AfterManager(c) = "count" => conn[c].kind = "link")
  BY DEF AfterManager
<1>6. /\ \A d \in Conns \ {c} : conn'[d] = conn[d]
      /\ conn'[c].user = u /\ conn'[c].kind = conn[c].kind /\ conn'[c].lm = c
      /\ conn'[c].cut = conn[c].cut /\ conn'[c].at = AfterManager(c)
  BY SMTT(60), <1>1, <1>2 DEF ConnRecords
<1>7. /\ managers'[u] = c /\ \A v \in Users \ {u} : managers'[v] = managers[v]
  BY <1>1, <1>2, <1>4
<1>8. ASSUME NEW d \in Conns \ {c}, Live(d)' PROVE Live(d) /\ conn[d].user # u
  <2>1. Live(d) /\ d \notin raced' BY <1>2, <1>6, <1>8 DEF Live
  <2>2. CASE conn[d].user = u
    <3>1. conn[d].lm = lm /\ lm # None BY <2>1, <2>2 DEF LinkInv, Live
    <3>. QED BY <1>2, <2>1, <3>1 DEF Sharing
  <2>. QED BY <2>1, <2>2
<1>9. Removing /\ conn[c].user = sync.user => c \in raced
  BY <1>2 DEF LinkInv, BeingLinked
<1>10. raced \subseteq raced' BY <1>2
<1>11. (Removing' <=> Removing) /\ sync' = sync /\ users' = users /\ links' = links
  BY <1>2 DEF Removing
<1>. HIDE DEF u, lm
<1>12. \A d \in Conns : Shape(conn[d])'
  <2>1. Shape(conn[c])' BY <1>1, <1>2, <1>3, <1>5, <1>6 DEF Shape
  <2>2. ASSUME NEW d \in Conns \ {c} PROVE Shape(conn[d])'
    <3>1. Shape(conn[d]) BY DEF LinkInv
    <3>2. conn'[d] = conn[d] /\ core' = core BY <1>2, <1>6
    <3>. QED BY <3>1, <3>2 DEF Shape
  <2>. QED BY <2>1, <2>2
<1>13. ASSUME NEW d \in Conns, NEW m \in Conns, d \in links'[m] PROVE conn'[d].lm = m
  <2>1. d \in links[m] BY <1>11, <1>13
  <2>2. conn[d].lm = m BY <2>1 DEF LinkInv
  <2>3. d # c BY <1>1, <1>3, <2>2
  <2>. QED BY <1>6, <2>2, <2>3
<1>14. \A d \in Conns : Live(d)' => managers'[conn'[d].user] = conn'[d].lm
  <2>1. ASSUME NEW d \in Conns \ {c}, Live(d)' PROVE managers'[conn'[d].user] = conn'[d].lm
    <3>1. conn[d].user \in Users
      BY <1>8, <2>1 DEF LinkInv, Shape, Live, DispatchInv, Owned, Sound
    <3>2. managers[conn[d].user] = conn[d].lm BY <1>8, <2>1 DEF LinkInv
    <3>. QED BY <1>6, <1>7, <1>8, <2>1, <3>1, <3>2
  <2>. QED BY <1>6, <1>7, <2>1
<1>15. \A d \in Conns : Live(d)' /\ Linked(conn'[d]) => d \in links'[conn'[d].lm]
  <2>1. ~Linked(conn'[c]) BY <1>5, <1>6 DEF Linked
  <2>. HIDE DEF Live, Linked
  <2>. QED BY <1>6, <1>8, <1>11, <2>1 DEF LinkInv
<1>16. \A d \in Conns : Removing /\ conn'[d].user = sync.user /\ BeingLinked(d)' => d \in raced'
  <2>1. ASSUME NEW d \in Conns \ {c} PROVE BeingLinked(d)' <=> BeingLinked(d)
    BY <1>6, <2>1 DEF BeingLinked
  <2>. QED BY <1>6, <1>9, <1>10, <2>1 DEF LinkInv, u
<1>17. \A d \in Conns : Removing /\ conn'[d].user = sync.user /\ Live(d)'
                        => Live(d) /\ conn'[d] = conn[d]
  <2>1. Removing /\ conn'[c].user = sync.user => ~Live(c)' BY <1>6, <1>9, <1>10 DEF Live, u
  <2>. QED BY <1>6, <1>8, <2>1
<1>18. /\ sync.at = "snapshot" => \A d \in Conns : Live(d)' /\ conn'[d].user = sync.user
                                                   => conn'[d].lm = sync.lm
       /\ sync.at = "close" => \A d \in Conns : Live(d)' /\ conn'[d].user = sync.user
                                                => d \in sync.closing
  <2>1. sync.at \in {"snapshot", "close"} => Removing BY DEF Removing
  <2>. HIDE DEF Live, Removing
  <2>. QED BY <1>17, <2>1 DEF LinkInv
<1>. HIDE DEF Live, Removing, BeingLinked, Linked, Shape
<1>. QED BY <1>11, <1>12, <1>13, <1>14, <1>15, <1>16, <1>18 DEF LinkInv

\* A step that touches nothing the links depend on.
LEMMA AsideLinks ==
    ASSUME LinkInv, UNCHANGED <<core, conn, managers, links, sync, users, raced>>
    PROVE  LinkInv'
BY DEF LinkInv, Shape, Live, Linked, BeingLinked, Removing

\* The sync task outside of a removal from Xray.
LEMMA OutsideLinks ==
    ASSUME LinkInv, UNCHANGED <<core, conn, managers, links, raced>>,
           ~Removing', sync' \in SyncRecords
    PROVE  LinkInv'
<1>1. sync'.at # "snapshot" /\ sync'.at # "close" BY DEF Removing
<1>2. /\ \A c \in Conns : (Live(c)' <=> Live(c)) /\ (Shape(conn[c])' <=> Shape(conn[c]))
  BY DEF Live, Shape
<1>. HIDE DEF Live, Shape, Removing
<1>. QED BY <1>1, <1>2 DEF LinkInv

\* A removal begins: nobody is let in any more, and who is being linked is raced.
LEMMA RemoveUserLinks ==
    ASSUME DispatchInv, LinkInv, NEW u \in Users, RemoveUser(u)
    PROVE  LinkInv'
<1>1. /\ UNCHANGED <<core, conn, managers, links>> /\ users' = users \ {u}
      /\ raced' = raced \cup {c \in Conns : conn[c].user = u /\ BeingLinked(c)}
      /\ sync' = [NoSync EXCEPT !.at = IF core = "xray" THEN "counter" ELSE "forgetUsers",
                                !.user = u]
  BY DEF RemoveUser, sharedVars
<1>2. /\ sync' \in SyncRecords /\ sync'.user = u /\ sync'.at \in {"counter", "forgetUsers"}
  BY <1>1 DEF NoSync, SyncRecords
<1>3. \A c \in Conns : /\ Live(c)' => Live(c)
                       /\ Shape(conn[c])' <=> Shape(conn[c])
                       /\ BeingLinked(c)' <=> BeingLinked(c)
  BY SMTT(60), <1>1 DEF Live, Shape, BeingLinked
<1>4. sync'.at # "snapshot" /\ sync'.at # "close" BY <1>2
<1>5. Removing' => /\ sync'.user \in Users \ users'
                   /\ \A c \in Conns : conn'[c].user = sync'.user /\ BeingLinked(c)'
                                       => c \in raced'
  BY SMTT(60), <1>1, <1>2, <1>3
<1>. HIDE DEF Live, Shape, BeingLinked, Removing, Linked
<1>. QED BY <1>1, <1>2, <1>3, <1>4, <1>5 DEF LinkInv

\* The manager is loaded: all live connections of the user are linked, in that one.
LEMMA LoadLinksLinks ==
    ASSUME DispatchInv, LinkInv, LoadLinks
    PROVE  LinkInv'
<1>. DEFINE u == sync.user
            lm == managers[u]
<1>1. /\ sync.at = "load" /\ UNCHANGED <<core, conn, managers, links, users, raced>>
      /\ sync' = [sync EXCEPT !.at = IF lm = None THEN "limiterDel" ELSE "snapshot", !.lm = lm]
  BY DEF LoadLinks, sharedVars, userVars, ghostVars
<1>2. Removing /\ sync \in SyncRecords BY <1>1 DEF Removing, LinkInv
<1>3. u \in Users /\ lm \in Conns \cup {None}
  BY <1>2 DEF LinkInv, DispatchInv, DispatchTypes
<1>. HIDE DEF lm
<1>4. /\ sync' \in SyncRecords /\ sync'.user = u /\ sync'.lm = lm /\ sync'.closing = sync.closing
      /\ sync'.at = IF lm = None THEN "limiterDel" ELSE "snapshot"
  BY <1>1, <1>2, <1>3 DEF SyncRecords
<1>5. CASE lm = None
  <2>1. ~Removing' BY <1>4, <1>5 DEF Removing
  <2>. QED BY <1>1, <1>4, <2>1, OutsideLinks
<1>6. CASE lm # None
  <2>1. \A c \in Conns : /\ Live(c)' <=> Live(c)
                         /\ Shape(conn[c])' <=> Shape(conn[c])
                         /\ BeingLinked(c)' <=> BeingLinked(c)
    BY SMTT(60), <1>1 DEF Live, Shape, BeingLinked
  <2>2. \A c \in Conns : Live(c) /\ conn[c].user = u => conn[c].lm = lm BY DEF LinkInv, lm
  <2>3. sync'.at = "snapshot" /\ lm \in Conns BY <1>3, <1>4, <1>6
  <2>. HIDE DEF Live, Shape, BeingLinked, Removing, Linked
  <2>. QED BY SMTT(60), <1>1, <1>2, <1>4, <2>1, <2>2, <2>3 DEF LinkInv
<1>. QED BY <1>5, <1>6

\* The links are copied: every live connection of the user is among them.
LEMMA SnapshotLinks ==
    ASSUME DispatchInv, LinkInv, Snapshot
    PROVE  LinkInv'
<1>1. /\ sync.at = "snapshot" /\ UNCHANGED <<core, conn, managers, links, users, raced>>
      /\ sync' = [sync EXCEPT !.at = "close", !.closing = links[sync.lm]]
  BY DEF Snapshot, sharedVars, userVars, ghostVars
<1>2. /\ Removing /\ sync \in SyncRecords /\ sync.lm \in Conns
      /\ links \in [Conns -> SUBSET Conns]
  BY <1>1 DEF Removing, LinkInv
<1>3. /\ sync' \in SyncRecords /\ sync'.user = sync.user /\ sync'.at = "close"
      /\ sync'.closing = links[sync.lm]
  BY <1>1, <1>2 DEF SyncRecords
<1>4. \A c \in Conns : /\ Live(c)' <=> Live(c)
                       /\ Shape(conn[c])' <=> Shape(conn[c])
                       /\ BeingLinked(c)' <=> BeingLinked(c)
  BY SMTT(60), <1>1 DEF Live, Shape, BeingLinked
<1>5. ASSUME NEW c \in Conns, Live(c), conn[c].user = sync.user PROVE c \in links[sync.lm]
  <2>1. conn[c].lm = sync.lm BY <1>1, <1>5 DEF LinkInv
  <2>2. ~BeingLinked(c) BY <1>2, <1>5 DEF LinkInv, Live
  <2>3. conn[c].at \in {"link", "count", "route", "open"} BY <1>5 DEF LinkInv, Shape, Live
  <2>4. Linked(conn[c]) BY <2>2, <2>3 DEF BeingLinked, Linked
  <2>. HIDE DEF Live, Linked
  <2>. QED BY <1>5, <2>1, <2>4 DEF LinkInv
<1>. HIDE DEF Live, Shape, BeingLinked, Removing, Linked
<1>. QED BY <1>1, <1>2, <1>3, <1>4, <1>5 DEF LinkInv

LEMMA DeleteCounterLinks ==
    ASSUME DispatchInv, LinkInv, DeleteCounter
    PROVE  LinkInv'
<1>1. /\ sync.at = "counter" /\ UNCHANGED <<core, conn, managers, links, users, raced>>
      /\ sync' = [sync EXCEPT !.at = "load"]
  BY DEF DeleteCounter, SyncTo, userVars
<1>2. Removing /\ sync \in SyncRecords BY <1>1 DEF Removing, LinkInv
<1>3. sync' \in SyncRecords /\ sync'.user = sync.user /\ sync'.at = "load"
  BY <1>1, <1>2 DEF SyncRecords
<1>4. \A c \in Conns : /\ Live(c)' <=> Live(c)
                       /\ Shape(conn[c])' <=> Shape(conn[c])
                       /\ BeingLinked(c)' <=> BeingLinked(c)
  BY SMTT(60), <1>1 DEF Live, Shape, BeingLinked
<1>. HIDE DEF Live, Shape, BeingLinked, Removing, Linked
<1>. QED BY <1>1, <1>2, <1>3, <1>4 DEF LinkInv

\* A link is closed: its connection is cut and out of the manager.
LEMMA CloseLinkLinks ==
    ASSUME DispatchInv, LinkInv, NEW c \in Conns, CloseLink(c)
    PROVE  LinkInv'
<1>1. /\ conn \in [Conns -> ConnRecords] /\ links \in [Conns -> SUBSET Conns]
      /\ sync \in SyncRecords
  BY DEF DispatchInv, DispatchTypes, LinkInv
<1>2. /\ sync.at = "close" /\ UNCHANGED <<core, managers, users, raced>>
      /\ sync' = [sync EXCEPT !.closing = @ \ {c}]
      /\ conn' = [conn EXCEPT ![c].cut = TRUE]
      /\ links' = RemoveWriter(c)
  BY DEF CloseLink, userVars, ghostVars
<1>3. /\ sync' \in SyncRecords /\ sync'.user = sync.user /\ sync'.at = "close"
      /\ sync'.closing = sync.closing \ {c}
  BY <1>1, <1>2 DEF SyncRecords
<1>4. /\ conn'[c].at = conn[c].at /\ conn'[c].user = conn[c].user /\ conn'[c].kind = conn[c].kind
      /\ conn'[c].lm = conn[c].lm /\ conn'[c].cut
      /\ \A d \in Conns \ {c} : conn'[d] = conn[d]
  BY SMTT(60), <1>1, <1>2 DEF ConnRecords
<1>5. /\ links' \in [Conns -> SUBSET Conns]
      /\ \A m \in Conns : c \in links'[m] => c \in links[m]
      /\ \A m \in Conns : \A d \in Conns \ {c} : d \in links'[m] <=> d \in links[m]
  <2>1. CASE conn[c].lm = None BY <1>1, <1>2, <2>1 DEF RemoveWriter
  <2>2. CASE conn[c].lm # None
    <3>1. conn[c].lm \in Conns BY <1>1, <2>2 DEF ConnRecords
    <3>2. links' = [links EXCEPT ![conn[c].lm] = @ \ {c}] BY <1>2, <2>2 DEF RemoveWriter
    <3>. QED BY <1>1, <3>1, <3>2
  <2>. QED BY <2>1, <2>2
<1>6. \A d \in Conns : /\ conn'[d].user = conn[d].user /\ conn'[d].lm = conn[d].lm
                       /\ Shape(conn[d])' <=> Shape(conn[d])
                       /\ BeingLinked(d)' <=> BeingLinked(d)
                       /\ Linked(conn'[d]) <=> Linked(conn[d])
  <2>1. Shape(conn[c])' <=> Shape(conn[c]) BY <1>2, <1>4 DEF Shape
  <2>2. (BeingLinked(c)' <=> BeingLinked(c)) /\ (Linked(conn'[c]) <=> Linked(conn[c]))
    BY <1>4 DEF BeingLinked, Linked
  <2>3. ASSUME NEW d \in Conns \ {c}
        PROVE  /\ Shape(conn[d])' <=> Shape(conn[d])
               /\ BeingLinked(d)' <=> BeingLinked(d)
               /\ Linked(conn'[d]) <=> Linked(conn[d])
    BY <1>2, <1>4 DEF Shape, BeingLinked, Linked
  <2>. QED BY <1>4, <2>1, <2>2, <2>3
<1>7. ~Live(c)' /\ \A d \in Conns \ {c} : Live(d)' <=> Live(d)
  BY <1>2, <1>4 DEF Live
<1>8. \A d \in Conns : Live(d) => conn[d].lm \in Conns BY <1>1 DEF Live, ConnRecords
<1>9. Removing /\ Removing' BY <1>2, <1>3 DEF Removing
<1>. HIDE DEF Live, Shape, BeingLinked, Removing, Linked
<1>10. ASSUME NEW d \in Conns, NEW m \in Conns, d \in links'[m] PROVE conn'[d].lm = m
  <2>1. d \in links[m] BY <1>5, <1>10
  <2>2. conn[d].lm = m BY <2>1 DEF LinkInv
  <2>. QED BY <1>6, <2>2
<1>11. \A d \in Conns : Live(d)' => managers'[conn'[d].user] = conn'[d].lm
  BY SMTT(60), <1>2, <1>6, <1>7 DEF LinkInv
<1>12. \A d \in Conns : Live(d)' /\ Linked(conn'[d]) => d \in links'[conn'[d].lm]
  <2>1. ASSUME NEW d \in Conns \ {c}, Live(d), Linked(conn[d]) PROVE d \in links'[conn'[d].lm]
    <3>1. d \in links[conn[d].lm] BY <2>1 DEF LinkInv
    <3>. QED BY <1>5, <1>6, <1>8, <2>1, <3>1
  <2>. QED BY <1>6, <1>7, <2>1
<1>13. /\ sync'.user \in Users \ users'
       /\ \A d \in Conns : conn'[d].user = sync'.user /\ BeingLinked(d)' => d \in raced'
  BY <1>2, <1>3, <1>6, <1>9 DEF LinkInv
<1>14. \A d \in Conns : Live(d)' /\ conn'[d].user = sync'.user => d \in sync'.closing
  BY <1>2, <1>3, <1>6, <1>7 DEF LinkInv
<1>15. \A d \in Conns : Shape(conn[d])' BY <1>6 DEF LinkInv
<1>. QED BY <1>3, <1>5, <1>10, <1>11, <1>12, <1>13, <1>14, <1>15 DEF LinkInv

\* The manager is forgotten when no live connection of the user is left.
LEMMA ForgetLinksLinks ==
    ASSUME DispatchInv, LinkInv, ForgetLinks
    PROVE  LinkInv'
<1>1. /\ sync.at = "close" /\ sync.closing = {}
      /\ UNCHANGED <<core, conn, links, users, raced>>
      /\ managers' = [managers EXCEPT ![sync.user] = None]
      /\ sync' = [sync EXCEPT !.at = "limiterDel"]
  BY DEF ForgetLinks, SyncTo, userVars, ghostVars
<1>2. sync \in SyncRecords /\ managers \in [Users -> Conns \cup {None}]
  BY DEF LinkInv, DispatchInv, DispatchTypes
<1>3. sync' \in SyncRecords /\ sync'.at = "limiterDel" BY <1>1, <1>2 DEF SyncRecords
<1>4. ~Removing' /\ sync'.at # "snapshot" /\ sync'.at # "close" BY <1>3 DEF Removing
<1>5. \A c \in Conns : /\ Live(c)' <=> Live(c)
                       /\ Shape(conn[c])' <=> Shape(conn[c])
  BY SMTT(60), <1>1 DEF Live, Shape
<1>6. \A c \in Conns : Live(c) => conn[c].user # sync.user BY <1>1 DEF LinkInv
<1>7. ASSUME NEW c \in Conns, Live(c) PROVE managers'[conn[c].user] = conn[c].lm
  <2>1. conn[c].user \in Users BY <1>7 DEF LinkInv, Shape, Live, DispatchInv, Owned, Sound
  <2>2. managers[conn[c].user] = conn[c].lm BY <1>7 DEF LinkInv
  <2>. QED BY <1>1, <1>2, <1>6, <1>7, <2>1, <2>2
<1>. HIDE DEF Live, Shape, Removing, Linked
<1>. QED BY <1>1, <1>3, <1>4, <1>5, <1>7 DEF LinkInv

\* The steps of the sync task after and outside of a removal from Xray.
LEMMA OtherSyncLinks ==
    ASSUME DispatchInv, LinkInv,
           \/ \E u \in Users : AddUser(u)
           \/ ForgetUsers \/ AddToInbound \/ RememberUsers \/ UpdateLimiter
    PROVE  LinkInv'
<1>1. sync \in SyncRecords BY DEF LinkInv
<1>2. ASSUME NEW u \in Users, AddUser(u) PROVE LinkInv'
  <2>1. /\ UNCHANGED <<core, conn, managers, links, raced>>
        /\ sync' = [NoSync EXCEPT !.at = IF core = "xray" THEN "inbound" ELSE "remember",
                                  !.user = u]
    BY <1>2 DEF AddUser, sharedVars, ghostVars
  <2>2. sync' \in SyncRecords /\ sync'.at \in {"inbound", "remember"}
    BY <2>1 DEF NoSync, SyncRecords
  <2>3. ~Removing' BY <2>2 DEF Removing
  <2>. QED BY <2>1, <2>2, <2>3, OutsideLinks
<1>3. CASE ForgetUsers \/ AddToInbound \/ RememberUsers
  <2>1. UNCHANGED <<core, conn, managers, links, raced>>
    BY <1>3 DEF ForgetUsers, AddToInbound, RememberUsers, sharedVars, ghostVars
  <2>2. PICK to \in {"limiterDel", "limiterAdd"} : sync' = [sync EXCEPT !.at = to]
    BY <1>3 DEF ForgetUsers, AddToInbound, RememberUsers, SyncTo
  <2>3. sync' \in SyncRecords /\ sync'.at = to BY <1>1, <2>2 DEF SyncRecords
  <2>4. ~Removing' BY <2>3 DEF Removing
  <2>. QED BY <2>1, <2>3, <2>4, OutsideLinks
<1>4. CASE UpdateLimiter
  <2>1. UNCHANGED <<core, conn, managers, links, raced>> /\ sync' = NoSync
    BY <1>4 DEF UpdateLimiter, sharedVars, ghostVars
  <2>2. sync' \in SyncRecords /\ ~Removing' BY <2>1 DEF NoSync, SyncRecords, Removing
  <2>. QED BY <2>1, <2>2, OutsideLinks
<1>. QED BY <1>2, <1>3, <1>4

LEMMA LinkInvInit == DispatchInit => LinkInv
<1>. SUFFICES ASSUME DispatchInit PROVE LinkInv OBVIOUS
<1>1. /\ conn = [c \in Conns |-> NoConn] /\ links = [c \in Conns |-> {}] /\ sync = NoSync
  BY DEF DispatchInit
<1>2. sync \in SyncRecords /\ sync.at = "idle" BY <1>1 DEF NoSync, SyncRecords
<1>3. \A c \in Conns : conn[c].at = "none" /\ conn[c].lm = None BY <1>1 DEF NoConn
<1>4. \A c \in Conns : Shape(conn[c]) /\ ~Live(c) BY <1>3 DEF Shape, Live
<1>5. ~Removing BY <1>2 DEF Removing
<1>. HIDE DEF Shape, Live, Removing
<1>. QED BY <1>1, <1>2, <1>4, <1>5 DEF LinkInv

LEMMA LinkInvNext == DispatchInv /\ LinkInv /\ [DispatchNext]_dispatchVars => LinkInv'
<1>. SUFFICES ASSUME DispatchInv, LinkInv, [DispatchNext]_dispatchVars PROVE LinkInv' OBVIOUS
<1>1. ASSUME NEW c \in Conns, SetUp(c) \/ CloseConn(c) PROVE LinkInv'
  BY <1>1, AcceptLinks, CheckLimitLinks, LoadManagerLinks, StoreManagerLinks, AddLinkLinks,
     LaterLinks DEF SetUp
<1>2. ASSUME NEW c \in Conns, NEW dir \in {"up", "down"}, Transfer(c, dir) PROVE LinkInv'
  BY <1>2, LaterLinks
<1>3. CASE SetSingMux \/ \E u \in Users : OpenCarrier(u) \/ CloseCarrier(u)
  BY <1>3, AsideLinks DEF SetSingMux, OpenCarrier, CloseCarrier, sharedVars, userVars, ghostVars
<1>4. CASE SyncStep
  BY <1>4, RemoveUserLinks, LoadLinksLinks, SnapshotLinks, DeleteCounterLinks, CloseLinkLinks,
     ForgetLinksLinks, OtherSyncLinks DEF SyncStep
<1>5. CASE ReportStep
  <2>1. UNCHANGED <<core, conn, managers, links, sync, users, raced>>
    BY <1>5 DEF ReportStep, BeginReport, LoadUp, LoadDown, ZeroUp, AppendTraffic, PostTraffic,
                sharedVars, userVars, ghostVars
  <2>. QED BY <2>1, AsideLinks
<1>6. CASE UNCHANGED dispatchVars
  BY <1>6, AsideLinks DEF dispatchVars, sharedVars, userVars, ghostVars
<1>. QED BY <1>1, <1>2, <1>3, <1>4, <1>5, <1>6 DEF DispatchNext

\* The link of every open connection of Xray is where the removal of its user looks for it,
\* but for the connections that raced with a removal or with a second manager (GetLink,
\* LinkManager, DelUsers): for any users, connections and interleaving.
THEOREM RemovalsFindLinks == DispatchSpec => []LinksMatch
<1>1. DispatchInv /\ LinkInv => LinksMatch
  <2>. SUFFICES ASSUME DispatchInv, LinkInv, NEW c \in Conns
                PROVE  /\ (conn[c].at \in {"route", "open"} /\ conn[c].kind # "hook"
                             /\ ~conn[c].cut /\ c \notin raced)
                          => managers[conn[c].user] # None /\ c \in links[managers[conn[c].user]]
                       /\ \A m \in Conns : c \in links[m] => conn[c].at # "closed" /\ conn[c].lm = m
    BY DEF LinksMatch
  <2>1. ASSUME conn[c].at \in {"route", "open"}, conn[c].kind # "hook", ~conn[c].cut, c \notin raced
        PROVE  managers[conn[c].user] # None /\ c \in links[managers[conn[c].user]]
    <3>1. conn[c].lm # None BY <2>1 DEF LinkInv, Shape
    <3>2. Live(c) /\ Linked(conn[c]) BY <2>1, <3>1 DEF Live, Linked
    <3>. HIDE DEF Live, Linked
    <3>. QED BY <3>1, <3>2 DEF LinkInv
  <2>2. ASSUME NEW m \in Conns, c \in links[m] PROVE conn[c].at # "closed" /\ conn[c].lm = m
    <3>1. conn[c].lm = m /\ m # None BY <2>2, DispatchConstants DEF LinkInv
    <3>. QED BY <3>1 DEF LinkInv, Shape
  <2>. QED BY <2>1, <2>2
<1>. QED BY <1>1, DispatchInvInit, DispatchInvNext, LinkInvInit, LinkInvNext, PTL DEF DispatchSpec

-----------------------------------------------------------------------------
(* Sniffing: what the outbound reads, and which address it dials.            *)

\* The chunks of s are the ones after the first n, in order.
Numbered(s, n) == \A i \in 1 .. Len(s) : s[i] = n + i

\* Chunks leave the pipe for the cache and both for the outbound, in order.
Flow ==
    /\ wrote \in Nat /\ broken \in BOOLEAN
    /\ out \in Seq(Nat) /\ cache \in Seq(Nat) /\ pipe \in Seq(Nat)
    /\ Numbered(out, 0) /\ Numbered(cache, Len(out))
    /\ Len(out) + Len(cache) <= wrote
    /\ broken => pipe = <<>>
    /\ (~broken /\ at # "closed") => /\ Numbered(pipe, Len(out) + Len(cache))
                                     /\ Len(out) + Len(cache) + Len(pipe) = wrote

\* Two numbered sequences, one after the other, are one.
LEMMA NumberedConcat ==
    ASSUME NEW s \in Seq(Nat), NEW t \in Seq(Nat), NEW n \in Nat,
           Numbered(s, n), Numbered(t, n + Len(s))
    PROVE  /\ s \o t \in Seq(Nat) /\ Len(s \o t) = Len(s) + Len(t)
           /\ Numbered(s \o t, n)
<1>1. s \o t \in Seq(Nat) /\ Len(s \o t) = Len(s) + Len(t) BY SMTT(60)
<1>2. ASSUME NEW i \in 1 .. Len(s \o t) PROVE (s \o t)[i] = n + i
  <2>1. CASE i <= Len(s)
    <3>1. (s \o t)[i] = s[i] /\ i \in 1 .. Len(s) BY SMTT(60), <1>1, <2>1
    <3>. QED BY <3>1 DEF Numbered
  <2>2. CASE i > Len(s)
    <3>1. (s \o t)[i] = t[i - Len(s)] /\ i - Len(s) \in 1 .. Len(t) BY SMTT(60), <1>1, <2>2
    <3>. QED BY SMTT(60), <3>1 DEF Numbered
  <2>. QED BY SMTT(60), <2>1, <2>2
<1>. QED BY <1>1, <1>2 DEF Numbered

LEMMA NumberedEmpty == ASSUME NEW n \in Nat PROVE <<>> \in Seq(Nat) /\ Len(<<>>) = 0 /\ Numbered(<<>>, n)
BY SMTT(60) DEF Numbered

LEMMA FlowInit == SniffInit => Flow
<1>. SUFFICES ASSUME SniffInit PROVE Flow OBVIOUS
<1>1. wrote = 0 /\ pipe = <<>> /\ cache = <<>> /\ out = <<>> /\ broken = FALSE
  BY DEF SniffInit
<1>2. /\ Len(out) = 0 /\ Len(cache) = 0 /\ Len(pipe) = 0
      /\ out \in Seq(Nat) /\ cache \in Seq(Nat) /\ pipe \in Seq(Nat)
  BY <1>1, NumberedEmpty
<1>3. Numbered(out, 0) /\ Numbered(cache, Len(out)) /\ Numbered(pipe, Len(out) + Len(cache))
  BY SMTT(60), <1>1, <1>2 DEF Numbered
<1>4. wrote \in Nat /\ broken \in BOOLEAN /\ (broken => pipe = <<>>) BY <1>1
<1>5. Len(out) + Len(cache) <= wrote /\ Len(out) + Len(cache) + Len(pipe) = wrote
  BY SMTT(60), <1>1, <1>2
<1>. HIDE DEF Numbered
<1>. QED BY <1>2, <1>3, <1>4, <1>5 DEF Flow

LEMMA FlowNext == Flow /\ [SniffNext]_sniffingVars => Flow'
<1>. SUFFICES ASSUME Flow, [SniffNext]_sniffingVars PROVE Flow' OBVIOUS
<1>1. /\ wrote \in Nat /\ out \in Seq(Nat) /\ cache \in Seq(Nat) /\ pipe \in Seq(Nat)
      /\ Len(out) \in Nat /\ Len(cache) \in Nat /\ Len(pipe) \in Nat
  BY SMTT(60) DEF Flow
<1>2. ASSUME UNCHANGED <<wrote, pipe, cache, out, broken>>, at' # "closed" => at # "closed"
      PROVE  Flow'
  BY <1>2 DEF Flow
<1>3. CASE ClientWrite
  <2>1. /\ wrote' = wrote + 1 /\ pipe' = IF broken THEN pipe ELSE Append(pipe, wrote + 1)
        /\ UNCHANGED <<at, cache, out, broken>>
    BY <1>3 DEF ClientWrite
  <2>2. CASE broken BY SMTT(60), <1>1, <2>1, <2>2 DEF Flow
  <2>3. CASE ~broken
    <3>1. /\ pipe' \in Seq(Nat) /\ Len(pipe') = Len(pipe) + 1
          /\ pipe'[Len(pipe) + 1] = wrote + 1 /\ \A i \in 1 .. Len(pipe) : pipe'[i] = pipe[i]
      BY SMTT(60), <1>1, <2>1, <2>3
    <3>2. ASSUME at # "closed"
          PROVE  /\ Numbered(pipe', Len(out) + Len(cache))
                 /\ Len(out) + Len(cache) + Len(pipe') = wrote'
      <4>1. Numbered(pipe, Len(out) + Len(cache)) /\ Len(out) + Len(cache) + Len(pipe) = wrote
        BY <2>3, <3>2 DEF Flow
      <4>2. ASSUME NEW i \in 1 .. Len(pipe') PROVE pipe'[i] = Len(out) + Len(cache) + i
        <5>1. i \in 1 .. Len(pipe) \/ i = Len(pipe) + 1 BY SMTT(60), <1>1, <3>1
        <5>2. CASE i \in 1 .. Len(pipe) BY <3>1, <4>1, <5>2 DEF Numbered
        <5>3. CASE i = Len(pipe) + 1 BY SMTT(60), <1>1, <3>1, <4>1, <5>3
        <5>. QED BY <5>1, <5>2, <5>3
      <4>3. Len(out) + Len(cache) + Len(pipe') = wrote'
        <5>1. wrote' = wrote + 1 /\ Len(pipe') = Len(pipe) + 1 BY <2>1, <3>1
        <5>2. wrote \in Nat /\ Len(out) \in Nat /\ Len(cache) \in Nat /\ Len(pipe) \in Nat BY <1>1
        <5>. QED BY SMTT(60), <4>1, <5>1, <5>2
      <4>. QED BY <4>2, <4>3 DEF Numbered
    <3>. HIDE DEF Numbered
    <3>. QED BY SMTT(60), <1>1, <2>1, <2>3, <3>1, <3>2 DEF Flow
  <2>. QED BY <2>2, <2>3 DEF Flow
<1>4. CASE ClientClose BY <1>2, <1>4 DEF ClientClose, readVars
<1>5. CASE CloseAll BY <1>5, NumberedEmpty DEF CloseAll, clientVars, Flow
<1>6. ASSUME NEW time \in 0 .. left, Cache(time) PROVE Flow'
  <2>1. /\ at = "cache" /\ at' = "sniff" /\ ~broken /\ cache' = cache \o pipe /\ pipe' = <<>>
        /\ UNCHANGED <<wrote, out, broken>>
    BY <1>6 DEF Cache, Merge, clientVars
  <2>2. /\ Numbered(cache, Len(out)) /\ Numbered(pipe, Len(out) + Len(cache))
        /\ Len(out) + Len(cache) + Len(pipe) = wrote /\ Numbered(out, 0)
    BY <2>1 DEF Flow
  <2>3. cache' \in Seq(Nat) /\ Len(cache') = Len(cache) + Len(pipe) /\ Numbered(cache', Len(out))
    BY <1>1, <2>1, <2>2, NumberedConcat
  <2>4. /\ Len(out') + Len(cache') = wrote' /\ Len(pipe') = 0 /\ pipe' \in Seq(Nat)
        /\ Numbered(pipe', Len(out') + Len(cache'))
    BY SMTT(60), <1>1, <2>1, <2>2, <2>3, NumberedEmpty
  <2>. HIDE DEF Numbered
  <2>. QED BY SMTT(60), <1>1, <2>1, <2>2, <2>3, <2>4 DEF Flow
<1>7. CASE Begin \/ CacheTimesOut \/ CacheFails \/ Sniff \/ Override \/ Open
  <2>1. UNCHANGED <<wrote, pipe, cache, out, broken>> /\ at # "closed"
    BY <1>7 DEF Begin, CacheTimesOut, CacheFails, Sniff, Override, Open, clientVars, readVars
  <2>. QED BY <1>2, <2>1
<1>8. CASE Refuse
  <2>1. /\ at' = "closed" /\ cache' = <<>> /\ UNCHANGED <<wrote, out>>
        /\ \/ broken' = TRUE /\ pipe' = <<>>
           \/ UNCHANGED <<broken, pipe>>
    BY <1>8 DEF Refuse, clientVars
  <2>2. cache' \in Seq(Nat) /\ Len(cache') = 0 /\ Numbered(cache', Len(out))
    BY <1>1, <2>1, NumberedEmpty
  <2>3. pipe' \in Seq(Nat) /\ broken' \in BOOLEAN /\ (broken' => pipe' = <<>>)
    <3>1. CASE broken' = TRUE /\ pipe' = <<>> BY <3>1, NumberedEmpty
    <3>2. CASE UNCHANGED <<broken, pipe>> BY <3>2 DEF Flow
    <3>. QED BY <2>1, <3>1, <3>2
  <2>4. Len(out') + Len(cache') <= wrote' /\ Numbered(out', 0) /\ wrote' \in Nat
    BY SMTT(60), <1>1, <2>1, <2>2 DEF Flow
  <2>. HIDE DEF Numbered
  <2>. QED BY <1>1, <2>1, <2>2, <2>3, <2>4 DEF Flow
<1>9. CASE ReadMultiBuffer
  <2>1. at = "open" /\ UNCHANGED <<at, wrote, broken>>
    BY <1>9 DEF ReadMultiBuffer, clientVars
  <2>2. Numbered(out, 0) /\ Numbered(cache, Len(out)) /\ broken \in BOOLEAN
    BY DEF Flow
  <2>3. CASE out' = out \o cache /\ cache' = <<>> /\ pipe' = pipe
    <3>1. out' \in Seq(Nat) /\ Len(out') = Len(out) + Len(cache) /\ Numbered(out', 0)
      BY SMTT(60), <1>1, <2>2, <2>3, NumberedConcat
    <3>2. cache' \in Seq(Nat) /\ Len(cache') = 0 /\ Numbered(cache', Len(out'))
      BY SMTT(60), <1>1, <2>3, <3>1, NumberedEmpty
    <3>. HIDE DEF Numbered
    <3>. QED BY SMTT(60), <1>1, <2>1, <2>2, <2>3, <3>1, <3>2 DEF Flow
  <2>4. CASE cache = <<>> /\ pipe # <<>> /\ out' = out \o pipe /\ pipe' = <<>> /\ cache' = cache
    <3>1. ~broken BY <2>4 DEF Flow
    <3>2. /\ Numbered(pipe, Len(out)) /\ Len(out) + Len(pipe) = wrote
      BY SMTT(60), <1>1, <2>1, <2>4, <3>1 DEF Flow
    <3>3. out' \in Seq(Nat) /\ Len(out') = Len(out) + Len(pipe) /\ Numbered(out', 0)
      BY SMTT(60), <1>1, <2>2, <2>4, <3>2, NumberedConcat
    <3>4. cache' \in Seq(Nat) /\ Len(cache') = 0 /\ pipe' \in Seq(Nat) /\ Len(pipe') = 0
      BY <2>4, NumberedEmpty
    <3>5. Numbered(cache', Len(out')) /\ Numbered(pipe', Len(out') + Len(cache'))
      BY SMTT(60), <1>1, <2>4, <3>3, <3>4, NumberedEmpty
    <3>. HIDE DEF Numbered
    <3>. QED BY SMTT(60), <1>1, <2>1, <2>2, <3>1, <3>2, <3>3, <3>4, <3>5 DEF Flow
  <2>. QED BY <1>9, <2>3, <2>4 DEF ReadMultiBuffer, CacheTaken
<1>10. CASE UNCHANGED sniffingVars BY <1>2, <1>10 DEF sniffingVars, clientVars, readVars
<1>. QED BY <1>3, <1>4, <1>5, <1>6, <1>7, <1>8, <1>9, <1>10 DEF SniffNext, DispatchStep

\* A numbered sequence from the first chunk on is a beginning of what was sent.
LEMMA NumberedIsSent ==
    ASSUME NEW s \in Seq(Nat), Numbered(s, 0), wrote \in Nat
    PROVE  /\ Len(s) <= wrote => s = SubSeq(Sent, 1, Len(s)) /\ Len(s) \in 0 .. Len(Sent)
           /\ Len(s) = wrote => s = Sent
<1>1. Sent \in Seq(Nat) /\ Len(Sent) = wrote /\ \A i \in 1 .. wrote : Sent[i] = i
  BY SMTT(60) DEF Sent
<1>2. Len(s) \in Nat /\ \A i \in 1 .. Len(s) : s[i] = i BY SMTT(60) DEF Numbered
<1>. HIDE DEF Sent
<1>3. ASSUME Len(s) <= wrote PROVE s = SubSeq(Sent, 1, Len(s)) /\ Len(s) \in 0 .. Len(Sent)
  <2>1. /\ s = [i \in 1 .. Len(s) |-> s[i]]
        /\ SubSeq(Sent, 1, Len(s)) = [i \in 1 .. Len(s) |-> Sent[i]]
    BY SMTT(60), <1>1, <1>2, <1>3
  <2>2. \A i \in 1 .. Len(s) : Sent[i] = s[i] BY SMTT(60), <1>1, <1>2, <1>3
  <2>3. s = SubSeq(Sent, 1, Len(s)) BY <2>1, <2>2
  <2>. QED BY SMTT(60), <1>1, <1>2, <1>3, <2>3
<1>4. ASSUME Len(s) = wrote PROVE s = Sent
  <2>1. s = [i \in 1 .. wrote |-> s[i]] BY SMTT(60), <1>4
  <2>. QED BY <1>2, <1>4, <2>1 DEF Sent
<1>. QED BY <1>3, <1>4

\* The outbound reads what the client wrote, in order and once, whatever was sniffed, timed
\* out or interrupted in between (cachedReader, Dispatch, DispatchLink).
THEOREM NothingLostInSniffing == SniffSpec => []Delivered
<1>1. Flow => Delivered
  <2>. SUFFICES ASSUME Flow PROVE Delivered OBVIOUS
  <2>1. /\ wrote \in Nat /\ out \in Seq(Nat) /\ cache \in Seq(Nat) /\ pipe \in Seq(Nat)
        /\ Len(out) \in Nat /\ Len(cache) \in Nat /\ Len(pipe) \in Nat
        /\ Numbered(out, 0) /\ Numbered(cache, Len(out)) /\ Len(out) + Len(cache) <= wrote
    BY SMTT(60) DEF Flow
  <2>2. /\ out \o cache \in Seq(Nat) /\ Len(out \o cache) = Len(out) + Len(cache)
        /\ Numbered(out \o cache, 0)
    BY SMTT(60), <2>1, NumberedConcat
  <2>3. \E n \in 0 .. Len(Sent) : out \o cache = SubSeq(Sent, 1, n)
    <3>. DEFINE s == out \o cache
    <3>1. s \in Seq(Nat) /\ Numbered(s, 0) /\ Len(s) <= wrote BY <2>1, <2>2
    <3>. HIDE DEF s
    <3>2. s = SubSeq(Sent, 1, Len(s)) /\ Len(s) \in 0 .. Len(Sent)
      BY <2>1, <3>1, NumberedIsSent
    <3>3. \E n \in 0 .. Len(Sent) : s = SubSeq(Sent, 1, n) BY <3>2
    <3>. QED BY <3>3 DEF s
  <2>4. ASSUME ~broken, at # "closed" PROVE out \o cache \o pipe = Sent
    <3>1. Numbered(pipe, Len(out) + Len(cache)) /\ Len(out) + Len(cache) + Len(pipe) = wrote
      BY <2>4 DEF Flow
    <3>. DEFINE s == out \o cache
    <3>2. s \in Seq(Nat) /\ Len(s) = Len(out) + Len(cache) /\ Numbered(s, 0) BY <2>2
    <3>. HIDE DEF s, Numbered
    <3>3. Numbered(pipe, 0 + Len(s)) /\ Len(s) + Len(pipe) = wrote BY SMTT(60), <2>1, <3>1, <3>2
    <3>4. s \o pipe \in Seq(Nat) /\ Numbered(s \o pipe, 0) /\ Len(s \o pipe) = wrote
      BY <2>1, <3>2, <3>3, NumberedConcat
    <3>5. s \o pipe = Sent BY <2>1, <3>4, NumberedIsSent
    <3>. QED BY <3>5 DEF s
  <2>. QED BY <2>3, <2>4 DEF Delivered
<1>. QED BY <1>1, FlowInit, FlowNext, PTL DEF SniffSpec

\* The request asks for the domain of an address the fake DNS gave out.
Asked ==
    /\ request.sniffing # "off" /\ request.fake = "known"
    /\ "fakedns" \in request.override /\ ~request.excluded

\* The metadata names the domain from the first step of sniffing on, and the destination
\* has it once the rules are looked up.
Resolved ==
    Asked => /\ at \in {"start", "cache", "sniff", "sniffed", "route", "open", "closed"}
             /\ at \in {"cache", "sniff", "sniffed"} => meta = [protocol |-> "fakedns",
                                                                domain |-> "real"]
             /\ at \in {"route", "open"} => target = "real"

\* A connection to a known fake address is never dialled by that address when sniffing was
\* asked to resolve it: not in route-only mode and not when its content was recognised as
\* something else (SniffMetadata, CompositeResult, shouldOverride).
THEOREM FakeAddressesResolved == SniffSpec => []FakeNeverDialled
<1>1. SniffInit => Resolved BY DEF SniffInit, Resolved
<1>2. Resolved /\ [SniffNext]_sniffingVars => Resolved'
  <2>. SUFFICES ASSUME Resolved, [SniffNext]_sniffingVars, Asked, request' = request
                PROVE  Resolved'
    BY DEF SniffNext, DispatchStep, ClientWrite, ClientClose, CloseAll, Begin, Cache,
           CacheTimesOut, CacheFails, Sniff, Override, Refuse, Open, ReadMultiBuffer,
           sniffingVars, Resolved, Asked
  <2>1. CASE Begin
    BY <2>1 DEF Begin, SniffMetadata, Resolved, Asked
  <2>2. CASE Override
    <3>1. at = "sniffed" /\ meta = [protocol |-> "fakedns", domain |-> "real"]
      BY <2>2 DEF Override, Resolved
    <3>2. meta # NoResult BY <3>1 DEF NoResult
    <3>3. SniffResult.domain = "real" /\ SniffResult.forDomain = "fakedns"
      BY <3>1, <3>2 DEF SniffResult, CompositeResult, Alone
    <3>4. ShouldOverride(SniffResult) /\ ~RouteOnly(SniffResult)
      BY <3>3 DEF ShouldOverride, RouteOnly, SamePrefix, Asked
    <3>5. at' = "route" /\ target' = "real" BY <2>2, <3>3, <3>4 DEF Override
    <3>. QED BY <3>5 DEF Resolved
  <2>3. ASSUME NEW time \in 0 .. left, Cache(time) PROVE Resolved'
    BY <2>3 DEF Cache, Resolved, targetVars
  <2>4. CASE CacheTimesOut \/ CacheFails \/ Sniff
    <3>1. at \in {"cache", "sniff"} /\ at' \in {"cache", "sniff", "sniffed"} /\ meta' = meta
      BY <2>4 DEF CacheTimesOut, CacheFails, Sniff, sniffVars
    <3>. QED BY <3>1 DEF Resolved
  <2>5. CASE Refuse \/ Open
    BY <2>5 DEF Refuse, Open, Resolved, targetVars
  <2>6. CASE ClientWrite \/ ClientClose \/ CloseAll \/ ReadMultiBuffer \/ UNCHANGED sniffingVars
    <3>1. UNCHANGED <<at, meta, target>>
      BY <2>6 DEF ClientWrite, ClientClose, CloseAll, ReadMultiBuffer, sniffingVars, sniffVars,
                  targetVars
    <3>. QED BY <3>1 DEF Resolved
  <2>. QED BY <2>1, <2>2, <2>3, <2>4, <2>5, <2>6 DEF SniffNext, DispatchStep
<1>3. Resolved => FakeNeverDialled BY DEF Resolved, Asked, FakeNeverDialled
<1>. QED BY <1>1, <1>2, <1>3, PTL DEF SniffSpec
=============================================================================
