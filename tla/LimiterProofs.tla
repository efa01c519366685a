--------------------------- MODULE LimiterProofs ---------------------------
(***************************************************************************)
(* The limiter, for every set of connections, users, addresses and user    *)
(* lists: type correctness and the kick bookkeeping, the online table and  *)
(* its refinement of OnlineRegistry, the kicked addresses, and the cache   *)
(* that feeds the next report.                                             *)
(***************************************************************************)
EXTENDS Limiter, FiniteSetTheorems, TLAPS

\* A leaf is left to Zenon unless it names another prover.
USE ZenonT(60)

\* Identity of the onlineUser objects.  A connection owns an object once it
\* is tracked; an object is named after the connection that allocated it, so
\* no two objects share a name and an object serves one credential of one
\* limiter only.  This is what makes the pointer comparison of the release
\* callback mean what it is meant to.
Identity ==
    /\ \A c \in Conns : obj[c] # None <=> pc[c] = "tracked"
    /\ \A c \in Conns : ended[c] # {} => pc[c] = "tracked"
    /\ \A c \in Conns : obj[c] # None =>
          /\ obj[obj[c]] = obj[c]
          /\ req[obj[c]].uuid = req[c].uuid
          /\ req[obj[c]].gen = req[c].gen
    /\ \A u \in Uuids : online[u] # None =>
          /\ obj[online[u].id] = online[u].id
          /\ req[online[u].id].uuid = u
          /\ req[online[u].id].gen = gen

\* The inductive invariant.
OnlineInv == TypeOK /\ TablesMatchUsers /\ Identity /\ RegistrationsCounted

-----------------------------------------------------------------------------
\* The limit arithmetic stays in the naturals.
LEMMA Max2Nat == \A a \in Int : Max2(a, 0) \in Nat
  BY SMTT(60) DEF Max2

LEMMA CloneType == \A a \in [Uids -> Int] : cloneAliveList(a) \in [Uids -> Nat]
  BY Max2Nat DEF cloneAliveList

LEMMA SpeedLimitNat == \A a, b \in Nat : determineSpeedLimit(a, b) \in Nat
  BY DEF determineSpeedLimit, Max2

\* No connection and no row of the online table is nil.
LEMMA NoneApart ==
    None \notin Conns /\ None \notin Row /\ None \notin Request /\ None \notin View
  BY LimiterConstants

\* Only finitely many connections hold a registration.
LEMMA HoldersFinite ==
    \A u \in Uuids, ip \in IPs :
        /\ IsFiniteSet(Holders(u, ip))
        /\ Cardinality(Holders(u, ip)) \in Nat
  <1>1. ASSUME NEW u \in Uuids, NEW ip \in IPs
        PROVE  IsFiniteSet(Holders(u, ip))
    <2>1. Holders(u, ip) \subseteq Conns
      BY DEF Holders
    <2> QED
      BY <2>1, LimiterConstants, FS_Subset
  <1> QED
    BY <1>1, FS_CardinalityType

\* The initial limiter has no rows and no registrations.
LEMMA InitOnlineInv == Init => OnlineInv
  <1> SUFFICES ASSUME Init PROVE OnlineInv
    OBVIOUS
  <1>1. TypeOK
    <2>1. alive \in [Uids -> Nat]
      BY SMTT(60), CloneType, LimiterConstants DEF Init
    <2>2. tolerance \in Nat
      BY SMTT(60), Max2Nat, LimiterConstants DEF Init
    <2>3. users \in [Uuids -> UserInfo \union {None}] /\ info = users
      BY LimiterConstants DEF Init
    <2>4. exempt \in SUBSET IPs
      BY LimiterConstants DEF Init
    <2> QED
      BY <2>1, <2>2, <2>3, <2>4 DEF Init, TypeOK, EmptyCache, NoKicks
  <1>2. TablesMatchUsers
    BY DEF Init, TablesMatchUsers
  <1>3. Identity
    BY LimiterConstants DEF Init, Identity
  <1>4. RegistrationsCounted
    BY DEF Init, RegistrationsCounted
  <1> QED
    BY <1>1, <1>2, <1>3, <1>4 DEF OnlineInv

\* A step that touches neither the table nor a tracked connection leaves the
\* online part of the invariant alone.
LEMMA QuietStep ==
    ASSUME OnlineInv,
           online' = online, obj' = obj, ended' = ended, gen' = gen,
           users' = users, info' = info,
           \A c \in Conns : pc'[c] = "tracked" <=> pc[c] = "tracked",
           \A c \in Conns : pc[c] = "tracked" => req'[c] = req[c]
    PROVE  /\ TablesMatchUsers'
           /\ Identity'
           /\ RegistrationsCounted'
           /\ \A c \in Conns : Registered(c)' <=> Registered(c)
  <1>1. \A c \in Conns : Registered(c)' <=> Registered(c)
    BY DEF Registered, Attached, OnlineInv, TypeOK
  <1>2. \A u \in Uuids, ip \in IPs : Holders(u, ip)' = Holders(u, ip)
    BY SMTT(60), <1>1 DEF Holders, Registered
  <1>3. RegistrationsCounted'
    BY <1>2 DEF OnlineInv, RegistrationsCounted
  <1>4. TablesMatchUsers'
    BY DEF OnlineInv, TablesMatchUsers
  <1>5. \A c \in Conns : obj[c] # None =>
            obj[c] \in Conns /\ req'[obj[c]] = req[obj[c]] /\ req'[c] = req[c]
    BY SMTT(60) DEF OnlineInv, TypeOK, Identity
  <1>6. \A u \in Uuids : online[u] # None =>
            online[u].id \in Conns /\ req'[online[u].id] = req[online[u].id]
    BY SMTT(60), LimiterConstants DEF OnlineInv, TypeOK, Identity, Row
  <1>7. Identity'
    BY SMTT(60), <1>5, <1>6 DEF OnlineInv, Identity
  <1> QED
    BY <1>1, <1>3, <1>4, <1>7

-----------------------------------------------------------------------------
\* A connection holding a registration has something to give back: the count
\* of its address is positive.
LEMMA OwnedCountPositive ==
    ASSUME OnlineInv, NEW c \in Conns, Registered(c)
    PROVE  /\ req[c].uuid \in Uuids
           /\ req[c].ip \in IPs
           /\ online[req[c].uuid] \in Row
           /\ online[req[c].uuid].ips[req[c].ip] \in Nat \ {0}
  <1> DEFINE u == req[c].uuid
             ip == req[c].ip
  <1>1. u \in Uuids /\ ip \in IPs
    BY DEF OnlineInv, TypeOK, Registered, Request
  <1>2. online[u] \in Row
    BY SMTT(60), <1>1 DEF OnlineInv, TypeOK, Registered
  <1>3. c \in Holders(u, ip)
    BY DEF Holders
  <1>4. Holders(u, ip) # {} /\ IsFiniteSet(Holders(u, ip))
    BY <1>1, <1>3, HoldersFinite
  <1>5. Cardinality(Holders(u, ip)) # 0
    BY <1>4, FS_EmptySet
  <1>6. online[u].ips[ip] = Cardinality(Holders(u, ip))
    BY <1>1 DEF OnlineInv, RegistrationsCounted, Registered
  <1> QED
    BY <1>1, <1>2, <1>5, <1>6, HoldersFinite

\* A row stays a row when a connection joins or leaves it.
LEMMA RowTypes ==
    ASSUME NEW row \in Row, NEW ip \in IPs
    PROVE  /\ RowWith(row, ip) \in Row
           /\ row.ips[ip] # 0 => RowWithout(row, ip) \in Row \union {None}
  <1>1. RowWith(row, ip) \in Row
    BY SMTT(60) DEF RowWith, Row
  <1>2. row.ips[ip] # 0 => [row.ips EXCEPT ![ip] = @ - 1] \in [IPs -> Nat]
    BY SMTT(60) DEF Row
  <1> QED
    BY <1>1, <1>2 DEF RowWithout, Row

\* CheckLimit only reads well-formed values.
LEMMA ViewTypes ==
    /\ \A v \in View, t \in Nat :
          [v EXCEPT !.ceiling = v.deviceLimit + t] \in View
    /\ \A i \in UserInfo, limit \in Nat, k \in Nat :
          [uid |-> i.uid, deviceLimit |-> limit, rate |-> i.rate,
           ceiling |-> 0, kickedUntil |-> k] \in View
  BY SMTT(60) DEF View, UserInfo

\* The admission part of a connection's path: the variables it writes.
LEMMA AdmissionType ==
    ASSUME TypeOK, NEW c \in Conns,
           LoadInfo(c) \/ CheckKicked(c) \/ Admit(c)
    PROVE  TypeOK'
  <1>1. CASE LoadInfo(c)
    <2> DEFINE r == req[c]
               i == info[r.uuid]
               limit == IF r.ip \in exempt THEN 0 ELSE i.deviceLimit
    <2>1. r \in Request
      BY <1>1 DEF LoadInfo, TypeOK
    <2>2. CASE i = None
      BY <1>1, <2>2 DEF LoadInfo, TypeOK
    <2>3. CASE i # None
      <3>1. i \in UserInfo
        BY <2>1, <2>3 DEF TypeOK, Request
      <3>2. limit \in Nat /\ kicked[i.uid][r.ip] \in Nat
        <4>1. i.deviceLimit \in Nat /\ i.uid \in Uids /\ 0 \in Nat
          BY SMTT(60), <3>1 DEF UserInfo
        <4>2. r.ip \in IPs
          BY <2>1 DEF Request
        <4>3. kicked \in [Uids -> [IPs -> Nat]]
          BY DEF TypeOK
        <4> QED
          BY <4>1, <4>2, <4>3
      <3> DEFINE v == [uid |-> i.uid, deviceLimit |-> limit, rate |-> i.rate,
                       ceiling |-> 0, kickedUntil |-> kicked[i.uid][r.ip]]
      <3>3. v \in View /\ v # None
        <4>1. v \in View
          BY <3>1, <3>2, ViewTypes
        <4> QED
          BY <4>1, NoneApart
      <3>4. seen' = [seen EXCEPT ![c] = v] /\ pc' = [pc EXCEPT ![c] = "loaded"]
        BY <1>1, <2>3 DEF LoadInfo
      <3> HIDE DEF v
      <3> QED
        BY <1>1, <3>3, <3>4 DEF LoadInfo, TypeOK
    <2> QED
      BY <2>2, <2>3
  <1>2. CASE CheckKicked(c)
    <2>1. seen[c] \in View /\ tolerance \in Nat
      BY <1>2 DEF CheckKicked, TypeOK
    <2> DEFINE v == [seen[c] EXCEPT !.ceiling = seen[c].deviceLimit + tolerance]
    <2>2. v \in View /\ v # None
      BY SMTT(60), <2>1, ViewTypes, NoneApart
    <2>3. \/ seen' = seen /\ pc' = [pc EXCEPT ![c] = "refused"]
          \/ seen' = [seen EXCEPT ![c] = v] /\ pc' = [pc EXCEPT ![c] = "passed"]
      BY <1>2 DEF CheckKicked, TypeOK
    <2> HIDE DEF v
    <2>4. /\ pc' \in [Conns -> {"idle", "check", "loaded", "passed", "admitted",
                              "tracked", "open", "dropped", "refused"}]
          /\ seen' \in [Conns -> View \union {None}]
      <3> DEFINE Views == View \union {None}
      <3>1. v \in Views /\ seen \in [Conns -> Views]
        BY <2>2 DEF TypeOK
      <3> HIDE DEF Views
      <3>2. seen' \in [Conns -> Views]
        BY <2>3, <3>1
      <3>3. pc' \in [Conns -> {"idle", "check", "loaded", "passed", "admitted",
                              "tracked", "open", "dropped", "refused"}]
        BY <2>3 DEF TypeOK
      <3> QED
        BY <3>2, <3>3 DEF Views
    <2>5. /\ req' = req /\ pc[c] # "idle"
          /\ \A d \in Conns : d # c => pc'[d] = pc[d] /\ seen'[d] = seen[d]
          /\ pc'[c] = "refused" \/ (pc'[c] = "passed" /\ seen'[c] # None)
      BY <1>2, <2>2, <2>3 DEF CheckKicked, TypeOK
    <2>6. /\ \A d \in Conns : pc'[d] # "idle" => req'[d] # None
          /\ \A d \in Conns : pc'[d] \in {"loaded", "passed", "admitted"}
                                 => seen'[d] # None
      BY <2>5 DEF TypeOK
    <2> QED
      BY <1>2, <2>4, <2>6 DEF CheckKicked, TypeOK
  <1>3. CASE Admit(c)
    <2>1. req[c] \in Request /\ seen[c] \in View
      BY <1>3 DEF Admit, TypeOK
    <2>2. req[c].uuid \in Uuids /\ req[c].ip \in IPs /\ seen[c].uid \in Uids
      BY <2>1 DEF Request, View
    <2> DEFINE row == [cache[req[c].uuid] EXCEPT ![req[c].ip] = seen[c].uid]
               e == IF old[req[c].ip] = seen[c].uid THEN None ELSE old[req[c].ip]
    <2>3. row \in [IPs -> Uids \union {None}] /\ e \in Uids \union {None}
      BY <2>2 DEF TypeOK
    <2>4. \/ cache' = cache /\ old' = old
          \/ /\ cache' = [cache EXCEPT ![req[c].uuid] = row]
             /\ old' = [old EXCEPT ![req[c].ip] = e]
      BY <1>3 DEF Admit, AdmitStream
    <2> HIDE DEF row, e
    <2> DEFINE CacheRow == [IPs -> Uids \union {None}]
    <2>6. row \in CacheRow /\ cache \in [Uuids -> CacheRow] /\ old \in CacheRow
      BY <2>3 DEF TypeOK
    <2>7. old' \in CacheRow
      BY <2>2, <2>3, <2>4, <2>6
    <2> HIDE DEF CacheRow
    <2>8. cache' \in [Uuids -> CacheRow]
      BY <2>2, <2>4, <2>6
    <2> USE DEF CacheRow
    <2>5. bucket' \in [Uuids -> Nat]
      <3>1. determineSpeedLimit(NodeRate, seen[c].rate) \in Nat
        BY <2>1, LimiterConstants, SpeedLimitNat DEF View
      <3> QED
        BY SMTT(60), <1>3, <2>2, <3>1 DEF Admit, TakeBucket, TypeOK
    <2> QED
      BY SMTT(60), <1>3, <2>5, <2>7, <2>8 DEF Admit, TypeOK
  <1> QED
    BY <1>1, <1>2, <1>3

\* Type correctness of all steps of a connection.
LEMMA ConnectionType ==
    ASSUME OnlineInv, NEW c \in Conns, Connection(c)
    PROVE  TypeOK'
  <1>1. ASSUME NEW u \in Uuids, NEW ip \in IPs, NEW tcp \in Streams,
               GetLimiter(c, u, ip, tcp)
        PROVE  TypeOK'
    <2> DEFINE r == [uuid |-> u, ip |-> ip, tcp |-> tcp, gen |-> gen]
    <2>1. r \in Request /\ r # None
      BY SMTT(60), LimiterConstants DEF Request, OnlineInv, TypeOK
    <2>2. req' = [req EXCEPT ![c] = r]
      BY <1>1 DEF GetLimiter
    <2> HIDE DEF r
    <2> QED
      BY SMTT(60), <1>1, <2>1, <2>2 DEF GetLimiter, OnlineInv, TypeOK
  <1>2. CASE LoadInfo(c) \/ CheckKicked(c) \/ Admit(c)
    BY <1>2, AdmissionType DEF OnlineInv
  <1>3. CASE RuleReject(c)
    BY <1>3 DEF RuleReject, OnlineInv, TypeOK
  <1>4. CASE TrackConnection(c)
    <2> DEFINE u == req[c].uuid
               ip == req[c].ip
               reuse == online[u] # None /\ online[u].uid = info[u].uid
               new == [id |-> c, uid |-> info[u].uid,
                       ips |-> [j \in IPs |-> IF j = ip THEN 1 ELSE 0]]
               row == IF reuse THEN RowWith(online[u], ip) ELSE new
    <2>1. u \in Uuids /\ ip \in IPs
      BY <1>4 DEF TrackConnection, OnlineInv, TypeOK, Request
    <2>2. CASE info[u] = None
      <3>1. /\ pc' = [pc EXCEPT ![c] = "open"]
            /\ UNCHANGED <<users, registered, gen, info, online, cache, old, alive, kicked,
                           tolerance, exempt, bucket, now, req, seen, obj, ended>>
        BY <1>4, <2>2 DEF TrackConnection
      <3>2. pc[c] # "idle"
        BY <1>4 DEF TrackConnection
      <3> QED
        BY SMTT(60), <3>1, <3>2 DEF OnlineInv, TypeOK
    <2>3. CASE info[u] # None
      <3>1. new \in Row
        BY <2>1, <2>3 DEF OnlineInv, TypeOK, UserInfo, Row
      <3>2. reuse => online[u] \in Row /\ online[u].id \in Conns
        BY SMTT(60), <2>1 DEF OnlineInv, TypeOK, Row
      <3>3. row \in Row
        BY <2>1, <3>1, <3>2, RowTypes
      <3>4. /\ online' = [online EXCEPT ![u] = row]
            /\ obj' = [obj EXCEPT ![c] = IF reuse THEN online[u].id ELSE c]
            /\ pc' = [pc EXCEPT ![c] = "tracked"]
        BY <1>4, <2>1, <2>3 DEF TrackConnection
      <3> HIDE DEF row
      <3> QED
        BY <1>4, <3>2, <3>3, <3>4 DEF TrackConnection, OnlineInv, TypeOK
    <2> QED
      BY <2>2, <2>3
  <1>5. ASSUME NEW how \in {"close", "context"}, Release(c, how)
        PROVE  TypeOK'
    <2> DEFINE u == req[c].uuid
               row == RowWithout(online[u], req[c].ip)
    <2>1. Registered(c) => row \in Row \union {None}
      BY OwnedCountPositive, RowTypes
    <2>2. \/ online' = online
          \/ Registered(c) /\ online' = [online EXCEPT ![u] = row]
      BY <1>5 DEF Release, OwnsRow, Registered
    <2>3. online' \in [Uuids -> Row \union {None}]
      BY <2>1, <2>2 DEF OnlineInv, TypeOK
    <2>4. ended' \in [Conns -> SUBSET {"close", "context"}]
      BY <1>5 DEF Release, OnlineInv, TypeOK
    <2> QED
      BY <1>5, <2>3, <2>4 DEF Release, OnlineInv, TypeOK
  <1>6. CASE FinishDetached(c)
    BY SMTT(60), <1>6 DEF FinishDetached, OnlineInv, TypeOK
  <1> QED
    BY <1>1, <1>2, <1>3, <1>4, <1>5, <1>6 DEF Connection

\* Type correctness of the controller's, the panel's and the clock's steps.
LEMMA EnvironmentType ==
    ASSUME OnlineInv, Environment
    PROVE  TypeOK'
  <1>1. ASSUME NEW list \in UserLists, UpdateUser(list)
        PROVE  TypeOK'
    <2>1. list \in [Uuids -> UserInfo \union {None}]
      BY LimiterConstants
    <2> QED
      BY <1>1, <2>1 DEF UpdateUser, LosesRow, connVars, OnlineInv, TypeOK
  <1>2. ASSUME NEW a \in AliveMaps, UpdateAliveList(a)
        PROVE  TypeOK'
    BY <1>2, CloneType, LimiterConstants
       DEF UpdateAliveList, connVars, OnlineInv, TypeOK
  <1>3. ASSUME NEW t \in Tolerances, NEW ex \in ExemptSets, SetDevicePolicy(t, ex)
        PROVE  TypeOK'
    BY <1>3, Max2Nat, LimiterConstants
       DEF SetDevicePolicy, connVars, OnlineInv, TypeOK
  <1>4. ASSUME NEW uid \in Uids, NEW ip \in IPs, NEW ttl \in Ttls,
               MergeKickedList(uid, ip, ttl)
        PROVE  TypeOK'
    <2> DEFINE e == MergedExpiry(kicked[uid][ip], ttl)
               merged == [kicked EXCEPT ![uid] = [kicked[uid] EXCEPT ![ip] = e]]
    <2>1. e \in Nat
      BY SMTT(60), LimiterConstants DEF MergedExpiry, Max2, OnlineInv, TypeOK
    <2>2. merged \in [Uids -> [IPs -> Nat]]
      BY <2>1 DEF OnlineInv, TypeOK
    <2>3. kicked' = [x \in Uids |-> [j \in IPs |->
                        IF merged[x][j] <= now THEN 0 ELSE merged[x][j]]]
      BY <1>4 DEF MergeKickedList
    <2> HIDE DEF merged
    <2>4. kicked' \in [Uids -> [IPs -> Nat]]
      BY <2>2, <2>3 DEF OnlineInv, TypeOK
    <2> QED
      BY <1>4, <2>4 DEF MergeKickedList, connVars, OnlineInv, TypeOK
  <1>5. CASE Tick
    BY SMTT(60), <1>5 DEF Tick, connVars, OnlineInv, TypeOK
  <1>6. CASE GetOnlineDevice
    BY <1>6 DEF GetOnlineDevice, EmptyCache, connVars, OnlineInv, TypeOK
  <1>7. CASE DeleteLimiter
    BY <1>7 DEF DeleteLimiter, connVars, OnlineInv, TypeOK
  <1>8. ASSUME NEW list \in UserLists, NEW a \in AliveMaps, NEW t \in Tolerances,
               NEW ex \in ExemptSets, AddLimiter(list, a, t, ex)
        PROVE  TypeOK'
    <2>1. list \in [Uuids -> UserInfo \union {None}] /\ ex \in SUBSET IPs
      BY LimiterConstants
    <2>2. cloneAliveList(a) \in [Uids -> Nat] /\ Max2(t, 0) \in Nat
      BY CloneType, Max2Nat, LimiterConstants
    <2> QED
      BY SMTT(60), <1>8, <2>1, <2>2
         DEF AddLimiter, FreshLimiter, EmptyCache, NoKicks, connVars, OnlineInv,
             TypeOK
  <1> QED
    BY <1>1, <1>2, <1>3, <1>4, <1>5, <1>6, <1>7, <1>8 DEF Environment

-----------------------------------------------------------------------------
\* What CheckLimit knows of a kick.  Between reading the user's limits and
\* asking isKicked no lock is held: the kick seen at the first point is over,
\* or is still recorded with at least the same expiry.  A connection never
\* holds a limiter of the future, so a reload detaches all that are under way.
KickInv ==
    /\ \A c \in Conns : pc[c] = "loaded" /\ Attached(c) =>
          \/ seen[c].kickedUntil <= now
          \/ seen[c].kickedUntil <= kicked[seen[c].uid][req[c].ip]
    /\ \A c \in Conns : pc[c] # "idle" => req[c].gen <= gen
    /\ \A c \in Conns : pc[c] = "tracked" => seen[c] # None
    /\ KickedStayOut

\* Merging and pruning never shorten a kick in force.
LEMMA MergeKeepsKicks ==
    ASSUME TypeOK, NEW uid \in Uids, NEW ip \in IPs, NEW ttl \in Ttls,
           MergeKickedList(uid, ip, ttl)
    PROVE  \A x \in Uids, j \in IPs :
              kicked[x][j] > now => kicked'[x][j] >= kicked[x][j]
  <1> SUFFICES ASSUME NEW x \in Uids, NEW j \in IPs, kicked[x][j] > now
               PROVE  kicked'[x][j] >= kicked[x][j]
    OBVIOUS
  <1> DEFINE e == MergedExpiry(kicked[uid][ip], ttl)
             merged == [kicked EXCEPT ![uid] = [kicked[uid] EXCEPT ![ip] = e]]
  <1>1. kicked[uid][ip] \in Nat /\ kicked[x][j] \in Nat /\ now \in Nat /\ ttl \in Int
    BY SMTT(60), LimiterConstants DEF TypeOK
  <1>2. e \in Nat /\ e >= kicked[uid][ip]
    BY SMTT(60), <1>1 DEF MergedExpiry, Max2
  <1> HIDE DEF e
  <1>3. merged[x][j] = IF x = uid /\ j = ip THEN e ELSE kicked[x][j]
    BY DEF TypeOK
  <1>4. kicked'[x][j] = IF merged[x][j] <= now THEN 0 ELSE merged[x][j]
    BY DEF MergeKickedList, e
  <1> HIDE DEF merged
  <1> QED
    BY SMTT(60), <1>1, <1>2, <1>3, <1>4

\* Every step keeps the kick bookkeeping.
LEMMA KickStep ==
    ASSUME TypeOK, TypeOK', KickInv, [Next]_vars
    PROVE  KickInv'
  <1> DEFINE F(c) == /\ pc'[c] = "loaded" /\ req'[c].gen = gen =>
                          \/ seen'[c].kickedUntil <= now
                          \/ seen'[c].kickedUntil <= kicked[seen'[c].uid][req'[c].ip]
                     /\ pc'[c] # "idle" => req'[c].gen <= gen
                     /\ pc'[c] = "tracked" => seen'[c] # None
                     /\ pc'[c] \in {"passed", "admitted", "tracked"} =>
                          seen'[c].kickedUntil <= now
             Other(c) == \A d \in Conns \ {c} :
                            pc'[d] = pc[d] /\ seen'[d] = seen[d] /\ req'[d] = req[d]
  <1>t. /\ pc \in [Conns -> {"idle", "check", "loaded", "passed", "admitted",
                             "tracked", "open", "dropped", "refused"}]
        /\ seen \in [Conns -> View \union {None}]
        /\ req \in [Conns -> Request \union {None}]
        /\ kicked \in [Uids -> [IPs -> Nat]] /\ gen \in Nat /\ now \in Nat
    BY DEF TypeOK
  <1>0. ASSUME NEW c \in Conns
        PROVE  /\ pc[c] \in {"loaded", "passed", "admitted"} =>
                     /\ seen[c] \in View /\ req[c] \in Request
                     /\ seen[c].uid \in Uids /\ req[c].ip \in IPs
                     /\ seen[c].kickedUntil \in Nat
                     /\ kicked[seen[c].uid][req[c].ip] \in Nat
               /\ pc[c] = "tracked" => seen[c].kickedUntil \in Nat
               /\ pc[c] # "idle" => req[c] \in Request /\ req[c].gen \in Nat
    <2>1. pc[c] # "idle" => req[c] \in Request
      BY <1>t DEF TypeOK
    <2>2. pc[c] \in {"loaded", "passed", "admitted"} => seen[c] \in View
      BY <1>t DEF TypeOK
    <2>3. pc[c] = "tracked" => seen[c] \in View
      BY <1>t DEF KickInv
    <2> QED
      BY SMTT(60), <1>t, <2>1, <2>2, <2>3 DEF Request, View
  <1>1. ASSUME UNCHANGED <<gen, kicked, now>>, NEW c \in Conns, Other(c), F(c)
        PROVE  KickInv'
    BY SMTT(60), <1>1 DEF KickInv, KickedStayOut, Attached
  <1> HIDE DEF F, Other
  <1>2. ASSUME NEW c \in Conns, Connection(c)
        PROVE  KickInv'
    <2>0. /\ pc[c] # "idle" => req[c].gen <= gen
          /\ pc[c] = "tracked" => seen[c] # None
          /\ pc[c] \in {"passed", "admitted", "tracked"} => seen[c].kickedUntil <= now
      BY DEF KickInv, KickedStayOut
    <2>1. ASSUME NEW x, x \notin {"idle", "loaded"}, pc[c] # "idle",
                 x \in {"passed", "admitted", "tracked"} =>
                    pc[c] \in {"passed", "admitted", "tracked"},
                 x = "tracked" => seen[c] # None,
                 pc' = [pc EXCEPT ![c] = x],
                 UNCHANGED <<gen, kicked, now, req, seen>>
          PROVE  KickInv'
      <3>1. pc'[c] = x /\ Other(c)
        BY <1>t, <2>1 DEF Other
      <3>2. F(c)
        BY <2>0, <2>1, <3>1 DEF F
      <3> QED
        BY <1>1, <2>1, <3>1, <3>2
    <2>2. ASSUME NEW u \in Uuids, NEW ip \in IPs, NEW tcp \in Streams,
                 GetLimiter(c, u, ip, tcp)
          PROVE  KickInv'
      <3>1. /\ pc'[c] \in {"check", "open", "refused"} /\ req'[c].gen = gen
            /\ UNCHANGED <<gen, kicked, now>> /\ Other(c)
        BY <1>t, <2>2 DEF GetLimiter, Other
      <3>2. F(c)
        BY SMTT(60), <1>t, <3>1 DEF F
      <3> QED
        BY <1>1, <3>1, <3>2
    <2>3. CASE LoadInfo(c)
      <3> DEFINE i == info[req[c].uuid]
      <3>1. CASE i = None
        <4>1. /\ pc[c] = "check" /\ pc' = [pc EXCEPT ![c] = "refused"]
              /\ UNCHANGED <<gen, kicked, now, req, seen>>
          BY <2>3, <3>1 DEF LoadInfo
        <4> QED
          BY <2>1, <4>1
      <3>2. CASE i # None
        <4>1. /\ pc[c] = "check" /\ pc' = [pc EXCEPT ![c] = "loaded"]
              /\ UNCHANGED <<gen, kicked, now, req>>
          BY <2>3, <3>2 DEF LoadInfo
        <4>2. PICK limit : seen' = [seen EXCEPT ![c] =
                 [uid |-> i.uid, deviceLimit |-> limit, rate |-> i.rate,
                  ceiling |-> 0, kickedUntil |-> kicked[i.uid][req[c].ip]]]
          BY <2>3, <3>2 DEF LoadInfo
        <4>3. req[c].uuid \in Uuids /\ req[c].ip \in IPs
          BY <1>0, <4>1 DEF Request
        <4>4. i \in UserInfo
          BY <3>2, <4>3 DEF TypeOK
        <4>5. kicked[i.uid][req[c].ip] \in Nat
          BY SMTT(60), <1>t, <4>3, <4>4 DEF UserInfo
        <4> HIDE DEF i
        <4>6. /\ seen'[c].uid = i.uid
              /\ seen'[c].kickedUntil = kicked[i.uid][req[c].ip]
              /\ pc'[c] = "loaded"
          BY <1>t, <4>1, <4>2
        <4>7. Other(c)
          BY <1>t, <4>1, <4>2 DEF Other
        <4>8. F(c)
          BY SMTT(60), <2>0, <4>1, <4>5, <4>6 DEF F
        <4> QED
          BY <1>1, <4>1, <4>7, <4>8
      <3> QED
        BY <3>1, <3>2
    <2>4. CASE CheckKicked(c)
      <3>1. CASE isKicked(seen[c].uid, req[c].ip)
        <4>1. /\ pc[c] = "loaded" /\ pc' = [pc EXCEPT ![c] = "refused"]
              /\ UNCHANGED <<gen, kicked, now, req, seen>>
          BY <2>4, <3>1 DEF CheckKicked
        <4> QED
          BY <2>1, <4>1
      <3>2. CASE ~isKicked(seen[c].uid, req[c].ip)
        <4>1. /\ pc[c] = "loaded" /\ Attached(c)
              /\ pc' = [pc EXCEPT ![c] = "passed"]
              /\ UNCHANGED <<gen, kicked, now, req>>
              /\ seen' = [seen EXCEPT ![c] =
                    [seen[c] EXCEPT !.ceiling = seen[c].deviceLimit + tolerance]]
          BY <1>t, <2>4, <3>2 DEF CheckKicked
        <4>2. \/ seen[c].kickedUntil <= now
              \/ seen[c].kickedUntil <= kicked[seen[c].uid][req[c].ip]
          BY <4>1 DEF KickInv
        <4>3. seen[c].kickedUntil <= now
          BY SMTT(60), <1>t, <1>0, <3>2, <4>1, <4>2 DEF isKicked
        <4>4. seen'[c].kickedUntil = seen[c].kickedUntil /\ pc'[c] = "passed"
          BY <1>t, <1>0, <4>1 DEF View
        <4>5. Other(c)
          BY <1>t, <4>1 DEF Other
        <4>6. F(c)
          BY <2>0, <4>1, <4>3, <4>4 DEF F
        <4> QED
          BY <1>1, <4>1, <4>5, <4>6
      <3> QED
        BY <3>1, <3>2
    <2>5. CASE Admit(c)
      <3>1. PICK x \in {"refused", "admitted"} :
               /\ pc[c] = "passed" /\ pc' = [pc EXCEPT ![c] = x]
               /\ UNCHANGED <<gen, kicked, now, req, seen>>
        BY <2>5 DEF Admit
      <3> QED
        BY <2>1, <3>1
    <2>6. CASE RuleReject(c)
      <3>1. /\ pc[c] = "admitted" /\ pc' = [pc EXCEPT ![c] = "dropped"]
            /\ UNCHANGED <<gen, kicked, now, req, seen>>
        BY <2>6 DEF RuleReject
      <3> QED
        BY <2>1, <3>1
    <2>7. CASE TrackConnection(c)
      <3>1. PICK x \in {"open", "tracked"} :
               /\ pc[c] = "admitted" /\ pc' = [pc EXCEPT ![c] = x]
               /\ UNCHANGED <<gen, kicked, now, req, seen>>
        BY <2>7 DEF TrackConnection
      <3>2. seen[c] # None
        BY <3>1 DEF TypeOK
      <3> QED
        BY <2>1, <3>1, <3>2
    <2>8. ASSUME NEW how \in {"close", "context"}, Release(c, how)
          PROVE  KickInv'
      <3>1. pc[c] = "tracked" /\ UNCHANGED <<gen, kicked, now, pc, req, seen>>
        BY <2>8 DEF Release
      <3> QED
        BY <1>1, <2>0, <3>1 DEF F, Other
    <2>9. CASE FinishDetached(c)
      <3>1. PICK x \in {"refused", "open"} :
               /\ pc[c] # "idle" /\ pc' = [pc EXCEPT ![c] = x]
               /\ UNCHANGED <<gen, kicked, now, req, seen>>
        BY <2>9 DEF FinishDetached
      <3> QED
        BY <2>1, <3>1
    <2> QED
      BY <1>2, <2>2, <2>3, <2>4, <2>5, <2>6, <2>7, <2>8, <2>9 DEF Connection
  <1>3. ASSUME UNCHANGED <<gen, kicked, now, pc, req, seen>>
        PROVE  KickInv'
    BY <1>3 DEF KickInv, KickedStayOut, Attached
  <1>4. ASSUME NEW uid \in Uids, NEW ip \in IPs, NEW ttl \in Ttls,
               MergeKickedList(uid, ip, ttl)
        PROVE  KickInv'
    <2>1. UNCHANGED <<gen, now, pc, req, seen>>
      BY <1>4 DEF MergeKickedList, connVars
    <2>2. \A x \in Uids, j \in IPs :
             kicked[x][j] > now => kicked'[x][j] >= kicked[x][j]
      BY <1>4, MergeKeepsKicks
    <2>3. kicked' \in [Uids -> [IPs -> Nat]]
      BY DEF TypeOK
    <2>4. ASSUME NEW c \in Conns, pc[c] = "loaded", Attached(c)
          PROVE  \/ seen[c].kickedUntil <= now
                 \/ seen[c].kickedUntil <= kicked'[seen[c].uid][req[c].ip]
      <3> DEFINE k == kicked[seen[c].uid][req[c].ip]
                 n == kicked'[seen[c].uid][req[c].ip]
                 s == seen[c].kickedUntil
      <3>1. s <= now \/ s <= k
        BY <2>4 DEF KickInv
      <3>2. k \in Nat /\ s \in Nat /\ n \in Nat /\ now \in Nat
        BY <1>t, <1>0, <2>3, <2>4
      <3>3. k > now => n >= k
        BY <1>0, <2>2, <2>4
      <3> HIDE DEF k, n, s
      <3>4. s <= now \/ s <= n
        BY SMTT(60), <3>1, <3>2, <3>3
      <3> QED
        BY <3>4 DEF s, n
    <2> QED
      BY <2>1, <2>4 DEF KickInv, KickedStayOut, Attached
  <1>5. CASE Tick
    <2>1. UNCHANGED <<gen, kicked, pc, req, seen>> /\ now' = now + 1
      BY <1>5 DEF Tick, connVars
    <2>2. \A k \in Nat : k <= now => k <= now'
      BY SMTT(60), <1>t, <2>1
    <2>3. ASSUME NEW c \in Conns, pc[c] = "loaded", Attached(c)
          PROVE  \/ seen[c].kickedUntil <= now'
                 \/ seen[c].kickedUntil <= kicked[seen[c].uid][req[c].ip]
      BY <1>0, <2>2, <2>3 DEF KickInv
    <2>4. ASSUME NEW c \in Conns, pc[c] \in {"passed", "admitted", "tracked"}
          PROVE  seen[c].kickedUntil <= now'
      BY <1>0, <2>2, <2>4 DEF KickInv, KickedStayOut
    <2> QED
      BY <2>1, <2>3, <2>4 DEF KickInv, KickedStayOut, Attached
  <1>6. ASSUME NEW list \in UserLists, NEW a \in AliveMaps, NEW t \in Tolerances,
               NEW ex \in ExemptSets, AddLimiter(list, a, t, ex)
        PROVE  KickInv'
    <2>1. gen' = gen + 1 /\ UNCHANGED <<now, pc, req, seen>>
      BY <1>6 DEF AddLimiter, connVars
    <2>2. ASSUME NEW c \in Conns, pc[c] # "idle"
          PROVE  req[c].gen <= gen' /\ req[c].gen # gen'
      BY SMTT(60), <1>t, <1>0, <2>1, <2>2 DEF KickInv
    <2> QED
      BY <2>1, <2>2 DEF KickInv, KickedStayOut, Attached
  <1>7. CASE Environment
    <2>1. CASE UNCHANGED <<gen, kicked, now, pc, req, seen>>
      BY <1>3, <2>1
    <2> QED
      BY <1>4, <1>5, <1>6, <1>7, <2>1
         DEF Environment, UpdateUser, UpdateAliveList, SetDevicePolicy,
             GetOnlineDevice, DeleteLimiter, connVars
  <1>8. CASE UNCHANGED vars
    BY <1>3, <1>8 DEF vars, connVars
  <1> QED
    BY <1>2, <1>7, <1>8 DEF Next


-----------------------------------------------------------------------------
(* The steps that write the online table: TrackConnection, its release       *)
(* callback and the updates that drop rows.                                  *)

\* TrackConnection adds exactly one registration, in the row of its user.
LEMMA TrackStep ==
    ASSUME OnlineInv, NEW c \in Conns, TrackConnection(c),
           NEW u \in Uuids, NEW ip \in IPs, req[c].uuid = u, req[c].ip = ip,
           info[u] # None
    PROVE  /\ TablesMatchUsers' /\ Identity' /\ RegistrationsCounted'
           /\ ~Registered(c) /\ Registered(c)'
           /\ \A d \in Conns \ {c} : Registered(d)' <=> Registered(d)
           /\ online'[u].uid = info[u].uid
           /\ \A v \in Uuids : online[v] # None => online'[v] # None
                                                   /\ online'[v].uid = online[v].uid
  <1> DEFINE reuse == online[u] # None
             new == [id |-> c, uid |-> info[u].uid,
                     ips |-> [j \in IPs |-> IF j = ip THEN 1 ELSE 0]]
             row == IF reuse THEN RowWith(online[u], ip) ELSE new
             id == IF reuse THEN online[u].id ELSE c
  <1>1. pc[c] = "admitted" /\ req[c].gen = gen /\ obj[c] = None
    BY DEF TrackConnection, OnlineInv, TypeOK, Identity, Request, Attached
  <1>2. online[u] # None => online[u].uid = info[u].uid
    BY <1>1 DEF OnlineInv, TablesMatchUsers
  <1>3. /\ online' = [online EXCEPT ![u] = row]
        /\ obj' = [obj EXCEPT ![c] = id]
        /\ pc' = [pc EXCEPT ![c] = "tracked"]
        /\ UNCHANGED <<users, info, gen, req, ended>>
    BY <1>1, <1>2 DEF TrackConnection
  <1>4. reuse => online[u] \in Row /\ online[u].id \in Conns
    BY <1>1 DEF OnlineInv, TypeOK, Row
  <1>5. row \in Row /\ row # None
    <2>1. info[u].uid \in Uids
      BY <1>1 DEF OnlineInv, TypeOK, UserInfo
    <2>2. new \in Row
      BY <1>1, <2>1 DEF Row
    <2>3. reuse => RowWith(online[u], ip) \in Row
      BY <1>1, <1>4, RowTypes
    <2> QED
      BY <2>2, <2>3, LimiterConstants
  <1>6. row.id = id /\ row.uid = info[u].uid
    BY <1>2, <1>4 DEF RowWith, Row
  <1>7. /\ reuse => \A j \in IPs : row.ips[j] =
               IF j = ip THEN online[u].ips[ip] + 1 ELSE online[u].ips[j]
        /\ ~reuse => \A j \in IPs : row.ips[j] = IF j = ip THEN 1 ELSE 0
    BY <1>1, <1>4 DEF RowWith, Row
  <1>8. ended[c] = {} /\ ~Registered(c)
    BY <1>1 DEF OnlineInv, Identity, Registered
  <1> HIDE DEF row, id
  <1>9. Registered(c)'
    BY <1>1, <1>3, <1>5, <1>6, <1>8 DEF Registered, Attached, OnlineInv, TypeOK
  <1>10. \A d \in Conns \ {c} : obj'[d] = obj[d] /\ obj[d] # c
    <2>1. \A d \in Conns : obj[d] = c => obj[c] = c
      BY LimiterConstants DEF OnlineInv, Identity
    <2> QED
      BY SMTT(60), <1>1, <1>3, <2>1, LimiterConstants DEF OnlineInv, TypeOK
  <1>11. \A d \in Conns \ {c} : Registered(d)' <=> Registered(d)
    <2> SUFFICES ASSUME NEW d \in Conns, d # c
                 PROVE  Registered(d)' <=> Registered(d)
      OBVIOUS
    <2>1. pc'[d] = pc[d] /\ obj'[d] = obj[d] /\ obj[d] # c
      BY <1>3, <1>10 DEF OnlineInv, TypeOK
    <2>2. CASE req[d].uuid = u
      BY SMTT(60), <1>1, <1>3, <1>5, <1>6, <2>1, <2>2
         DEF Registered, Attached, OnlineInv, TypeOK, id
    <2>3. CASE req[d].uuid # u
      BY SMTT(60), <1>1, <1>3, <2>1, <2>3 DEF Registered, Attached, OnlineInv, TypeOK
    <2> QED
      BY <2>2, <2>3
  <1>12. /\ \A v \in Uuids \ {u} : online'[v] = online[v]
         /\ online'[u] = row
    BY <1>1, <1>3 DEF OnlineInv, TypeOK
  <1>13. TablesMatchUsers'
    BY SMTT(60), <1>1, <1>3, <1>5, <1>6, <1>12 DEF OnlineInv, TablesMatchUsers
  <1>14. Identity'
    <2>1. obj'[id] = id /\ req[id].uuid = u /\ req[id].gen = gen /\ id \in Conns
      <3>1. CASE reuse
        <4>1. /\ id = online[u].id /\ id \in Conns
              /\ obj[id] = id /\ req[id].uuid = u /\ req[id].gen = gen
          BY <1>4, <3>1 DEF OnlineInv, Identity, id
        <4>2. id # c
          BY <1>1, <4>1, NoneApart
        <4> QED
          BY <1>10, <4>1, <4>2
      <3>2. CASE ~reuse
        <4>1. id = c
          BY <3>2 DEF id
        <4>2. obj'[c] = c
          BY <1>3, <4>1 DEF OnlineInv, TypeOK
        <4> QED
          BY <1>1, <4>1, <4>2
      <3> QED
        BY <3>1, <3>2
    <2>2. /\ \A d \in Conns : obj'[d] # None <=> pc'[d] = "tracked"
          /\ \A d \in Conns : ended'[d] # {} => pc'[d] = "tracked"
      <3> SUFFICES ASSUME NEW d \in Conns
                   PROVE  /\ obj'[d] # None <=> pc'[d] = "tracked"
                          /\ ended'[d] # {} => pc'[d] = "tracked"
        OBVIOUS
      <3>1. CASE d = c
        <4>1. obj'[c] = id /\ pc'[c] = "tracked"
          BY <1>3 DEF OnlineInv, TypeOK
        <4> QED
          BY <2>1, <3>1, <4>1, NoneApart
      <3>2. CASE d # c
        <4>1. obj'[d] = obj[d] /\ pc'[d] = pc[d] /\ ended'[d] = ended[d]
          BY <1>3, <3>2 DEF OnlineInv, TypeOK
        <4> QED
          BY <4>1 DEF OnlineInv, Identity
      <3> QED
        BY <3>1, <3>2
    <2>3. \A d \in Conns : obj'[d] # None =>
              /\ obj'[obj'[d]] = obj'[d]
              /\ req'[obj'[d]].uuid = req'[d].uuid
              /\ req'[obj'[d]].gen = req'[d].gen
      <3> SUFFICES ASSUME NEW d \in Conns, obj'[d] # None
                   PROVE  /\ obj'[obj'[d]] = obj'[d]
                          /\ req[obj'[d]].uuid = req[d].uuid
                          /\ req[obj'[d]].gen = req[d].gen
        BY SMTT(60), <1>3
      <3>1. CASE d = c
        BY <1>1, <1>3, <2>1, <3>1 DEF OnlineInv, TypeOK
      <3>2. CASE d # c
        <4>1. obj'[d] = obj[d] /\ obj[d] # c /\ obj[d] # None
          BY <1>10, <3>2
        <4>2. obj[d] \in Conns
          BY <4>1 DEF OnlineInv, TypeOK
        <4>3. /\ obj[obj[d]] = obj[d]
              /\ req[obj[d]].uuid = req[d].uuid
              /\ req[obj[d]].gen = req[d].gen
          BY <4>1 DEF OnlineInv, Identity
        <4>4. obj'[obj[d]] = obj[obj[d]]
          BY <1>10, <4>1, <4>2
        <4> QED
          BY <4>1, <4>3, <4>4
      <3> QED
        BY <3>1, <3>2
    <2>4. \A v \in Uuids : online'[v] # None =>
              /\ obj'[online'[v].id] = online'[v].id
              /\ req'[online'[v].id].uuid = v
              /\ req'[online'[v].id].gen = gen'
      <3> SUFFICES ASSUME NEW v \in Uuids, online'[v] # None
                   PROVE  /\ obj'[online'[v].id] = online'[v].id
                          /\ req[online'[v].id].uuid = v
                          /\ req[online'[v].id].gen = gen
        BY <1>3
      <3>1. CASE v = u
        BY <1>6, <1>12, <2>1, <3>1
      <3>2. CASE v # u
        <4>1. online'[v] = online[v] /\ online[v] \in Row /\ online[v].id \in Conns
          BY SMTT(60), <1>12, <3>2 DEF OnlineInv, TypeOK, Row
        <4>2. /\ obj[online[v].id] = online[v].id
              /\ req[online[v].id].uuid = v
              /\ req[online[v].id].gen = gen
          BY <4>1 DEF OnlineInv, Identity
        <4>3. online[v].id # c
          BY <1>1, <4>1, <4>2, NoneApart
        <4> QED
          BY <1>10, <4>1, <4>2, <4>3
      <3> QED
        BY <3>1, <3>2
    <2> QED
      BY <2>2, <2>3, <2>4 DEF Identity
  <1>15. RegistrationsCounted'
    <2> SUFFICES ASSUME NEW v \in Uuids, online'[v] # None
                 PROVE  /\ \A j \in IPs :
                              online'[v].ips[j] = Cardinality(Holders(v, j)')
                        /\ \E j \in IPs : online'[v].ips[j] > 0
      BY DEF RegistrationsCounted
    <2>1. CASE v # u
      <3>1. \A j \in IPs : Holders(v, j)' = Holders(v, j)
        BY <1>3, <1>8, <1>11, <2>1 DEF Holders
      <3> QED
        BY SMTT(60), <1>12, <2>1, <3>1 DEF OnlineInv, RegistrationsCounted
    <2>2. CASE v = u
      <3>1. Holders(u, ip)' = Holders(u, ip) \union {c} /\ c \notin Holders(u, ip)
        <4>1. c \notin Holders(u, ip)
          BY <1>8 DEF Holders
        <4>2. \A d : d \in Holders(u, ip) <=>
                d \in Conns /\ Registered(d) /\ req[d].uuid = u /\ req[d].ip = ip
          BY DEF Holders
        <4>3. \A d : d \in Holders(u, ip)' <=>
                d \in Conns /\ Registered(d)' /\ req[d].uuid = u /\ req[d].ip = ip
          BY <1>3 DEF Holders
        <4>4. \A d : d \in Holders(u, ip)' <=> d \in Holders(u, ip) \/ d = c
          BY <1>9, <1>11, <4>2, <4>3
        <4> QED
          BY <4>1, <4>4
      <3>2. \A j \in IPs \ {ip} : Holders(u, j)' = Holders(u, j)
        BY <1>3, <1>8, <1>11 DEF Holders
      <3>3. /\ Cardinality(Holders(u, ip)') = Cardinality(Holders(u, ip)) + 1
            /\ Cardinality(Holders(u, ip)) \in Nat
        BY <1>1, <3>1, HoldersFinite, FS_AddElement
      <3>4. CASE reuse
        <4>1. \A j \in IPs : online[u].ips[j] = Cardinality(Holders(u, j))
          BY <1>1, <3>4 DEF OnlineInv, RegistrationsCounted
        <4>2. row.ips[ip] = Cardinality(Holders(u, ip)')
          BY <1>1, <1>7, <3>3, <3>4, <4>1
        <4>3. \A j \in IPs \ {ip} : row.ips[j] = Cardinality(Holders(u, j)')
          BY <1>7, <3>2, <3>4, <4>1
        <4>4. row.ips[ip] > 0
          BY SMTT(60), <3>3, <4>2
        <4>5. \A j \in IPs : row.ips[j] = Cardinality(Holders(u, j)')
          BY <4>2, <4>3
        <4> QED
          BY <1>1, <1>12, <2>2, <4>4, <4>5
      <3>5. CASE ~reuse
        <4>1. \A j \in IPs : Holders(u, j) = {}
          BY <3>5 DEF Holders, Registered
        <4>2. Cardinality({}) = 0
          BY FS_EmptySet
        <4>6. Cardinality(Holders(u, ip)) = 0
          BY <1>1, <4>1, <4>2
        <4>7. row.ips[ip] = 1
          BY <1>1, <1>7, <3>5
        <4>3. row.ips[ip] = Cardinality(Holders(u, ip)')
          BY SMTT(60), <3>3, <4>6, <4>7
        <4>4. \A j \in IPs \ {ip} : row.ips[j] = Cardinality(Holders(u, j)')
          BY <1>7, <3>2, <3>5, <4>1, <4>2
        <4>5. row.ips[ip] > 0
          BY SMTT(60), <1>1, <1>7, <3>5
        <4>8. \A j \in IPs : row.ips[j] = Cardinality(Holders(u, j)')
          BY <4>3, <4>4
        <4> QED
          BY <1>1, <1>12, <2>2, <4>5, <4>8
      <3> QED
        BY <3>4, <3>5
    <2> QED
      BY <2>1, <2>2
  <1>16. \A v \in Uuids : online[v] # None =>
            online'[v] # None /\ online'[v].uid = online[v].uid
    BY <1>2, <1>5, <1>6, <1>12
  <1> QED
    BY <1>6, <1>8, <1>9, <1>11, <1>12, <1>13, <1>14, <1>15, <1>16

\* A release in force removes exactly its own registration.
LEMMA ReleaseStep ==
    ASSUME OnlineInv, NEW c \in Conns, NEW how \in {"close", "context"},
           Release(c, how), Registered(c),
           NEW u \in Uuids, NEW ip \in IPs, req[c].uuid = u, req[c].ip = ip
    PROVE  /\ TablesMatchUsers' /\ Identity' /\ RegistrationsCounted'
           /\ ~Registered(c)'
           /\ \A d \in Conns \ {c} : Registered(d)' <=> Registered(d)
           /\ \A v \in Uuids : online'[v] # None => online[v] # None
                                                    /\ online'[v].uid = online[v].uid
  <1> DEFINE row == RowWithout(online[u], ip)
  <1>1. /\ pc[c] = "tracked" /\ ended[c] = {} /\ req[c].gen = gen
        /\ online[u] \in Row /\ online[u].id = obj[c]
        /\ online[u].ips \in [IPs -> Nat] /\ online[u].ips[ip] # 0
    BY OwnedCountPositive DEF Registered, Attached, Row
  <1>0. online[u] # None
    BY <1>1, NoneApart
  <1>2. /\ online' = [online EXCEPT ![u] = row]
        /\ ended' = [ended EXCEPT ![c] = ended[c] \union {how}]
        /\ UNCHANGED <<users, info, gen, pc, req, obj>>
    BY DEF Release, OwnsRow, Registered
  <1>3. row # None =>
          /\ row.id = online[u].id /\ row.uid = online[u].uid
          /\ \A j \in IPs : row.ips[j] =
                IF j = ip THEN online[u].ips[ip] - 1 ELSE online[u].ips[j]
          /\ \E j \in IPs : row.ips[j] > 0
    BY SMTT(60), <1>1 DEF RowWithout, Row
  <1>4. row = None => \A j \in IPs :
                (IF j = ip THEN online[u].ips[ip] - 1 ELSE online[u].ips[j]) = 0
    <2>1. row = None => \A j \in IPs : [online[u].ips EXCEPT ![ip] = @ - 1][j] = 0
      <3>1. [online[u] EXCEPT !.ips = [online[u].ips EXCEPT ![ip] = @ - 1]] \in Row
        BY SMTT(60), <1>1 DEF Row
      <3> QED
        BY <3>1, LimiterConstants DEF RowWithout
    <2> QED
      BY <1>1, <2>1
  <1> HIDE DEF row
  <1>5. /\ \A v \in Uuids \ {u} : online'[v] = online[v]
        /\ online'[u] = row
    BY <1>2 DEF OnlineInv, TypeOK
  <1>6. ended'[c] # {} /\ \A d \in Conns \ {c} : ended'[d] = ended[d]
    BY <1>2 DEF OnlineInv, TypeOK
  <1>7. \A v \in Uuids, j \in IPs : v # u \/ j # ip => c \notin Holders(v, j)
    BY DEF Holders
  <1>8. c \in Holders(u, ip)
    BY DEF Holders
  <1>9. Cardinality(Holders(u, ip) \ {c}) = Cardinality(Holders(u, ip)) - 1
    BY <1>8, HoldersFinite, FS_RemoveElement
  <1>10. \A j \in IPs : online[u].ips[j] = Cardinality(Holders(u, j))
    BY <1>1, LimiterConstants DEF OnlineInv, RegistrationsCounted
  <1>11. \A d \in Conns \ {c} : Registered(d) /\ req[d].uuid = u => row # None
    <2> SUFFICES ASSUME NEW d \in Conns, d # c, Registered(d), req[d].uuid = u,
                        row = None
                 PROVE  FALSE
      OBVIOUS
    <2>1. PICK j \in IPs : j = req[d].ip
      BY DEF Registered, OnlineInv, TypeOK, Request
    <2>2. d \in Holders(u, j)
      BY <2>1 DEF Holders
    <2>3. CASE j # ip
      <3>1. Cardinality(Holders(u, j)) = 0
        BY <1>4, <1>10, <2>3
      <3> QED
        BY <2>2, <3>1, HoldersFinite, FS_EmptySet
    <2>4. CASE j = ip
      <3>1. Cardinality(Holders(u, ip) \ {c}) = 0
        BY <1>1, <1>4, <1>9, <1>10, HoldersFinite
      <3>2. IsFiniteSet(Holders(u, ip) \ {c}) /\ d \in Holders(u, ip) \ {c}
        BY <2>2, <2>4, HoldersFinite, FS_Subset
      <3> QED
        BY <3>1, <3>2, FS_EmptySet
    <2> QED
      BY <2>3, <2>4
  <1>12. \A d \in Conns \ {c} : Registered(d)' <=> Registered(d)
    <2> SUFFICES ASSUME NEW d \in Conns, d # c
                 PROVE  Registered(d)' <=> Registered(d)
      OBVIOUS
    <2>1. CASE req[d].uuid = u
      <3>1. ended'[d] = ended[d] /\ UNCHANGED <<pc, req, obj, gen>> /\ online'[u] = row
        BY <1>2, <1>5, <1>6
      <3>2. Registered(d) <=> /\ pc[d] = "tracked" /\ ended[d] = {} /\ req[d].gen = gen
                              /\ online[u] # None /\ online[u].id = obj[d]
        BY <2>1 DEF Registered, Attached
      <3>3. Registered(d)' <=> /\ pc[d] = "tracked" /\ ended[d] = {} /\ req[d].gen = gen
                               /\ row # None /\ row.id = obj[d]
        BY <2>1, <3>1 DEF Registered, Attached
      <3>4. Registered(d) => row # None
        BY <1>11, <2>1
      <3>5. row # None => row.id = online[u].id
        BY <1>3
      <3> QED
        BY <1>0, <3>2, <3>3, <3>4, <3>5
    <2>2. CASE req[d].uuid # u
      BY SMTT(60), <1>2, <1>6, <2>2 DEF Registered, Attached, OnlineInv, TypeOK
    <2> QED
      BY <2>1, <2>2
  <1>13. ~Registered(c)'
    BY <1>6 DEF Registered
  <1>18. \A v \in Uuids : online'[v] # None =>
            /\ online[v] # None
            /\ online'[v].id = online[v].id /\ online'[v].uid = online[v].uid
    <2> SUFFICES ASSUME NEW v \in Uuids, online'[v] # None
                 PROVE  /\ online[v] # None
                        /\ online'[v].id = online[v].id /\ online'[v].uid = online[v].uid
      OBVIOUS
    <2>1. CASE v = u
      BY <1>0, <1>3, <1>5, <2>1
    <2>2. CASE v # u
      <3>1. online'[v] = online[v]
        BY <1>5, <2>2
      <3> QED
        BY <3>1
    <2> QED
      BY <2>1, <2>2
  <1>14. TablesMatchUsers'
    <2>1. info = users /\ \A v \in Uuids : online[v] # None =>
              info[v] # None /\ info[v].uid = online[v].uid
      BY DEF OnlineInv, TablesMatchUsers
    <2>2. UNCHANGED <<users, info>>
      BY <1>2
    <2> QED
      BY <1>18, <2>1, <2>2 DEF TablesMatchUsers
  <1>15. Identity'
    <2>1. \A d \in Conns : ended'[d] # {} => pc'[d] = "tracked"
      BY <1>1, <1>2, <1>6 DEF OnlineInv, Identity
    <2>2. UNCHANGED <<gen, pc, req, obj>>
      BY <1>2
    <2>3. /\ \A d \in Conns : obj'[d] # None <=> pc'[d] = "tracked"
          /\ \A d \in Conns : obj'[d] # None =>
                /\ obj'[obj'[d]] = obj'[d]
                /\ req'[obj'[d]].uuid = req'[d].uuid
                /\ req'[obj'[d]].gen = req'[d].gen
      BY <2>2 DEF OnlineInv, Identity
    <2>4. \A v \in Uuids : online'[v] # None =>
                /\ obj'[online'[v].id] = online'[v].id
                /\ req'[online'[v].id].uuid = v
                /\ req'[online'[v].id].gen = gen'
      BY <1>18, <2>2 DEF OnlineInv, Identity
    <2> QED
      BY <2>1, <2>3, <2>4 DEF Identity
  <1>16. RegistrationsCounted'
    <2> SUFFICES ASSUME NEW v \in Uuids, online'[v] # None
                 PROVE  /\ \A j \in IPs :
                              online'[v].ips[j] = Cardinality(Holders(v, j)')
                        /\ \E j \in IPs : online'[v].ips[j] > 0
      BY DEF RegistrationsCounted
    <2>1. CASE v # u
      <3>1. \A j \in IPs : Holders(v, j)' = Holders(v, j)
        BY <1>2, <1>7, <1>12, <1>13, <2>1 DEF Holders
      <3> QED
        BY <1>5, <2>1, <3>1 DEF OnlineInv, RegistrationsCounted
    <2>2. CASE v = u
      <3>1. Holders(u, ip)' = Holders(u, ip) \ {c}
        BY <1>2, <1>12, <1>13 DEF Holders
      <3>2. \A j \in IPs \ {ip} : Holders(u, j)' = Holders(u, j)
        BY <1>2, <1>7, <1>12, <1>13 DEF Holders
      <3>3. row.ips[ip] = Cardinality(Holders(u, ip)')
        BY <1>3, <1>5, <1>9, <1>10, <2>2, <3>1
      <3>4. \A j \in IPs \ {ip} : row.ips[j] = Cardinality(Holders(u, j)')
        BY SMTT(60), <1>3, <1>5, <1>10, <2>2, <3>2
      <3> QED
        BY <1>3, <1>5, <2>2, <3>3, <3>4
    <2> QED
      BY <2>1, <2>2
  <1>17. \A v \in Uuids : online'[v] # None =>
            online[v] # None /\ online'[v].uid = online[v].uid
    BY <1>18
  <1> QED
    BY <1>12, <1>13, <1>14, <1>15, <1>16, <1>17

\* A step that only takes whole rows away, a reload included, takes away
\* exactly the registrations of those rows.
LEMMA DropStep ==
    ASSUME OnlineInv, UNCHANGED connVars, TablesMatchUsers',
           \A u \in Uuids : online'[u] = None \/ (online'[u] = online[u] /\ gen' = gen)
    PROVE  /\ Identity' /\ RegistrationsCounted'
           /\ \A c \in Conns : Registered(c)' <=>
                 Registered(c) /\ online'[req[c].uuid] # None
  <1>1. UNCHANGED <<pc, req, obj, ended>>
    BY DEF connVars
  <1>2. \A c \in Conns : pc[c] = "tracked" => req[c].uuid \in Uuids
    BY DEF OnlineInv, TypeOK, Request
  <1>3. \A c \in Conns : Registered(c)' <=>
            Registered(c) /\ online'[req[c].uuid] # None
    BY <1>1, <1>2 DEF Registered, Attached
  <1>4. Identity'
    BY SMTT(60), <1>1 DEF OnlineInv, Identity
  <1>5. ASSUME NEW u \in Uuids, online'[u] # None
        PROVE  /\ online'[u] = online[u]
               /\ \A ip \in IPs : Holders(u, ip)' = Holders(u, ip)
    BY <1>1, <1>3, <1>5 DEF Holders
  <1>6. RegistrationsCounted'
    BY <1>5 DEF OnlineInv, RegistrationsCounted
  <1> QED
    BY <1>3, <1>4, <1>6

-----------------------------------------------------------------------------
(* What any step does to the registrations.                                  *)

\* A step leaves the registrations as they are, adds one, ends one, ends
\* those whose credential changes hands, or ends all.  Kept(D) says that the
\* connections of D keep theirs as they are.
Kept(D) == \A d \in D : /\ Registered(d)' <=> Registered(d)
                        /\ Registered(d) => RegistrationOf(d)' = RegistrationOf(d)
Quiet == Kept(Conns) /\ UNCHANGED <<users, Closed>>
Join(c) ==
    /\ ~Registered(c) /\ Registered(c)' /\ c \notin Closed
    /\ Kept(Conns \ {c})
    /\ req'[c].uuid \in Uuids /\ req'[c].ip \in IPs
    /\ users[req'[c].uuid] # None
    /\ online'[req'[c].uuid].uid = users[req'[c].uuid].uid
    /\ UNCHANGED <<users, Closed>>
Part(c) ==
    /\ c \notin Closed /\ Closed' = Closed \union {c}
    /\ ~Registered(c)'
    /\ Kept(Conns \ {c})
    /\ UNCHANGED users
Drop ==
    /\ \A d \in Conns :
          /\ Registered(d)' <=> /\ Registered(d)
                               /\ Members'[req[d].uuid] = online[req[d].uuid].uid
          /\ Registered(d)' => RegistrationOf(d)' = RegistrationOf(d)
    /\ UNCHANGED Closed
Restart == gen' # gen /\ (\A d \in Conns : ~Registered(d)') /\ UNCHANGED Closed
OnlineStep ==
    \/ Quiet
    \/ \E c \in Conns : Join(c) \/ Part(c)
    \/ Drop
    \/ Restart

\* A step under which the table stands still is quiet.
LEMMA QuietKept ==
    ASSUME OnlineInv, online' = online,
           \A c \in Conns : Registered(c)' <=> Registered(c),
           \A c \in Conns : pc[c] = "tracked" => req'[c] = req[c],
           users' = users, ended' = ended
    PROVE  Quiet
  BY DEF Quiet, Kept, Registered, RegistrationOf, Closed

\* The steps of a connection.
LEMMA ConnectionStep ==
    ASSUME OnlineInv, NEW c \in Conns, Connection(c)
    PROVE  OnlineInv' /\ OnlineStep
  <1>0. TypeOK'
    BY ConnectionType
  <1>1. ASSUME online' = online, obj' = obj, ended' = ended, gen' = gen,
               users' = users, info' = info,
               \A d \in Conns : pc'[d] = "tracked" <=> pc[d] = "tracked",
               \A d \in Conns : pc[d] = "tracked" => req'[d] = req[d]
        PROVE  OnlineInv' /\ OnlineStep
    <2>1. /\ TablesMatchUsers' /\ Identity' /\ RegistrationsCounted'
          /\ \A d \in Conns : Registered(d)' <=> Registered(d)
      BY <1>1, QuietStep
    <2>2. Quiet
      BY <1>1, <2>1, QuietKept
    <2> QED
      BY <1>0, <2>1, <2>2 DEF OnlineInv, OnlineStep
  <1>2. ASSUME NEW u \in Uuids, NEW ip \in IPs, NEW tcp \in Streams,
               GetLimiter(c, u, ip, tcp)
        PROVE  OnlineInv' /\ OnlineStep
    BY <1>1, <1>2 DEF GetLimiter, OnlineInv, TypeOK
  <1>3. CASE LoadInfo(c)
    BY <1>1, <1>3 DEF LoadInfo, OnlineInv, TypeOK
  <1>4. CASE CheckKicked(c)
    BY SMTT(60), <1>1, <1>4 DEF CheckKicked, OnlineInv, TypeOK
  <1>5. CASE Admit(c)
    BY <1>1, <1>5 DEF Admit, OnlineInv, TypeOK
  <1>6. CASE RuleReject(c)
    BY <1>1, <1>6 DEF RuleReject, OnlineInv, TypeOK
  <1>7. CASE FinishDetached(c)
    BY <1>1, <1>7 DEF FinishDetached, OnlineInv, TypeOK
  <1>8. CASE TrackConnection(c)
    <2>1. PICK u \in Uuids, ip \in IPs : req[c].uuid = u /\ req[c].ip = ip
      BY <1>8 DEF TrackConnection, OnlineInv, TypeOK, Request
    <2>2. CASE info[u] = None
      BY <1>1, <1>8, <2>1, <2>2 DEF TrackConnection, OnlineInv, TypeOK
    <2>3. CASE info[u] # None
      <3>1. /\ TablesMatchUsers' /\ Identity' /\ RegistrationsCounted'
            /\ ~Registered(c) /\ Registered(c)'
            /\ \A d \in Conns \ {c} : Registered(d)' <=> Registered(d)
            /\ online'[u].uid = info[u].uid
            /\ \A v \in Uuids : online[v] # None =>
                  online'[v] # None /\ online'[v].uid = online[v].uid
        BY <1>8, <2>1, <2>3, TrackStep
      <3>2. req' = req
        BY <1>8 DEF TrackConnection
      <3>3. \A d \in Conns : Registered(d) =>
               req[d].uuid \in Uuids /\ online[req[d].uuid] # None
        BY OwnedCountPositive, LimiterConstants
      <3>4. Kept(Conns \ {c})
        BY <3>1, <3>2, <3>3 DEF Kept, RegistrationOf
      <3>5. UNCHANGED <<users, ended>> /\ info = users
        BY <1>8 DEF TrackConnection, OnlineInv, TablesMatchUsers
      <3>6. ended[c] = {}
        BY <1>8 DEF TrackConnection, OnlineInv, Identity
      <3>8. Join(c)
        BY <2>1, <2>3, <3>1, <3>2, <3>4, <3>5, <3>6 DEF Join, Closed
      <3> QED
        BY <1>0, <3>1, <3>8 DEF OnlineInv, OnlineStep
    <2> QED
      BY <2>2, <2>3
  <1>9. ASSUME NEW how \in {"close", "context"}, Release(c, how)
        PROVE  OnlineInv' /\ OnlineStep
    <2>1. PICK u \in Uuids, ip \in IPs : req[c].uuid = u /\ req[c].ip = ip
      BY <1>9 DEF Release, OnlineInv, TypeOK, Request
    <2>2. CASE Registered(c)
      <3>1. /\ TablesMatchUsers' /\ Identity' /\ RegistrationsCounted'
            /\ ~Registered(c)'
            /\ \A d \in Conns \ {c} : Registered(d)' <=> Registered(d)
            /\ \A v \in Uuids : online'[v] # None =>
                  online[v] # None /\ online'[v].uid = online[v].uid
        BY <1>9, <2>1, <2>2, ReleaseStep
      <3>2. req' = req
        BY <1>9 DEF Release
      <3>3. \A d \in Conns : Registered(d)' =>
               req[d].uuid \in Uuids /\ online'[req[d].uuid] # None
        BY <1>0, <3>2 DEF Registered, TypeOK, Request
      <3>4. Kept(Conns \ {c})
        BY <3>1, <3>2, <3>3 DEF Kept, RegistrationOf
      <3>5. c \notin Closed /\ Closed' = Closed \union {c} /\ users' = users
        <4>1. /\ ended[c] = {} /\ users' = users
              /\ ended' = [ended EXCEPT ![c] = ended[c] \union {how}]
          BY <1>9, <2>2 DEF Release, Registered
        <4> QED
          BY <4>1 DEF Closed, OnlineInv, TypeOK
      <3> QED
        BY <1>0, <2>2, <3>1, <3>4, <3>5 DEF OnlineInv, OnlineStep, Part
    <2>3. CASE ~Registered(c)
      <3>1. /\ online' = online
            /\ UNCHANGED <<users, info, gen, pc, req, obj>>
            /\ pc[c] = "tracked"
            /\ ended' = [ended EXCEPT ![c] = ended[c] \union {how}]
        BY <1>9, <2>3 DEF Release, OwnsRow, Registered
      <3>2. \A d \in Conns : Registered(d)' <=> Registered(d)
        BY <2>3, <3>1 DEF Registered, Attached, OnlineInv, TypeOK
      <3>3. Identity'
        BY SMTT(60), <3>1 DEF OnlineInv, TypeOK, Identity
      <3>4. \A v \in Uuids, j \in IPs : Holders(v, j)' = Holders(v, j)
        BY <3>1, <3>2 DEF Holders
      <3>5. RegistrationsCounted'
        BY <3>1, <3>4 DEF OnlineInv, RegistrationsCounted
      <3>6. TablesMatchUsers'
        BY <3>1 DEF OnlineInv, TablesMatchUsers
      <3>7. OnlineInv'
        BY <1>0, <3>3, <3>5, <3>6 DEF OnlineInv
      <3>8. Kept(Conns)
        BY <3>1, <3>2 DEF Kept, RegistrationOf
      <3>9. CASE ended[c] = {}
        <4>1. c \notin Closed /\ Closed' = Closed \union {c}
          BY <3>1, <3>9 DEF Closed, OnlineInv, TypeOK
        <4>2. Part(c)
          BY <2>3, <3>1, <3>2, <3>8, <4>1 DEF Part, Kept
        <4> QED
          BY <3>7, <4>2 DEF OnlineStep
      <3>10. CASE ended[c] # {}
        <4>1. Closed' = Closed
          BY <3>1, <3>10 DEF Closed, OnlineInv, TypeOK
        <4> QED
          BY <3>1, <3>7, <3>8, <4>1 DEF OnlineStep, Quiet
      <3> QED
        BY <3>9, <3>10
    <2> QED
      BY <2>2, <2>3
  <1> QED
    BY <1>2, <1>3, <1>4, <1>5, <1>6, <1>7, <1>8, <1>9 DEF Connection

\* The steps of the controller, the panel and the clock.
LEMMA EnvironmentStep ==
    ASSUME OnlineInv, Environment
    PROVE  OnlineInv' /\ OnlineStep
  <1>0. TypeOK'
    BY EnvironmentType
  <1>1. ASSUME UNCHANGED <<online, gen, users, info, connVars>>
        PROVE  OnlineInv' /\ OnlineStep
    <2>1. UNCHANGED <<pc, req, obj, ended>>
      BY <1>1 DEF connVars
    <2>2. /\ TablesMatchUsers' /\ Identity' /\ RegistrationsCounted'
          /\ \A d \in Conns : Registered(d)' <=> Registered(d)
      BY <1>1, <2>1, QuietStep
    <2>3. Quiet
      BY <1>1, <2>1, <2>2, QuietKept
    <2> QED
      BY <1>0, <2>2, <2>3 DEF OnlineInv, OnlineStep
  <1>2. Closed' = Closed
    BY DEF Environment, UpdateUser, UpdateAliveList, SetDevicePolicy, MergeKickedList,
           Tick, GetOnlineDevice, DeleteLimiter, AddLimiter, connVars, Closed
  <1>3. ASSUME NEW list \in UserLists, UpdateUser(list)
        PROVE  OnlineInv' /\ OnlineStep
    <2>1. list \in [Uuids -> UserInfo \union {None}]
      BY LimiterConstants
    <2>2. /\ \A u \in Uuids : online'[u] = None \/ online'[u] = online[u]
          /\ gen' = gen /\ UNCHANGED connVars
      BY <1>3 DEF UpdateUser
    <2>3. users' = list /\ info' = list
      BY <1>3, <2>1 DEF UpdateUser, OnlineInv, TypeOK, TablesMatchUsers
    <2>4. ASSUME NEW u \in Uuids, online[u] # None
          PROVE  /\ users[u] # None /\ users[u].uid = online[u].uid
                 /\ online'[u] # None <=> list[u] # None /\ list[u].uid = online[u].uid
      <3>1. users[u] # None /\ users[u].uid = online[u].uid
        BY <2>4 DEF OnlineInv, TablesMatchUsers
      <3>2. online'[u] # None => list[u] # None /\ list[u].uid = online[u].uid
        BY <1>3, <3>1 DEF UpdateUser, LosesRow
      <3>3. list[u] # None /\ list[u].uid = online[u].uid => online'[u] # None
        BY <1>3, <2>4, <3>1 DEF UpdateUser, LosesRow
      <3> QED
        BY <3>1, <3>2, <3>3
    <2>5. TablesMatchUsers'
      BY <2>2, <2>3, <2>4 DEF TablesMatchUsers
    <2>6. /\ Identity' /\ RegistrationsCounted'
          /\ \A d \in Conns : Registered(d)' <=>
                Registered(d) /\ online'[req[d].uuid] # None
      BY <2>2, <2>5, DropStep
    <2>7. ASSUME NEW d \in Conns, Registered(d), NEW u \in Uuids, req[d].uuid = u
          PROVE  online'[u] # None <=> Members'[u] = online[u].uid
      <3>1. online[u] # None /\ online[u].uid \in Uids
        BY SMTT(60), <2>7, OwnedCountPositive, LimiterConstants DEF Row
      <3>2. Members'[u] = IF list[u] = None THEN None ELSE list[u].uid
        BY <2>3 DEF Members
      <3> QED
        BY <2>4, <3>1, <3>2, LimiterConstants
    <2>8. Drop
      <3>1. req' = req
        BY <2>2 DEF connVars
      <3>2. \A d \in Conns : Registered(d) => req[d].uuid \in Uuids
        BY OwnedCountPositive
      <3> QED
        BY <1>2, <2>2, <2>6, <2>7, <3>1, <3>2 DEF Drop, RegistrationOf
    <2> QED
      BY <1>0, <2>5, <2>6, <2>8 DEF OnlineInv, OnlineStep
  <1>4. ASSUME NEW list \in UserLists, NEW a \in AliveMaps, NEW t \in Tolerances,
               NEW ex \in ExemptSets, AddLimiter(list, a, t, ex)
        PROVE  OnlineInv' /\ OnlineStep
    <2>1. \A u \in Uuids : online'[u] = None
      BY <1>4 DEF AddLimiter, FreshLimiter
    <2>2. TablesMatchUsers'
      BY <1>4, <2>1 DEF AddLimiter, FreshLimiter, TablesMatchUsers
    <2>3. /\ Identity' /\ RegistrationsCounted'
          /\ \A d \in Conns : Registered(d)' <=>
                Registered(d) /\ online'[req[d].uuid] # None
      BY <1>4, <2>1, <2>2, DropStep DEF AddLimiter
    <2>4. Restart
      <3>1. gen' # gen
        BY SMTT(60), <1>4 DEF AddLimiter, OnlineInv, TypeOK
      <3>2. \A d \in Conns : Registered(d) => req[d].uuid \in Uuids
        BY OwnedCountPositive
      <3>3. \A d \in Conns : ~Registered(d)'
        BY <2>1, <2>3, <3>2
      <3> QED
        BY <1>2, <3>1, <3>3 DEF Restart
    <2> QED
      BY <1>0, <2>2, <2>3, <2>4 DEF OnlineInv, OnlineStep
  <1>5. ASSUME NEW a \in AliveMaps, UpdateAliveList(a)
        PROVE  OnlineInv' /\ OnlineStep
    BY <1>1, <1>5 DEF UpdateAliveList
  <1>6. ASSUME NEW t \in Tolerances, NEW ex \in ExemptSets, SetDevicePolicy(t, ex)
        PROVE  OnlineInv' /\ OnlineStep
    BY <1>1, <1>6 DEF SetDevicePolicy
  <1>7. ASSUME NEW uid \in Uids, NEW ip \in IPs, NEW ttl \in Ttls,
               MergeKickedList(uid, ip, ttl)
        PROVE  OnlineInv' /\ OnlineStep
    BY <1>1, <1>7 DEF MergeKickedList
  <1>8. CASE Tick
    BY <1>1, <1>8 DEF Tick
  <1>9. CASE GetOnlineDevice
    BY <1>1, <1>9 DEF GetOnlineDevice
  <1>10. CASE DeleteLimiter
    BY <1>1, <1>10 DEF DeleteLimiter
  <1> QED
    BY <1>3, <1>4, <1>5, <1>6, <1>7, <1>8, <1>9, <1>10 DEF Environment

\* Every step keeps the invariant and is one of the four kinds.
LEMMA NextOnline ==
    ASSUME OnlineInv, [Next]_vars
    PROVE  OnlineInv' /\ OnlineStep
  <1>1. CASE Next
    BY <1>1, ConnectionStep, EnvironmentStep DEF Next
  <1>2. CASE UNCHANGED vars
    <2>1. UNCHANGED <<users, registered, gen, info, online, cache, old, alive,
                      kicked, tolerance, exempt, bucket, now, connVars,
                      pc, req, seen, obj, ended>>
      BY <1>2 DEF vars, connVars
    <2>2. TypeOK'
      BY <2>1 DEF OnlineInv, TypeOK
    <2>3. /\ TablesMatchUsers' /\ Identity' /\ RegistrationsCounted'
          /\ \A d \in Conns : Registered(d)' <=> Registered(d)
      BY <2>1, QuietStep
    <2> QED
      BY <2>1, <2>2, <2>3, QuietKept DEF OnlineInv, OnlineStep
  <1> QED
    BY <1>1, <1>2

-----------------------------------------------------------------------------
\* The inductive invariant holds of every reachable state.
THEOREM OnlineInvariant == Spec => []OnlineInv
  <1>1. OnlineInv /\ [Next]_vars => OnlineInv'
    BY NextOnline
  <1> QED
    BY <1>1, InitOnlineInv, PTL DEF Spec

\* Type correctness of the limiter, for every instance.
THEOREM LimiterTypeOK == Spec => []TypeOK
  <1>1. OnlineInv => TypeOK
    BY DEF OnlineInv
  <1> QED
    BY <1>1, OnlineInvariant, PTL

\* Reference counting is exact: no interleaving of registrations, double or
\* late releases, user edits and reloads makes a count in the online table
\* differ from the number of registrations in force (online.go,
\* TrackConnection and its release callback).
THEOREM CountsExact == Spec => []RegistrationsCounted
  <1>1. OnlineInv => RegistrationsCounted
    BY DEF OnlineInv
  <1> QED
    BY <1>1, OnlineInvariant, PTL

\* The limit table stays equal to the controller's user list and every row
\* carries the user id of its credential (limiter.go, UpdateUser).
THEOREM TablesAgree == Spec => []TablesMatchUsers
  <1>1. OnlineInv => TablesMatchUsers
    BY DEF OnlineInv
  <1> QED
    BY <1>1, OnlineInvariant, PTL

\* An open connection whose user keeps its id is in every report until a
\* reload (limiter.go, UpdateUser: the retained rows).
THEOREM LiveConnectionsStay == Spec => LiveStayReported
  <1> DEFINE Stay == \A c \in Conns : (Registered(c) /\ ~Registered(c)') =>
                        LET u == req[c].uuid
                        IN \/ ended'[c] # {}
                           \/ gen' # gen
                           \/ users'[u] = None
                           \/ users'[u].uid # users[u].uid
  <1>1. OnlineInv /\ [Next]_vars => [Stay]_vars
    <2> SUFFICES ASSUME OnlineInv, [Next]_vars PROVE Stay
      OBVIOUS
    <2>1. OnlineStep
      BY NextOnline
    <2> QED
      <3> SUFFICES ASSUME NEW c \in Conns, Registered(c), ~Registered(c)',
                          gen' = gen, ended'[c] = {}
                   PROVE  \/ users'[req[c].uuid] = None
                          \/ users'[req[c].uuid].uid # users[req[c].uuid].uid
        OBVIOUS
      <3>1. Drop
        BY <2>1 DEF OnlineStep, Quiet, Kept, Join, Part, Restart, Closed
      <3>2. PICK u \in Uuids : req[c].uuid = u /\ online[u] # None
        BY OwnedCountPositive, LimiterConstants
      <3>3. online[u].uid = users[u].uid
        BY <3>2 DEF OnlineInv, TablesMatchUsers
      <3>4. Members'[u] # users[u].uid
        BY <3>1, <3>2, <3>3 DEF Drop
      <3> QED
        BY <3>2, <3>4 DEF Members
  <1>2. Spec => [][Stay]_vars
    BY <1>1, OnlineInvariant, PTL DEF Spec
  <1> QED
    BY <1>2 DEF LiveStayReported

\* The report is exactly the devices of the registrations in force
\* (online.go, onlineDevicesLocked).
THEOREM ReportsExact == Spec => []ReportExact
  <1>1. ASSUME OnlineInv PROVE ReportExact
    <2>1. ASSUME NEW c \in Conns, Registered(c)
          PROVE  [uid |-> online[req[c].uuid].uid, ip |-> req[c].ip] \in OnlineDevices
      <3>1. PICK u \in Uuids, ip \in IPs : req[c].uuid = u /\ req[c].ip = ip
        BY <1>1, <2>1, OwnedCountPositive
      <3>2. online[u] # None /\ online[u].ips[ip] > 0
        <4>1. online[u] \in Row /\ online[u].ips[ip] \in Nat \ {0}
          BY <1>1, <2>1, <3>1, OwnedCountPositive
        <4>2. \A n \in Nat \ {0} : n > 0
          BY SMTT(60)
        <4> QED
          BY <4>1, <4>2, NoneApart
      <3>3. <<u, ip>> \in {q \in Uuids \X IPs :
                 online[q[1]] # None /\ online[q[1]].ips[q[2]] > 0}
        BY <3>1, <3>2
      <3> QED
        BY SMTT(60), <3>1, <3>3 DEF OnlineDevices
    <2>2. ASSUME NEW u \in Uuids, NEW ip \in IPs,
                 online[u] # None, online[u].ips[ip] > 0
          PROVE  \E c \in Conns : Registered(c) /\ req[c].uuid = u /\ req[c].ip = ip
      <3>1. Cardinality(Holders(u, ip)) # 0
        BY SMTT(60), <1>1, <2>2 DEF OnlineInv, RegistrationsCounted
      <3>2. Holders(u, ip) # {}
        BY <3>1, FS_EmptySet
      <3> QED
        BY <3>2 DEF Holders
    <2>3. OnlineDevices \subseteq Registry!Devices
      <3> SUFFICES ASSUME NEW u \in Uuids, NEW ip \in IPs,
                          online[u] # None, online[u].ips[ip] > 0
                   PROVE  [uid |-> online[u].uid, ip |-> ip] \in Registry!Devices
        BY DEF OnlineDevices
      <3>1. PICK c \in Conns : Registered(c) /\ req[c].uuid = u /\ req[c].ip = ip
        BY SMTT(60), <2>2
      <3>2. RegistrationOf(c) \in Registrations
        BY <3>1 DEF Registrations
      <3>3. RegistrationOf(c).uid = online[u].uid /\ RegistrationOf(c).ip = ip
        BY <3>1 DEF RegistrationOf
      <3> QED
        BY <3>2, <3>3 DEF Registry!Devices
    <2>4. Registry!Devices \subseteq OnlineDevices
      <3> SUFFICES ASSUME NEW r \in Registrations
                   PROVE  [uid |-> r.uid, ip |-> r.ip] \in OnlineDevices
        BY DEF Registry!Devices
      <3>1. PICK c \in Conns : Registered(c) /\ r = RegistrationOf(c)
        BY DEF Registrations
      <3> QED
        BY <2>1, <3>1 DEF RegistrationOf
    <2> QED
      BY <2>3, <2>4 DEF ReportExact
  <1>2. OnlineInv => ReportExact
    BY <1>1
  <1> QED
    BY <1>2, OnlineInvariant, PTL

-----------------------------------------------------------------------------
\* Each kind of step is a step of the registry.
LEMMA RegistryStep ==
    ASSUME OnlineInv, OnlineInv', OnlineStep
    PROVE  [Registry!RegistryNext]_<<Registrations, Members, Closed>>
  <1>0. users' = users => Members' = Members
    BY DEF Members
  <1>1. CASE Quiet
    <2>1. Registrations' = Registrations
      BY <1>1 DEF Quiet, Kept, Registrations
    <2> QED
      BY <1>0, <1>1, <2>1 DEF Quiet
  <1>2. ASSUME NEW c \in Conns, Join(c)
        PROVE  Registry!RegistryNext
    <2>1. PICK u \in Uuids, ip \in IPs : req'[c].uuid = u /\ req'[c].ip = ip
      BY <1>2 DEF Join
    <2> DEFINE r == [conn |-> c, uuid |-> u, uid |-> Members[u], ip |-> ip]
    <2>2. Members[u] = users[u].uid /\ users[u] # None /\ users[u].uid \in Uids
      BY <1>2, <2>1 DEF Join, Members, OnlineInv, TypeOK, UserInfo
    <2>3. RegistrationOf(c)' = r
      BY <1>2, <2>1, <2>2 DEF Join, RegistrationOf
    <2>4. \A q \in Registrations : q.conn # c
      BY SMTT(60), <1>2 DEF Join, Registrations, RegistrationOf
    <2>5. Registrations' = Registrations \union {r}
      BY <1>2, <2>3 DEF Join, Kept, Registrations
    <2>6. Registry!Register(c, u, ip)
      BY <1>0, <1>2, <2>2, <2>4, <2>5, LimiterConstants DEF Registry!Register, Join
    <2> QED
      BY <2>6 DEF Registry!RegistryNext
  <1>3. ASSUME NEW c \in Conns, Part(c)
        PROVE  Registry!RegistryNext
    <2>1. \A d \in Conns : RegistrationOf(d).conn = d
      BY DEF RegistrationOf
    <2>2. Registrations' = {q \in Registrations : q.conn # c}
      BY SMTT(60), <1>3, <2>1 DEF Part, Kept, Registrations
    <2> QED
      BY <1>0, <1>3, <2>2 DEF Registry!RegistryNext, Registry!Unregister, Part
  <1>4. Members' \in Registry!Memberships
    BY DEF OnlineInv, TypeOK, Members, UserInfo, Registry!Memberships
  <1>5. CASE Drop
    <2>1. \A d \in Conns : /\ RegistrationOf(d).uuid = req[d].uuid
                           /\ RegistrationOf(d).uid = online[req[d].uuid].uid
      BY DEF RegistrationOf
    <2>2. Registrations' = {q \in Registrations : Members'[q.uuid] = q.uid}
      BY SMTT(60), <1>5, <2>1 DEF Drop, Registrations
    <2>3. Registry!Edit(Members')
      BY <1>5, <2>2 DEF Registry!Edit, Drop
    <2> QED
      BY <1>4, <2>3 DEF Registry!RegistryNext
  <1>6. CASE Restart
    <2>1. Registry!Reload(Members')
      BY <1>6 DEF Registry!Reload, Restart, Registrations
    <2> QED
      BY <1>4, <2>1 DEF Registry!RegistryNext
  <1> QED
    BY <1>1, <1>2, <1>3, <1>5, <1>6 DEF OnlineStep

\* The limiter implements the registry of live connections.
THEOREM LimiterImplementsRegistry == Spec => ImplementsRegistry
  <1>1. Init => Registry!RegistryInit
    <2> SUFFICES ASSUME Init PROVE Registry!RegistryInit
      OBVIOUS
    <2>1. Registrations = {} /\ Closed = {}
      BY DEF Init, Registrations, Registered, Closed
    <2>2. Members \in Registry!Memberships
      BY InitOnlineInv DEF OnlineInv, TypeOK, Members, UserInfo, Registry!Memberships
    <2> QED
      BY <2>1, <2>2 DEF Registry!RegistryInit
  <1>2. OnlineInv /\ [Next]_vars =>
           [Registry!RegistryNext]_<<Registrations, Members, Closed>>
    BY NextOnline, RegistryStep
  <1>3. Spec => Registry!RegistrySpec
    BY <1>1, <1>2, OnlineInvariant, PTL DEF Spec, Registry!RegistrySpec
  <1> QED
    BY <1>3 DEF ImplementsRegistry

-----------------------------------------------------------------------------

\* A kicked address is rejected until the kick it met has expired, although
\* CheckLimit reads the user and the kick at different moments and without a
\* common lock (limiter.go, CheckLimit and isKicked).
THEOREM KickedAddressesStayOut == Spec => []KickedStayOut
  <1>1. Init => KickInv
    BY DEF Init, KickInv, KickedStayOut
  <1>2. OnlineInv /\ OnlineInv' /\ KickInv /\ [Next]_vars => KickInv'
    BY KickStep DEF OnlineInv
  <1>3. KickInv => KickedStayOut
    BY DEF KickInv
  <1> QED
    BY <1>1, <1>2, <1>3, OnlineInvariant, PTL DEF Spec

-----------------------------------------------------------------------------
\* A step that lets nobody into the cache and leaves those that were let in
\* alone keeps it sound.
LEMMA CacheKept ==
    ASSUME CacheSound,
           \A u \in Uuids, ip \in IPs : cache'[u][ip] \in {cache[u][ip], None},
           \A d \in Conns : Admitted(d) => /\ Admitted(d)'
                                           /\ req'[d] = req[d] /\ seen'[d] = seen[d]
    PROVE  CacheSound'
  <1> SUFFICES ASSUME NEW u \in Uuids, NEW ip \in IPs, cache'[u][ip] # None
               PROVE  \E c \in Conns :
                         /\ Admitted(c)' /\ req'[c].uuid = u /\ req'[c].ip = ip
                         /\ seen'[c].uid = cache'[u][ip]
    BY DEF CacheSound
  <1>1. cache[u][ip] # None /\ cache'[u][ip] = cache[u][ip]
    OBVIOUS
  <1>2. PICK c \in Conns : /\ Admitted(c) /\ req[c].uuid = u /\ req[c].ip = ip
                           /\ seen[c].uid = cache[u][ip]
    BY <1>1 DEF CacheSound
  <1> QED
    BY <1>1, <1>2

\* An admitted stream is the witness of the entry it makes.
LEMMA AdmitSound ==
    ASSUME TypeOK, CacheSound, NEW c \in Conns, Admit(c)
    PROVE  CacheSound'
  <1>1. /\ pc[c] = "passed" /\ Attached(c) /\ seen[c] # None
        /\ UNCHANGED <<gen, req, seen>>
        /\ pc' \in {[pc EXCEPT ![c] = "refused"], [pc EXCEPT ![c] = "admitted"]}
    BY DEF Admit, TypeOK
  <1>2. \A d \in Conns : Admitted(d) => /\ Admitted(d)'
                                        /\ req'[d] = req[d] /\ seen'[d] = seen[d]
    BY <1>1 DEF Admitted, Attached, TypeOK
  <1>3. CASE cache' = cache
    BY <1>2, <1>3, CacheKept
  <1>4. CASE cache' # cache
    <2> DEFINE u == req[c].uuid
               ip == req[c].ip
    <2>1. /\ req[c].tcp /\ pc' = [pc EXCEPT ![c] = "admitted"]
          /\ cache' = [cache EXCEPT ![u] = [cache[u] EXCEPT ![ip] = seen[c].uid]]
      BY <1>4 DEF Admit, AdmitStream
    <2>2. u \in Uuids /\ ip \in IPs
      BY <1>1 DEF TypeOK, Request
    <2>3. Admitted(c)' /\ req'[c] = req[c] /\ seen'[c] = seen[c]
      BY <1>1, <2>1 DEF Admitted, Attached, TypeOK
    <2>4. cache'[u][ip] = seen[c].uid
      BY <2>1, <2>2 DEF TypeOK
    <2>5. \A v \in Uuids, j \in IPs : v # u \/ j # ip => cache'[v][j] = cache[v][j]
      BY <2>1, <2>2 DEF TypeOK
    <2> HIDE DEF u, ip
    <2> SUFFICES ASSUME NEW v \in Uuids, NEW j \in IPs, cache'[v][j] # None
                 PROVE  \E d \in Conns :
                           /\ Admitted(d)' /\ req'[d].uuid = v /\ req'[d].ip = j
                           /\ seen'[d].uid = cache'[v][j]
      BY DEF CacheSound
    <2>6. CASE v = u /\ j = ip
      BY <2>3, <2>4, <2>6 DEF u, ip
    <2>7. CASE v # u \/ j # ip
      <3>0. cache'[v][j] = cache[v][j] /\ cache[v][j] # None
        BY <2>5, <2>7
      <3>1. PICK d \in Conns : /\ Admitted(d) /\ req[d].uuid = v /\ req[d].ip = j
                               /\ seen[d].uid = cache[v][j]
        BY <3>0 DEF CacheSound
      <3> QED
        BY <1>2, <3>0, <3>1
    <2> QED
      BY <2>6, <2>7
  <1> QED
    BY <1>3, <1>4

\* A refused device leaves no trace in the admission cache, whatever edits,
\* reports and reloads run between the steps of CheckLimit (limiter.go,
\* CheckLimit: the slot is checked before the device is cached).
THEOREM RefusedLeaveNoTrace == Spec => []CacheSound
  <1>1. Init => CacheSound
    BY SMTT(60) DEF Init, CacheSound, EmptyCache
  <1>2. ASSUME TypeOK, CacheSound, [Next]_vars PROVE CacheSound'
    <2>1. ASSUME NEW c \in Conns, Connection(c) PROVE CacheSound'
      <3>1. CASE Admit(c)
        BY <1>2, <3>1, AdmitSound
      <3>2. CASE ~Admit(c)
        <4>1. cache' = cache
          BY <2>1, <3>2 DEF Connection, GetLimiter, LoadInfo, CheckKicked, RuleReject,
             TrackConnection, Release, FinishDetached
        <4>2. \A d \in Conns : Admitted(d) => /\ Admitted(d)'
                                              /\ req'[d] = req[d] /\ seen'[d] = seen[d]
          <5>1. CASE \E u \in Uuids, ip \in IPs, tcp \in Streams :
                        GetLimiter(c, u, ip, tcp)
            BY <1>2, <5>1 DEF GetLimiter, Admitted, Attached, TypeOK
          <5>2. CASE LoadInfo(c) \/ CheckKicked(c)
            BY SMTT(60), <1>2, <5>2 DEF LoadInfo, CheckKicked, Admitted, Attached, TypeOK
          <5>3. CASE RuleReject(c) \/ TrackConnection(c)
            BY <1>2, <5>3 DEF RuleReject, TrackConnection, Admitted, Attached, TypeOK
          <5>4. CASE \E how \in {"close", "context"} : Release(c, how)
            BY <5>4 DEF Release, Admitted, Attached
          <5>5. CASE FinishDetached(c)
            BY <1>2, <5>5 DEF FinishDetached, Admitted, Attached, TypeOK
          <5> QED
            BY <2>1, <3>2, <5>1, <5>2, <5>3, <5>4, <5>5 DEF Connection
        <4> QED
          BY <1>2, <4>1, <4>2, CacheKept
      <3> QED
        BY <3>1, <3>2
    <2>2. CASE Environment
      <3>1. CASE GetOnlineDevice \/ \E list \in UserLists, a \in AliveMaps,
                    t \in Tolerances, ex \in ExemptSets : AddLimiter(list, a, t, ex)
        <4>1. cache' = EmptyCache
          BY <3>1 DEF GetOnlineDevice, AddLimiter, FreshLimiter
        <4> QED
          BY <4>1 DEF CacheSound, EmptyCache
      <3>2. CASE ~GetOnlineDevice /\ ~\E list \in UserLists, a \in AliveMaps,
                    t \in Tolerances, ex \in ExemptSets : AddLimiter(list, a, t, ex)
        <4>1. UNCHANGED <<gen, connVars>>
          BY <2>2, <3>2 DEF Environment, UpdateUser, UpdateAliveList, SetDevicePolicy,
             MergeKickedList, Tick, DeleteLimiter
        <4>2. \A u \in Uuids, ip \in IPs : cache'[u][ip] \in {cache[u][ip], None}
          <5>1. ASSUME NEW list \in UserLists, UpdateUser(list)
                PROVE  \A u \in Uuids, ip \in IPs : cache'[u][ip] \in {cache[u][ip], None}
            BY <5>1 DEF UpdateUser
          <5>2. CASE ~\E list \in UserLists : UpdateUser(list)
            <6>1. cache' = cache
              BY <2>2, <3>2, <5>2 DEF Environment, UpdateAliveList, SetDevicePolicy,
                 MergeKickedList, Tick, DeleteLimiter
            <6> QED
              BY <6>1
          <5> QED
            BY <5>1, <5>2
        <4> QED
          BY <1>2, <4>1, <4>2, CacheKept DEF connVars, Admitted, Attached
      <3> QED
        BY <3>1, <3>2
    <2>3. CASE UNCHANGED vars
      BY <1>2, <2>3, CacheKept DEF vars, connVars, Admitted, Attached
    <2> QED
      BY <1>2, <2>1, <2>2, <2>3 DEF Next
  <1>3. OnlineInv => TypeOK
    BY DEF OnlineInv
  <1> QED
    BY <1>1, <1>2, <1>3, OnlineInvariant, PTL DEF Spec
=============================================================================
