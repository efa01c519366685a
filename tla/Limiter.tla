------------------------------ MODULE Limiter ------------------------------
(***************************************************************************)
(* The limiter of one node (limiter/limiter.go, limiter/online.go) and the  *)
(* path a connection takes through it (core/sing/hook.go and the Xray       *)
(* dispatcher): admission, device accounting, kicks, speed bucket, online   *)
(* registration and release, interleaved with the controller's user edits,  *)
(* policy edits, reports and reloads and with the panel's kicks.            *)
(*                                                                          *)
(* A critical section of onlineMu, kickedMu or aliveMu is one action; every *)
(* point where CheckLimit runs outside a lock is a step boundary.           *)
(*                                                                          *)
(* Dynamic speed limits are left out: Controller.traffic, the only trigger  *)
(* of UpdateDynamicSpeedLimit, is never written, so ExpireTime stays 0.     *)
(***************************************************************************)
EXTENDS Integers, FiniteSets

CONSTANTS
    Conns,       \* connections, each used once
    Uuids,       \* credentials (TagUUID keys)
    Uids,        \* panel user ids
    IPs,         \* unmapped source addresses
    None,        \* the absent map entry, pointer or value
    UserLists,   \* user lists the panel may publish
    AliveMaps,   \* alive lists the panel may publish
    Tolerances,  \* device-limit headroom the panel may configure
    ExemptSets,  \* sets of addresses that bypass device accounting
    Ttls,        \* remaining lifetimes the panel may put on a kick
    Streams,     \* which of stream (TRUE) and datagram sources (FALSE) connect
    NodeRate,    \* LimitConfig.SpeedLimit of the node, 0 for none
    Core,        \* the proxy core in front of the limiter
    MaxNow,      \* bound on the clock
    MaxReloads   \* bound on the number of reloads

UserInfo == [uid : Uids, deviceLimit : Nat, rate : Nat]
Row      == [id : Conns, uid : Uids, ips : [IPs -> Nat]]
Request  == [uuid : Uuids, ip : IPs, tcp : BOOLEAN, gen : Nat]
View     == [uid : Uids, deviceLimit : Nat, rate : Nat, ceiling : Nat,
             kickedUntil : Nat]

ASSUME LimiterConstants ==
    /\ IsFiniteSet(Conns)
    /\ None \notin UserInfo \union Row \union Request \union View
                      \union Uids \union Conns
    /\ UserLists \subseteq [Uuids -> UserInfo \union {None}]
    /\ AliveMaps \subseteq [Uids -> Int]
    /\ Tolerances \subseteq Int
    /\ ExemptSets \subseteq SUBSET IPs
    /\ Ttls \subseteq Int
    /\ Streams \subseteq BOOLEAN
    /\ NodeRate \in Nat
    /\ Core \in {"sing", "xray"}
    /\ MaxNow \in Nat
    /\ MaxReloads \in Nat

VARIABLES
    users,       \* Controller.userList
    registered,  \* is the node's tag in the limiter registry?
    gen,         \* which Limiter object is current (one per AddLimiter)
    info,        \* UserLimitInfo
    online,      \* onlineUsers
    cache,       \* UserOnlineIP, devices admitted since the last report
    old,         \* OldUserOnline, devices of the cycle before
    alive,       \* AliveList, 0 for no entry
    kicked,      \* KickedIPs, 0 for no entry
    tolerance,   \* deviceTolerance
    exempt,      \* addresses isExempt answers true for
    bucket,      \* SpeedLimiter, the rate of the bucket or 0
    now,         \* the clock
    pc,          \* where each connection is
    req,         \* what each connection presented
    seen,        \* what CheckLimit has read for the connection so far
    obj,         \* the onlineUser object the connection's release owns
    ended        \* the release calls already made for the connection

connVars == <<pc, req, seen, obj, ended>>
vars == <<users, registered, gen, info, online, cache, old, alive, kicked,
          tolerance, exempt, bucket, now, connVars>>

Max2(a, b) == IF a >= b THEN a ELSE b

\* cloneAliveList: entries that are not positive are dropped.
cloneAliveList(a) == [x \in Uids |-> Max2(a[x], 0)]

\* The smaller non-zero limit, or the non-zero one, or 0.
determineSpeedLimit(a, b) ==
    IF a = 0 \/ b = 0 THEN Max2(a, b) ELSE IF a > b THEN b ELSE a

EmptyCache == [u \in Uuids |-> [ip \in IPs |-> None]]
NoKicks    == [x \in Uids |-> [ip \in IPs |-> 0]]

\* The state of a Limiter that AddLimiter has just built; the old objects
\* are garbage, kicks and registrations included.
FreshLimiter(list, a, t, ex) ==
    /\ users' = list
    /\ info' = list
    /\ online' = [u \in Uuids |-> None]
    /\ cache' = EmptyCache
    /\ old' = [ip \in IPs |-> None]
    /\ alive' = cloneAliveList(a)
    /\ kicked' = NoKicks
    /\ tolerance' = Max2(t, 0)
    /\ exempt' = ex
    /\ bucket' = [u \in Uuids |-> 0]

Init ==
    /\ users \in UserLists
    /\ registered = TRUE
    /\ gen = 0
    /\ info = users
    /\ online = [u \in Uuids |-> None]
    /\ cache = EmptyCache
    /\ old = [ip \in IPs |-> None]
    /\ \E a \in AliveMaps : alive = cloneAliveList(a)
    /\ kicked = NoKicks
    /\ \E t \in Tolerances : tolerance = Max2(t, 0)
    /\ exempt \in ExemptSets
    /\ bucket = [u \in Uuids |-> 0]
    /\ now = 1
    /\ pc = [c \in Conns |-> "idle"]
    /\ req = [c \in Conns |-> None]
    /\ seen = [c \in Conns |-> None]
    /\ obj = [c \in Conns |-> None]
    /\ ended = [c \in Conns |-> {}]

-----------------------------------------------------------------------------
(* A connection on its way through the limiter                              *)

\* Does the connection hold the current Limiter object?
Attached(c) == req[c].gen = gen

(***************************************************************************)
(* RoutedConnection / getLink look the limiter up by tag.  In the gap of a  *)
(* reload there is none: sing-box lets the connection through unlimited and *)
(* unregistered, Xray refuses it.                                           *)
(***************************************************************************)
GetLimiter(c, u, ip, tcp) ==
    /\ pc[c] = "idle"
    /\ req' = [req EXCEPT ![c] =
                  [uuid |-> u, ip |-> ip, tcp |-> tcp, gen |-> gen]]
    /\ pc' = [pc EXCEPT ![c] = IF registered THEN "check"
                               ELSE IF Core = "sing" THEN "open"
                               ELSE "refused"]
    /\ UNCHANGED <<users, registered, gen, info, online, cache, old, alive,
                   kicked, tolerance, exempt, bucket, now, seen, obj, ended>>

(***************************************************************************)
(* CheckLimit reads the exemption and the user's limits, without a lock; an  *)
(* exempt address is kept as one without a device limit.                    *)
(* kickedUntil is a history value: the kick in force at this point.         *)
(***************************************************************************)
LoadInfo(c) ==
    /\ pc[c] = "check"
    /\ Attached(c)
    /\ LET r == req[c]
           i == info[r.uuid]
       IN IF i = None
          THEN /\ pc' = [pc EXCEPT ![c] = "refused"]
               /\ UNCHANGED seen
          ELSE /\ pc' = [pc EXCEPT ![c] = "loaded"]
               /\ seen' = [seen EXCEPT ![c] =
                     [uid |-> i.uid,
                      deviceLimit |-> IF r.ip \in exempt THEN 0 ELSE i.deviceLimit,
                      rate |-> i.rate, ceiling |-> 0,
                      kickedUntil |-> kicked[i.uid][r.ip]]]
    /\ UNCHANGED <<users, registered, gen, info, online, cache, old, alive,
                   kicked, tolerance, exempt, bucket, now, req, obj, ended>>

\* Mutant: the kick lapses one tick early.
isKickedEarly(uid, ip) == kicked[uid][ip] > now + 1

isKicked(uid, ip) == kicked[uid][ip] > now

(***************************************************************************)
(* A kicked address is refused before any bookkeeping; the effective        *)
(* ceiling is computed from the headroom of this moment.                    *)
(***************************************************************************)
CheckKicked(c) ==
    /\ pc[c] = "loaded"
    /\ Attached(c)
    /\ IF isKicked(seen[c].uid, req[c].ip)
       THEN /\ pc' = [pc EXCEPT ![c] = "refused"]
            /\ UNCHANGED seen
       ELSE /\ pc' = [pc EXCEPT ![c] = "passed"]
            /\ seen' = [seen EXCEPT ![c] =
                           [@ EXCEPT !.ceiling = seen[c].deviceLimit + tolerance]]
    /\ UNCHANGED <<users, registered, gen, info, online, cache, old, alive,
                   kicked, tolerance, exempt, bucket, now, req, obj, ended>>

\* A device neither admitted in this cycle nor carried over from the last.
NewDevice(c) ==
    /\ cache[req[c].uuid][req[c].ip] = None
    /\ old[req[c].ip] = None

\* No device slot is left for the connection.
Full(c) ==
    /\ seen[c].deviceLimit > 0
    /\ seen[c].ceiling <= alive[seen[c].uid]

(***************************************************************************)
(* The rest of CheckLimit.  A stream runs it under onlineMu: a new device   *)
(* without a slot is refused and leaves no trace, any other is put in the   *)
(* admission cache, using up the carried-over entry if that is its own.     *)
(* A datagram source skips the device accounting.  The first connection of  *)
(* a capped user creates the bucket that all later ones share.              *)
(***************************************************************************)
AdmitStream(c) ==
    LET r == req[c]
        uid == seen[c].uid
    IN IF cache[r.uuid][r.ip] = None
       THEN /\ cache' = [cache EXCEPT ![r.uuid] =
                            [cache[r.uuid] EXCEPT ![r.ip] = uid]]
            /\ old' = [old EXCEPT ![r.ip] = IF @ = uid THEN None ELSE @]
       ELSE UNCHANGED <<cache, old>>

TakeBucket(c) ==
    LET limit == determineSpeedLimit(NodeRate, seen[c].rate)
    IN bucket' = [bucket EXCEPT ![req[c].uuid] =
                     IF limit > 0 /\ @ = 0 THEN limit ELSE @]

\* Mutant: the device is cached before its slot is checked.
AdmitCachesFirst(c) ==
    /\ pc[c] = "passed"
    /\ Attached(c)
    /\ IF req[c].tcp THEN AdmitStream(c) ELSE UNCHANGED <<cache, old>>
    /\ IF req[c].tcp /\ NewDevice(c) /\ Full(c)
       THEN pc' = [pc EXCEPT ![c] = "refused"] /\ UNCHANGED bucket
       ELSE pc' = [pc EXCEPT ![c] = "admitted"] /\ TakeBucket(c)
    /\ UNCHANGED <<users, registered, gen, info, online, alive, kicked,
                   tolerance, exempt, now, req, seen, obj, ended>>

Admit(c) ==
    /\ pc[c] = "passed"
    /\ Attached(c)
    /\ IF req[c].tcp /\ NewDevice(c) /\ Full(c)
       THEN /\ pc' = [pc EXCEPT ![c] = "refused"]
            /\ UNCHANGED <<cache, old, bucket>>
       ELSE /\ pc' = [pc EXCEPT ![c] = "admitted"]
            /\ IF req[c].tcp THEN AdmitStream(c) ELSE UNCHANGED <<cache, old>>
            /\ TakeBucket(c)
    /\ UNCHANGED <<users, registered, gen, info, online, alive, kicked,
                   tolerance, exempt, now, req, seen, obj, ended>>

\* sing-box applies the routing rules between admission and registration.
RuleReject(c) ==
    /\ pc[c] = "admitted"
    /\ Attached(c)
    /\ Core = "sing"
    /\ pc' = [pc EXCEPT ![c] = "dropped"]
    /\ UNCHANGED <<users, registered, gen, info, online, cache, old, alive,
                   kicked, tolerance, exempt, bucket, now, req, seen, obj, ended>>

\* The row after one more connection from ip has joined it.
RowWith(row, ip) == [row EXCEPT !.ips = [row.ips EXCEPT ![ip] = @ + 1]]

(***************************************************************************)
(* TrackConnection, under onlineMu.  A user that left between admission and *)
(* registration is not registered.  The onlineUser object is named after    *)
(* the connection that allocated it, which makes its identity (the pointer  *)
(* the release compares) visible.                                           *)
(***************************************************************************)
TrackConnection(c) ==
    /\ pc[c] = "admitted"
    /\ Attached(c)
    /\ LET u == req[c].uuid
           ip == req[c].ip
           reuse == online[u] # None /\ online[u].uid = info[u].uid
       IN IF info[u] = None
          THEN /\ pc' = [pc EXCEPT ![c] = "open"]
               /\ UNCHANGED <<online, obj>>
          ELSE /\ pc' = [pc EXCEPT ![c] = "tracked"]
               /\ online' = [online EXCEPT ![u] =
                     IF reuse
                     THEN RowWith(online[u], ip)
                     ELSE [id |-> c, uid |-> info[u].uid,
                           ips |-> [j \in IPs |-> IF j = ip THEN 1 ELSE 0]]]
               /\ obj' = [obj EXCEPT ![c] = IF reuse THEN online[u].id ELSE c]
    /\ UNCHANGED <<users, registered, gen, info, cache, old, alive, kicked,
                   tolerance, exempt, bucket, now, req, seen, ended>>

\* The row after one connection from ip has left it.
RowWithout(row, ip) ==
    LET left == [row.ips EXCEPT ![ip] = @ - 1]
    IN IF \A j \in IPs : left[j] = 0 THEN None ELSE [row EXCEPT !.ips = left]

\* Mutant: the release looks the row up in whatever limiter the tag has now.
OwnsRowByTag(c) ==
    ended[c] = {} /\ online[req[c].uuid] # None

(***************************************************************************)
(* The release callback still owns a reference: it has not run before       *)
(* (OnceFunc) and the user's row is the object it was handed.               *)
(***************************************************************************)
OwnsRow(c) ==
    /\ ended[c] = {}
    /\ Attached(c)
    /\ online[req[c].uuid] # None
    /\ online[req[c].uuid].id = obj[c]

(***************************************************************************)
(* The release callback: closing the connection and the end of its context  *)
(* both call it, and only a call that owns a reference gives it back.       *)
(***************************************************************************)
Release(c, how) ==
    /\ pc[c] = "tracked"
    /\ how \notin ended[c]
    /\ ended' = [ended EXCEPT ![c] = @ \union {how}]
    /\ online' = IF OwnsRow(c)
                 THEN [online EXCEPT ![req[c].uuid] = RowWithout(@, req[c].ip)]
                 ELSE online
    /\ UNCHANGED <<users, registered, gen, info, cache, old, alive, kicked,
                   tolerance, exempt, bucket, now, pc, req, seen, obj>>

\* A connection that still holds a replaced Limiter works on objects nobody
\* else reads: it ends refused, or open and absent from the current tables.
FinishDetached(c) ==
    /\ pc[c] \in {"check", "loaded", "passed", "admitted"}
    /\ ~Attached(c)
    /\ \E result \in {"refused", "open"} : pc' = [pc EXCEPT ![c] = result]
    /\ UNCHANGED <<users, registered, gen, info, online, cache, old, alive,
                   kicked, tolerance, exempt, bucket, now, req, seen, obj, ended>>

-----------------------------------------------------------------------------
(* The controller and the panel                                             *)

\* An edited user that keeps its user id keeps its row; a row that belongs to
\* another user id than the one added now goes.
LosesRow(u, list, deleted, added) ==
    LET retained == {v \in deleted \intersect added : list[v].uid = users[v].uid}
    IN \/ u \in deleted \ retained
       \/ u \in added /\ online[u] # None /\ online[u].uid # list[u].uid

(***************************************************************************)
(* compareUserList against the current list, then UpdateUser, under         *)
(* onlineMu.  An edited user is deleted and added again: its row survives   *)
(* if the user id stays, its admission cache, bucket and alive count go.    *)
(***************************************************************************)
UpdateUser(list) ==
    LET changed == {u \in Uuids : list[u] # users[u]}
        deleted == {u \in changed : users[u] # None}
        added   == {u \in changed : list[u] # None}
    IN /\ changed # {}
       /\ users' = list
       /\ info' = [u \in Uuids |-> IF u \in changed THEN list[u] ELSE info[u]]
       /\ online' = [u \in Uuids |->
             IF LosesRow(u, list, deleted, added) THEN None ELSE online[u]]
       /\ cache' = [u \in Uuids |->
             IF u \in deleted THEN [ip \in IPs |-> None] ELSE cache[u]]
       /\ bucket' = [u \in Uuids |-> IF u \in deleted THEN 0 ELSE bucket[u]]
       /\ alive' = [x \in Uids |->
             IF \E u \in deleted : users[u].uid = x THEN 0 ELSE alive[x]]
       /\ UNCHANGED <<registered, gen, old, kicked, tolerance, exempt, now,
                      connVars>>

UpdateAliveList(a) ==
    /\ alive' = cloneAliveList(a)
    /\ UNCHANGED <<users, registered, gen, info, online, cache, old, kicked,
                   tolerance, exempt, bucket, now, connVars>>

\* applyDeviceLimitInPlace: SetDeviceTolerance and SetIgnoredPrefixes.
SetDevicePolicy(t, ex) ==
    /\ tolerance' = Max2(t, 0)
    /\ exempt' = ex
    /\ UNCHANGED <<users, registered, gen, info, online, cache, old, alive,
                   kicked, bucket, now, connVars>>

\* A ttl that is not positive is skipped, otherwise the later expiry wins.
MergedExpiry(e, ttl) == IF ttl > 0 THEN Max2(e, now + ttl) ELSE e

(***************************************************************************)
(* MergeKickedList with one entry; everything that has lapsed is pruned.    *)
(***************************************************************************)
MergeKickedList(uid, ip, ttl) ==
    LET merged == [kicked EXCEPT ![uid] = [kicked[uid] EXCEPT ![ip] =
                      MergedExpiry(kicked[uid][ip], ttl)]]
    IN /\ kicked' = [x \in Uids |-> [j \in IPs |->
                       IF merged[x][j] <= now THEN 0 ELSE merged[x][j]]]
       /\ UNCHANGED <<users, registered, gen, info, online, cache, old, alive,
                      tolerance, exempt, bucket, now, connVars>>

Tick ==
    /\ now < MaxNow
    /\ now' = now + 1
    /\ UNCHANGED <<users, registered, gen, info, online, cache, old, alive,
                   kicked, tolerance, exempt, bucket, connVars>>

\* Mutant: an address stays listed after its last connection has gone.
OnlineDevicesEver ==
    {[uid |-> online[p[1]].uid, ip |-> p[2]] :
        p \in {q \in Uuids \X IPs : online[q[1]] # None}}

\* onlineDevicesLocked: the distinct (user id, address) pairs of the rows.
OnlineDevices ==
    {[uid |-> online[p[1]].uid, ip |-> p[2]] :
        p \in {q \in Uuids \X IPs :
                 online[q[1]] # None /\ online[q[1]].ips[q[2]] > 0}}

\* CountOnlineIP: the devices that occupy a slot.
CountOnlineIP == Cardinality({d \in OnlineDevices : d.ip \notin exempt})

(***************************************************************************)
(* GetOnlineDevice reports OnlineDevices and starts the next admission      *)
(* cycle.  An address several users have cached keeps one of them: the      *)
(* order in which the map is walked decides which.                          *)
(***************************************************************************)
GetOnlineDevice ==
    /\ old' \in [IPs -> Uids \union {None}]
    /\ \A ip \in IPs :
          LET owners == {cache[u][ip] : u \in Uuids} \ {None}
          IN old'[ip] \in IF owners = {} THEN {None} ELSE owners
    /\ cache' = EmptyCache
    /\ UNCHANGED <<users, registered, gen, info, online, alive, kicked,
                   tolerance, exempt, bucket, now, connVars>>

\* The two halves of what a reload does to the registry.
DeleteLimiter ==
    /\ registered
    /\ gen < MaxReloads
    /\ registered' = FALSE
    /\ UNCHANGED <<users, gen, info, online, cache, old, alive, kicked,
                   tolerance, exempt, bucket, now, connVars>>

AddLimiter(list, a, t, ex) ==
    /\ ~registered
    /\ registered' = TRUE
    /\ gen' = gen + 1
    /\ FreshLimiter(list, a, t, ex)
    /\ UNCHANGED <<now, connVars>>

-----------------------------------------------------------------------------
Connection(c) ==
    \/ \E u \in Uuids, ip \in IPs, tcp \in Streams : GetLimiter(c, u, ip, tcp)
    \/ LoadInfo(c)
    \/ CheckKicked(c)
    \/ Admit(c)
    \/ RuleReject(c)
    \/ TrackConnection(c)
    \/ \E how \in {"close", "context"} : Release(c, how)
    \/ FinishDetached(c)

Environment ==
    \/ \E list \in UserLists : UpdateUser(list)
    \/ \E a \in AliveMaps : UpdateAliveList(a)
    \/ \E t \in Tolerances, ex \in ExemptSets : SetDevicePolicy(t, ex)
    \/ \E uid \in Uids, ip \in IPs, ttl \in Ttls : MergeKickedList(uid, ip, ttl)
    \/ Tick
    \/ GetOnlineDevice
    \/ DeleteLimiter
    \/ \E list \in UserLists, a \in AliveMaps, t \in Tolerances,
          ex \in ExemptSets : AddLimiter(list, a, t, ex)

Next == (\E c \in Conns : Connection(c)) \/ Environment

Spec == Init /\ [][Next]_vars

-----------------------------------------------------------------------------
(* Properties                                                               *)

\* Every variable stays in its type; a connection that has been through a
\* step of CheckLimit has the values that step reads.
TypeOK ==
    /\ users \in [Uuids -> UserInfo \union {None}]
    /\ registered \in BOOLEAN
    /\ gen \in Nat
    /\ info \in [Uuids -> UserInfo \union {None}]
    /\ online \in [Uuids -> Row \union {None}]
    /\ cache \in [Uuids -> [IPs -> Uids \union {None}]]
    /\ old \in [IPs -> Uids \union {None}]
    /\ alive \in [Uids -> Nat]
    /\ kicked \in [Uids -> [IPs -> Nat]]
    /\ tolerance \in Nat
    /\ exempt \in SUBSET IPs
    /\ bucket \in [Uuids -> Nat]
    /\ now \in Nat
    /\ pc \in [Conns -> {"idle", "check", "loaded", "passed", "admitted",
                         "tracked", "open", "dropped", "refused"}]
    /\ req \in [Conns -> Request \union {None}]
    /\ seen \in [Conns -> View \union {None}]
    /\ obj \in [Conns -> Conns \union {None}]
    /\ ended \in [Conns -> SUBSET {"close", "context"}]
    /\ \A c \in Conns : pc[c] # "idle" => req[c] # None
    /\ \A c \in Conns : pc[c] \in {"loaded", "passed", "admitted"}
                            => seen[c] # None

\* The connection's registration is in force: it has not been released and
\* the user's row is still the object it was made in.
Registered(c) ==
    /\ pc[c] = "tracked"
    /\ ended[c] = {}
    /\ Attached(c)
    /\ online[req[c].uuid] # None
    /\ online[req[c].uuid].id = obj[c]

\* The registered connections of a credential from an address.
Holders(u, ip) ==
    {c \in Conns : Registered(c) /\ req[c].uuid = u /\ req[c].ip = ip}

\* Reference counting is exact (online.go): the count of an address in a
\* user's row is the number of registered connections from it, whatever
\* releases ran twice, late, or for a row that has since been replaced; and a
\* row without connections does not exist.
RegistrationsCounted ==
    \A u \in Uuids : online[u] # None =>
        /\ \A ip \in IPs : online[u].ips[ip] = Cardinality(Holders(u, ip))
        /\ \E ip \in IPs : online[u].ips[ip] > 0

\* The limit table is the controller's user list, although it is only ever
\* patched with the differences; and a reported device belongs to a user of
\* that list, under the user id the list gives the credential.
TablesMatchUsers ==
    /\ info = users
    /\ \A u \in Uuids : online[u] # None =>
          info[u] # None /\ info[u].uid = online[u].uid

\* A connection never drops out of the report while it is open and its user
\* keeps its id (UpdateUser's "retained"); only a reload or the departure of
\* the user may take it out.
LiveStayReported ==
    [][\A c \in Conns : (Registered(c) /\ ~Registered(c)') =>
          LET u == req[c].uuid
          IN \/ ended'[c] # {}
             \/ gen' # gen
             \/ users'[u] = None
             \/ users'[u].uid # users[u].uid]_vars

\* The registrations in force, as the registry sees them.
RegistrationOf(c) == [conn |-> c, uuid |-> req[c].uuid,
                      uid |-> online[req[c].uuid].uid, ip |-> req[c].ip]
Registrations == {RegistrationOf(c) : c \in {d \in Conns : Registered(d)}}

\* The user id behind each credential, and the connections that have ended.
Members == [u \in Uuids |-> IF users[u] = None THEN None ELSE users[u].uid]
Closed  == {c \in Conns : ended[c] # {}}

Registry == INSTANCE OnlineRegistry
                WITH reg <- Registrations, members <- Members, closed <- Closed

\* Every step of the limiter is a step of the registry or changes nothing it
\* shows: no close, user edit, report or reload disturbs other registrations.
ImplementsRegistry == Registry!RegistrySpec

\* What GetOnlineDevice sends to the panel is exactly the devices of the
\* registrations in force.
ReportExact == OnlineDevices = Registry!Devices

\* A kicked address is rejected outright until its entry expires
\* (limiter.go, KickedIPs): a connection that found a kick in force when it
\* entered CheckLimit gets no further before that kick is over.
KickedStayOut ==
    \A c \in Conns : pc[c] \in {"passed", "admitted", "tracked"} =>
        seen[c].kickedUntil <= now

\* A kick in force is never shortened or lost (MergeKickedList: merging is
\* safe against stale full syncs racing a fresh kick).
KicksLast ==
    [][\A uid \in Uids, ip \in IPs :
          kicked[uid][ip] > now => kicked'[uid][ip] >= kicked[uid][ip]]_vars

\* A stream of this limiter that was let in.
Admitted(c) ==
    /\ pc[c] \in {"admitted", "tracked", "open", "dropped"}
    /\ Attached(c) /\ req[c].tcp /\ seen[c] # None

\* A refused device occupies no slot of the admission cache: every cached
\* entry was put there by a stream that was let in under that user id.
CacheSound ==
    \A u \in Uuids, ip \in IPs : cache[u][ip] # None =>
        \E c \in Conns :
            /\ Admitted(c) /\ req[c].uuid = u /\ req[c].ip = ip
            /\ seen[c].uid = cache[u][ip]

\* The effective ceiling is device_limit + tolerance (limiter.go, CheckLimit;
\* the headroom is for the device's own stale entry): a stream from an address
\* its user did not hold in this cycle or the last is admitted below it only.
NewDeviceUnderCeiling ==
    [][\A c \in Conns :
          (/\ pc[c] = "passed" /\ pc'[c] = "admitted" /\ req[c].tcp
           /\ cache[req[c].uuid][req[c].ip] = None
           /\ old[req[c].ip] # seen[c].uid) => ~Full(c)]_vars

\* The datagram path enforces device limits (hook.go,
\* RoutedPacketConnection): a datagram source that is a new device is
\* admitted below the ceiling only.
DatagramsLimited ==
    [][\A c \in Conns :
          (pc[c] = "passed" /\ pc'[c] = "admitted" /\ ~req[c].tcp)
              => ~(NewDevice(c) /\ Full(c))]_vars
=============================================================================
