------------------------------ MODULE Dispatch ------------------------------
(***************************************************************************)
(* Connections of users through a core, their traffic counters, the calls   *)
(* that add and remove users and the report that reads the counters.        *)
(*                                                                          *)
(* Two cores.  In Xray (core/xray/app/dispatcher) a connection comes in     *)
(* through Dispatch ("pipe"), DispatchLink ("link") or as a stream of a     *)
(* sing-mux session ("stream"); it gets the link manager of its user, adds  *)
(* its link to it and takes the user's counter, and the removal of the user *)
(* closes every link of the manager.  In sing-box (core/sing/hook.go) a     *)
(* connection ("hook") only takes the counter.                              *)
(*                                                                          *)
(* Goroutines of the connections, the node's sync task and its report task  *)
(* interleave at every access to a shared map or counter.  The users'       *)
(* lock is held by AddUsers and DelUsers of Xray from start to end, by the  *)
(* bookkeeping of sing-box and by the reading of the counters.              *)
(***************************************************************************)
EXTENDS Naturals, FiniteSets

CONSTANTS Users,        \* users of the node
          Conns,        \* connections and streams, each used once
          None,         \* no manager, no counter
          MinTraffic,   \* ReportMinTraffic, in units of traffic
          MaxTransfers, \* bound: transfers of a connection per direction
          MaxSyncs,     \* bound: calls of the sync task
          MaxReports    \* bound: reports

ASSUME DispatchConstants ==
    /\ IsFiniteSet(Users) /\ IsFiniteSet(Conns) /\ None \notin Conns
    /\ {MinTraffic, MaxTransfers, MaxSyncs, MaxReports} \subseteq Nat

VARIABLES core,      \* "xray" or "sing"
          users,     \* users the inbound authenticates
          known,     \* users with an id in uidMap
          limited,   \* users in the limiter's table
          carrier,   \* users with an open sing-mux session
          muxOn,     \* the inbound serves sing-mux
          conn,      \* the connections
          managers,  \* LinkManagers: the connection that made the user's manager
          links,     \* the links of the manager a connection made
          counters,  \* Counters: the connection that made the user's storage
          count,     \* the storage a connection made
          sync,      \* the running call of the sync task
          report,    \* the running report
          syncs, reports,
          moved,     \* history: traffic handed to the counters, per user
          reported,  \* history: traffic the panel has accepted, per user
          leaky,     \* history: users some of whose traffic may be missing
          raced      \* history: connections a removal may have missed

sharedVars == <<managers, links, counters, count>>
ghostVars == <<moved, reported, leaky, raced>>
userVars == <<users, known, limited>>
boundVars == <<syncs, reports>>
dispatchVars == <<core, userVars, carrier, muxOn, conn, sharedVars, sync, report,
                  boundVars, ghostVars>>

Kinds == IF core = "xray" THEN {"pipe", "link", "stream"} ELSE {"hook"}
NoConn == [at |-> "none", user |-> None, kind |-> "none", lm |-> None,
           ts |-> None, cut |-> FALSE, up |-> 0, down |-> 0]
Ended == [NoConn EXCEPT !.at = "closed"]
Zero == [up |-> 0, down |-> 0]
NoSync == [at |-> "idle", user |-> None, lm |-> None, closing |-> {}]
NoReport == [at |-> "idle", todo |-> {}, user |-> None, ts |-> None,
             up |-> 0, down |-> 0, batch |-> [u \in Users |-> 0]]

DispatchInit ==
    /\ core \in {"xray", "sing"}
    /\ users = Users /\ known = Users /\ limited = Users
    /\ carrier = {} /\ muxOn = TRUE
    /\ conn = [c \in Conns |-> NoConn]
    /\ managers = [u \in Users |-> None]
    /\ links = [c \in Conns |-> {}]
    /\ counters = [u \in Users |-> None]
    /\ count = [c \in Conns |-> Zero]
    /\ sync = NoSync /\ report = NoReport
    /\ syncs = 0 /\ reports = 0
    /\ moved = [u \in Users |-> 0] /\ reported = [u \in Users |-> 0]
    /\ leaky = {} /\ raced = {}

-----------------------------------------------------------------------------
(* Set-up of a connection. *)

\* SetSingMux: AddNode and DelNode turn the multiplex server on and off.
SetSingMux ==
    /\ core = "xray"
    /\ muxOn' = ~muxOn
    /\ UNCHANGED <<core, userVars, carrier, conn, sharedVars, sync, report,
                   boundVars, ghostVars>>

\* dispatchSingMux: the session itself is neither limited, counted nor linked.
OpenCarrier(u) ==
    /\ core = "xray" /\ muxOn /\ u \in users /\ u \notin carrier
    /\ carrier' = carrier \cup {u}
    /\ UNCHANGED <<core, userVars, muxOn, conn, sharedVars, sync, report,
                   boundVars, ghostVars>>

\* The session ends; its streams end on their own.
CloseCarrier(u) ==
    /\ u \in carrier
    /\ carrier' = carrier \ {u}
    /\ UNCHANGED <<core, userVars, muxOn, conn, sharedVars, sync, report,
                   boundVars, ghostVars>>

\* A stream of a session: it has a context of its own, with the user of the
\* session.  One to the multiplexer's own destination is refused before that.
NewStream(kind, u) == kind = "stream" /\ u \in carrier

\* The inbound has authenticated a connection, or a session has a new stream.
Accept(c, u, kind) ==
    /\ conn[c].at = "none"
    /\ NewStream(kind, u) \/ (kind # "stream" /\ u \in users)
    /\ conn' = [conn EXCEPT ![c] = [@ EXCEPT !.at = "check", !.user = u, !.kind = kind]]
    /\ UNCHANGED <<core, userVars, carrier, muxOn, sharedVars, sync, report,
                   boundVars, ghostVars>>

\* getLink and DispatchLink ask the limiter, which may refuse for a device or
\* connection limit; without one, while a reload rebuilds it (gap), they refuse.
LinkAllowed(u, gap, refused) == ~gap /\ u \in limited /\ ~refused

\* checkAccess asks it too, and its rules; without one it lets the connection pass.
CheckAccess(u, gap, refused) == gap \/ (u \in limited /\ ~refused)

CheckLimit(c, gap, refused) ==
    LET u == conn[c].user
        passes == IF core = "sing" THEN CheckAccess(u, gap, refused)
                  ELSE LinkAllowed(u, gap, refused)
    IN  /\ conn[c].at = "check"
        /\ conn' = [conn EXCEPT ![c] =
                IF passes THEN [@ EXCEPT !.at = IF core = "sing" THEN "count" ELSE "manage"]
                ELSE Ended]
        /\ raced' = IF passes /\ u \notin users THEN raced \cup {c} ELSE raced
        /\ UNCHANGED <<core, userVars, carrier, muxOn, sharedVars, sync, report,
                       boundVars, moved, reported, leaky>>

\* DispatchLink takes the counter before it adds the link, getLink after it.
AfterManager(c) == IF conn[c].kind = "link" THEN "count" ELSE "link"
AfterLink(c) == IF conn[c].kind = "link" THEN "route" ELSE "count"
AfterCount(c) == CASE conn[c].kind = "link" -> "link"
                   [] conn[c].kind = "hook" -> "open"
                   [] OTHER -> "route"

\* LinkManagers.Load.
LoadManager(c) ==
    LET lm == managers[conn[c].user] IN
    /\ conn[c].at = "manage"
    /\ conn' = IF lm = None THEN [conn EXCEPT ![c].at = "store"]
               ELSE [conn EXCEPT ![c].lm = lm, ![c].at = AfterManager(c)]
    /\ UNCHANGED <<core, userVars, carrier, muxOn, sharedVars, sync, report,
                   boundVars, ghostVars>>

\* Connections whose link is, or will be, in manager lm.
Sharing(lm) == {c \in Conns : conn[c].lm = lm}

\* LinkManagers.Store: it replaces a manager another connection has stored since.
StoreManager(c) ==
    LET u == conn[c].user IN
    /\ conn[c].at = "store"
    /\ raced' = IF managers[u] = None THEN raced ELSE raced \cup Sharing(managers[u])
    /\ managers' = [managers EXCEPT ![u] = c]
    /\ conn' = [conn EXCEPT ![c].lm = c, ![c].at = AfterManager(c)]
    /\ UNCHANGED <<core, userVars, carrier, muxOn, links, counters, count, sync,
                   report, boundVars, moved, reported, leaky>>

\* AddLink.
AddLink(c) ==
    /\ conn[c].at = "link"
    /\ links' = [links EXCEPT ![conn[c].lm] = @ \cup {c}]
    /\ conn' = [conn EXCEPT ![c].at = AfterLink(c)]
    /\ UNCHANGED <<core, userVars, carrier, muxOn, managers, counters, count, sync,
                   report, boundVars, ghostVars>>

\* The storage in the map or a new one; LoadOrStore lets one creator win.
StorageFor(c, u) == IF counters[u] = None THEN c ELSE counters[u]

\* trafficCounterFor(tag).GetCounter(user), storageFor.
GetCounter(c) ==
    LET u == conn[c].user
        ts == StorageFor(c, u)
    IN  /\ conn[c].at = "count"
        /\ counters' = [counters EXCEPT ![u] = ts]
        /\ conn' = [conn EXCEPT ![c].ts = ts, ![c].at = AfterCount(c)]
        /\ UNCHANGED <<core, userVars, carrier, muxOn, managers, links, count, sync,
                       report, boundVars, ghostVars>>

\* Mutant: a writer that closes stays in its manager.
KeepWriter(c) == links

\* ManagedWriter.Close and Interrupt: RemoveWriter.
RemoveWriter(c) ==
    IF conn[c].lm = None THEN links
    ELSE [links EXCEPT ![conn[c].lm] = @ \ {c}]

End(c) ==
    /\ conn' = [conn EXCEPT ![c] = Ended]
    /\ links' = RemoveWriter(c)
    /\ raced' = raced \ {c}

\* routedDispatch: a rule, a missing outbound or no default handler ends the
\* connection; otherwise the outbound takes it.
RoutedDispatch(c, refused) ==
    /\ conn[c].at = "route"
    /\ IF refused THEN End(c)
       ELSE conn' = [conn EXCEPT ![c].at = "open"] /\ UNCHANGED <<links, raced>>
    /\ UNCHANGED <<core, userVars, carrier, muxOn, managers, counters, count, sync,
                   report, boundVars, moved, reported, leaky>>

\* A read or write passes the counting wrapper of the connection.  A writer that
\* was cut fails after it has counted.
Transfer(c, dir) ==
    LET u == conn[c].user IN
    /\ conn[c].at = "open" /\ conn[c][dir] < MaxTransfers
    /\ count' = [count EXCEPT ![conn[c].ts][dir] = @ + 1]
    /\ conn' = [conn EXCEPT ![c][dir] = @ + 1]
    /\ moved' = [moved EXCEPT ![u] = @ + 1]
    /\ leaky' = IF counters[u] = conn[c].ts THEN leaky ELSE leaky \cup {u}
    /\ UNCHANGED <<core, userVars, carrier, muxOn, managers, links, counters, sync,
                   report, boundVars, reported, raced>>

\* The connection ends.
CloseConn(c) ==
    /\ conn[c].at = "open"
    /\ End(c)
    /\ UNCHANGED <<core, userVars, carrier, muxOn, managers, counters, count, sync,
                   report, boundVars, moved, reported, leaky>>

-----------------------------------------------------------------------------
(* The sync task: one user per call, first the core and then the limiter.   *)

\* mapLock is held for the whole of Xray's AddUsers and DelUsers, and around the
\* bookkeeping of sing-box.
Locked == sync.at \in {"counter", "load", "snapshot", "close", "forget", "inbound"}

SyncTo(at) == sync' = [sync EXCEPT !.at = at]

\* A connection that was admitted and has not added its link yet.
BeingLinked(c) ==
    \/ conn[c].at \in {"manage", "store", "link"}
    \/ conn[c].at = "count" /\ conn[c].kind = "link"

\* DelUsers: the inbound forgets the user.  Xray then deletes the user's id, under
\* the lock it holds already; sing-box takes the lock for that afterwards.
RemoveUser(u) ==
    /\ sync.at = "idle" /\ syncs < MaxSyncs /\ u \in users
    /\ core = "xray" => report.at = "idle"
    /\ users' = users \ {u}
    /\ known' = IF core = "xray" THEN known \ {u} ELSE known
    /\ sync' = [NoSync EXCEPT !.at = IF core = "xray" THEN "counter" ELSE "forgetUsers",
                              !.user = u]
    /\ syncs' = syncs + 1
    \* a connection of the user that is being set up may end up beside the manager
    /\ raced' = raced \cup {c \in Conns : conn[c].user = u /\ BeingLinked(c)}
    /\ UNCHANGED <<core, limited, carrier, muxOn, conn, sharedVars, report, reports,
                   moved, reported, leaky>>

\* What the storage of u holds that no report has taken.
Pending(u) ==
    IF counters[u] = None THEN 0 ELSE count[counters[u]].up + count[counters[u]].down

\* TrafficCounter.Delete: what the counter holds goes with it.
Delete(u) ==
    /\ counters' = [counters EXCEPT ![u] = None]
    /\ leaky' = IF Pending(u) = 0 THEN leaky ELSE leaky \cup {u}

\* Xray: tc.Delete(user).
DeleteCounter ==
    /\ sync.at = "counter"
    /\ Delete(sync.user)
    /\ SyncTo("load")
    /\ UNCHANGED <<core, userVars, carrier, muxOn, conn, managers, links, count, report,
                   boundVars, moved, reported, raced>>

\* sing-box: forgetUsers.
ForgetUsers ==
    /\ sync.at = "forgetUsers" /\ report.at = "idle"
    /\ Delete(sync.user)
    /\ known' = known \ {sync.user}
    /\ SyncTo("limiterDel")
    /\ UNCHANGED <<core, users, limited, carrier, muxOn, conn, managers, links, count,
                   report, boundVars, moved, reported, raced>>

\* LinkManagers.Load(user).
LoadLinks ==
    LET lm == managers[sync.user] IN
    /\ sync.at = "load"
    /\ sync' = [sync EXCEPT !.at = IF lm = None THEN "limiterDel" ELSE "snapshot", !.lm = lm]
    /\ UNCHANGED <<core, userVars, carrier, muxOn, conn, sharedVars, report, boundVars,
                   ghostVars>>

\* CloseAll copies the links under its lock.
Snapshot ==
    /\ sync.at = "snapshot"
    /\ sync' = [sync EXCEPT !.at = "close", !.closing = links[sync.lm]]
    /\ UNCHANGED <<core, userVars, carrier, muxOn, conn, sharedVars, report, boundVars,
                   ghostVars>>

\* CloseAll closes the writer of a link and interrupts its reader.
CloseLink(c) ==
    /\ sync.at = "close" /\ c \in sync.closing
    /\ sync' = [sync EXCEPT !.closing = @ \ {c}]
    /\ conn' = [conn EXCEPT ![c].cut = TRUE]
    /\ links' = RemoveWriter(c)
    /\ UNCHANGED <<core, userVars, carrier, muxOn, managers, counters, count, report,
                   boundVars, ghostVars>>

\* LinkManagers.Delete(user).
ForgetLinks ==
    /\ sync.at = "close" /\ sync.closing = {}
    /\ managers' = [managers EXCEPT ![sync.user] = None]
    /\ SyncTo("limiterDel")
    /\ UNCHANGED <<core, userVars, carrier, muxOn, conn, links, counters, count, report,
                   boundVars, ghostVars>>

\* AddUsers.  Xray: the id first, and the lock is kept; sing-box: the inbound first.
AddUser(u) ==
    /\ sync.at = "idle" /\ syncs < MaxSyncs /\ u \notin users
    /\ core = "xray" => report.at = "idle"
    /\ known' = IF core = "xray" THEN known \cup {u} ELSE known
    /\ users' = IF core = "xray" THEN users ELSE users \cup {u}
    /\ sync' = [NoSync EXCEPT !.at = IF core = "xray" THEN "inbound" ELSE "remember",
                              !.user = u]
    /\ syncs' = syncs + 1
    /\ UNCHANGED <<core, limited, carrier, muxOn, conn, sharedVars, report, reports,
                   ghostVars>>

\* Xray: the user manager of the inbound takes the user.
AddToInbound ==
    /\ sync.at = "inbound"
    /\ users' = users \cup {sync.user}
    /\ SyncTo("limiterAdd")
    /\ UNCHANGED <<core, known, limited, carrier, muxOn, conn, sharedVars, report,
                   boundVars, ghostVars>>

\* sing-box: rememberUsers.
RememberUsers ==
    /\ sync.at = "remember" /\ report.at = "idle"
    /\ known' = known \cup {sync.user}
    /\ SyncTo("limiterAdd")
    /\ UNCHANGED <<core, users, limited, carrier, muxOn, conn, sharedVars, report,
                   boundVars, ghostVars>>

\* limiter.UpdateUser, after the core.
UpdateLimiter ==
    /\ sync.at \in {"limiterDel", "limiterAdd"}
    /\ limited' = IF sync.at = "limiterDel" THEN limited \ {sync.user}
                  ELSE limited \cup {sync.user}
    /\ sync' = NoSync
    /\ UNCHANGED <<core, users, known, carrier, muxOn, conn, sharedVars, report,
                   boundVars, ghostVars>>

SyncStep ==
    \/ \E u \in Users : RemoveUser(u) \/ AddUser(u)
    \/ DeleteCounter \/ ForgetUsers \/ LoadLinks \/ Snapshot
    \/ \E c \in Conns : CloseLink(c)
    \/ ForgetLinks \/ AddToInbound \/ RememberUsers \/ UpdateLimiter

-----------------------------------------------------------------------------
(* The report: GetUserTrafficSlice with reset under the read lock, then the  *)
(* request.  One report at a time (userReportMu).                            *)

BeginReport ==
    /\ report.at = "idle" /\ ~Locked /\ reports < MaxReports
    /\ report' = [NoReport EXCEPT !.at = "next",
                                  !.todo = {u \in Users : counters[u] # None}]
    /\ reports' = reports + 1
    /\ UNCHANGED <<core, userVars, carrier, muxOn, conn, sharedVars, sync, syncs,
                   ghostVars>>

\* Range visits an entry: UpCounter.Load.
LoadUp(u) ==
    /\ report.at = "next" /\ u \in report.todo
    /\ report' = [report EXCEPT !.at = "down", !.todo = @ \ {u}, !.user = u,
                                !.ts = counters[u], !.up = count[counters[u]].up]
    /\ UNCHANGED <<core, userVars, carrier, muxOn, conn, sharedVars, sync, boundVars,
                   ghostVars>>

\* DownCounter.Load; little traffic stays for a later report.
LoadDown ==
    LET down == count[report.ts].down IN
    /\ report.at = "down"
    /\ report' = [report EXCEPT !.down = down,
                                !.at = IF report.up + down > MinTraffic THEN "zeroUp" ELSE "next"]
    /\ UNCHANGED <<core, userVars, carrier, muxOn, conn, sharedVars, sync, boundVars,
                   ghostVars>>

\* What was counted between the load and the reset is lost.
LostBetween(dir) ==
    IF count[report.ts][dir] = report[dir] THEN leaky ELSE leaky \cup {report.user}

\* UpCounter.Store(0).
ZeroUp ==
    /\ report.at = "zeroUp"
    /\ count' = [count EXCEPT ![report.ts].up = 0]
    /\ leaky' = LostBetween("up")
    /\ report' = [report EXCEPT !.at = "zeroDown"]
    /\ UNCHANGED <<core, userVars, carrier, muxOn, conn, managers, links, counters, sync,
                   boundVars, moved, reported, raced>>

\* Mutant: the down counter is not reset.
KeepDown == count

\* DownCounter.Store(0).
ZeroDown == [count EXCEPT ![report.ts].down = 0]

\* The reset is done.  Traffic of a user without an id is dropped with its counter.
AppendTraffic ==
    LET u == report.user IN
    /\ report.at = "zeroDown"
    /\ count' = ZeroDown
    /\ report' = [report EXCEPT !.at = "next",
            !.batch[u] = @ + IF u \in known THEN report.up + report.down ELSE 0]
    /\ counters' = IF u \in known THEN counters ELSE [counters EXCEPT ![u] = None]
    /\ leaky' = LostBetween("down") \cup (IF u \in known THEN {} ELSE {u})
    /\ UNCHANGED <<core, userVars, carrier, muxOn, conn, managers, links, sync, boundVars,
                   moved, reported, raced>>

\* reportUserTrafficTask posts the batch once; what a failed request held is gone.
PostTraffic(ok) ==
    /\ report.at = "next" /\ report.todo = {}
    /\ reported' = IF ok THEN [u \in Users |-> reported[u] + report.batch[u]] ELSE reported
    /\ leaky' = IF ok THEN leaky ELSE leaky \cup {u \in Users : report.batch[u] > 0}
    /\ report' = NoReport
    /\ UNCHANGED <<core, userVars, carrier, muxOn, conn, sharedVars, sync, boundVars,
                   moved, raced>>

ReportStep ==
    \/ BeginReport
    \/ \E u \in Users : LoadUp(u)
    \/ LoadDown \/ ZeroUp \/ AppendTraffic
    \/ \E ok \in BOOLEAN : PostTraffic(ok)

SetUp(c) ==
    \/ \E u \in Users, kind \in Kinds : Accept(c, u, kind)
    \/ \E gap, refused \in BOOLEAN : CheckLimit(c, gap, refused)
    \/ LoadManager(c) \/ StoreManager(c) \/ AddLink(c) \/ GetCounter(c)
    \/ \E refused \in BOOLEAN : RoutedDispatch(c, refused)

DispatchNext ==
    \/ \E c \in Conns : SetUp(c)
    \/ \E c \in Conns, dir \in {"up", "down"} : Transfer(c, dir)
    \/ \E c \in Conns : CloseConn(c)
    \/ \E u \in Users : OpenCarrier(u) \/ CloseCarrier(u)
    \/ SetSingMux
    \/ SyncStep
    \/ ReportStep

DispatchSpec == DispatchInit /\ [][DispatchNext]_dispatchVars

-----------------------------------------------------------------------------
(* Properties. *)

\* What the running report has taken out of the counters of u.
InHand(u) ==
    report.batch[u] + IF report.at = "zeroDown" /\ report.user = u THEN report.up ELSE 0

\* No traffic is reported twice, although the counters are loaded and reset in
\* separate steps while connections add to them; and all of it is reported or
\* waiting unless it was counted between a load and its reset, counted into a
\* storage that had left the map, dropped with its user, or in a failed request.
TrafficConserved ==
    \A u \in Users :
        /\ reported[u] + InHand(u) + Pending(u) <= moved[u]
        /\ u \notin leaky => reported[u] + InHand(u) + Pending(u) = moved[u]

\* Every open connection of Xray is in the link manager from which a removal of
\* its user would close it, so that none is open once a removal is done; and a
\* manager holds no link of a connection that ended.  Left out are a connection
\* admitted or set up while its user was being removed, and one whose manager a
\* concurrent connection replaced.
LinksMatch ==
    \A c \in Conns :
        /\ (conn[c].at \in {"route", "open"} /\ conn[c].kind # "hook"
              /\ ~conn[c].cut /\ c \notin raced)
           => managers[conn[c].user] # None /\ c \in links[managers[conn[c].user]]
        /\ \A m \in Conns : c \in links[m] => conn[c].at # "closed" /\ conn[c].lm = m
=============================================================================
