----------------------------- MODULE UserReport -----------------------------
(***************************************************************************)
(* The report of online devices (node/user.go reportUserTrafficTask,        *)
(* api/panel/user.go ReportNodeOnlineUsers).  The panel merges what HTTP    *)
(* brings it per user, so a user who left has to be reported with no        *)
(* address; which users that may concern is what the node remembers in      *)
(* reportedDeviceUsers, although requests and replies get lost.  Overlapping *)
(* runs of the task are serialised by userReportMu and appear as one.       *)
(***************************************************************************)
EXTENDS Integers, FiniteSets

CONSTANTS
    Users,      \* user ids
    IPs,        \* addresses
    MaxLosses   \* bound on the messages that get lost

VARIABLES
    online,    \* the devices the limiter has registered
    reported,  \* reportedDeviceUsers
    at,        \* "idle" or "send"
    data,      \* the report under way: the addresses of the users in it
    named,     \* the users the report names
    current,   \* currentUsers
    panel,     \* what the panel shows for this node, external
    unheard,   \* history: the users whose removal was written to a WebSocket
               \* and lost there, until the panel hears of them again
    losses     \* messages lost so far

vars == <<online, reported, at, data, named, current, panel, unheard, losses>>

Nobody == [u \in Users |-> {}]

Init ==
    /\ online = Nobody /\ reported = {} /\ at = "idle"
    /\ data = Nobody /\ named = {} /\ current = {}
    /\ panel = Nobody /\ unheard = {} /\ losses = 0

\* Connections open and close, and a reload empties the table.
Devices(devices) ==
    /\ devices # online
    /\ online' = devices
    /\ UNCHANGED <<reported, at, data, named, current, panel, unheard, losses>>

\* Mutant: the probe filter does not ask whether the user was reported.
CountedOut(low) == low

\* nocountUID: the users with too little traffic, unless already reported.
nocountUID(low) == low \ reported

\* Mutants: nobody who left is named; the users of a report are remembered
\* only once it is acknowledged.
NamedOnline(cur) == cur
RememberedLater(cur) == reported

\* Everyone online, and everyone reported before.
Named(cur) == cur \union reported

\* A failed request may still have reached the panel.
Remembered(cur) == cur \union reported

\* The traffic is taken, with too little of it for the users in low, and the
\* report is put together.
Collect(low) ==
    LET cur == {u \in Users : online[u] # {}} \ nocountUID(low)
    IN /\ at = "idle"
       /\ current' = cur /\ named' = Named(cur)
       /\ data' = [u \in Users |-> IF u \in cur THEN online[u] ELSE {}]
       /\ reported' = Remembered(cur)
       /\ at' = "send"
       /\ UNCHANGED <<online, panel, unheard, losses>>

\* The panel takes an HTTP report: it replaces the users the report names.
Merged == [u \in Users |-> IF u \in named THEN data[u] ELSE panel[u]]

Lose == losses < MaxLosses /\ losses' = losses + 1

\* The report is acknowledged.
Acknowledged ==
    /\ at = "send" /\ at' = "idle"
    /\ panel' = Merged /\ unheard' = unheard \ named
    /\ reported' = current
    /\ UNCHANGED <<online, data, named, current, losses>>

\* The request or its reply is lost; the next run reports anew.
Failed ==
    /\ at = "send" /\ at' = "idle"
    /\ Lose
    /\ \/ UNCHANGED <<panel, unheard>>
       \/ panel' = Merged /\ unheard' = unheard \ named
    /\ UNCHANGED <<online, reported, data, named, current>>

\* Over the WebSocket a report that was written counts as received; it is a
\* snapshot of all users there.  A write that fails falls back to HTTP.
SentOverWebSocket ==
    /\ at = "send" /\ at' = "idle"
    /\ \/ panel' = data /\ unheard' = {} /\ UNCHANGED losses
       \/ Lose /\ unheard' = unheard \union (named \ current) /\ UNCHANGED panel
    /\ reported' = current
    /\ UNCHANGED <<online, data, named, current>>

reportUserTrafficTask ==
    \/ \E low \in SUBSET Users : Collect(low)
    \/ Acknowledged \/ Failed \/ SentOverWebSocket

Next == \/ reportUserTrafficTask
        \/ \E u \in Users, ips \in SUBSET IPs : Devices([online EXCEPT ![u] = ips])
        \/ Devices(Nobody)

Spec == Init /\ [][Next]_vars


-----------------------------------------------------------------------------
(* Properties                                                               *)

\* Whoever the panel shows for this node is remembered as reported, so that a
\* user who leaves is cleared explicitly (user.go: HTTP alive reports need
\* explicit removals; a failed request may still have reached the panel),
\* whatever requests and replies were lost.  The one exception is a user whose
\* removal was lost on a WebSocket.
ShownAreRemembered ==
    \A u \in Users \ unheard : panel[u] # {} => u \in reported

\* An established device does not disappear below the traffic threshold
\* (device_report_test.go): a user the panel shows and who is still online is
\* in every report with the addresses online, whichever way reports go.
EstablishedStay ==
    [][at = "idle" /\ at' = "send" =>
          \A u \in Users \ unheard : panel[u] # {} /\ online[u] # {} =>
              u \in named' /\ data'[u] = online[u]]_vars

\* A user who goes offline for good disappears from the panel, unless the
\* removal is lost on a WebSocket.
OfflineCleared ==
    \A u \in Users : <>[](online[u] = {} /\ u \notin unheard) => <>[](panel[u] = {})
=============================================================================
