------------------------------ MODULE AliveSync ------------------------------
(***************************************************************************)
(* How the number of devices a user has on all nodes gets from the panel    *)
(* into the limiter: by the poll of the monitor (GetUserAlive), by          *)
(* sync.devices over the WebSocket, and by a reload, which makes a new      *)
(* limiter.  The monitor and the reader of the socket are goroutines of     *)
(* their own; a critical section is one step, and between two of them       *)
(* either may overtake the other.                                           *)
(***************************************************************************)
EXTENDS Naturals, Sequences, FiniteSets

CONSTANTS Members,     \* users
          DeviceIPs,   \* addresses of devices
          Proxies,     \* addresses of a CDN
          MaxEvents    \* bound: changes at the panel, pushes, reloads, user diffs

VARIABLES devices,     \* the panel's devices of each user
          pushed,      \* sync.devices under way
          known,       \* Client.AliveMap
          shown,       \* Controller.aliveMap
          limits,      \* AliveList of the limiter in c.limiter
          object,      \* which limiter that is
          routine,     \* the goroutines
          events       \* counts against the bound

aliveVars == <<devices, pushed, known, shown, limits, object, routine, events>>

Rest == [at |-> "idle", list |-> <<>>, object |-> 0, then |-> "idle"]

\* The counts of alivelist are the panel's own.
Alivelist(d) == [u \in Members |-> Cardinality(d[u])]

\* decodeDeviceAliveMap, countDeviceIPs: the panel's counts, or its addresses, of which
\* those of a CDN are left out.
DecodeDeviceAliveMap(d) == {Alivelist(d), [u \in Members |-> Cardinality(d[u] \ Proxies)]}

\* Controller.Start has made the limiter from what it was told.
AliveInit ==
    /\ devices = [u \in Members |-> {}]
    /\ pushed = <<>>
    /\ known = Alivelist(devices) /\ shown = known /\ limits = known
    /\ object = 1
    /\ routine = [r \in {"reader", "monitor"} |-> Rest]
    /\ events = 0

Event == events < MaxEvents /\ events' = events + 1
To(r, state) == routine' = [routine EXCEPT ![r] = state]
Then(r, at) == To(r, [routine[r] EXCEPT !.at = at])

-----------------------------------------------------------------------------
(* The panel and the socket. *)

Change(u, d) ==
    /\ Event
    /\ devices' = [devices EXCEPT ![u] = d]
    /\ UNCHANGED <<pushed, known, shown, limits, object, routine>>

\* On a change, or asked for by request.devices.
Push ==
    /\ Event
    /\ pushed' = Append(pushed, devices)
    /\ UNCHANGED <<devices, known, shown, limits, object, routine>>

\* The socket is lost with what is under way.
Drop ==
    /\ pushed # <<>>
    /\ pushed' = <<>>
    /\ UNCHANGED <<devices, known, shown, limits, object, routine, events>>

-----------------------------------------------------------------------------
(* What both goroutines do with a list. *)

\* applyAliveMap: the cache, then the hook outside its lock.
ApplyAliveMap(r, list, then) ==
    /\ known' = list
    /\ To(r, [Rest EXCEPT !.at = "hook", !.list = list, !.then = then])

\* setAliveMap: the controller's copy, then the limiter of the moment.
SetAliveMap(r) ==
    /\ routine[r].at = "hook"
    /\ shown' = routine[r].list
    /\ To(r, [routine[r] EXCEPT !.at = "limiter", !.object = object])
    /\ UNCHANGED <<devices, pushed, known, limits, object, events>>

\* UpdateAliveList, of a limiter that may have been replaced.
UpdateAliveList(r) ==
    /\ routine[r].at = "limiter"
    /\ limits' = IF routine[r].object = object THEN routine[r].list ELSE limits
    /\ IF routine[r].then = "idle" THEN To(r, Rest) ELSE Then(r, routine[r].then)
    /\ UNCHANGED <<devices, pushed, known, shown, object, events>>

-----------------------------------------------------------------------------
(* The reader of the socket. *)

\* onSyncDevices; a list that cannot be decoded is ignored.
OnSyncDevices ==
    /\ routine["reader"].at = "idle" /\ pushed # <<>>
    /\ pushed' = Tail(pushed)
    /\ \/ \E alive \in DecodeDeviceAliveMap(Head(pushed)) : ApplyAliveMap("reader", alive, "idle")
       \/ UNCHANGED <<known, routine>>
    /\ UNCHANGED <<devices, shown, limits, object, events>>

Reader == OnSyncDevices \/ SetAliveMap("reader") \/ UpdateAliveList("reader")

-----------------------------------------------------------------------------
(* The monitor. *)

\* The run has got its node and its users; one that has not returns and tries again.
Ask ==
    /\ routine["monitor"].at = "idle"
    /\ Then("monitor", "asked")
    /\ UNCHANGED <<devices, pushed, known, shown, limits, object, events>>

Answered ==
    /\ routine["monitor"].at = "asked"
    /\ To("monitor", [Rest EXCEPT !.at = "answered", !.list = Alivelist(devices)])
    /\ UNCHANGED <<devices, pushed, known, shown, limits, object, events>>

GetUserAlive ==
    /\ routine["monitor"].at = "answered"
    /\ ApplyAliveMap("monitor", routine["monitor"].list, "cached")
    /\ UNCHANGED <<devices, pushed, shown, limits, object, events>>

\* Mutant: without an answer there is no list.
WithoutAnswer == "diff"

\* Without an answer GetUserAlive returns what it has.
OnFailure == "cached"

GetUserAliveFails ==
    /\ routine["monitor"].at \in {"asked", "answered"}
    /\ To("monitor", [Rest EXCEPT !.at = OnFailure])
    /\ UNCHANGED <<devices, pushed, known, shown, limits, object, events>>

CachedAliveMap ==
    /\ routine["monitor"].at = "cached"
    /\ To("monitor", [Rest EXCEPT !.at = "decide", !.list = known])
    /\ UNCHANGED <<devices, pushed, known, shown, limits, object, events>>

NoReload ==
    /\ routine["monitor"].at = "decide"
    /\ To("monitor", [routine["monitor"] EXCEPT !.at = "hook", !.then = "diff"])
    /\ UNCHANGED <<devices, pushed, known, shown, limits, object, events>>

\* The new limiter has the list the monitor was given, and is given it again.
\* A reload that cannot remove the old node does not get there.
Reload(removed) ==
    /\ Event
    /\ routine["monitor"].at = "decide"
    /\ IF removed
       THEN /\ object' = object + 1 /\ limits' = routine["monitor"].list
            /\ Then("monitor", "hook")
       ELSE UNCHANGED <<object, limits>> /\ To("monitor", Rest)
    /\ UNCHANGED <<devices, pushed, known, shown>>

\* UpdateUser of a removed user takes their count along.
DeleteAlive(u) ==
    /\ Event
    /\ routine["monitor"].at = "diff"
    /\ limits' = [limits EXCEPT ![u] = 0]
    /\ To("monitor", Rest)
    /\ UNCHANGED <<devices, pushed, known, shown, object>>

NoUserChange ==
    /\ routine["monitor"].at = "diff"
    /\ To("monitor", Rest)
    /\ UNCHANGED <<devices, pushed, known, shown, limits, object, events>>

Monitor ==
    \/ Ask \/ Answered \/ GetUserAlive \/ GetUserAliveFails \/ CachedAliveMap
    \/ NoReload \/ (\E removed \in BOOLEAN : Reload(removed))
    \/ SetAliveMap("monitor") \/ UpdateAliveList("monitor")
    \/ (\E u \in Members : DeleteAlive(u)) \/ NoUserChange

AliveNext ==
    \/ Reader \/ Monitor \/ Push \/ Drop
    \/ \E u \in Members, d \in SUBSET (DeviceIPs \cup Proxies) : Change(u, d)

\* Both goroutines go on, and the panel answers GetNodeInfo and GetUserList again some
\* day (Ask); nothing says that alivelist is ever answered.
AliveSpec ==
    /\ AliveInit /\ [][AliveNext]_aliveVars
    /\ WF_aliveVars(Reader) /\ WF_aliveVars(Monitor)

-----------------------------------------------------------------------------
(* Properties. *)

\* What the client was told last ends up in the limiter and in the report of the
\* controller, although a push is overtaken between the cache and the limiter, is
\* overwritten by a poll that had read the cache before it, or goes to a limiter that
\* has just been replaced, and although alivelist is never answered again.
AliveSettles == <>[](limits = known /\ shown = known)
=============================================================================
