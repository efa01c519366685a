------------------------------ MODULE MCLoops ------------------------------
(***************************************************************************)
(* The background loops of a node on small instances: the periodic tasks,   *)
(* the panel's WebSocket driver, the configuration watcher, the report of   *)
(* online devices, the counts of devices the panel sends, and the DDNS      *)
(* workers.  They share no state, so a behaviour explores one of them, the  *)
(* one that part names, and the others rest.                                *)
(***************************************************************************)
EXTENDS Task

CONSTANTS
    None,
    Senders, Loop, Stopper, MaxConns,                       \* WSDriver
    Mains, Refs, Workers, MaxWrites, MaxRefs, MaxFaults,    \* ConfigWatch
    Users, IPs, MaxLosses,                                  \* UserReport
    Updaters, Addresses, MaxUpsets,                         \* DDNS
    Members, DeviceIPs, Proxies, MaxEvents                  \* AliveSync

\* The goroutines of the WebSocket driver are distinct.
ASSUME SocketConstants == Loop # Stopper /\ Loop \notin Senders /\ Stopper \notin Senders

VARIABLES
    part,
    cancelled, conn, connected, writer, loop, cur, proc, made, open, alive, authed,
    disk, writes, refWrites, event, watching, timer, pending, active, finished,
    state, retry, conf, serving, rl, faults, done, server, unseen,
    online, reported, phase, data, named, current, panel, unheard, losses,
    provider, address, records, updater, syncing, late, upsets,
    devices, pushed, known, shown, limits, object, routine, events

W == INSTANCE WSDriver
C == INSTANCE ConfigWatch WITH running <- serving
R == INSTANCE UserReport WITH at <- phase
D == INSTANCE DDNS WITH running <- syncing
A == INSTANCE AliveSync

Main(ok, warns, id) == [ok |-> ok, warns |-> warns, id |-> id]

\* Two good files and a broken one.
PlainMains == {Main(TRUE, {}, 1), Main(TRUE, {}, 2), Main(FALSE, {}, 3)}

-----------------------------------------------------------------------------
Parts == {"task", "socket", "watch", "report", "ddns", "alive"}

socketVars == <<cancelled, conn, connected, writer, loop, cur, proc, made, open,
                alive, authed>>
watchVars == <<disk, writes, refWrites, event, watching, timer, pending, active,
               finished, state, retry, conf, serving, rl, faults, done, server, unseen>>
reportVars == <<online, reported, phase, data, named, current, panel, unheard, losses>>
ddnsVars == <<provider, address, records, updater, syncing, late, upsets>>
aliveVars == <<devices, pushed, known, shown, limits, object, routine, events>>
loopVars == <<part, vars, socketVars, watchVars, reportVars, ddnsVars, aliveVars>>

LoopsInit ==
    /\ part \in Parts
    /\ Init /\ W!Init /\ C!Init /\ R!Init /\ D!DDNSInit /\ A!AliveInit
    /\ part # "watch" => disk = CHOOSE d \in [main : Mains, ref : Refs] : d.main.ok
    /\ part # "ddns" => provider = "alidns" /\ address = CHOOSE ip \in Addresses : TRUE

LoopsNext ==
    /\ UNCHANGED part
    /\ \/ /\ part = "task" /\ Next
          /\ UNCHANGED <<socketVars, watchVars, reportVars, ddnsVars, aliveVars>>
       \/ /\ part = "socket" /\ W!Next
          /\ UNCHANGED <<vars, watchVars, reportVars, ddnsVars, aliveVars>>
       \/ /\ part = "watch" /\ C!Next
          /\ UNCHANGED <<vars, socketVars, reportVars, ddnsVars, aliveVars>>
       \/ /\ part = "report" /\ R!Next
          /\ UNCHANGED <<vars, socketVars, watchVars, ddnsVars, aliveVars>>
       \/ /\ part = "ddns" /\ D!DDNSNext
          /\ UNCHANGED <<vars, socketVars, watchVars, reportVars, aliveVars>>
       \/ /\ part = "alive" /\ A!AliveNext
          /\ UNCHANGED <<vars, socketVars, watchVars, reportVars, ddnsVars>>

\* Goroutines go on.  The watcher is started, and the report task runs on its
\* interval and its requests end; so do the workers of a DNS record and
\* the monitor, which gets its node and its users again some day, alivelist perhaps never.
LoopsSpec ==
    /\ LoopsInit /\ [][LoopsNext]_loopVars
    /\ W!Fairness /\ C!Fairness
    /\ WF_watchVars(part = "watch" /\ C!StartWatch)
    /\ WF_reportVars(part = "report" /\ R!reportUserTrafficTask)
    /\ \A w \in Updaters : WF_ddnsVars(part = "ddns" /\ D!UpdaterStep(w))
    /\ WF_ddnsVars(part = "ddns" /\ D!StartNodes)
    /\ WF_aliveVars(part = "alive" /\ A!Reader) /\ WF_aliveVars(part = "alive" /\ A!Monitor)

-----------------------------------------------------------------------------
(* Properties, each stated in the loop's module                             *)

\* Task: at most one run of a task is open, and it executes.  (OneLiveRun)

\* The WebSocket driver keeps one socket at a time, and none once it has
\* stopped.
OneSocket == W!OneSocket

\* Stopping the WebSocket driver ends, also when the panel is silent.
StopEnds == W!StopEnds

\* Once the server has closed its core no reload brings anything up again.
StoppedStaysDown == C!StoppedStaysDown

\* Shutdown does not hang on the watcher or on a reload.
ShutdownEnds == C!ShutdownEnds

\* In the end the last applicable edit of the configuration runs, unless the
\* reload for it has failed.
LastEditApplied == C!LastEditApplied

\* Whoever the panel shows for this node is remembered as reported.
ShownAreRemembered == R!ShownAreRemembered

\* A user the panel shows and who is still online is in every report.
EstablishedStay == R!EstablishedStay

\* A user who goes offline for good disappears from the panel.
OfflineCleared == R!OfflineCleared

\* In the end the DNS record is at the machine's address, or is one that the
\* workers leave to the operator.
RecordRepaired == part = "ddns" => D!RecordRepaired

\* What the panel told last about devices ends up in the limiter.
AliveSettles == A!AliveSettles
=============================================================================
