---------------------------- MODULE LoopsProofs ----------------------------
(***************************************************************************)
(* What the background loops of a node keep up, each for any number of      *)
(* restarts, sockets, senders, writes, reload goroutines, users, addresses   *)
(* and losses: the periodic tasks, the report of online devices, the        *)
(* WebSocket driver and the configuration watcher.                          *)
(***************************************************************************)
EXTENDS MCLoops, TLAPS

\* A leaf is left to Zenon unless it names another prover.
USE ZenonT(60)

-----------------------------------------------------------------------------
(* The periodic tasks                                                       *)

\* Ranges, and that only runs that were started are anywhere or closed.
RunsKnown ==
    /\ stop \in 0..MaxRuns
    /\ closed \subseteq Runs /\ \A r \in closed : r <= stop
    /\ at \in [Runs -> Stages]
    /\ \A r \in Runs : at[r] # "none" => r <= stop

TaskInv == RunsKnown /\ OneLiveRun

\* A task that was never started has no run.
LEMMA TaskInitInv == Init => TaskInv
<1> SUFFICES ASSUME Init PROVE TaskInv
    OBVIOUS
<1>1. RunsKnown
    BY SMTT(60), TaskConstants DEF Init, RunsKnown, Stages
<1>2. OneOpenRun
    BY SMTT(60), TaskConstants DEF Init, OneOpenRun, Runs
<1> QED
    BY <1>1, <1>2 DEF Init, TaskInv, OneLiveRun

\* A step of a goroutine that only moves it leaves the invariant alone, unless
\* it ends the newest run of a task that is up.
LEMMA MoveKeeps ==
    ASSUME TaskInv, NEW r \in Runs, at[r] # "none", NEW stage \in Stages \ {"none"},
           Go(r, stage), stage = "over" => ~EndsTask(r),
           UNCHANGED <<running, stop, closed, panicked>>
    PROVE  TaskInv'
<1>1. at' \in [Runs -> Stages] /\ \A q \in Runs : at'[q] # "none" => q <= stop
    BY DEF TaskInv, RunsKnown, Go
<1>2. running => at'[stop] \notin {"none", "over"}
    BY DEF TaskInv, RunsKnown, OneLiveRun, OneOpenRun, EndsTask, Go
<1> QED
    BY <1>1, <1>2 DEF TaskInv, RunsKnown, OneOpenRun, OneLiveRun

\* Every step of callers and goroutines preserves the invariant.
LEMMA TaskStepInv == TaskInv /\ [Next]_vars => TaskInv'
<1> SUFFICES ASSUME TaskInv, [Next]_vars PROVE TaskInv'
    OBVIOUS
<1> USE TaskConstants
<1>1. CASE Start
    <2>1. /\ stop' = stop + 1 /\ stop' \in Runs /\ closed' = closed
          /\ running' = TRUE /\ panicked' = FALSE
          /\ \A r \in Runs : r <= stop => r \in closed
        BY SMTT(60), <1>1 DEF Start, TaskInv, RunsKnown, OneOpenRun, OneLiveRun, Runs
    <2>2. at' \in [Runs -> Stages] /\ \A q \in Runs : at'[q] # "none" => q <= stop'
        BY SMTT(60), <1>1, <2>1 DEF Start, Go, TaskInv, RunsKnown, Stages, Runs
    <2>3. RunsKnown'
        BY SMTT(60), <2>1, <2>2 DEF TaskInv, RunsKnown, OneLiveRun, Runs
    <2>4. OneOpenRun'
        BY SMTT(60), <2>1 DEF TaskInv, RunsKnown, OneLiveRun, OneOpenRun, Runs
    <2>5. at'[stop'] = "sleep"
        BY <1>1, <2>1 DEF Start, Go, TaskInv, RunsKnown
    <2> QED
        BY <2>1, <2>3, <2>4, <2>5 DEF TaskInv, OneLiveRun
<1>2. CASE Close
    <2>1. /\ running' = FALSE /\ closed' = closed \union {stop} /\ stop \in Runs
          /\ stop' = stop /\ at' = at /\ panicked' = FALSE
        BY <1>2 DEF Close, StopRunning, CloseChan, TaskInv, RunsKnown, OneOpenRun,
           OneLiveRun, Runs
    <2>2. OneOpenRun'
        BY <2>1 DEF TaskInv, RunsKnown, OneLiveRun, OneOpenRun, Runs
    <2>3. RunsKnown'
        BY SMTT(60), <2>1 DEF TaskInv, RunsKnown, Runs
    <2> QED
        BY <2>1, <2>2, <2>3 DEF TaskInv, OneLiveRun
<1>3. ASSUME NEW r \in Runs, Goroutine(r) PROVE TaskInv'
    <2>1. CASE Fire(r)
        BY <2>1, MoveKeeps DEF Fire, Stages
    <2>2. CASE Stopped(r)
        BY <2>2, MoveKeeps DEF Stopped, Stages
    <2>3. CASE Check(r)
        BY <2>3, MoveKeeps DEF Check, Stages
    <2>4. CASE Returns(r)
        BY <2>4, MoveKeeps DEF Returns, Stages
    <2>5. CASE Exit(r)
        <3>1. CASE EndsTask(r)
            <4>1. /\ running' = FALSE /\ closed' = closed \union {r} /\ stop = r
                  /\ stop' = stop /\ panicked' = FALSE
                BY <2>5, <3>1 DEF Exit, EndsTask, CloseChan, TaskInv, RunsKnown,
                   OneOpenRun, OneLiveRun, Runs
            <4>2. at' \in [Runs -> Stages] /\ \A q \in Runs : at'[q] # "none" => q <= stop
                BY <2>5 DEF Exit, Go, TaskInv, RunsKnown, Stages
            <4>3. OneOpenRun'
                BY <4>1 DEF TaskInv, RunsKnown, OneLiveRun, OneOpenRun, Runs
            <4>4. RunsKnown'
                BY SMTT(60), <4>1, <4>2 DEF TaskInv, RunsKnown, Runs
            <4> QED
                BY <4>1, <4>3, <4>4 DEF TaskInv, OneLiveRun
        <3>2. CASE ~EndsTask(r)
            BY <2>5, <3>2, MoveKeeps DEF Exit, Stages
        <3> QED
            BY <3>1, <3>2
    <2> QED
        BY <1>3, <2>1, <2>2, <2>3, <2>4, <2>5 DEF Goroutine
<1>4. CASE UNCHANGED vars
    BY <1>4 DEF vars, TaskInv, RunsKnown, OneOpenRun, OneLiveRun
<1> QED
    BY <1>1, <1>2, <1>3, <1>4 DEF Next

\* A restarted task has one live run, the newest; every other run has been told
\* to stop, and no stop channel is closed twice (Start, Close and the deferred
\* function of task.go).
THEOREM RestartsDoNotPileUp == Spec => []OneLiveRun
<1>1. TaskInv => OneLiveRun
    BY DEF TaskInv
<1> QED
    BY <1>1, TaskInitInv, TaskStepInv, PTL DEF Spec

-----------------------------------------------------------------------------
(* The report of online devices                                             *)

\* The report under way names everybody the panel shows, gives addresses to
\* the current users only, and these are remembered already.
InTransit ==
    phase = "send" =>
        /\ \A u \in Users \ unheard : panel[u] # {} => u \in named
        /\ \A u \in Users : data[u] # {} => u \in current
        /\ current \subseteq reported

ReportTypeOK ==
    /\ online \in [Users -> SUBSET IPs] /\ panel \in [Users -> SUBSET IPs]
    /\ data \in [Users -> SUBSET IPs]
    /\ phase \in {"idle", "send"} /\ unheard \subseteq Users
    /\ named \subseteq Users /\ reported \subseteq Users /\ current \subseteq Users

ReportInv == ReportTypeOK /\ ShownAreRemembered /\ InTransit

\* Nothing is shown and nothing is remembered at first.
LEMMA ReportInitInv == R!Init => ReportInv
BY DEF R!Init, R!Nobody, ReportInv, ReportTypeOK, ShownAreRemembered, R!ShownAreRemembered, InTransit

\* Every step keeps the memory ahead of the panel.
LEMMA ReportStepInv == ReportInv /\ [R!Next]_reportVars => ReportInv'
<1> SUFFICES ASSUME ReportInv, [R!Next]_reportVars PROVE ReportInv'
    OBVIOUS
<1>1. ASSUME NEW low \in SUBSET Users, R!Collect(low) PROVE ReportInv'
    <2> DEFINE who == {u \in Users : online[u] # {}} \ R!nocountUID(low)
    <2>1. /\ phase' = "send" /\ panel' = panel /\ online' = online
          /\ unheard' = unheard
          /\ current' = who /\ named' = who \union reported
          /\ reported' = who \union reported
          /\ data' = [u \in Users |-> IF u \in who THEN online[u] ELSE {}]
        BY <1>1 DEF R!Collect, R!Named, R!Remembered
    <2>2. who \subseteq Users
        OBVIOUS
    <2> HIDE DEF who
    <2> QED
        BY <2>1, <2>2 DEF ReportInv, ReportTypeOK, ShownAreRemembered, R!ShownAreRemembered, InTransit
<1>2. CASE R!Acknowledged
    <2>1. R!Merged \in [Users -> SUBSET IPs]
        BY DEF R!Merged, ReportInv, ReportTypeOK
    <2>2. \A u \in Users \ unheard' : R!Merged[u] # {} => u \in current
        BY <1>2 DEF R!Merged, R!Acknowledged, ReportInv, InTransit
    <2> QED
        BY <1>2, <2>1, <2>2
           DEF R!Acknowledged, ReportInv, ReportTypeOK, ShownAreRemembered, R!ShownAreRemembered, InTransit
<1>3. CASE R!Failed
    <2>1. R!Merged \in [Users -> SUBSET IPs]
        BY DEF R!Merged, ReportInv, ReportTypeOK
    <2>2. \A u \in Users \ (unheard \ named) : R!Merged[u] # {} => u \in reported
        BY <1>3 DEF R!Merged, R!Failed, ReportInv, InTransit, ShownAreRemembered,
           R!ShownAreRemembered
    <2> QED
        BY <1>3, <2>1, <2>2
           DEF R!Failed, ReportInv, ReportTypeOK, ShownAreRemembered, R!ShownAreRemembered, InTransit
<1>4. ASSUME NEW d \in [Users -> SUBSET IPs], R!Devices(d) PROVE ReportInv'
    BY <1>4 DEF R!Devices, ReportInv, ReportTypeOK, ShownAreRemembered, R!ShownAreRemembered, InTransit
<1>5. CASE R!SentOverWebSocket
    <2>1. CASE panel' = data /\ unheard' = {}
        BY <1>5, <2>1
           DEF R!SentOverWebSocket, ReportInv, ReportTypeOK, ShownAreRemembered, R!ShownAreRemembered, InTransit
    <2>2. CASE panel' = panel /\ unheard' = unheard \union (named \ current)
        BY <1>5, <2>2
           DEF R!SentOverWebSocket, ReportInv, ReportTypeOK, ShownAreRemembered, R!ShownAreRemembered, InTransit
    <2> QED
        BY <1>5, <2>1, <2>2 DEF R!SentOverWebSocket
<1>6. CASE UNCHANGED reportVars
    BY <1>6 DEF reportVars, ReportInv, ReportTypeOK, ShownAreRemembered, R!ShownAreRemembered, InTransit
<1>7. R!Nobody \in [Users -> SUBSET IPs]
    BY DEF R!Nobody
<1>8. \A u \in Users, ips \in SUBSET IPs : [online EXCEPT ![u] = ips] \in [Users -> SUBSET IPs]
    BY DEF ReportInv, ReportTypeOK
<1> QED
    BY <1>1, <1>2, <1>3, <1>4, <1>5, <1>6, <1>7, <1>8 DEF R!Next, R!reportUserTrafficTask

\* Whoever the panel shows is remembered as reported, unless the removal was
\* lost on a WebSocket.
THEOREM PanelNeverAhead == R!Spec => []ShownAreRemembered
<1>1. ReportInv => ShownAreRemembered
    BY DEF ReportInv
<1> QED
    BY <1>1, ReportInitInv, ReportStepInv, PTL DEF R!Spec, R!vars, reportVars

\* An established device is in every report while it is online.
THEOREM EstablishedAreReported == R!Spec => EstablishedStay
<1>1. ReportInv /\ [R!Next]_reportVars
        => [phase = "idle" /\ phase' = "send" =>
              \A u \in Users \ unheard : panel[u] # {} /\ online[u] # {} =>
                  u \in named' /\ data'[u] = online[u]]_reportVars
    <2> SUFFICES ASSUME ReportInv, R!Next, phase = "idle", phase' = "send",
                        NEW u \in Users \ unheard, panel[u] # {}, online[u] # {}
                 PROVE  u \in named' /\ data'[u] = online[u]
        OBVIOUS
    <2>1. PICK low \in SUBSET Users : R!Collect(low)
        BY DEF R!Next, R!reportUserTrafficTask, R!Acknowledged, R!Failed, R!SentOverWebSocket,
           R!Devices
    <2>2. u \in reported
        BY DEF ReportInv, ShownAreRemembered, R!ShownAreRemembered
    <2> QED
        BY <2>1, <2>2 DEF R!Collect, R!Named, R!nocountUID
<1> QED
    BY <1>1, ReportInitInv, ReportStepInv, PTL
       DEF R!Spec, R!vars, reportVars, EstablishedStay, R!EstablishedStay

-----------------------------------------------------------------------------
(* The WebSocket driver                                                     *)

Sockets == Nat \union {None}
Spots == {"rest", "load", "lock", "write", "nil", "flag", "close", "wait", "returned"}

SocketTypes ==
    /\ cur \in Sockets /\ made \in Nat
    /\ proc \in [W!Procs -> [at : Spots, conn : Sockets]]

\* The loop is between two sessions, or has not begun, or has left.
BetweenSessions == loop \in {"off", "check", "dial", "backoff", "exit"}

\* There is no socket but the session's.  The loop gives it up, then the flag, then
\* closes it, whatever senders and Stop did to it meanwhile.
SocketInv ==
    /\ SocketTypes
    /\ open \subseteq {cur} /\ conn \in {None, cur}
    /\ BetweenSessions => open = {} /\ conn = None /\ ~connected
    /\ loop = "store" => conn = None /\ ~connected
    /\ loop = "end" => /\ proc[Loop].at \in {"nil", "flag", "close"}
                       /\ proc[Loop].conn = cur
                       /\ proc[Loop].at # "nil" => conn = None
                       /\ proc[Loop].at = "close" => ~connected
    /\ proc[Stopper].at = "returned" => loop = "exit"

\* No session yet.
LEMMA SocketInitInv == W!Init => SocketInv
<1> SUFFICES ASSUME W!Init PROVE SocketInv
  OBVIOUS
<1>1. SocketTypes
  <2>1. None \in Sockets
    BY DEF Sockets
  <2>2. W!Rest \in [at : Spots, conn : Sockets]
    BY <2>1 DEF W!Rest, Spots
  <2> QED
    BY <2>1, <2>2 DEF W!Init, SocketTypes
<1>2. Stopper \in W!Procs
  BY DEF W!Procs
<1> QED
  BY <1>1, <1>2 DEF W!Init, W!Rest, SocketInv, BetweenSessions

\* A goroutine that moves takes its socket along and leaves the others where they are.
LEMMA Moves ==
    ASSUME SocketTypes, NEW p \in W!Procs, NEW stage \in Spots, W!At(p, stage)
    PROVE  /\ proc' \in [W!Procs -> [at : Spots, conn : Sockets]]
           /\ proc'[p].at = stage /\ proc'[p].conn = proc[p].conn
           /\ \A q \in W!Procs \ {p} : proc'[q] = proc[q]
BY DEF W!At, SocketTypes

\* So does one that is given a socket, or none.
LEMMA Sets ==
    ASSUME SocketTypes, NEW p \in W!Procs, NEW stage \in Spots, NEW c \in Sockets,
           proc' = [proc EXCEPT ![p] = [at |-> stage, conn |-> c]]
    PROVE  /\ proc' \in [W!Procs -> [at : Spots, conn : Sockets]]
           /\ proc'[p].at = stage /\ proc'[p].conn = c
           /\ \A q \in W!Procs \ {p} : proc'[q] = proc[q]
BY DEF SocketTypes

LEMMA SocketFacts ==
    ASSUME SocketInv
    PROVE  /\ Loop \in W!Procs /\ Stopper \in W!Procs
           /\ None \in Sockets /\ conn \in Sockets /\ cur \in Sockets
           /\ made + 1 \in Sockets /\ made + 1 \in Nat
BY SMTT(60) DEF W!Procs, Sockets, SocketInv, SocketTypes

\* The steps of Send and markDisconnectedLocked, by whichever goroutine.
LEMMA SendersKeep ==
    ASSUME SocketInv, NEW p \in Senders \union {Loop},
           W!Sending(p) \/ W!Marking(p)
    PROVE  SocketInv'
<1> USE SocketConstants, SocketFacts DEF SocketInv, Spots
<1>1. p # Stopper /\ p \in W!Procs
  BY DEF W!Procs
<1>2. CASE W!LoadConn(p)
  <2>1. p = Loop => loop # "end"
    BY <1>2 DEF W!LoadConn
  <2>2. PICK stage \in {"rest", "lock"}, c \in Sockets :
            proc' = [proc EXCEPT ![p] = [at |-> stage, conn |-> c]]
    BY <1>2 DEF W!LoadConn, W!NoConn, W!Rest
  <2>3. stage \in Spots
    BY <2>2
  <2> QED
    BY SMTT(60), <1>1, <1>2, <2>1, <2>2, <2>3, Sets
    DEF W!LoadConn, SocketTypes, BetweenSessions
<1>3. CASE W!LockWrite(p)
  <2>1. W!At(p, "write") /\ "write" \in Spots
    BY <1>3 DEF W!LockWrite
  <2>2. p = Loop => loop # "end"
    BY <1>3 DEF W!LockWrite
  <2> QED
    BY SMTT(60), <1>1, <1>3, <2>1, <2>2, Moves DEF W!LockWrite, SocketTypes, BetweenSessions
<1>4. CASE W!Write(p)
  BY SMTT(60), <1>1, <1>4, Moves, Sets DEF W!Write, W!Rest, SocketTypes, BetweenSessions
<1>5. CASE W!MarkNil(p)
  BY <1>1, <1>5, Moves DEF W!MarkNil, W!Released, SocketTypes, BetweenSessions
<1>6. CASE W!MarkFlag(p)
  BY <1>1, <1>6, Moves DEF W!MarkFlag, SocketTypes, BetweenSessions
<1>7. CASE W!MarkClose(p)
  <2>1. /\ proc' \in [W!Procs -> [at : Spots, conn : Sockets]]
        /\ \A q \in W!Procs \ {p} : proc'[q] = proc[q]
    BY <1>1, <1>7, Sets DEF W!MarkClose, W!Rest
  <2>2. /\ proc[p].at = "close" /\ open' = open \ {proc[p].conn}
        /\ loop' = IF p = Loop /\ loop = "end" THEN "backoff" ELSE loop
        /\ UNCHANGED <<conn, connected, cur, made>>
    BY <1>7 DEF W!MarkClose, W!Closed
  <2>3. SocketTypes' /\ open' \subseteq {cur'} /\ conn' \in {None, cur'}
    BY <2>1, <2>2 DEF SocketTypes
  <2>4. proc'[Stopper].at = "returned" => loop' = "exit"
    BY <1>1, <2>1, <2>2
  <2>5. CASE p = Loop /\ loop = "end"
    <3>1. open' = {} /\ conn' = None /\ ~connected' /\ loop' = "backoff"
      BY <2>2, <2>5
    <3> QED
      BY <2>3, <2>4, <3>1
  <2>6. CASE ~(p = Loop /\ loop = "end")
    <3>1. loop' = loop /\ (loop = "end" => proc'[Loop] = proc[Loop])
      BY <2>1, <2>2, <2>6
    <3>2. open' \subseteq open
      BY <2>2
    <3> QED
      BY <2>2, <2>3, <2>4, <3>1, <3>2 DEF BetweenSessions
  <2> QED
    BY <2>5, <2>6
<1> QED
  BY <1>2, <1>3, <1>4, <1>5, <1>6, <1>7 DEF W!Sending, W!Marking

\* The steps of the loop, of Stop and of the panel.
LEMMA LoopKeeps ==
    ASSUME SocketInv,
           \/ W!Start \/ W!Running \/ W!Cancel \/ W!Stop
           \/ \E p \in Senders : W!Send(p)
           \/ \E c \in W!Conns : W!Drop(c)
    PROVE  SocketInv'
<1> USE SocketConstants, SocketFacts DEF SocketInv, Spots
<1>1. CASE W!Start \/ W!CheckCtx \/ W!DialFails \/ W!Backoff
  BY SMTT(60), <1>1 DEF W!Start, W!CheckCtx, W!DialFails, W!Backoff, W!Steps, SocketTypes,
     BetweenSessions
<1>2. CASE W!Dialled \/ W!StoreConn
  <2>1. CASE W!Dialled
    BY SMTT(60), <2>1 DEF W!Dialled, W!Steps, SocketTypes, BetweenSessions
  <2>2. CASE W!StoreConn
    BY SMTT(60), <2>2 DEF W!StoreConn, W!Steps, SocketTypes, BetweenSessions
  <2> QED
    BY <1>2, <2>1, <2>2
<1>3. CASE W!Pump \/ W!ReadFails
  BY SMTT(60), <1>3, Sets DEF W!Pump, W!ReadFails, W!EndSession, W!Steps, SocketTypes,
     BetweenSessions
<1>4. CASE W!ReadMessage \/ W!HandleAuth
  BY <1>4 DEF W!ReadMessage, W!HandleAuth, W!Steps, SocketTypes, BetweenSessions
<1>5. ASSUME NEW p \in Senders \union {Loop}, W!BeginSend(p), loop' = loop \/ W!HandlePing
      PROVE  SocketInv'
  <2>1. p # Stopper /\ p \in W!Procs /\ (proc' = proc \/ W!At(p, "load"))
    BY <1>5 DEF W!BeginSend, W!At, W!Procs
  <2>2. loop' = loop \/ (loop = "pong" /\ loop' = "pump")
    BY <1>5 DEF W!HandlePing, W!Steps
  <2>3. p = Loop => loop # "end"
    BY SMTT(60), <1>5 DEF W!BeginSend, W!Rest
  <2> QED
    BY SMTT(60), <1>5, <2>1, <2>2, <2>3, Moves DEF W!BeginSend, SocketTypes, BetweenSessions
<1>6. CASE W!Cancel
  BY <1>6, Moves DEF W!Cancel, SocketTypes, BetweenSessions
<1>7. CASE W!TakeConn
  BY SMTT(60), <1>7, Sets DEF W!TakeConn, SocketTypes, BetweenSessions
<1>8. CASE W!MarkFlag(Stopper) \/ W!CloseConn
  <2>1. CASE W!MarkFlag(Stopper)
    BY <2>1, Moves DEF W!MarkFlag, SocketTypes, BetweenSessions
  <2>2. CASE W!CloseConn
    <3>1. /\ proc' \in [W!Procs -> [at : Spots, conn : Sockets]]
          /\ proc'[Stopper].at = "wait" /\ proc'[Loop] = proc[Loop]
      BY <2>2, Moves DEF W!CloseConn
    <3>2. open' \subseteq open /\ UNCHANGED <<conn, connected, loop, cur, made>>
      BY <2>2 DEF W!CloseConn, W!Closed
    <3> QED
      BY <3>1, <3>2 DEF SocketTypes, BetweenSessions
  <2> QED
    BY <1>8, <2>1, <2>2
<1>9. CASE W!StopReturns
  BY <1>9, Moves DEF W!StopReturns, W!LoopReturned, SocketTypes, BetweenSessions
<1>10. ASSUME NEW c \in W!Conns, W!Drop(c)
       PROVE  SocketInv'
  BY <1>10 DEF W!Drop, SocketTypes, BetweenSessions
<1> QED
  BY <1>1, <1>2, <1>3, <1>4, <1>5, <1>6, <1>7, <1>8, <1>9, <1>10
     DEF W!Running, W!Stop, W!Send, W!HandlePing

LEMMA SocketStepInv == SocketInv /\ [W!Next]_socketVars => SocketInv'
<1> SUFFICES ASSUME SocketInv, [W!Next]_socketVars PROVE SocketInv'
  OBVIOUS
<1>1. CASE UNCHANGED socketVars
  BY <1>1 DEF socketVars, SocketInv, SocketTypes, BetweenSessions
<1> QED
  BY <1>1, SendersKeep, LoopKeeps DEF W!Next

\* The driver keeps one session at a time, and once Stop has returned there is no
\* socket and nobody is told of one (ws.go, runLoop and Stop).
THEOREM OneSessionAtATime == W!Spec => []OneSocket
<1>1. SocketInv => OneSocket
  BY DEF SocketInv, BetweenSessions, OneSocket, W!OneSocket
<1> QED
  BY <1>1, SocketInitInv, SocketStepInv, PTL DEF W!Spec, W!vars, socketVars

-----------------------------------------------------------------------------
(* The configuration watcher                                                *)

\* Once the server has stopped its watcher is gone for good and no reload is left.
WatchInv ==
    server = "stopped" =>
        /\ serving = None /\ watching = "exited"
        /\ \A w \in Workers : rl[w].at = "none"

\* Every step keeps it that way: a reload begins only while the watcher runs, and
\* Close waits for the last one.
LEMMA WatchStepInv == WatchInv /\ [C!Next]_(C!vars) => WatchInv'
<1> SUFFICES ASSUME WatchInv, [C!Next]_(C!vars) PROVE WatchInv'
  OBVIOUS
<1>1. CASE UNCHANGED C!vars
  BY <1>1 DEF C!vars, C!watchVars, C!reloadVars, WatchInv
<1>2. CASE C!Operator \/ C!StartWatch \/ C!Watcher \/ C!GotDone
  BY <1>2 DEF C!Operator, C!Write, C!WriteRef, C!StartWatch, C!Watcher, C!GotEvent,
     C!TimerFires, C!GotFinished, C!GotDone, C!watchVars, C!reloadVars, WatchInv
<1>3. ASSUME NEW w \in Workers, C!Reload(w)
      PROVE  WatchInv'
  BY <1>3 DEF C!Reload, C!NotBegun, C!LoadValidated, C!Snapshot, C!TearDown, C!BringUp,
     C!Send, WatchInv
<1>4. CASE C!Shutdown \/ C!Close
  BY SMTT(60), <1>4 DEF C!Shutdown, C!Close, C!ReloadsOver, C!NoReload, C!watchVars,
     C!reloadVars, WatchInv
<1> QED
  BY <1>1, <1>2, <1>3, <1>4 DEF C!Next

\* Once the server has closed its core no reload brings anything up again (watch.go,
\* Watch; server.go, serverHandle).
THEOREM NothingAfterShutdown == C!Spec => []StoppedStaysDown
<1>1. C!Init => WatchInv
  BY DEF C!Init, WatchInv
<1>2. WatchInv => StoppedStaysDown
  BY DEF WatchInv, StoppedStaysDown, C!StoppedStaysDown
<1> QED
  BY <1>1, <1>2, WatchStepInv, PTL DEF C!Spec
=============================================================================
