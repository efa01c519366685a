--------------------------- MODULE NodeStartProofs ---------------------------
(***************************************************************************)
(* A failed start is rolled back completely and a closed process keeps      *)
(* nothing, for any number of nodes, failures, edits and reloads.           *)
(***************************************************************************)
EXTENDS MCNodeStart, TLAPS

\* A leaf is left to Zenon unless it names another prover.
USE ZenonT(60)

Stages == {"new", "node", "users", "limiter", "cert", "add", "populate", "tasks",
           "publish", "ws", "up", "wait", "gone", "rollback"}

StartTypes ==
    /\ main \in {"starting", "running", "wait", "close", "closed", "crashed"}
    /\ turn \in Nat
    /\ at \in [Nodes -> Stages]
    /\ monitor \in [Nodes -> {"idle", "unbound", "rebuilt", "late"}]

\* The stages at which a node may have a part of itself in place: nothing before the
\* limiter, no inbound before AddNode, tasks and a reload only once it has come up.
Begun == {"cert", "add", "populate", "tasks", "publish", "ws", "up", "rollback"}
InCore == {"populate", "tasks", "publish", "ws", "up", "rollback"}
CameUp == {"publish", "ws", "up"}

\* What a node holds at its stage.  A node that is gone holds something only if a
\* reload was under way when it went.
Holds(n) ==
    /\ n \in hooks => at[n] \in Begun
    /\ n \in limiters => at[n] \in Begun \/ (at[n] = "gone" /\ monitor[n] # "idle")
    /\ n \in core => at[n] \in InCore \/ (at[n] = "gone" /\ monitor[n] # "idle")
    /\ n \in tasks => at[n] \in CameUp
    /\ n \in ws => at[n] = "up"
    /\ monitor[n] # "idle" => at[n] \in CameUp \union {"gone"}
    /\ at[n] \in {"ws", "up"} => n \in controllers

\* Node.Start has not reached the nodes after turn; Close goes on when every node is
\* up or gone, and ends when none is up.
Order ==
    /\ \A n \in Nodes : n > turn => at[n] = "new"
    /\ main \in {"close", "closed"} => \A n \in Nodes : at[n] \in {"up", "gone"}
    /\ main = "closed" => controllers = {}

Inside == limiters \union hooks \union core \union tasks \union ws \subseteq Nodes

\* The inductive invariant.
StartInv == StartTypes /\ Inside /\ Order /\ \A n \in Nodes : Holds(n)

-----------------------------------------------------------------------------
\* A process that has just begun holds nothing.
LEMMA StartInvInit == Init => StartInv
BY SMTT(60), StartConstants DEF Init, StartInv, StartTypes, Inside, Order, Holds, Nodes, Stages

\* The end of an attempt moves on its own node, and the next one if Node.Start waits
\* for it.
LEMMA EndMoves ==
    ASSUME StartInv, NEW n \in Nodes, NEW stage \in {"wait", "up"},
           at[n] \in {"rollback", "ws"}, End(n, stage)
    PROVE  /\ at' \in [Nodes -> Stages] /\ turn' \in Nat
           /\ at'[n] = stage
           /\ \A m \in Nodes \ {n} : at'[m] = at[m] \/ (at[m] = "new" /\ at'[m] = "node")
           /\ \A m \in Nodes : m > turn' => at'[m] = "new"
           /\ main' \in {main, "running"} /\ main \notin {"close", "closed"}
<1>1. n <= turn /\ n \in Nat /\ turn \in Nat /\ NodeCount \in Nat
      /\ main \notin {"close", "closed"}
  BY SMTT(60), StartConstants DEF StartInv, StartTypes, Order, Nodes
<1>2. CASE n # turn
  BY <1>1, <1>2 DEF End, Go, StartInv, StartTypes, Order, Stages, Nodes
<1>3. CASE n = turn
  BY SMTT(60), <1>1, <1>3 DEF End, StartInv, StartTypes, Order, Stages, Nodes
<1> QED
  BY <1>2, <1>3

\* Every step of an attempt keeps what its node holds in step with its stage.
LEMMA AttemptKeeps ==
    ASSUME StartInv, NEW n \in Nodes, Attempt(n)
    PROVE  StartInv'
<1> USE DEF StartInv
<1>1. n \in Nat /\ monitor' = monitor /\ main # "crashed"
  BY SMTT(60), StartConstants DEF Attempt, quiet, Nodes
<1>2. CASE Fetch(n, "node", "users") \/ Fetch(n, "users", "limiter")
  BY SMTT(60), <1>1, <1>2 DEF Fetch, Go, Fault, resources, StartTypes, Inside, Order, Holds, Stages,
     Begun, InCore, CameUp
<1>3. CASE AddLimiter(n)
  <2>1. at[n] = "limiter" /\ turn' = turn /\ core' = core /\ tasks' = tasks /\ ws' = ws
        /\ controllers' = controllers
        /\ \/ at' = at /\ main' = "crashed" /\ limiters' = limiters /\ hooks' = hooks
           \/ Go(n, "rollback") /\ main' = main /\ limiters' = limiters /\ hooks' = hooks
           \/ /\ Go(n, "cert") /\ main' = main
              /\ limiters' = limiters \union {n} /\ hooks' = hooks \union {n}
    BY <1>3 DEF AddLimiter
  <2> QED
    BY SMTT(60), <1>1, <2>1 DEF Go, StartTypes, Inside, Order, Holds, Stages, Begun, InCore, CameUp
<1>4. CASE RequestCert(n) \/ AddUsers(n)
  BY SMTT(60), <1>1, <1>4 DEF RequestCert, AddUsers, Go, Fault, resources, StartTypes, Inside,
     Order, Holds, Stages, Begun, InCore, CameUp
<1>5. CASE AddNode(n)
  BY SMTT(60), <1>1, <1>5 DEF AddNode, Go, Fault, StartTypes, Inside, Order, Holds, Stages,
     Begun, InCore, CameUp
<1>6. CASE startTasks(n)
  BY SMTT(60), <1>1, <1>6 DEF startTasks, Go, StartTypes, Inside, Order, Holds, Stages,
     Begun, InCore, CameUp
<1>7. CASE Rollback(n)
  <2>1. End(n, "wait") /\ at[n] = "rollback"
    BY <1>7 DEF Rollback
  <2> QED
    BY SMTT(60), <1>1, <1>7, <2>1, EndMoves DEF Rollback, CloseController, StartTypes, Inside,
       Order, Holds, Begun, InCore, CameUp
<1>8. CASE Publish(n)
  BY SMTT(60), <1>1, <1>8 DEF Publish, CloseController, Go, resources, StartTypes, Inside, Order,
     Holds, Stages, Begun, InCore, CameUp
<1>9. CASE StartWebSocket(n)
  <2>1. End(n, "up") /\ at[n] = "ws"
    BY <1>9 DEF StartWebSocket
  <2> QED
    BY SMTT(60), <1>1, <1>9, <2>1, EndMoves DEF StartWebSocket, resources, StartTypes, Inside,
       Order, Holds, Begun, InCore, CameUp
<1>10. CASE Retry(n) \/ GiveUp(n)
  BY SMTT(60), <1>1, <1>10 DEF Retry, GiveUp, Go, resources, StartTypes, Inside, Order, Holds,
     Stages, Begun, InCore, CameUp
<1> QED
  BY <1>2, <1>3, <1>4, <1>5, <1>6, <1>7, <1>8, <1>9, <1>10 DEF Attempt

\* So do Close and a reload, which may run past each other.
LEMMA OthersKeep ==
    ASSUME StartInv,
           \/ Cancel /\ UNCHANGED quiet
           \/ Closing
           \/ \E n \in Nodes : Monitor(n)
           \/ \E n \in Nodes, r \in Resources : Edit(n, r) /\ UNCHANGED quiet
    PROVE  StartInv'
<1> USE DEF StartInv
<1>1. CASE Cancel /\ UNCHANGED quiet
  BY <1>1 DEF Cancel, quiet, resources, StartTypes, Inside, Order, Holds
<1>2. CASE (WaitForRetries \/ CloseDone) /\ UNCHANGED quiet
  BY <1>2 DEF WaitForRetries, CloseDone, RetriesDone, quiet, resources, StartTypes, Inside,
     Order, Holds
<1>3. ASSUME NEW n \in Nodes, CloseOne(n), UNCHANGED quiet
      PROVE  StartInv'
  BY SMTT(60), <1>3 DEF CloseOne, CloseController, Go, quiet, StartTypes, Inside, Order, Holds,
     Stages, Begun, InCore, CameUp
<1>4. ASSUME NEW n \in Nodes, Monitor(n)
      PROVE  StartInv'
  BY SMTT(60), <1>4 DEF Monitor, MonitorUnbind, MonitorRebuild, MonitorBind, MonitorSet, StartTypes,
     Inside, Order, Holds, Begun, InCore, CameUp
<1>5. ASSUME NEW n \in Nodes, NEW r \in Resources, Edit(n, r), UNCHANGED quiet
      PROVE  StartInv'
  BY <1>5 DEF Edit, quiet, resources, StartTypes, Inside, Order, Holds
<1> QED
  BY <1>1, <1>2, <1>3, <1>4, <1>5 DEF Closing

LEMMA StartInvNext == StartInv /\ [Next]_vars => StartInv'
<1> SUFFICES ASSUME StartInv, [Next]_vars PROVE StartInv'
  OBVIOUS
<1>1. CASE UNCHANGED vars
  BY <1>1 DEF vars, StartInv, StartTypes, Inside, Order, Holds
<1> QED
  BY <1>1, AttemptKeeps, OthersKeep DEF Next

\* While a node waits for its retry nothing of it is left (node.go, startController).
THEOREM FailedStartsRolledBack == Spec => []RolledBack
<1>1. StartInv => RolledBack
  BY DEF StartInv, Holds, RolledBack, Begun, InCore, CameUp
<1> QED
  BY <1>1, StartInvInit, StartInvNext, PTL DEF Spec

\* Close leaves nothing behind, but for a node whose reload it did not wait for
\* (node.go, Close; task.go).
THEOREM CloseLeavesNothing == Spec => []ClosedForGood
<1>1. StartInv => ClosedForGood
  <2> SUFFICES ASSUME StartInv, main = "closed"
               PROVE  /\ hooks = {} /\ tasks = {} /\ ws = {}
                      /\ \A n \in Nodes : monitor[n] = "idle" => n \notin limiters \union core
    BY DEF ClosedForGood
  <2>1. \A n \in Nodes : at[n] = "gone"
    BY DEF StartInv, Order, Holds
  <2> QED
    BY <2>1 DEF StartInv, Inside, Holds, Begun, InCore, CameUp
<1> QED
  BY <1>1, StartInvInit, StartInvNext, PTL DEF Spec

-----------------------------------------------------------------------------
(* The scheduled restart, for every table of local times, schedule and        *)
(* sequence of suspensions and reloads.                                       *)

\* The plan of a schedule: a minute computed for some earliest tick, one that is over
\* or will be by the time the uptime is.
Planned ==
    \E e \in Nat : /\ next \in S!NextRestartTimes(e, options)
                   /\ e <= wall \/ e + mono <= wall + eligible

\* Once a restart may come, it has become so in this very tick, and due has yet to look,
\* or the planned minute lies in the first window since and has not been looked at.
Awaited ==
    \/ ~checked /\ from = wall
    \/ /\ next \in S!NextRestartTimes(from, options)
       /\ wall <= next /\ (checked => wall < next)

SuperTypes ==
    /\ wall \in Nat /\ mono \in Nat /\ since \in Nat /\ eligible \in Nat
    /\ from \in Nat /\ options \in Schedules

\* The inductive invariant.
SuperInv ==
    /\ SuperTypes
    /\ reason = "none" =>
          /\ IF options.enabled THEN eligible = since + S!Interval(options) /\ Planned
             ELSE next = S!Never
          /\ from # S!Never =>
                /\ S!Ready(mono) /\ S!NextRestartTimes(from, options) # {}
                /\ Awaited

LEMMA IntervalType == \A o \in Schedules : S!Interval(o) \in Nat
BY SMTT(60), SuperConstants DEF S!Interval

\* Never is no tick.
LEMMA NeverIsNoTick == S!Never \in Nat /\ S!Never \notin S!Ticks /\ S!Ticks \subseteq Nat
<1>1. S!Never \in Nat
  BY SMTT(60), SuperConstants DEF S!Never
<1> QED
  BY SMTT(60), <1>1 DEF S!Ticks

\* A planned minute is a tick, not before the earliest, and in the window.
LEMMA PlannedMinute ==
    ASSUME NEW e \in Nat, NEW o, NEW t \in S!NextRestartTimes(e, o)
    PROVE  t \in Nat /\ t # S!Never /\ t >= e /\ S!InRestartWindow(t, o)
BY NeverIsNoTick DEF S!NextRestartTimes

\* A minute of the first window after e is in the first window after any later tick
\* it does not come before.
LEMMA StillFirst ==
    ASSUME NEW e \in Nat, NEW f \in Nat, NEW o, NEW t \in S!NextRestartTimes(e, o),
           e <= f, f <= t
    PROVE  t \in S!NextRestartTimes(f, o)
BY SMTT(60), NeverIsNoTick DEF S!NextRestartTimes

LEMMA SuperInvInit == S!SuperInit => SuperInv
<1> SUFFICES ASSUME S!SuperInit PROVE SuperInv
  OBVIOUS
<1>1. SuperTypes /\ S!Interval(options) \in Nat
  BY IntervalType, NeverIsNoTick DEF S!SuperInit, SuperTypes
<1>2. options.enabled => Planned
  BY SMTT(60), <1>1 DEF S!SuperInit, SuperTypes, Planned
<1> QED
  BY SMTT(60), <1>1, <1>2 DEF S!SuperInit, SuperInv

LEMMA SuperInvNext == SuperInv /\ [S!SuperNext]_superVars => SuperInv'
<1> SUFFICES ASSUME SuperInv, [S!SuperNext]_superVars PROVE SuperInv'
  OBVIOUS
<1> USE IntervalType, NeverIsNoTick DEF SuperInv, SuperTypes
<1>1. CASE UNCHANGED superVars
  BY <1>1 DEF superVars, Planned, Awaited, S!Ready
<1>2. CASE S!Tick
  <2>1. SuperTypes' /\ wall' = wall + 1 /\ mono' = mono + 1 /\ reason = "none"
    BY SMTT(60), <1>2 DEF S!Tick, S!Foreseen, S!planVars
  <2>2. options.enabled => Planned'
    BY SMTT(60), <1>2, <2>1 DEF S!Tick, S!planVars, Planned
  <2>3. from' # S!Never => S!Ready(mono)' /\ S!NextRestartTimes(from', options) # {} /\ Awaited'
    BY SMTT(60), <1>2, <2>1, PlannedMinute DEF S!Tick, S!planVars, S!Foreseen, S!Ready, Awaited
  <2> QED
    BY <1>2, <2>1, <2>2, <2>3 DEF S!Tick, S!planVars
<1>3. ASSUME NEW t \in S!Ticks, S!Suspend(t)
      PROVE  SuperInv'
  <2>1. SuperTypes' /\ wall' = t /\ t \in Nat /\ t > wall /\ reason = "none"
    BY <1>3 DEF S!Suspend, S!planVars
  <2>2. options.enabled => Planned'
    BY SMTT(60), <1>3, <2>1 DEF S!Suspend, S!planVars, Planned
  <2>3. from' # S!Never => S!Ready(mono)' /\ S!NextRestartTimes(from', options) # {} /\ Awaited'
    BY <1>3, <2>1 DEF S!Suspend, S!planVars, S!Foreseen, S!Ready, Awaited
  <2> QED
    BY <1>3, <2>1, <2>2, <2>3 DEF S!Suspend, S!planVars
<1>4. ASSUME NEW o \in Schedules, NEW percent \in BOOLEAN, S!Reload(o, percent)
      PROVE  SuperInv'
  <2>1. CASE o = options
    BY <1>4, <2>1 DEF S!Reload, S!Configure, S!planVars, Planned, Awaited, S!Ready
  <2>2. CASE o # options
    <3>1. S!Plan(o) /\ since' = mono /\ from' = S!Never /\ wall' = wall /\ mono' = mono
          /\ reason' = "none"
      BY <1>4, <2>2 DEF S!Reload, S!Configure
    <3>2. o.enabled => Planned'
      BY SMTT(60), <3>1 DEF S!Plan, Planned
    <3> QED
      BY SMTT(60), <3>1, <3>2 DEF S!Plan
  <2> QED
    BY <2>1, <2>2
<1>5. CASE S!Signal
  BY <1>5 DEF S!Signal, S!planVars
<1>6. ASSUME NEW pressure \in BOOLEAN, S!Check(pressure)
      PROVE  SuperInv'
  <2>1. CASE S!MemoryRestart(pressure)
    BY <1>6, <2>1 DEF S!Check, S!MemoryRestart, S!planVars
  <2>2. CASE S!NotYet /\ UNCHANGED <<S!planVars, reason>>
    <3>1. Planned => Planned'
      BY <1>6, <2>2 DEF S!Check, S!planVars, Planned
    <3>2. from # S!Never => wall < next
      <4> SUFFICES ASSUME from # S!Never PROVE wall < next
        OBVIOUS
      <4>1. Planned /\ mono >= eligible
        BY <1>6 DEF S!Check, S!Ready
      <4>2. next # S!Never
        BY <4>1, PlannedMinute DEF Planned
      <4> QED
        BY SMTT(60), <2>2, <4>1, <4>2 DEF S!NotYet
    <3>3. from # S!Never => Awaited'
      <4> SUFFICES ASSUME from # S!Never PROVE Awaited'
        OBVIOUS
      <4>1. next \in S!NextRestartTimes(from, options)
        <5>1. CASE from = wall
          <6>1. PICK e \in Nat : /\ next \in S!NextRestartTimes(e, options)
                                 /\ e <= wall \/ e + mono <= wall + eligible
            BY <1>6 DEF S!Check, Planned, S!Ready
          <6>2. e <= wall
            BY SMTT(60), <1>6, <6>1 DEF S!Check, S!Ready
          <6> QED
            BY SMTT(60), <3>2, <5>1, <6>1, <6>2, StillFirst, PlannedMinute
        <5> QED
          BY <1>6, <5>1 DEF S!Check, Awaited
      <4> QED
        BY <1>6, <2>2, <3>2, <4>1, PlannedMinute DEF S!Check, S!planVars, Awaited
    <3> QED
      BY <1>6, <2>2, <3>1, <3>3 DEF S!Check, S!planVars, S!Ready
  <2>3. CASE reason' = "schedule" /\ UNCHANGED <<options, eligible>>
    BY <1>6, <2>3 DEF S!Check
  <2>4. CASE /\ ~S!NotYet /\ ~S!Timely(options)
             /\ next' \in S!NextRestartTimes(wall, options)
             /\ UNCHANGED <<options, eligible, reason>>
    <3>1. wall < next'
      BY SMTT(60), <2>4, PlannedMinute DEF S!Timely
    <3>2. Planned'
      BY SMTT(60), <1>6, <2>4 DEF S!Check, Planned
    <3>3. from # S!Never => Awaited'
      BY SMTT(60), <1>6, <2>4, <3>1, PlannedMinute DEF S!Check, Awaited, S!NotYet, S!Timely
    <3>4. options.enabled
      BY <1>6, <2>4 DEF S!Check, S!NotYet
    <3> QED
      BY <1>6, <2>4, <3>2, <3>3, <3>4 DEF S!Check, S!Ready
  <2> QED
    BY <1>6, <2>1, <2>2, <2>3, <2>4 DEF S!Check, S!Due
<1> QED
  BY <1>1, <1>2, <1>3, <1>4, <1>5, <1>6 DEF S!SuperNext

\* The first window after the uptime is not missed, whatever is reloaded and however
\* often (scheduled_restart.go, configure and due).
THEOREM ScheduleNotMissed == S!SuperSpec => []RestartOnTime
<1>1. SuperInv => RestartOnTime
  BY PlannedMinute DEF SuperInv, SuperTypes, Awaited, RestartOnTime, S!RestartOnTime
<1> QED
  BY <1>1, SuperInvInit, SuperInvNext, PTL DEF S!SuperSpec, superVars, S!superVars

\* The schedule restarts the process in its window and after its uptime
\* (scheduled_restart.go, due).
THEOREM ScheduleInWindow == S!SuperSpec => RestartInWindow
<1>1. SuperInv /\ [S!SuperNext]_superVars
        => [(reason' = "schedule" /\ reason = "none")
             => S!InRestartWindow(wall, options)
                /\ mono - since >= S!Interval(options)]_superVars
  <2> SUFFICES ASSUME SuperInv, S!SuperNext, reason' = "schedule", reason = "none"
               PROVE  S!InRestartWindow(wall, options)
                      /\ mono - since >= S!Interval(options)
    BY DEF superVars
  <2>1. ~S!NotYet /\ S!Timely(options)
    BY DEF S!SuperNext, S!Tick, S!Signal, S!Suspend, S!Reload, S!Check, S!MemoryRestart, S!Due
  <2> QED
    BY SMTT(60), <2>1, IntervalType DEF S!NotYet, S!Timely, SuperInv, SuperTypes
<1> QED
  BY <1>1, SuperInvInit, SuperInvNext, PTL
     DEF S!SuperSpec, superVars, S!superVars, RestartInWindow, S!RestartInWindow
=============================================================================
