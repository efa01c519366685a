----------------------------- MODULE NodeStart -----------------------------
(***************************************************************************)
(* Bringing nodes up and down (node/node.go, node/controller.go): Start     *)
(* tries every node once, in order; a node that fails is retried by a       *)
(* goroutine of its own; Close cancels the retries, waits for them and      *)
(* closes the controllers.  The panel client outlives an attempt, so an     *)
(* attempt sees nil for whatever an earlier one was already given.          *)
(***************************************************************************)
EXTENDS Integers, FiniteSets

CONSTANTS
    NodeCount,  \* the configured nodes, in order
    Faults,     \* the stages that may fail
    MaxFaults,  \* how many failures there are
    MaxEdits,   \* bound on the panel's edits
    MaxReloads  \* bound on the reloads by running monitors

Nodes == 1..NodeCount
Resources == {"node", "users"}

ASSUME StartConstants ==
    /\ NodeCount \in Nat /\ MaxFaults \in Nat /\ MaxEdits \in Nat
    /\ MaxReloads \in Nat
    /\ Faults \subseteq {"node", "users", "cert", "add", "populate"}

VARIABLES
    main,         \* "starting", "running", the stages of Node.Close, "closed";
                  \* "crashed" after a panic
    turn,         \* the node Node.Start is at
    at,           \* where the start of each node is
    known,        \* what the node's client would be answered 304 for
    got,          \* what the attempt under way was given
    limiters,     \* nodes with a registered limiter
    hooks,        \* nodes whose client has the alive and kick hooks set
    core,         \* nodes with an inbound in the core
    tasks,        \* nodes whose periodic tasks run
    controllers,  \* n.controllers
    ws,           \* nodes whose WebSocket driver runs
    cancelled,    \* the context of the retries
    monitor,      \* where the monitor task of each node is in a reload; "late"
                  \* when one ended after its controller was closed
    faults, edits, reloads

resources == <<limiters, hooks, core, tasks>>
vars == <<main, turn, at, known, got, limiters, hooks, core, tasks, controllers, ws,
          cancelled, faults, edits, monitor, reloads>>
quiet == <<monitor, reloads>>

Init ==
    /\ main = "starting" /\ turn = 1
    /\ at = [n \in Nodes |-> IF n = 1 THEN "node" ELSE "new"]
    /\ known = [n \in Nodes |-> {}] /\ got = [n \in Nodes |-> {}]
    /\ limiters = {} /\ hooks = {} /\ core = {} /\ tasks = {}
    /\ controllers = {} /\ ws = {}
    /\ cancelled = FALSE /\ faults = 0 /\ edits = 0
    /\ monitor = [n \in Nodes |-> "idle"] /\ reloads = 0

Fault(stage) == stage \in Faults /\ faults < MaxFaults /\ faults' = faults + 1

\* The next stage of a node's attempt, or its rollback.
Go(n, stage) == at' = [at EXCEPT ![n] = stage]

\* An attempt ends: the first attempts are made one after the other by
\* Node.Start, which goes on to the next node.
End(n, stage) ==
    IF n # turn THEN Go(n, stage) /\ UNCHANGED <<main, turn>>
    ELSE /\ at' = [m \in Nodes |-> IF m = n THEN stage
                   ELSE IF m = n + 1 THEN "node" ELSE at[m]]
         /\ turn' = n + 1
         /\ main' = IF n = NodeCount THEN "running" ELSE main

-----------------------------------------------------------------------------
(* Controller.Start                                                         *)

\* GetNodeInfo and GetUserList: nothing when the panel has nothing new for
\* this client.
Fetch(n, r, stage) ==
    /\ at[n] = r
    /\ \/ /\ got' = [got EXCEPT ![n] = IF r \in known[n] THEN @ ELSE @ \union {r}]
          /\ known' = [known EXCEPT ![n] = @ \union {r}]
          /\ Go(n, stage) /\ UNCHANGED faults
       \/ Fault(r) /\ Go(n, "rollback") /\ UNCHANGED <<got, known>>
    /\ UNCHANGED <<main, turn, resources, controllers, ws, cancelled, edits>>

\* No user list is no user: the attempt fails.  A list without a node is a
\* nil pointer.
AddLimiter(n) ==
    /\ at[n] = "limiter"
    /\ IF "users" \notin got[n]
       THEN Go(n, "rollback") /\ UNCHANGED <<main, limiters, hooks>>
       ELSE IF "node" \notin got[n]
       THEN main' = "crashed" /\ UNCHANGED <<at, limiters, hooks>>
       ELSE /\ limiters' = limiters \union {n} /\ hooks' = hooks \union {n}
            /\ Go(n, "cert") /\ UNCHANGED main
    /\ UNCHANGED <<turn, known, got, core, tasks, controllers, ws, cancelled,
                   faults, edits>>

RequestCert(n) ==
    /\ at[n] = "cert"
    /\ \/ Go(n, "add") /\ UNCHANGED faults
       \/ Fault("cert") /\ Go(n, "rollback")
    /\ UNCHANGED <<main, turn, known, got, resources, controllers, ws, cancelled, edits>>

AddNode(n) ==
    /\ at[n] = "add"
    /\ \/ core' = core \union {n} /\ Go(n, "populate") /\ UNCHANGED faults
       \/ Fault("add") /\ Go(n, "rollback") /\ UNCHANGED core
    /\ UNCHANGED <<main, turn, known, got, limiters, hooks, tasks, controllers, ws,
                   cancelled, edits>>

AddUsers(n) ==
    /\ at[n] = "populate"
    /\ \/ Go(n, "tasks") /\ UNCHANGED faults
       \/ Fault("populate") /\ Go(n, "rollback")
    /\ UNCHANGED <<main, turn, known, got, resources, controllers, ws, cancelled, edits>>

startTasks(n) ==
    /\ at[n] = "tasks"
    /\ tasks' = tasks \union {n} /\ Go(n, "publish")
    /\ UNCHANGED <<main, turn, known, got, limiters, hooks, core, controllers, ws,
                   cancelled, faults, edits>>

\* Mutant: the inbound is left in the core.
CloseControllerKeepsInbound(n) ==
    /\ limiters' = limiters \ {n} /\ hooks' = hooks \ {n}
    /\ tasks' = tasks \ {n} /\ UNCHANGED core

\* Controller.Close: hooks, limiter, tasks and inbound go.
CloseController(n) ==
    /\ limiters' = limiters \ {n} /\ hooks' = hooks \ {n}
    /\ tasks' = tasks \ {n} /\ core' = core \ {n}

-----------------------------------------------------------------------------
(* Node.startController                                                     *)

\* The rollback of a failed attempt; the first failure starts the retries.
Rollback(n) ==
    /\ at[n] = "rollback"
    /\ CloseController(n)
    /\ got' = [got EXCEPT ![n] = {}]
    /\ End(n, "wait")
    /\ UNCHANGED <<known, controllers, ws, cancelled, faults, edits>>

\* The node came up while Close was waiting.
CameTooLate(n) == cancelled

Publish(n) ==
    /\ at[n] = "publish"
    /\ IF CameTooLate(n)
       THEN CloseController(n) /\ Go(n, "gone") /\ UNCHANGED controllers
       ELSE /\ controllers' = controllers \union {n} /\ Go(n, "ws")
            /\ UNCHANGED resources
    /\ UNCHANGED <<main, turn, known, got, ws, cancelled, faults, edits>>

StartWebSocket(n) ==
    /\ at[n] = "ws"
    /\ ws' = ws \union {n}
    /\ End(n, "up")
    /\ UNCHANGED <<known, got, resources, controllers, cancelled, faults, edits>>

\* Mutant: the retries go on whatever the context says.
TimerIgnoresContext(n) == TRUE

\* The context is looked at after the timer.
MayRetry(n) == ~cancelled

\* retryUntilStarted: the delay is over.
Retry(n) ==
    /\ at[n] = "wait" /\ MayRetry(n)
    /\ Go(n, "node")
    /\ UNCHANGED <<main, turn, known, got, resources, controllers, ws, cancelled, faults,
                   edits>>

GiveUp(n) ==
    /\ at[n] = "wait" /\ cancelled
    /\ Go(n, "gone")
    /\ UNCHANGED <<main, turn, known, got, resources, controllers, ws, cancelled, faults,
                   edits>>

-----------------------------------------------------------------------------
(* Node.Close                                                               *)

Cancel ==
    /\ main = "running"
    /\ cancelled' = TRUE /\ main' = "wait"
    /\ UNCHANGED <<turn, at, known, got, resources, controllers, ws, faults, edits>>

\* Mutant: Close does not wait for the retries.
NoRetriesAwaited == TRUE

RetriesDone == \A n \in Nodes : at[n] \in {"up", "gone"}

WaitForRetries ==
    /\ main = "wait" /\ RetriesDone
    /\ main' = "close"
    /\ UNCHANGED <<turn, at, known, got, resources, controllers, ws, cancelled, faults,
                   edits>>

CloseOne(n) ==
    /\ main = "close" /\ n \in controllers
    /\ controllers' = controllers \ {n}
    /\ ws' = ws \ {n}
    /\ CloseController(n)
    /\ Go(n, "gone")
    /\ UNCHANGED <<main, turn, known, got, cancelled, faults, edits>>

CloseDone ==
    /\ main = "close" /\ controllers = {}
    /\ main' = "closed"
    /\ UNCHANGED <<turn, at, known, got, resources, controllers, ws, cancelled, faults,
                   edits>>

-----------------------------------------------------------------------------
(* A reload by the monitor of a running node (node/task.go): the task stops  *)
(* being scheduled when it is closed, but a run under way goes on.           *)

MonitorSet(n, stage) == monitor' = [monitor EXCEPT ![n] = stage]

MonitorUnbind(n) ==
    /\ n \in tasks /\ monitor[n] = "idle" /\ reloads < MaxReloads
    /\ core' = core \ {n} /\ MonitorSet(n, "unbound") /\ reloads' = reloads + 1
    /\ UNCHANGED <<main, turn, at, known, got, limiters, hooks, tasks, controllers,
                   ws, cancelled, faults, edits>>

MonitorRebuild(n) ==
    /\ monitor[n] = "unbound"
    /\ limiters' = limiters \union {n} /\ MonitorSet(n, "rebuilt")
    /\ UNCHANGED <<main, turn, at, known, got, hooks, core, tasks, controllers, ws,
                   cancelled, faults, edits, reloads>>

MonitorBind(n) ==
    /\ monitor[n] = "rebuilt"
    /\ core' = core \union {n}
    /\ MonitorSet(n, IF n \in tasks THEN "idle" ELSE "late")
    /\ UNCHANGED <<main, turn, at, known, got, limiters, hooks, tasks, controllers,
                   ws, cancelled, faults, edits, reloads>>

Monitor(n) == /\ main # "crashed"
              /\ MonitorUnbind(n) \/ MonitorRebuild(n) \/ MonitorBind(n)

-----------------------------------------------------------------------------
\* The panel's copy changes, external.
Edit(n, r) ==
    /\ main # "closed" /\ edits < MaxEdits
    /\ r \in known[n]
    /\ known' = [known EXCEPT ![n] = @ \ {r}] /\ edits' = edits + 1
    /\ UNCHANGED <<main, turn, at, got, resources, controllers, ws, cancelled, faults>>

\* A crash ends everything.
Attempt(n) ==
    /\ main # "crashed"
    /\ \/ Fetch(n, "node", "users") \/ Fetch(n, "users", "limiter")
       \/ AddLimiter(n) \/ RequestCert(n) \/ AddNode(n) \/ AddUsers(n)
       \/ startTasks(n) \/ Rollback(n) \/ Publish(n) \/ StartWebSocket(n)
       \/ Retry(n) \/ GiveUp(n)
    /\ UNCHANGED quiet

Closing == /\ WaitForRetries \/ (\E n \in Nodes : CloseOne(n)) \/ CloseDone
           /\ UNCHANGED quiet

Next == \/ \E n \in Nodes : Attempt(n)
        \/ \E n \in Nodes : Monitor(n)
        \/ Cancel /\ UNCHANGED quiet
        \/ Closing
        \/ \E n \in Nodes, r \in Resources :
              main # "crashed" /\ Edit(n, r) /\ UNCHANGED quiet

Spec == Init /\ [][Next]_vars

\* An attempt goes on and the retry timer fires.
FairSpec == /\ Spec
            /\ \A n \in Nodes : WF_vars(Attempt(n))
            /\ WF_vars(Closing)

-----------------------------------------------------------------------------
(* Properties                                                               *)

\* A failed attempt is rolled back so that the next starts clean (node.go,
\* startController): while a node waits for its retry nothing of it is left.
RolledBack ==
    \A n \in Nodes : at[n] \in {"new", "node", "wait"} =>
        n \notin limiters \union hooks \union core \union tasks \union ws

\* Close leaves nothing behind (node.go, Close: a retry cannot add a node to
\* the core that is about to be closed), now or later.  The one exception is a
\* node that was in the middle of a reload, for which Close does not wait: its
\* limiter and its inbound may come back.
ClosedForGood ==
    main = "closed" =>
        /\ hooks = {} /\ tasks = {} /\ ws = {}
        /\ \A n \in Nodes : monitor[n] = "idle" => n \notin limiters \union core

\* Close waits only for what ends: the retries under way come to an end and
\* start no further ones (node.go, Close).
CloseEnds == main = "wait" ~> main \in {"closed", "crashed"}

\* A node that fails to start is retried in the background instead of failing
\* the whole process (node.go, Start).
NoCrash == main # "crashed"

\* The controller's lifecycle calls run serialised (controller.go,
\* artXPressureCancel): a controller is not closed in the middle of a reload.
LifecycleSerialised ==
    [][\A n \in Nodes : n \in controllers /\ n \notin controllers' =>
          monitor[n] = "idle"]_vars

\* Unless it is closed, every node comes up once the failures end (node.go,
\* Start: retried in the background).
AllComeUp ==
    <>(cancelled \/ main = "crashed" \/ \A n \in Nodes : at[n] = "up")
=============================================================================
