------------------------------ MODULE WSDriver ------------------------------
(***************************************************************************)
(* The panel WebSocket driver (api/panel/ws.go) as the client starts and    *)
(* stops it (panel.go): the reconnect loop, the goroutines that send, and   *)
(* the goroutine that stops it.  The panel may drop a session, refuse a     *)
(* dial or stay silent; a backoff or a write takes any time.                *)
(***************************************************************************)
EXTENDS Integers

CONSTANTS
    None,
    Senders,    \* goroutines that send reports
    Loop,       \* the goroutine of runLoop, which also answers pings
    Stopper,    \* the goroutine that calls Stop
    MaxConns    \* bound on the sockets dialled

Conns == 1..MaxConns
Procs == Senders \union {Loop, Stopper}

VARIABLES
    cancelled,  \* d.ctx is cancelled
    conn,       \* d.conn
    connected,  \* d.connected
    writer,     \* the holder of writeMu
    loop,       \* where runLoop and runSession are
    cur,        \* the session's socket
    proc,       \* where Send, markDisconnectedLocked or Stop is
    made,       \* sockets dialled
    open,       \* sockets not closed by this process
    alive,      \* sockets the panel has not dropped
    authed      \* sockets the panel has authenticated

vars == <<cancelled, conn, connected, writer, loop, cur, proc, made, open, alive, authed>>

Rest == [at |-> "rest", conn |-> None]

Init ==
    /\ cancelled = FALSE
    /\ conn = None /\ connected = FALSE
    /\ writer = None
    /\ loop = "off" /\ cur = None
    /\ proc = [p \in Procs |-> Rest]
    /\ made = 0 /\ open = {} /\ alive = {} /\ authed = {}

At(p, at) == proc' = [proc EXCEPT ![p].at = at]

-----------------------------------------------------------------------------
(* Send                                                                     *)

BeginSend(p) ==
    /\ proc[p] = Rest
    /\ proc' = IF connected THEN [proc EXCEPT ![p].at = "load"] ELSE proc
    /\ UNCHANGED <<cancelled, conn, connected, writer, cur, made, open, alive, authed>>

NoConn == conn = None

LoadConn(p) ==
    /\ proc[p].at = "load"
    /\ proc' = [proc EXCEPT ![p] = IF NoConn THEN Rest
                                   ELSE [at |-> "lock", conn |-> conn]]
    /\ UNCHANGED <<cancelled, conn, connected, writer, loop, cur, made, open, alive, authed>>

LockWrite(p) ==
    /\ proc[p].at = "lock" /\ writer = None
    /\ writer' = p
    /\ At(p, "write")
    /\ UNCHANGED <<cancelled, conn, connected, loop, cur, made, open, alive, authed>>

\* The write ends.  It can fail on any socket, and does on a dead or closed
\* one.
Write(p) ==
    /\ proc[p].at = "write"
    /\ \/ /\ proc[p].conn \in open \intersect alive
          /\ proc' = [proc EXCEPT ![p] = Rest]
          /\ writer' = None
       \/ At(p, "nil") /\ UNCHANGED writer
    /\ UNCHANGED <<cancelled, conn, connected, loop, cur, made, open, alive, authed>>

-----------------------------------------------------------------------------
(* markDisconnectedLocked, called by Send and at the end of a session       *)

Released(c) == IF conn = c THEN None ELSE conn

MarkNil(p) ==
    /\ proc[p].at = "nil"
    /\ conn' = Released(proc[p].conn)
    /\ At(p, "flag")
    /\ UNCHANGED <<cancelled, connected, writer, loop, cur, made, open, alive, authed>>

MarkFlag(p) ==
    /\ proc[p].at = "flag"
    /\ connected' = FALSE
    /\ At(p, "close")
    /\ UNCHANGED <<cancelled, conn, writer, loop, cur, made, open, alive, authed>>

Closed(c) == open \ {c}

MarkClose(p) ==
    /\ p # Stopper /\ proc[p].at = "close"
    /\ open' = Closed(proc[p].conn)
    /\ proc' = [proc EXCEPT ![p] = Rest]
    /\ writer' = IF writer = p THEN None ELSE writer
    /\ loop' = IF p = Loop /\ loop = "end" THEN "backoff" ELSE loop
    /\ UNCHANGED <<cancelled, conn, connected, cur, made, alive, authed>>

Sending(p) == (LoadConn(p) \/ LockWrite(p) \/ Write(p))

Marking(p) == (MarkNil(p) \/ MarkFlag(p) \/ MarkClose(p))

-----------------------------------------------------------------------------
(* runLoop and runSession                                                   *)

Steps(to) == loop' = to

\* StartWebSocket.
Start ==
    /\ loop = "off" /\ ~cancelled
    /\ Steps("check")
    /\ UNCHANGED <<cancelled, conn, connected, writer, cur, proc, made, open, alive, authed>>

CheckCtx ==
    /\ loop = "check"
    /\ Steps(IF cancelled THEN "exit" ELSE "dial")
    /\ UNCHANGED <<cancelled, conn, connected, writer, cur, proc, made, open, alive, authed>>

DialFails ==
    /\ loop = "dial"
    /\ Steps("backoff")
    /\ UNCHANGED <<cancelled, conn, connected, writer, cur, proc, made, open, alive, authed>>

\* A dial that has got through when the context is cancelled still returns a
\* socket.
Dialled ==
    /\ loop = "dial" /\ made < MaxConns
    /\ made' = made + 1 /\ cur' = made + 1
    /\ open' = open \union {made + 1} /\ alive' = alive \union {made + 1}
    /\ Steps("store")
    /\ UNCHANGED <<cancelled, conn, connected, writer, proc, authed>>

StoreConn ==
    /\ loop = "store"
    /\ conn' = cur
    /\ Steps("pump")
    /\ UNCHANGED <<cancelled, connected, writer, cur, proc, made, open, alive, authed>>

EndSession ==
    /\ Steps("end")
    /\ proc' = [proc EXCEPT ![Loop] = [at |-> "nil", conn |-> cur]]

\* Mutant: the pump reads on without looking at the context.
PumpOn == FALSE

PumpStops == cancelled

Pump ==
    /\ loop = "pump"
    /\ \/ PumpStops /\ EndSession
       \/ ~PumpStops /\ Steps("read") /\ UNCHANGED proc
    /\ UNCHANGED <<cancelled, conn, connected, writer, cur, made, open, alive, authed>>

\* ReadMessage fails: the socket was closed here or dropped by the panel.
ReadFails ==
    /\ loop = "read" /\ cur \notin open \intersect alive
    /\ EndSession
    /\ UNCHANGED <<cancelled, conn, connected, writer, cur, made, open, alive, authed>>

\* The panel authenticates a session once, then pings and pushes.  What a
\* push does is in PanelClient.
ReadMessage ==
    /\ loop = "read" /\ cur \in open \intersect alive
    /\ \/ cur \notin authed /\ authed' = authed \union {cur} /\ Steps("auth")
       \/ cur \in authed /\ Steps("pong") /\ UNCHANGED authed
       \/ cur \in authed /\ Steps("pump") /\ UNCHANGED authed
    /\ UNCHANGED <<cancelled, conn, connected, writer, cur, proc, made, open, alive>>

HandleAuth ==
    /\ loop = "auth"
    /\ connected' = TRUE
    /\ Steps("pump")
    /\ UNCHANGED <<cancelled, conn, writer, cur, proc, made, open, alive, authed>>

HandlePing == loop = "pong" /\ BeginSend(Loop) /\ Steps("pump")

\* The loop is in Send while its answer to a ping is under way.
LoopFree == proc[Loop] = Rest

Backoff ==
    /\ loop = "backoff"
    /\ cur' = None
    /\ Steps(IF cancelled THEN "exit" ELSE "check")
    /\ UNCHANGED <<cancelled, conn, connected, writer, proc, made, open, alive, authed>>

-----------------------------------------------------------------------------
(* Stop, and the panel                                                      *)

\* StopWebSocket calls Stop of a driver that was started.
Cancel ==
    /\ ~cancelled /\ loop # "off"
    /\ cancelled' = TRUE
    /\ At(Stopper, "load")
    /\ UNCHANGED <<conn, connected, writer, loop, cur, made, open, alive, authed>>

\* closeCurrentConn takes the socket, lowers the flag and closes the socket.
TakeConn ==
    /\ proc[Stopper].at = "load"
    /\ proc' = [proc EXCEPT ![Stopper] = [at |-> "flag", conn |-> conn]]
    /\ conn' = None
    /\ UNCHANGED <<cancelled, connected, writer, loop, cur, made, open, alive, authed>>

CloseConn ==
    /\ proc[Stopper].at = "close"
    /\ open' = Closed(proc[Stopper].conn)
    /\ At(Stopper, "wait")
    /\ UNCHANGED <<cancelled, conn, connected, writer, loop, cur, made, alive, authed>>

\* Mutant: Stop does not wait for the loop.
WaitsNot == TRUE

LoopReturned == loop = "exit"

StopReturns ==
    /\ proc[Stopper].at = "wait" /\ LoopReturned
    /\ At(Stopper, "returned")
    /\ UNCHANGED <<cancelled, conn, connected, writer, loop, cur, made, open, alive, authed>>

\* The panel or the network drops a session.
Drop(c) ==
    /\ c \in alive
    /\ alive' = alive \ {c}
    /\ UNCHANGED <<cancelled, conn, connected, writer, loop, cur, proc, made, open, authed>>

-----------------------------------------------------------------------------
Running ==
    LoopFree /\ (\/ CheckCtx \/ DialFails \/ Dialled \/ StoreConn \/ Pump
                 \/ ReadFails \/ ReadMessage \/ HandleAuth \/ HandlePing \/ Backoff)

Stop == TakeConn \/ MarkFlag(Stopper) \/ CloseConn \/ StopReturns

Send(p) == BeginSend(p) /\ UNCHANGED loop

Next ==
    \/ Start \/ Running \/ Cancel \/ Stop
    \/ \E p \in Senders : Send(p)
    \/ \E p \in Senders \union {Loop} : Sending(p) \/ Marking(p)
    \/ \E c \in Conns : Drop(c)

Spec == Init /\ [][Next]_vars

\* Goroutines run, and the mutex does not starve the loop; the panel need not
\* drop a session or say anything, and no report need be sent.
Fairness == /\ WF_vars(LoopFree /\ (\/ CheckCtx \/ DialFails \/ StoreConn \/ Pump
                                    \/ ReadFails \/ HandleAuth \/ HandlePing \/ Backoff))
            /\ WF_vars(Stop)
            /\ SF_vars(LockWrite(Loop))
            /\ \A p \in Senders \union {Loop} : /\ WF_vars(LoadConn(p) \/ Write(p))
                                                /\ WF_vars(Marking(p))

-----------------------------------------------------------------------------
(* Properties                                                               *)

\* runLoop keeps one session alive at a time: a socket is closed before the
\* next is dialled, whoever noticed that it was dead.  Stop tears down any active
\* connection, and one that a dial under way brings in after it has looked;
\* afterwards nobody is told that there is a session.
OneSocket ==
    /\ \A c, d \in open : c = d
    /\ proc[Stopper].at = "returned" => open = {} /\ conn = None /\ ~connected

\* Stop returns, also when the panel is silent and no read times out.
StopEnds == cancelled ~> (proc[Stopper].at = "returned")

\* Connected reports whether there is an authenticated session available for
\* outbound sends (ws.go, Connected): while nobody is in Send and the pump is
\* reading an authenticated session, it says so.
ConnectedWhileAuthenticated ==
    /\ loop = "read" /\ cur \in authed \intersect open \intersect alive
    /\ \A p \in Procs : proc[p] = Rest
    => connected
=============================================================================
