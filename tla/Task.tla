-------------------------------- MODULE Task --------------------------------
(***************************************************************************)
(* The periodic task (common/task/task.go).  Every Start makes a new run: a *)
(* goroutine with a stop channel of its own.  Start and Close are called    *)
(* from any goroutine, a callback of the task itself included, which is how *)
(* the monitor takes over a new interval.                                   *)
(***************************************************************************)
EXTENDS Integers

CONSTANT MaxRuns   \* bound on the calls of Start that make a run

ASSUME TaskConstants == MaxRuns \in Nat

Runs == 1..MaxRuns

VARIABLES
    running,   \* t.running
    stop,      \* t.stop, named by its run; 0 before the first
    closed,    \* the stop channels that are closed
    at,        \* where each run is
    panicked   \* a closed channel was closed again

vars == <<running, stop, closed, at, panicked>>

Stages == {"none", "sleep", "fired", "execute", "exit", "over"}

Init ==
    /\ running = FALSE /\ stop = 0 /\ closed = {}
    /\ at = [r \in Runs |-> "none"]
    /\ panicked = FALSE

Go(r, stage) == at' = [at EXCEPT ![r] = stage]

\* close(ch)
CloseChan(r) == closed' = closed \union {r} /\ panicked' = (panicked \/ r \in closed)

\* A second Start does nothing.
Start ==
    /\ ~running /\ stop < MaxRuns
    /\ running' = TRUE /\ stop' = stop + 1
    /\ Go(stop + 1, "sleep")
    /\ UNCHANGED <<closed, panicked>>

\* Task.Close on a running task.
StopRunning == CloseChan(stop) /\ running' = FALSE

Close ==
    /\ running
    /\ StopRunning
    /\ UNCHANGED <<stop, at>>

\* The outer select: the timer, or the stop channel.
Fire(r) ==
    /\ at[r] = "sleep" /\ Go(r, "fired")
    /\ UNCHANGED <<running, stop, closed, panicked>>

Stopped(r) ==
    /\ at[r] = "sleep" /\ r \in closed /\ Go(r, "exit")
    /\ UNCHANGED <<running, stop, closed, panicked>>

\* The inner select: stop wins over a timer that fired as well.
Check(r) ==
    /\ at[r] = "fired"
    /\ Go(r, IF r \in closed THEN "exit" ELSE "execute")
    /\ UNCHANGED <<running, stop, closed, panicked>>

\* The callback returns; an error ends the run.
Returns(r) ==
    /\ at[r] = "execute"
    /\ Go(r, "sleep") \/ Go(r, "exit")
    /\ UNCHANGED <<running, stop, closed, panicked>>

\* Mutant: whichever run ends, the task is taken to have ended.
ExitEndsTask(r) == running

\* A callback may have already replaced this run with a new one.
EndsTask(r) == running /\ stop = r

\* The deferred function.
Exit(r) ==
    /\ at[r] = "exit" /\ Go(r, "over")
    /\ IF EndsTask(r) THEN CloseChan(r) /\ running' = FALSE
       ELSE UNCHANGED <<running, closed, panicked>>
    /\ UNCHANGED stop

Goroutine(r) == Fire(r) \/ Stopped(r) \/ Check(r) \/ Returns(r) \/ Exit(r)

Next == Start \/ Close \/ \E r \in Runs : Goroutine(r)

Spec == Init /\ [][Next]_vars

-----------------------------------------------------------------------------
(* Properties                                                               *)

\* The flag is up exactly while the newest run has an open channel, and every
\* older run has been told to stop (Close, Start and the deferred function, in
\* any order).
OneOpenRun ==
    /\ running => stop \in Runs
    /\ \A r \in Runs : r \notin closed /\ r <= stop <=> running /\ r = stop

\* A restarted task has one live run: its runs do not pile up, the flag is up
\* exactly while the newest is open, and that one has not ended, so that a task
\* which says it is running executes.  No channel is closed twice, which would
\* panic: neither by Close after the run ended itself, nor by a run that ends
\* after Close, nor by the exit of a run whose callback restarted the task.
OneLiveRun ==
    /\ OneOpenRun
    /\ running => at[stop] \notin {"none", "over"}
    /\ ~panicked
=============================================================================
