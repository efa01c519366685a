---------------------------- MODULE ConfigWatch ----------------------------
(***************************************************************************)
(* The configuration watcher (conf/watch.go, conf/watch_state.go) with the  *)
(* reload the server gives it and the server's shutdown (cmd/server.go      *)
(* serverHandle).  "main" is what is watched, the main file and the DNS      *)
(* file; "ref" is the other files it refers to, which are not watched and   *)
(* are read again by the core when it is built.                             *)
(*                                                                          *)
(* The watcher goroutine, a reload goroutine, the operator and the shutdown *)
(* interleave.  A timer fires at any time after it is armed.                *)
(***************************************************************************)
EXTENDS Integers, FiniteSets

CONSTANTS
    None,
    Mains,      \* contents of the main file: [ok, warns, id]
    Refs,       \* contents of the referenced files
    Workers,    \* the reload goroutines
    MaxWrites,  \* bound on the operator's writes of the main file
    MaxRefs,    \* bound on the operator's writes of a referenced file
    MaxFaults   \* how many reloads fail

VARIABLES
    disk,     \* the files: [main, ref]
    writes, refWrites,
    event,    \* an event of the file system is waiting
    watching, \* the watcher goroutine: "no", "yes" or "exited"
    timer, pending, active, finished,
    state,    \* watchState: [main, ref], and its retry flag
    retry,
    conf,     \* *p
    running,  \* what the process runs: [main, ref], or None
    rl,       \* the reload goroutines
    faults,
    done,     \* the channel is closed
    server,   \* the main goroutine: "up", "stopping" or "stopped"
    unseen    \* the main file was last written before it was watched

watchVars == <<watching, timer, pending, active, finished>>
reloadVars == <<state, retry, conf, running, faults>>
vars == <<disk, writes, refWrites, event, watchVars, reloadVars, rl, done, server, unseen>>

NoReload == [at |-> "none", main |-> None, ref |-> None]

\* The process has loaded the files and started what they say.
Init ==
    /\ disk \in [main : {m \in Mains : m.ok}, ref : Refs]
    /\ writes = 0 /\ refWrites = 0
    /\ event = FALSE
    /\ watching = "no" /\ timer = FALSE /\ pending = FALSE
    /\ active = FALSE /\ finished = FALSE
    /\ state = disk /\ retry = FALSE
    /\ conf = disk.main
    /\ running = disk
    /\ rl = [w \in Workers |-> NoReload]
    /\ faults = 0
    /\ done = FALSE /\ server = "up"
    /\ unseen = FALSE

-----------------------------------------------------------------------------
(* The operator                                                             *)

\* A write of the main file, of the same content or another.
Write(m) ==
    /\ server = "up"
    /\ writes < MaxWrites /\ writes' = writes + 1
    /\ disk' = [disk EXCEPT !.main = m]
    /\ event' = (event \/ watching = "yes")
    /\ unseen' = (watching = "no")
    /\ UNCHANGED <<refWrites, watchVars, reloadVars, rl, done, server>>

WriteRef(r) ==
    /\ server = "up"
    /\ refWrites < MaxRefs /\ refWrites' = refWrites + 1
    /\ disk' = [disk EXCEPT !.ref = r]
    /\ UNCHANGED <<writes, event, watchVars, reloadVars, rl, done, server, unseen>>

-----------------------------------------------------------------------------
(* The watcher goroutine                                                    *)

\* WatchWithError: the baseline is what was loaded, not what is on disk.
StartWatch ==
    /\ watching = "no" /\ server = "up"
    /\ watching' = "yes"
    /\ UNCHANGED <<disk, writes, refWrites, event, timer, pending, active, finished,
                   reloadVars, rl, done, server, unseen>>

GotEvent ==
    /\ watching = "yes" /\ event
    /\ event' = FALSE
    /\ pending' = TRUE /\ timer' = TRUE
    /\ UNCHANGED <<disk, writes, refWrites, watching, active, finished, reloadVars,
                   rl, done, server, unseen>>

Starts == pending /\ ~active

TimerFires ==
    /\ watching = "yes" /\ timer
    /\ timer' = FALSE
    /\ IF Starts
       THEN /\ pending' = FALSE /\ active' = TRUE
            /\ \E w \in Workers :
                  /\ rl[w] = NoReload
                  /\ rl' = [rl EXCEPT ![w] = [NoReload EXCEPT !.at = "start"]]
       ELSE UNCHANGED <<pending, active, rl>>
    /\ UNCHANGED <<disk, writes, refWrites, event, watching, finished, reloadVars,
                   done, server, unseen>>

\* Mutant: an edit that came during the reload is not looked at again.
RearmedNever == timer

Rearmed == timer \/ pending

GotFinished ==
    /\ watching = "yes" /\ finished
    /\ finished' = FALSE /\ active' = FALSE
    /\ timer' = Rearmed
    /\ UNCHANGED <<disk, writes, refWrites, event, watching, pending, reloadVars, rl,
                   done, server, unseen>>

\* Mutant: the goroutine leaves only between reloads.
LeavesIdle == done /\ ~active

Leaves == done

GotDone ==
    /\ watching = "yes" /\ Leaves
    /\ watching' = "exited" /\ timer' = FALSE
    /\ UNCHANGED <<disk, writes, refWrites, event, pending, active, finished,
                   reloadVars, rl, done, server, unseen>>

-----------------------------------------------------------------------------
(* A reload (reloadChanged)                                                 *)

Goes(w, at) == rl' = [rl EXCEPT ![w].at = at]

\* Stopped before it has begun.
NotBegun(w) ==
    /\ rl[w].at = "start" /\ done
    /\ Goes(w, "send")
    /\ UNCHANGED <<disk, writes, refWrites, event, watchVars, reloadVars, done,
                   server, unseen>>

\* A file that has a problem, or a warning the loaded configuration has not,
\* is rejected.
Rejected(m) == ~m.ok \/ ~(m.warns \subseteq conf.warns)

LoadValidated(w) ==
    /\ rl[w].at = "start" /\ ~done
    /\ rl' = [rl EXCEPT ![w] =
          IF Rejected(disk.main) THEN [@ EXCEPT !.at = "send"]
          ELSE [@ EXCEPT !.at = "snapshot", !.main = disk.main]]
    /\ UNCHANGED <<disk, writes, refWrites, event, watchVars, reloadVars, done,
                   server, unseen>>

\* Nothing to apply: the same files, and the last reload did not fail.
UnchangedFiles(main) == ~retry /\ state = [main |-> main, ref |-> disk.ref]

\* snapshotWatchState, the comparison, and *p = *next.
Snapshot(w) ==
    /\ rl[w].at = "snapshot"
    /\ rl' = [rl EXCEPT ![w].ref = disk.ref,
          ![w].at = IF UnchangedFiles(rl[w].main) THEN "send" ELSE "down"]
    /\ conf' = IF UnchangedFiles(rl[w].main) THEN conf ELSE rl[w].main
    /\ UNCHANGED <<disk, writes, refWrites, event, watchVars, state, retry, running,
                   faults, done, server, unseen>>

Fails(w) ==
    /\ faults < MaxFaults /\ faults' = faults + 1
    /\ retry' = TRUE
    /\ Goes(w, "send")

\* The server's callback: the nodes are closed, then the core.
TearDown(w) ==
    /\ rl[w].at = "down"
    /\ running' = None
    /\ \/ Goes(w, "build") /\ UNCHANGED <<retry, faults>>
       \/ Fails(w)
    /\ UNCHANGED <<disk, writes, refWrites, event, watchVars, state, conf, done,
                   server, unseen>>

NewBaseline(w) == [main |-> rl[w].main, ref |-> rl[w].ref]

\* A core is built from conf, which reads the referenced files, and started,
\* then the nodes.
BringUp(w) ==
    /\ rl[w].at = "build"
    /\ \/ /\ running' = [main |-> conf, ref |-> disk.ref]
          /\ state' = NewBaseline(w) /\ retry' = FALSE
          /\ Goes(w, "send") /\ UNCHANGED faults
       \/ Fails(w) /\ UNCHANGED <<running, state>>
    /\ UNCHANGED <<disk, writes, refWrites, event, watchVars, conf, done, server,
                   unseen>>

\* The result is handed over, or dropped when the watcher has been stopped.
Send(w) ==
    /\ rl[w].at = "send"
    /\ \/ ~finished /\ finished' = TRUE
       \/ done /\ UNCHANGED finished
    /\ rl' = [rl EXCEPT ![w] = NoReload]
    /\ UNCHANGED <<disk, writes, refWrites, event, watching, timer, pending, active,
                   reloadVars, done, server, unseen>>

-----------------------------------------------------------------------------
(* Shutdown                                                                 *)

\* A signal, memory pressure or the schedule; the watcher is stopped first.
Shutdown ==
    /\ server = "up" /\ watching = "yes"
    /\ server' = "stopping" /\ done' = TRUE
    /\ UNCHANGED <<disk, writes, refWrites, event, watchVars, reloadVars, rl, unseen>>

\* Mutant: stop does not wait for a reload.
ReloadsIgnored == watching = "exited"

ReloadsOver == watching = "exited" /\ \A w \in Workers : rl[w] = NoReload

\* Then the nodes and the core are closed.
Close ==
    /\ server = "stopping" /\ ReloadsOver
    /\ server' = "stopped"
    /\ running' = None
    /\ UNCHANGED <<disk, writes, refWrites, event, watchVars, state, retry, conf, rl,
                   faults, done, unseen>>

-----------------------------------------------------------------------------
Operator == (\E m \in Mains : Write(m)) \/ (\E r \in Refs : WriteRef(r))

Watcher == GotEvent \/ TimerFires \/ GotFinished

Reload(w) ==
    \/ NotBegun(w) \/ LoadValidated(w) \/ Snapshot(w)
    \/ TearDown(w) \/ BringUp(w) \/ Send(w)

Next ==
    \/ Operator \/ StartWatch \/ Watcher \/ GotDone
    \/ \E w \in Workers : Reload(w)
    \/ Shutdown \/ Close

Spec == Init /\ [][Next]_vars

\* Once the watcher runs, goroutines go on, timers fire and events arrive;
\* nobody has to write a file or end the process.
Fairness == /\ WF_vars(GotDone) /\ WF_vars(Close)
            /\ WF_vars(GotEvent) /\ WF_vars(TimerFires) /\ WF_vars(GotFinished)
            /\ \A w \in Workers : WF_vars(Reload(w))

-----------------------------------------------------------------------------
(* Properties                                                               *)

\* Stop waits for a reload in progress (watch.go, Watch): once the server has
\* closed its core nothing comes up again.
StoppedStaysDown == server = "stopped" => running = None

\* Shutdown does not hang on the watcher or on a reload.
ShutdownEnds == (server = "stopping") ~> (server = "stopped")

\* A main file that may be applied: it has no problem, and no warning that
\* what is running has not.
Applicable(m) == m.ok /\ (running = None \/ m.warns \subseteq running.main.warns)

\* The last write is not lost (release-readiness: a correction within the
\* cooldown is not lost; WatchWithError: a failed reload is retried on the
\* next write): in the end an applicable file runs, unless the reload for it
\* has failed.
LastEditApplied ==
    <>[](\/ done \/ unseen \/ ~Applicable(disk.main)
         \/ retry /\ conf = disk.main
         \/ running # None /\ running.main = disk.main)

\* A save of the main file also applies the referenced files (watch_state.go,
\* snapshotWatchState): a reload that finds nothing changed finds what is
\* running.
SkippedMatches ==
    [][\A w \in Workers :
          rl[w].at = "snapshot" /\ rl'[w].at = "send" =>
              running = [main |-> rl[w].main, ref |-> disk.ref]]_vars
=============================================================================
