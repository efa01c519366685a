---------------------------- MODULE Supervision ----------------------------
(***************************************************************************)
(* What ends the process: a signal, the memory guard (cmd/memory.go) or the *)
(* scheduled restart (cmd/scheduled_restart.go), polled by waitForShutdown  *)
(* while reloads of the configuration set both anew.                        *)
(*                                                                          *)
(* Two clocks.  The planned minute is compared with the wall clock; the     *)
(* minimum uptime with the monotonic one, which stands still while the host *)
(* is suspended.  Time is in ticks, several to a minute, and the local time *)
(* of a minute is a table: a day may lack hours or repeat them when         *)
(* daylight saving begins or ends.                                          *)
(***************************************************************************)
EXTENDS Naturals

CONSTANTS Day, Clock,   \* local date and time of each minute
          Minutes,      \* bound: the minutes of the table
          PerMinute,    \* ticks of a minute
          DayLength,    \* 24 hours, in minutes
          Schedules,    \* ScheduledRestart of valid configurations
          MaxSuspends,  \* bound: times the host is suspended
          MaxEdits      \* bound: reloads that change the schedule

VARIABLES wall, mono,     \* the clocks
          checked,        \* waitForShutdown has looked in this tick
          options,        \* s.options
          eligible, next, \* s.eligible on the monotonic clock, s.next or Never
          guard,          \* restartPercent is not zero
          reason,         \* why waitForShutdown has returned
          suspends, edits,
          since,          \* history: when options were first given
          from            \* history: since when uptime and host allow a restart

superVars == <<wall, mono, checked, options, eligible, next, guard, reason, suspends,
               edits, since, from>>
planVars == <<options, eligible, next>>

Never == PerMinute * Minutes
Ticks == 0 .. Never - 1
Minute(t) == t \div PerMinute

-----------------------------------------------------------------------------
(* The plan. *)

\* inRestartWindow.
InRestartWindow(t, o) == Clock[Minute(t)] >= o.start /\ Clock[Minute(t)] < o.end

\* nextRestartTime: a whole minute not before earliest, in the window of the first
\* day that has one; which of them is left to chance.
NextRestartTimes(earliest, o) ==
    LET usable == {t \in Ticks : t % PerMinute = 0 /\ t >= earliest /\ InRestartWindow(t, o)}
    IN  {t \in usable : \A u \in usable : Day[Minute(t)] <= Day[Minute(u)]}

Interval(o) == o.days * DayLength * PerMinute

\* configure for options the scheduler does not have yet.
Plan(o) ==
    /\ options' = o
    /\ IF o.enabled
       THEN eligible' = mono + Interval(o) /\ next' \in NextRestartTimes(wall + Interval(o), o)
       ELSE next' = Never /\ UNCHANGED eligible

\* Mutant: every reload plans anew.
AnyConfigure(o) == Plan(o)

\* configure: a reload that does not touch the schedule leaves the plan alone.
Configure(o) == IF o = options THEN UNCHANGED planVars ELSE Plan(o)

SuperInit ==
    /\ wall = 0 /\ mono = 0 /\ checked = TRUE
    /\ options \in Schedules
    /\ eligible = IF options.enabled THEN Interval(options) ELSE 0
    /\ IF options.enabled THEN next \in NextRestartTimes(Interval(options), options)
       ELSE next = Never
    /\ guard \in BOOLEAN /\ reason = "none"
    /\ suspends = 0 /\ edits = 0
    /\ since = 0 /\ from = Never

-----------------------------------------------------------------------------
(* The clocks. *)

\* Bound: the table has a window after t for every schedule.
Foreseen(t) ==
    t \in Ticks /\ \A o \in Schedules : o.enabled => NextRestartTimes(t, o) # {}

\* The uptime asked for is over.
Ready(m) == options.enabled /\ m >= since + Interval(options)

\* A check every five seconds: none of the ticks goes by without one.
Tick ==
    /\ reason = "none" /\ checked /\ Foreseen(wall + 1)
    /\ wall' = wall + 1 /\ mono' = mono + 1
    /\ checked' = FALSE
    /\ from' = IF Ready(mono') /\ from = Never THEN wall' ELSE from
    /\ UNCHANGED <<planVars, guard, reason, suspends, edits, since>>

\* The host sleeps, or its clock is set forward.
Suspend(t) ==
    /\ reason = "none" /\ suspends < MaxSuspends /\ Foreseen(t) /\ t > wall
    /\ wall' = t
    /\ checked' = FALSE
    /\ from' = IF from = Never THEN from ELSE t
    /\ suspends' = suspends + 1
    /\ UNCHANGED <<mono, planVars, guard, reason, edits, since>>

-----------------------------------------------------------------------------
(* The reload and waitForShutdown. *)

\* The reload hands the memory options and the schedule over.
Reload(o, percent) ==
    /\ reason = "none"
    /\ o # options => edits < MaxEdits
    /\ Configure(o)
    /\ guard' = percent
    /\ IF o = options THEN UNCHANGED <<edits, since, from>>
       ELSE edits' = edits + 1 /\ since' = mono /\ from' = Never
    /\ UNCHANGED <<wall, mono, checked, reason, suspends>>

Signal ==
    /\ reason = "none"
    /\ reason' = "signal"
    /\ UNCHANGED <<wall, mono, checked, planVars, guard, suspends, edits, since, from>>

\* memoryRestartRequired, for a sample that could be taken and shows pressure.
MemoryRestart(pressure) ==
    /\ guard /\ pressure
    /\ reason' = "memory"
    /\ UNCHANGED planVars

\* Mutant: whenever the planned time has come.
AnyTime(o) == TRUE

\* due: a restart that the host has slept through waits for the next window.
Timely(o) == InRestartWindow(wall, o)

NotYet == next = Never \/ mono < eligible \/ wall < next

Due ==
    \/ NotYet /\ UNCHANGED <<planVars, reason>>
    \/ /\ ~NotYet /\ Timely(options)
       /\ reason' = "schedule" /\ next' = Never
       /\ UNCHANGED <<options, eligible>>
    \/ /\ ~NotYet /\ ~Timely(options)
       /\ next' \in NextRestartTimes(wall, options)
       /\ UNCHANGED <<options, eligible, reason>>

\* A tick of waitForShutdown: the memory comes first.
Check(pressure) ==
    /\ reason = "none" /\ ~checked
    /\ checked' = TRUE
    /\ MemoryRestart(pressure) \/ (~(guard /\ pressure) /\ Due)
    /\ UNCHANGED <<wall, mono, guard, suspends, edits, since, from>>

SuperNext ==
    \/ Tick \/ Signal
    \/ \E t \in Ticks : Suspend(t)
    \/ \E o \in Schedules, percent \in BOOLEAN : Reload(o, percent)
    \/ \E pressure \in BOOLEAN : Check(pressure)

SuperSpec == SuperInit /\ [][SuperNext]_superVars

-----------------------------------------------------------------------------
(* Properties. *)

\* The process is restarted by the schedule only within the daily window and only
\* after the configured uptime, although the host was suspended across the planned
\* minute, the clocks part, or the schedule was edited.
RestartInWindow ==
    [][(reason' = "schedule" /\ reason = "none")
        => InRestartWindow(wall, options) /\ mono - since >= Interval(options)]_superVars

\* And it is restarted: once the uptime is over and the host awake, a minute of the
\* first window is still to come, whatever is reloaded and however often.
RestartOnTime ==
    (reason = "none" /\ from # Never)
        => \E t \in NextRestartTimes(from, options) : t >= wall
=============================================================================
