---------------------------- MODULE MCNodeStart ----------------------------
(***************************************************************************)
(* Small instances of starting and closing the nodes, and of what ends the  *)
(* process.  A behaviour explores one of the two, the one that part names:  *)
(* whatever the reason waitForShutdown returns for, the nodes are closed,   *)
(* which they may be at any moment.                                         *)
(***************************************************************************)
EXTENDS NodeStart

CONSTANTS Day, Clock, Minutes, PerMinute, DayLength, Schedules, MaxSuspends, MaxPlans

VARIABLES part, wall, mono, checked, options, eligible, next, guard, reason, suspends,
          plans, since, from

\* Whole minutes and days.
ASSUME SuperConstants ==
    /\ PerMinute \in Nat /\ Minutes \in Nat /\ DayLength \in Nat
    /\ \A o \in Schedules : o.days \in Nat

S == INSTANCE Supervision WITH edits <- plans, MaxEdits <- MaxPlans

\* Three days of four minutes each and the beginning of a fourth.  The second day
\* lacks two minutes, the third has one of them twice.
ShortDays == [i \in 0 .. 12 |-> <<0, 0, 0, 0, 1, 1, 2, 2, 2, 2, 2, 3, 3>>[i + 1]]
ShortClock == [i \in 0 .. 12 |-> <<0, 1, 2, 3, 0, 3, 0, 1, 2, 2, 3, 0, 1>>[i + 1]]

\* No scheduled restart, and one a day in the middle two minutes.
OnAndOff == {[enabled |-> FALSE, days |-> 0, start |-> 0, end |-> 0],
             [enabled |-> TRUE, days |-> 1, start |-> 1, end |-> 3]}

-----------------------------------------------------------------------------
superVars == <<wall, mono, checked, options, eligible, next, guard, reason, suspends,
               plans, since, from>>

MCInit ==
    \/ part = "nodes" /\ Init /\ S!SuperInit /\ ~options.enabled /\ ~guard
    \/ part = "restart" /\ Init /\ S!SuperInit

MCNext ==
    /\ UNCHANGED part
    /\ \/ part = "nodes" /\ Next /\ UNCHANGED superVars
       \/ part = "restart" /\ S!SuperNext /\ UNCHANGED vars

\* FairSpec's fairness, of the nodes.
MCSpec ==
    /\ MCInit /\ [][MCNext]_<<part, vars, superVars>>
    /\ \A n \in Nodes : WF_vars(part = "nodes" /\ Attempt(n))
    /\ WF_vars(part = "nodes" /\ Closing)

-----------------------------------------------------------------------------
(* Properties of Supervision, stated there                                  *)

\* The schedule restarts the process only within its window and after its uptime.
RestartInWindow == S!RestartInWindow

\* And does restart it in the first window after that.
RestartOnTime == S!RestartOnTime
=============================================================================
