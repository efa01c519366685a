------------------------------ MODULE PortHop ------------------------------
(***************************************************************************)
(* The firewall redirects of port hopping (common/porthop/porthop.go) as    *)
(* the sing-box core uses them (core/sing/node.go AddNode and DelNode,      *)
(* core/sing/sing.go Close).  The chain belongs to the host: it outlives    *)
(* the process, holds rules of the operator, and may be flushed by hand.    *)
(* Every command on it is a step of its own, may fail, and interleaves with *)
(* the commands of other nodes, which run under no common lock.             *)
(*                                                                          *)
(* A rule is [tag, range, port]; the tag is the comment, None for a rule of *)
(* the operator.  A chain counts the copies of every rule.                  *)
(***************************************************************************)
EXTENDS Naturals, Sequences, FiniteSets

CONSTANTS
    None,
    Tags,        \* node tags, as sequences: one may be a prefix of another
    Redirects,   \* what a node may ask for: [port, ranges]
    Commands,    \* the firewall binaries, in order
    Faults,      \* the kinds of command that may fail
    MaxHopFaults,   \* how many failures there are
    MaxRestarts, \* how often the process ends and is started again
    MaxFlushes   \* how often the operator flushes the tables

Main == <<>>     \* the goroutine that shuts the core down
Procs == Tags \union {Main}

CommandSet == {Commands[i] : i \in DOMAIN Commands}
AllRanges == UNION {{r.ranges[j] : j \in DOMAIN r.ranges} : r \in Redirects}
Ports == {r.port : r \in Redirects}
Rules == [tag : Tags \union {None}, range : AllRanges, port : Ports]

\* The binaries differ; Apply is not called without a range.  A range may be given twice.
ASSUME HopConstants ==
    /\ None \notin Tags /\ None \notin Redirects /\ Main \notin Tags
    /\ Commands \in Seq(CommandSet)
    /\ \A i, j \in DOMAIN Commands : Commands[i] = Commands[j] => i = j
    /\ \A r \in Redirects : r.ranges \in Seq(AllRanges) /\ r.ranges # <<>>

VARIABLES
    chain,    \* the nat PREROUTING chain of each command
    applied,  \* Manager.applied
    up,       \* the nodes the core has
    call,     \* what each goroutine is doing
    running,  \* the process: "up", "closing" or "stopped"
    dirty,    \* history: the tags whose rules a failed deletion, a kill or a
              \* flush may have left in part since Apply last cleared them
    hopFaults, restarts, flushes

hopVars == <<chain, applied, up, call, running, dirty, hopFaults, restarts, flushes>>

NoRules == [r \in Rules |-> 0]

\* cmd and done are the positions of the loops over the commands and the ranges.
Idle == [at |-> "idle", tag |-> None, arg |-> None, cmd |-> 0, done |-> 0,
         listed |-> NoRules, tags |-> {}, failed |-> FALSE]

OperatorRule(range, port) == [tag |-> None, range |-> range, port |-> port]

\* The operator has redirected every range once by hand.
HopInit ==
    /\ \E port \in Ports : chain = [c \in CommandSet |-> [r \in Rules |->
          IF r \in {OperatorRule(x, port) : x \in AllRanges} THEN 1 ELSE 0]]
    /\ applied = [t \in Tags |-> None]
    /\ up = {}
    /\ call = [p \in Procs |-> Idle]
    /\ running = "up"
    /\ dirty = {}
    /\ hopFaults = 0 /\ restarts = 0 /\ flushes = 0

Fault(kind) == kind \in Faults /\ hopFaults < MaxHopFaults /\ hopFaults' = hopFaults + 1

-----------------------------------------------------------------------------
(* Commands on the chain                                                    *)

\* The loop over every range under every binary: its beginning, the command and the
\* rule it has come to, the next position, the one before, and its end.
LoopOver(stage, t, r) == [Idle EXCEPT !.at = stage, !.tag = t, !.arg = r, !.cmd = 1]

RuleAt(k) ==
    [cmd |-> Commands[k.cmd],
     rule |-> [tag |-> k.tag, range |-> k.arg.ranges[k.done + 1], port |-> k.arg.port]]

Forward(k) ==
    IF k.done + 1 < Len(k.arg.ranges) THEN [k EXCEPT !.done = @ + 1]
    ELSE [k EXCEPT !.cmd = @ + 1, !.done = 0]

Back(k) ==
    IF k.done > 0 THEN [k EXCEPT !.done = @ - 1]
    ELSE [k EXCEPT !.cmd = @ - 1, !.done = Len(k.arg.ranges) - 1]

AtStart(k) == k.cmd = 1 /\ k.done = 0
Over(k) == k.cmd > Len(Commands)

\* Mutant: a rule is taken for stale when its comment begins with the tag's.
staleRulesByPrefix(c, tag) ==
    {r \in Rules : chain[c][r] > 0 /\ r.tag # None
                   /\ Len(tag) <= Len(r.tag) /\ SubSeq(r.tag, 1, Len(tag)) = tag}

\* Mutant: the comment is not looked at.
staleRulesAll(c, tag) == {r \in Rules : chain[c][r] > 0}

staleRules(c, tag) == {r \in Rules : chain[c][r] > 0 /\ r.tag = tag}

\* One delete for every copy of every stale rule, in the order of the chain, which is
\* left open.
Deletes(c, tag) == [r \in Rules |-> IF r \in staleRules(c, tag) THEN chain[c][r] ELSE 0]

\* -D removes one copy, and fails when there is none.
DeleteFails(c, r) == chain[c][r] = 0
Delete(c, r) == chain' = [chain EXCEPT ![c][r] = @ - 1]

\* A delete and whether it succeeded; ok is the next state of the call when
\* it did, bad when it did not.
DeleteStep(p, c, r, ok, bad) ==
    \/ /\ ~DeleteFails(c, r) /\ Delete(c, r)
       /\ call' = [call EXCEPT ![p] = ok] /\ UNCHANGED <<dirty, hopFaults>>
    \/ /\ \/ DeleteFails(c, r) /\ UNCHANGED hopFaults
          \/ ~DeleteFails(c, r) /\ Fault("delete")
       /\ dirty' = dirty \union {r.tag}
       /\ call' = [call EXCEPT ![p] = bad] /\ UNCHANGED chain

-----------------------------------------------------------------------------
(* Apply                                                                    *)

\* AddNode of a node without ranges leaves the firewall alone.
AddPlain(t) ==
    /\ running = "up" /\ call[t] = Idle /\ t \notin up
    /\ up' = up \union {t}
    /\ UNCHANGED <<chain, applied, call, running, dirty, hopFaults, restarts, flushes>>

\* AddNode: the record is dropped first, then what the chain holds of the tag.
BeginApply(t, r) ==
    /\ running = "up" /\ call[t] = Idle /\ t \notin up
    /\ applied' = [applied EXCEPT ![t] = None]
    /\ call' = [call EXCEPT ![t] = [LoopOver("stale", t, r) EXCEPT !.cmd = 0]]
    /\ UNCHANGED <<chain, up, running, dirty, hopFaults, restarts, flushes>>

\* The chain of the next command is read, or cannot be.
ReadChain(t) ==
    LET k == call[t]
        next == [k EXCEPT !.cmd = @ + 1]
    IN /\ k.at = "stale" /\ k.listed = NoRules /\ k.cmd < Len(Commands)
       /\ \/ /\ call' = [call EXCEPT ![t] =
                    [next EXCEPT !.listed = Deletes(Commands[next.cmd], t)]]
             /\ UNCHANGED hopFaults
          \/ /\ Fault("list")
             /\ call' = [call EXCEPT ![t] = [next EXCEPT !.failed = TRUE]]
       /\ UNCHANGED <<chain, applied, up, running, dirty, restarts, flushes>>

DeleteStale(t, r) ==
    LET k == call[t]
        next == [k EXCEPT !.listed[r] = @ - 1]
    IN /\ k.at = "stale" /\ k.listed[r] > 0
       /\ DeleteStep(t, Commands[k.cmd], r, next, [next EXCEPT !.failed = TRUE])
       /\ UNCHANGED <<applied, up, running, restarts, flushes>>

StaleFailed(k) == k.failed

\* removeStale is over: its errors end Apply, and AddNode takes the node down.
StaleDone(t) ==
    LET k == call[t] IN
    /\ k.at = "stale" /\ k.listed = NoRules /\ k.cmd = Len(Commands)
    /\ call' = [call EXCEPT ![t] =
          IF StaleFailed(k) THEN Idle ELSE LoopOver("add", t, k.arg)]
    /\ dirty' = IF StaleFailed(k) THEN dirty ELSE dirty \ {t}
    /\ UNCHANGED <<chain, applied, up, running, hopFaults, restarts, flushes>>

\* What was installed is what the loop has passed.
AddRule(t) ==
    LET k == call[t]
        a == RuleAt(k)
    IN /\ k.at = "add" /\ ~Over(k)
       /\ \/ /\ chain' = [chain EXCEPT ![a.cmd][a.rule] = @ + 1]
             /\ call' = [call EXCEPT ![t] = Forward(k)]
             /\ UNCHANGED hopFaults
          \/ /\ Fault("add") /\ UNCHANGED chain
             /\ call' = [call EXCEPT ![t].at = "rollback"]
       /\ UNCHANGED <<applied, up, running, dirty, restarts, flushes>>

\* rollback: its errors are not reported.
RollBack(t) ==
    LET k == call[t]
        a == RuleAt(Back(k))
    IN /\ k.at = "rollback"
       /\ IF AtStart(k)
          THEN call' = [call EXCEPT ![t] = Idle] /\ UNCHANGED <<chain, dirty, hopFaults>>
          ELSE DeleteStep(t, a.cmd, a.rule, Back(k), Back(k))
       /\ UNCHANGED <<applied, up, running, restarts, flushes>>

RecordApplied(t, r) == applied' = [applied EXCEPT ![t] = r]

EndApply(t) ==
    LET k == call[t] IN
    /\ k.at = "add" /\ Over(k)
    /\ RecordApplied(t, k.arg)
    /\ up' = up \union {t}
    /\ call' = [call EXCEPT ![t] = Idle]
    /\ UNCHANGED <<chain, running, dirty, hopFaults, restarts, flushes>>

-----------------------------------------------------------------------------
(* Remove and RemoveAll                                                     *)

\* The record is taken out under the lock; without one there is nothing to do.
Take(t) == applied' = [applied EXCEPT ![t] = None]

\* DelNode.
BeginRemove(t) ==
    /\ running = "up" /\ call[t] = Idle /\ t \in up
    /\ Take(t)
    /\ up' = up \ {t}
    /\ call' = [call EXCEPT ![t] =
          IF applied[t] = None THEN Idle ELSE LoopOver("remove", t, applied[t])]
    /\ UNCHANGED <<chain, running, dirty, hopFaults, restarts, flushes>>

RemoveRule(p) ==
    LET k == call[p]
        a == RuleAt(k)
        next == Forward(k)
    IN /\ k.at = "remove" /\ k.tag # None /\ ~Over(k)
       /\ DeleteStep(p, a.cmd, a.rule, next, [next EXCEPT !.failed = TRUE])
       /\ UNCHANGED <<applied, up, running, restarts, flushes>>

EndRemove(t) ==
    /\ call[t].at = "remove" /\ Over(call[t])
    /\ call' = [call EXCEPT ![t] = Idle]
    /\ UNCHANGED <<chain, applied, up, running, dirty, hopFaults, restarts, flushes>>

\* Sing.Close: the tags recorded at this moment, one after the other, in the order of
\* their names, which is left open.  The nodes were closed before, which does not wait
\* for a monitor in the middle of a reload: a call of its own goes on.
BeginRemoveAll ==
    /\ running = "up"
    /\ running' = "closing"
    /\ call' = [call EXCEPT ![Main] = [Idle EXCEPT !.at = "remove",
          !.tags = {t \in Tags : applied[t] # None}]]
    /\ UNCHANGED <<chain, applied, up, dirty, hopFaults, restarts, flushes>>

RemoveNext(t) ==
    LET k == call[Main]
        rest == [Idle EXCEPT !.at = "remove", !.tags = k.tags \ {t}, !.failed = k.failed]
    IN /\ k.at = "remove" /\ (k.tag = None \/ Over(k)) /\ t \in k.tags
       /\ Take(t)
       /\ call' = [call EXCEPT ![Main] =
             IF applied[t] = None THEN rest
             ELSE [rest EXCEPT !.tag = t, !.arg = applied[t], !.cmd = 1]]
       /\ UNCHANGED <<chain, up, running, dirty, hopFaults, restarts, flushes>>

EndRemoveAll ==
    LET k == call[Main] IN
    /\ k.at = "remove" /\ (k.tag = None \/ Over(k)) /\ k.tags = {}
    /\ call' = [call EXCEPT ![Main] = Idle]
    /\ running' = "stopped"
    /\ UNCHANGED <<chain, applied, up, dirty, hopFaults, restarts, flushes>>

-----------------------------------------------------------------------------
(* The host                                                                 *)

\* The process is killed at any moment, or has stopped, and is started again.
Restart ==
    /\ restarts < MaxRestarts /\ restarts' = restarts + 1
    /\ running' = "up"
    /\ applied' = [t \in Tags |-> None]
    /\ up' = {}
    /\ call' = [p \in Procs |-> Idle]
    /\ dirty' = Tags
    /\ UNCHANGED <<chain, hopFaults, flushes>>

\* The operator flushes the table of one binary, their own rules with it.
Flush ==
    /\ flushes < MaxFlushes /\ flushes' = flushes + 1
    /\ \E c \in CommandSet : chain' = [chain EXCEPT ![c] = NoRules]
    /\ dirty' = Tags
    /\ UNCHANGED <<applied, up, call, running, hopFaults, restarts>>

-----------------------------------------------------------------------------
Apply(t) ==
    \/ AddPlain(t)
    \/ \E r \in Redirects : BeginApply(t, r)
    \/ ReadChain(t)
    \/ \E r \in Rules : DeleteStale(t, r)
    \/ StaleDone(t) \/ AddRule(t) \/ RollBack(t) \/ EndApply(t)

RemoveNode(t) == BeginRemove(t) \/ RemoveRule(t) \/ EndRemove(t)

RemoveAll ==
    \/ BeginRemoveAll \/ RemoveRule(Main) \/ EndRemoveAll
    \/ \E t \in Tags : RemoveNext(t)

HopNext ==
    \/ \E t \in Tags : Apply(t) \/ RemoveNode(t)
    \/ RemoveAll
    \/ Restart
    \/ Flush

HopSpec == HopInit /\ [][HopNext]_hopVars

-----------------------------------------------------------------------------
(* Properties                                                               *)

\* A rule of the operator is never touched (porthop.go, the package comment),
\* except by the operator.
OperatorRulesStay ==
    [][\A c \in CommandSet, r \in Rules :
          r.tag = None /\ chain'[c][r] # chain[c][r] => flushes' # flushes]_hopVars

\* How often the first n ranges of a redirect, or all of them, ask for a rule.
CopiesTo(d, r, n) == Cardinality({j \in 1 .. n : d.ranges[j] = r.range /\ d.port = r.port})
Copies(d, r) == CopiesTo(d, r, Len(d.ranges))

\* All rules of a node belong to one redirect, none more often than that asks for it,
\* whatever was killed, failed or flushed before (porthop.go, removeStale: without it
\* the chain grows one stale rule per unclean restart).
NoStacking ==
    \A t \in Tags : \E d \in Redirects :
        \A c \in CommandSet, r \in Rules : r.tag = t => chain[c][r] <= Copies(d, r)

\* Rules do not stack, and the record and the chain agree on a node without a call
\* under way: what is recorded is installed, all of it (porthop.go, Apply: the host is
\* never left half configured), and what is installed can be found by RemoveAll.
RecordMatchesChain ==
    /\ NoStacking
    /\ \A t \in Tags \ dirty : call[t] = Idle /\ call[Main] = Idle =>
          \A c \in CommandSet, r \in Rules : r.tag = t =>
              chain[c][r] = IF applied[t] = None THEN 0 ELSE Copies(applied[t], r)

\* A table flushed by hand does not fail a node (porthop.go, Apply): while no
\* command fails of itself, the removal of a node reports no error.
FlushHarmless == \A p \in Procs : call[p].at = "remove" => ~call[p].failed

\* A stopped process leaves no redirect behind (porthop.go, RemoveAll).
StoppedClean ==
    running = "stopped" =>
        \A c \in CommandSet, r \in Rules : r.tag # None => chain[c][r] = 0
=============================================================================
