------------------------------ MODULE NodeSync ------------------------------
(***************************************************************************)
(* The monitor task of a started node (node/task.go nodeInfoMonitor): it    *)
(* polls the panel through the client and brings the core's inbound, its    *)
(* users and the limiter in step, by an update in place where it can and by *)
(* a reload otherwise.  Any stage may fail, up to a budget of faults.       *)
(*                                                                          *)
(* A configuration is [type, body, flow, policy]: the part the tag is made  *)
(* of, what only a new listener can take, the ArtX flow-control tier, and   *)
(* the device-limit policy.  A user list maps a credential to [id, limit]   *)
(* or None.                                                                 *)
(***************************************************************************)
EXTENDS PanelClient

CONSTANTS
    Types,      \* node types; the tag of an unnamed node follows its type
    Uuids,      \* credentials
    Core,       \* the core: "sing", "xray", or "selector" over both
    Faults,     \* the stages that may fail
    MaxFaults   \* how many failures there are

Fields(f) == {c[f] : c \in Contents}
Configs == [type : Types, body : Fields("body"), flow : Fields("flow"),
            policy : Fields("policy")]

\* What a list holds for a credential, and the ids in it.
Entries == UNION {{l[u] : u \in Uuids} : l \in UserBodies}
UserIds == {e.id : e \in Entries \ {None}}

\* What a limiter and an inbound are made of.
LimiterStates == [users : [Uuids -> Entries], policy : Fields("policy")]
CoreUsers == [Uuids -> UserIds \union {None}]
InboundStates == [cfg : Configs, users : CoreUsers]

ASSUME SyncConstants ==
    /\ Contents \subseteq Configs
    /\ \A l \in UserBodies : l = [u \in Uuids |-> l[u]]
    /\ None \notin UserIds \union LimiterStates \union InboundStates
    /\ Core \in {"sing", "xray", "selector"}
    /\ Faults \subseteq {"node", "users", "retier", "del", "cert", "add",
                         "populate", "delUsers", "addUsers"}
    /\ MaxFaults \in Nat

VARIABLES
    at,        \* where the monitor is
    newN,      \* the configuration the poll returned
    newU,      \* the user list the poll returned
    info,      \* c.info
    userList,  \* c.userList
    tag,       \* c.tag
    limiters,  \* the registered limiters: tag -> [users, policy]
    bound,     \* the core's inbounds: tag -> [cfg, users]
    rates,     \* the core's table of plan rates: tag -> rates of its users
    faults     \* failures so far

ctrlVars == <<newN, newU, info, userList, tag, limiters, bound, rates>>
syncVars == <<clientVars, at, ctrlVars, faults>>

buildNodeTag(n) == n.type

\* The ids the core counts the traffic of a list against.
Ids(list) == [u \in Uuids |-> IF list[u] = None THEN None ELSE list[u].id]

\* The rates of a list, None for whoever is not in it.
buildArtXUserRates(list) ==
    [u \in Uuids |-> IF list[u] = None THEN None ELSE list[u].limit]

\* Of the cores only xray has the table; its nodes are ArtX nodes here.
HasRates == Core = "xray"

\* A node that has just been started from what the panel serves.
SyncInit ==
    /\ nodeBody \in Bodies /\ userBody \in UserBodies
    /\ edits = 0 /\ pushes = 0
    /\ nodeEtag = nodeBody /\ nodeConfigHash = nodeBody.content
    /\ nodeCacheVersion = 0 /\ nodeRetryVersion = 0
    /\ userEtag = userBody
    /\ call = Idle
    /\ handed = nodeBody.content /\ handedRetry = 0 /\ handedUsers = userBody
    /\ at = "idle" /\ newN = None /\ newU = None
    /\ info = nodeBody.content /\ userList = userBody
    /\ tag = buildNodeTag(info)
    /\ limiters = [t \in Types |-> IF t = tag
          THEN [users |-> userList, policy |-> info.policy] ELSE None]
    /\ bound = [t \in Types |-> IF t = tag
          THEN [cfg |-> info, users |-> Ids(userList)] ELSE None]
    /\ rates = [t \in Types |->
          IF t = tag /\ HasRates THEN buildArtXUserRates(userList) ELSE None]
    /\ faults = 0

\* A stage fails.
Fault(stage) == stage \in Faults /\ faults < MaxFaults /\ faults' = faults + 1

-----------------------------------------------------------------------------
(* The poll                                                                 *)

Poll ==
    /\ at = "idle" /\ BeginNode
    /\ at' = "node"
    /\ UNCHANGED <<ctrlVars, faults>>

GotNode ==
    /\ at = "node" /\ FinishNode
    /\ IF call.status = "error"
       THEN at' = "idle" /\ newN' = None
       ELSE at' = "gotNode" /\ newN' = NodeResult
    /\ UNCHANGED <<newU, info, userList, tag, limiters, bound, rates, faults>>

AskUsers ==
    /\ at = "gotNode" /\ BeginUsers
    /\ at' = "users"
    /\ UNCHANGED <<ctrlVars, faults>>

\* A failed user list ends the run: the configuration is dropped with it.
GotUsers ==
    /\ at = "users" /\ FinishUsers
    /\ IF call.status = "error"
       THEN at' = "idle" /\ newN' = None /\ newU' = None
       ELSE at' = "decide" /\ newU' = UsersResult /\ UNCHANGED newN
    /\ UNCHANGED <<info, userList, tag, limiters, bound, rates, faults>>

\* The panel and the network; only so many requests fail.
Network ==
    /\ \/ /\ \/ \E b \in Bodies : EditNode(b)
             \/ \E l \in UserBodies : EditUsers(l)
             \/ Answer
             \/ PushConfig
             \/ PushUsers
          /\ UNCHANGED faults
       \/ Fail /\ Fault(call.kind)
    /\ UNCHANGED <<at, ctrlVars>>

-----------------------------------------------------------------------------
(* The run is over, or the reload is given up                               *)

Done == at' = "idle" /\ newN' = None /\ newU' = None

\* Mutant: the cached hash is kept.
abortReloadSilently == Done /\ UNCHANGED clientVars

abortReload == Done /\ ForceRetry

-----------------------------------------------------------------------------
(* The plan rates the core sizes its windows by                             *)

\* SetArtXUserRates: the slice of a tag is replaced.
SetRates(t, list) ==
    IF HasRates THEN [rates EXCEPT ![t] = buildArtXUserRates(list)] ELSE rates

publishArtXUserRates(list) == rates' = SetRates(tag, list)

\* ClearArtXUserRates.
ClearRates(t) == [rates EXCEPT ![t] = None]

clearArtXUserRatesForTag(t) == rates' = ClearRates(t)

-----------------------------------------------------------------------------
(* Updates in place                                                         *)

Masked(c, f) == [c EXCEPT ![f] = None]

artXFlowControlOnlyChange(o, n) ==
    o.flow # n.flow /\ Masked(o, "flow") = Masked(n, "flow")

\* Mutant: no change is only the device-limit policy.
deviceLimitNeverOnly(o, n) == FALSE

deviceLimitOnlyChange(o, n) ==
    o.policy # n.policy /\ Masked(o, "policy") = Masked(n, "policy")

\* Only the xray core offers the hook, and only for an inbound it has.
CanRetier == /\ newN # None /\ artXFlowControlOnlyChange(info, newN)
             /\ Core = "xray" /\ bound[tag] # None

Retier ==
    /\ at = "decide" /\ CanRetier
    /\ bound' = [bound EXCEPT ![tag].cfg.flow = newN.flow]
    /\ info' = newN /\ newN' = None /\ at' = "diff"
    /\ UNCHANGED <<clientVars, newU, userList, tag, limiters, rates, faults>>

\* Mutant: the policy is adopted but never handed to the limiter.
KeepPolicy(l, p) == l

SetPolicy(l, p) == [l EXCEPT !.policy = p]

applyDeviceLimitInPlace ==
    /\ at = "decide" /\ newN # None /\ deviceLimitOnlyChange(info, newN)
    /\ limiters' = [limiters EXCEPT ![tag] = SetPolicy(@, newN.policy)]
    /\ info' = newN /\ newN' = None /\ at' = "diff"
    /\ UNCHANGED <<clientVars, newU, userList, tag, bound, rates, faults>>

NoNodeChange ==
    /\ at = "decide" /\ newN = None
    /\ at' = "diff"
    /\ UNCHANGED <<clientVars, ctrlVars, faults>>

-----------------------------------------------------------------------------
(* The reload                                                               *)

\* DelNode of a tag the core does not have: the sing-box core takes it for
\* done, the selector (and xray) reports an error.
DelNodeFails == bound[tag] = None /\ Core # "sing"

\* Mutant: a list that came with the new configuration is left for later.
ReloadListOld == userList

ReloadList == IF newU = None THEN userList ELSE newU

\* A failing DelNode may have removed the inbound: the cores go on after the
\* first error and join them.
DelNode ==
    /\ at = "decide" /\ newN # None
    /\ ~deviceLimitOnlyChange(info, newN)
    /\ info' = newN
    /\ userList' = ReloadList
    /\ \/ /\ ~CanRetier /\ ~DelNodeFails
          /\ bound' = [bound EXCEPT ![tag] = None]
          /\ at' = "rebuild"
          /\ UNCHANGED <<clientVars, newN, newU, faults>>
       \/ /\ CanRetier /\ Fault("retier")
          /\ bound' = [bound EXCEPT ![tag] = None]
          /\ at' = "rebuild"
          /\ UNCHANGED <<clientVars, newN, newU>>
       \/ /\ ~CanRetier
          /\ \/ DelNodeFails /\ UNCHANGED <<bound, faults>>
             \/ Fault("del") /\ UNCHANGED bound
             \/ Fault("del") /\ bound' = [bound EXCEPT ![tag] = None]
          /\ abortReload
    /\ UNCHANGED <<tag, limiters, rates>>

DeleteLimiter(t) == [limiters EXCEPT ![t] = None]

\* The limiter is replaced, under the new tag.
RebuildLimiter ==
    /\ at = "rebuild"
    /\ tag' = buildNodeTag(newN)
    /\ limiters' = [DeleteLimiter(tag) EXCEPT
          ![buildNodeTag(newN)] = [users |-> userList, policy |-> newN.policy]]
    /\ clearArtXUserRatesForTag(tag)
    /\ \/ at' = "bind" /\ UNCHANGED <<clientVars, newN, newU, faults>>
       \/ Fault("cert") /\ abortReload
    /\ UNCHANGED <<info, userList, bound>>

NoUsers == [u \in Uuids |-> None]

AddNode ==
    /\ at = "bind"
    /\ \/ /\ bound' = [bound EXCEPT ![tag] = [cfg |-> newN, users |-> NoUsers]]
          /\ at' = "populate"
          /\ UNCHANGED <<clientVars, newN, newU, faults>>
       \/ Fault("add") /\ abortReload /\ UNCHANGED bound
    /\ UNCHANGED <<info, userList, tag, limiters, rates>>

\* The core's users after some of a list were added or removed.
With(us, list, S) == [u \in Uuids |-> IF u \in S THEN Ids(list)[u] ELSE us[u]]
Without(us, S) == [u \in Uuids |-> IF u \in S THEN None ELSE us[u]]
SetUsers(us) == bound' = [bound EXCEPT ![tag] = [@ EXCEPT !.users = us]]

\* A core adds users one by one and stops at the first it cannot add.
AddAllUsers ==
    /\ at = "populate"
    /\ \/ /\ SetUsers(Ids(userList)) /\ Done
          /\ publishArtXUserRates(userList)
          /\ UNCHANGED <<clientVars, faults>>
       \/ \E S \in SUBSET Uuids :
             /\ SetUsers(With(NoUsers, userList, S))
             /\ Fault("populate") /\ abortReload
             /\ UNCHANGED rates
    /\ UNCHANGED <<info, userList, tag, limiters>>

-----------------------------------------------------------------------------
(* The user diff (compareUserList)                                          *)

Deleted == {u \in Uuids : userList[u] # None /\ newU[u] = None}

Added == {u \in Uuids : userList[u] = None /\ newU[u] # None}

NoUserChange ==
    /\ at = "diff" /\ newU = None
    /\ Done
    /\ UNCHANGED <<clientVars, info, userList, tag, limiters, bound, rates, faults>>

DelUsers ==
    /\ at = "diff" /\ newU # None
    /\ \/ /\ IF Deleted = {} THEN UNCHANGED bound
             ELSE bound[tag] # None /\ SetUsers(Without(bound[tag].users, Deleted))
          /\ at' = "diffAdd" /\ UNCHANGED <<newN, newU, faults>>
       \/ /\ Deleted # {}
          /\ \/ bound[tag] = None /\ UNCHANGED <<bound, faults>>
             \/ \E S \in SUBSET Deleted :
                   /\ bound[tag] # None
                   /\ SetUsers(Without(bound[tag].users, S))
                   /\ Fault("delUsers")
          /\ Done
    /\ UNCHANGED <<clientVars, info, userList, tag, limiters, rates>>

\* UpdateUser: what changed, by membership or in a limit.
UpdatedLimiter == [u \in Uuids |->
    IF userList[u] # newU[u] THEN newU[u] ELSE limiters[tag].users[u]]

AddUsers ==
    /\ at = "diffAdd"
    /\ \/ /\ IF Added = {} THEN UNCHANGED bound
             ELSE bound[tag] # None /\ SetUsers(With(bound[tag].users, newU, Added))
          /\ limiters' = [limiters EXCEPT ![tag] = [@ EXCEPT !.users = UpdatedLimiter]]
          /\ userList' = newU
          /\ publishArtXUserRates(newU)
          /\ UNCHANGED faults
       \/ /\ Added # {}
          /\ \/ bound[tag] = None /\ UNCHANGED <<bound, faults>>
             \/ \E S \in SUBSET Added :
                   /\ bound[tag] # None
                   /\ SetUsers(With(bound[tag].users, newU, S))
                   /\ Fault("addUsers")
          /\ UNCHANGED <<limiters, userList, rates>>
    /\ Done
    /\ UNCHANGED <<clientVars, info, tag>>

-----------------------------------------------------------------------------
nodeInfoMonitor ==
    \/ Poll \/ GotNode \/ AskUsers \/ GotUsers
    \/ Retier \/ applyDeviceLimitInPlace \/ NoNodeChange
    \/ DelNode \/ RebuildLimiter \/ AddNode \/ AddAllUsers
    \/ NoUserChange \/ DelUsers \/ AddUsers

SyncNext == nodeInfoMonitor \/ Network

SyncSpec == SyncInit /\ [][SyncNext]_syncVars

\* The task runs on its interval and a run goes on; requests are answered or
\* fail.
FairSyncSpec == /\ SyncSpec
                /\ WF_syncVars(nodeInfoMonitor)
                /\ WF_syncVars(Answer /\ UNCHANGED <<at, ctrlVars, faults>>)

-----------------------------------------------------------------------------
(* Properties                                                               *)

\* The node runs a configuration: a listener of its body and tier under its
\* tag, a limiter with its policy, and nothing under a tag it had before.
Runs(c) ==
    /\ tag = buildNodeTag(c)
    /\ bound[tag] # None /\ Masked(bound[tag].cfg, "policy") = Masked(c, "policy")
    /\ limiters[tag] # None /\ limiters[tag].policy = c.policy
    /\ \A t \in Types \ {tag} : limiters[t] = None /\ bound[t] = None /\ rates[t] = None

\* The core serves exactly the users of a list and the limiter has their limits.
Serves(l) ==
    /\ bound[tag] # None
    /\ \A u \in Uuids : bound[tag].users[u] = None <=> l[u] = None
    /\ limiters[tag] # None /\ limiters[tag].users = l

\* What the client takes for applied is applied (task.go, abortReload: a
\* stored hash of a body that was not applied leaves the node silently dark):
\* between runs, a configuration whose hash is cached is the one that runs.
KnownIsApplied ==
    at = "idle" /\ nodeConfigHash # None => Runs(nodeConfigHash)

\* The same for the users: between runs, the list whose ETag is cached is
\* what core and limiter have, unless a reload is to be retried.
UsersApplied ==
    at = "idle" /\ nodeConfigHash # None /\ userEtag # None => Serves(userEtag)

\* A user diff that fails halfway leaves limiter and list on the same side
\* (task.go: UpdateUser runs after the core took the changes, and c.userList
\* moves with it), and so do a policy taken in place and the plan rates, which are
\* published again after every diff and every reload: between runs they agree,
\* whatever users the core has got.
LimiterFollowsList ==
    at = "idle" => /\ limiters[tag] # None /\ limiters[tag].users = userList
                   /\ limiters[tag].policy = info.policy
                   /\ HasRates => rates[tag] = buildArtXUserRates(userList)

\* A listener is taken down only for what needs a new one (task.go: a tier or
\* a policy is taken in place, a reload would drop every session on the node
\* for nothing) or for the retry of a reload.
SessionsKept ==
    [][\A t \in Types : bound[t] # None /\ bound'[t] = None =>
          \/ newN = info
          \/ faults' # faults
          \/ Masked(info, "policy") # Masked(newN, "policy")
                /\ Masked(info, "flow") # Masked(newN, "flow")]_syncVars

\* A reload is given up only for a failure of its own: a retry in which
\* nothing fails rebuilds the node (task.go, abortReload: the next tick
\* re-pulls and retries the whole reload).
RetryRebuilds ==
    [][nodeRetryVersion' # nodeRetryVersion => faults' # faults]_syncVars

\* Traffic is counted against the panel user who holds the credential
\* (core/sing/user.go, rememberUsers): between runs the ids in the core are
\* those of the current list.
CountedAgainstHolder ==
    at = "idle" /\ bound[tag] # None =>
        \A u \in Uuids : bound[tag].users[u] # None /\ userList[u] # None =>
            bound[tag].users[u] = userList[u].id

\* Once the panel is left alone and the failures end, the node runs what the
\* panel serves and keeps running it.
Converges ==
    <>[](Runs(nodeBody.content) /\ Serves(userBody))
=============================================================================
