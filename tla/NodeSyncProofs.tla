--------------------------- MODULE NodeSyncProofs ---------------------------
(***************************************************************************)
(* The client's cache is truthful, and a configuration is not handed over   *)
(* twice, for any number of edits, pushes and retries; and what the monitor *)
(* of a node makes of it, whatever the panel edits and whichever of the     *)
(* stages a theorem allows to fail do fail.                                 *)
(***************************************************************************)
EXTENDS NodeSync, TLAPS

\* A leaf is left to Zenon unless it names another prover.
USE ZenonT(60)

\* What the versions say of the request in flight: a retry bumps both, so an
\* unchanged cache version means an unchanged retry version; anything that
\* happened in flight has emptied what it invalidates.
InFlight ==
    call.kind = "node" =>
        /\ call.retryVersion <= nodeRetryVersion
        /\ nodeRetryVersion - call.retryVersion
               <= nodeCacheVersion - call.cacheVersion
        /\ nodeRetryVersion # call.retryVersion => nodeConfigHash = None
        /\ nodeCacheVersion # call.cacheVersion => nodeEtag = None

\* The hash is lost only to a retry that is still owed.
HashComplete ==
    /\ handedRetry <= nodeRetryVersion
    /\ nodeConfigHash = None => handed = None \/ handedRetry < nodeRetryVersion
    /\ call.kind = "node" =>
          /\ handedRetry <= call.retryVersion
          /\ call.hash = None => handed = None \/ handedRetry < call.retryVersion
          /\ call.hash # None => call.hash = handed /\ handedRetry = call.retryVersion

ClientInv == ClientTypeOK /\ CacheTruthful /\ UserCacheTruthful
                 /\ InFlight /\ HashComplete

\* The client starts with an empty cache, which satisfies the invariant.
LEMMA ClientInitInv == ClientInit => ClientInv
BY SMTT(60), ClientConstants DEF ClientInit, ClientInv, ClientTypeOK, CacheTruthful,
   UserCacheTruthful, InFlight, HashComplete, Idle, Owed

\* What can happen to the client, however often a retry is forced.
ClientMoves ==
    \/ Panel \/ BeginNode \/ FinishNode \/ BeginUsers \/ FinishUsers
    \/ PushConfig \/ PushUsers \/ ForceRetry

\* Every step of the client, the panel and the pushes preserves it.
LEMMA ClientStepInv == ClientInv /\ [ClientMoves]_clientVars => ClientInv'
<1> SUFFICES ASSUME ClientInv, [ClientMoves]_clientVars PROVE ClientInv'
    OBVIOUS
<1> USE ClientConstants DEF ClientInv
<1>1. ASSUME NEW b \in Bodies, EditNode(b) PROVE ClientInv'
    BY SMTT(60), <1>1 DEF EditNode, cacheVars, handVars, ClientTypeOK, CacheTruthful,
       UserCacheTruthful, InFlight, HashComplete, Owed
<1>2. ASSUME NEW l \in UserBodies, EditUsers(l) PROVE ClientInv'
    BY SMTT(60), <1>2 DEF EditUsers, cacheVars, handVars, ClientTypeOK, CacheTruthful,
       UserCacheTruthful, InFlight, HashComplete, Owed
<1>3. CASE Answer
    BY SMTT(60), <1>3 DEF Answer, panelVars, cacheVars, handVars, ClientTypeOK, CacheTruthful,
       UserCacheTruthful, InFlight, HashComplete, Owed
<1>4. CASE Fail
    BY SMTT(60), <1>4 DEF Fail, panelVars, cacheVars, handVars, ClientTypeOK, CacheTruthful,
       UserCacheTruthful, InFlight, HashComplete, Owed
<1>5. CASE BeginNode
    BY SMTT(60), <1>5 DEF BeginNode, panelVars, cacheVars, handVars, ClientTypeOK,
       CacheTruthful, UserCacheTruthful, InFlight, HashComplete, Owed
<1>6. CASE FinishNode
    BY SMTT(60), <1>6 DEF FinishNode, NodeResult, StoreHash, StoreEtag, Idle, Bodies,
       panelVars, ClientTypeOK, CacheTruthful, UserCacheTruthful, InFlight,
       HashComplete, Owed
<1>7. CASE BeginUsers
    BY <1>7 DEF BeginUsers, Idle, panelVars, cacheVars, handVars, ClientTypeOK,
       CacheTruthful, UserCacheTruthful, InFlight, HashComplete, Owed
<1>8. CASE FinishUsers
    BY <1>8 DEF FinishUsers, UserEtagOf, Idle, panelVars, ClientTypeOK,
       CacheTruthful, UserCacheTruthful, InFlight, HashComplete, Owed
<1>9. CASE PushConfig
    BY SMTT(60), <1>9 DEF PushConfig, panelVars, handVars, ClientTypeOK, CacheTruthful,
       UserCacheTruthful, InFlight, HashComplete, Owed
<1>10. CASE PushUsers
    BY SMTT(60), <1>10 DEF PushUsers, panelVars, handVars, ClientTypeOK, CacheTruthful,
       UserCacheTruthful, InFlight, HashComplete, Owed
<1>11. CASE ForceRetry
    BY SMTT(60), <1>11 DEF ForceRetry, panelVars, handVars, ClientTypeOK, CacheTruthful,
       UserCacheTruthful, InFlight, HashComplete, Owed
<1>12. CASE UNCHANGED clientVars
    BY SMTT(60), <1>12 DEF clientVars, panelVars, cacheVars, handVars, ClientTypeOK,
       CacheTruthful, UserCacheTruthful, InFlight, HashComplete, Owed
<1> QED
    BY <1>1, <1>2, <1>3, <1>4, <1>5, <1>6, <1>7, <1>8, <1>9, <1>10, <1>11, <1>12
       DEF ClientMoves, Panel

\* The inductive invariant of the conditional fetches holds.
THEOREM ClientInvariant == ClientSpec => []ClientInv
<1>1. [ClientNext]_clientVars => [ClientMoves]_clientVars
    BY DEF ClientNext, ClientMoves
<1> QED
    BY <1>1, ClientInitInv, ClientStepInv, PTL DEF ClientSpec

\* What the client remembers was handed over, and no forced retry is lost.
THEOREM CacheNeverLies == ClientSpec => [](CacheTruthful /\ UserCacheTruthful)
<1>1. ClientInv => CacheTruthful /\ UserCacheTruthful
    BY DEF ClientInv
<1> QED
    BY <1>1, ClientInvariant, PTL

\* A configuration is handed over again only for a forced retry.
THEOREM HandoversAreNews == ClientSpec => NoRepeatedHandover
<1>1. ASSUME ClientInv, call.kind = "node", NodeResult \in Contents
      PROVE  NodeResult # handed \/ Owed
    BY SMTT(60), <1>1, ClientConstants DEF ClientInv, HashComplete, InFlight, ClientTypeOK,
       NodeResult, Owed
<1>2. ClientInv /\ [ClientNext]_clientVars
        => [call.kind = "node" /\ call' = Idle /\ NodeResult \in Contents
               => NodeResult # handed \/ Owed]_clientVars
    BY <1>1
<1> QED
    BY <1>2, ClientInvariant, PTL DEF ClientSpec, NoRepeatedHandover
-----------------------------------------------------------------------------
(* The monitor                                                              *)

\* No stage of a reload fails.
NoReloadFaults == Faults \intersect {"del", "cert", "add", "populate"} = {}

\* No two configurations differ in a tier or in a policy alone.
NoInPlaceEdits ==
    \A c, d \in Contents : /\ ~deviceLimitOnlyChange(c, d)
                           /\ Core = "xray" => ~artXFlowControlOnlyChange(c, d)

Reloading == at \in {"rebuild", "bind", "populate"}

SyncTypes ==
    /\ at \in {"idle", "node", "gotNode", "users", "decide", "diff", "diffAdd",
               "rebuild", "bind", "populate"}
    /\ newN \in Contents \union {None} /\ newU \in UserBodies \union {None}
    /\ info \in Contents /\ userList \in UserBodies /\ tag \in Types
    /\ limiters \in [Types -> LimiterStates \union {None}]
    /\ bound \in [Types -> InboundStates \union {None}]
    /\ rates = [t \in Types |-> rates[t]]
    /\ faults \in Nat

\* Where the monitor is says which request is out and what it has in hand.
Walk ==
    /\ at = "node" <=> call.kind = "node"
    /\ at = "users" <=> call.kind = "users"
    /\ call.kind = "node" => /\ call.retryVersion = nodeRetryVersion
                             /\ call.hash = nodeConfigHash
    /\ call.status = "error" => call.kind \in Faults
    /\ at \in {"idle", "node", "diff", "diffAdd"} => newN = None
    /\ at \in {"idle", "node", "gotNode", "users"} => newU = None
    /\ at = "diffAdd" => newU # None

\* A forgotten hash is fetched again before anything else happens; a
\* configuration in hand is the one whose hash is stored.
Cached ==
    /\ nodeConfigHash = None =>
          /\ nodeEtag = None /\ at \in {"idle", "node"}
          /\ call.kind = "node" => call.etag = None
    /\ call.kind = "node" /\ call.etag = None => call.status # "304"
    /\ newN # None => nodeConfigHash = newN
    /\ Reloading => newN # None /\ newN = info

\* There is one tag, and the reload has got as far as its stage says.
Placed ==
    /\ \A t \in Types \ {tag} : limiters[t] = None /\ bound[t] = None /\ rates[t] = None
    /\ limiters[tag] # None
    /\ at \in {"rebuild", "bind"} => bound[tag] = None
    /\ at \in {"bind", "populate"} =>
          /\ tag = buildNodeTag(newN)
          /\ limiters[tag] = [users |-> userList, policy |-> newN.policy]
    /\ at = "populate" => bound[tag] = [cfg |-> newN, users |-> NoUsers]

\* While reloads do not fail, the node runs c.info and the limiter has
\* c.userList, outside of the reload.
InStep ==
    NoReloadFaults /\ ~Reloading =>
        /\ Runs(info) /\ limiters[tag].users = userList
        /\ HasRates => rates[tag] = buildArtXUserRates(userList)

\* The poll has brought no configuration, or it has been applied.
Settled == ~Reloading /\ newN = None

KnownSettled == Settled /\ nodeConfigHash # None

\* While a stored hash is not lost to a failed user list, and no edit is taken
\* in place by a node that failed to reload, a stored hash is c.info's.
HashKept == "users" \notin Faults /\ (NoReloadFaults \/ NoInPlaceEdits)
Applied ==
    HashKept /\ nodeConfigHash # None /\ Settled =>
        info = nodeConfigHash /\ Runs(info)

\* What the core has between the two halves of a diff.
HalfServes ==
    /\ limiters[tag].users = userList
    /\ \A u \in Uuids : bound[tag].users[u] = None
                            <=> userList[u] = None \/ newU[u] = None

\* And while diffs do not fail, so it is with the list.
ListKept == HashKept /\ Faults \intersect {"delUsers", "addUsers"} = {}
ListApplied ==
    ListKept =>
        /\ userEtag # None =>
              userEtag = IF at \in {"decide", "diff", "diffAdd"}
                         THEN ReloadList ELSE userList
        /\ ~Reloading /\ (KnownSettled \/ NoReloadFaults) =>
              IF at = "diffAdd" THEN HalfServes ELSE Serves(userList)

SyncInv == /\ ClientInv /\ SyncTypes /\ Walk /\ Cached /\ Placed
           /\ InStep /\ Applied /\ ListApplied

\* A configuration in hand has its four fields.
LEMMA ConfigParts ==
    ASSUME NEW c \in Contents
    PROVE  /\ c \in Configs /\ c.type \in Types /\ c.policy \in Fields("policy")
           /\ c.flow \in Fields("flow") /\ c # None
BY SyncConstants, ClientConstants DEF Configs

\* Two configurations masked in a field are equal when the others are.
LEMMA MaskedPolicy ==
    ASSUME NEW a \in Configs, NEW b \in Configs
    PROVE  Masked(a, "policy") = Masked(b, "policy")
               <=> a.type = b.type /\ a.body = b.body /\ a.flow = b.flow
BY DEF Masked, Configs

LEMMA MaskedFlow ==
    ASSUME NEW a \in Configs, NEW b \in Configs
    PROVE  Masked(a, "flow") = Masked(b, "flow")
               <=> a.type = b.type /\ a.body = b.body /\ a.policy = b.policy
BY DEF Masked, Configs

LEMMA SameConfig ==
    ASSUME NEW a \in Configs, NEW b \in Configs, a.type = b.type, a.body = b.body,
           a.flow = b.flow, a.policy = b.policy
    PROVE  a = b
BY SMTT(60) DEF Configs

\* A list has an entry for every credential.
LEMMA ListType ==
    ASSUME NEW l \in UserBodies
    PROVE  l \in [Uuids -> Entries] /\ l # None
BY SMTT(60), SyncConstants, ClientConstants DEF Entries

\* What the cores are given of a list, or of part of it.
LEMMA IdsType ==
    ASSUME NEW l \in UserBodies
    PROVE  /\ Ids(l) \in CoreUsers
           /\ \A u \in Uuids : Ids(l)[u] = None <=> l[u] = None
<1>1. ASSUME NEW u \in Uuids, l[u] # None PROVE l[u].id \in UserIds
    BY <1>1, ListType DEF UserIds
<1>2. None \notin UserIds
    BY SyncConstants
<1> QED
    BY <1>1, <1>2 DEF Ids, CoreUsers

LEMMA WithType ==
    \A l \in UserBodies, S \in SUBSET Uuids, us \in CoreUsers :
        /\ With(us, l, S) \in CoreUsers
        /\ \A u \in Uuids : With(us, l, S)[u] = None
               <=> IF u \in S THEN l[u] = None ELSE us[u] = None
BY IdsType DEF With, CoreUsers

LEMMA WithoutType ==
    \A S \in SUBSET Uuids, us \in CoreUsers :
        /\ Without(us, S) \in CoreUsers
        /\ \A u \in Uuids : Without(us, S)[u] = None <=> u \in S \/ us[u] = None
BY DEF Without, CoreUsers

LEMMA NoUsersType == NoUsers \in CoreUsers /\ \A u \in Uuids : NoUsers[u] = None
BY DEF NoUsers, CoreUsers

\* How limiters and inbounds are put together and taken apart.
LEMMA LimiterMade ==
    ASSUME NEW l \in [Uuids -> Entries], NEW p \in Fields("policy")
    PROVE  [users |-> l, policy |-> p] \in LimiterStates
BY DEF LimiterStates

LEMMA LimiterParts ==
    ASSUME NEW x \in LimiterStates
    PROVE  /\ x = [users |-> x.users, policy |-> x.policy] /\ x # None
           /\ x.users \in [Uuids -> Entries] /\ x.policy \in Fields("policy")
BY SyncConstants DEF LimiterStates

LEMMA InboundMade ==
    ASSUME NEW c \in Configs, NEW us \in CoreUsers
    PROVE  [cfg |-> c, users |-> us] \in InboundStates
BY DEF InboundStates

LEMMA InboundParts ==
    ASSUME NEW x \in InboundStates
    PROVE  /\ x = [cfg |-> x.cfg, users |-> x.users] /\ x # None
           /\ x.cfg \in Configs /\ x.users \in CoreUsers
BY SyncConstants DEF InboundStates

\* A tier taken in place changes that field of the inbound only.
LEMMA Retiered ==
    ASSUME NEW x \in InboundStates, NEW f \in Fields("flow")
    PROVE  /\ [x EXCEPT !.cfg.flow = f] \in InboundStates
           /\ [x EXCEPT !.cfg.flow = f].users = x.users
           /\ [x EXCEPT !.cfg.flow = f].cfg = [x.cfg EXCEPT !.flow = f]
           /\ [x.cfg EXCEPT !.flow = f] \in Configs
BY DEF InboundStates, Configs

\* The core's table of inbounds changes under the node's tag only.
LEMMA UsersSet ==
    ASSUME NEW us \in CoreUsers, SyncTypes, SetUsers(us), bound[tag] # None
    PROVE  /\ bound' \in [Types -> InboundStates \union {None}]
           /\ \A t \in Types \ {tag} : bound'[t] = bound[t]
           /\ bound'[tag] = [cfg |-> bound[tag].cfg, users |-> us]
           /\ bound'[tag] # None
<1> DEFINE b == [cfg |-> bound[tag].cfg, users |-> us]
<1>1. bound[tag] = [cfg |-> bound[tag].cfg, users |-> bound[tag].users]
          /\ bound[tag].cfg \in Configs
    BY InboundParts DEF SyncTypes
<1>2. b \in InboundStates
    BY <1>1, InboundMade
<1>3. b # None
    BY <1>2, InboundParts
<1>4. bound' = [bound EXCEPT ![tag] = b]
    <2>1. [bound[tag] EXCEPT !.users = us] = b
        BY SMTT(60), <1>1
    <2> QED
        BY <2>1 DEF SetUsers
<1> HIDE DEF b
<1>5. /\ bound' \in [Types -> InboundStates \union {None}]
      /\ \A t \in Types \ {tag} : bound'[t] = bound[t]
      /\ bound'[tag] = b
    BY <1>2, <1>4 DEF SyncTypes
<1> QED
    BY <1>3, <1>5 DEF b

\* Whatever part of a list a core takes or drops, what it has is well formed.
LEMMA UsersChange ==
    ASSUME SyncTypes, Walk, Cached, Placed, AddAllUsers \/ DelUsers \/ AddUsers
    PROVE  \/ UNCHANGED bound
           \/ bound[tag] # None /\ \E us \in CoreUsers : SetUsers(us)
<1>1. bound[tag] # None => bound[tag].users \in CoreUsers
    BY InboundParts DEF SyncTypes
<1>2. CASE AddAllUsers
    <2>1. bound[tag] # None
        BY <1>2, InboundMade, InboundParts, ConfigParts, NoUsersType
           DEF AddAllUsers, Placed, SyncTypes, Cached, Reloading
    <2>2. /\ Ids(userList) \in CoreUsers
          /\ \A S \in SUBSET Uuids : With(NoUsers, userList, S) \in CoreUsers
        BY IdsType, WithType, NoUsersType DEF SyncTypes
    <2> QED
        BY <1>2, <2>1, <2>2 DEF AddAllUsers
<1>3. CASE DelUsers
    <2>1. ASSUME NEW S \in SUBSET Deleted, bound[tag] # None
          PROVE  Without(bound[tag].users, S) \in CoreUsers
        <3>1. S \in SUBSET Uuids
            BY DEF Deleted
        <3> QED
            BY <1>1, <2>1, <3>1, WithoutType
    <2>2. Deleted \in SUBSET Deleted
        OBVIOUS
    <2>3. \/ UNCHANGED bound
          \/ /\ bound[tag] # None
             /\ \E S \in SUBSET Deleted : SetUsers(Without(bound[tag].users, S))
        BY <1>3, <2>2 DEF DelUsers
    <2> QED
        BY <2>1, <2>3
<1>4. CASE AddUsers
    <2>1. ASSUME NEW S \in SUBSET Added, bound[tag] # None
          PROVE  With(bound[tag].users, newU, S) \in CoreUsers
        <3>1. S \in SUBSET Uuids /\ newU \in UserBodies
            BY <1>4 DEF AddUsers, SyncTypes, Walk, Added
        <3> QED
            BY <1>1, <2>1, <3>1, WithType
    <2>2. Added \in SUBSET Added
        OBVIOUS
    <2>3. \/ UNCHANGED bound
          \/ /\ bound[tag] # None
             /\ \E S \in SUBSET Added : SetUsers(With(bound[tag].users, newU, S))
        BY <1>4, <2>2 DEF AddUsers
    <2> QED
        BY <2>1, <2>3
<1> QED
    BY <1>2, <1>3, <1>4

\* A diff brings the limiter from the list it has to the next one.
LEMMA LimiterUpdated ==
    ASSUME SyncTypes, Walk, Placed, at = "diffAdd"
    PROVE  /\ newU \in UserBodies
           /\ [limiters[tag] EXCEPT !.users = UpdatedLimiter] \in LimiterStates
           /\ [limiters[tag] EXCEPT !.users = UpdatedLimiter].policy
                  = limiters[tag].policy
           /\ limiters[tag].users = userList =>
                  [limiters[tag] EXCEPT !.users = UpdatedLimiter].users = newU
<1>1. newU \in UserBodies /\ limiters[tag] \in LimiterStates
    BY DEF SyncTypes, Walk, Placed
<1>2. UpdatedLimiter \in [Uuids -> Entries]
    BY <1>1, ListType, LimiterParts DEF UpdatedLimiter
<1>3. newU = [u \in Uuids |-> newU[u]]
    BY <1>1, SyncConstants
<1>4. limiters[tag].users = userList => UpdatedLimiter = newU
    BY <1>3 DEF UpdatedLimiter
<1> QED
    BY <1>1, <1>2, <1>4 DEF LimiterStates

\* Whatever the monitor does is a step of the client or leaves it alone.
LEMMA SyncClientStep == [SyncNext]_syncVars => [ClientMoves]_clientVars
<1> SUFFICES ASSUME [SyncNext]_syncVars PROVE [ClientMoves]_clientVars
    OBVIOUS
<1>1. CASE Network
    BY <1>1 DEF Network, ClientMoves, Panel
<1>2. CASE nodeInfoMonitor
    BY <1>2 DEF nodeInfoMonitor, Poll, GotNode, AskUsers, GotUsers, Retier,
       applyDeviceLimitInPlace, NoNodeChange, DelNode, RebuildLimiter, AddNode,
       AddAllUsers, NoUserChange, DelUsers, AddUsers, abortReload, ClientMoves
<1> QED
    BY <1>1, <1>2 DEF SyncNext, syncVars

\* The monitor's variables stay in their types.
LEMMA SyncTypesStep ==
    ClientTypeOK /\ SyncTypes /\ Walk /\ Cached /\ Placed /\ [SyncNext]_syncVars
        => SyncTypes'
<1> SUFFICES ASSUME ClientTypeOK, SyncTypes, Walk, Cached, Placed, [SyncNext]_syncVars
             PROVE  SyncTypes'
    OBVIOUS
<1> USE DEF Fault
<1>1. CASE Network
    BY SMTT(60), <1>1 DEF Network, ctrlVars, SyncTypes
<1>2. CASE Poll \/ AskUsers \/ NoNodeChange \/ NoUserChange
    BY <1>2 DEF Poll, AskUsers, NoNodeChange, NoUserChange, Done, ctrlVars, SyncTypes
<1>3. CASE GotNode
    <2>1. NodeResult \in Contents \union {None}
        BY <1>3 DEF GotNode, NodeResult, FinishNode, ClientTypeOK, Bodies
    <2> QED
        BY <1>3, <2>1 DEF GotNode, SyncTypes
<1>4. CASE GotUsers
    BY <1>4 DEF GotUsers, FinishUsers, UsersResult, SyncTypes, ClientTypeOK
<1>5. CASE Retier
    <2>1. newN \in Contents /\ bound[tag] \in InboundStates
        BY <1>5 DEF Retier, CanRetier, SyncTypes
    <2>2. [bound[tag] EXCEPT !.cfg.flow = newN.flow] \in InboundStates
        BY <2>1, Retiered, ConfigParts
    <2> DEFINE b == [bound[tag] EXCEPT !.cfg.flow = newN.flow]
    <2>3. bound' = [bound EXCEPT ![tag] = b]
        BY <1>5 DEF Retier, SyncTypes
    <2> HIDE DEF b
    <2> QED
        BY <1>5, <2>1, <2>2, <2>3 DEF Retier, SyncTypes, b
<1>6. CASE applyDeviceLimitInPlace
    <2>1. newN \in Contents /\ limiters[tag] \in LimiterStates
        BY <1>6 DEF applyDeviceLimitInPlace, SyncTypes, Placed
    <2>2. SetPolicy(limiters[tag], newN.policy) \in LimiterStates
        BY <2>1, ConfigParts DEF SetPolicy, LimiterStates
    <2> QED
        BY <1>6, <2>1, <2>2 DEF applyDeviceLimitInPlace, SyncTypes
<1>7. CASE DelNode
    <2>1. newN \in Contents /\ ReloadList \in UserBodies
        BY <1>7 DEF DelNode, SyncTypes, ReloadList
    <2> QED
        BY SMTT(60), <1>7, <2>1 DEF DelNode, SyncTypes, abortReload, Done
<1>8. CASE RebuildLimiter
    <2>1. newN \in Contents /\ newN.type \in Types
        BY <1>8, ConfigParts DEF RebuildLimiter, Cached, Reloading, SyncTypes
    <2>2. [users |-> userList, policy |-> newN.policy] \in LimiterStates
        BY <2>1, ConfigParts, ListType, LimiterMade DEF SyncTypes
    <2>3. rates' = [t \in Types |-> rates'[t]]
        BY <1>8 DEF RebuildLimiter, clearArtXUserRatesForTag, ClearRates, SyncTypes
    <2>4. limiters' \in [Types -> LimiterStates \union {None}]
        BY <1>8, <2>1, <2>2 DEF RebuildLimiter, DeleteLimiter, buildNodeTag, SyncTypes
    <2> QED
        BY SMTT(60), <1>8, <2>1, <2>3, <2>4 DEF RebuildLimiter, buildNodeTag, SyncTypes,
           abortReload, Done
<1>9. CASE AddNode
    <2>1. newN \in Contents
        BY <1>9 DEF AddNode, Cached, Reloading, SyncTypes
    <2>2. [cfg |-> newN, users |-> NoUsers] \in InboundStates
        BY <2>1, ConfigParts, InboundMade, NoUsersType
    <2> QED
        BY SMTT(60), <1>9, <2>1, <2>2 DEF AddNode, SyncTypes, abortReload, Done
<1>10. CASE AddAllUsers \/ DelUsers \/ AddUsers
    <2>1. bound' \in [Types -> InboundStates \union {None}]
        BY <1>10, UsersChange, UsersSet DEF SyncTypes
    <2>2. rates' = [t \in Types |-> rates'[t]]
        BY <1>10 DEF AddAllUsers, DelUsers, AddUsers, publishArtXUserRates, SetRates,
           SyncTypes
    <2>3. CASE AddAllUsers \/ DelUsers
        BY SMTT(60), <2>1, <2>2, <2>3 DEF AddAllUsers, DelUsers, SyncTypes, abortReload, Done
    <2>4. CASE AddUsers
        <3>1. limiters' \in [Types -> LimiterStates \union {None}]
            BY <2>4, LimiterUpdated DEF AddUsers, SyncTypes
        <3>2. userList' \in UserBodies
            BY <2>4, LimiterUpdated DEF AddUsers, SyncTypes
        <3> QED
            BY SMTT(60), <2>1, <2>2, <2>4, <3>1, <3>2 DEF AddUsers, SyncTypes, Done
    <2> QED
        BY <1>10, <2>3, <2>4
<1>11. CASE UNCHANGED syncVars
    BY <1>11 DEF syncVars, ctrlVars, SyncTypes
<1> QED
    BY <1>1, <1>2, <1>3, <1>4, <1>5, <1>6, <1>7, <1>8, <1>9, <1>10, <1>11
       DEF SyncNext, nodeInfoMonitor

\* Where the monitor is keeps saying which request is out.
LEMMA WalkStep ==
    ClientTypeOK /\ SyncTypes /\ Walk /\ [SyncNext]_syncVars => Walk'
<1> SUFFICES ASSUME ClientTypeOK, SyncTypes, Walk, [SyncNext]_syncVars PROVE Walk'
    OBVIOUS
<1>1. CASE Network
    <2>1. CASE Answer
        BY SMTT(60), <1>1, <2>1 DEF Network, Answer, cacheVars, ctrlVars, Walk, ClientTypeOK
    <2>2. CASE Fail /\ Fault(call.kind)
        BY SMTT(60), <1>1, <2>2 DEF Network, Fail, Fault, cacheVars, ctrlVars, Walk, ClientTypeOK
    <2> QED
        BY <1>1, <2>1, <2>2 DEF Network, EditNode, EditUsers, PushConfig, PushUsers,
           cacheVars, ctrlVars, Walk
<1>2. CASE Poll
    BY <1>2 DEF Poll, BeginNode, Idle, cacheVars, ctrlVars, Walk
<1>3. CASE GotNode
    BY <1>3 DEF GotNode, FinishNode, Idle, Walk
<1>4. CASE AskUsers
    BY <1>4 DEF AskUsers, BeginUsers, Idle, cacheVars, ctrlVars, Walk
<1>5. CASE GotUsers
    BY <1>5 DEF GotUsers, FinishUsers, Idle, Walk
<1>6. CASE Retier \/ applyDeviceLimitInPlace \/ NoNodeChange
    BY <1>6 DEF Retier, applyDeviceLimitInPlace, NoNodeChange, clientVars,
       cacheVars, ctrlVars, Walk
<1>7. CASE DelNode
    BY <1>7 DEF DelNode, abortReload, Done, ForceRetry, clientVars, cacheVars, Walk
<1>8. CASE RebuildLimiter
    BY <1>8 DEF RebuildLimiter, abortReload, Done, ForceRetry, clientVars, cacheVars,
       Walk
<1>9. CASE AddNode
    BY <1>9 DEF AddNode, abortReload, Done, ForceRetry, clientVars, cacheVars, Walk
<1>10. CASE AddAllUsers
    BY <1>10 DEF AddAllUsers, abortReload, Done, ForceRetry, clientVars, cacheVars,
       Walk
<1>11. CASE NoUserChange \/ DelUsers \/ AddUsers
    BY <1>11 DEF NoUserChange, DelUsers, AddUsers, Done, clientVars, cacheVars, Walk
<1>12. CASE UNCHANGED syncVars
    BY <1>12 DEF syncVars, clientVars, cacheVars, ctrlVars, Walk
<1> QED
    BY <1>1, <1>2, <1>3, <1>4, <1>5, <1>6, <1>7, <1>8, <1>9, <1>10, <1>11, <1>12
       DEF SyncNext, nodeInfoMonitor

\* The stored hash keeps being that of the configuration in hand.
LEMMA CachedStep ==
    ClientTypeOK /\ SyncTypes /\ Walk /\ Cached /\ [SyncNext]_syncVars => Cached'
<1> SUFFICES ASSUME ClientTypeOK, SyncTypes, Walk, Cached, [SyncNext]_syncVars
             PROVE  Cached'
    OBVIOUS
<1>1. CASE Network
    <2>1. CASE Answer
        BY SMTT(60), <1>1, <2>1, ClientConstants DEF Network, Answer, cacheVars, ctrlVars,
           Cached, Reloading, ClientTypeOK
    <2>2. CASE Fail
        BY SMTT(60), <1>1, <2>2 DEF Network, Fail, cacheVars, ctrlVars, Cached, Reloading
    <2> QED
        BY <1>1, <2>1, <2>2 DEF Network, EditNode, EditUsers, PushConfig, PushUsers,
           cacheVars, ctrlVars, Cached, Reloading
<1>2. CASE Poll
    BY <1>2 DEF Poll, BeginNode, cacheVars, ctrlVars, Cached, Reloading
<1>3. CASE GotNode
    BY SMTT(60), <1>3, ClientConstants DEF GotNode, FinishNode, NodeResult, StoreHash, Idle,
       Walk, Cached, Reloading, ClientTypeOK, Bodies
<1>4. CASE AskUsers
    BY <1>4 DEF AskUsers, BeginUsers, Idle, cacheVars, ctrlVars, Cached, Reloading
<1>5. CASE GotUsers
    BY <1>5 DEF GotUsers, FinishUsers, Idle, Walk, Cached, Reloading
<1>6. CASE Retier \/ applyDeviceLimitInPlace \/ NoNodeChange
    BY <1>6 DEF Retier, applyDeviceLimitInPlace, NoNodeChange, clientVars,
       cacheVars, ctrlVars, Walk, Cached, Reloading
<1>7. CASE DelNode
    BY <1>7 DEF DelNode, abortReload, Done, ForceRetry, clientVars, cacheVars,
       Walk, Cached, Reloading
<1>8. CASE RebuildLimiter
    BY <1>8 DEF RebuildLimiter, abortReload, Done, ForceRetry, clientVars, cacheVars,
       Walk, Cached, Reloading
<1>9. CASE AddNode
    BY <1>9 DEF AddNode, abortReload, Done, ForceRetry, clientVars, cacheVars,
       Walk, Cached, Reloading
<1>10. CASE AddAllUsers
    BY <1>10 DEF AddAllUsers, abortReload, Done, ForceRetry, clientVars, cacheVars,
       Walk, Cached, Reloading
<1>11. CASE NoUserChange \/ DelUsers \/ AddUsers
    BY SMTT(60), <1>11 DEF NoUserChange, DelUsers, AddUsers, Done, clientVars, cacheVars,
       Walk, Cached, Reloading
<1>12. CASE UNCHANGED syncVars
    BY <1>12 DEF syncVars, clientVars, cacheVars, ctrlVars, Cached, Reloading
<1> QED
    BY <1>1, <1>2, <1>3, <1>4, <1>5, <1>6, <1>7, <1>8, <1>9, <1>10, <1>11, <1>12
       DEF SyncNext, nodeInfoMonitor

\* There is one tag all along, and a reload goes through its stages.
LEMMA PlacedStep ==
    SyncTypes /\ SyncTypes' /\ Walk /\ Cached /\ Placed /\ [SyncNext]_syncVars
        => Placed'
<1> SUFFICES ASSUME SyncTypes, SyncTypes', Walk, Cached, Placed, [SyncNext]_syncVars
             PROVE  Placed'
    OBVIOUS
<1>1. CASE Network
    BY <1>1 DEF Network, ctrlVars, Placed, buildNodeTag, NoUsers
<1>2. CASE Poll \/ GotNode \/ AskUsers \/ GotUsers \/ NoNodeChange \/ NoUserChange
    BY <1>2 DEF Poll, GotNode, AskUsers, GotUsers, NoNodeChange, NoUserChange, Done,
       ctrlVars, Placed
<1>3. CASE Retier
    BY <1>3 DEF Retier, Placed, SyncTypes
<1>4. CASE applyDeviceLimitInPlace
    <2>1. SetPolicy(limiters[tag], newN.policy) # None
        <3>1. limiters[tag] \in LimiterStates /\ newN \in Contents
            BY <1>4 DEF applyDeviceLimitInPlace, SyncTypes, Placed
        <3>2. SetPolicy(limiters[tag], newN.policy) \in LimiterStates
            BY <3>1, ConfigParts DEF SetPolicy, LimiterStates
        <3> QED
            BY <3>2, LimiterParts
    <2> QED
        BY <1>4, <2>1 DEF applyDeviceLimitInPlace, Placed, SyncTypes
<1>5. CASE DelNode
    BY <1>5 DEF DelNode, abortReload, Done, Placed, SyncTypes
<1>6. CASE RebuildLimiter
    <2>1. newN \in Contents /\ newN.type \in Types
        BY <1>6, ConfigParts DEF RebuildLimiter, Cached, Reloading, SyncTypes
    <2> DEFINE fresh == [users |-> userList, policy |-> newN.policy]
    <2>2. fresh # None
        BY <2>1, ConfigParts, ListType, LimiterMade, LimiterParts DEF SyncTypes
    <2>3. /\ limiters'[newN.type] = fresh
          /\ \A t \in Types \ {newN.type} : limiters'[t] = None
        BY <1>6, <2>1 DEF RebuildLimiter, DeleteLimiter, buildNodeTag, Placed, SyncTypes
    <2>4. \A t \in Types : bound'[t] = None /\ rates'[t] = None
        BY <1>6 DEF RebuildLimiter, clearArtXUserRatesForTag, ClearRates, Placed,
           SyncTypes
    <2> HIDE DEF fresh
    <2>5. at' \in {"bind", "idle"} /\ (at' = "bind" => newN' = newN)
        BY <1>6 DEF RebuildLimiter, abortReload, Done
    <2>6. tag' = newN.type /\ userList' = userList
        BY <1>6 DEF RebuildLimiter, buildNodeTag
    <2> QED
        BY <2>1, <2>2, <2>3, <2>4, <2>5, <2>6 DEF Placed, buildNodeTag, fresh
<1>7. CASE AddNode
    BY SMTT(60), <1>7 DEF AddNode, abortReload, Done, Placed, SyncTypes
<1>8. CASE AddAllUsers
    BY SMTT(60), <1>8 DEF AddAllUsers, SetUsers, publishArtXUserRates, SetRates, abortReload,
       Done, Placed, SyncTypes
<1>9. CASE DelUsers
    BY SMTT(60), <1>9 DEF DelUsers, SetUsers, Done, Placed, SyncTypes
<1>10. CASE AddUsers
    <2>1. [limiters[tag] EXCEPT !.users = UpdatedLimiter] # None
        BY <1>10, LimiterUpdated, LimiterParts DEF AddUsers
    <2>2. limiters'[tag] # None /\ \A t \in Types \ {tag} : limiters'[t] = limiters[t]
        BY <1>10, <2>1 DEF AddUsers, SyncTypes, Placed
    <2>3. /\ at' = "idle" /\ tag' = tag
          /\ \A t \in Types \ {tag} : bound'[t] = bound[t] /\ rates'[t] = rates[t]
        BY <1>10 DEF AddUsers, SetUsers, publishArtXUserRates, SetRates, Done, SyncTypes
    <2> QED
        BY <2>2, <2>3 DEF Placed
<1>11. CASE UNCHANGED syncVars
    BY <1>11 DEF syncVars, ctrlVars, Placed
<1> QED
    BY <1>1, <1>2, <1>3, <1>4, <1>5, <1>6, <1>7, <1>8, <1>9, <1>10, <1>11
       DEF SyncNext, nodeInfoMonitor

\* A tier taken in place is then the one that runs, and so is a policy.
LEMMA RetierRuns ==
    ASSUME SyncTypes, Placed, Retier, Runs(info)
    PROVE  Runs(info)' /\ bound'[tag].users = bound[tag].users /\ bound'[tag] # None
<1>1. newN \in Contents /\ newN \in Configs /\ info \in Configs
    BY ConfigParts DEF Retier, CanRetier, SyncTypes
<1>2. bound[tag] \in InboundStates /\ bound[tag].cfg \in Configs
    BY InboundParts DEF Retier, CanRetier, SyncTypes
<1> DEFINE b == [bound[tag] EXCEPT !.cfg.flow = newN.flow]
<1>3. b \in InboundStates /\ b.users = bound[tag].users
          /\ b.cfg = [bound[tag].cfg EXCEPT !.flow = newN.flow] /\ b.cfg \in Configs
    BY SMTT(60), <1>1, <1>2, ConfigParts, Retiered
<1>4. bound'[tag] = b /\ \A t \in Types \ {tag} : bound'[t] = bound[t]
    BY DEF Retier, SyncTypes
<1> HIDE DEF b
<1>5. b # None
    BY <1>3, InboundParts
<1>6. newN.type = info.type /\ newN.body = info.body /\ newN.policy = info.policy
    BY <1>1, MaskedFlow DEF Retier, CanRetier, artXFlowControlOnlyChange
<1>7. bound[tag].cfg.type = info.type /\ bound[tag].cfg.body = info.body
    BY <1>1, <1>2, MaskedPolicy DEF Runs
<1>8. b.cfg.type = newN.type /\ b.cfg.body = newN.body /\ b.cfg.flow = newN.flow
    BY <1>2, <1>3, <1>6, <1>7 DEF Configs
<1>9. Masked(b.cfg, "policy") = Masked(newN, "policy")
    BY <1>1, <1>3, <1>8, MaskedPolicy
<1>10. /\ info' = newN /\ tag' = tag /\ limiters' = limiters /\ rates' = rates
    BY DEF Retier
<1>11. /\ tag = buildNodeTag(newN) /\ limiters[tag].policy = newN.policy
    BY <1>6 DEF Runs, buildNodeTag
<1> QED
    BY <1>3, <1>4, <1>5, <1>9, <1>10, <1>11 DEF Runs, Placed

LEMMA PolicyRuns ==
    ASSUME SyncTypes, Placed, applyDeviceLimitInPlace, Runs(info)
    PROVE  Runs(info)' /\ limiters'[tag].users = limiters[tag].users
<1>1. newN \in Contents /\ newN \in Configs /\ info \in Configs
    BY ConfigParts DEF applyDeviceLimitInPlace, SyncTypes
<1>2. limiters[tag] \in LimiterStates
    BY DEF SyncTypes, Placed
<1> DEFINE l == SetPolicy(limiters[tag], newN.policy)
<1>3. l \in LimiterStates /\ l.users = limiters[tag].users /\ l.policy = newN.policy
    BY <1>1, <1>2, ConfigParts DEF SetPolicy, LimiterStates
<1>4. limiters'[tag] = l /\ \A t \in Types \ {tag} : limiters'[t] = limiters[t]
    BY DEF applyDeviceLimitInPlace, SyncTypes
<1> HIDE DEF l
<1>5. l # None
    BY <1>3, LimiterParts
<1>6. Masked(newN, "policy") = Masked(info, "policy")
    BY DEF applyDeviceLimitInPlace, deviceLimitOnlyChange
<1>7. newN.type = info.type
    BY <1>1, <1>6, MaskedPolicy
<1>8. info' = newN /\ tag' = tag /\ bound' = bound /\ rates' = rates
    BY DEF applyDeviceLimitInPlace
<1> QED
    BY <1>3, <1>4, <1>5, <1>6, <1>7, <1>8 DEF Runs, Placed, buildNodeTag

\* What a step must keep for the node to go on running its configuration.
LEMMA RunsKept ==
    ASSUME Runs(info), Placed', info' = info, tag' = tag, bound'[tag] # None,
           bound'[tag].cfg = bound[tag].cfg,
           limiters'[tag].policy = limiters[tag].policy
    PROVE  Runs(info)'
BY DEF Runs, Placed

\* Neither half of a user diff touches the listener or the policy.
LEMMA DiffKeepsRunning ==
    ASSUME SyncTypes, Walk, Cached, Placed, Placed', Runs(info), DelUsers \/ AddUsers
    PROVE  Runs(info)'
<1>1. bound'[tag] # None /\ bound'[tag].cfg = bound[tag].cfg
    <2>1. bound[tag] # None
        BY DEF Runs
    <2>2. UNCHANGED bound \/ \E us \in CoreUsers : SetUsers(us)
        BY UsersChange
    <2>3. ASSUME NEW us \in CoreUsers, SetUsers(us)
          PROVE  bound'[tag] # None /\ bound'[tag].cfg = bound[tag].cfg
        <3>1. /\ bound'[tag] # None
              /\ bound'[tag] = [cfg |-> bound[tag].cfg, users |-> us]
            BY <2>1, <2>3, UsersSet
        <3> QED
            BY SMTT(60), <3>1
    <2> QED
        BY <2>1, <2>2, <2>3
<1>2. limiters'[tag].policy = limiters[tag].policy
    <2>1. CASE limiters' = limiters
        BY <2>1
    <2>2. CASE at = "diffAdd"
              /\ limiters' = [limiters EXCEPT ![tag] =
                                 [limiters[tag] EXCEPT !.users = UpdatedLimiter]]
        BY <2>2, LimiterUpdated DEF SyncTypes
    <2> QED
        BY <2>1, <2>2 DEF DelUsers, AddUsers
<1>3. info' = info /\ tag' = tag
    BY DEF DelUsers, AddUsers
<1> QED
    BY <1>1, <1>2, <1>3, RunsKept

\* The last stage of a reload leaves the new configuration running and all of
\* the users served.
LEMMA ReloadRuns ==
    ASSUME SyncTypes, Cached, Placed, Placed', at = "populate",
           SetUsers(Ids(userList)), UNCHANGED <<info, userList, tag, limiters>>
    PROVE  Runs(info)' /\ Serves(userList)'
<1>1. newN \in Contents /\ info = newN
    BY DEF Cached, Reloading, SyncTypes
<1>2. /\ bound[tag] = [cfg |-> newN, users |-> NoUsers]
      /\ limiters[tag] = [users |-> userList, policy |-> newN.policy]
      /\ tag = buildNodeTag(newN)
    BY DEF Placed
<1>3. bound[tag] # None
    BY <1>1, <1>2, ConfigParts, NoUsersType, InboundMade, InboundParts
<1>4. Ids(userList) \in CoreUsers
          /\ \A u \in Uuids : Ids(userList)[u] = None <=> userList[u] = None
    BY IdsType DEF SyncTypes
<1>5. bound'[tag] = [cfg |-> bound[tag].cfg, users |-> Ids(userList)]
          /\ bound'[tag] # None
    BY <1>3, <1>4, UsersSet
<1>6. bound'[tag].cfg = info /\ bound'[tag].users = Ids(userList)
    BY SMTT(60), <1>1, <1>2, <1>5
<1>7. limiters[tag].users = userList /\ limiters[tag].policy = info.policy
    BY SMTT(60), <1>1, <1>2
<1>8. Runs(info)'
    BY <1>1, <1>2, <1>5, <1>6, <1>7 DEF Placed, Runs
<1>9. Serves(userList)'
    BY <1>4, <1>5, <1>6, <1>7 DEF Placed, Serves
<1> QED
    BY <1>8, <1>9

\* While reloads do not fail, the node stays in step with c.info and
\* c.userList.
LEMMA InStepStep ==
    ASSUME SyncTypes, SyncTypes', Walk, Cached, Placed, Placed', InStep,
           [SyncNext]_syncVars
    PROVE  InStep'
<1> SUFFICES ASSUME NoReloadFaults, ~Reloading'
             PROVE  /\ Runs(info)' /\ limiters'[tag'].users = userList'
                    /\ HasRates => rates'[tag'] = buildArtXUserRates(userList')
    BY DEF InStep, HasRates, buildArtXUserRates
<1>1. CASE UNCHANGED <<info, userList, tag, limiters, bound, rates>> /\ ~Reloading
    BY <1>1 DEF InStep, Runs
<1>2. CASE Network \/ UNCHANGED syncVars
    BY <1>1, <1>2 DEF Network, syncVars, ctrlVars, Reloading
<1>3. CASE Poll \/ GotNode \/ AskUsers \/ GotUsers \/ NoNodeChange \/ NoUserChange
    BY <1>1, <1>3 DEF Poll, GotNode, AskUsers, GotUsers, NoNodeChange, NoUserChange,
       Done, ctrlVars, Reloading
<1>4. CASE Retier
    <2>1. Runs(info) /\ limiters[tag].users = userList
              /\ (HasRates => rates[tag] = buildArtXUserRates(userList))
        BY <1>4 DEF Retier, InStep, Reloading
    <2>2. Runs(info)'
        BY <1>4, <2>1, RetierRuns
    <2> QED
        BY <1>4, <2>1, <2>2 DEF Retier
<1>5. CASE applyDeviceLimitInPlace
    <2>1. Runs(info) /\ limiters[tag].users = userList
              /\ (HasRates => rates[tag] = buildArtXUserRates(userList))
        BY <1>5 DEF applyDeviceLimitInPlace, InStep, Reloading
    <2>2. Runs(info)' /\ limiters'[tag].users = limiters[tag].users
        BY <1>5, <2>1, PolicyRuns
    <2> QED
        BY <1>5, <2>1, <2>2 DEF applyDeviceLimitInPlace
<1>6. CASE DelNode
    <2>1. bound[tag] # None
        BY <1>6 DEF DelNode, InStep, Reloading, Runs
    <2> QED
        BY <1>6, <2>1 DEF DelNode, DelNodeFails, Fault, NoReloadFaults, Reloading
<1>7. CASE RebuildLimiter
    BY <1>7 DEF RebuildLimiter, Fault, NoReloadFaults, Reloading
<1>8. CASE AddNode
    BY <1>8 DEF AddNode, Fault, NoReloadFaults, Reloading
<1>9. CASE AddAllUsers
    <2>1. /\ SetUsers(Ids(userList)) /\ publishArtXUserRates(userList)
          /\ at = "populate" /\ UNCHANGED <<info, userList, tag, limiters>>
        BY <1>9 DEF AddAllUsers, Fault, NoReloadFaults
    <2>2. Runs(info)' /\ Serves(userList)'
        BY <2>1, ReloadRuns
    <2>3. HasRates => rates'[tag] = buildArtXUserRates(userList)
        BY <2>1 DEF publishArtXUserRates, SetRates, SyncTypes
    <2> QED
        BY <2>1, <2>2, <2>3 DEF Serves
<1>10. CASE DelUsers \/ AddUsers
    <2>1. Runs(info) /\ limiters[tag].users = userList
              /\ (HasRates => rates[tag] = buildArtXUserRates(userList))
        BY <1>10 DEF DelUsers, AddUsers, InStep, Reloading
    <2>2. Runs(info)' /\ tag' = tag
        BY <1>10, <2>1, DiffKeepsRunning DEF DelUsers, AddUsers
    <2>3. CASE UNCHANGED <<limiters, userList, rates>>
        BY <2>1, <2>2, <2>3
    <2>4. CASE /\ at = "diffAdd" /\ userList' = newU /\ publishArtXUserRates(newU)
               /\ limiters' = [limiters EXCEPT ![tag] =
                                  [limiters[tag] EXCEPT !.users = UpdatedLimiter]]
        <3>1. limiters'[tag].users = newU
            BY <2>1, <2>4, LimiterUpdated DEF SyncTypes
        <3>2. HasRates => rates'[tag] = buildArtXUserRates(newU)
            BY <2>4 DEF publishArtXUserRates, SetRates, SyncTypes
        <3> QED
            BY <2>2, <2>4, <3>1, <3>2
    <2> QED
        BY <1>10, <2>3, <2>4 DEF DelUsers, AddUsers
<1> QED
    BY <1>2, <1>3, <1>4, <1>5, <1>6, <1>7, <1>8, <1>9, <1>10
       DEF SyncNext, nodeInfoMonitor

\* A stored hash stays that of the configuration that runs.
LEMMA AppliedStep ==
    ASSUME ClientTypeOK, SyncTypes, SyncTypes', Walk, Cached, Cached', Placed, Placed',
           InStep, Applied, [SyncNext]_syncVars
    PROVE  Applied'
<1> SUFFICES ASSUME HashKept, nodeConfigHash' # None, Settled'
             PROVE  info' = nodeConfigHash' /\ Runs(info)'
    BY DEF Applied, HashKept, NoReloadFaults, NoInPlaceEdits
<1>1. CASE /\ UNCHANGED <<info, nodeConfigHash, tag, limiters, bound, rates>>
           /\ Settled
    BY <1>1 DEF Applied, Runs
<1>2. CASE Network \/ UNCHANGED syncVars
    <2>1. UNCHANGED <<at, nodeConfigHash, ctrlVars>>
        BY <1>2 DEF Network, syncVars, clientVars, cacheVars, EditNode, EditUsers,
           Answer, Fail, PushConfig, PushUsers
    <2> QED
        BY <1>1, <2>1 DEF ctrlVars, Settled, Reloading
<1>3. CASE Poll \/ AskUsers \/ NoNodeChange \/ NoUserChange
    <2>1. UNCHANGED <<nodeConfigHash, info, tag, limiters, bound, rates>>
        BY <1>3 DEF Poll, BeginNode, AskUsers, BeginUsers, NoNodeChange, NoUserChange,
           clientVars, cacheVars, ctrlVars
    <2>2. Settled
        BY <1>3 DEF Poll, AskUsers, NoNodeChange, NoUserChange, ctrlVars, Settled,
           Reloading, Walk
    <2> QED
        BY <1>1, <2>1, <2>2
<1>4. CASE GotNode
    <2>1. Settled
        BY <1>4 DEF GotNode, Settled, Reloading, Walk
    <2>2. nodeConfigHash' = nodeConfigHash
        BY <1>4, ClientConstants DEF GotNode, FinishNode, NodeResult, Settled,
           ClientTypeOK, Bodies
    <2> QED
        BY <1>1, <1>4, <2>1, <2>2 DEF GotNode
<1>5. CASE GotUsers
    <2>1. Settled
        BY <1>5 DEF GotUsers, FinishUsers, Settled, Reloading, Walk, HashKept
    <2> QED
        BY <1>1, <1>5, <2>1 DEF GotUsers, FinishUsers
<1>6. CASE Retier \/ applyDeviceLimitInPlace
    <2>1. newN \in Contents /\ info \in Contents /\ info' = newN
        BY <1>6 DEF Retier, CanRetier, applyDeviceLimitInPlace, SyncTypes
    <2>2. NoReloadFaults
        BY <1>6, <2>1 DEF Retier, CanRetier, applyDeviceLimitInPlace, HashKept,
           NoInPlaceEdits
    <2>3. Runs(info)
        BY <1>6, <2>2 DEF Retier, applyDeviceLimitInPlace, InStep, Reloading
    <2>4. Runs(info)'
        BY <1>6, <2>3, RetierRuns, PolicyRuns
    <2>5. nodeConfigHash = newN
        BY <2>1, ClientConstants DEF Cached
    <2> QED
        BY <1>6, <2>1, <2>4, <2>5 DEF Retier, applyDeviceLimitInPlace, clientVars,
           cacheVars
<1>7. CASE DelNode \/ RebuildLimiter \/ AddNode
    BY <1>7 DEF DelNode, RebuildLimiter, AddNode, abortReload, ForceRetry, Settled,
       Reloading
<1>8. CASE AddAllUsers
    <2>1. /\ SetUsers(Ids(userList)) /\ at = "populate"
          /\ UNCHANGED <<info, userList, tag, limiters, nodeConfigHash>>
        BY <1>8 DEF AddAllUsers, abortReload, ForceRetry, clientVars, cacheVars
    <2>2. Runs(info)'
        BY <2>1, ReloadRuns
    <2>3. info = nodeConfigHash
        BY <2>1 DEF Cached, Reloading
    <2> QED
        BY <2>1, <2>2, <2>3
<1>9. CASE DelUsers \/ AddUsers
    <2>1. UNCHANGED <<info, nodeConfigHash>> /\ Settled
        BY <1>9 DEF DelUsers, AddUsers, clientVars, cacheVars, Settled, Reloading, Walk
    <2>2. info = nodeConfigHash /\ Runs(info)
        BY <2>1 DEF Applied
    <2> QED
        BY <1>9, <2>1, <2>2, DiffKeepsRunning
<1> QED
    BY <1>2, <1>3, <1>4, <1>5, <1>6, <1>7, <1>8, <1>9
       DEF SyncNext, nodeInfoMonitor

\* The two halves of a diff, when they go through.
LEMMA FirstHalf ==
    ASSUME SyncTypes, Serves(userList), newU \in UserBodies,
           UNCHANGED <<userList, newU, tag, limiters>>,
           IF Deleted = {} THEN UNCHANGED bound
           ELSE SetUsers(Without(bound[tag].users, Deleted))
    PROVE  HalfServes'
<1>1. /\ bound[tag] # None /\ limiters[tag].users = userList
      /\ \A u \in Uuids : bound[tag].users[u] = None <=> userList[u] = None
    BY DEF Serves
<1>2. bound[tag].users \in CoreUsers /\ Deleted \in SUBSET Uuids
    BY <1>1, InboundParts DEF SyncTypes, Deleted
<1>3. \A u \in Uuids : bound'[tag].users[u] = None
                           <=> u \in Deleted \/ bound[tag].users[u] = None
    <2>1. CASE Deleted = {}
        BY <2>1
    <2>2. CASE Deleted # {}
        <3>1. /\ Without(bound[tag].users, Deleted) \in CoreUsers
              /\ \A u \in Uuids : Without(bound[tag].users, Deleted)[u] = None
                     <=> u \in Deleted \/ bound[tag].users[u] = None
            BY <1>2, WithoutType
        <3>2. bound'[tag] = [cfg |-> bound[tag].cfg,
                             users |-> Without(bound[tag].users, Deleted)]
            BY <1>1, <2>2, <3>1, UsersSet
        <3> QED
            BY SMTT(60), <3>1, <3>2
    <2> QED
        BY <2>1, <2>2
<1> QED
    BY <1>1, <1>3 DEF HalfServes, Deleted

LEMMA SecondHalf ==
    ASSUME SyncTypes, Walk, Placed, Placed', HalfServes, bound[tag] # None,
           at = "diffAdd", userList' = newU, tag' = tag,
           limiters' = [limiters EXCEPT ![tag] =
                           [limiters[tag] EXCEPT !.users = UpdatedLimiter]],
           IF Added = {} THEN UNCHANGED bound
           ELSE SetUsers(With(bound[tag].users, newU, Added))
    PROVE  Serves(userList)'
<1>1. newU \in UserBodies /\ limiters'[tag].users = newU
    BY LimiterUpdated DEF SyncTypes, HalfServes
<1>2. bound[tag].users \in CoreUsers /\ Added \in SUBSET Uuids
    BY InboundParts DEF SyncTypes, Added
<1>3. /\ bound'[tag] # None
      /\ \A u \in Uuids : bound'[tag].users[u] = None
             <=> IF u \in Added THEN newU[u] = None ELSE bound[tag].users[u] = None
    <2>1. CASE Added = {}
        BY <2>1
    <2>2. CASE Added # {}
        <3> DEFINE us == bound[tag].users
                   new == newU
                   S == Added
        <3>1. /\ With(us, new, S) \in CoreUsers
              /\ \A u \in Uuids : With(us, new, S)[u] = None
                     <=> IF u \in S THEN new[u] = None ELSE us[u] = None
            <4>1. us \in CoreUsers /\ new \in UserBodies /\ S \in SUBSET Uuids
                BY <1>1, <1>2
            <4> HIDE DEF us, new, S
            <4> QED
                BY SMTT(60), <4>1, WithType
        <3>2. /\ bound'[tag] = [cfg |-> bound[tag].cfg,
                                users |-> With(bound[tag].users, newU, Added)]
              /\ bound'[tag] # None
            BY <2>2, <3>1, UsersSet
        <3> QED
            BY SMTT(60), <3>1, <3>2
    <2> QED
        BY <2>1, <2>2
<1>4. \A u \in Uuids : bound'[tag].users[u] = None <=> newU[u] = None
    BY <1>3 DEF HalfServes, Added
<1> QED
    BY <1>1, <1>3, <1>4 DEF Serves, Placed

\* Which list the monitor works towards.
Target == IF at \in {"decide", "diff", "diffAdd"} THEN ReloadList ELSE userList

\* A stored ETag stays that of the list the monitor has or works towards.
LEMMA EtagStep ==
    ASSUME ClientTypeOK, SyncTypes, Walk, Cached, Applied, ListKept,
           userEtag # None => userEtag = Target, [SyncNext]_syncVars,
           userEtag' # None
    PROVE  userEtag' = Target'
<1> USE DEF Target, ReloadList
<1>1. CASE Network
    BY SMTT(60), <1>1 DEF Network, EditNode, EditUsers, Answer, Fail, PushConfig, PushUsers,
       cacheVars, ctrlVars
<1>2. CASE Poll \/ AskUsers \/ NoNodeChange \/ UNCHANGED syncVars
    BY SMTT(60), <1>2 DEF Poll, BeginNode, AskUsers, BeginUsers, NoNodeChange, syncVars,
       clientVars, cacheVars, ctrlVars, Walk
<1>3. CASE GotNode
    BY <1>3 DEF GotNode, FinishNode
<1>4. CASE GotUsers
    BY <1>4 DEF GotUsers, FinishUsers, UserEtagOf, UsersResult, ClientTypeOK, Walk
<1>5. CASE Retier \/ applyDeviceLimitInPlace \/ NoUserChange
    BY SMTT(60), <1>5 DEF Retier, applyDeviceLimitInPlace, NoUserChange, Done, clientVars,
       cacheVars
<1>6. CASE DelNode
    BY <1>6 DEF DelNode, abortReload, Done, ForceRetry, clientVars, cacheVars
<1>7. CASE RebuildLimiter \/ AddNode
    BY <1>7 DEF RebuildLimiter, AddNode, abortReload, Done, ForceRetry, clientVars,
       cacheVars
<1>8. CASE AddAllUsers
    BY <1>8 DEF AddAllUsers, abortReload, Done, ForceRetry, clientVars, cacheVars
<1>9. CASE DelUsers \/ AddUsers
    <2>1. bound[tag] # None
        BY <1>9 DEF DelUsers, AddUsers, ListKept, Cached, Applied, Settled, Reloading,
           Walk, Runs
    <2>2. CASE DelUsers
        BY <2>1, <2>2 DEF DelUsers, Fault, ListKept, clientVars, cacheVars
    <2>3. CASE AddUsers
        BY <2>1, <2>3 DEF AddUsers, Done, Fault, ListKept, clientVars, cacheVars, Walk
    <2> QED
        BY <1>9, <2>2, <2>3
<1> QED
    BY <1>1, <1>2, <1>3, <1>4, <1>5, <1>6, <1>7, <1>8, <1>9
       DEF SyncNext, nodeInfoMonitor

\* The users stay those of the list, or half way to the next.
LEMMA ServedStep ==
    ASSUME ClientTypeOK, SyncTypes, Walk, Cached, Cached', Placed, Placed', InStep,
           Applied, ListApplied, ListKept, [SyncNext]_syncVars,
           ~Reloading', (KnownSettled \/ NoReloadFaults)'
    PROVE  IF at' = "diffAdd" THEN HalfServes' ELSE Serves(userList)'
<1>1. ASSUME ~Reloading, KnownSettled \/ NoReloadFaults
      PROVE  IF at = "diffAdd" THEN HalfServes ELSE Serves(userList)
    BY <1>1 DEF ListApplied
<1>3. CASE Network \/ UNCHANGED syncVars
    <2>1. UNCHANGED <<at, nodeConfigHash, ctrlVars>>
        BY <1>3 DEF Network, syncVars, clientVars, cacheVars, EditNode, EditUsers,
           Answer, Fail, PushConfig, PushUsers
    <2>2. IF at = "diffAdd" THEN HalfServes ELSE Serves(userList)
        BY <1>1, <2>1 DEF ctrlVars, KnownSettled, Settled, Reloading, NoReloadFaults
    <2> QED
        BY <2>1, <2>2 DEF ctrlVars, Serves, HalfServes
<1>4. CASE Poll \/ AskUsers \/ NoNodeChange \/ NoUserChange
    <2>1. UNCHANGED <<nodeConfigHash, userList, tag, limiters, bound>>
        BY <1>4 DEF Poll, BeginNode, AskUsers, BeginUsers, NoNodeChange, NoUserChange,
           clientVars, cacheVars, ctrlVars
    <2>2. ~Reloading /\ at # "diffAdd" /\ at' # "diffAdd"
        BY <1>4 DEF Poll, AskUsers, NoNodeChange, NoUserChange, Done, Reloading
    <2>3. KnownSettled \/ NoReloadFaults
        BY <1>4, <2>1, <2>2 DEF Poll, AskUsers, NoNodeChange, NoUserChange, ctrlVars,
           KnownSettled, Settled, NoReloadFaults, Walk
    <2> QED
        BY <1>1, <2>1, <2>2, <2>3 DEF Serves
<1>5. CASE GotNode
    <2>1. Settled /\ ~Reloading /\ at # "diffAdd" /\ at' # "diffAdd"
        BY <1>5 DEF GotNode, Settled, Reloading, Walk
    <2>2. KnownSettled \/ NoReloadFaults
        BY <1>5, <2>1, ClientConstants DEF GotNode, FinishNode, NodeResult,
           KnownSettled, Settled, NoReloadFaults, ClientTypeOK, Bodies
    <2> QED
        BY <1>1, <1>5, <2>1, <2>2 DEF GotNode, Serves
<1>6. CASE GotUsers
    <2>1. /\ KnownSettled \/ NoReloadFaults
          /\ ~Reloading /\ at # "diffAdd" /\ at' # "diffAdd"
        BY <1>6 DEF GotUsers, FinishUsers, KnownSettled, Settled, NoReloadFaults,
           Reloading, Walk, HashKept, ListKept
    <2> QED
        BY <1>1, <1>6, <2>1 DEF GotUsers, FinishUsers, Serves
<1>7. CASE Retier \/ applyDeviceLimitInPlace
    <2>1. newN \in Contents /\ info \in Contents
        BY <1>7 DEF Retier, CanRetier, applyDeviceLimitInPlace, SyncTypes
    <2>2. NoReloadFaults
        BY <1>7, <2>1 DEF Retier, CanRetier, applyDeviceLimitInPlace, ListKept,
           HashKept, NoInPlaceEdits
    <2>3. Runs(info) /\ Serves(userList)
        BY <1>1, <1>7, <2>2 DEF Retier, applyDeviceLimitInPlace, InStep, Reloading
    <2>4. CASE Retier
        <3>1. bound'[tag].users = bound[tag].users /\ bound'[tag] # None
            BY <2>3, <2>4, RetierRuns
        <3> QED
            BY <2>3, <2>4, <3>1 DEF Retier, Serves
    <2>5. CASE applyDeviceLimitInPlace
        <3>1. limiters'[tag].users = limiters[tag].users
            BY <2>3, <2>5, PolicyRuns
        <3> QED
            BY <2>3, <2>5, <3>1 DEF applyDeviceLimitInPlace, Serves, Placed
    <2> QED
        BY <1>7, <2>4, <2>5
<1>8. CASE DelNode \/ RebuildLimiter \/ AddNode
    <2>1. at = "decide" /\ NoReloadFaults => bound[tag] # None
        BY DEF InStep, Reloading, Runs
    <2> QED
        BY <1>8, <2>1 DEF DelNode, DelNodeFails, RebuildLimiter, AddNode, abortReload,
           ForceRetry, Reloading, Fault, NoReloadFaults, KnownSettled
<1>9. CASE AddAllUsers
    <2>1. /\ SetUsers(Ids(userList)) /\ at = "populate" /\ at' = "idle"
          /\ UNCHANGED <<info, userList, tag, limiters>>
        BY <1>9 DEF AddAllUsers, abortReload, ForceRetry, Done, Fault, NoReloadFaults,
           KnownSettled
    <2> QED
        BY <2>1, ReloadRuns
<1>10. CASE DelUsers
    <2>1. KnownSettled /\ ~Reloading /\ at = "diff"
        BY <1>10 DEF DelUsers, Cached, KnownSettled, Settled, Reloading, Walk
    <2>2. Serves(userList) /\ bound[tag] # None
        BY <1>1, <2>1 DEF Serves
    <2>3. /\ at' = "diffAdd" /\ UNCHANGED <<userList, newU, tag, limiters>>
          /\ IF Deleted = {} THEN UNCHANGED bound
             ELSE SetUsers(Without(bound[tag].users, Deleted))
        BY <1>10, <2>2 DEF DelUsers, Fault, ListKept
    <2>4. newU \in UserBodies
        BY <1>10 DEF DelUsers, SyncTypes
    <2> QED
        BY <2>2, <2>3, <2>4, FirstHalf
<1>11. CASE AddUsers
    <2>1. KnownSettled /\ ~Reloading /\ at = "diffAdd"
        BY <1>11 DEF AddUsers, Cached, KnownSettled, Settled, Reloading, Walk
    <2>2. HalfServes /\ bound[tag] # None
        BY <1>1, <2>1 DEF KnownSettled, Applied, ListKept, Runs
    <2>3. /\ at' = "idle" /\ userList' = newU /\ tag' = tag
          /\ limiters' = [limiters EXCEPT ![tag] =
                             [limiters[tag] EXCEPT !.users = UpdatedLimiter]]
          /\ IF Added = {} THEN UNCHANGED bound
             ELSE SetUsers(With(bound[tag].users, newU, Added))
        BY <1>11, <2>2 DEF AddUsers, Done, Fault, ListKept
    <2> QED
        BY <2>1, <2>2, <2>3, SecondHalf
<1> QED
    BY <1>3, <1>4, <1>5, <1>6, <1>7, <1>8, <1>9, <1>10, <1>11
       DEF SyncNext, nodeInfoMonitor

\* A node that has just been started satisfies the invariant.
LEMMA SyncInitInv == SyncInit => SyncInv
<1> SUFFICES ASSUME SyncInit PROVE SyncInv
    OBVIOUS
<1>1. nodeBody.content \in Contents /\ userBody \in UserBodies /\ userBody # None
          /\ nodeBody # None
    BY ClientConstants DEF SyncInit, Bodies
<1>2. ClientInv
    <2>1. ClientTypeOK
        BY <1>1 DEF SyncInit, ClientTypeOK, Idle
    <2>2. CacheTruthful /\ UserCacheTruthful /\ InFlight /\ HashComplete
        BY SMTT(60), <1>1, ClientConstants DEF SyncInit, CacheTruthful, UserCacheTruthful,
           InFlight, HashComplete, Idle, Owed
    <2> QED
        BY <2>1, <2>2 DEF ClientInv
<1>3. /\ info \in Contents /\ info \in Configs /\ info.type \in Types /\ info # None
      /\ info.policy \in Fields("policy") /\ tag = info.type /\ tag \in Types
      /\ userList \in UserBodies
    BY <1>1, ConfigParts DEF SyncInit, buildNodeTag
<1> DEFINE l == [users |-> userList, policy |-> info.policy]
           b == [cfg |-> info, users |-> Ids(userList)]
<1>4. l \in LimiterStates /\ l # None /\ l.users = userList /\ l.policy = info.policy
    BY <1>3, ListType, LimiterMade, LimiterParts
<1>5. b \in InboundStates /\ b # None /\ b.cfg = info /\ b.users = Ids(userList)
    BY <1>3, IdsType, InboundMade, InboundParts
<1>6. /\ limiters = [t \in Types |-> IF t = tag THEN l ELSE None]
      /\ bound = [t \in Types |-> IF t = tag THEN b ELSE None]
      /\ rates = [t \in Types |->
            IF t = tag /\ HasRates THEN buildArtXUserRates(userList) ELSE None]
    BY DEF SyncInit
<1> HIDE DEF l, b
<1>7. at = "idle" /\ newN = None /\ newU = None
    BY DEF SyncInit
<1>8. SyncTypes
    BY <1>3, <1>4, <1>5, <1>6, <1>7 DEF SyncInit, SyncTypes
<1>9. /\ limiters[tag] = l /\ bound[tag] = b
      /\ \A t \in Types \ {tag} :
            limiters[t] = None /\ bound[t] = None /\ rates[t] = None
    BY <1>3, <1>6
<1>10. Walk /\ Cached
    BY <1>1, <1>7, ClientConstants DEF SyncInit, Walk, Cached, Reloading, Idle
<1>11. Placed
    BY <1>4, <1>7, <1>9 DEF Placed
<1>12. Runs(info)
    BY <1>3, <1>4, <1>5, <1>9 DEF Runs, buildNodeTag
<1>13. Serves(userList)
    BY SMTT(60), <1>3, <1>4, <1>5, <1>9, IdsType DEF Serves
<1>14. InStep
    BY <1>3, <1>4, <1>6, <1>9, <1>12 DEF InStep
<1>15. Applied /\ ListApplied
    BY <1>7, <1>12, <1>13 DEF SyncInit, Applied, ListApplied
<1> QED
    BY <1>2, <1>8, <1>10, <1>11, <1>14, <1>15 DEF SyncInv

\* Every step of the monitor, the panel and the network preserves it.
LEMMA SyncStepInv == SyncInv /\ [SyncNext]_syncVars => SyncInv'
<1> SUFFICES ASSUME SyncInv, [SyncNext]_syncVars PROVE SyncInv'
    OBVIOUS
<1>1. /\ ClientTypeOK /\ ClientInv /\ SyncTypes /\ Walk /\ Cached /\ Placed
      /\ InStep /\ Applied /\ ListApplied
    BY DEF SyncInv, ClientInv
<1>2. ClientInv'
    BY <1>1, SyncClientStep, ClientStepInv
<1>3. SyncTypes' /\ Walk' /\ Cached'
    BY <1>1, SyncTypesStep, WalkStep, CachedStep
<1>4. Placed'
    BY <1>1, <1>3, PlacedStep
<1>5. InStep'
    BY <1>1, <1>3, <1>4, InStepStep
<1>6. Applied'
    BY <1>1, <1>3, <1>4, AppliedStep
<1>7. ListApplied'
    <2> SUFFICES ASSUME ListKept PROVE
            /\ userEtag' # None => userEtag' = Target'
            /\ ~Reloading' /\ (KnownSettled \/ NoReloadFaults)' =>
                  IF at' = "diffAdd" THEN HalfServes' ELSE Serves(userList)'
        BY DEF ListApplied, Target, ListKept, HashKept, NoReloadFaults, NoInPlaceEdits
    <2>1. userEtag # None => userEtag = Target
        BY <1>1 DEF ListApplied, Target
    <2> QED
        BY <1>1, <1>3, <1>4, <2>1, EtagStep, ServedStep
<1> QED
    BY <1>2, <1>3, <1>4, <1>5, <1>6, <1>7 DEF SyncInv

LEMMA SyncInvariant == SyncSpec => []SyncInv
BY SyncInitInv, SyncStepInv, PTL DEF SyncSpec

\* The cache is truthful and hands over only news under the monitor too, which
\* forces a retry whenever it gives a reload up.
THEOREM MonitoredCacheNeverLies ==
    SyncSpec => [](CacheTruthful /\ UserCacheTruthful) /\ NoRepeatedHandover
<1>1. SyncInv => CacheTruthful /\ UserCacheTruthful
    BY DEF SyncInv, ClientInv
<1>2. ASSUME SyncInv, call.kind = "node", NodeResult \in Contents
      PROVE  NodeResult # handed \/ Owed
    BY SMTT(60), <1>2, ClientConstants DEF SyncInv, ClientInv, HashComplete, InFlight,
       ClientTypeOK, NodeResult, Owed
<1>3. SyncInv /\ [SyncNext]_syncVars
        => [call.kind = "node" /\ call' = Idle /\ NodeResult \in Contents
               => NodeResult # handed \/ Owed]_clientVars
    BY <1>2
<1> QED
    BY <1>1, <1>3, SyncInvariant, PTL DEF SyncSpec, NoRepeatedHandover

\* As long as no reload fails, limiter and plan rates are those of c.info and
\* c.userList after every run, however many user diffs fail halfway.
THEOREM LimiterKeepsUp ==
    ASSUME NoReloadFaults
    PROVE  SyncSpec => []LimiterFollowsList
<1>1. SyncInv => LimiterFollowsList
    BY NoReloadFaults DEF SyncInv, InStep, Reloading, Runs, LimiterFollowsList
<1> QED
    BY <1>1, SyncInvariant, PTL

\* A cached hash is that of the configuration that runs, if the user list of
\* the same poll arrives, and either reloads succeed or every change of the
\* configuration needs one: the monitor compares an edit with c.info, which
\* after a failed reload is not what runs.
THEOREM HashIsOfWhatRuns ==
    ASSUME "users" \notin Faults, NoReloadFaults \/ NoInPlaceEdits
    PROVE  SyncSpec => []KnownIsApplied
<1>1. SyncInv => KnownIsApplied
    BY DEF SyncInv, Walk, Applied, HashKept, Settled, Reloading, KnownIsApplied
<1> QED
    BY <1>1, SyncInvariant, PTL

\* And, if no user diff fails, a cached list is what the core serves.
THEOREM ListIsServed ==
    ASSUME "users" \notin Faults, NoReloadFaults \/ NoInPlaceEdits,
           "delUsers" \notin Faults, "addUsers" \notin Faults
    PROVE  SyncSpec => []UsersApplied
<1>1. SyncInv => UsersApplied
    BY DEF SyncInv, Walk, ListApplied, ListKept, HashKept, KnownSettled, Settled,
       Reloading, UsersApplied
<1> QED
    BY <1>1, SyncInvariant, PTL

\* On the core that can change a tier in place, a listener is taken down only
\* for what needs a new one, whatever fails.
THEOREM SessionsSurvive ==
    ASSUME Core = "xray"
    PROVE  SyncSpec => SessionsKept
<1> DEFINE Excused ==
        \A t \in Types : bound[t] # None /\ bound'[t] = None =>
          \/ newN = info
          \/ faults' # faults
          \/ Masked(info, "policy") # Masked(newN, "policy")
                /\ Masked(info, "flow") # Masked(newN, "flow")
<1>1. ASSUME SyncInv, SyncNext PROVE Excused
    <2> SUFFICES ASSUME NEW t \in Types, bound[t] # None, bound'[t] = None
                 PROVE  \/ newN = info
                        \/ faults' # faults
                        \/ /\ Masked(info, "policy") # Masked(newN, "policy")
                           /\ Masked(info, "flow") # Masked(newN, "flow")
        OBVIOUS
    <2>1. SyncTypes /\ Walk /\ Cached /\ Placed
        BY <1>1 DEF SyncInv
    <2>2. t = tag
        BY <2>1 DEF Placed
    <2>3. bound' # bound
        OBVIOUS
    <2>4. ~Retier
        <3> SUFFICES ASSUME Retier PROVE FALSE
            OBVIOUS
        <3>1. newN \in Contents /\ bound[tag] \in InboundStates
            BY <2>1 DEF Retier, CanRetier, SyncTypes
        <3> DEFINE b == [bound[tag] EXCEPT !.cfg.flow = newN.flow]
        <3>2. b # None
            BY <3>1, ConfigParts, Retiered, InboundParts
        <3>3. bound'[tag] = b
            BY <2>1 DEF Retier, SyncTypes
        <3> QED
            BY <2>2, <3>2, <3>3
    <2>5. ~AddNode
        <3> SUFFICES ASSUME AddNode PROVE FALSE
            OBVIOUS
        <3>1. newN \in Contents
            BY <2>1 DEF AddNode, Cached, Reloading, SyncTypes
        <3>2. [cfg |-> newN, users |-> NoUsers] # None
            BY <3>1, ConfigParts, InboundMade, InboundParts, NoUsersType
        <3> QED
            BY <2>1, <2>2, <2>3, <3>2 DEF AddNode, SyncTypes
    <2>6. ~(AddAllUsers \/ DelUsers \/ AddUsers)
        BY <2>1, <2>2, <2>3, UsersChange, UsersSet
    <2>7. DelNode
        BY <1>1, <2>3, <2>4, <2>5, <2>6 DEF SyncNext, nodeInfoMonitor, Network, Poll,
           GotNode, AskUsers, GotUsers, applyDeviceLimitInPlace, NoNodeChange,
           RebuildLimiter, NoUserChange, ctrlVars
    <2>8. newN \in Configs /\ info \in Configs
        BY <2>1, <2>7, ConfigParts DEF DelNode, SyncTypes
    <2>9. CASE faults' = faults
        <3>1. ~CanRetier /\ ~deviceLimitOnlyChange(info, newN) /\ newN # None
            BY SMTT(60), <2>1, <2>7, <2>9, <2>2, SyncConstants DEF DelNode, DelNodeFails, Fault,
               SyncTypes
        <3>2. ~artXFlowControlOnlyChange(info, newN)
            BY <2>2, <3>1 DEF CanRetier
        <3>3. CASE Masked(info, "policy") = Masked(newN, "policy")
            <4>1. info.policy = newN.policy
                BY <3>1, <3>3 DEF deviceLimitOnlyChange
            <4> QED
                BY <2>8, <3>3, <4>1, MaskedPolicy, SameConfig
        <3>4. CASE Masked(info, "flow") = Masked(newN, "flow")
            <4>1. info.flow = newN.flow
                BY <3>2, <3>4 DEF artXFlowControlOnlyChange
            <4> QED
                BY <2>8, <3>4, <4>1, MaskedFlow, SameConfig
        <3> QED
            BY <3>3, <3>4
    <2> QED
        BY <2>9
<1>2. SyncInv /\ [SyncNext]_syncVars => [Excused]_syncVars
    BY <1>1
<1> QED
    BY <1>2, SyncInvariant, PTL DEF SyncSpec, SessionsKept

\* On the core that takes the removal of a missing node for done, a reload is
\* given up only for a failure of its own.
THEOREM RetriesRebuild ==
    ASSUME Core = "sing"
    PROVE  SyncSpec => RetryRebuilds
<1>1. ASSUME SyncInv, SyncNext, nodeRetryVersion' # nodeRetryVersion
      PROVE  faults' # faults
    <2>1. Fault("del") \/ Fault("cert") \/ Fault("add") \/ Fault("populate")
        BY <1>1 DEF SyncNext, nodeInfoMonitor, Network, EditNode, EditUsers, Answer,
           Fail, PushConfig, PushUsers, Poll, BeginNode, GotNode, FinishNode, AskUsers,
           BeginUsers, GotUsers, FinishUsers, Retier, applyDeviceLimitInPlace,
           NoNodeChange, DelNode, DelNodeFails, RebuildLimiter, AddNode, AddAllUsers,
           NoUserChange, DelUsers, AddUsers, clientVars, cacheVars
    <2> QED
        BY SMTT(60), <1>1, <2>1 DEF Fault, SyncInv, SyncTypes
<1>2. SyncInv /\ [SyncNext]_syncVars
        => [nodeRetryVersion' # nodeRetryVersion => faults' # faults]_syncVars
    BY <1>1
<1> QED
    BY <1>2, SyncInvariant, PTL DEF SyncSpec, RetryRebuilds
=============================================================================
