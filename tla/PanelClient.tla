---------------------------- MODULE PanelClient ----------------------------
(***************************************************************************)
(* The client's conditional fetches (api/panel/node.go GetNodeInfo,         *)
(* api/panel/user.go GetUserList): what it remembers of the last response,  *)
(* and how that interacts with the pushes of the WebSocket session and with *)
(* the forced retry of an aborted reload, both of which may arrive while a  *)
(* request is in flight.                                                    *)
(*                                                                          *)
(* A request has three steps: the snapshot of the cache, the answer of the  *)
(* panel (external: taken at its own moment), and the processing.  The body *)
(* of the node is its content, what the node decodes to, and its form, what *)
(* the bytes and hence the ETag additionally depend on.                     *)
(***************************************************************************)
EXTENDS Integers

CONSTANTS
    Contents,    \* decoded node configurations
    Forms,       \* byte representations of the same configuration
    UserBodies,  \* user lists
    None,        \* the empty ETag or hash, the nil result
    MaxEdits,    \* bound on the panel's edits
    MaxPushes,   \* bound on the notifications of the WebSocket session
    MaxRetries   \* bound on the forced retries

Bodies == [content : Contents, form : Forms]

ASSUME ClientConstants ==
    /\ None \notin Contents \union Bodies \union UserBodies
    /\ MaxEdits \in Nat /\ MaxPushes \in Nat /\ MaxRetries \in Nat

VARIABLES
    nodeBody,          \* what the panel serves as the node
    userBody,          \* what the panel serves as the user list
    edits,             \* how often the panel was edited
    pushes,            \* how many notifications have arrived
    nodeEtag,          \* ETag of the last node response, names its body
    nodeConfigHash,    \* hash of the configuration last handed over
    nodeCacheVersion,  \* counts everything that invalidates the ETag
    nodeRetryVersion,  \* counts the forced retries
    userEtag,          \* ETag of the last user list
    call,              \* the request under way
    handed,            \* history: the configuration handed over last
    handedRetry,       \* history: the retries known when that call began
    handedUsers        \* history: the user list handed over last

panelVars == <<nodeBody, userBody, edits>>
cacheVars == <<nodeEtag, nodeConfigHash, nodeCacheVersion, nodeRetryVersion,
               userEtag>>
handVars  == <<handed, handedRetry, handedUsers>>
clientVars == <<panelVars, pushes, cacheVars, call, handVars>>

Idle == [kind |-> "none", etag |-> None, hash |-> None, cacheVersion |-> 0,
         retryVersion |-> 0, status |-> "none", reply |-> None]

ClientInit ==
    /\ nodeBody \in Bodies /\ userBody \in UserBodies
    /\ edits = 0 /\ pushes = 0
    /\ nodeEtag = None /\ nodeConfigHash = None
    /\ nodeCacheVersion = 0 /\ nodeRetryVersion = 0
    /\ userEtag = None
    /\ call = Idle
    /\ handed = None /\ handedRetry = 0 /\ handedUsers = None

-----------------------------------------------------------------------------
(* The panel, external                                                      *)

EditNode(b) ==
    /\ edits < MaxEdits /\ b # nodeBody
    /\ nodeBody' = b /\ edits' = edits + 1
    /\ UNCHANGED <<userBody, pushes, cacheVars, call, handVars>>

EditUsers(l) ==
    /\ edits < MaxEdits /\ l # userBody
    /\ userBody' = l /\ edits' = edits + 1
    /\ UNCHANGED <<nodeBody, pushes, cacheVars, call, handVars>>

\* The panel answers the request that is out: 304 when the ETag it was sent is
\* the one of what it serves now, else the body.
Answer ==
    LET body == IF call.kind = "node" THEN nodeBody ELSE userBody
    IN /\ call.kind \in {"node", "users"} /\ call.status = "none"
       /\ call' = IF call.etag = body THEN [call EXCEPT !.status = "304"]
                  ELSE [call EXCEPT !.status = "200", !.reply = body]
       /\ UNCHANGED <<panelVars, pushes, cacheVars, handVars>>

\* The request fails: no connection, an HTTP error, a body that does not decode.
Fail ==
    /\ call.kind \in {"node", "users"} /\ call.status = "none"
    /\ call' = [call EXCEPT !.status = "error"]
    /\ UNCHANGED <<panelVars, pushes, cacheVars, handVars>>

-----------------------------------------------------------------------------
(* GetNodeInfo                                                              *)

BeginNode ==
    /\ call = Idle
    /\ call' = [kind |-> "node", etag |-> nodeEtag, hash |-> nodeConfigHash,
                cacheVersion |-> nodeCacheVersion,
                retryVersion |-> nodeRetryVersion, status |-> "none",
                reply |-> None]
    /\ UNCHANGED <<panelVars, pushes, cacheVars, handVars>>

\* What the call is about to return, unless it failed: nil for no change.
NodeResult ==
    IF call.status = "200" /\ call.reply.content # call.hash
    THEN call.reply.content ELSE None

\* The hash is remembered unless a forced retry arrived in flight.
StoreHash == IF nodeRetryVersion = call.retryVersion
             THEN call.reply.content ELSE nodeConfigHash

\* The ETag is remembered unless anything invalidated it in flight.
StoreEtag == IF nodeCacheVersion = call.cacheVersion
             THEN call.reply ELSE nodeEtag

(***************************************************************************)
(* The response is processed: an error and a 304 leave the cache alone, an  *)
(* equal configuration only moves the ETag, a new one is stored and handed  *)
(* over.                                                                    *)
(***************************************************************************)
FinishNode ==
    /\ call.kind = "node" /\ call.status # "none"
    /\ call' = Idle
    /\ IF call.status # "200"
       THEN UNCHANGED <<nodeEtag, nodeConfigHash, handed, handedRetry>>
       ELSE /\ nodeEtag' = StoreEtag
            /\ IF NodeResult = None
               THEN UNCHANGED <<nodeConfigHash, handed, handedRetry>>
               ELSE /\ nodeConfigHash' = StoreHash
                    /\ handed' = call.reply.content
                    /\ handedRetry' = call.retryVersion
    /\ UNCHANGED <<panelVars, pushes, nodeCacheVersion, nodeRetryVersion,
                   userEtag, handedUsers>>

-----------------------------------------------------------------------------
(* GetUserList                                                              *)

BeginUsers ==
    /\ call = Idle
    /\ call' = [Idle EXCEPT !.kind = "users", !.etag = userEtag]
    /\ UNCHANGED <<panelVars, pushes, cacheVars, handVars>>

UsersResult == call.reply

\* The ETag that came with the list.
UserEtagOf == call.reply

FinishUsers ==
    /\ call.kind = "users" /\ call.status # "none"
    /\ call' = Idle
    /\ IF call.status # "200"
       THEN UNCHANGED <<userEtag, handedUsers>>
       ELSE userEtag' = UserEtagOf /\ handedUsers' = call.reply
    /\ UNCHANGED <<panelVars, pushes, nodeEtag, nodeConfigHash, nodeCacheVersion,
                   nodeRetryVersion, handed, handedRetry>>

-----------------------------------------------------------------------------
(* Invalidation                                                             *)

\* Mutant: a notification also discards the hash.
PushConfigForgets ==
    /\ pushes < MaxPushes /\ pushes' = pushes + 1
    /\ nodeEtag' = None /\ nodeConfigHash' = None
    /\ nodeCacheVersion' = nodeCacheVersion + 1
    /\ UNCHANGED <<panelVars, nodeRetryVersion, userEtag, call, handVars>>

\* sync.config: fetch again, but keep the knowledge of the applied content.
PushConfig ==
    /\ pushes < MaxPushes /\ pushes' = pushes + 1
    /\ nodeEtag' = None
    /\ nodeCacheVersion' = nodeCacheVersion + 1
    /\ UNCHANGED <<panelVars, nodeConfigHash, nodeRetryVersion, userEtag, call,
                   handVars>>

\* sync.users
PushUsers ==
    /\ pushes < MaxPushes /\ pushes' = pushes + 1
    /\ userEtag' = None
    /\ UNCHANGED <<panelVars, nodeEtag, nodeConfigHash, nodeCacheVersion,
                   nodeRetryVersion, call, handVars>>

\* Mutant: the ETag survives, and a 304 will hide the retry.
ForceRetryKeepsEtag ==
    /\ nodeConfigHash' = None
    /\ nodeCacheVersion' = nodeCacheVersion + 1
    /\ nodeRetryVersion' = nodeRetryVersion + 1
    /\ UNCHANGED <<panelVars, pushes, nodeEtag, userEtag, call, handVars>>

\* InvalidateNodeInfoCache: force a rebuild.
ForceRetry ==
    /\ nodeEtag' = None
    /\ nodeConfigHash' = None
    /\ nodeCacheVersion' = nodeCacheVersion + 1
    /\ nodeRetryVersion' = nodeRetryVersion + 1
    /\ UNCHANGED <<panelVars, pushes, userEtag, call, handVars>>

-----------------------------------------------------------------------------
Panel == \/ \E b \in Bodies : EditNode(b)
         \/ \E l \in UserBodies : EditUsers(l)
         \/ Answer
         \/ Fail

ClientNext ==
    \/ Panel
    \/ BeginNode \/ FinishNode
    \/ BeginUsers \/ FinishUsers
    \/ PushConfig \/ PushUsers
    \/ nodeRetryVersion < MaxRetries /\ ForceRetry

ClientSpec == ClientInit /\ [][ClientNext]_clientVars

-----------------------------------------------------------------------------
(* Properties                                                               *)

\* Every variable stays in its type.
ClientTypeOK ==
    /\ nodeBody \in Bodies /\ userBody \in UserBodies
    /\ edits \in Nat /\ pushes \in Nat
    /\ nodeEtag \in Bodies \union {None}
    /\ nodeConfigHash \in Contents \union {None}
    /\ nodeCacheVersion \in Nat /\ nodeRetryVersion \in Nat
    /\ userEtag \in UserBodies \union {None}
    /\ call.kind \in {"none", "node", "users"}
    /\ call.hash \in Contents \union {None}
    /\ call.cacheVersion \in Nat /\ call.retryVersion \in Nat
    /\ call.kind = "node" =>
          /\ call.etag \in Bodies \union {None}
          /\ call.reply \in Bodies \union {None}
    /\ call.kind = "users" =>
          /\ call.etag \in UserBodies \union {None}
          /\ call.reply \in UserBodies \union {None}
    /\ call.status \in {"none", "error", "304", "200"}
    /\ call.status = "200" <=> call.reply # None
    /\ handed \in Contents \union {None}
    /\ handedRetry \in Nat
    /\ handedUsers \in UserBodies \union {None}

\* A forced retry the controller has not been served yet.
Owed == nodeRetryVersion # handedRetry

\* The cache never claims more than was handed over: an ETag (the next fetch
\* may be answered 304) or a hash (it may be swallowed) is that of the
\* configuration the controller was given, and no forced retry is lost under
\* it, whatever pushes and retries arrived while requests were in flight.
CacheTruthful ==
    /\ nodeEtag # None => nodeEtag.content = handed /\ ~Owed
    /\ nodeConfigHash # None => nodeConfigHash = handed /\ ~Owed

\* The same for the user list: a notification that is overwritten by the
\* response in flight costs nothing, because the ETag is the one of the list
\* that was handed over.
UserCacheTruthful == userEtag # None => userEtag = handedUsers

\* Duplicate pushes must not rebuild a healthy node (panel.go,
\* invalidateNodeInfoCache): a call returns the configuration it returned
\* last only if a retry was forced since that call began.
NoRepeatedHandover ==
    [][call.kind = "node" /\ call' = Idle /\ NodeResult \in Contents
           => NodeResult # handed \/ Owed]_clientVars
=============================================================================
