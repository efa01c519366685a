------------------------------ MODULE NodeCert ------------------------------
(***************************************************************************)
(* Certificates and the HTTPS redirect of running nodes: the part of        *)
(* Controller.Start and of a reload from requestCert to                     *)
(* refreshHTTPSRedirect (node/controller.go, node/task.go), the renewal     *)
(* task (node/cert.go, renewCertTask) and Node.Close.  The orders are those *)
(* of CertOrder: a node's own job issues, its renewal job renews and then   *)
(* refreshes the redirect with the info the node has at that time.  A node  *)
(* keeps its tag.                                                           *)
(***************************************************************************)
EXTENDS CertOrder, HTTPSRedirect

CONSTANTS
    Controllers,  \* the nodes; those that are jobs have an ACME certificate
    InfosOf,      \* node -> what the panel may send for it
    CertFilesOf,  \* node -> the pair its redirect loads
    OwnerOf,      \* renewal job -> node
    MaxReloads    \* bound on the reloads

ASSUME NodeCertConstants ==
    /\ Jobs \ Renewers \subseteq Controllers
    /\ CertFilesOf \in [Controllers -> Files] /\ OwnerOf \in [Renewers -> Controllers]
    /\ Tags = Controllers /\ Controllers \intersect Renewers = {}
    /\ MaxReloads \in Nat

VARIABLES
    at,        \* where the start or the reload of a node is
    info,      \* c.info, which a reload sets first
    upsert,    \* per caller of Upsert: the call under way
    running,   \* the nodes that have come up once: their tasks are scheduled
    closed,    \* Node.Close has closed the manager
    late,      \* the calls that were under way when it did
    raced,     \* history: nodes whose blocker an older call took away
    reloads

nodeVars == <<at, info, upsert, running, closed, late, raced, reloads>>
certVars == <<orderVars, redirectVars, nodeVars>>

NoCall == [stage |-> "none", host |-> "none", port |-> 0, cert |-> 0]
Callers == Controllers \union Renewers

NodeInit ==
    /\ at = [c \in Controllers |-> "cert"]
    /\ info \in {f \in [Controllers -> UNION {InfosOf[c] : c \in Controllers}] :
                \A c \in Controllers : f[c] \in InfosOf[c]}
    /\ upsert = [u \in Callers |-> NoCall]
    /\ running = {} /\ closed = FALSE /\ late = {} /\ raced = {} /\ reloads = 0

Step(c, stage) == at' = [at EXCEPT ![c] = stage]

-----------------------------------------------------------------------------
(* requestCert, prepareHTTPSRedirect, AddNode                                *)

\* The pair is there, or the node needs none.
CertThere(c) ==
    /\ at[c] = "cert" /\ (c \in Jobs => order[c] = "idle" /\ ~Missing(FilesOf[c]))
    /\ Step(c, "prepare")
    /\ UNCHANGED <<orderVars, redirectVars, info, upsert, running, closed, late, raced,
                   reloads>>

\* The order of a node: the start or the reload fails with it.
IssueStep(c) ==
    /\ at[c] = "cert" /\ OrderStep(c)
    /\ Step(c, IF order'[c] # "idle" THEN "cert"
               ELSE IF order[c] = "record" THEN "prepare" ELSE "down")
    /\ UNCHANGED <<redirectVars, info, upsert, running, closed, late, raced, reloads>>

\* The order is paused.
CertRefused(c) ==
    /\ at[c] = "cert" /\ c \in Jobs /\ order[c] = "idle"
    /\ Missing(FilesOf[c]) /\ ~Check(KeyOf[c])
    /\ Step(c, "down")
    /\ UNCHANGED <<orderVars, redirectVars, info, upsert, running, closed, late, raced,
                   reloads>>

PrepareNode(c) ==
    /\ at[c] = "prepare"
    /\ Prepare(c, info[c]) /\ Step(c, "add") /\ raced' = raced \ {c}
    /\ UNCHANGED <<orderVars, core443, info, upsert, running, closed, late, reloads>>

\* The core listens on the server port.  AddNode may fail for other reasons
\* too, and AddUsers after it: a start is then rolled back, an aborted reload
\* keeps the inbound.
AddNode(c) ==
    /\ at[c] = "add"
    /\ \/ /\ info[c].server = 443 => ~PortTaken
          /\ \E stage \in {"refresh", "down"} :
                /\ Step(c, stage)
                /\ core443' = IF info[c].server = 443 /\ (stage = "refresh" \/ c \in running)
                              THEN core443 \union {c} ELSE core443
       \/ Step(c, "down") /\ UNCHANGED core443
    /\ UNCHANGED <<orderVars, entries, blockers, server, socket, info, upsert, running,
                   closed, late, raced, reloads>>

\* A failed start is retried, an aborted reload is done again from the removal
\* of the inbound on.
RetryNode(c) ==
    /\ at[c] = "down" /\ ~closed
    /\ core443' = core443 \ {c} /\ Step(c, "cert")
    /\ UNCHANGED <<orderVars, entries, blockers, server, socket, info, upsert, running,
                   closed, late, raced, reloads>>

\* The monitor, or a retry of the start, has a new node info.
ReloadNode(c, i) ==
    /\ at[c] \in {"up", "down"} /\ ~closed /\ i \in InfosOf[c] \ {info[c]}
    /\ reloads < MaxReloads /\ reloads' = reloads + 1
    /\ info' = [info EXCEPT ![c] = i]
    /\ core443' = core443 \ {c} /\ Step(c, "cert")
    /\ UNCHANGED <<orderVars, entries, blockers, server, socket, upsert, running, closed,
                   late, raced>>

-----------------------------------------------------------------------------
(* Upsert, by the reload or by the renewal                                   *)

EndCall(u) == /\ upsert' = [upsert EXCEPT ![u] = NoCall]
              /\ IF u \in Controllers
                 THEN Step(u, "up") /\ running' = IF closed THEN running ELSE running \union {u}
                 ELSE UNCHANGED <<at, running>>

\* The part before the lock is taken: three ways to an early end, or the
\* certificate file is read.
BeginUpsert(u, c) ==
    /\ \/ Blocks(info[c]) /\ Prepare(c, info[c]) /\ EndCall(u)
       \/ ~Blocks(info[c]) /\ ~HasEndpoint(info[c]) /\ Remove(c) /\ EndCall(u)
       \/ /\ ~Blocks(info[c]) /\ HasEndpoint(info[c])
          /\ IF BadHost(info[c]) \/ disk[CertFilesOf[c]].cert = 0 THEN EndCall(u)
             ELSE /\ upsert' = [upsert EXCEPT ![u] =
                        [stage |-> "key", host |-> info[c].host,
                         port |-> info[c].public, cert |-> disk[CertFilesOf[c]].cert]]
                  /\ UNCHANGED <<at, running>>
          /\ UNCHANGED <<entries, blockers, server, socket>>
    /\ UNCHANGED <<orderVars, core443, info, closed, late, raced, reloads>>

RefreshNode(c) == at[c] = "refresh" /\ upsert[c].stage = "none" /\ BeginUpsert(c, c)
RefreshRenewed(r) == upsert[r].stage = "renewed" /\ BeginUpsert(r, OwnerOf[r])

NodeOf(u) == IF u \in Controllers THEN u ELSE OwnerOf[u]

\* LoadX509KeyPair reads the key after the certificate; they must belong
\* together.
LoadKey(u) ==
    /\ upsert[u].stage = "key"
    /\ IF disk[CertFilesOf[NodeOf(u)]].key = upsert[u].cert
       THEN upsert' = [upsert EXCEPT ![u].stage = "apply"] /\ UNCHANGED <<at, running>>
       ELSE EndCall(u)
    /\ UNCHANGED <<orderVars, redirectVars, info, closed, late, raced, reloads>>

\* The entry is set for what the node was when the call began: a node that has
\* blocked the port since is no longer seen to.
ApplyUpsert(u) ==
    /\ upsert[u].stage = "apply"
    /\ Apply(NodeOf(u), [host |-> upsert[u].host, port |-> upsert[u].port,
                         cert |-> upsert[u].cert])
    /\ EndCall(u)
    /\ raced' = raced \union (blockers \ blockers')
    /\ UNCHANGED <<orderVars, core443, info, closed, late, reloads>>

\* renewCertTask of a scheduled node; the redirect is refreshed after a renewal.
RenewStep(r) ==
    /\ upsert[r].stage = "none"
    /\ order[r] = "idle" => OwnerOf[r] \in running /\ ~closed
    /\ OrderStep(r)
    /\ upsert' = IF order[r] = "record" THEN [upsert EXCEPT ![r].stage = "renewed"] ELSE upsert
    /\ UNCHANGED <<redirectVars, at, info, running, closed, late, raced, reloads>>

-----------------------------------------------------------------------------
(* Node.Close                                                                *)

Busy == {c \in Controllers : at[c] \notin {"up", "down"}}
        \union {r \in Renewers : order[r] # "idle" \/ upsert[r] # NoCall}

\* Close waits for the starts, not for a reload or a renewal under way.
CloseRedirect ==
    /\ ~closed /\ closed' = TRUE
    /\ Busy \intersect Controllers \subseteq running
    /\ late' = Busy
    /\ CloseManager
    /\ UNCHANGED <<orderVars, core443, at, info, upsert, running, raced, reloads>>

CloseNode(c) ==
    /\ closed /\ c \in running
    /\ running' = running \ {c} /\ core443' = core443 \ {c}
    /\ UNCHANGED <<orderVars, entries, blockers, server, socket, at, info, upsert, closed,
                   late, raced, reloads>>

NodeStep(c) ==
    \/ CertThere(c) \/ (c \in Jobs /\ IssueStep(c)) \/ CertRefused(c) \/ PrepareNode(c)
    \/ AddNode(c) \/ RetryNode(c) \/ RefreshNode(c) \/ LoadKey(c) \/ ApplyUpsert(c)

RenewalStep(r) == RenewStep(r) \/ RefreshRenewed(r) \/ LoadKey(r) \/ ApplyUpsert(r)

NodeCertNext ==
    \/ \E c \in Controllers : NodeStep(c) \/ CloseNode(c)
                             \/ \E i \in InfosOf[c] : ReloadNode(c, i)
    \/ \E r \in Renewers : RenewalStep(r)
    \/ \E s \in Servers : Goroutine(s) /\ UNCHANGED <<orderVars, nodeVars>>
    \/ (Tick \/ \E f \in Files : Age(f)) /\ UNCHANGED <<redirectVars, nodeVars>>
    \/ CloseRedirect

NodeCertSpec == OrderInit /\ RedirectInit /\ NodeInit /\ [][NodeCertNext]_certVars

-----------------------------------------------------------------------------
(* Properties                                                                *)

\* Between Prepare and AddNode of a node that needs port 443 the redirect does
\* not take the port back, and once the manager is closed it never does
\* (controller.go, Start; node.go, Close).  Exceptions: a renewal that had
\* read the node's earlier info, and a call under way when the manager was
\* closed.  A listener whose goroutine had not come to serve may hold the port
\* a moment longer.
PortGivenUp ==
    \/ ~closed /\ \E c \in Controllers : at[c] = "add" /\ Blocks(info[c]) /\ c \notin raced
    \/ closed /\ late = {}
    => \A s \in Servers : socket[s] \notin {"bound", "serving"}
=============================================================================
