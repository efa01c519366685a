--------------------------- MODULE HTTPSRedirect ---------------------------
(***************************************************************************)
(* The listener on port 443 that sends browsers on to the public port of an *)
(* ArtX node (node/https_redirect.go).  All nodes share one manager: a node *)
(* with an endpoint has an entry, a node that needs port 443 itself blocks  *)
(* the listener.  Every method runs under the manager's lock; the listener  *)
(* is served by a goroutine of its own, which an http.Server does not know  *)
(* of before it serves.                                                     *)
(***************************************************************************)
EXTENDS Integers

CONSTANTS
    Tags,      \* the tags the nodes may have
    Servers    \* http.Server objects that can be alive at once

ASSUME RedirectConstants == Servers \subseteq Nat \ {0}

VARIABLES
    entries,   \* manager.entries, NoEntry for a tag without one
    blockers,  \* manager.blockers
    server,    \* manager.server, and with it manager.listener; 0 for nil
    socket,    \* per server: "bound" until its goroutine serves, "serving",
               \* "abandoned" when it was closed before that, "closed", "none"
    core443    \* the nodes whose inbound listens on port 443

redirectVars == <<entries, blockers, server, socket, core443>>

NoEntry == [host |-> "none", port |-> 0, cert |-> 0]

RedirectInit ==
    /\ entries = [t \in Tags |-> NoEntry] /\ blockers = {}
    /\ server = 0 /\ socket = [s \in Servers |-> "none"]
    /\ core443 = {}

Holding == {"bound", "abandoned", "serving"}
PortTaken == core443 # {} \/ \E s \in Servers : socket[s] \in Holding

-----------------------------------------------------------------------------
(* The node info                                                             *)

\* blocksHTTPSRedirect
Blocks(info) == info.server = 443 \/ (info.type = "artx" /\ info.public = 443)

\* hasHTTPSRedirectEndpoint
HasEndpoint(info) == info.type = "artx" /\ info.host # "none" /\ info.public # 0

\* normalizeRedirectHost: a host no redirect can name.
BadHost(info) == info.host = "bad"

-----------------------------------------------------------------------------
(* startLocked and stopLocked                                                *)

\* ListenTCP fails when the port is taken, by another process too.
StartLocked ==
    \/ /\ ~PortTaken
       /\ \E s \in Servers :
             /\ socket[s] = "none" /\ \A z \in Servers : z < s => socket[z] # "none"
             /\ server' = s /\ socket' = [socket EXCEPT ![s] = "bound"]
    \/ UNCHANGED <<server, socket>>

\* Server.Close closes the listeners the server knows of.
StopLocked ==
    /\ server' = 0
    /\ socket' = [s \in Servers |-> IF s # server THEN socket[s]
                                    ELSE CASE socket[s] = "bound" -> "abandoned"
                                           [] socket[s] = "serving" -> "closed"
                                           [] OTHER -> socket[s]]

-----------------------------------------------------------------------------
(* The goroutine of a server                                                 *)

\* ServeTLS: a server that was closed returns at once and closes the listener.
Serve(s) ==
    /\ socket[s] \in {"bound", "abandoned"}
    /\ socket' = [socket EXCEPT ![s] = IF @ = "bound" THEN "serving" ELSE "closed"]
    /\ UNCHANGED <<entries, blockers, server, core443>>

\* The listener fails.
Die(s) ==
    /\ socket[s] = "serving"
    /\ socket' = [socket EXCEPT ![s] = "closed"]
    /\ UNCHANGED <<entries, blockers, server, core443>>

\* Mutant: the goroutine clears the fields whoever they belong to.
ClearAlways(s) == 0

\* The fields are cleared only if they are still this server's.
ClearOwn(s) == IF server = s THEN 0 ELSE server

Exit(s) ==
    /\ socket[s] = "closed"
    /\ server' = ClearOwn(s) /\ socket' = [socket EXCEPT ![s] = "none"]
    /\ UNCHANGED <<entries, blockers, core443>>

Goroutine(s) == Serve(s) \/ Die(s) \/ Exit(s)

-----------------------------------------------------------------------------
(* The manager's methods                                                     *)

SetEntry(t, e) == entries' = [entries EXCEPT ![t] = e]

\* Mutant: a node that needs the port does not stop the listener.
PrepareKeepsServing(t, info) ==
    /\ blockers' = IF Blocks(info) THEN blockers \union {t} ELSE blockers \ {t}
    /\ IF Blocks(info) THEN SetEntry(t, NoEntry) ELSE UNCHANGED entries
    /\ UNCHANGED <<server, socket>>

\* A node that no longer blocks does not start the listener either.
Prepare(t, info) ==
    IF Blocks(info)
    THEN blockers' = blockers \union {t} /\ SetEntry(t, NoEntry) /\ StopLocked
    ELSE blockers' = blockers \ {t} /\ UNCHANGED <<entries, server, socket>>

Remove(t) ==
    /\ SetEntry(t, NoEntry) /\ blockers' = blockers \ {t}
    /\ IF \A u \in Tags \ {t} : entries[u] = NoEntry THEN StopLocked
       ELSE IF blockers \ {t} = {} /\ server = 0 THEN StartLocked
       ELSE UNCHANGED <<server, socket>>

\* Another node's entry sends the host elsewhere.
Conflict(t, host, port) ==
    \E u \in Tags \ {t} : entries[u] # NoEntry /\ entries[u].host = host
                          /\ entries[u].port # port

\* The part of Upsert under the lock.
Apply(t, e) ==
    IF Conflict(t, e.host, e.port) THEN UNCHANGED <<entries, blockers, server, socket>>
    ELSE /\ SetEntry(t, e) /\ blockers' = blockers \ {t}
         /\ IF blockers \ {t} = {} /\ server = 0 THEN StartLocked
            ELSE UNCHANGED <<server, socket>>

CloseManager ==
    /\ entries' = [t \in Tags |-> NoEntry] /\ blockers' = {}
    /\ StopLocked

\* entryForHost, getCertificate and ServeHTTP: where a request for host may be
\* sent, one entry of those that name it.
Targets(host) == {entries[t].port : t \in {u \in Tags : entries[u].host = host}}

-----------------------------------------------------------------------------
(* Properties                                                                *)

\* The manager knows of every listener that serves, and keeps one only while a
\* node has an entry and none needs the port (https_redirect.go, stopLocked and
\* the goroutine of startLocked); what the listener answers does not depend on the
\* entry its lookup meets first, for all entries of a host name one port (Upsert:
\* "already targets port").
ListenerOwned ==
    /\ \A s \in Servers : socket[s] \in {"bound", "serving"} => server = s
    /\ server # 0 => blockers = {} /\ \E t \in Tags : entries[t] # NoEntry
    /\ \A t \in Tags : Targets(entries[t].host) = {entries[t].port}
=============================================================================
