-------------------------------- MODULE DDNS --------------------------------
(***************************************************************************)
(* Workers that keep one DNS record at this machine's address               *)
(* (node/ddns.go, common/ddns).  Several nodes may name the same record     *)
(* with settings that differ, and each such setting has a worker of its     *)
(* own.  The machine's address changes, the record is edited at the         *)
(* provider, requests fail before or after they have taken effect, or take  *)
(* effect late, and a reload of the configuration closes the workers and    *)
(* starts new ones.                                                         *)
(***************************************************************************)
EXTENDS Naturals, FiniteSets, FiniteSetsExt

CONSTANTS Updaters,    \* workers of the record
          Addresses,   \* public addresses
          MaxUpsets    \* bound: changes of the address, edits at the provider,
                       \*        requests that fail, and reloads, together

VARIABLES provider,    \* "cloudflare" or "alidns"
          address,     \* the machine's public address
          records,     \* the records of the name at the provider
          updater,     \* the workers
          running,     \* the context of the workers is not cancelled
          late,        \* writes the provider has not executed yet
          upsets       \* counts against the bound

ddnsVars == <<provider, address, records, updater, running, late, upsets>>

Rec(id, ip, enabled) == [id |-> id, ip |-> ip, enabled |-> enabled]
Off == [at |-> "off", first |-> FALSE, ip |-> "none", id |-> 0]

\* An identifier that no record, worker or request has.
NewId ==
    LET used == {r.id : r \in records} \cup {updater[w].id : w \in Updaters}
                    \cup {write.id : write \in late}
    IN  Min((1 .. Cardinality(used) + 1) \ used)

DDNSInit ==
    /\ provider \in {"cloudflare", "alidns"}
    /\ address \in Addresses
    /\ records = {}
    /\ updater = [w \in Updaters |-> Off]
    /\ running = TRUE
    /\ late = {}
    /\ upsets = 0

Upset == upsets < MaxUpsets /\ upsets' = upsets + 1

-----------------------------------------------------------------------------
(* The machine, the provider and its operator. *)

Move(ip) ==
    /\ Upset
    /\ ip # address
    /\ address' = ip
    /\ UNCHANGED <<provider, records, updater, running, late>>

\* A record is set to another address, removed, or switched off or on.
Touch(r, edited) ==
    /\ Upset
    /\ r \in records
    /\ records' = (records \ {r}) \cup edited
    /\ UNCHANGED <<provider, address, updater, running, late>>

\* What a write does: a new record, or the new address of the one it names.
Executed(write) ==
    IF write.id = 0 THEN records \cup {Rec(NewId, write.ip, TRUE)}
    ELSE {IF r.id = write.id THEN [r EXCEPT !.ip = write.ip] ELSE r : r \in records}

Land(write) ==
    /\ write \in late
    /\ late' = late \ {write}
    /\ records' = Executed(write)
    /\ UNCHANGED <<provider, address, updater, running, upsets>>

-----------------------------------------------------------------------------
(* A worker. *)

To(w, state) == updater' = [updater EXCEPT ![w] = state]

\* Mutant: a worker whose update has failed ends.
GivesUp == "ended"

\* syncDDNS logs the error of an update; runDDNS waits for the next tick.
WaitsAgain == "wait"

\* The update ends without an error.
Finish(w) == To(w, [Off EXCEPT !.at = "wait"])

\* It ends with one.
Fail(w) == To(w, [Off EXCEPT !.at = WaitsAgain])

\* doJSON, cloudflare, alidns: no answer in time, a status, a body or a code that
\* says no.
RequestFails(w) == Upset /\ Fail(w)

\* startDDNS: the first update of each worker is done before the next one starts.
StartNext(w) ==
    /\ running /\ updater[w].at = "off"
    /\ \A v \in Updaters : ~updater[v].first
    /\ To(w, [Off EXCEPT !.at = "detect", !.first = TRUE])
    /\ UNCHANGED <<provider, address, records, running, late, upsets>>

\* runDDNS: the ticker.
TickerFires(w) ==
    /\ running /\ updater[w].at = "wait"
    /\ To(w, [Off EXCEPT !.at = "detect"])
    /\ UNCHANGED <<provider, address, records, running, late, upsets>>

\* detectIP; Cloudflare is then asked for the zone.
DetectIP(w, ok) ==
    /\ updater[w].at = "detect"
    /\ IF ok THEN UNCHANGED upsets /\ To(w, [updater[w] EXCEPT !.ip = address,
                        !.at = IF provider = "cloudflare" THEN "zone" ELSE "list"])
       ELSE RequestFails(w)
    /\ UNCHANGED <<provider, address, records, running, late>>

\* updateCloudflare: the zone must be the one that is named.
FindZone(w, ok) ==
    /\ updater[w].at = "zone"
    /\ IF ok THEN UNCHANGED upsets /\ To(w, [updater[w] EXCEPT !.at = "list"]) ELSE RequestFails(w)
    /\ UNCHANGED <<provider, address, records, running, late>>

\* updateCloudflare, updateAliDNS: two records, or at AliDNS one that is switched
\* off, are left to the operator.
Refused == Cardinality(records) > 1 \/ (provider = "alidns" /\ \E r \in records : ~r.enabled)

\* sameIP.
SameIP(w) == \E r \in records : r.ip = updater[w].ip

List(w, ok) ==
    /\ updater[w].at = "list"
    /\ \/ ~ok /\ RequestFails(w)
       \/ ok /\ UNCHANGED upsets /\ Refused /\ Fail(w)
       \/ ok /\ UNCHANGED upsets /\ ~Refused /\ SameIP(w) /\ Finish(w)
       \/ /\ ok /\ UNCHANGED upsets /\ ~Refused /\ ~SameIP(w)
          /\ To(w, [updater[w] EXCEPT !.at = "write",
                        !.id = IF records = {} THEN 0 ELSE Max({r.id : r \in records})])
    /\ UNCHANGED <<provider, address, records, running, late>>

\* The record is created or its address changed.  A request that fails has taken
\* effect, has not, or will later; the change of a record that is gone is refused.
Write(w, outcome) ==
    LET write == [id |-> updater[w].id, ip |-> updater[w].ip]
        gone == write.id \notin {r.id : r \in records} \cup {0}
    IN
    /\ updater[w].at = "write"
    /\ gone => outcome = "refused"
    /\ records' = IF outcome \in {"done", "lost"} THEN Executed(write) ELSE records
    /\ late' = IF outcome = "late" THEN late \cup {write} ELSE late
    /\ \/ outcome = "done" /\ UNCHANGED upsets /\ Finish(w)
       \/ gone /\ UNCHANGED upsets /\ Fail(w)
       \/ outcome # "done" /\ ~gone /\ RequestFails(w)
    /\ UNCHANGED <<provider, address, running>>

\* A cancelled context fails the request a worker is waiting for.
Interrupted(w) ==
    /\ ~running /\ updater[w].at \in {"detect", "zone", "list", "write"}
    /\ \/ UNCHANGED <<records, late>>
       \/ /\ updater[w].at = "write"
          /\ late' = late \cup {[id |-> updater[w].id, ip |-> updater[w].ip]}
          /\ UNCHANGED records
    /\ To(w, [Off EXCEPT !.at = "wait"])
    /\ UNCHANGED <<provider, address, running, upsets>>

\* runDDNS returns.
Leave(w) ==
    /\ ~running /\ updater[w].at = "wait"
    /\ To(w, Off)
    /\ UNCHANGED <<provider, address, records, running, late, upsets>>

-----------------------------------------------------------------------------
(* The reload. *)

\* Node.Close, after Node.Start has returned: the context is cancelled.
CloseNodes ==
    /\ Upset
    /\ running /\ \A w \in Updaters : updater[w].at # "off" /\ ~updater[w].first
    /\ running' = FALSE
    /\ UNCHANGED <<provider, address, records, updater, late>>

\* ddnsWG.Wait is over, and the reload starts the nodes again.
StartNodes ==
    /\ ~running /\ \A w \in Updaters : updater[w].at = "off"
    /\ running' = TRUE
    /\ UNCHANGED <<provider, address, records, updater, late, upsets>>

UpdaterStep(w) ==
    \/ StartNext(w) \/ TickerFires(w) \/ Interrupted(w) \/ Leave(w)
    \/ \E ok \in BOOLEAN : DetectIP(w, ok) \/ FindZone(w, ok) \/ List(w, ok)
    \/ \E outcome \in {"done", "lost", "refused", "late"} : Write(w, outcome)

DDNSNext ==
    \/ \E w \in Updaters : UpdaterStep(w)
    \/ \E ip \in Addresses : Move(ip)
    \/ \E r \in records :
        \/ \E ip \in Addresses : Touch(r, {[r EXCEPT !.ip = ip]})
        \/ Touch(r, {[r EXCEPT !.enabled = ~@]})
        \/ Touch(r, {})
    \/ \E write \in late : Land(write)
    \/ CloseNodes \/ StartNodes

\* The goroutines go on and the ticker fires; requests end.
DDNSFairness == \A w \in Updaters : WF_ddnsVars(UpdaterStep(w))

DDNSSpec == DDNSInit /\ [][DDNSNext]_ddnsVars /\ DDNSFairness /\ WF_ddnsVars(StartNodes)

-----------------------------------------------------------------------------
(* Properties. *)

\* The record ends up at the machine's address, although it was edited or deleted
\* at the provider while the address stayed the same, requests failed or took effect
\* after the worker had given them up, and workers were replaced; unless the workers
\* find it switched off or find two of them, which they leave to the operator.
RecordRepaired ==
    <>[](Refused \/ {r.ip : r \in records} = {address})
=============================================================================
