------------------------------ MODULE Sniffing ------------------------------
(***************************************************************************)
(* One connection of the Xray dispatcher from Dispatch or DispatchLink to    *)
(* the outbound: the sniffer reads the first bytes through a caching reader, *)
(* names the protocol and maybe a domain, the destination is overridden, the *)
(* node's rules are looked up and the outbound reads what the client sent,   *)
(* the cached part first.                                                    *)
(*                                                                           *)
(* The client, the dispatch goroutine and a removal of the user (CloseAll)   *)
(* interleave.  A chunk stands for one MultiBuffer; the protocol sniffers of *)
(* the library answer as they like.                                          *)
(***************************************************************************)
EXTENDS Naturals, Sequences, FiniteSets

CONSTANTS Networks,   \* networks of a connection, out of "tcp" and "udp"
          Extra,      \* SetBTExtraSniffing: values it has
          Budget,     \* the sniffing deadline, in units of time
          MaxChunks   \* bound: chunks the client writes

ASSUME SniffConstants ==
    /\ Networks \subseteq {"tcp", "udp"} /\ Extra \subseteq BOOLEAN
    /\ Budget \in Nat \ {0} /\ MaxChunks \in Nat

VARIABLES request,  \* the sniffing request, the destination and the path
          at,       \* where the dispatch goroutine is
          wrote, closed,      \* the client: chunks written, writer closed
          pipe, cache, out,   \* chunks in the pipe, in the cache, at the outbound
          broken,             \* the pipe was interrupted
          sniffers,           \* the sniffers still asked
          waiting,            \* history: those that asked for more data last
          attempts, left,     \* totalAttempt, cacheDeadline
          meta, content,      \* results of the metadata and of the content
          target, routeTarget \* ob.Target, ob.RouteTarget

clientVars == <<wrote, closed>>
readVars == <<pipe, cache, out, broken>>
sniffVars == <<sniffers, waiting, attempts, left, meta, content>>
targetVars == <<target, routeTarget>>
sniffingVars == <<request, at, clientVars, readVars, sniffVars, targetVars>>

-----------------------------------------------------------------------------
(* The table of sniffers. *)

Sniffer(name, network, metadata) ==
    [name |-> name, network |-> network, metadata |-> metadata]

\* newProtocolSniffers.
ProtocolSniffers(extra) ==
    <<Sniffer("http1", "tcp", FALSE), Sniffer("tls", "tcp", FALSE),
      Sniffer("bittorrent", "tcp", FALSE), Sniffer("quic", "udp", FALSE)>>
    \o (IF extra
        THEN <<Sniffer("utp", "udp", FALSE), Sniffer("dht", "udp", FALSE),
               Sniffer("tracker", "udp", FALSE)>>
        ELSE <<Sniffer("utp", "udp", FALSE)>>)

\* NewSniffer: with a fake DNS engine, its metadata sniffer comes last and the one
\* that combines it with the others first; that one names no network.
NewSniffer(extra, fakeDNS) ==
    IF fakeDNS
    THEN <<Sniffer("fakedns+others", "none", FALSE)>> \o ProtocolSniffers(extra)
           \o <<Sniffer("fakedns", "none", TRUE)>>
    ELSE ProtocolSniffers(extra)

NoResult == [protocol |-> "", domain |-> ""]

\* The domain a content sniffer can name.
Domains(name) == IF name \in {"http1", "tls", "quic"} THEN {"", "site"} ELSE {""}

Reports(protocol) == IF protocol \in {"utp", "dht", "tracker"} THEN "bittorrent" ELSE protocol

-----------------------------------------------------------------------------
(* Set-up. *)

Answers == {"noclue", "more", "no", "match"}

SniffInit ==
    /\ request \in [path : {"pipe", "link"}, network : Networks,
                    sniffing : {"off", "metadata", "content"},
                    routeOnly : BOOLEAN, excluded : BOOLEAN,
                    fake : {"no", "pool", "known"}, extra : Extra,
                    override : {{"http", "tls", "quic"}, {"fakedns"}}]
    /\ at = "start"
    /\ wrote = 0 /\ closed = FALSE
    /\ pipe = <<>> /\ cache = <<>> /\ out = <<>> /\ broken = FALSE
    /\ sniffers = <<>> /\ waiting = {} /\ attempts = 0 /\ left = Budget
    /\ meta = NoResult /\ content = NoResult
    /\ target = "address" /\ routeTarget = "none"

-----------------------------------------------------------------------------
(* The client and the removal of the user. *)

ClientWrite ==
    /\ ~closed /\ wrote < MaxChunks
    /\ wrote' = wrote + 1
    /\ pipe' = IF broken THEN pipe ELSE Append(pipe, wrote + 1)
    /\ UNCHANGED <<request, at, closed, cache, out, broken, sniffVars, targetVars>>

ClientClose ==
    /\ ~closed
    /\ closed' = TRUE
    /\ UNCHANGED <<request, at, wrote, readVars, sniffVars, targetVars>>

\* CloseAll interrupts the reader the link was added with: the pipe, but not the
\* caching reader in front of it; the counting reader of a DispatchLink connection
\* cannot be interrupted.
CloseAll ==
    /\ request.path = "pipe" /\ ~broken
    /\ broken' = TRUE
    /\ pipe' = <<>>
    /\ UNCHANGED <<request, at, clientVars, cache, out, sniffVars, targetVars>>

-----------------------------------------------------------------------------
(* The sniffer. *)

\* SniffMetadata: the fake DNS sniffer finds the domain of a fake address, unless
\* the engine has dropped it since (an address of the pool that is not known).
SniffMetadata ==
    IF request.fake = "known" THEN [protocol |-> "fakedns", domain |-> "real"] ELSE NoResult

\* Dispatch, DispatchLink: without sniffing straight to the routing.
Begin ==
    /\ at = "start"
    /\ IF request.sniffing = "off"
       THEN at' = "route" /\ UNCHANGED <<sniffers, meta>>
       ELSE /\ meta' = SniffMetadata
            /\ sniffers' = NewSniffer(request.extra, request.fake # "no")
            /\ at' = IF request.sniffing = "metadata" THEN "sniffed" ELSE "cache"
    /\ UNCHANGED <<request, clientVars, readVars, waiting, attempts, left, content, targetVars>>

\* Cache: MergeMulti(r.cache, mb).
Merge(mb) == cache \o mb

\* cReader.Cache: what the pipe holds goes to the cache and is copied for the
\* sniffer; the wait takes time from the budget.
Cache(time) ==
    /\ at = "cache" /\ ~broken /\ pipe # <<>>
    /\ cache' = Merge(pipe)
    /\ pipe' = <<>>
    /\ left' = left - time
    /\ at' = "sniff"
    /\ UNCHANGED <<request, clientVars, out, broken, sniffers, waiting, attempts, meta,
                   content, targetVars>>

\* The wrapped reader of DispatchLink returns nothing when its own second is over,
\* which ends the budget: what is cached is sniffed once more.
CacheTimesOut ==
    /\ at = "cache" /\ request.path = "link" /\ pipe = <<>>
    /\ left' = 0
    /\ at' = IF cache = <<>> THEN "sniffed" ELSE "sniff"
    /\ attempts' = IF cache = <<>> THEN attempts + 1 ELSE attempts
    /\ UNCHANGED <<request, clientVars, readVars, sniffers, waiting, meta, content, targetVars>>

\* The read fails: the pipe's timeout, the end of the stream or an interrupt.
CacheFails ==
    /\ at = "cache" /\ pipe = <<>>
    /\ request.path = "pipe" \/ closed
    /\ at' = "sniffed"
    /\ UNCHANGED <<request, clientVars, readVars, sniffVars, targetVars>>

\* The sniffers Sniff asks.
Applies(s) == ~s.metadata /\ s.network = request.network

Said(answer, a) == SelectSeq(sniffers, LAMBDA s : Applies(s) /\ answer[s.name] = a)

Names(seq) == {seq[i].name : i \in 1 .. Len(seq)}

\* One payload: the first sniffer that matches decides.  Otherwise those without a
\* clue stay in the list, all others leave it; with none left, sniffing has failed.
\* Two rounds without a clue, or the end of the budget, end it too.
Sniff ==
    /\ at = "sniff"
    /\ \E answer \in [Names(SelectSeq(sniffers, Applies)) -> Answers] :
        LET matches == Said(answer, "match")
            pending == Said(answer, "noclue")
        IN  /\ waiting' = Names(Said(answer, "more"))
            /\ \/ /\ matches # <<>>
                  /\ \E d \in Domains(Head(matches).name) :
                        content' = [protocol |-> Reports(Head(matches).name), domain |-> d]
                  /\ at' = "sniffed"
                  /\ UNCHANGED <<sniffers, attempts>>
               \/ /\ matches = <<>> /\ pending # <<>>
                  /\ sniffers' = pending
                  /\ attempts' = attempts + 1
                  /\ at' = IF attempts' >= 2 \/ left = 0 THEN "sniffed" ELSE "cache"
                  /\ UNCHANGED content
               \/ /\ matches = <<>> /\ pending = <<>>
                  /\ at' = "sniffed"
                  /\ UNCHANGED <<sniffers, attempts, content>>
    /\ UNCHANGED <<request, clientVars, readVars, left, meta, targetVars>>

-----------------------------------------------------------------------------
(* The result and the destination. *)

\* Mutant: the content decides about the domain too.
ContentOnly(m, c) == [protocol |-> c.protocol, domain |-> c.domain, forDomain |-> c.protocol]

\* CompositeResult: the protocol of the content, the domain of the metadata.
CompositeResult(m, c) ==
    [protocol |-> c.protocol, domain |-> m.domain, forDomain |-> m.protocol]

Alone(r) == [protocol |-> r.protocol, domain |-> r.domain, forDomain |-> r.protocol]

\* The end of sniffer.
SniffResult ==
    IF meta # NoResult /\ content # NoResult THEN CompositeResult(meta, content)
    ELSE IF meta # NoResult THEN Alone(meta) ELSE Alone(content)

\* strings.HasPrefix either way, on the protocols there are.
SamePrefix(p, q) == p = q \/ {p, q} = {"http", "http1"}

\* shouldOverride.
ShouldOverride(r) ==
    /\ r.domain # "" /\ ~request.excluded
    /\ \E p \in request.override :
        \/ SamePrefix(r.forDomain, p)
        \/ p = "fakedns" /\ r.forDomain # "bittorrent" /\ request.fake # "no"

\* The domain is for the router only, unless the address is a fake one.
RouteOnly(r) == request.routeOnly /\ r.forDomain # "fakedns" /\ request.fake = "no"

\* The rest of Dispatch and DispatchLink: a sniffed domain becomes the target, or
\* only the one the router looks at.  The sniffer's own state is gone.
Override ==
    LET r == SniffResult IN
        /\ at = "sniffed"
        /\ at' = "route"
        /\ target' = IF ShouldOverride(r) /\ ~RouteOnly(r) THEN r.domain ELSE target
        /\ routeTarget' = IF ShouldOverride(r) /\ RouteOnly(r) THEN r.domain ELSE routeTarget
        /\ sniffers' = <<>> /\ waiting' = {} /\ attempts' = 0 /\ left' = Budget
        /\ meta' = NoResult /\ content' = NoResult
        /\ UNCHANGED <<request, clientVars, readVars>>

\* routedDispatch: refused by a domain or protocol rule, or no outbound: the reader
\* is interrupted, which a caching reader does to its cache and to a pipe.
Refuse ==
    /\ at = "route"
    /\ at' = "closed"
    /\ cache' = <<>>
    /\ IF request.path = "pipe" THEN broken' = TRUE /\ pipe' = <<>>
       ELSE UNCHANGED <<broken, pipe>>
    /\ UNCHANGED <<request, clientVars, out, sniffVars, targetVars>>

\* handler.Dispatch.
Open ==
    /\ at = "route"
    /\ at' = "open"
    /\ UNCHANGED <<request, clientVars, readVars, sniffVars, targetVars>>

\* Mutant: the cache is read and kept.
CacheKept == cache

\* readInternal: the cache is handed over once.
CacheTaken == <<>>

\* ReadMultiBuffer of the outbound: the cache, then the pipe.
ReadMultiBuffer ==
    /\ at = "open"
    /\ \/ cache # <<>> /\ out' = out \o cache /\ cache' = CacheTaken /\ UNCHANGED pipe
       \/ cache = <<>> /\ pipe # <<>> /\ out' = out \o pipe /\ pipe' = <<>> /\ UNCHANGED cache
    /\ UNCHANGED <<request, at, clientVars, broken, sniffVars, targetVars>>

DispatchStep ==
    \/ Begin \/ (\E time \in 0 .. left : Cache(time)) \/ CacheTimesOut \/ CacheFails
    \/ Sniff \/ Override \/ Refuse \/ Open

SniffNext == ClientWrite \/ ClientClose \/ CloseAll \/ DispatchStep \/ ReadMultiBuffer

SniffSpec == SniffInit /\ [][SniffNext]_sniffingVars

-----------------------------------------------------------------------------
(* Properties. *)

Sent == [i \in 1 .. wrote |-> i]

\* The outbound gets what the client sent, every chunk once and in order, although
\* the sniffer has read the first ones; an interrupt cuts the stream off somewhere
\* and never leaves a gap.
Delivered ==
    /\ \E n \in 0 .. Len(Sent) : out \o cache = SubSeq(Sent, 1, n)
    /\ (~broken /\ at # "closed") => out \o cache \o pipe = Sent

\* A connection to an address the fake DNS gave out is dialled by its domain, in
\* route-only mode and whatever its content looks like, if the request asks for it.
FakeNeverDialled ==
    (/\ at = "open" /\ request.sniffing # "off" /\ request.fake = "known"
     /\ "fakedns" \in request.override /\ ~request.excluded) => target = "real"

\* A sniffer that recognises its protocol and needs more data is given more until
\* the timeout: sniffing does not end without a result while one is waiting, time
\* is left and the client's data arrives.
UntilTimeout ==
    [][(at = "sniff" /\ at' = "sniffed" /\ content' = NoResult /\ left > 0)
        => waiting' = {}]_sniffingVars
=============================================================================
