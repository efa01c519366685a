------------------------------- MODULE Cores -------------------------------
(***************************************************************************)
(* The cores and the node they serve: which core a node goes to             *)
(* (core/core.go, core/selector.go), how its options are decoded for that   *)
(* core (conf/node.go), what AddNode, DelNode, AddUsers and DelUsers do to  *)
(* Xray (core/xray/node.go, native_udp.go) and to sing-box                  *)
(* (core/sing/node.go, naive.go, user.go), and what they leave behind when  *)
(* one of their steps fails.                                                *)
(*                                                                          *)
(* One tag; its calls come from one controller, one after the other.  The   *)
(* goroutine that serves native UDP runs beside them.  Each call is given   *)
(* the set F of its steps that fail, and a failed removal may keep what it  *)
(* was to remove or not.                                                    *)
(***************************************************************************)
EXTENDS Naturals, FiniteSets

CONSTANTS Names,      \* names of cores, which sort as numbers do
          Kinds,      \* node types
          Users,
          MaxFaults,  \* bound: steps that fail
          MaxStarts   \* bound: native UDP services started

ASSUME CoreConstants ==
    /\ Names \subseteq Nat \ {0} /\ IsFiniteSet(Names)
    /\ Kinds \subseteq {"anytls", "artx", "shadowtls", "naive", "hysteria2"}
    /\ {MaxFaults, MaxStarts} \subseteq Nat

VARIABLES cores,    \* the type of each configured core
          kind,     \* the node's type
          option,   \* the node's Options
          place,    \* the core that has the node, 0 for none
          box,      \* what each core has under the tag
          udp,      \* the native UDP service and its state
          dying,    \* services whose Serve has failed and not said so yet
          starts, faults,
          status,   \* the process: "up", "closed" or "panicked"
          want,     \* history: users the core was given, successful calls only
          failed,   \* history: a call has failed since the last AddNode
          unbuilt,  \* history: the last rebuild of the naive inbound failed
          mislaid   \* history: a service's failure was put down to a later one

coreVars == <<cores, kind, option, place, box, udp, dying, starts, faults, status,
              want, failed, unbuilt, mislaid>>
configVars == <<cores, kind>>
udpVars == <<udp, dying, starts, mislaid>>
historyVars == <<want, failed, unbuilt>>

Types == {"xray", "sing"}

\* What a core may hold: its public inbound, the detour behind it, an outbound, the
\* firewall redirect; these are the parts that are removed again.
Parts == {"public", "detour", "outbound", "redirect"}

NoBox == [public |-> FALSE, detour |-> FALSE, outbound |-> FALSE, redirect |-> FALSE,
          stuck |-> {},       \* history: parts a failed removal has kept
          type |-> "none",    \* nodeTypes
          naive |-> FALSE, users |-> {}, built |-> FALSE,   \* naiveNode
          serves |-> {}]      \* users the inbound authenticates

\* dead is external: Serve of the service in the map has returned.
NoUDP == [service |-> 0, dead |-> FALSE, ready |-> FALSE, mode |-> "none"]

-----------------------------------------------------------------------------
(* The options. *)

\* Options.UnmarshalJSON: an absent Core keeps the value that is there; a Core that is
\* none of the types is emptied and the options stay raw.
UnmarshalJSON(o) ==
    LET core == IF o.written = "absent" THEN o.core ELSE o.written IN
    IF core \in Types
    THEN [o EXCEPT !.core = core, !.decoded[core] = "written"]
    ELSE [o EXCEPT !.core = "", !.raw = TRUE]

Undecoded(written, name) ==
    [written |-> written, core |-> "", coreName |-> name, raw |-> FALSE,
     decoded |-> [t \in Types |-> "nil"]]

\* checkCoreSelection: what it lets through.
CheckCoreSelection(cs, written, name) ==
    LET ts == {cs[n] : n \in DOMAIN cs} IN
    /\ written \in {"absent", ""} \cup ts
    /\ name # 0 => name \in DOMAIN cs /\ (written \in Types => cs[name] = written)

\* checkCores: at least one core, each name once.
CoresInit ==
    /\ cores \in UNION {[ns -> Types] : ns \in (SUBSET Names) \ {{}}}
    /\ kind \in Kinds
    /\ \E written \in {"absent", ""} \cup Types, name \in Names \cup {0} :
        /\ CheckCoreSelection(cores, written, name)
        /\ option = UnmarshalJSON(Undecoded(written, name))
    /\ place = 0
    /\ box = [n \in DOMAIN cores |-> NoBox]
    /\ udp = NoUDP /\ dying = {} /\ starts = 0 /\ faults = 0
    /\ status = "up"
    /\ want = {} /\ failed = FALSE /\ unbuilt = FALSE /\ mislaid = FALSE

-----------------------------------------------------------------------------
(* The selector. *)

\* Protocols of the two cores.
Protocols(type) ==
    IF type = "xray" THEN {"anytls", "artx"} ELSE {"anytls", "shadowtls", "naive", "hysteria2"}

\* corePriority.
Rank(n) == IF cores[n] = "xray" THEN 0 ELSE 1

\* orderedCoreNames: by rank, and by name among equals.
Before(m, n) == Rank(m) < Rank(n) \/ (Rank(m) = Rank(n) /\ m <= n)

First(ns) == IF ns = {} THEN 0 ELSE CHOOSE m \in ns : \A n \in ns : Before(m, n)

Supported(n) == kind \in Protocols(cores[n])

\* selectCore.  NewCore makes no selector for a single core, which then takes every
\* node and refuses a type it cannot build.
Single == Cardinality(DOMAIN cores) = 1

SelectCore ==
    IF Single THEN CHOOSE n \in DOMAIN cores : TRUE
    ELSE IF option.coreName # 0
    THEN First({n \in {option.coreName} : Supported(n)})
    ELSE First({n \in DOMAIN cores :
                    Supported(n) /\ option.core \in {"", cores[n]}})

\* Selector.AddNode decodes the options for the core it has chosen and drops the raw
\* ones, whatever the decoding made of them.
Decode(n) ==
    IF Single \/ option.core # "" THEN option
    ELSE LET o == [option EXCEPT !.core = cores[n]] IN
         IF o.raw THEN [UnmarshalJSON(o) EXCEPT !.raw = FALSE] ELSE o

\* ensureSingOptions.
EnsureSingOptions(o) ==
    IF o.decoded["sing"] # "nil" THEN o
    ELSE [o EXCEPT !.decoded["sing"] = IF o.raw THEN "written" ELSE "default"]

-----------------------------------------------------------------------------
(* Parts, external: both cores create and remove handlers by tag.           *)

Remove(b, part, F, keep) ==
    IF ~b[part] THEN b
    ELSE IF part \in F /\ keep THEN [b EXCEPT !.stuck = @ \cup {part}]
    ELSE [b EXCEPT ![part] = FALSE]

\* userInboundTag: a ShadowTLS node has its users in the detour.
UserInbound == IF kind = "shadowtls" THEN "detour" ELSE "public"

Create(b, part) ==
    [b EXCEPT ![part] = TRUE, !.stuck = @ \ {part},
              !.serves = IF part = UserInbound THEN {} ELSE @]

\* Users go with the inbound they are in.
Settle(b) == IF b[UserInbound] THEN b ELSE [b EXCEPT !.serves = {}]

Result(b, ok) == [box |-> Settle(b), ok |-> ok]

-----------------------------------------------------------------------------
(* sing-box. *)

\* Mutant: the detour stays when the public inbound fails.
KeepDetour(b, F, keep) == b

\* addShadowTLSNode: the inbounds created before the one that failed are removed.
Rollback(b, F, keep) == Remove(b, "detour", F, keep)

\* buildShadowTLSInbounds: the detour comes first, the public inbound refers to it.
ShadowTLSInbounds == <<"detour", "public">>

AddShadowTLSNode(b, F, keep) ==
    LET detour == Create(b, ShadowTLSInbounds[1]) IN
    CASE F \cap {"build", "createDetour"} # {} -> Result(b, FALSE)
      [] F \cap {"build", "createDetour", "createPublic"} = {"createPublic"} ->
            Result(Rollback(detour, F, keep), FALSE)
      [] OTHER -> Result(Create(detour, ShadowTLSInbounds[2]), TRUE)

\* registerNaiveNode: no inbound before there are users.
RegisterNaiveNode(b, F) ==
    IF "build" \in F THEN Result(b, FALSE)
    ELSE Result([b EXCEPT !.naive = TRUE, !.users = {}, !.built = FALSE], TRUE)

CreateInbound(b, F) ==
    IF F \cap {"build", "createPublic"} # {} THEN Result(b, FALSE)
    ELSE Result(Create(b, "public"), TRUE)

\* The inbounds Sing.DelNode removes: by the type it has of the node, and for a naive
\* node only what was built.
InboundsOf(b) ==
    CASE b.type = "naive" /\ ~(b.naive /\ b.built) -> {}
      [] b.type = "shadowtls" -> {"public", "detour"}
      [] OTHER -> {"public"}

RemoveInbound(b, part, parts, F, keep) ==
    IF part \in parts THEN Remove(b, part, F, keep) ELSE b

\* Sing.DelNode: the bookkeeping goes first, whether the removals succeed or not.  An
\* inbound that is not there counts as removed.
SingDelNode(b0, F, keep) ==
    LET inbounds == InboundsOf(b0)
        b == Remove([b0 EXCEPT !.type = "none"], "redirect", F, keep)
        cleared == IF b0.type # "naive" THEN b
                   ELSE [b EXCEPT !.naive = FALSE, !.users = {}, !.built = FALSE]
        without == RemoveInbound(RemoveInbound(cleared, "public", inbounds, F, keep),
                                 "detour", inbounds, F, keep)
    IN  Result(without, \A part \in inbounds \cup {"redirect"} : b0[part] => part \notin F)

\* Sing.AddNode.  The redirect of a Hysteria node comes last; without it the node is
\* taken down again.
SingAddNode(b0, F, keep) ==
    LET b == [b0 EXCEPT !.type = kind]
        r == CASE kind \notin Protocols("sing") -> Result(b, FALSE)
               [] kind = "naive" -> RegisterNaiveNode(b, F)
               [] kind = "shadowtls" -> AddShadowTLSNode(b, F, keep)
               [] OTHER -> CreateInbound(b, F)
    IN  IF ~r.ok THEN Result([r.box EXCEPT !.type = "none"], FALSE)
        ELSE IF kind # "hysteria2" THEN r
        ELSE IF "redirects" \in F THEN Result(SingDelNode(r.box, F, keep).box, FALSE)
        ELSE Result(Create(r.box, "redirect"), TRUE)

\* rebuildNaiveLocked, with the changed users in b.
RebuildNaive(b, F, keep) ==
    LET gone == [Remove(b, "public", F, keep) EXCEPT !.built = FALSE] IN
    IF b.built /\ b.public /\ "public" \in F
    THEN Result(Remove(b, "public", F, keep), FALSE)
    ELSE IF b.users = {} THEN Result(IF b.built THEN gone ELSE b, TRUE)
    ELSE IF F \cap {"build", "createPublic"} # {}
    THEN Result(IF b.built THEN gone ELSE b, FALSE)
    ELSE Result([Create(b, "public") EXCEPT !.built = TRUE, !.serves = b.users], TRUE)

\* Mutant: users that leave do not cause a rebuild.
RebuildForMore(b, us, F, keep) ==
    CASE ~b.naive -> Result(b, FALSE)
      [] b.naive /\ us \subseteq b.users -> Result([b EXCEPT !.users = us], TRUE)
      [] OTHER -> RebuildNaive([b EXCEPT !.users = us], F, keep)

\* addNaiveUsers, delNaiveUsers: only a change of the set is worth a rebuild.
SetNaiveUsers(b, us, F, keep) ==
    CASE ~b.naive -> Result(b, FALSE)
      [] b.naive /\ us = b.users -> Result(b, TRUE)
      [] OTHER -> RebuildNaive([b EXCEPT !.users = us], F, keep)

-----------------------------------------------------------------------------
(* Xray. *)

\* How far AddNode comes: the inbound and the outbound handler, both new under the
\* tag.  buildInbound reads XrayOptions without asking whether they are there.
HasInbound(b, F) ==
    kind \in Protocols("xray") /\ F \cap {"build", "createPublic"} = {} /\ ~b.public
HasOutbound(b, F) == HasInbound(b, F) /\ "createOutbound" \notin F /\ ~b.outbound

\* Xray.AddNode; listens says whether startNativeUDP succeeds.
XrayAddNode(b, F, keep, listens) ==
    LET in == Create(b, "public")
        both == Create(in, "outbound")
    IN  IF ~HasInbound(b, F) THEN Result(b, FALSE)
        ELSE IF ~HasOutbound(b, F) THEN Result(Remove(in, "public", F, keep), FALSE)
        ELSE IF ~listens
        THEN Result(Remove(Remove(both, "outbound", F, keep), "public", F, keep), FALSE)
        ELSE Result(both, TRUE)

\* Xray.DelNode: every removal is tried; an inbound that is not there is an error.
XrayDelNode(b, F, keep) ==
    Result(Remove(Remove(b, "public", F, keep), "outbound", F, keep),
           b.public /\ F \cap {"public", "outbound", "closeUDP"} = {})

\* startNativeUDP of an ArtX node: in native mode a listener and its goroutine.
StartNativeUDP(native, ok) ==
    /\ udp' = CASE ~native -> [udp EXCEPT !.ready = FALSE, !.mode = "compat"]
                [] native /\ ~ok -> [udp EXCEPT !.ready = FALSE, !.mode = "disabled"]
                [] native /\ ok -> [service |-> starts + 1, dead |-> FALSE, ready |-> TRUE,
                                      mode |-> "native"]
    /\ starts' = IF native /\ ok THEN starts + 1 ELSE starts
    /\ mislaid' = IF native /\ ok THEN FALSE ELSE mislaid

\* Mutant: the cleanup leaves the state as it was.
ForgetService == [udp EXCEPT !.service = 0, !.dead = FALSE]

\* stopNativeUDP, closeNativeUDP and recordNativeUDPCleanup: the service leaves the map
\* and the state says so, whether or not it closes cleanly.
StopNativeUDP == [NoUDP EXCEPT !.mode = "disabled"]

-----------------------------------------------------------------------------
(* The calls. *)

\* The steps of each call that may fail, beside its removals.
AddSteps == {"build", "createPublic", "createDetour", "createOutbound", "redirects", "listen"}
UserSteps == {"build", "createPublic", "public", "users"}

\* Sets of failing steps, and what a failed removal does.
Failures(steps) == {F \in SUBSET steps : Cardinality(F) <= MaxFaults - faults}

Failing(F, keep) == keep => F \cap Parts # {}
Spend(F) == faults' = faults + Cardinality(F)

\* AddNode of NewCore's core.
AddNode(F, keep, native) ==
    LET n == SelectCore
        o == Decode(n)
        listens == native => "listen" \notin F /\ udp.service = 0
        r == IF cores[n] = "sing" THEN SingAddNode(box[n], F, keep)
             ELSE XrayAddNode(box[n], F, keep, listens)
    IN  /\ place = 0 /\ n # 0 /\ Spend(F)
        /\ native => kind = "artx" /\ starts < MaxStarts
        /\ (cores[n] = "xray" /\ o.decoded["xray"] = "nil") => "build" \in F \/ ~Supported(n)
        /\ option' = IF cores[n] = "sing" THEN EnsureSingOptions(o) ELSE o
        /\ box' = [box EXCEPT ![n] = r.box]
        /\ place' = IF r.ok THEN n ELSE 0
        /\ IF cores[n] = "xray" /\ HasOutbound(box[n], F) THEN StartNativeUDP(native, listens)
           ELSE UNCHANGED <<udp, starts, mislaid>>
        /\ IF r.ok THEN want' = {} /\ failed' = FALSE /\ unbuilt' = FALSE
           ELSE UNCHANGED historyVars
        /\ UNCHANGED <<configVars, dying, status>>

\* AddNode on a core of Xray while XrayOptions are nil.
AddNodePanics ==
    LET n == SelectCore IN
    /\ place = 0 /\ n # 0
    /\ cores[n] = "xray" /\ Supported(n) /\ Decode(n).decoded["xray"] = "nil"
    /\ status' = "panicked"
    /\ UNCHANGED <<configVars, option, place, box, udpVars, faults, historyVars>>

\* DelNode; the selector forgets the node only when its core has deleted it.
DelNode(F, keep) ==
    LET xray == cores[place] = "xray"
        r == IF xray THEN XrayDelNode(box[place], F, keep)
             ELSE SingDelNode(box[place], F, keep)
    IN  /\ place # 0 /\ Spend(F)
        /\ box' = [box EXCEPT ![place] = r.box]
        /\ place' = IF r.ok THEN 0 ELSE place
        /\ udp' = IF xray THEN StopNativeUDP ELSE udp
        /\ failed' = ~r.ok
        /\ UNCHANGED <<configVars, option, dying, starts, mislaid, status, want, unbuilt>>

\* The users' inbound takes the list us; Xray changes it user by user and may stop at
\* some of them, sing-box takes it whole.
SetUsers(us, some, F, keep) ==
    LET b == box[place]
        naive == cores[place] = "sing" /\ kind = "naive"
        r == IF naive THEN SetNaiveUsers(b, us, F, keep)
             ELSE IF ~b[UserInbound] THEN Result(b, FALSE)
             ELSE IF "users" \notin F THEN Result([b EXCEPT !.serves = us], TRUE)
             ELSE Result(IF cores[place] = "xray" THEN [b EXCEPT !.serves = some] ELSE b, FALSE)
    IN  /\ Spend(F)
        /\ box' = [box EXCEPT ![place] = r.box]
        /\ failed' = (failed \/ ~r.ok)
        /\ unbuilt' = IF naive /\ b.naive /\ us # b.users THEN ~r.ok ELSE unbuilt
        /\ want' = IF r.ok THEN us ELSE want
        /\ UNCHANGED <<configVars, option, place, udpVars, status>>

Listed == IF cores[place] = "sing" /\ kind = "naive" THEN box[place].users
          ELSE box[place].serves

AddUsers(us, some, F, keep) ==
    /\ place # 0
    /\ SetUsers(Listed \cup us, Listed \cup some, F, keep)

DelUsers(us, some, F, keep) ==
    /\ place # 0
    /\ SetUsers(Listed \ us, Listed \ some, F, keep)

-----------------------------------------------------------------------------
(* The goroutine of a native UDP service, and the end of the process.       *)

\* Serve returns with an error of its own: the service is in the map but dead.
ServeFails ==
    /\ udp.service # 0 /\ ~udp.dead
    /\ udp' = [udp EXCEPT !.dead = TRUE]
    /\ dying' = dying \cup {udp.service}
    /\ UNCHANGED <<configVars, option, place, box, starts, mislaid, faults, status,
                   historyVars>>

\* recordNativeUDPError finds the state by tag, which may be that of a later service.
RecordNativeUDPError(e) ==
    /\ e \in dying
    /\ dying' = dying \ {e}
    /\ udp' = [udp EXCEPT !.ready = FALSE, !.mode = "disabled"]
    /\ mislaid' = (mislaid \/ udp.service \notin {0, e})
    /\ UNCHANGED <<configVars, option, place, box, starts, faults, status, historyVars>>

\* Selector.Close, Xray.Close, Sing.Close: redirects first, since the firewall outlives
\* the process.
Close(F, keep) ==
    /\ Spend(F)
    /\ status' = "closed"
    /\ box' = [n \in DOMAIN cores |->
                 LET b == Remove(box[n], "redirect", F, keep) IN
                 [NoBox EXCEPT !.redirect = b.redirect, !.stuck = b.stuck \cap {"redirect"}]]
    /\ udp' = IF udp.service = 0 THEN udp ELSE StopNativeUDP
    /\ place' = 0
    /\ UNCHANGED <<configVars, option, dying, starts, mislaid, historyVars>>

Calls ==
    \/ \E F \in Failures(Parts \cup AddSteps), keep, native \in BOOLEAN :
            Failing(F, keep) /\ AddNode(F, keep, native)
    \/ AddNodePanics
    \/ \E F \in Failures(Parts \cup {"closeUDP"}), keep \in BOOLEAN :
            Failing(F, keep) /\ DelNode(F, keep)
    \/ \E F \in Failures(UserSteps), keep \in BOOLEAN, us \in (SUBSET Users) \ {{}} :
            /\ Failing(F, keep)
            /\ \E some \in IF "users" \in F THEN SUBSET us ELSE {{}} :
                    AddUsers(us, some, F, keep) \/ DelUsers(us, some, F, keep)
    \/ \E F \in Failures({"redirect"}), keep \in BOOLEAN : Failing(F, keep) /\ Close(F, keep)

CoresNext ==
    /\ status = "up"
    /\ Calls \/ ServeFails \/ \E e \in dying : RecordNativeUDPError(e)

CoresSpec == CoresInit /\ [][CoresNext]_coreVars

-----------------------------------------------------------------------------
(* Properties. *)

\* A failed AddNode leaves no half-built node behind, and a successful DelNode none at
\* all: a core that does not have the node holds no part of it but what a failed
\* removal kept.
NoHalfNode ==
    \A n \in DOMAIN cores : n # place => \A part \in Parts :
        box[n][part] => part \in box[n].stuck

\* The listener authenticates the users the core was given as long as no call failed;
\* and after a failure a naive listener that could be rebuilt since serves exactly the
\* users of its node, and is closed when there are none.
ServesUsers ==
    (place # 0 /\ status = "up") =>
        LET b == box[place] IN
        /\ (~failed /\ b.stuck = {}) => b.serves = want
        /\ (kind = "naive" /\ b.naive /\ ~unbuilt /\ b.stuck = {}) =>
               b.serves = b.users /\ (b.public <=> b.users # {})

\* What the panel is told of native UDP is true: ready means that there is a service
\* whose end, if it has failed, is about to be recorded; and a service that runs is
\* ready unless the failure of an earlier one was recorded late.
UDPStatusTrue ==
    /\ udp.ready => udp.service # 0 /\ (udp.dead => udp.service \in dying)
    /\ (udp.service # 0 /\ ~udp.dead) => udp.ready \/ mislaid

\* Options without Core are decoded for the core that serves the node, so no core sees
\* a node with options nobody decoded.
OptionsDecoded ==
    /\ status # "panicked"
    /\ place # 0 => option.decoded[cores[place]] = "written"
=============================================================================
