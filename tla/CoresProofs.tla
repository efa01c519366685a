---------------------------- MODULE CoresProofs ----------------------------
(***************************************************************************)
(* What a node leaves in the cores, whom its inbound serves and what is     *)
(* said of native UDP, for any number of cores, any users and any steps     *)
(* that fail.                                                               *)
(***************************************************************************)
EXTENDS Cores, WellFoundedInduction, TLAPS

\* A leaf is left to Zenon unless it names another prover.
USE ZenonT(60)

BoxRecords ==
    [public : BOOLEAN, detour : BOOLEAN, outbound : BOOLEAN, redirect : BOOLEAN,
     stuck : SUBSET Parts, type : {"none"} \cup Kinds, naive : BOOLEAN, users : SUBSET Users,
     built : BOOLEAN, serves : SUBSET Users]

\* The parts in b are those of ps and what a failed removal kept.
Held(b, ps) == \A part \in Parts : b[part] => part \in b.stuck \cup ps

\* Nobody is served without the inbound of the users.
Settled(b) == ~b[UserInbound] => b.serves = {}

OptionRecords ==
    [written : {"absent", ""} \cup Types, core : {""} \cup Types, coreName : DOMAIN cores \cup {0},
     raw : BOOLEAN, decoded : [Types -> {"nil", "written", "default"}]]

CoreTypes ==
    /\ DOMAIN cores \subseteq Names /\ DOMAIN cores # {}
    /\ \A n \in DOMAIN cores : cores[n] \in Types
    /\ kind \in Kinds /\ option \in OptionRecords
    /\ box \in [DOMAIN cores -> BoxRecords]
    /\ place \in DOMAIN cores \cup {0}
    /\ failed \in BOOLEAN /\ unbuilt \in BOOLEAN

\* A core of Xray that has the node, and one of sing-box, with what they hold of it.
OnXray(b) == kind \in Protocols("xray") /\ Held(b, {"public", "outbound"})

OnSing(b) ==
    /\ kind \in Protocols("sing") /\ Held(b, {"redirect"} \cup InboundsOf(b))
    /\ b.type \in {"none", kind} /\ (b.type = "none" => failed)
    /\ kind = "naive" => (b.naive => b.type = "naive") /\ (~b.naive => failed)

\* The users a naive node has are those its inbound serves, unless a rebuild failed.
NaiveServed(b) ==
    kind = "naive" /\ b.naive /\ ~unbuilt /\ b.stuck = {} =>
        b.serves = b.users /\ (b.public <=> b.users # {})

BoxInv ==
    /\ \A n \in DOMAIN cores : Settled(box[n])
    /\ \A n \in DOMAIN cores : n # place => Held(box[n], {})
    /\ place # 0 =>
          /\ cores[place] = "xray" => OnXray(box[place])
          /\ cores[place] = "sing" => OnSing(box[place])
          /\ ~failed /\ box[place].stuck = {} => box[place].serves = want
          /\ ~failed => ~unbuilt
          /\ NaiveServed(box[place])

UDPStates ==
    [service : Nat, dead : BOOLEAN, ready : BOOLEAN,
     mode : {"none", "compat", "disabled", "native"}]

\* A service that is in the map belongs to a node on Xray, and one whose end is to be
\* recorded is dead.
UDPInv ==
    /\ udp \in UDPStates /\ mislaid \in BOOLEAN
    /\ starts \in Nat /\ dying \subseteq 1 .. starts /\ udp.service \in 0 .. starts
    /\ udp.service \in dying => udp.dead
    /\ udp.service # 0 => place # 0 /\ cores[place] = "xray"
    /\ UDPStatusTrue

-----------------------------------------------------------------------------
(* The selector chooses a configured core.                                   *)

\* Of a set of numbers that is not empty, one is the least.
LEMMA LeastNumber ==
    ASSUME NEW T, T \subseteq Nat, T # {}
    PROVE  \E m \in T : \A n \in T : m <= n
<1>1. PICK m \in T : \A n \in T : ~(<<n, m>> \in OpToRel(<, Nat))
  BY NatLessThanWellFounded, WFMin
<1>2. ASSUME NEW n \in T PROVE m <= n
  <2>1. <<n, m>> \notin OpToRel(<, Nat) BY <1>1
  <2>2. m \in Nat /\ n \in Nat BY <1>1
  <2>3. ~(n < m) BY <2>1, <2>2 DEF OpToRel
  <2>. QED BY SMTT(60), <2>2, <2>3
<1>. QED BY <1>2

LEMMA FirstIsOne ==
    ASSUME CoreTypes, NEW ns \in SUBSET DOMAIN cores
    PROVE  First(ns) \in ns \cup {0}
<1>1. CASE ns = {} BY <1>1 DEF First
<1>2. CASE ns # {}
  <2>. DEFINE low == {n \in ns : Rank(n) = 0}
  <2>1. ns \subseteq Nat /\ \A n \in ns : Rank(n) \in {0, 1}
    BY CoreConstants DEF CoreTypes, Rank
  <2>2. \E m \in ns : \A n \in ns : Before(m, n)
    <3>1. CASE low # {}
      <4>1. PICK m \in low : \A n \in low : m <= n BY <2>1, <3>1, LeastNumber
      <4>2. \A n \in ns : Before(m, n) BY SMTT(60), <2>1, <4>1 DEF Before
      <4>. QED BY <4>1, <4>2
    <3>2. CASE low = {}
      <4>1. PICK m \in ns : \A n \in ns : m <= n BY <1>2, <2>1, LeastNumber
      <4>2. \A n \in ns : Rank(n) = 1 BY <2>1, <3>2
      <4>. QED BY <4>1, <4>2 DEF Before
    <3>. QED BY <3>1, <3>2
  <2>. QED BY <1>2, <2>2 DEF First
<1>. QED BY <1>1, <1>2

\* Whatever the options say, the node goes to a core there is, or to none.
LEMMA SelectedIsThere ==
    ASSUME CoreTypes
    PROVE  SelectCore \in DOMAIN cores \cup {0}
<1>1. CASE Single BY <1>1 DEF SelectCore, CoreTypes
<1>2. CASE ~Single /\ option.coreName = 0
  <2>. DEFINE ns == {n \in DOMAIN cores : Supported(n) /\ option.core \in {"", cores[n]}}
  <2>1. SelectCore = First(ns) BY <1>2 DEF SelectCore
  <2>2. ns \in SUBSET DOMAIN cores OBVIOUS
  <2>. HIDE DEF ns
  <2>. QED BY <2>1, <2>2, FirstIsOne
<1>3. CASE ~Single /\ option.coreName # 0
  <2>. DEFINE ns == {n \in {option.coreName} : Supported(n)}
  <2>1. SelectCore = First(ns) BY <1>3 DEF SelectCore
  <2>2. ns \in SUBSET DOMAIN cores BY <1>3 DEF CoreTypes, OptionRecords
  <2>. HIDE DEF ns
  <2>. QED BY <2>1, <2>2, FirstIsOne
<1>. QED BY <1>1, <1>2, <1>3

LEMMA UnmarshalKeepsType ==
    ASSUME NEW o \in OptionRecords
    PROVE  UnmarshalJSON(o) \in OptionRecords
<1>. DEFINE core == IF o.written = "absent" THEN o.core ELSE o.written
<1>1. core \in {"absent", ""} \cup Types BY DEF OptionRecords
<1>. HIDE DEF core
<1>2. CASE core \in Types
  <2>1. UnmarshalJSON(o) = [o EXCEPT !.core = core, !.decoded[core] = "written"]
    BY <1>2 DEF UnmarshalJSON, core
  <2>2. o.decoded \in [Types -> {"nil", "written", "default"}] BY DEF OptionRecords
  <2>3. [o.decoded EXCEPT ![core] = "written"] \in [Types -> {"nil", "written", "default"}]
    BY <1>2, <2>2
  <2>. QED BY <1>2, <2>1, <2>3 DEF OptionRecords
<1>3. CASE core \notin Types
  <2>1. UnmarshalJSON(o) = [o EXCEPT !.core = "", !.raw = TRUE]
    BY <1>3 DEF UnmarshalJSON, core
  <2>. QED BY <2>1 DEF OptionRecords
<1>. QED BY <1>2, <1>3

LEMMA OptionsKeepType ==
    ASSUME CoreTypes, NEW n \in DOMAIN cores
    PROVE  Decode(n) \in OptionRecords /\ EnsureSingOptions(Decode(n)) \in OptionRecords
<1>1. option \in OptionRecords /\ cores[n] \in Types BY DEF CoreTypes
<1>2. Decode(n) \in OptionRecords
  <2>. DEFINE o == [option EXCEPT !.core = cores[n]]
  <2>1. o \in OptionRecords BY <1>1 DEF OptionRecords
  <2>2. UnmarshalJSON(o) \in OptionRecords BY <2>1, UnmarshalKeepsType
  <2>3. [UnmarshalJSON(o) EXCEPT !.raw = FALSE] \in OptionRecords
    BY <2>2 DEF OptionRecords
  <2>. QED BY <1>1, <2>1, <2>3 DEF Decode
<1>3. ASSUME NEW o \in OptionRecords PROVE EnsureSingOptions(o) \in OptionRecords
  <2>1. o.decoded \in [Types -> {"nil", "written", "default"}] BY DEF OptionRecords
  <2>. DEFINE d == [o.decoded EXCEPT !["sing"] = IF o.raw THEN "written" ELSE "default"]
  <2>2. d \in [Types -> {"nil", "written", "default"}] BY <2>1
  <2>3. EnsureSingOptions(o) \in {o, [o EXCEPT !.decoded = d]} BY DEF EnsureSingOptions
  <2>. HIDE DEF d
  <2>4. [o EXCEPT !.decoded = d] \in OptionRecords BY <2>2 DEF OptionRecords
  <2>. QED BY <2>3, <2>4
<1>. QED BY <1>2, <1>3

-----------------------------------------------------------------------------
(* What the operations on the parts do.                                      *)

\* r has what b has, but for the parts.
SameRest(b, r) ==
    /\ r.type = b.type /\ r.naive = b.naive /\ r.users = b.users /\ r.built = b.built
    /\ r.serves = b.serves

\* r is b without part, unless its removal failed and kept it.
Less(b, r, part, F) ==
    /\ r \in BoxRecords /\ SameRest(b, r)
    /\ b.stuck \subseteq r.stuck
    /\ \A p \in Parts \ {part} : r[p] = b[p]
    /\ r[part] => b[part] /\ part \in r.stuck
    /\ part \notin F => ~r[part] /\ r.stuck = b.stuck

LEMMA RemoveIsLess ==
    ASSUME NEW b \in BoxRecords, NEW part \in Parts, NEW F, NEW keep
    PROVE  Less(b, Remove(b, part, F, keep), part, F)
<1>1. CASE ~b[part]
  BY <1>1 DEF Remove, Less, SameRest
<1>2. CASE b[part] /\ part \in F /\ keep
  <2>. DEFINE r == [b EXCEPT !.stuck = b.stuck \cup {part}]
  <2>1. Remove(b, part, F, keep) = r BY <1>2 DEF Remove
  <2>2. r \in BoxRecords /\ SameRest(b, r) /\ r.stuck = b.stuck \cup {part}
    BY DEF BoxRecords, SameRest
  <2>3. \A p \in Parts : r[p] = b[p] BY DEF BoxRecords, Parts
  <2>. HIDE DEF r
  <2>. QED BY <1>2, <2>1, <2>2, <2>3 DEF Less
<1>3. CASE b[part] /\ ~(part \in F /\ keep)
  <2>. DEFINE r == [b EXCEPT ![part] = FALSE]
  <2>1. Remove(b, part, F, keep) = r BY <1>3 DEF Remove
  <2>2. r \in BoxRecords /\ SameRest(b, r) /\ r.stuck = b.stuck
    BY DEF BoxRecords, SameRest, Parts
  <2>3. ~r[part] /\ \A p \in Parts \ {part} : r[p] = b[p] BY DEF BoxRecords, Parts
  <2>. HIDE DEF r
  <2>. QED BY <1>3, <2>1, <2>2, <2>3 DEF Less
<1>. QED BY <1>1, <1>2, <1>3

\* r is b with part, newly made.
More(b, r, part) ==
    /\ r \in BoxRecords
    /\ r.type = b.type /\ r.naive = b.naive /\ r.users = b.users /\ r.built = b.built
    /\ r.serves = IF part = UserInbound THEN {} ELSE b.serves
    /\ r.stuck = b.stuck \ {part}
    /\ \A p \in Parts \ {part} : r[p] = b[p]
    /\ r[part]

LEMMA CreateIsMore ==
    ASSUME NEW b \in BoxRecords, NEW part \in Parts
    PROVE  More(b, Create(b, part), part)
<1>. DEFINE sv == IF part = UserInbound THEN {} ELSE b.serves
            st == b.stuck \ {part}
            r == [b EXCEPT ![part] = TRUE, !.stuck = st, !.serves = sv]
<1>1. Create(b, part) = r BY DEF Create
<1>2. sv \in SUBSET Users /\ st \in SUBSET Parts BY DEF BoxRecords
<1>. HIDE DEF sv, st
<1>3. /\ r \in BoxRecords /\ r.type = b.type /\ r.naive = b.naive /\ r.users = b.users
      /\ r.built = b.built /\ r.serves = sv /\ r.stuck = st
  BY <1>2 DEF BoxRecords, Parts
<1>4. r[part] /\ \A p \in Parts \ {part} : r[p] = b[p] BY <1>2 DEF BoxRecords, Parts
<1>. HIDE DEF r
<1>. QED BY <1>1, <1>3, <1>4 DEF More, sv, st

\* The users go with their inbound, and nothing else changes.
Done(b, r) ==
    /\ r \in BoxRecords
    /\ r.type = b.type /\ r.naive = b.naive /\ r.users = b.users /\ r.built = b.built
    /\ r.serves = IF b[UserInbound] THEN b.serves ELSE {}
    /\ r.stuck = b.stuck
    /\ \A p \in Parts : r[p] = b[p]

LEMMA ResultIsDone ==
    ASSUME NEW b \in BoxRecords, NEW ok
    PROVE  Result(b, ok).ok = ok /\ Done(b, Result(b, ok).box)
<1>1. Result(b, ok).ok = ok /\ Result(b, ok).box = Settle(b) BY DEF Result
<1>2. CASE b[UserInbound] BY <1>1, <1>2 DEF Settle, Done
<1>3. CASE ~b[UserInbound]
  <2>. DEFINE r == [b EXCEPT !.serves = {}]
  <2>1. Settle(b) = r BY <1>3 DEF Settle
  <2>2. /\ r \in BoxRecords /\ r.type = b.type /\ r.naive = b.naive /\ r.users = b.users
        /\ r.built = b.built /\ r.serves = {} /\ r.stuck = b.stuck
        /\ \A p \in Parts : r[p] = b[p]
    BY DEF BoxRecords, Parts
  <2>. HIDE DEF r
  <2>. QED BY <1>1, <1>3, <2>1, <2>2 DEF Done
<1>. QED BY <1>2, <1>3

LEMMA DoneIsSettled ==
    ASSUME NEW b, NEW r, Done(b, r)
    PROVE  Settled(r) /\ \A ps : Held(r, ps) <=> Held(b, ps)
<1>1. UserInbound \in Parts BY DEF UserInbound, Parts
<1>. QED BY <1>1 DEF Done, Settled, Held

\* A removal keeps no part but the stuck ones beyond those that were held.
LEMMA LessHolds ==
    ASSUME NEW b, NEW r, NEW part, NEW F, Less(b, r, part, F), NEW ps, Held(b, ps)
    PROVE  Held(r, ps \ {part})
BY DEF Less, Held

-----------------------------------------------------------------------------
(* sing-box.                                                                 *)

\* Sing.DelNode takes out what the node had; what stays is stuck.
LEMMA SingDelLeavesNothing ==
    ASSUME NEW b0 \in BoxRecords, NEW F, NEW keep \in BOOLEAN
    PROVE  LET r == SingDelNode(b0, F, keep) IN
           /\ r.box \in BoxRecords /\ Settled(r.box) /\ r.ok \in BOOLEAN
           /\ r.box.type = "none"
           /\ Held(b0, {"redirect"} \cup InboundsOf(b0)) => Held(r.box, {})
           /\ b0.type # "naive" => r.box.naive = b0.naive
           /\ b0.type = "naive" => ~r.box.naive
<1>. DEFINE ins == InboundsOf(b0)
            ok == \A part \in ins \cup {"redirect"} : b0[part] => part \notin F
            b1 == [b0 EXCEPT !.type = "none"]
            b == Remove(b1, "redirect", F, keep)
            b2 == [b EXCEPT !.naive = FALSE, !.users = {}, !.built = FALSE]
            cleared == IF b0.type # "naive" THEN b ELSE b2
            half == RemoveInbound(cleared, "public", ins, F, keep)
            without == RemoveInbound(half, "detour", ins, F, keep)
            r == SingDelNode(b0, F, keep)
<1>1. r = Result(without, ok) BY DEF SingDelNode
<1>2. ins \in {{}, {"public"}, {"public", "detour"}} BY DEF InboundsOf
<1>3. /\ b1 \in BoxRecords /\ b1.type = "none" /\ b1.naive = b0.naive /\ b1.stuck = b0.stuck
      /\ \A p \in Parts : b1[p] = b0[p]
  BY DEF BoxRecords, Parts
<1>. HIDE DEF b1, ins
<1>4. Less(b1, b, "redirect", F) BY <1>3, RemoveIsLess DEF Parts
<1>. HIDE DEF b
<1>5. /\ b \in BoxRecords /\ b.type = "none" /\ b.naive = b0.naive
      /\ \A ps : Held(b0, ps) => Held(b, ps \ {"redirect"})
  <2>1. \A ps : Held(b0, ps) => Held(b1, ps) BY <1>3 DEF Held
  <2>. QED BY <1>3, <1>4, <2>1, LessHolds DEF Less, SameRest
<1>6. /\ b2 \in BoxRecords /\ b2.type = "none" /\ b2.naive = FALSE /\ b2.stuck = b.stuck
      /\ \A p \in Parts : b2[p] = b[p]
  BY <1>5 DEF BoxRecords, Parts
<1>. HIDE DEF b2
<1>7. /\ cleared \in BoxRecords /\ cleared.type = "none"
      /\ cleared.naive = IF b0.type # "naive" THEN b0.naive ELSE FALSE
      /\ \A ps : Held(b0, ps) => Held(cleared, ps \ {"redirect"})
  <2>1. \A ps : Held(b, ps) => Held(b2, ps) BY <1>6 DEF Held
  <2>. QED BY <1>5, <1>6, <2>1
<1>. HIDE DEF cleared
<1>8. ASSUME NEW c \in BoxRecords, NEW part \in {"public", "detour"}
      PROVE  LET d == RemoveInbound(c, part, ins, F, keep) IN
             /\ d \in BoxRecords /\ d.type = c.type /\ d.naive = c.naive
             /\ \A ps : Held(c, ps) => Held(d, ps \ (ins \cap {part}))
  <2>1. CASE part \in ins
    <3>1. Less(c, Remove(c, part, F, keep), part, F) BY RemoveIsLess DEF Parts
    <3>2. ins \cap {part} = {part} BY <2>1
    <3>. QED BY <2>1, <3>1, <3>2, LessHolds DEF RemoveInbound, Less, SameRest
  <2>2. CASE part \notin ins
    <3>1. ins \cap {part} = {} BY <2>2
    <3>2. \A ps : ps \ {} = ps OBVIOUS
    <3>. QED BY <2>2, <3>1, <3>2 DEF RemoveInbound
  <2>. QED BY <2>1, <2>2
<1>9. /\ half \in BoxRecords /\ half.type = "none" /\ half.naive = cleared.naive
      /\ \A ps : Held(cleared, ps) => Held(half, ps \ (ins \cap {"public"}))
  BY <1>7, <1>8
<1>. HIDE DEF half
<1>10. /\ without \in BoxRecords /\ without.type = "none" /\ without.naive = cleared.naive
       /\ \A ps : Held(half, ps) => Held(without, ps \ (ins \cap {"detour"}))
  BY <1>8, <1>9
<1>. HIDE DEF without
<1>11. Held(b0, {"redirect"} \cup ins) => Held(without, {})
  <2>1. ((({"redirect"} \cup ins) \ {"redirect"}) \ (ins \cap {"public"}))
           \ (ins \cap {"detour"}) = {}
    BY <1>2
  <2>. QED BY <1>7, <1>9, <1>10, <2>1
<1>12. ok \in BOOLEAN BY DEF ok
<1>. HIDE DEF ok
<1>13. r.ok = ok /\ Done(without, r.box) BY <1>1, <1>10, ResultIsDone
<1>14. Settled(r.box) /\ (Held(r.box, {}) <=> Held(without, {})) BY <1>13, DoneIsSettled
<1>15. r.box \in BoxRecords /\ r.box.type = "none" /\ r.box.naive = cleared.naive
  BY <1>10, <1>13 DEF Done
<1>. HIDE DEF r
<1>16. /\ r.box \in BoxRecords /\ Settled(r.box) /\ r.ok \in BOOLEAN
       /\ r.box.type = "none"
       /\ Held(b0, {"redirect"} \cup InboundsOf(b0)) => Held(r.box, {})
       /\ b0.type # "naive" => r.box.naive = b0.naive
       /\ b0.type = "naive" => ~r.box.naive
  BY <1>7, <1>11, <1>12, <1>13, <1>14, <1>15 DEF ins
<1>. QED BY <1>16 DEF r

\* A creation adds one part to those that are held.
LEMMA MoreHolds ==
    ASSUME NEW b, NEW r, NEW part, More(b, r, part), NEW ps, Held(b, ps)
    PROVE  Held(r, ps \cup {part})
BY DEF More, Held

\* What a step of Sing.AddNode makes of a box without parts: all or nothing.
Added(b) ==
    /\ Held(b, InboundsOf(b))
    /\ (kind # "naive" \/ b.stuck = {}) => b.serves = {}
    /\ kind = "naive" => b.naive /\ b.users = {} /\ (b.stuck = {} => ~b.public)

Outcome(r) ==
    /\ r.box \in BoxRecords /\ Settled(r.box) /\ r.ok \in BOOLEAN /\ r.box.type = kind
    /\ r.ok => Added(r.box)
    /\ ~r.ok => Held(r.box, {})

\* The box before: no parts, and the type is noted.
Noted(b) == b \in BoxRecords /\ Held(b, {}) /\ b.type = kind

LEMMA NothingDone ==
    ASSUME NEW b, Noted(b)
    PROVE  Outcome(Result(b, FALSE))
<1>1. /\ Result(b, FALSE).ok = FALSE /\ Done(b, Result(b, FALSE).box)
  BY ResultIsDone DEF Noted
<1>. DEFINE r == Result(b, FALSE)
<1>2. r.box \in BoxRecords /\ r.box.type = kind BY <1>1 DEF Noted, Done
<1>3. Settled(r.box) /\ Held(r.box, {}) BY <1>1, DoneIsSettled DEF Noted
<1>4. r.ok = FALSE BY <1>1
<1>. HIDE DEF r
<1>5. Outcome(r) BY <1>2, <1>3, <1>4 DEF Outcome
<1>. QED BY <1>5 DEF r

LEMMA ShadowTLSOutcome ==
    ASSUME NEW b, Noted(b), kind = "shadowtls", NEW F, NEW keep
    PROVE  Outcome(AddShadowTLSNode(b, F, keep))
<1>. DEFINE d == Create(b, "detour")
            both == Create(d, "public")
            back == Remove(d, "detour", F, keep)
<1>1. UserInbound = "detour" BY DEF UserInbound
<1>2. More(b, d, "detour") BY CreateIsMore DEF Noted, Parts
<1>3. d \in BoxRecords /\ Held(d, {"detour"}) /\ d.type = kind /\ d.serves = {}
  <2>1. Held(d, {} \cup {"detour"}) BY <1>2, MoreHolds DEF Noted
  <2>. QED BY <1>1, <1>2, <2>1 DEF More, Noted
<1>. HIDE DEF d
<1>4. More(d, both, "public") /\ Less(d, back, "detour", F)
  BY <1>3, CreateIsMore, RemoveIsLess DEF Parts
<1>5. both \in BoxRecords /\ Held(both, {"public", "detour"}) /\ both.type = kind /\ both.serves = {}
  <2>1. Held(both, {"detour"} \cup {"public"}) BY <1>3, <1>4, MoreHolds
  <2>2. {"detour"} \cup {"public"} = {"public", "detour"} OBVIOUS
  <2>. QED BY <1>1, <1>3, <1>4, <2>1, <2>2 DEF More
<1>6. back \in BoxRecords /\ Held(back, {}) /\ back.type = kind
  <2>1. Held(back, {"detour"} \ {"detour"}) BY <1>3, <1>4, LessHolds
  <2>2. {"detour"} \ {"detour"} = {} OBVIOUS
  <2>. QED BY <1>3, <1>4, <2>1, <2>2 DEF Less, SameRest
<1>7. AddShadowTLSNode(b, F, keep) \in {Result(b, FALSE), Result(back, FALSE), Result(both, TRUE)}
  BY DEF AddShadowTLSNode, ShadowTLSInbounds, Rollback, d
<1>. HIDE DEF both, back
<1>8. Outcome(Result(b, FALSE)) BY NothingDone
<1>9. Outcome(Result(back, FALSE)) BY <1>6, NothingDone DEF Noted
<1>10. Outcome(Result(both, TRUE))
  <2>. DEFINE r == Result(both, TRUE)
  <2>1. r.ok = TRUE /\ Done(both, r.box) BY <1>5, ResultIsDone
  <2>2. Settled(r.box) /\ Held(r.box, {"public", "detour"}) BY <1>5, <2>1, DoneIsSettled
  <2>3. r.box \in BoxRecords /\ r.box.type = kind /\ r.box.serves = {} BY <1>5, <2>1 DEF Done
  <2>4. InboundsOf(r.box) = {"public", "detour"} BY <2>3 DEF InboundsOf
  <2>5. r.ok = TRUE BY <2>1
  <2>. HIDE DEF r
  <2>6. Added(r.box) BY <2>2, <2>3, <2>4 DEF Added
  <2>7. Outcome(r) BY <2>2, <2>3, <2>5, <2>6 DEF Outcome
  <2>. QED BY <2>7 DEF r
<1>. QED BY <1>7, <1>8, <1>9, <1>10

LEMMA NaiveOutcome ==
    ASSUME NEW b, Noted(b), kind = "naive", NEW F
    PROVE  Outcome(RegisterNaiveNode(b, F))
<1>. DEFINE c == [b EXCEPT !.naive = TRUE, !.users = {}, !.built = FALSE]
            r == Result(c, TRUE)
<1>1. /\ c \in BoxRecords /\ c.type = kind /\ c.naive /\ c.users = {} /\ ~c.built
      /\ c.stuck = b.stuck /\ \A p \in Parts : c[p] = b[p]
  BY DEF Noted, BoxRecords, Parts
<1>2. Held(c, {}) BY <1>1 DEF Noted, Held
<1>. HIDE DEF c
<1>3. r.ok = TRUE /\ Done(c, r.box) BY <1>1, ResultIsDone
<1>. HIDE DEF r
<1>4. Settled(r.box) /\ Held(r.box, {}) BY <1>2, <1>3, DoneIsSettled
<1>5. /\ r.box \in BoxRecords /\ r.box.type = kind /\ r.box.naive /\ r.box.users = {}
      /\ ~r.box.built
  BY <1>1, <1>3 DEF Done
<1>6. r.box.stuck = {} => ~r.box.public /\ r.box.serves = {}
  BY <1>4 DEF Held, Settled, Parts, UserInbound
<1>7. InboundsOf(r.box) = {} BY <1>5 DEF InboundsOf
<1>8. Outcome(r) BY <1>3, <1>4, <1>5, <1>6, <1>7 DEF Outcome, Added
<1>9. RegisterNaiveNode(b, F) \in {Result(b, FALSE), r} BY DEF RegisterNaiveNode, r, c
<1>. QED BY <1>8, <1>9, NothingDone

LEMMA InboundOutcome ==
    ASSUME NEW b, Noted(b), kind \notin {"naive", "shadowtls"}, NEW F
    PROVE  Outcome(CreateInbound(b, F))
<1>. DEFINE c == Create(b, "public")
            r == Result(c, TRUE)
<1>1. UserInbound = "public" BY DEF UserInbound
<1>2. More(b, c, "public") BY CreateIsMore DEF Noted, Parts
<1>3. c \in BoxRecords /\ Held(c, {"public"}) /\ c.type = kind /\ c.serves = {}
  <2>1. Held(c, {} \cup {"public"}) BY <1>2, MoreHolds DEF Noted
  <2>. QED BY <1>1, <1>2, <2>1 DEF More, Noted
<1>. HIDE DEF c
<1>4. r.ok = TRUE /\ Done(c, r.box) BY <1>3, ResultIsDone
<1>. HIDE DEF r
<1>5. Settled(r.box) /\ Held(r.box, {"public"}) BY <1>3, <1>4, DoneIsSettled
<1>6. r.box \in BoxRecords /\ r.box.type = kind /\ r.box.serves = {} BY <1>3, <1>4 DEF Done
<1>7. InboundsOf(r.box) = {"public"} BY <1>6 DEF InboundsOf
<1>8. Outcome(r) BY <1>4, <1>5, <1>6, <1>7 DEF Outcome, Added
<1>9. CreateInbound(b, F) \in {Result(b, FALSE), r} BY DEF CreateInbound, r, c
<1>. QED BY <1>8, <1>9, NothingDone

\* Sing.AddNode: all of the node, or nothing but what is stuck.
SingAdded(r) ==
    /\ r.box \in BoxRecords /\ Settled(r.box) /\ r.ok \in BOOLEAN
    /\ r.ok => /\ kind \in Protocols("sing") /\ r.box.type = kind
               /\ Held(r.box, {"redirect"} \cup InboundsOf(r.box))
               /\ r.box.stuck = {} => r.box.serves = {}
               /\ kind = "naive" => /\ r.box.naive /\ r.box.users = {}
                                    /\ r.box.stuck = {} => ~r.box.public
    /\ ~r.ok => Held(r.box, {})

\* A failed AddNode whose box b holds nothing.
LEMMA FailedSing ==
    ASSUME NEW b \in BoxRecords, Held(b, {})
    PROVE  SingAdded(Result(b, FALSE))
<1>. DEFINE r == Result(b, FALSE)
<1>1. r.ok = FALSE /\ Done(b, r.box) BY ResultIsDone
<1>. HIDE DEF r
<1>2. r.box \in BoxRecords BY <1>1 DEF Done
<1>3. Settled(r.box) /\ Held(r.box, {}) BY <1>1, DoneIsSettled
<1>4. r.ok = FALSE BY <1>1
<1>5. SingAdded(r) BY <1>2, <1>3, <1>4 DEF SingAdded
<1>. QED BY <1>5 DEF r

LEMMA SingAddIsWhole ==
    ASSUME NEW b0 \in BoxRecords, Held(b0, {}), kind \in Kinds, NEW F, NEW keep \in BOOLEAN
    PROVE  SingAdded(SingAddNode(b0, F, keep))
<1>. DEFINE b == [b0 EXCEPT !.type = kind]
            r == CASE kind \notin Protocols("sing") -> Result(b, FALSE)
                   [] kind = "naive" -> RegisterNaiveNode(b, F)
                   [] kind = "shadowtls" -> AddShadowTLSNode(b, F, keep)
                   [] OTHER -> CreateInbound(b, F)
            down == [r.box EXCEPT !.type = "none"]
<1>1. Noted(b)
  <2>1. /\ b \in BoxRecords /\ b.type = kind /\ b.stuck = b0.stuck
        /\ \A p \in Parts : b[p] = b0[p]
    BY DEF BoxRecords, Parts
  <2>. QED BY <2>1 DEF Noted, Held
<1>. HIDE DEF b
<1>2. Outcome(r) /\ (r.ok => kind \in Protocols("sing"))
  <2>1. CASE kind \notin Protocols("sing")
    <3>1. r = Result(b, FALSE)
      BY <2>1 DEF Protocols
    <3>2. r.ok = FALSE BY <1>1, <3>1, ResultIsDone DEF Noted
    <3>. QED BY <1>1, <3>1, <3>2, NothingDone
  <2>2. CASE kind \in Protocols("sing") /\ kind = "naive"
    <3>1. r = RegisterNaiveNode(b, F) BY <2>2
    <3>. QED BY <1>1, <2>2, <3>1, NaiveOutcome
  <2>3. CASE kind \in Protocols("sing") /\ kind = "shadowtls"
    <3>1. r = AddShadowTLSNode(b, F, keep) BY <2>3
    <3>. QED BY <1>1, <2>3, <3>1, ShadowTLSOutcome
  <2>4. CASE kind \in Protocols("sing") /\ kind \notin {"naive", "shadowtls"}
    <3>1. r = CreateInbound(b, F) BY <2>4
    <3>. QED BY <1>1, <2>4, <3>1, InboundOutcome
  <2>. QED BY <2>1, <2>2, <2>3, <2>4
<1>3. SingAddNode(b0, F, keep) =
        IF ~r.ok THEN Result(down, FALSE)
        ELSE IF kind # "hysteria2" THEN r
        ELSE IF "redirects" \in F THEN Result(SingDelNode(r.box, F, keep).box, FALSE)
        ELSE Result(Create(r.box, "redirect"), TRUE)
  BY DEF SingAddNode, b
<1>. HIDE DEF r
<1>4. CASE ~r.ok
  <2>1. r.box \in BoxRecords /\ Held(r.box, {}) BY <1>2, <1>4 DEF Outcome
  <2>2. /\ down \in BoxRecords /\ down.stuck = r.box.stuck
        /\ \A p \in Parts : down[p] = r.box[p]
    BY <2>1 DEF BoxRecords, Parts
  <2>3. Held(down, {}) BY <2>1, <2>2 DEF Held
  <2>. HIDE DEF down
  <2>. QED BY <1>3, <1>4, <2>2, <2>3, FailedSing
<1>5. CASE r.ok /\ kind # "hysteria2"
  <2>1. SingAddNode(b0, F, keep) = r BY <1>3, <1>5
  <2>2. Held(r.box, InboundsOf(r.box)) BY <1>2, <1>5 DEF Outcome, Added
  <2>3. Held(r.box, {"redirect"} \cup InboundsOf(r.box)) BY <2>2 DEF Held
  <2>. QED BY <1>2, <1>5, <2>1, <2>3 DEF Outcome, Added, SingAdded
<1>6. CASE r.ok /\ kind = "hysteria2"
  <2>1. r.box \in BoxRecords /\ Held(r.box, InboundsOf(r.box)) /\ r.box.type = kind
    BY <1>2, <1>6 DEF Outcome, Added
  <2>2. CASE "redirects" \in F
    <3>. DEFINE c == SingDelNode(r.box, F, keep).box
    <3>1. Held(r.box, {"redirect"} \cup InboundsOf(r.box)) BY <2>1 DEF Held
    <3>2. c \in BoxRecords /\ Held(c, {}) BY <2>1, <3>1, SingDelLeavesNothing
    <3>3. SingAddNode(b0, F, keep) = Result(c, FALSE) BY <1>3, <1>6, <2>2
    <3>. HIDE DEF c
    <3>. QED BY <3>2, <3>3, FailedSing
  <2>3. CASE "redirects" \notin F
    <3>. DEFINE c == Create(r.box, "redirect")
                s == Result(c, TRUE)
    <3>1. More(r.box, c, "redirect") BY <2>1, CreateIsMore DEF Parts
    <3>2. SingAddNode(b0, F, keep) = s BY <1>3, <1>6, <2>3
    <3>3. UserInbound = "public" /\ InboundsOf(r.box) = {"public"}
      BY <1>6, <2>1 DEF UserInbound, InboundsOf
    <3>4. Held(c, {"public"} \cup {"redirect"}) BY <2>1, <3>1, <3>3, MoreHolds
    <3>5. /\ c \in BoxRecords /\ c.type = kind /\ c.serves = r.box.serves
          /\ c.stuck = r.box.stuck \ {"redirect"}
      BY <2>1, <3>1, <3>3 DEF More
    <3>. HIDE DEF c
    <3>6. s.ok = TRUE /\ Done(c, s.box) BY <3>5, ResultIsDone
    <3>. HIDE DEF s
    <3>7. Settled(s.box) /\ Held(s.box, {"public"} \cup {"redirect"})
      BY SMTT(60), <3>4, <3>6, DoneIsSettled
    <3>8. s.box \in BoxRecords /\ s.box.type = kind BY <3>5, <3>6 DEF Done
    <3>9. InboundsOf(s.box) = {"public"} BY <1>6, <3>8 DEF InboundsOf
    <3>10. Held(s.box, {"redirect"} \cup InboundsOf(s.box)) BY <3>7, <3>9 DEF Held
    <3>11. s.box.serves = {}
      <4>1. r.box.serves = {} BY <1>2, <1>6 DEF Outcome, Added
      <4>. QED BY <3>5, <3>6, <4>1 DEF Done
    <3>12. s.ok = TRUE BY <3>6
    <3>. QED BY <1>2, <1>6, <3>2, <3>7, <3>8, <3>10, <3>11, <3>12 DEF SingAdded
  <2>. QED BY <2>2, <2>3
<1>. QED BY <1>4, <1>5, <1>6

-----------------------------------------------------------------------------
(* Xray.                                                                     *)

XrayAdded(r) ==
    /\ r.box \in BoxRecords /\ Settled(r.box) /\ r.ok \in BOOLEAN
    /\ r.ok => /\ kind \in Protocols("xray") /\ Held(r.box, {"public", "outbound"})
               /\ r.box.serves = {}
    /\ ~r.ok => Held(r.box, {})

LEMMA FailedXray ==
    ASSUME NEW b \in BoxRecords, Held(b, {})
    PROVE  XrayAdded(Result(b, FALSE))
<1>. DEFINE r == Result(b, FALSE)
<1>1. r.ok = FALSE /\ Done(b, r.box) BY ResultIsDone
<1>. HIDE DEF r
<1>2. r.box \in BoxRecords BY <1>1 DEF Done
<1>3. Settled(r.box) /\ Held(r.box, {}) BY <1>1, DoneIsSettled
<1>4. r.ok = FALSE BY <1>1
<1>5. XrayAdded(r) BY <1>2, <1>3, <1>4 DEF XrayAdded
<1>. QED BY <1>5 DEF r

\* Xray.AddNode takes down what it has made when a later step fails.
LEMMA XrayAddIsWhole ==
    ASSUME NEW b \in BoxRecords, Held(b, {}), NEW F, NEW keep \in BOOLEAN, NEW listens \in BOOLEAN
    PROVE  XrayAdded(XrayAddNode(b, F, keep, listens))
<1>. DEFINE i == Create(b, "public")
            both == Create(i, "outbound")
            back == Remove(i, "public", F, keep)
            half == Remove(both, "outbound", F, keep)
            down == Remove(half, "public", F, keep)
<1>1. XrayAddNode(b, F, keep, listens) =
        IF ~HasInbound(b, F) THEN Result(b, FALSE)
        ELSE IF ~HasOutbound(b, F) THEN Result(back, FALSE)
        ELSE IF ~listens THEN Result(down, FALSE)
        ELSE Result(both, TRUE)
  BY DEF XrayAddNode
<1>2. More(b, i, "public") BY CreateIsMore DEF Parts
<1>3. i \in BoxRecords /\ Held(i, {"public"})
  <2>1. Held(i, {} \cup {"public"}) BY <1>2, MoreHolds
  <2>. QED BY <1>2, <2>1 DEF More
<1>. HIDE DEF i
<1>4. More(i, both, "outbound") /\ Less(i, back, "public", F)
  BY <1>3, CreateIsMore, RemoveIsLess DEF Parts
<1>5. both \in BoxRecords /\ Held(both, {"public", "outbound"})
  <2>1. Held(both, {"public"} \cup {"outbound"}) BY <1>3, <1>4, MoreHolds
  <2>2. {"public"} \cup {"outbound"} = {"public", "outbound"} OBVIOUS
  <2>. QED BY <1>4, <2>1, <2>2 DEF More
<1>6. back \in BoxRecords /\ Held(back, {})
  <2>1. Held(back, {"public"} \ {"public"}) BY <1>3, <1>4, LessHolds
  <2>2. {"public"} \ {"public"} = {} OBVIOUS
  <2>. QED BY <1>4, <2>1, <2>2 DEF Less
<1>. HIDE DEF both, back
<1>7. Less(both, half, "outbound", F) BY <1>5, RemoveIsLess DEF Parts
<1>8. half \in BoxRecords /\ Held(half, {"public"})
  <2>1. Held(half, {"public", "outbound"} \ {"outbound"}) BY <1>5, <1>7, LessHolds
  <2>2. {"public", "outbound"} \ {"outbound"} = {"public"} OBVIOUS
  <2>. QED BY <1>7, <2>1, <2>2 DEF Less
<1>. HIDE DEF half
<1>9. Less(half, down, "public", F) BY <1>8, RemoveIsLess DEF Parts
<1>10. down \in BoxRecords /\ Held(down, {})
  <2>1. Held(down, {"public"} \ {"public"}) BY <1>8, <1>9, LessHolds
  <2>2. {"public"} \ {"public"} = {} OBVIOUS
  <2>. QED BY <1>9, <2>1, <2>2 DEF Less
<1>. HIDE DEF down
<1>11. XrayAdded(Result(b, FALSE)) BY FailedXray
<1>12. XrayAdded(Result(back, FALSE)) BY <1>6, FailedXray
<1>13. XrayAdded(Result(down, FALSE)) BY <1>10, FailedXray
<1>14. ASSUME HasInbound(b, F) PROVE XrayAdded(Result(both, TRUE))
  <2>. DEFINE r == Result(both, TRUE)
  <2>1. kind \in Protocols("xray") BY <1>14 DEF HasInbound
  <2>2. UserInbound = "public" BY <2>1 DEF Protocols, UserInbound
  <2>3. both.serves = {} BY <1>2, <1>4, <2>2 DEF More
  <2>4. r.ok = TRUE /\ Done(both, r.box) BY <1>5, ResultIsDone
  <2>. HIDE DEF r
  <2>5. Settled(r.box) /\ Held(r.box, {"public", "outbound"}) BY <1>5, <2>4, DoneIsSettled
  <2>6. r.box \in BoxRecords /\ r.box.serves = {} BY <2>3, <2>4 DEF Done
  <2>7. r.ok = TRUE BY <2>4
  <2>8. XrayAdded(r) BY <2>1, <2>5, <2>6, <2>7 DEF XrayAdded
  <2>. QED BY <2>8 DEF r
<1>. QED BY <1>1, <1>11, <1>12, <1>13, <1>14

\* Xray.DelNode tries every removal.
LEMMA XrayDelLeavesNothing ==
    ASSUME NEW b \in BoxRecords, NEW F, NEW keep \in BOOLEAN
    PROVE  LET r == XrayDelNode(b, F, keep) IN
           /\ r.box \in BoxRecords /\ Settled(r.box) /\ r.ok \in BOOLEAN
           /\ Held(b, {"public", "outbound"}) => Held(r.box, {})
           /\ r.box.naive = b.naive
<1>. DEFINE ok == b.public /\ F \cap {"public", "outbound", "closeUDP"} = {}
            half == Remove(b, "public", F, keep)
            down == Remove(half, "outbound", F, keep)
            r == XrayDelNode(b, F, keep)
<1>1. r = Result(down, ok) BY DEF XrayDelNode
<1>2. Less(b, half, "public", F) BY RemoveIsLess DEF Parts
<1>3. half \in BoxRecords BY <1>2 DEF Less
<1>. HIDE DEF half
<1>4. Less(half, down, "outbound", F) BY <1>3, RemoveIsLess DEF Parts
<1>5. down \in BoxRecords /\ down.naive = b.naive BY <1>2, <1>4 DEF Less, SameRest
<1>6. Held(b, {"public", "outbound"}) => Held(down, {})
  <2>1. ({"public", "outbound"} \ {"public"}) \ {"outbound"} = {} OBVIOUS
  <2>2. Held(b, {"public", "outbound"}) => Held(half, {"public", "outbound"} \ {"public"})
    BY <1>2, LessHolds
  <2>3. ASSUME Held(half, {"public", "outbound"} \ {"public"})
        PROVE  Held(down, ({"public", "outbound"} \ {"public"}) \ {"outbound"})
    BY SMTT(60), <1>4, <2>3, LessHolds
  <2>. QED BY <2>1, <2>2, <2>3
<1>. HIDE DEF down
<1>7. ok \in BOOLEAN BY DEF BoxRecords
<1>. HIDE DEF ok
<1>8. r.ok = ok /\ Done(down, r.box) BY <1>1, <1>5, ResultIsDone
<1>. HIDE DEF r
<1>9. Settled(r.box) /\ (Held(r.box, {}) <=> Held(down, {})) BY <1>8, DoneIsSettled
<1>10. r.box \in BoxRecords /\ r.box.naive = b.naive BY <1>5, <1>8 DEF Done
<1>. QED BY <1>6, <1>7, <1>8, <1>9, <1>10 DEF r

-----------------------------------------------------------------------------
(* Users.                                                                    *)

\* A naive node with what it may hold.
NaiveBox(b) ==
    /\ b \in BoxRecords /\ b.naive /\ b.type = "naive"
    /\ Held(b, {"redirect"} \cup (IF b.built THEN {"public"} ELSE {}))

NaiveExact(b) == b.serves = b.users /\ (b.public <=> b.users # {})

\* A change of the users of a naive node: the inbound serves them exactly, or the call
\* fails; a part that is left is stuck or known to be built.
Rebuilt(c, r) ==
    /\ NaiveBox(r.box) /\ Settled(r.box) /\ r.ok \in BOOLEAN /\ r.box.users = c.users
    /\ r.ok /\ r.box.stuck = {} => NaiveExact(r.box)

LEMMA NaiveResult ==
    ASSUME NEW c, NEW b, NaiveBox(b), b.users = c.users, NEW ok \in BOOLEAN,
           kind = "naive",
           ok /\ b.stuck = {} => /\ b.public <=> b.users # {}
                                 /\ b.public => b.serves = b.users
    PROVE  Rebuilt(c, Result(b, ok))
<1>. DEFINE r == Result(b, ok)
<1>1. r.ok = ok /\ Done(b, r.box) BY ResultIsDone DEF NaiveBox
<1>2. UserInbound = "public" /\ "public" \in Parts BY DEF UserInbound, Parts
<1>. HIDE DEF r
<1>3. Settled(r.box) /\ \A ps : Held(r.box, ps) <=> Held(b, ps) BY <1>1, DoneIsSettled
<1>4. /\ r.box \in BoxRecords /\ r.box.naive = b.naive /\ r.box.type = b.type
      /\ r.box.built = b.built /\ r.box.users = b.users /\ r.box.stuck = b.stuck
      /\ r.box.public = b.public /\ r.box.serves = IF b.public THEN b.serves ELSE {}
  BY <1>1, <1>2 DEF Done
<1>5. NaiveBox(r.box) BY <1>3, <1>4 DEF NaiveBox
<1>6. ok /\ b.stuck = {} => NaiveExact(r.box) BY <1>4 DEF NaiveExact
<1>7. Rebuilt(c, r) BY <1>1, <1>3, <1>4, <1>5, <1>6 DEF Rebuilt
<1>. QED BY <1>7 DEF r

LEMMA RebuildIsExact ==
    ASSUME NEW c, NaiveBox(c), kind = "naive", NEW F, NEW keep \in BOOLEAN
    PROVE  Rebuilt(c, RebuildNaive(c, F, keep))
<1>. DEFINE less == Remove(c, "public", F, keep)
            gone == [less EXCEPT !.built = FALSE]
            made == Create(c, "public")
            new == [made EXCEPT !.built = TRUE, !.serves = c.users]
<1>1. c \in BoxRecords /\ c.built \in BOOLEAN /\ c.public \in BOOLEAN /\ "public" \in Parts
  BY DEF NaiveBox, BoxRecords, Parts
<1>2. Less(c, less, "public", F) /\ More(c, made, "public")
  BY <1>1, RemoveIsLess, CreateIsMore
<1>3. /\ less \in BoxRecords /\ less.naive /\ less.type = "naive" /\ less.built = c.built
      /\ less.users = c.users /\ Held(less, {"redirect"})
  <2>1. Held(less, ({"redirect"} \cup (IF c.built THEN {"public"} ELSE {})) \ {"public"})
    BY <1>2, LessHolds DEF NaiveBox
  <2>2. Held(less, {"redirect"}) BY <2>1 DEF Held
  <2>. QED BY <1>2, <2>2 DEF Less, SameRest, NaiveBox
<1>4. NaiveBox(less) BY <1>3 DEF NaiveBox, Held
<1>5. ~(c.public /\ "public" \in F) => ~less.public BY <1>2 DEF Less
<1>6. made \in BoxRecords /\ made.naive /\ made.type = "naive" /\ made.users = c.users
      /\ Held(made, {"redirect", "public"}) /\ made.public
  <2>1. Held(made, ({"redirect"} \cup (IF c.built THEN {"public"} ELSE {})) \cup {"public"})
    BY <1>2, MoreHolds DEF NaiveBox
  <2>2. Held(made, {"redirect", "public"}) BY <2>1 DEF Held
  <2>. QED BY <1>2, <2>2 DEF More, NaiveBox
<1>. HIDE DEF less, made
<1>7. NaiveBox(gone) /\ gone.users = c.users /\ gone.public = less.public
  <2>1. /\ gone \in BoxRecords /\ gone.naive = less.naive /\ gone.type = less.type /\ ~gone.built
        /\ gone.users = less.users /\ gone.stuck = less.stuck /\ gone.public = less.public
        /\ \A p \in Parts : gone[p] = less[p]
    BY <1>3 DEF BoxRecords, Parts
  <2>2. Held(gone, {"redirect"}) BY <1>3, <2>1 DEF Held
  <2>. HIDE DEF gone
  <2>3. {"redirect"} \cup {} = {"redirect"} OBVIOUS
  <2>. QED BY <1>3, <2>1, <2>2, <2>3 DEF NaiveBox
<1>8. NaiveBox(new) /\ new.users = c.users /\ new.public /\ new.serves = c.users
  <2>1. c.users \in SUBSET Users BY <1>1 DEF BoxRecords
  <2>2. /\ new \in BoxRecords /\ new.naive = made.naive /\ new.type = made.type /\ new.built = TRUE
        /\ new.users = made.users /\ new.stuck = made.stuck /\ new.serves = c.users
        /\ \A p \in Parts : new[p] = made[p]
    BY <1>6, <2>1 DEF BoxRecords, Parts
  <2>. HIDE DEF new
  <2>3. Held(new, {"redirect"} \cup {"public"}) BY <1>6, <2>2 DEF Held
  <2>4. new.built /\ new.public BY <1>1, <1>6, <2>2
  <2>. QED BY <1>6, <2>2, <2>3, <2>4 DEF NaiveBox
<1>9. RebuildNaive(c, F, keep) =
        IF c.built /\ c.public /\ "public" \in F THEN Result(less, FALSE)
        ELSE IF c.users = {} THEN Result(IF c.built THEN gone ELSE c, TRUE)
        ELSE IF F \cap {"build", "createPublic"} # {}
        THEN Result(IF c.built THEN gone ELSE c, FALSE)
        ELSE Result(new, TRUE)
  BY DEF RebuildNaive, less, made
<1>. HIDE DEF gone, new
<1>10. ~c.built /\ c.stuck = {} => ~c.public BY <1>1 DEF NaiveBox, Held
<1>11. CASE c.built /\ c.public /\ "public" \in F
  BY <1>3, <1>4, <1>9, <1>11, NaiveResult
<1>12. CASE ~(c.built /\ c.public /\ "public" \in F) /\ c.users = {}
  <2>1. CASE c.built
    <3>1. ~gone.public BY <1>5, <1>7, <1>12, <2>1
    <3>. QED BY <1>7, <1>9, <1>12, <2>1, <3>1, NaiveResult
  <2>2. CASE ~c.built
    <3>1. RebuildNaive(c, F, keep) = Result(c, TRUE) BY <1>9, <1>12, <2>2
    <3>. QED BY <1>10, <1>12, <2>2, <3>1, NaiveResult
  <2>. QED BY <2>1, <2>2
<1>13. CASE /\ ~(c.built /\ c.public /\ "public" \in F) /\ c.users # {}
            /\ F \cap {"build", "createPublic"} # {}
  BY <1>7, <1>9, <1>13, NaiveResult
<1>14. CASE /\ ~(c.built /\ c.public /\ "public" \in F) /\ c.users # {}
            /\ F \cap {"build", "createPublic"} = {}
  BY <1>8, <1>9, <1>14, NaiveResult
<1>. QED BY <1>11, <1>12, <1>13, <1>14

-----------------------------------------------------------------------------
(* The calls.                                                                *)

\* A call gives the box of core n the outcome r, and the other boxes keep theirs.
LEMMA OneBox ==
    ASSUME CoreTypes, NEW n \in DOMAIN cores, NEW b \in BoxRecords,
           box' = [box EXCEPT ![n] = b], cores' = cores
    PROVE  /\ box' \in [DOMAIN cores -> BoxRecords] /\ box'[n] = b
           /\ \A m \in DOMAIN cores \ {n} : box'[m] = box[m]
BY DEF CoreTypes

\* What the operators say does not change with the state of the calls.
LEMMA KindKept ==
    ASSUME UNCHANGED <<cores, kind>>
    PROVE  /\ UserInbound' = UserInbound /\ OptionRecords' = OptionRecords
           /\ \A b : (Settled(b))' <=> Settled(b)
BY DEF UserInbound, OptionRecords, Settled

LEMMA NoZero ==
    ASSUME CoreTypes
    PROVE  0 \notin DOMAIN cores /\ kind # "none"
BY CoreConstants DEF CoreTypes

LEMMA AddNodeKeeps ==
    ASSUME CoreTypes, BoxInv, NEW F, NEW keep \in BOOLEAN, NEW native \in BOOLEAN,
           AddNode(F, keep, native)
    PROVE  CoreTypes' /\ BoxInv'
<1>. DEFINE n == SelectCore
            o == Decode(n)
            listens == native => "listen" \notin F /\ udp.service = 0
            r == IF cores[n] = "sing" THEN SingAddNode(box[n], F, keep)
                 ELSE XrayAddNode(box[n], F, keep, listens)
<1>1. /\ place = 0 /\ n # 0 /\ UNCHANGED <<cores, kind>>
      /\ option' = IF cores[n] = "sing" THEN EnsureSingOptions(o) ELSE o
      /\ box' = [box EXCEPT ![n] = r.box]
      /\ place' = IF r.ok THEN n ELSE 0
      /\ IF r.ok THEN want' = {} /\ failed' = FALSE /\ unbuilt' = FALSE
         ELSE UNCHANGED <<want, failed, unbuilt>>
  BY DEF AddNode, configVars, historyVars
<1>2. n \in DOMAIN cores /\ cores[n] \in Types /\ listens \in BOOLEAN
  BY <1>1, SelectedIsThere DEF CoreTypes
<1>3. option' \in OptionRecords BY <1>1, <1>2, OptionsKeepType
<1>4. box[n] \in BoxRecords /\ Held(box[n], {}) /\ kind \in Kinds
  BY <1>1, <1>2, NoZero DEF CoreTypes, BoxInv
<1>5. (cores[n] = "sing" => SingAdded(r)) /\ (cores[n] # "sing" => XrayAdded(r))
  BY <1>2, <1>4, SingAddIsWhole, XrayAddIsWhole
<1>. HIDE DEF n, o, listens, r
<1>6. r.box \in BoxRecords /\ Settled(r.box) /\ r.ok \in BOOLEAN /\ (~r.ok => Held(r.box, {}))
  BY <1>5 DEF SingAdded, XrayAdded
<1>7. /\ box' \in [DOMAIN cores -> BoxRecords] /\ box'[n] = r.box
      /\ \A m \in DOMAIN cores \ {n} : box'[m] = box[m]
  BY <1>1, <1>2, <1>6, OneBox
<1>8. CoreTypes'
  <2>1. OptionRecords' = OptionRecords BY <1>1, KindKept
  <2>2. failed' \in BOOLEAN /\ unbuilt' \in BOOLEAN BY <1>1, <1>6 DEF CoreTypes
  <2>3. place' \in DOMAIN cores \cup {0} BY <1>1, <1>2
  <2>. QED BY <1>1, <1>3, <1>7, <2>1, <2>2, <2>3 DEF CoreTypes
<1>9. \A m \in DOMAIN cores : Settled(box'[m]) BY <1>6, <1>7 DEF BoxInv
<1>10. \A m \in DOMAIN cores : m # place' => Held(box'[m], {})
  <2>1. \A m \in DOMAIN cores : Held(box[m], {}) BY <1>1, NoZero DEF BoxInv
  <2>. QED BY <1>1, <1>6, <1>7, <2>1
<1>11. CASE ~r.ok
  <2>1. place' = 0 BY <1>1, <1>11
  <2>. QED BY <1>1, <1>8, <1>9, <1>10, <2>1, KindKept DEF BoxInv
<1>12. CASE r.ok
  <2>1. place' = n /\ want' = {} /\ failed' = FALSE /\ unbuilt' = FALSE BY <1>1, <1>12
  <2>2. CASE cores[n] = "sing"
    <3>1. /\ kind \in Protocols("sing") /\ r.box.type = kind
          /\ Held(r.box, {"redirect"} \cup InboundsOf(r.box))
          /\ r.box.stuck = {} => r.box.serves = {}
          /\ kind = "naive" => /\ r.box.naive /\ r.box.users = {}
                               /\ r.box.stuck = {} => ~r.box.public
      BY <1>5, <1>12, <2>2 DEF SingAdded
    <3>2. box'[place'] = r.box BY <1>7, <2>1
    <3>3. OnSing(box[place])' BY SMTT(60), <1>1, <3>1, <3>2, NoZero DEF OnSing
    <3>4. NaiveServed(box[place])' BY <1>1, <3>1, <3>2 DEF NaiveServed
    <3>. QED
      BY <1>1, <1>7, <1>8, <1>9, <1>10, <2>1, <2>2, <3>1, <3>3, <3>4, KindKept DEF BoxInv
  <2>3. CASE cores[n] = "xray"
    <3>1. /\ kind \in Protocols("xray") /\ Held(r.box, {"public", "outbound"})
          /\ r.box.serves = {} /\ kind # "naive"
      BY <1>5, <1>12, <2>3 DEF XrayAdded, Protocols
    <3>2. OnXray(box[place])' /\ NaiveServed(box[place])'
      BY <1>1, <1>7, <2>1, <3>1 DEF OnXray, NaiveServed
    <3>. QED BY <1>1, <1>7, <1>8, <1>9, <1>10, <2>1, <2>3, <3>1, <3>2, KindKept DEF BoxInv
  <2>. QED BY <1>2, <2>2, <2>3 DEF Types
<1>. QED BY <1>6, <1>11, <1>12

LEMMA DelNodeKeeps ==
    ASSUME CoreTypes, BoxInv, NEW F, NEW keep \in BOOLEAN, DelNode(F, keep)
    PROVE  CoreTypes' /\ BoxInv'
<1>. DEFINE b == box[place]
            r == IF cores[place] = "xray" THEN XrayDelNode(b, F, keep) ELSE SingDelNode(b, F, keep)
<1>1. /\ place # 0 /\ UNCHANGED <<cores, kind, option, unbuilt>>
      /\ box' = [box EXCEPT ![place] = r.box]
      /\ place' = IF r.ok THEN 0 ELSE place
      /\ failed' = ~r.ok
  BY DEF DelNode, configVars
<1>2. place \in DOMAIN cores /\ cores[place] \in Types /\ b \in BoxRecords
  BY <1>1 DEF CoreTypes
<1>3. /\ cores[place] = "xray" => OnXray(b)
      /\ cores[place] # "xray" => OnSing(b)
  BY <1>1, <1>2 DEF BoxInv, Types
<1>. HIDE DEF b
<1>4. /\ r.box \in BoxRecords /\ Settled(r.box) /\ r.ok \in BOOLEAN /\ Held(r.box, {})
      /\ cores[place] # "xray" => r.box.type = "none" /\ (kind = "naive" => ~r.box.naive)
  <2>1. CASE cores[place] = "xray"
    <3>1. r = XrayDelNode(b, F, keep) BY <2>1
    <3>2. /\ r.box \in BoxRecords /\ Settled(r.box) /\ r.ok \in BOOLEAN
          /\ Held(b, {"public", "outbound"}) => Held(r.box, {})
      BY <1>2, <3>1, XrayDelLeavesNothing
    <3>. HIDE DEF r
    <3>. QED BY <1>3, <2>1, <3>2 DEF OnXray
  <2>2. CASE cores[place] # "xray"
    <3>1. r = SingDelNode(b, F, keep) BY <2>2
    <3>2. /\ r.box \in BoxRecords /\ Settled(r.box) /\ r.ok \in BOOLEAN /\ r.box.type = "none"
          /\ Held(b, {"redirect"} \cup InboundsOf(b)) => Held(r.box, {})
          /\ b.type # "naive" => r.box.naive = b.naive
          /\ b.type = "naive" => ~r.box.naive
      BY SMTT(60), <1>2, <3>1, SingDelLeavesNothing
    <3>. HIDE DEF r
    <3>. QED BY <1>3, <2>2, <3>2 DEF OnSing
  <2>. QED BY <2>1, <2>2
<1>. HIDE DEF r
<1>5. /\ box' \in [DOMAIN cores -> BoxRecords] /\ box'[place] = r.box
      /\ \A m \in DOMAIN cores \ {place} : box'[m] = box[m]
  BY <1>1, <1>2, <1>4, OneBox
<1>6. CoreTypes'
  <2>1. OptionRecords' = OptionRecords BY <1>1, KindKept
  <2>2. failed' \in BOOLEAN /\ unbuilt' \in BOOLEAN BY <1>1, <1>4 DEF CoreTypes
  <2>3. place' \in DOMAIN cores \cup {0} BY <1>1, <1>2
  <2>. QED BY <1>1, <1>5, <2>1, <2>2, <2>3 DEF CoreTypes
<1>7. \A m \in DOMAIN cores : Settled(box'[m]) /\ Held(box'[m], {})
  BY <1>4, <1>5 DEF BoxInv
<1>8. CASE r.ok
  <2>1. place' = 0 BY <1>1, <1>8
  <2>. QED BY <1>1, <1>6, <1>7, <2>1, KindKept DEF BoxInv
<1>9. CASE ~r.ok
  <2>1. place' = place /\ failed' = TRUE /\ box'[place'] = r.box BY <1>1, <1>5, <1>9
  <2>2. CASE cores[place] = "xray"
    <3>1. OnXray(box[place])'
      BY <1>1, <1>3, <1>4, <2>1, <2>2 DEF OnXray, Held
    <3>2. NaiveServed(box[place])' BY <1>1, <1>3, <2>2 DEF OnXray, NaiveServed, Protocols
    <3>. QED BY <1>1, <1>6, <1>7, <2>1, <2>2, <3>1, <3>2, KindKept DEF BoxInv
  <2>3. CASE cores[place] # "xray"
    <3>1. Held(r.box, {"redirect"} \cup InboundsOf(r.box)) BY <1>4 DEF Held
    <3>2. OnSing(box[place])'
      BY <1>1, <1>3, <1>4, <2>1, <2>3, <3>1 DEF OnSing
    <3>3. NaiveServed(box[place])' BY <1>1, <1>4, <2>1, <2>3 DEF NaiveServed
    <3>. QED BY <1>1, <1>6, <1>7, <2>1, <2>3, <3>2, <3>3, KindKept DEF BoxInv
  <2>. QED BY <2>2, <2>3
<1>. QED BY <1>4, <1>8, <1>9

LEMMA CloseKeeps ==
    ASSUME CoreTypes, BoxInv, NEW F, NEW keep \in BOOLEAN, Close(F, keep)
    PROVE  CoreTypes' /\ BoxInv'
<1>. DEFINE b(n) == Remove(box[n], "redirect", F, keep)
            c(n) == [NoBox EXCEPT !.redirect = b(n).redirect,
                                  !.stuck = b(n).stuck \cap {"redirect"}]
<1>1. /\ UNCHANGED <<cores, kind, option, failed, unbuilt>> /\ place' = 0
      /\ box' = [n \in DOMAIN cores |-> c(n)]
  BY DEF Close, configVars, historyVars
<1>2. ASSUME NEW n \in DOMAIN cores
      PROVE  c(n) \in BoxRecords /\ Settled(c(n)) /\ Held(c(n), {})
  <2>1. box[n] \in BoxRecords BY DEF CoreTypes
  <2>2. Less(box[n], b(n), "redirect", F) BY <2>1, RemoveIsLess DEF Parts
  <2>3. /\ b(n).redirect \in BOOLEAN
        /\ b(n).redirect => "redirect" \in b(n).stuck
    BY <2>2 DEF Less, BoxRecords
  <2>. HIDE DEF b
  <2>4. /\ c(n) \in BoxRecords /\ c(n).serves = {}
        /\ c(n).redirect = b(n).redirect /\ c(n).stuck = b(n).stuck \cap {"redirect"}
        /\ ~c(n).public /\ ~c(n).detour /\ ~c(n).outbound
    BY <2>3 DEF NoBox, BoxRecords, Parts
  <2>. HIDE DEF c
  <2>5. Held(c(n), {}) BY <2>3, <2>4 DEF Held, Parts
  <2>. QED BY <2>4, <2>5 DEF Settled
<1>. HIDE DEF b, c
<1>3. box' \in [DOMAIN cores -> BoxRecords] /\ \A n \in DOMAIN cores : box'[n] = c(n)
  BY <1>1, <1>2
<1>4. CoreTypes' BY <1>1, <1>3, KindKept DEF CoreTypes
<1>. QED BY <1>1, <1>2, <1>3, <1>4, KindKept DEF BoxInv

-----------------------------------------------------------------------------
(* The users.                                                                *)

\* b with other users served: the parts and the bookkeeping are the same.
Alike(b, c) ==
    /\ c \in BoxRecords
    /\ c.type = b.type /\ c.naive = b.naive /\ c.built = b.built /\ c.users = b.users
    /\ c.stuck = b.stuck /\ \A p \in Parts : c[p] = b[p]

LEMMA ServingIsAlike ==
    ASSUME NEW b \in BoxRecords, NEW us \in SUBSET Users
    PROVE  Alike(b, b) /\ Alike(b, [b EXCEPT !.serves = us]) /\ [b EXCEPT !.serves = us].serves = us
<1>1. Alike(b, b) BY DEF Alike
<1>. DEFINE c == [b EXCEPT !.serves = us]
<1>2. /\ c \in BoxRecords /\ c.type = b.type /\ c.naive = b.naive /\ c.built = b.built
      /\ c.users = b.users /\ c.stuck = b.stuck /\ \A p \in Parts : c[p] = b[p]
      /\ c.serves = us
  BY DEF BoxRecords, Parts
<1>. HIDE DEF c
<1>3. Alike(b, c) /\ c.serves = us BY <1>2 DEF Alike
<1>. QED BY <1>1, <1>3 DEF c

\* The result of a call that only changes who is served.
AlikeOutcome(b, c, ok, r) ==
    /\ r.ok = ok /\ Alike(b, r.box) /\ Settled(r.box)
    /\ c[UserInbound] => r.box.serves = c.serves
    /\ InboundsOf(r.box) = InboundsOf(b)
    /\ \A ps : Held(r.box, ps) <=> Held(b, ps)

LEMMA AlikeHolds ==
    ASSUME NEW b, NEW c, Alike(b, c), NEW ok
    PROVE  AlikeOutcome(b, c, ok, Result(c, ok))
<1>. DEFINE r == Result(c, ok)
<1>1. r.ok = ok /\ Done(c, r.box) BY ResultIsDone DEF Alike
<1>. HIDE DEF r
<1>2. Settled(r.box) BY <1>1, DoneIsSettled
<1>3. Alike(b, r.box) BY <1>1 DEF Alike, Done
<1>4. InboundsOf(r.box) = InboundsOf(b) BY <1>3 DEF Alike, InboundsOf
<1>5. \A ps : Held(r.box, ps) <=> Held(b, ps) BY <1>3 DEF Alike, Held
<1>6. c[UserInbound] => r.box.serves = c.serves BY <1>1 DEF Done
<1>7. AlikeOutcome(b, c, ok, r) BY <1>1, <1>2, <1>3, <1>4, <1>5, <1>6 DEF AlikeOutcome
<1>. QED BY <1>7 DEF r

\* What every change of the users keeps of the core that has the node.
Changed(b, r) ==
    /\ r.box \in BoxRecords /\ Settled(r.box) /\ r.ok \in BOOLEAN
    /\ r.box.type = b.type /\ r.box.naive = b.naive
    /\ Held(b, {"redirect"} \cup InboundsOf(b)) =>
           Held(r.box, {"redirect"} \cup InboundsOf(r.box))

LEMMA AlikeIsChange ==
    ASSUME NEW b, NEW c, Alike(b, c), NEW ok \in BOOLEAN
    PROVE  /\ Changed(b, Result(c, ok)) /\ \A ps : Held(b, ps) => Held(Result(c, ok).box, ps)
           /\ Result(c, ok).ok = ok
           /\ c[UserInbound] => Result(c, ok).box.serves = c.serves
<1>. DEFINE r == Result(c, ok)
<1>1. /\ r.ok = ok /\ Alike(b, r.box) /\ Settled(r.box) /\ InboundsOf(r.box) = InboundsOf(b)
      /\ c[UserInbound] => r.box.serves = c.serves
      /\ \A ps : Held(r.box, ps) <=> Held(b, ps)
  BY SMTT(60), AlikeHolds DEF AlikeOutcome
<1>. HIDE DEF r
<1>2. Changed(b, r) BY <1>1 DEF Changed, Alike
<1>. QED BY <1>1, <1>2 DEF r

LEMMA PlainUsers ==
    ASSUME NEW b \in BoxRecords, NEW us \in SUBSET Users, NEW some \in SUBSET Users, NEW F
    PROVE  LET r == IF ~b[UserInbound] THEN Result(b, FALSE)
                    ELSE IF "users" \notin F THEN Result([b EXCEPT !.serves = us], TRUE)
                    ELSE Result(IF cores[place] = "xray" THEN [b EXCEPT !.serves = some] ELSE b,
                            FALSE)
           IN  /\ Changed(b, r) /\ (r.ok => r.box.serves = us)
               /\ \A ps : Held(b, ps) => Held(r.box, ps)
<1>. DEFINE c == IF ~b[UserInbound] THEN b
                 ELSE IF "users" \notin F THEN [b EXCEPT !.serves = us]
                 ELSE IF cores[place] = "xray" THEN [b EXCEPT !.serves = some] ELSE b
            ok == b[UserInbound] /\ "users" \notin F
            r == IF ~b[UserInbound] THEN Result(b, FALSE)
                 ELSE IF "users" \notin F THEN Result([b EXCEPT !.serves = us], TRUE)
                 ELSE Result(IF cores[place] = "xray" THEN [b EXCEPT !.serves = some] ELSE b,
                            FALSE)
<1>1. UserInbound \in Parts /\ ok \in BOOLEAN BY DEF UserInbound, Parts
<1>2. Alike(b, c) BY ServingIsAlike
<1>3. ok => c.serves = us BY ServingIsAlike
<1>4. r = Result(c, ok)
  <2>1. CASE ~b[UserInbound]
    <3>1. ok = FALSE BY <2>1
    <3>. QED BY <2>1, <3>1
  <2>2. CASE b[UserInbound] /\ "users" \notin F
    <3>1. ok = TRUE BY <2>2
    <3>. QED BY <2>2, <3>1
  <2>3. CASE b[UserInbound] /\ "users" \in F
    <3>1. ok = FALSE BY <2>3
    <3>. QED BY <2>3, <3>1
  <2>. QED BY <2>1, <2>2, <2>3
<1>5. ok => b[UserInbound] OBVIOUS
<1>. HIDE DEF c, ok, r
<1>6. /\ Changed(b, r) /\ r.ok = ok /\ (c[UserInbound] => r.box.serves = c.serves)
      /\ \A ps : Held(b, ps) => Held(r.box, ps)
  BY <1>1, <1>2, <1>4, AlikeIsChange
<1>7. ok => r.box.serves = us BY <1>1, <1>2, <1>3, <1>5, <1>6 DEF Alike
<1>. QED BY <1>6, <1>7 DEF r

\* The bookkeeping of a naive node that sing-box has.
LEMMA NaiveHasBox ==
    ASSUME NEW b \in BoxRecords, OnSing(b), kind = "naive", b.naive, NEW us \in SUBSET Users
    PROVE  NaiveBox([b EXCEPT !.users = us]) /\ [b EXCEPT !.users = us].users = us
<1>. DEFINE c == [b EXCEPT !.users = us]
<1>1. /\ c \in BoxRecords /\ c.type = b.type /\ c.naive = b.naive /\ c.built = b.built
      /\ c.users = us /\ c.stuck = b.stuck /\ \A p \in Parts : c[p] = b[p]
  BY DEF BoxRecords, Parts
<1>. HIDE DEF c
<1>2. b.type = "naive" /\ b.built \in BOOLEAN /\ Held(b, {"redirect"} \cup InboundsOf(b))
  BY DEF OnSing, BoxRecords
<1>3. InboundsOf(b) = IF b.built THEN {"public"} ELSE {} BY <1>2 DEF InboundsOf
<1>4. Held(c, {"redirect"} \cup (IF c.built THEN {"public"} ELSE {}))
  BY <1>1, <1>2, <1>3 DEF Held
<1>5. NaiveBox(c) BY <1>1, <1>2, <1>4 DEF NaiveBox
<1>. QED BY <1>1, <1>5 DEF c

\* What a change of the users does to a naive node.
NaiveChange(b, us, r) ==
    /\ Changed(b, r)
    /\ ~b.naive => ~r.ok
    /\ b.naive => r.box.users = us
    /\ b.naive /\ us = b.users => r.ok /\ Alike(b, r.box) /\ r.box.serves = b.serves
    /\ b.naive /\ us # b.users /\ r.ok /\ r.box.stuck = {} => NaiveExact(r.box)

LEMMA NaiveUsers ==
    ASSUME NEW b \in BoxRecords, OnSing(b), kind = "naive", NEW us \in SUBSET Users,
           NEW F, NEW keep \in BOOLEAN, Settled(b)
    PROVE  NaiveChange(b, us, SetNaiveUsers(b, us, F, keep))
<1>. DEFINE r == SetNaiveUsers(b, us, F, keep)
<1>0. UserInbound = "public" /\ "public" \in Parts /\ b.naive \in BOOLEAN
  BY DEF UserInbound, Parts, BoxRecords
<1>1. CASE ~b.naive \/ us = b.users
  <2>. DEFINE ok == b.naive
  <2>1. r = Result(b, ok)
    <3>1. CASE ~b.naive BY <1>0, <3>1 DEF SetNaiveUsers
    <3>2. CASE b.naive BY <1>0, <1>1, <3>2 DEF SetNaiveUsers
    <3>. QED BY <3>1, <3>2
  <2>2. Alike(b, b) BY ServingIsAlike
  <2>. HIDE DEF r, ok
  <2>3. /\ r.ok = ok /\ Alike(b, r.box) /\ Settled(r.box)
        /\ b[UserInbound] => r.box.serves = b.serves
        /\ InboundsOf(r.box) = InboundsOf(b)
        /\ \A ps : Held(r.box, ps) <=> Held(b, ps)
    <3>1. AlikeOutcome(b, b, ok, r) BY <2>1, <2>2, AlikeHolds
    <3>. QED BY <3>1 DEF AlikeOutcome
  <2>. USE DEF ok
  <2>4. r.box[UserInbound] = b[UserInbound] BY <1>0, <2>3 DEF Alike
  <2>5. r.box.serves = b.serves BY <2>3, <2>4 DEF Settled
  <2>6. Changed(b, r) BY <1>0, <2>3 DEF Changed, Alike
  <2>7. r.box.users = b.users BY <2>3 DEF Alike
  <2>8. NaiveChange(b, us, r) BY <1>1, <2>3, <2>5, <2>6, <2>7 DEF NaiveChange
  <2>. QED BY <2>8 DEF r
<1>2. CASE b.naive /\ us # b.users
  <2>. DEFINE c == [b EXCEPT !.users = us]
  <2>1. r = RebuildNaive(c, F, keep) BY <1>2 DEF SetNaiveUsers
  <2>2. NaiveBox(c) /\ c.users = us BY <1>2, NaiveHasBox
  <2>. HIDE DEF c, r
  <2>3. Rebuilt(c, r) BY <2>1, <2>2, RebuildIsExact
  <2>4. /\ NaiveBox(r.box) /\ Settled(r.box) /\ r.ok \in BOOLEAN /\ r.box.users = us
        /\ r.ok /\ r.box.stuck = {} => NaiveExact(r.box)
    BY <2>2, <2>3 DEF Rebuilt
  <2>5. /\ r.box \in BoxRecords /\ r.box.type = "naive" /\ r.box.naive /\ r.box.naive \in BOOLEAN
        /\ r.box.built \in BOOLEAN
        /\ Held(r.box, {"redirect"} \cup (IF r.box.built THEN {"public"} ELSE {}))
    BY <2>4 DEF NaiveBox, BoxRecords
  <2>6. InboundsOf(r.box) = IF r.box.built THEN {"public"} ELSE {} BY <2>5 DEF InboundsOf
  <2>7. b.type = "naive" /\ r.box.naive = b.naive BY <1>0, <1>2, <2>5 DEF OnSing
  <2>8. Changed(b, r)
    BY <2>4, <2>5, <2>6, <2>7 DEF Changed
  <2>9. NaiveChange(b, us, r) BY <1>2, <2>4, <2>8 DEF NaiveChange
  <2>. QED BY <2>9 DEF r
<1>. QED BY <1>0, <1>1, <1>2

LEMMA SetUsersKeeps ==
    ASSUME CoreTypes, BoxInv, place # 0, NEW us \in SUBSET Users, NEW some \in SUBSET Users,
           NEW F, NEW keep \in BOOLEAN, SetUsers(us, some, F, keep)
    PROVE  CoreTypes' /\ BoxInv'
<1>. DEFINE b == box[place]
            naive == cores[place] = "sing" /\ kind = "naive"
            plain == IF ~b[UserInbound] THEN Result(b, FALSE)
                     ELSE IF "users" \notin F THEN Result([b EXCEPT !.serves = us], TRUE)
                     ELSE Result(IF cores[place] = "xray" THEN [b EXCEPT !.serves = some] ELSE b,
                                 FALSE)
            r == IF naive THEN SetNaiveUsers(b, us, F, keep) ELSE plain
<1>1. /\ UNCHANGED <<cores, kind, option, place>>
      /\ box' = [box EXCEPT ![place] = r.box]
      /\ failed' = (failed \/ ~r.ok)
      /\ unbuilt' = IF naive /\ b.naive /\ us # b.users THEN ~r.ok ELSE unbuilt
      /\ want' = IF r.ok THEN us ELSE want
  BY DEF SetUsers, configVars, udpVars
<1>2. /\ place \in DOMAIN cores /\ cores[place] \in Types /\ b \in BoxRecords
      /\ failed \in BOOLEAN /\ unbuilt \in BOOLEAN
  BY DEF CoreTypes
<1>3. /\ cores[place] = "xray" => OnXray(b)
      /\ cores[place] = "sing" => OnSing(b)
      /\ ~failed /\ b.stuck = {} => b.serves = want
      /\ ~failed => ~unbuilt
      /\ NaiveServed(b) /\ Settled(b)
  BY <1>2 DEF BoxInv
<1>. HIDE DEF b
<1>4. ~naive => /\ Changed(b, r) /\ (r.ok => r.box.serves = us)
                /\ \A ps : Held(b, ps) => Held(r.box, ps)
  <2>. SUFFICES ASSUME ~naive
                PROVE  /\ Changed(b, r) /\ (r.ok => r.box.serves = us)
                       /\ \A ps : Held(b, ps) => Held(r.box, ps)
    OBVIOUS
  <2>1. r = plain OBVIOUS
  <2>2. /\ Changed(b, plain) /\ (plain.ok => plain.box.serves = us)
        /\ \A ps : Held(b, ps) => Held(plain.box, ps)
    BY <1>2, PlainUsers
  <2>. HIDE DEF plain, r
  <2>. QED BY <2>1, <2>2
<1>. HIDE DEF plain
<1>5a. naive => NaiveChange(b, us, r)
  <2>. SUFFICES ASSUME naive PROVE NaiveChange(b, us, r)
    OBVIOUS
  <2>1. r = SetNaiveUsers(b, us, F, keep) OBVIOUS
  <2>2. OnSing(b) /\ kind = "naive" /\ Settled(b) BY <1>3
  <2>3. NaiveChange(b, us, SetNaiveUsers(b, us, F, keep)) BY <1>2, <2>2, NaiveUsers
  <2>. HIDE DEF r
  <2>. QED BY <2>1, <2>3
<1>. HIDE DEF r
<1>5. naive => /\ Changed(b, r)
               /\ ~b.naive => ~r.ok
               /\ b.naive => r.box.users = us
               /\ b.naive /\ us = b.users => r.ok /\ Alike(b, r.box) /\ r.box.serves = b.serves
               /\ b.naive /\ us # b.users /\ r.ok /\ r.box.stuck = {} => NaiveExact(r.box)
  BY <1>5a DEF NaiveChange
<1>6. Changed(b, r) BY <1>4, <1>5
<1>7. /\ r.box \in BoxRecords /\ Settled(r.box) /\ r.ok \in BOOLEAN
      /\ r.box.type = b.type /\ r.box.naive = b.naive
  BY <1>6 DEF Changed
<1>8. /\ box' \in [DOMAIN cores -> BoxRecords] /\ box'[place] = r.box
      /\ \A m \in DOMAIN cores \ {place} : box'[m] = box[m]
  BY <1>1, <1>2, <1>7, OneBox
<1>9. failed' \in BOOLEAN /\ unbuilt' \in BOOLEAN BY <1>1, <1>2, <1>7
<1>10. CoreTypes'
  <2>1. OptionRecords' = OptionRecords BY <1>1, KindKept
  <2>. QED BY <1>1, <1>2, <1>8, <1>9, <2>1 DEF CoreTypes
<1>11. /\ (\A n \in DOMAIN cores : Settled(box[n]))'
       /\ (\A n \in DOMAIN cores : n # place => Held(box[n], {}))'
  BY <1>1, <1>7, <1>8, KindKept DEF BoxInv, Held
<1>12. ~failed' => ~failed /\ r.ok BY <1>1, <1>2, <1>7
<1>13. ~failed' => ~unbuilt' BY <1>1, <1>3, <1>12
<1>14. (cores[place] = "xray" => OnXray(box[place]))'
  <2>. SUFFICES ASSUME cores[place] = "xray" PROVE OnXray(box[place])'
    BY <1>1
  <2>1. ~naive OBVIOUS
  <2>2. Held(r.box, {"public", "outbound"}) BY <1>3, <1>4, <2>1 DEF OnXray
  <2>3. kind \in Protocols("xray") BY <1>3 DEF OnXray
  <2>4. kind' \in Protocols("xray") BY <1>1, <2>3
  <2>5. place' = place BY <1>1
  <2>. QED BY <1>8, <2>2, <2>4, <2>5 DEF OnXray, Held, Protocols
<1>15. (cores[place] = "sing" => OnSing(box[place]))'
  <2>. SUFFICES ASSUME cores[place] = "sing" PROVE OnSing(box[place])'
    BY <1>1
  <2>1. OnSing(b) BY <1>3
  <2>2. Held(r.box, {"redirect"} \cup InboundsOf(r.box)) BY <1>6, <2>1 DEF Changed, OnSing
  <2>3. failed => failed' BY <1>1
  <2>4. place' = place /\ kind' = kind BY <1>1
  <2>. QED BY <1>7, <1>8, <2>1, <2>2, <2>3, <2>4 DEF OnSing
<1>16. (~failed /\ box[place].stuck = {} => box[place].serves = want)'
  <2>. SUFFICES ASSUME ~failed', r.box.stuck = {} PROVE r.box.serves = us
    BY <1>1, <1>8, <1>12
  <2>1. CASE ~naive BY <1>4, <1>12, <2>1
  <2>2. CASE naive
    <3>1. b.naive /\ r.ok BY <1>5, <1>12, <2>2
    <3>2. CASE us = b.users
      <4>1. b.stuck = {} /\ r.box.serves = b.serves BY <1>5, <2>2, <3>1, <3>2 DEF Alike
      <4>2. ~unbuilt BY <1>3, <1>12
      <4>3. b.serves = b.users BY <1>3, <2>2, <3>1, <4>1, <4>2 DEF NaiveServed
      <4>. QED BY <3>2, <4>1, <4>3
    <3>3. CASE us # b.users BY <1>5, <2>2, <3>1, <3>3 DEF NaiveExact
    <3>. QED BY <3>2, <3>3
  <2>. QED BY <2>1, <2>2
<1>17. NaiveServed(box[place])'
  <2>. SUFFICES ASSUME kind = "naive", r.box.naive, ~unbuilt', r.box.stuck = {}
                PROVE  r.box.serves = r.box.users /\ (r.box.public <=> r.box.users # {})
    BY <1>1, <1>8 DEF NaiveServed
  <2>1. naive
    <3>1. cores[place] # "xray" BY <1>3 DEF OnXray, Protocols
    <3>. QED BY <1>2, <3>1 DEF Types
  <2>2. b.naive BY <1>7
  <2>3. CASE us = b.users
    <3>1. Alike(b, r.box) /\ r.box.serves = b.serves BY <1>5, <2>1, <2>2, <2>3
    <3>2. ~unbuilt BY <1>1, <2>3
    <3>3. b.stuck = {} /\ r.box.users = b.users /\ r.box.public = b.public
      BY <3>1 DEF Alike, Parts
    <3>4. b.serves = b.users /\ (b.public <=> b.users # {})
      BY <1>3, <2>2, <3>2, <3>3 DEF NaiveServed
    <3>. QED BY <3>1, <3>3, <3>4
  <2>4. CASE us # b.users
    <3>1. r.ok BY <1>1, <1>7, <2>1, <2>2, <2>4
    <3>. QED BY <1>5, <2>1, <2>2, <2>4, <3>1 DEF NaiveExact
  <2>. QED BY <2>3, <2>4
<1>. HIDE DEF naive
<1>. QED BY <1>10, <1>11, <1>13, <1>14, <1>15, <1>16, <1>17 DEF BoxInv

\* The steps that leave the boxes alone.
LEMMA AsideKeeps ==
    ASSUME CoreTypes, BoxInv, UNCHANGED <<cores, kind, option, place, box, want, failed, unbuilt>>
    PROVE  CoreTypes' /\ BoxInv'
<1>1. /\ cores' = cores /\ kind' = kind /\ option' = option /\ place' = place /\ box' = box
      /\ want' = want /\ failed' = failed /\ unbuilt' = unbuilt
  OBVIOUS
<1>2. CoreTypes' BY <1>1, KindKept DEF CoreTypes
<1>3. BoxInv'
  BY SMTT(60), <1>1 DEF BoxInv, Settled, UserInbound, Held, OnXray, OnSing, NaiveServed, Protocols,
     InboundsOf
<1>. QED BY <1>2, <1>3

-----------------------------------------------------------------------------
(* Native UDP.                                                               *)

LEMMA UDPAfterAdd ==
    ASSUME CoreTypes, BoxInv, UDPInv, NEW F, NEW keep \in BOOLEAN, NEW native \in BOOLEAN,
           AddNode(F, keep, native)
    PROVE  UDPInv'
<1>. DEFINE n == SelectCore
            listens == native => "listen" \notin F /\ udp.service = 0
            r == IF cores[n] = "sing" THEN SingAddNode(box[n], F, keep)
                 ELSE XrayAddNode(box[n], F, keep, listens)
<1>1. /\ place = 0 /\ n # 0 /\ cores' = cores /\ dying' = dying
      /\ place' = IF r.ok THEN n ELSE 0
      /\ IF cores[n] = "xray" /\ HasOutbound(box[n], F) THEN StartNativeUDP(native, listens)
         ELSE UNCHANGED <<udp, starts, mislaid>>
  BY DEF AddNode, configVars
<1>2. /\ udp \in UDPStates /\ mislaid \in BOOLEAN /\ starts \in Nat /\ dying \subseteq 1 .. starts
      /\ udp.service = 0 /\ ~udp.ready
  BY <1>1 DEF UDPInv, UDPStatusTrue
<1>3. CASE UNCHANGED <<udp, starts, mislaid>>
  BY <1>1, <1>2, <1>3 DEF UDPInv, UDPStatusTrue
<1>4. CASE cores[n] = "xray" /\ HasOutbound(box[n], F) /\ StartNativeUDP(native, listens)
  <2>1. CASE ~native \/ ~listens
    <3>1. starts' = starts /\ mislaid' = mislaid BY <1>4, <2>1 DEF StartNativeUDP
    <3>2. PICK m \in {"compat", "disabled"} : udp' = [udp EXCEPT !.ready = FALSE, !.mode = m]
      BY <1>4, <2>1 DEF StartNativeUDP
    <3>3. udp' \in UDPStates /\ udp'.service = 0 /\ udp'.ready = FALSE
      BY <1>2, <3>2 DEF UDPStates
    <3>. QED BY SMTT(60), <1>1, <1>2, <3>1, <3>3 DEF UDPInv, UDPStatusTrue
  <2>2. CASE native /\ listens
    <3>1. /\ starts' = starts + 1 /\ mislaid' = FALSE
          /\ udp' = [service |-> starts + 1, dead |-> FALSE, ready |-> TRUE, mode |-> "native"]
      BY <1>4, <2>2 DEF StartNativeUDP
    <3>2. /\ udp' \in UDPStates /\ udp'.service = starts + 1 /\ udp'.dead = FALSE
          /\ udp'.ready = TRUE
      BY SMTT(60), <1>2, <3>1 DEF UDPStates
    <3>3. r.ok
      <4>1. HasInbound(box[n], F) BY <1>4 DEF HasOutbound
      <4>2. r = Result(Create(Create(box[n], "public"), "outbound"), TRUE)
        BY <1>4, <2>2, <4>1 DEF XrayAddNode
      <4>. HIDE DEF r
      <4>. QED BY <4>2 DEF Result
    <3>. HIDE DEF r
    <3>4. place' = n /\ cores'[n] = "xray" BY <1>1, <1>4, <3>3
    <3>5. dying' \subseteq 1 .. starts' /\ udp'.service \notin dying' /\ starts' \in Nat
          /\ udp'.service \in 0 .. starts'
      BY SMTT(60), <1>1, <1>2, <3>1, <3>2
    <3>6. UDPStatusTrue'
      <4>1. udp'.service # 0 BY SMTT(60), <1>2, <3>2
      <4>. QED BY <3>2, <4>1 DEF UDPStatusTrue
    <3>7. (udp.service # 0 => place # 0 /\ cores[place] = "xray")' BY <1>1, <3>4
    <3>8. (udp.service \in dying => udp.dead)' BY <3>5
    <3>9. mislaid' \in BOOLEAN BY <3>1
    <3>. HIDE DEF n, listens
    <3>. QED BY <3>2, <3>5, <3>6, <3>7, <3>8, <3>9 DEF UDPInv
  <2>. QED BY <2>1, <2>2
<1>5. \/ UNCHANGED <<udp, starts, mislaid>>
      \/ cores[n] = "xray" /\ HasOutbound(box[n], F) /\ StartNativeUDP(native, listens)
  <2>. HIDE DEF r, listens, n
  <2>. QED BY <1>1
<1>. QED BY <1>3, <1>4, <1>5

\* No service, and nothing else about native UDP changes but its state.
LEMMA UDPStopped ==
    ASSUME UDPInv, UNCHANGED <<dying, starts, mislaid>>, udp' = StopNativeUDP
    PROVE  UDPInv'
<1>1. /\ udp' \in UDPStates /\ udp'.service = 0 /\ udp'.ready = FALSE /\ udp'.dead = FALSE
  BY DEF StopNativeUDP, NoUDP, UDPStates
<1>2. mislaid' \in BOOLEAN /\ starts' \in Nat /\ dying' \subseteq 1 .. starts' BY DEF UDPInv
<1>3. 0 \notin dying' BY SMTT(60), <1>2
<1>4. udp'.service \in 0 .. starts' BY SMTT(60), <1>1, <1>2
<1>. QED BY <1>1, <1>2, <1>3, <1>4 DEF UDPInv, UDPStatusTrue

LEMMA UDPAfterServe ==
    ASSUME UDPInv, ServeFails
    PROVE  UDPInv'
<1>1. /\ udp.service # 0 /\ ~udp.dead /\ udp' = [udp EXCEPT !.dead = TRUE]
      /\ dying' = dying \cup {udp.service} /\ UNCHANGED <<cores, place, starts, mislaid>>
  BY DEF ServeFails, configVars
<1>2. /\ udp' \in UDPStates /\ udp'.service = udp.service /\ udp'.ready = udp.ready
      /\ udp'.dead = TRUE
  BY <1>1 DEF UDPInv, UDPStates
<1>3. /\ starts \in Nat /\ udp.service \in 0 .. starts /\ dying \subseteq 1 .. starts
  BY DEF UDPInv
<1>4. dying' \subseteq 1 .. starts' BY SMTT(60), <1>1, <1>3
<1>. QED BY SMTT(60), <1>1, <1>2, <1>4 DEF UDPInv, UDPStatusTrue

LEMMA UDPAfterRecord ==
    ASSUME UDPInv, NEW e, RecordNativeUDPError(e)
    PROVE  UDPInv'
<1>1. /\ e \in dying /\ dying' = dying \ {e} /\ mislaid' = (mislaid \/ udp.service \notin {0, e})
      /\ udp' = [udp EXCEPT !.ready = FALSE, !.mode = "disabled"]
      /\ UNCHANGED <<cores, place, starts>>
  BY DEF RecordNativeUDPError, configVars
<1>2. /\ udp' \in UDPStates /\ udp'.service = udp.service /\ udp'.dead = udp.dead
      /\ udp'.ready = FALSE
  BY <1>1 DEF UDPInv, UDPStates
<1>3. mislaid' \in BOOLEAN BY <1>1 DEF UDPInv
<1>4. udp.service # 0 /\ ~udp.dead => mislaid' = TRUE
  <2>1. udp.service = e => udp.dead BY <1>1 DEF UDPInv
  <2>. QED BY <1>1, <2>1
<1>5. UDPStatusTrue' BY <1>2, <1>4 DEF UDPStatusTrue
<1>. QED BY SMTT(60), <1>1, <1>2, <1>3, <1>5 DEF UDPInv

-----------------------------------------------------------------------------
(* Every step.                                                               *)

CoresInv == CoreTypes /\ BoxInv /\ UDPInv

LEMMA UDPInit == CoresInit => UDPInv
<1>. SUFFICES ASSUME CoresInit PROVE UDPInv
  OBVIOUS
<1>1. udp \in UDPStates /\ udp.service = 0 /\ udp.ready = FALSE
  BY DEF CoresInit, UDPStates, NoUDP
<1>2. dying = {} /\ starts = 0 /\ mislaid \in BOOLEAN BY DEF CoresInit
<1>3. starts \in Nat /\ udp.service \in 0 .. starts BY SMTT(60), <1>1, <1>2
<1>4. dying \subseteq 1 .. starts /\ udp.service \notin dying BY <1>2
<1>. QED BY <1>1, <1>2, <1>3, <1>4 DEF UDPInv, UDPStatusTrue

LEMMA CoresInvInit == CoresInit => CoresInv
<1>. SUFFICES ASSUME CoresInit PROVE CoresInv
  OBVIOUS
<1>1. PICK ns \in (SUBSET Names) \ {{}} : cores \in [ns -> Types] BY DEF CoresInit
<1>2. PICK written \in {"absent", ""} \cup Types, name \in Names \cup {0} :
        /\ CheckCoreSelection(cores, written, name)
        /\ option = UnmarshalJSON(Undecoded(written, name))
  BY DEF CoresInit
<1>3. Undecoded(written, name) \in OptionRecords
  <2>1. name \in DOMAIN cores \cup {0} BY <1>2 DEF CheckCoreSelection
  <2>2. [t \in Types |-> "nil"] \in [Types -> {"nil", "written", "default"}] OBVIOUS
  <2>. QED BY <1>2, <2>1, <2>2 DEF Undecoded, OptionRecords
<1>4. option \in OptionRecords BY <1>2, <1>3, UnmarshalKeepsType
<1>5. NoBox \in BoxRecords /\ NoBox.serves = {} /\ \A part \in Parts : ~NoBox[part]
  <2>1. NoBox \in BoxRecords /\ NoBox.serves = {} BY DEF NoBox, BoxRecords
  <2>2. ~NoBox.public /\ ~NoBox.detour /\ ~NoBox.outbound /\ ~NoBox.redirect BY DEF NoBox
  <2>. QED BY <2>1, <2>2 DEF Parts
<1>6. \A n \in DOMAIN cores : box[n] = NoBox BY DEF CoresInit
<1>7. CoreTypes
  <2>1. /\ DOMAIN cores \subseteq Names /\ DOMAIN cores # {}
        /\ \A n \in DOMAIN cores : cores[n] \in Types
    <3>1. ns \subseteq Names /\ ns # {} BY <1>1
    <3>2. DOMAIN cores = ns /\ \A n \in ns : cores[n] \in Types BY <1>1
    <3>. QED BY <3>1, <3>2
  <2>2. box \in [DOMAIN cores -> BoxRecords] BY <1>5 DEF CoresInit
  <2>3. kind \in Kinds /\ place = 0 /\ failed \in BOOLEAN /\ unbuilt \in BOOLEAN
    BY DEF CoresInit
  <2>. QED BY <1>4, <2>1, <2>2, <2>3 DEF CoreTypes
<1>8. BoxInv
  <2>1. place = 0 BY DEF CoresInit
  <2>. QED BY <1>5, <1>6, <2>1 DEF BoxInv, Settled, Held
<1>9. UDPInv BY UDPInit
<1>. QED BY <1>7, <1>8, <1>9 DEF CoresInv

LEMMA CoresInvNext == CoresInv /\ [CoresNext]_coreVars => CoresInv'
<1>. SUFFICES ASSUME CoreTypes, BoxInv, UDPInv, [CoresNext]_coreVars
              PROVE  CoreTypes' /\ BoxInv' /\ UDPInv'
  BY DEF CoresInv
<1>1. ASSUME NEW F, NEW keep \in BOOLEAN, NEW native \in BOOLEAN, AddNode(F, keep, native)
      PROVE  CoreTypes' /\ BoxInv' /\ UDPInv'
  BY <1>1, AddNodeKeeps, UDPAfterAdd
<1>2. ASSUME UNCHANGED <<configVars, option, place, box, historyVars>>
      PROVE  CoreTypes' /\ BoxInv'
  BY <1>2, AsideKeeps DEF configVars, historyVars
<1>3. ASSUME UNCHANGED <<udpVars, cores>>, place # 0 => place' = place
      PROVE  UDPInv'
  BY <1>3 DEF UDPInv, UDPStatusTrue, udpVars
<1>4. CASE AddNodePanics BY <1>2, <1>3, <1>4 DEF AddNodePanics, configVars
<1>5. ASSUME NEW F, NEW keep \in BOOLEAN, DelNode(F, keep)
      PROVE  CoreTypes' /\ BoxInv' /\ UDPInv'
  <2>1. CoreTypes' /\ BoxInv' BY <1>5, DelNodeKeeps
  <2>2. UNCHANGED <<dying, starts, mislaid, cores>> BY <1>5 DEF DelNode, configVars
  <2>3. CASE cores[place] = "xray"
    <3>1. udp' = StopNativeUDP BY <1>5, <2>3 DEF DelNode
    <3>. QED BY <2>1, <2>2, <3>1, UDPStopped
  <2>4. CASE cores[place] # "xray"
    <3>1. udp' = udp BY <1>5, <2>4 DEF DelNode
    <3>2. udp.service = 0 /\ udp.ready = FALSE /\ 0 \notin dying
      BY SMTT(60), <2>4 DEF UDPInv, UDPStatusTrue, UDPStates
    <3>3. UDPInv' BY <2>2, <3>1, <3>2 DEF UDPInv, UDPStatusTrue
    <3>. QED BY <2>1, <3>3
  <2>. QED BY <2>3, <2>4
<1>6. ASSUME NEW F, NEW keep \in BOOLEAN, NEW us \in SUBSET Users, NEW some \in SUBSET us,
             AddUsers(us, some, F, keep) \/ DelUsers(us, some, F, keep)
      PROVE  CoreTypes' /\ BoxInv' /\ UDPInv'
  <2>1. place # 0 BY <1>6 DEF AddUsers, DelUsers
  <2>2. Listed \in SUBSET Users BY <2>1 DEF Listed, CoreTypes, BoxRecords
  <2>3. PICK vs \in SUBSET Users, some2 \in SUBSET Users : SetUsers(vs, some2, F, keep)
    <3>1. Listed \cup us \in SUBSET Users /\ Listed \cup some \in SUBSET Users
          /\ Listed \ us \in SUBSET Users /\ Listed \ some \in SUBSET Users
      BY <2>2
    <3>. QED BY <1>6, <3>1 DEF AddUsers, DelUsers
  <2>4. CoreTypes' /\ BoxInv' BY <1>6, <2>1, <2>3, SetUsersKeeps
  <2>5. UDPInv' BY <1>3, <2>3 DEF SetUsers, configVars
  <2>. QED BY <2>4, <2>5
<1>7. ASSUME NEW F, NEW keep \in BOOLEAN, Close(F, keep)
      PROVE  CoreTypes' /\ BoxInv' /\ UDPInv'
  <2>1. CoreTypes' /\ BoxInv' BY <1>7, CloseKeeps
  <2>2. UNCHANGED <<dying, starts, mislaid, cores>> BY <1>7 DEF Close, configVars
  <2>3. CASE udp.service # 0
    <3>1. udp' = StopNativeUDP BY <1>7, <2>3 DEF Close
    <3>. QED BY <2>1, <2>2, <3>1, UDPStopped
  <2>4. CASE udp.service = 0
    <3>1. udp' = udp BY <1>7, <2>4 DEF Close
    <3>2. UDPInv' BY <2>2, <2>4, <3>1 DEF UDPInv, UDPStatusTrue
    <3>. QED BY <2>1, <3>2
  <2>. QED BY <2>3, <2>4
<1>8. CASE ServeFails BY <1>2, <1>8, UDPAfterServe DEF ServeFails, configVars, historyVars
<1>9. ASSUME NEW e, RecordNativeUDPError(e)
      PROVE  CoreTypes' /\ BoxInv' /\ UDPInv'
  BY <1>2, <1>9, UDPAfterRecord DEF RecordNativeUDPError, configVars, historyVars
<1>10. CASE UNCHANGED coreVars
  BY <1>2, <1>3, <1>10 DEF coreVars, configVars, udpVars, historyVars
<1>11. CASE Calls
  <2>1. ASSUME NEW F, NEW us, NEW some \in IF "users" \in F THEN SUBSET us ELSE {{}}
        PROVE  some \in SUBSET us
    OBVIOUS
  <2>. QED BY SMTT(60), <1>1, <1>4, <1>5, <1>6, <1>7, <1>11, <2>1 DEF Calls
<1>. QED BY <1>8, <1>9, <1>10, <1>11 DEF CoresNext

THEOREM CoresInvariant == CoresSpec => []CoresInv
<1>. QED BY CoresInvInit, CoresInvNext, PTL DEF CoresSpec

\* A failed AddNode leaves no half-built node in a core, and a successful DelNode none
\* at all, whichever of their steps fail: what is left in a core that does not have the
\* node is what the core itself refused to remove.
THEOREM FailedNodesLeaveNothing == CoresSpec => []NoHalfNode
<1>1. CoresInv => NoHalfNode BY DEF CoresInv, BoxInv, NoHalfNode, Held
<1>. QED BY <1>1, CoresInvariant, PTL

\* AddUsers, DelUsers and the rebuild of a naive inbound keep the listener at the users
\* it was given.
THEOREM ListenerServesItsUsers == CoresSpec => []ServesUsers
<1>1. CoresInv => ServesUsers BY DEF CoresInv, BoxInv, ServesUsers, NaiveServed
<1>. QED BY <1>1, CoresInvariant, PTL

\* The state of native UDP that is reported is that of the service in the map, however
\* late the goroutine of an earlier one says that it has failed.
THEOREM ReportedUDPIsTrue == CoresSpec => []UDPStatusTrue
<1>1. CoresInv => UDPStatusTrue BY DEF CoresInv, UDPInv
<1>. QED BY <1>1, CoresInvariant, PTL
=============================================================================
