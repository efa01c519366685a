---------------------------- MODULE PortHopProofs ----------------------------
(***************************************************************************)
(* Proofs about the firewall redirects of the nodes (PortHop), for any tags, *)
(* redirects and binaries, and any number of failures, kills and flushes.    *)
(***************************************************************************)
EXTENDS PortHop, FiniteSetTheorems, TLAPS

\* A leaf is left to Zenon unless it names another prover.
USE ZenonT(60)

-----------------------------------------------------------------------------
(* The inductive invariant                                                  *)

Stages == {"idle", "stale", "add", "rollback", "remove"}

HopCalls ==
    [at : Stages, tag : Tags \union {None}, arg : Redirects \union {None},
     cmd : Nat, done : Nat, listed : [Rules -> Nat], tags : SUBSET Tags, failed : BOOLEAN]

Chains == [CommandSet -> [Rules -> Nat]]

\* The variables have their types.
HopTypes ==
    /\ chain \in Chains
    /\ applied \in [Tags -> Redirects \union {None}]
    /\ call \in [Procs -> HopCalls]
    /\ dirty \in SUBSET Tags

\* A goroutine works for its own tag, the shutdown for a tag without a call; a tag
\* that is worked for has no record, and a record belongs to a node that is up.
Control ==
    /\ \A t \in Tags :
          /\ call[t].at = "idle" => call[t] = Idle
          /\ call[t].at # "idle" =>
                call[t].tag = t /\ call[t].arg \in Redirects /\ applied[t] = None
          /\ applied[t] # None => t \in up
    /\ call[Main].at \in {"idle", "remove"}
    /\ call[Main].at = "idle" => call[Main] = Idle
    /\ call[Main].at = "remove" => running = "closing"
    /\ \A t \in call[Main].tags : call[t] = Idle
    /\ \A t \in Tags : call[Main].tag = t =>
          /\ call[t] = Idle /\ applied[t] = None /\ call[Main].arg \in Redirects
          /\ t \notin call[Main].tags

RulesOf(t) == {r \in Rules : r.tag = t}

\* A position of the loop over every range under every binary.
Position(k) ==
    /\ k.arg \in Redirects
    /\ k.cmd \in 1 .. Len(Commands) + 1
    /\ k.done \in 0 .. Len(k.arg.ranges) - 1
    /\ Over(k) => k.done = 0

\* The ranges the loop has passed under the i-th binary, and the copies of a rule
\* among them.
DoneAt(k, i) ==
    IF i < k.cmd THEN Len(k.arg.ranges) ELSE IF i = k.cmd THEN k.done ELSE 0
Laid(k, i, r) == CopiesTo(k.arg, r, DoneAt(k, i))

\* The rules of a tag are among those of a redirect.
Within(ch, t, d) ==
    \A i \in DOMAIN Commands, r \in RulesOf(t) : ch[Commands[i]][r] <= Copies(d, r)

\* Without a call, the chain has what is recorded (d).
Rests(ch, ds, t, d) ==
    /\ d # None => Within(ch, t, d)
    /\ t \notin ds => \A i \in DOMAIN Commands, r \in RulesOf(t) :
          ch[Commands[i]][r] = IF d = None THEN 0 ELSE Copies(d, r)

\* The rules of a tag are gone.
Gone(ch, t) == \A i \in DOMAIN Commands, r \in RulesOf(t) : ch[Commands[i]][r] = 0

\* What the cleanup has read and not yet deleted covers what is left of the tag.
Cleans(ch, ds, t, k) ==
    /\ t \notin ds => Gone(ch, t)
    /\ k.cmd \in 0 .. Len(Commands)
    /\ \A r \in Rules : k.listed[r] > 0 => r.tag = t /\ k.cmd > 0
    /\ ~k.failed => \A i \in DOMAIN Commands, r \in RulesOf(t) :
          /\ i < k.cmd => ch[Commands[i]][r] = 0
          /\ i = k.cmd => ch[Commands[i]][r] <= k.listed[r]

\* What the loop has passed is what the chain has, but for a flush.
Adds(ch, ds, t, k) ==
    /\ Position(k)
    /\ \A i \in DOMAIN Commands, r \in RulesOf(t) : ch[Commands[i]][r] <= Laid(k, i, r)
    /\ t \notin ds => \A i \in DOMAIN Commands, r \in RulesOf(t) :
          ch[Commands[i]][r] = Laid(k, i, r)

\* The same, when a rule that could not be deleted may be left behind.
RollsBack(ch, ds, t, k) ==
    /\ Position(k)
    /\ Within(ch, t, k.arg)
    /\ t \notin ds => \A i \in DOMAIN Commands, r \in RulesOf(t) :
          ch[Commands[i]][r] = Laid(k, i, r)

\* What the loop has passed is what the chain has no more.
Removes(ch, ds, t, k) ==
    /\ Position(k)
    /\ Within(ch, t, k.arg)
    /\ t \notin ds => \A i \in DOMAIN Commands, r \in RulesOf(t) :
          ch[Commands[i]][r] + Laid(k, i, r) = Copies(k.arg, r)

\* The rules of a tag in a chain ch, given the unclean tags ds, the call k that works
\* on the tag and its record d.
TagOk(ch, ds, t, k, d) ==
    /\ \E e \in Redirects : Within(ch, t, e)
    /\ k.at = "idle" => Rests(ch, ds, t, d)
    /\ k.at = "stale" => Cleans(ch, ds, t, k)
    /\ k.at = "add" => Adds(ch, ds, t, k)
    /\ k.at = "rollback" => RollsBack(ch, ds, t, k)
    /\ k.at = "remove" => Removes(ch, ds, t, k)

\* The call that works on the rules of a tag.
Work(cl, t) == IF cl[Main].tag = t THEN cl[Main] ELSE cl[t]

HopInv ==
    /\ HopTypes
    /\ Control
    /\ \A t \in Tags : TagOk(chain, dirty, t, Work(call, t), applied[t])

-----------------------------------------------------------------------------
(* The constants                                                            *)

\* The binaries are numbered.
LEMMA CommandFacts ==
    /\ Len(Commands) \in Nat
    /\ DOMAIN Commands = 1 .. Len(Commands)
    /\ \A i \in DOMAIN Commands : Commands[i] \in CommandSet
    /\ \A c \in CommandSet : \E i \in DOMAIN Commands : c = Commands[i]
    /\ \A i, j \in DOMAIN Commands : Commands[i] = Commands[j] => i = j
  <1>1. Commands \in Seq(CommandSet) BY HopConstants
  <1>2. Len(Commands) \in Nat /\ DOMAIN Commands = 1 .. Len(Commands) BY SMTT(60), <1>1
  <1> QED BY <1>2, HopConstants DEF CommandSet

\* A redirect has at least one range.
LEMMA RedirectFacts ==
    ASSUME NEW d \in Redirects
    PROVE  /\ Len(d.ranges) \in Nat \ {0}
           /\ \A j \in 1 .. Len(d.ranges) : d.ranges[j] \in AllRanges
           /\ d.port \in Ports
           /\ d # None
  <1>1. d.ranges \in Seq(AllRanges) /\ d.ranges # <<>> /\ d # None BY HopConstants
  <1>2. Len(d.ranges) \in Nat \ {0} BY SMTT(60), <1>1
  <1>3. \A j \in 1 .. Len(d.ranges) : d.ranges[j] \in AllRanges BY SMTT(60), <1>1
  <1>4. d.port \in Ports BY DEF Ports
  <1> QED BY <1>1, <1>2, <1>3, <1>4

\* Tags, the shutdown and no tag are told apart.
LEMMA TagFacts ==
    ASSUME NEW t \in Tags
    PROVE  t # None /\ t # Main /\ t \in Procs
  BY HopConstants DEF Procs

-----------------------------------------------------------------------------
(* Counting                                                                 *)

\* Copies are counted.
LEMMA CopiesNat ==
    ASSUME NEW d, NEW r, NEW n \in Nat
    PROVE  /\ CopiesTo(d, r, n) \in Nat
           /\ IsFiniteSet({j \in 1 .. n : d.ranges[j] = r.range /\ d.port = r.port})
  <1>1. IsFiniteSet(1 .. n) BY SMTT(60), FS_Interval
  <1>2. IsFiniteSet({j \in 1 .. n : d.ranges[j] = r.range /\ d.port = r.port})
    BY <1>1, FS_Subset
  <1> QED BY <1>2, FS_CardinalityType DEF CopiesTo

\* Nothing is asked for by no range.
LEMMA CopiesNone ==
    ASSUME NEW d, NEW r
    PROVE  CopiesTo(d, r, 0) = 0
  <1>1. {j \in 1 .. 0 : d.ranges[j] = r.range /\ d.port = r.port} = {} BY SMTT(60)
  <1> QED BY <1>1, FS_EmptySet DEF CopiesTo

\* One range more asks for one copy more of its own rule.
LEMMA CopiesNext ==
    ASSUME NEW d, NEW r, NEW n \in Nat
    PROVE  CopiesTo(d, r, n + 1) = CopiesTo(d, r, n) +
               IF d.ranges[n + 1] = r.range /\ d.port = r.port THEN 1 ELSE 0
  <1> DEFINE P(j) == d.ranges[j] = r.range /\ d.port = r.port
             S == {j \in 1 .. n : P(j)}
             T == {j \in 1 .. n + 1 : P(j)}
  <1>1. IsFiniteSet(S) /\ CopiesTo(d, r, n) = Cardinality(S) /\ CopiesTo(d, r, n) \in Nat
    <2>1. IsFiniteSet(S) /\ CopiesTo(d, r, n) \in Nat BY CopiesNat
    <2>2. CopiesTo(d, r, n) = Cardinality(S) BY DEF CopiesTo
    <2> QED BY <2>1, <2>2
  <1>2. CopiesTo(d, r, n + 1) = Cardinality(T) BY DEF CopiesTo
  <1>3. CASE P(n + 1)
    <2>1. T = S \union {n + 1} BY SMTT(60), <1>3
    <2>2. n + 1 \notin S BY SMTT(60)
    <2>3. Cardinality(T) = Cardinality(S) + 1 BY SMTT(60), <2>1, <2>2, <1>1, FS_AddElement
    <2> QED BY <2>3, <1>1, <1>2, <1>3
  <1>4. CASE ~P(n + 1)
    <2>1. T = S BY SMTT(60), <1>4
    <2> QED BY SMTT(60), <2>1, <1>1, <1>2, <1>4
  <1> QED BY <1>3, <1>4

\* More ranges ask for no fewer copies.
LEMMA CopiesMore ==
    ASSUME NEW d, NEW r, NEW n \in Nat, NEW m \in Nat, n <= m
    PROVE  CopiesTo(d, r, n) <= CopiesTo(d, r, m)
  <1> DEFINE S == {j \in 1 .. n : d.ranges[j] = r.range /\ d.port = r.port}
             T == {j \in 1 .. m : d.ranges[j] = r.range /\ d.port = r.port}
  <1>1. S \subseteq T BY SMTT(60)
  <1>2. IsFiniteSet(T) BY CopiesNat
  <1>3. Cardinality(S) <= Cardinality(T) BY <1>1, <1>2, FS_Subset
  <1> QED BY <1>3 DEF CopiesTo

-----------------------------------------------------------------------------
(* The loop over the ranges                                                 *)

\* What the loop has passed is a number of ranges.
LEMMA DoneType ==
    ASSUME NEW k, Position(k), NEW i \in DOMAIN Commands
    PROVE  DoneAt(k, i) \in 0 .. Len(k.arg.ranges)
  <1>1. Len(k.arg.ranges) \in Nat \ {0} BY RedirectFacts DEF Position
  <1>2. i \in Nat /\ k.cmd \in Nat BY SMTT(60), CommandFacts DEF Position
  <1>3. k.done \in 0 .. Len(k.arg.ranges) - 1 BY DEF Position
  <1> QED BY SMTT(60), <1>1, <1>2, <1>3 DEF DoneAt

\* A call at another position is a call.
LEMMA MoveType ==
    ASSUME NEW k \in HopCalls, NEW c \in Nat, NEW n \in Nat
    PROVE  [k EXCEPT !.cmd = c, !.done = n] \in HopCalls
  BY DEF HopCalls

\* So is one that reads on, with what it has read or a failure.
LEMMA ReadType ==
    ASSUME NEW k \in HopCalls, NEW c \in Nat, NEW l \in [Rules -> Nat]
    PROVE  /\ [k EXCEPT !.cmd = c, !.listed = l] \in HopCalls
           /\ [k EXCEPT !.cmd = c, !.failed = TRUE] \in HopCalls
  BY DEF HopCalls

\* A step forward passes one range of the binary the loop has come to.
LEMMA ForwardFacts ==
    ASSUME NEW k \in HopCalls, Position(k), ~Over(k)
    PROVE  /\ Forward(k) \in HopCalls
           /\ Position(Forward(k))
           /\ Forward(k).at = k.at /\ Forward(k).tag = k.tag /\ Forward(k).arg = k.arg
           /\ Forward(k).tags = k.tags
           /\ k.cmd \in DOMAIN Commands
           /\ \A i \in DOMAIN Commands :
                 DoneAt(Forward(k), i) = DoneAt(k, i) + IF i = k.cmd THEN 1 ELSE 0
  <1> DEFINE n == Len(k.arg.ranges)
             f == Forward(k)
  <1>1. n \in Nat \ {0} /\ k.arg \in Redirects BY RedirectFacts DEF Position
  <1>2. k.cmd \in 1 .. Len(Commands) /\ k.cmd \in Nat /\ k.done \in 0 .. n - 1
    BY SMTT(60), CommandFacts DEF Position, Over
  <1>3. CASE k.done + 1 < n
    <2>1. f = [k EXCEPT !.done = k.done + 1] BY <1>3 DEF Forward
    <2>2. k.done + 1 \in Nat BY SMTT(60), <1>2, <1>1
    <2>3. f \in HopCalls BY <2>1, <2>2 DEF HopCalls
    <2>4. /\ f.at = k.at /\ f.tag = k.tag /\ f.arg = k.arg /\ f.tags = k.tags
          /\ f.cmd = k.cmd /\ f.done = k.done + 1
      BY <2>1 DEF HopCalls
    <2>5. Position(f)
      <3> HIDE DEF f
      <3>1. f.arg \in Redirects /\ Len(f.arg.ranges) = n /\ f.cmd = k.cmd BY <2>4, <1>1
      <3>2. f.done \in 0 .. n - 1 BY SMTT(60), <2>4, <1>1, <1>2, <1>3
      <3> HIDE DEF n
      <3> QED BY SMTT(60), <3>1, <3>2, <1>2, CommandFacts DEF Position, Over
    <2>6. \A i \in DOMAIN Commands :
             DoneAt(f, i) = DoneAt(k, i) + IF i = k.cmd THEN 1 ELSE 0
      BY SMTT(60), <2>4, <1>1, <1>2, CommandFacts DEF DoneAt
    <2> QED BY <2>3, <2>4, <2>5, <2>6, <1>2, CommandFacts
  <1>4. CASE ~(k.done + 1 < n)
    <2>1. f = [k EXCEPT !.cmd = k.cmd + 1, !.done = 0] BY <1>4 DEF Forward
    <2>2. k.cmd + 1 \in Nat /\ 0 \in Nat BY SMTT(60), <1>2
    <2>3. f \in HopCalls BY <2>1, <2>2, MoveType
    <2>4. /\ f.at = k.at /\ f.tag = k.tag /\ f.arg = k.arg /\ f.tags = k.tags
          /\ f.cmd = k.cmd + 1 /\ f.done = 0
      BY <2>1 DEF HopCalls
    <2>5. Position(f) BY SMTT(60), <2>4, <1>1, <1>2, CommandFacts DEF Position, Over
    <2>6. k.done + 1 = n BY SMTT(60), <1>4, <1>1, <1>2
    <2>7. \A i \in DOMAIN Commands :
             DoneAt(f, i) = DoneAt(k, i) + IF i = k.cmd THEN 1 ELSE 0
      BY SMTT(60), <2>4, <2>6, <1>1, <1>2, CommandFacts DEF DoneAt
    <2> QED BY <2>3, <2>4, <2>5, <2>7, <1>2, CommandFacts
  <1> QED BY <1>3, <1>4

\* A step back is the reverse of a step forward.
LEMMA BackFacts ==
    ASSUME NEW k \in HopCalls, Position(k), ~AtStart(k)
    PROVE  /\ Back(k) \in HopCalls
           /\ Position(Back(k)) /\ ~Over(Back(k))
           /\ Back(k).at = k.at /\ Back(k).tag = k.tag /\ Back(k).arg = k.arg
           /\ Forward(Back(k)) = k
  <1> DEFINE n == Len(k.arg.ranges)
             b == Back(k)
  <1>1. n \in Nat \ {0} /\ k.arg \in Redirects BY RedirectFacts DEF Position
  <1>2. /\ k.cmd \in 1 .. Len(Commands) + 1 /\ k.done \in 0 .. n - 1
        /\ (k.cmd > Len(Commands) => k.done = 0) /\ Len(Commands) \in Nat
    BY CommandFacts DEF Position, Over
  <1>3. CASE k.done > 0
    <2>1. b = [k EXCEPT !.done = k.done - 1] BY <1>3 DEF Back
    <2>2. k.done - 1 \in Nat BY SMTT(60), <1>2, <1>1, <1>3
    <2>3. b \in HopCalls BY <2>1, <2>2 DEF HopCalls
    <2>4. /\ b.at = k.at /\ b.tag = k.tag /\ b.arg = k.arg
          /\ b.cmd = k.cmd /\ b.done = k.done - 1
      BY <2>1 DEF HopCalls
    <2>5. Position(b) /\ ~Over(b)
      <3> HIDE DEF b
      <3>1. b.arg \in Redirects /\ Len(b.arg.ranges) = n /\ b.cmd = k.cmd BY <2>4, <1>1
      <3>2. b.done \in 0 .. n - 1 BY SMTT(60), <2>4, <1>1, <1>2, <1>3
      <3> HIDE DEF n
      <3> QED BY SMTT(60), <3>1, <3>2, <1>2, <1>3 DEF Position, Over
    <2>6. b.done + 1 < n /\ b.done + 1 = k.done BY SMTT(60), <2>4, <1>1, <1>2
    <2>7. Forward(b) = [b EXCEPT !.done = k.done] BY <2>4, <2>6 DEF Forward
    <2>8. [b EXCEPT !.done = k.done] = k BY <2>1 DEF HopCalls
    <2> QED BY <2>3, <2>4, <2>5, <2>7, <2>8
  <1>4. CASE ~(k.done > 0)
    <2>1. b = [k EXCEPT !.cmd = k.cmd - 1, !.done = n - 1] BY <1>4 DEF Back
    <2>2. k.done = 0 /\ k.cmd > 1 BY SMTT(60), <1>1, <1>2, <1>4 DEF AtStart
    <2>3. k.cmd - 1 \in Nat /\ n - 1 \in Nat BY SMTT(60), <1>2, <1>1, <2>2
    <2>4. b \in HopCalls BY <2>1, <2>3 DEF HopCalls
    <2>5. /\ b.at = k.at /\ b.tag = k.tag /\ b.arg = k.arg
          /\ b.cmd = k.cmd - 1 /\ b.done = n - 1
      BY <2>1 DEF HopCalls
    <2>6. Position(b) /\ ~Over(b) BY SMTT(60), <2>5, <1>1, <1>2, <2>2 DEF Position, Over
    <2>7. ~(b.done + 1 < n) /\ b.cmd + 1 = k.cmd BY SMTT(60), <2>5, <1>1, <1>2
    <2>8. Forward(b) = [b EXCEPT !.cmd = k.cmd, !.done = 0] BY <2>5, <2>7 DEF Forward
    <2>9. [b EXCEPT !.cmd = k.cmd, !.done = 0] = k BY <2>1, <2>2 DEF HopCalls
    <2> QED BY <2>4, <2>5, <2>6, <2>8, <2>9
  <1> QED BY <1>3, <1>4

\* The rule the loop has come to is one of its tag.
LEMMA RuleFacts ==
    ASSUME NEW k \in HopCalls, Position(k), ~Over(k), k.tag \in Tags
    PROVE  /\ k.cmd \in DOMAIN Commands
           /\ RuleAt(k).cmd = Commands[k.cmd]
           /\ RuleAt(k).rule \in RulesOf(k.tag)
           /\ RuleAt(k).rule.range = k.arg.ranges[k.done + 1]
           /\ RuleAt(k).rule.port = k.arg.port
  <1>1. Len(k.arg.ranges) \in Nat \ {0} /\ k.arg \in Redirects BY RedirectFacts DEF Position
  <1>2. k.done + 1 \in 1 .. Len(k.arg.ranges) BY SMTT(60), <1>1 DEF Position
  <1>3. k.arg.ranges[k.done + 1] \in AllRanges /\ k.arg.port \in Ports
    BY <1>1, <1>2, RedirectFacts
  <1>4. k.cmd \in DOMAIN Commands BY SMTT(60), CommandFacts DEF Position, Over
  <1> QED BY <1>3, <1>4 DEF RuleAt, RulesOf, Rules

\* A step forward lays one copy of that rule.
LEMMA LaidForward ==
    ASSUME NEW k \in HopCalls, Position(k), ~Over(k), k.tag \in Tags,
           NEW i \in DOMAIN Commands, NEW r \in RulesOf(k.tag)
    PROVE  /\ Laid(k, i, r) \in Nat
           /\ Laid(Forward(k), i, r) =
                 Laid(k, i, r) + IF i = k.cmd /\ r = RuleAt(k).rule THEN 1 ELSE 0
  <1> DEFINE f == Forward(k)
             m == DoneAt(k, i)
  <1>1. m \in Nat BY SMTT(60), DoneType, RedirectFacts DEF Position
  <1>2. CopiesTo(k.arg, r, m) \in Nat BY <1>1, CopiesNat
  <1>3. f.arg = k.arg /\ DoneAt(f, i) = m + IF i = k.cmd THEN 1 ELSE 0 BY ForwardFacts
  <1>4. CASE i # k.cmd
    <2>1. DoneAt(f, i) = m BY SMTT(60), <1>1, <1>3, <1>4
    <2> QED BY SMTT(60), <2>1, <1>2, <1>3, <1>4 DEF Laid
  <1>5. CASE i = k.cmd
    <2>1. DoneAt(f, i) = m + 1 BY <1>1, <1>3, <1>5
    <2>2. m = k.done BY SMTT(60), <1>5, CommandFacts DEF DoneAt
    <2>3. CopiesTo(k.arg, r, m + 1) = CopiesTo(k.arg, r, m) +
             IF k.arg.ranges[m + 1] = r.range /\ k.arg.port = r.port THEN 1 ELSE 0
      BY <1>1, CopiesNext
    <2>4. (k.arg.ranges[m + 1] = r.range /\ k.arg.port = r.port) <=> r = RuleAt(k).rule
      BY SMTT(60), <2>2, RuleFacts DEF RulesOf, Rules
    <2> QED BY <2>1, <2>3, <2>4, <1>2, <1>3, <1>5 DEF Laid
  <1> QED BY <1>4, <1>5

\* Nothing is laid at the start, everything at the end, and no more on the way.
LEMMA LaidEnds ==
    ASSUME NEW k, Position(k), NEW i \in DOMAIN Commands, NEW r
    PROVE  /\ Laid(k, i, r) \in Nat /\ Copies(k.arg, r) \in Nat
           /\ Laid(k, i, r) <= Copies(k.arg, r)
           /\ AtStart(k) => Laid(k, i, r) = 0
           /\ Over(k) => Laid(k, i, r) = Copies(k.arg, r)
  <1>1. Len(k.arg.ranges) \in Nat BY RedirectFacts DEF Position
  <1>2. DoneAt(k, i) \in Nat /\ DoneAt(k, i) <= Len(k.arg.ranges) BY SMTT(60), <1>1, DoneType
  <1>3. Laid(k, i, r) \in Nat /\ Copies(k.arg, r) \in Nat
    BY <1>1, <1>2, CopiesNat DEF Laid, Copies
  <1>4. Laid(k, i, r) <= Copies(k.arg, r) BY <1>1, <1>2, CopiesMore DEF Laid, Copies
  <1>5. AtStart(k) => DoneAt(k, i) = 0 BY SMTT(60), CommandFacts DEF AtStart, DoneAt
  <1>6. Over(k) => DoneAt(k, i) = Len(k.arg.ranges)
    BY SMTT(60), CommandFacts DEF Over, DoneAt, Position
  <1> QED BY <1>3, <1>4, <1>5, <1>6, CopiesNone DEF Laid, Copies

-----------------------------------------------------------------------------
(* Changes of the chain                                                     *)

\* The rules of a tag are the same in two chains.
Same(ch, ch2, t) ==
    \A i \in DOMAIN Commands, r \in RulesOf(t) : ch2[Commands[i]][r] = ch[Commands[i]][r]

Plus(ch, c, a) == [ch EXCEPT ![c][a] = @ + 1]
Minus(ch, c, a) == [ch EXCEPT ![c][a] = @ - 1]

\* A command adds a copy of one rule under one binary.
LEMMA PlusFacts ==
    ASSUME NEW ch \in Chains, NEW i \in DOMAIN Commands, NEW t, NEW a \in RulesOf(t)
    PROVE  /\ Plus(ch, Commands[i], a) \in Chains
           /\ \A u : u # t => Same(ch, Plus(ch, Commands[i], a), u)
           /\ \A j \in DOMAIN Commands, r \in RulesOf(t) :
                 /\ ch[Commands[j]][r] \in Nat
                 /\ Plus(ch, Commands[i], a)[Commands[j]][r] =
                       ch[Commands[j]][r] + IF j = i /\ r = a THEN 1 ELSE 0
  <1>1. Commands[i] \in CommandSet /\ a \in Rules /\ a.tag = t BY CommandFacts DEF RulesOf
  <1>2. ch[Commands[i]] \in [Rules -> Nat] /\ ch[Commands[i]][a] \in Nat BY <1>1 DEF Chains
  <1> DEFINE row == [ch[Commands[i]] EXCEPT ![a] = ch[Commands[i]][a] + 1]
             new == Plus(ch, Commands[i], a)
  <1>3. row \in [Rules -> Nat] BY SMTT(60), <1>1, <1>2
  <1>4. new = [ch EXCEPT ![Commands[i]] = row] BY <1>1, <1>2 DEF Plus, Chains
  <1>5. new \in Chains BY <1>1, <1>3, <1>4 DEF Chains
  <1>6. \A j \in DOMAIN Commands, r \in Rules :
           /\ ch[Commands[j]][r] \in Nat
           /\ new[Commands[j]][r] = IF j = i /\ r = a THEN ch[Commands[j]][r] + 1
                                    ELSE ch[Commands[j]][r]
    <2> SUFFICES ASSUME NEW j \in DOMAIN Commands, NEW r \in Rules
                 PROVE  /\ ch[Commands[j]][r] \in Nat
                        /\ new[Commands[j]][r] =
                              IF j = i /\ r = a THEN ch[Commands[j]][r] + 1
                              ELSE ch[Commands[j]][r]
      OBVIOUS
    <2>1. Commands[j] \in CommandSet /\ (Commands[j] = Commands[i] => j = i)
      BY CommandFacts
    <2>2. ch[Commands[j]] \in [Rules -> Nat] BY <2>1 DEF Chains
    <2>3. CASE j = i
      <3>1. new[Commands[j]] = row BY <2>3, <1>1, <1>4 DEF Chains
      <3> QED BY <3>1, <2>2, <2>3, <1>1
    <2>4. CASE j # i
      <3>1. new[Commands[j]] = ch[Commands[j]] BY <2>1, <2>4, <1>1, <1>4 DEF Chains
      <3> QED BY <3>1, <2>2, <2>4
    <2> QED BY <2>3, <2>4
  <1> HIDE DEF new, row
  <1>7. \A u : u # t => Same(ch, new, u) BY <1>1, <1>6 DEF Same, RulesOf
  <1>8. \A j \in DOMAIN Commands, r \in RulesOf(t) :
           /\ ch[Commands[j]][r] \in Nat
           /\ new[Commands[j]][r] = ch[Commands[j]][r] + IF j = i /\ r = a THEN 1 ELSE 0
    BY SMTT(60), <1>6 DEF RulesOf
  <1> QED BY <1>5, <1>7, <1>8 DEF new

\* A command removes a copy of one rule under one binary.
LEMMA MinusFacts ==
    ASSUME NEW ch \in Chains, NEW i \in DOMAIN Commands, NEW t, NEW a \in RulesOf(t),
           ch[Commands[i]][a] # 0
    PROVE  /\ Minus(ch, Commands[i], a) \in Chains
           /\ \A u : u # t => Same(ch, Minus(ch, Commands[i], a), u)
           /\ \A j \in DOMAIN Commands, r \in RulesOf(t) :
                 /\ ch[Commands[j]][r] \in Nat
                 /\ Minus(ch, Commands[i], a)[Commands[j]][r] \in Nat
                 /\ Minus(ch, Commands[i], a)[Commands[j]][r] =
                       ch[Commands[j]][r] - IF j = i /\ r = a THEN 1 ELSE 0
  <1>1. Commands[i] \in CommandSet /\ a \in Rules /\ a.tag = t BY CommandFacts DEF RulesOf
  <1>2. /\ ch[Commands[i]] \in [Rules -> Nat]
        /\ ch[Commands[i]][a] - 1 \in Nat
    BY SMTT(60), <1>1 DEF Chains
  <1> DEFINE row == [ch[Commands[i]] EXCEPT ![a] = ch[Commands[i]][a] - 1]
             new == Minus(ch, Commands[i], a)
  <1>3. row \in [Rules -> Nat] BY <1>1, <1>2
  <1>4. new = [ch EXCEPT ![Commands[i]] = row] BY <1>1, <1>2 DEF Minus, Chains
  <1>5. new \in Chains BY <1>1, <1>3, <1>4 DEF Chains
  <1>6. \A j \in DOMAIN Commands, r \in Rules :
           /\ ch[Commands[j]][r] \in Nat
           /\ new[Commands[j]][r] = IF j = i /\ r = a THEN ch[Commands[j]][r] - 1
                                    ELSE ch[Commands[j]][r]
    <2> SUFFICES ASSUME NEW j \in DOMAIN Commands, NEW r \in Rules
                 PROVE  /\ ch[Commands[j]][r] \in Nat
                        /\ new[Commands[j]][r] =
                              IF j = i /\ r = a THEN ch[Commands[j]][r] - 1
                              ELSE ch[Commands[j]][r]
      OBVIOUS
    <2>1. Commands[j] \in CommandSet /\ (Commands[j] = Commands[i] => j = i)
      BY CommandFacts
    <2>2. ch[Commands[j]] \in [Rules -> Nat] BY <2>1 DEF Chains
    <2>3. CASE j = i
      <3>1. new[Commands[j]] = row BY <2>3, <1>1, <1>4 DEF Chains
      <3> QED BY <3>1, <2>2, <2>3, <1>1
    <2>4. CASE j # i
      <3>1. new[Commands[j]] = ch[Commands[j]] BY <2>1, <2>4, <1>1, <1>4 DEF Chains
      <3> QED BY <3>1, <2>2, <2>4
    <2> QED BY <2>3, <2>4
  <1>7. \A j \in DOMAIN Commands, r \in Rules : new[Commands[j]][r] \in Nat
    BY SMTT(60), <1>5, CommandFacts DEF Chains
  <1> HIDE DEF new, row
  <1>8. \A u : u # t => Same(ch, new, u) BY <1>1, <1>6 DEF Same, RulesOf
  <1>9. \A j \in DOMAIN Commands, r \in RulesOf(t) :
           /\ ch[Commands[j]][r] \in Nat
           /\ new[Commands[j]][r] \in Nat
           /\ new[Commands[j]][r] = ch[Commands[j]][r] - IF j = i /\ r = a THEN 1 ELSE 0
    BY SMTT(60), <1>6, <1>7 DEF RulesOf
  <1> QED BY <1>5, <1>8, <1>9 DEF new

-----------------------------------------------------------------------------
(* What a step means for the rules of one tag                               *)

\* The chain holds no more rules of a tag than before.
Fewer(ch, ch2, t) ==
    \A i \in DOMAIN Commands, r \in RulesOf(t) :
        ch[Commands[i]][r] \in Nat /\ ch2[Commands[i]][r] \in Nat
        /\ ch2[Commands[i]][r] <= ch[Commands[i]][r]

\* The rules of a redirect are counted.
LEMMA CopiesType ==
    ASSUME NEW d \in Redirects, NEW r
    PROVE  Copies(d, r) \in Nat
  BY RedirectFacts, CopiesNat DEF Copies

\* A chain with fewer rules stays within a redirect.
LEMMA FewerWithin ==
    ASSUME NEW ch, NEW ch2, NEW t, Fewer(ch, ch2, t)
    PROVE  \A d \in Redirects : Within(ch, t, d) => Within(ch2, t, d)
  <1> SUFFICES ASSUME NEW d \in Redirects, Within(ch, t, d),
                      NEW i \in DOMAIN Commands, NEW r \in RulesOf(t)
               PROVE  ch2[Commands[i]][r] <= Copies(d, r)
    BY DEF Within
  <1>1. ch[Commands[i]][r] <= Copies(d, r) BY DEF Within
  <1>2. /\ ch[Commands[i]][r] \in Nat /\ ch2[Commands[i]][r] \in Nat
        /\ ch2[Commands[i]][r] <= ch[Commands[i]][r]
    BY DEF Fewer
  <1> QED BY SMTT(60), <1>1, <1>2, CopiesType

\* A step that leaves the rules of a tag, its call and its record alone.
LEMMA Frame ==
    ASSUME NEW ch, NEW ch2, NEW ds, NEW ds2, NEW t, NEW k, NEW d,
           TagOk(ch, ds, t, k, d), Same(ch, ch2, t), t \in ds => t \in ds2
    PROVE  TagOk(ch2, ds2, t, k, d)
  <1>1. \A i \in DOMAIN Commands, r \in RulesOf(t) :
           ch2[Commands[i]][r] = ch[Commands[i]][r]
    BY DEF Same
  <1>2. \A e : Within(ch, t, e) => Within(ch2, t, e) BY <1>1 DEF Within
  <1>3. Rests(ch, ds, t, d) => Rests(ch2, ds2, t, d) BY SMTT(60), <1>1, <1>2 DEF Rests
  <1>4. Cleans(ch, ds, t, k) => Cleans(ch2, ds2, t, k) BY SMTT(60), <1>1 DEF Cleans, Gone
  <1>5. Adds(ch, ds, t, k) => Adds(ch2, ds2, t, k) BY <1>1 DEF Adds
  <1>6. RollsBack(ch, ds, t, k) => RollsBack(ch2, ds2, t, k) BY <1>1, <1>2 DEF RollsBack
  <1>7. Removes(ch, ds, t, k) => Removes(ch2, ds2, t, k) BY <1>1, <1>2 DEF Removes
  <1> QED BY <1>2, <1>3, <1>4, <1>5, <1>6, <1>7 DEF TagOk

\* A flush marks every tag.
LEMMA FlushKeepsTag ==
    ASSUME NEW ch, NEW ch2, NEW ds, NEW ds2, NEW t, NEW k \in HopCalls,
           NEW d \in Redirects \union {None},
           TagOk(ch, ds, t, k, d), Fewer(ch, ch2, t), t \in ds2
    PROVE  TagOk(ch2, ds2, t, k, d)
  <1>1. \A e \in Redirects : Within(ch, t, e) => Within(ch2, t, e) BY FewerWithin
  <1>2. \E e \in Redirects : Within(ch2, t, e) BY <1>1 DEF TagOk
  <1>3. Rests(ch, ds, t, d) => Rests(ch2, ds2, t, d) BY <1>1 DEF Rests
  <1>4. Cleans(ch, ds, t, k) => Cleans(ch2, ds2, t, k)
    <2> SUFFICES ASSUME Cleans(ch, ds, t, k), ~k.failed,
                        NEW i \in DOMAIN Commands, NEW r \in RulesOf(t)
                 PROVE  /\ i < k.cmd => ch2[Commands[i]][r] = 0
                        /\ i = k.cmd => ch2[Commands[i]][r] <= k.listed[r]
      BY DEF Cleans
    <2>1. /\ i < k.cmd => ch[Commands[i]][r] = 0
          /\ i = k.cmd => ch[Commands[i]][r] <= k.listed[r]
      BY DEF Cleans
    <2>2. /\ ch[Commands[i]][r] \in Nat /\ ch2[Commands[i]][r] \in Nat
          /\ ch2[Commands[i]][r] <= ch[Commands[i]][r]
      BY DEF Fewer
    <2>3. k.listed[r] \in Nat BY DEF HopCalls, RulesOf
    <2> QED BY SMTT(60), <2>1, <2>2, <2>3
  <1>5. Adds(ch, ds, t, k) => Adds(ch2, ds2, t, k)
    <2> SUFFICES ASSUME Adds(ch, ds, t, k),
                        NEW i \in DOMAIN Commands, NEW r \in RulesOf(t)
                 PROVE  ch2[Commands[i]][r] <= Laid(k, i, r)
      BY DEF Adds
    <2>1. ch[Commands[i]][r] <= Laid(k, i, r) /\ Laid(k, i, r) \in Nat
      BY LaidEnds DEF Adds
    <2>2. /\ ch[Commands[i]][r] \in Nat /\ ch2[Commands[i]][r] \in Nat
          /\ ch2[Commands[i]][r] <= ch[Commands[i]][r]
      BY DEF Fewer
    <2> QED BY SMTT(60), <2>1, <2>2
  <1>6. RollsBack(ch, ds, t, k) => RollsBack(ch2, ds2, t, k)
    BY <1>1 DEF RollsBack, Position
  <1>7. Removes(ch, ds, t, k) => Removes(ch2, ds2, t, k) BY <1>1 DEF Removes, Position
  <1> QED BY <1>2, <1>3, <1>4, <1>5, <1>6, <1>7 DEF TagOk

\* A tag that is worked on no more, or not yet, and has rules of one redirect.
LEMMA DirtyRests ==
    ASSUME NEW ch, NEW ds, NEW t, t \in ds, \E e \in Redirects : Within(ch, t, e)
    PROVE  TagOk(ch, ds, t, Idle, None)
  BY DEF TagOk, Rests, Idle

\* Apply begins: nothing is read yet.
LEMMA BeginCleans ==
    ASSUME NEW ch, NEW ds, NEW t, NEW k, NEW e \in Redirects,
           TagOk(ch, ds, t, k, None), k.at = "idle"
    PROVE  TagOk(ch, ds, t, [LoopOver("stale", t, e) EXCEPT !.cmd = 0], None)
  <1> DEFINE n == [LoopOver("stale", t, e) EXCEPT !.cmd = 0]
  <1>1. n.at = "stale" /\ n.cmd = 0 /\ n.listed = NoRules BY DEF LoopOver, Idle
  <1>2. \A r \in Rules : n.listed[r] = 0 BY <1>1 DEF NoRules
  <1>3. t \notin ds => Gone(ch, t) BY DEF TagOk, Rests, Gone
  <1>4. Cleans(ch, ds, t, n) BY SMTT(60), <1>1, <1>2, <1>3, CommandFacts DEF Cleans
  <1> QED BY <1>1, <1>4 DEF TagOk

\* A loop that begins is at a position, and has passed nothing.
LEMMA BeginLoop ==
    ASSUME NEW e \in Redirects, NEW k, k.arg = e, k.cmd = 1, k.done = 0
    PROVE  Position(k) /\ AtStart(k)
  BY SMTT(60), RedirectFacts, CommandFacts DEF Position, AtStart, Over

\* A chain is read: all that is there of the tag is listed.
LEMMA ReadCleans ==
    ASSUME NEW ch \in Chains, NEW ds, NEW t, NEW k \in HopCalls, NEW d, NEW l \in [Rules -> Nat],
           TagOk(ch, ds, t, k, d), k.at = "stale", k.listed = NoRules,
           k.cmd < Len(Commands),
           \A r \in Rules : l[r] = IF r.tag = t THEN ch[Commands[k.cmd + 1]][r] ELSE 0
    PROVE  TagOk(ch, ds, t, [k EXCEPT !.cmd = k.cmd + 1, !.listed = l], d)
  <1> DEFINE n == [k EXCEPT !.cmd = k.cmd + 1, !.listed = l]
  <1>1. /\ n.at = "stale" /\ n.cmd = k.cmd + 1 /\ n.listed = l /\ n.failed = k.failed
        /\ k.cmd \in Nat
    BY DEF HopCalls
  <1>2. Cleans(ch, ds, t, k) BY DEF TagOk
  <1>3. n.cmd \in 0 .. Len(Commands) /\ n.cmd > 0 BY SMTT(60), <1>1, CommandFacts
  <1>4. \A r \in Rules : n.listed[r] > 0 => r.tag = t BY SMTT(60), <1>1
  <1>5. ASSUME ~n.failed, NEW i \in DOMAIN Commands, NEW r \in RulesOf(t)
        PROVE  /\ i < n.cmd => ch[Commands[i]][r] = 0
               /\ i = n.cmd => ch[Commands[i]][r] <= n.listed[r]
    <2>1. /\ i < k.cmd => ch[Commands[i]][r] = 0
          /\ i = k.cmd => ch[Commands[i]][r] <= k.listed[r]
      BY <1>1, <1>2, <1>5 DEF Cleans
    <2>2. r \in Rules /\ r.tag = t /\ k.listed[r] = 0 BY DEF RulesOf, NoRules
    <2>3. ch[Commands[i]][r] \in Nat /\ i \in Nat BY SMTT(60), <2>2, CommandFacts DEF Chains
    <2>4. i = n.cmd => n.listed[r] = ch[Commands[i]][r] BY <1>1, <2>2
    <2> QED BY SMTT(60), <2>1, <2>2, <2>3, <2>4, <1>1
  <1>6. Cleans(ch, ds, t, n) BY <1>2, <1>3, <1>4, <1>5 DEF Cleans
  <1>7. \E e \in Redirects : Within(ch, t, e) BY DEF TagOk
  <1> HIDE DEF n
  <1>8. TagOk(ch, ds, t, n, d) BY <1>1, <1>6, <1>7 DEF TagOk
  <1> QED BY <1>8 DEF n

\* A cleanup that has failed says nothing of the chain.
LEMMA FailedCleans ==
    ASSUME NEW ch, NEW ds, NEW t, NEW k, NEW d,
           k.at = "stale", k.failed, k.cmd \in 0 .. Len(Commands),
           \A r \in Rules : k.listed[r] > 0 => r.tag = t /\ k.cmd > 0,
           t \notin ds => Gone(ch, t), \E e \in Redirects : Within(ch, t, e)
    PROVE  TagOk(ch, ds, t, k, d)
  BY DEF TagOk, Cleans

\* A listed rule is deleted.
LEMMA DeleteCleans ==
    ASSUME NEW ch \in Chains, NEW ds, NEW t, NEW k \in HopCalls, NEW d, NEW a \in Rules,
           TagOk(ch, ds, t, k, d), k.at = "stale", k.listed[a] > 0,
           ch[Commands[k.cmd]][a] # 0
    PROVE  /\ a \in RulesOf(t) /\ k.cmd \in DOMAIN Commands
           /\ TagOk(Minus(ch, Commands[k.cmd], a), ds, t, [k EXCEPT !.listed[a] = @ - 1], d)
  <1> DEFINE n == [k EXCEPT !.listed[a] = @ - 1]
             ch2 == Minus(ch, Commands[k.cmd], a)
  <1>1. Cleans(ch, ds, t, k) BY DEF TagOk
  <1>2. a \in RulesOf(t) BY <1>1 DEF Cleans, RulesOf
  <1>3. k.cmd \in DOMAIN Commands BY SMTT(60), <1>1, CommandFacts DEF Cleans
  <1>4. k.listed \in [Rules -> Nat] BY DEF HopCalls
  <1>5. /\ n.at = "stale" /\ n.cmd = k.cmd /\ n.failed = k.failed
        /\ n.listed = [k.listed EXCEPT ![a] = k.listed[a] - 1]
    BY DEF HopCalls
  <1>6. \A r \in Rules : n.listed[r] = IF r = a THEN k.listed[r] - 1 ELSE k.listed[r]
    BY <1>4, <1>5
  <1>7. \A j \in DOMAIN Commands, r \in RulesOf(t) :
           /\ ch[Commands[j]][r] \in Nat /\ ch2[Commands[j]][r] \in Nat
           /\ ch2[Commands[j]][r] =
                 ch[Commands[j]][r] - IF j = k.cmd /\ r = a THEN 1 ELSE 0
    BY SMTT(60), <1>2, <1>3, MinusFacts
  <1> HIDE DEF ch2, n
  <1>8. Fewer(ch, ch2, t) BY SMTT(60), <1>7 DEF Fewer
  <1>9. \E e \in Redirects : Within(ch2, t, e) BY <1>8, FewerWithin DEF TagOk
  <1>10. \A r \in Rules : n.listed[r] > 0 => r.tag = t /\ n.cmd > 0
    BY <1>1, <1>4, <1>5, <1>6 DEF Cleans
  <1>11. ASSUME ~n.failed, NEW i \in DOMAIN Commands, NEW r \in RulesOf(t)
         PROVE  /\ i < n.cmd => ch2[Commands[i]][r] = 0
                /\ i = n.cmd => ch2[Commands[i]][r] <= n.listed[r]
    <2>1. /\ i < k.cmd => ch[Commands[i]][r] = 0
          /\ i = k.cmd => ch[Commands[i]][r] <= k.listed[r]
      BY <1>1, <1>5, <1>11 DEF Cleans
    <2>2. r \in Rules /\ k.listed[r] \in Nat BY <1>4 DEF RulesOf
    <2>3. /\ ch[Commands[i]][r] \in Nat /\ ch2[Commands[i]][r] \in Nat
          /\ ch2[Commands[i]][r] =
                ch[Commands[i]][r] - IF i = k.cmd /\ r = a THEN 1 ELSE 0
      BY <1>7
    <2>4. n.listed[r] = IF r = a THEN k.listed[r] - 1 ELSE k.listed[r] BY <1>6, <2>2
    <2>5. i \in Nat /\ k.cmd \in Nat BY SMTT(60), <1>3, CommandFacts
    <2>6. i < n.cmd => ch2[Commands[i]][r] = 0 BY SMTT(60), <2>1, <2>3, <2>5, <1>5
    <2>7. i = n.cmd => ch2[Commands[i]][r] <= n.listed[r] BY SMTT(60), <2>1, <2>2, <2>3, <2>4, <1>5
    <2> QED BY <2>6, <2>7
  <1>12. t \in ds BY <1>1, <1>2, <1>3 DEF Cleans, Gone
  <1>13. Cleans(ch2, ds, t, n) BY <1>1, <1>5, <1>10, <1>11, <1>12 DEF Cleans
  <1>14. TagOk(ch2, ds, t, n, d) BY <1>5, <1>9, <1>13 DEF TagOk
  <1> QED BY <1>2, <1>3, <1>14 DEF ch2, n

\* The cleanup is over without an error: nothing is left of the tag.
LEMMA CleanedTag ==
    ASSUME NEW ch \in Chains, NEW ds, NEW t, NEW k, NEW d,
           TagOk(ch, ds, t, k, d), k.at = "stale", k.listed = NoRules,
           k.cmd = Len(Commands), ~k.failed
    PROVE  Gone(ch, t)
  <1> SUFFICES ASSUME NEW i \in DOMAIN Commands, NEW r \in RulesOf(t)
               PROVE  ch[Commands[i]][r] = 0
    BY DEF Gone
  <1>1. /\ i < k.cmd => ch[Commands[i]][r] = 0
        /\ i = k.cmd => ch[Commands[i]][r] <= k.listed[r]
    BY DEF TagOk, Cleans
  <1>2. r \in Rules /\ k.listed[r] = 0 BY DEF RulesOf, NoRules
  <1>3. ch[Commands[i]][r] \in Nat BY SMTT(60), <1>2, CommandFacts DEF Chains
  <1>4. i < k.cmd \/ i = k.cmd BY SMTT(60), CommandFacts
  <1> QED BY SMTT(60), <1>1, <1>2, <1>3, <1>4

\* A loop that adds begins where nothing is left of the tag.
LEMMA BeginAdds ==
    ASSUME NEW ch, NEW ds, NEW t, NEW k, NEW d, NEW e \in Redirects,
           Gone(ch, t), k.at = "add", k.arg = e, k.cmd = 1, k.done = 0
    PROVE  TagOk(ch, ds, t, k, d)
  <1>1. Position(k) /\ AtStart(k) BY BeginLoop
  <1>2. \A i \in DOMAIN Commands, r \in RulesOf(t) :
           ch[Commands[i]][r] = 0 /\ Laid(k, i, r) = 0
    BY <1>1, LaidEnds DEF Gone
  <1>3. Adds(ch, ds, t, k) BY SMTT(60), <1>1, <1>2 DEF Adds
  <1>4. Within(ch, t, e)
    <2> SUFFICES ASSUME NEW i \in DOMAIN Commands, NEW r \in RulesOf(t)
                 PROVE  ch[Commands[i]][r] <= Copies(e, r)
      BY DEF Within
    <2>1. ch[Commands[i]][r] = 0 /\ Copies(e, r) \in Nat BY <1>2, CopiesType
    <2> QED BY SMTT(60), <2>1
  <1> QED BY <1>3, <1>4 DEF TagOk

\* What the loop has added is within its redirect.
LEMMA AddsWithin ==
    ASSUME NEW ch \in Chains, NEW ds, NEW t, NEW k, Adds(ch, ds, t, k)
    PROVE  Within(ch, t, k.arg)
  <1> SUFFICES ASSUME NEW i \in DOMAIN Commands, NEW r \in RulesOf(t)
               PROVE  ch[Commands[i]][r] <= Copies(k.arg, r)
    BY DEF Within
  <1>1. ch[Commands[i]][r] <= Laid(k, i, r) BY DEF Adds
  <1>2. /\ Laid(k, i, r) \in Nat /\ Copies(k.arg, r) \in Nat
        /\ Laid(k, i, r) <= Copies(k.arg, r)
    BY LaidEnds DEF Adds
  <1>3. ch[Commands[i]][r] \in Nat BY SMTT(60), CommandFacts DEF Chains, RulesOf
  <1> QED BY SMTT(60), <1>1, <1>2, <1>3

\* A rule is added.
LEMMA AddForward ==
    ASSUME NEW ch \in Chains, NEW ds, NEW t \in Tags, NEW k \in HopCalls, NEW d,
           TagOk(ch, ds, t, k, d), k.at = "add", k.tag = t, ~Over(k)
    PROVE  TagOk(Plus(ch, RuleAt(k).cmd, RuleAt(k).rule), ds, t, Forward(k), d)
  <1> DEFINE a == RuleAt(k).rule
             ch2 == Plus(ch, RuleAt(k).cmd, a)
             f == Forward(k)
  <1>1. Adds(ch, ds, t, k) /\ Position(k) BY DEF TagOk, Adds
  <1>2. k.cmd \in DOMAIN Commands /\ RuleAt(k).cmd = Commands[k.cmd] /\ a \in RulesOf(t)
    BY <1>1, RuleFacts
  <1>3. ch2 \in Chains /\ \A j \in DOMAIN Commands, r \in RulesOf(t) :
           /\ ch[Commands[j]][r] \in Nat
           /\ ch2[Commands[j]][r] = ch[Commands[j]][r] + IF j = k.cmd /\ r = a THEN 1 ELSE 0
    BY SMTT(60), <1>2, PlusFacts
  <1>4. f.at = "add" /\ f.arg = k.arg /\ Position(f) BY <1>1, ForwardFacts
  <1>5. \A j \in DOMAIN Commands, r \in RulesOf(t) :
           /\ Laid(k, j, r) \in Nat
           /\ Laid(f, j, r) = Laid(k, j, r) + IF j = k.cmd /\ r = a THEN 1 ELSE 0
    BY <1>1, LaidForward
  <1> HIDE DEF ch2, f, a
  <1>6. ASSUME NEW i \in DOMAIN Commands, NEW r \in RulesOf(t)
        PROVE  /\ ch2[Commands[i]][r] <= Laid(f, i, r)
               /\ t \notin ds => ch2[Commands[i]][r] = Laid(f, i, r)
    <2>1. /\ ch[Commands[i]][r] <= Laid(k, i, r)
          /\ t \notin ds => ch[Commands[i]][r] = Laid(k, i, r)
      BY <1>1 DEF Adds
    <2>2. /\ ch[Commands[i]][r] \in Nat
          /\ ch2[Commands[i]][r] = ch[Commands[i]][r] + IF i = k.cmd /\ r = a THEN 1 ELSE 0
      BY <1>3
    <2>3. /\ Laid(k, i, r) \in Nat
          /\ Laid(f, i, r) = Laid(k, i, r) + IF i = k.cmd /\ r = a THEN 1 ELSE 0
      BY <1>5
    <2> QED BY SMTT(60), <2>1, <2>2, <2>3
  <1>7. Adds(ch2, ds, t, f) BY <1>4, <1>6 DEF Adds
  <1>8. Within(ch2, t, f.arg) /\ f.arg \in Redirects BY <1>3, <1>4, <1>7, AddsWithin DEF Position
  <1>9. TagOk(ch2, ds, t, f, d) BY <1>4, <1>7, <1>8 DEF TagOk
  <1> QED BY <1>9 DEF ch2, f, a

\* A rule cannot be added: what was added is to be rolled back.
LEMMA AddFails ==
    ASSUME NEW ch \in Chains, NEW ds, NEW t, NEW k \in HopCalls, NEW d,
           TagOk(ch, ds, t, k, d), k.at = "add"
    PROVE  TagOk(ch, ds, t, [k EXCEPT !.at = "rollback"], d)
  <1> DEFINE n == [k EXCEPT !.at = "rollback"]
  <1>1. Adds(ch, ds, t, k) BY DEF TagOk
  <1>2. Within(ch, t, k.arg) BY <1>1, AddsWithin
  <1>3. n.at = "rollback" /\ n.arg = k.arg /\ n.cmd = k.cmd /\ n.done = k.done
    BY DEF HopCalls
  <1> HIDE DEF n
  <1>4. Position(n) BY <1>1, <1>3 DEF Adds, Position, Over
  <1>5. \A i, r : Laid(n, i, r) = Laid(k, i, r) BY <1>3 DEF Laid, DoneAt
  <1>6. RollsBack(ch, ds, t, n) BY SMTT(60), <1>1, <1>2, <1>3, <1>4, <1>5 DEF RollsBack, Adds
  <1>7. TagOk(ch, ds, t, n, d) BY <1>3, <1>6 DEF TagOk, RollsBack, Position
  <1> QED BY <1>7 DEF n

\* Every rule is added: the redirect is recorded.
LEMMA AddsOver ==
    ASSUME NEW ch \in Chains, NEW ds, NEW t, NEW k, NEW d,
           TagOk(ch, ds, t, k, d), k.at = "add", Over(k)
    PROVE  k.arg \in Redirects /\ TagOk(ch, ds, t, Idle, k.arg)
  <1>1. Adds(ch, ds, t, k) /\ Position(k) BY DEF TagOk, Adds
  <1>2. Within(ch, t, k.arg) BY <1>1, AddsWithin
  <1>3. k.arg \in Redirects /\ k.arg # None BY <1>1, RedirectFacts DEF Position
  <1>4. \A i \in DOMAIN Commands, r \in RulesOf(t) : Laid(k, i, r) = Copies(k.arg, r)
    BY <1>1, LaidEnds
  <1>5. Rests(ch, ds, t, k.arg) BY <1>1, <1>2, <1>3, <1>4 DEF Rests, Adds
  <1> QED BY <1>2, <1>3, <1>5 DEF TagOk, Idle

\* A rule is rolled back.
LEMMA RollBackward ==
    ASSUME NEW ch \in Chains, NEW ds, NEW t \in Tags, NEW k \in HopCalls, NEW d,
           TagOk(ch, ds, t, k, d), k.at = "rollback", k.tag = t, ~AtStart(k),
           ch[RuleAt(Back(k)).cmd][RuleAt(Back(k)).rule] # 0
    PROVE  TagOk(Minus(ch, RuleAt(Back(k)).cmd, RuleAt(Back(k)).rule), ds, t, Back(k), d)
  <1> DEFINE b == Back(k)
             a == RuleAt(b).rule
             ch2 == Minus(ch, RuleAt(b).cmd, a)
  <1>1. RollsBack(ch, ds, t, k) /\ Position(k) BY DEF TagOk, RollsBack
  <1>2. /\ b \in HopCalls /\ Position(b) /\ ~Over(b) /\ Forward(b) = k
        /\ b.at = "rollback" /\ b.tag = t /\ b.arg = k.arg
    BY <1>1, BackFacts
  <1> HIDE DEF b
  <1>3. b.cmd \in DOMAIN Commands /\ RuleAt(b).cmd = Commands[b.cmd] /\ a \in RulesOf(t)
    BY <1>2, RuleFacts
  <1>4. ch[Commands[b.cmd]][a] # 0 BY <1>3 DEF b
  <1>5. \A j \in DOMAIN Commands, r \in RulesOf(t) :
           /\ ch[Commands[j]][r] \in Nat /\ ch2[Commands[j]][r] \in Nat
           /\ ch2[Commands[j]][r] = ch[Commands[j]][r] - IF j = b.cmd /\ r = a THEN 1 ELSE 0
    BY SMTT(60), <1>3, <1>4, MinusFacts
  <1>6. \A j \in DOMAIN Commands, r \in RulesOf(t) :
           /\ Laid(b, j, r) \in Nat
           /\ Laid(k, j, r) = Laid(b, j, r) + IF j = b.cmd /\ r = a THEN 1 ELSE 0
    BY SMTT(60), <1>2, LaidForward
  <1> HIDE DEF ch2, a
  <1>7. Fewer(ch, ch2, t) BY SMTT(60), <1>5 DEF Fewer
  <1>8. b.arg \in Redirects /\ Within(ch2, t, b.arg)
    BY <1>1, <1>2, <1>7, FewerWithin DEF RollsBack, Position
  <1>9. ASSUME t \notin ds, NEW i \in DOMAIN Commands, NEW r \in RulesOf(t)
        PROVE  ch2[Commands[i]][r] = Laid(b, i, r)
    <2>1. ch[Commands[i]][r] = Laid(k, i, r) BY <1>1, <1>9 DEF RollsBack
    <2>2. /\ ch[Commands[i]][r] \in Nat
          /\ ch2[Commands[i]][r] = ch[Commands[i]][r] - IF i = b.cmd /\ r = a THEN 1 ELSE 0
      BY <1>5
    <2>3. /\ Laid(b, i, r) \in Nat
          /\ Laid(k, i, r) = Laid(b, i, r) + IF i = b.cmd /\ r = a THEN 1 ELSE 0
      BY <1>6
    <2> QED BY SMTT(60), <2>1, <2>2, <2>3
  <1>10. RollsBack(ch2, ds, t, b) BY <1>2, <1>8, <1>9 DEF RollsBack
  <1>11. TagOk(ch2, ds, t, b, d) BY <1>2, <1>8, <1>10 DEF TagOk
  <1> QED BY <1>11 DEF ch2, a, b

\* A rule cannot be rolled back: the tag is not clean any more.
LEMMA RollFails ==
    ASSUME NEW ch, NEW ds, NEW ds2, NEW t, NEW k \in HopCalls, NEW d,
           TagOk(ch, ds, t, k, d), k.at = "rollback", ~AtStart(k), t \in ds2
    PROVE  TagOk(ch, ds2, t, Back(k), d)
  <1>1. RollsBack(ch, ds, t, k) /\ Position(k) BY DEF TagOk, RollsBack
  <1>2. Position(Back(k)) /\ Back(k).at = "rollback" /\ Back(k).arg = k.arg
    BY <1>1, BackFacts
  <1>3. RollsBack(ch, ds2, t, Back(k)) BY <1>1, <1>2 DEF RollsBack
  <1>4. \E e \in Redirects : Within(ch, t, e) BY DEF TagOk
  <1> QED BY <1>2, <1>3, <1>4 DEF TagOk

\* Everything is rolled back: there is no redirect, and none is recorded.
LEMMA RollsOver ==
    ASSUME NEW ch, NEW ds, NEW t, NEW k, NEW d,
           TagOk(ch, ds, t, k, d), k.at = "rollback", AtStart(k)
    PROVE  TagOk(ch, ds, t, Idle, None)
  <1>1. RollsBack(ch, ds, t, k) /\ Position(k) BY DEF TagOk, RollsBack
  <1>2. \A i \in DOMAIN Commands, r \in RulesOf(t) : Laid(k, i, r) = 0 BY <1>1, LaidEnds
  <1>3. Rests(ch, ds, t, None) BY SMTT(60), <1>1, <1>2 DEF Rests, RollsBack
  <1>4. \E e \in Redirects : Within(ch, t, e) BY DEF TagOk
  <1> QED BY <1>3, <1>4 DEF TagOk, Idle

\* The removal of what is recorded begins.
LEMMA BeginRemoves ==
    ASSUME NEW ch \in Chains, NEW ds, NEW t, NEW d \in Redirects, NEW k, NEW n, NEW e,
           TagOk(ch, ds, t, k, d), k.at = "idle",
           n.at = "remove", n.arg = d, n.cmd = 1, n.done = 0
    PROVE  TagOk(ch, ds, t, n, e)
  <1>1. Rests(ch, ds, t, d) /\ d # None BY RedirectFacts DEF TagOk
  <1>2. Position(n) /\ AtStart(n) BY BeginLoop
  <1>3. Within(ch, t, n.arg) BY <1>1 DEF Rests
  <1>4. ASSUME t \notin ds, NEW i \in DOMAIN Commands, NEW r \in RulesOf(t)
        PROVE  ch[Commands[i]][r] + Laid(n, i, r) = Copies(n.arg, r)
    <2>1. ch[Commands[i]][r] = Copies(d, r) BY <1>1, <1>4 DEF Rests
    <2>2. Laid(n, i, r) = 0 /\ Copies(d, r) \in Nat BY <1>2, LaidEnds, CopiesType
    <2> QED BY SMTT(60), <2>1, <2>2
  <1>5. Removes(ch, ds, t, n) BY <1>2, <1>3, <1>4 DEF Removes
  <1> QED BY <1>3, <1>5 DEF TagOk

\* A rule is removed.
LEMMA RemoveForward ==
    ASSUME NEW ch \in Chains, NEW ds, NEW t \in Tags, NEW k \in HopCalls, NEW d,
           TagOk(ch, ds, t, k, d), k.at = "remove", k.tag = t, ~Over(k),
           ch[RuleAt(k).cmd][RuleAt(k).rule] # 0
    PROVE  TagOk(Minus(ch, RuleAt(k).cmd, RuleAt(k).rule), ds, t, Forward(k), d)
  <1> DEFINE f == Forward(k)
             a == RuleAt(k).rule
             ch2 == Minus(ch, RuleAt(k).cmd, a)
  <1>1. Removes(ch, ds, t, k) /\ Position(k) BY DEF TagOk, Removes
  <1>2. f.at = "remove" /\ f.arg = k.arg /\ Position(f) BY <1>1, ForwardFacts
  <1>3. k.cmd \in DOMAIN Commands /\ RuleAt(k).cmd = Commands[k.cmd] /\ a \in RulesOf(t)
    BY <1>1, RuleFacts
  <1>4. \A j \in DOMAIN Commands, r \in RulesOf(t) :
           /\ ch[Commands[j]][r] \in Nat /\ ch2[Commands[j]][r] \in Nat
           /\ ch2[Commands[j]][r] = ch[Commands[j]][r] - IF j = k.cmd /\ r = a THEN 1 ELSE 0
    BY SMTT(60), <1>3, MinusFacts
  <1>5. \A j \in DOMAIN Commands, r \in RulesOf(t) :
           /\ Laid(k, j, r) \in Nat
           /\ Laid(f, j, r) = Laid(k, j, r) + IF j = k.cmd /\ r = a THEN 1 ELSE 0
    BY <1>1, LaidForward
  <1> HIDE DEF ch2, a, f
  <1>6. Fewer(ch, ch2, t) BY SMTT(60), <1>4 DEF Fewer
  <1>7. f.arg \in Redirects /\ Within(ch2, t, f.arg)
    BY <1>1, <1>2, <1>6, FewerWithin DEF Removes, Position
  <1>8. ASSUME t \notin ds, NEW i \in DOMAIN Commands, NEW r \in RulesOf(t)
        PROVE  ch2[Commands[i]][r] + Laid(f, i, r) = Copies(f.arg, r)
    <2>1. ch[Commands[i]][r] + Laid(k, i, r) = Copies(k.arg, r) BY <1>1, <1>8 DEF Removes
    <2>2. /\ ch[Commands[i]][r] \in Nat
          /\ ch2[Commands[i]][r] = ch[Commands[i]][r] - IF i = k.cmd /\ r = a THEN 1 ELSE 0
      BY <1>4
    <2>3. /\ Laid(k, i, r) \in Nat
          /\ Laid(f, i, r) = Laid(k, i, r) + IF i = k.cmd /\ r = a THEN 1 ELSE 0
      BY <1>5
    <2> QED BY SMTT(60), <2>1, <2>2, <2>3, <1>2
  <1>9. Removes(ch2, ds, t, f) BY <1>2, <1>7, <1>8 DEF Removes
  <1>10. TagOk(ch2, ds, t, f, d) BY <1>2, <1>7, <1>9 DEF TagOk
  <1> QED BY <1>10 DEF ch2, a, f

\* A rule cannot be removed: the tag is not clean any more.
LEMMA RemoveFails ==
    ASSUME NEW ch, NEW ds, NEW ds2, NEW t, NEW k \in HopCalls, NEW d,
           TagOk(ch, ds, t, k, d), k.at = "remove", ~Over(k), t \in ds2
    PROVE  TagOk(ch, ds2, t, [Forward(k) EXCEPT !.failed = TRUE], d)
  <1> DEFINE f == Forward(k)
             n == [f EXCEPT !.failed = TRUE]
  <1>1. Removes(ch, ds, t, k) /\ Position(k) BY DEF TagOk, Removes
  <1>2. Position(f) /\ f.at = "remove" /\ f.arg = k.arg /\ f \in HopCalls
    BY <1>1, ForwardFacts
  <1> HIDE DEF f
  <1>3. n.at = "remove" /\ n.arg = k.arg /\ n.cmd = f.cmd /\ n.done = f.done
    BY <1>2 DEF HopCalls
  <1> HIDE DEF n
  <1>4. Position(n) BY <1>2, <1>3 DEF Position, Over
  <1>5. Removes(ch, ds2, t, n) BY <1>1, <1>3, <1>4 DEF Removes
  <1>6. \E e \in Redirects : Within(ch, t, e) BY DEF TagOk
  <1>7. TagOk(ch, ds2, t, n, d) BY <1>3, <1>5, <1>6 DEF TagOk
  <1> QED BY <1>7 DEF n, f

\* Everything is removed.
LEMMA RemovesOver ==
    ASSUME NEW ch \in Chains, NEW ds, NEW t, NEW k, NEW d,
           TagOk(ch, ds, t, k, d), k.at = "remove", Over(k)
    PROVE  TagOk(ch, ds, t, Idle, None)
  <1>1. Removes(ch, ds, t, k) /\ Position(k) BY DEF TagOk, Removes
  <1>2. ASSUME t \notin ds, NEW i \in DOMAIN Commands, NEW r \in RulesOf(t)
        PROVE  ch[Commands[i]][r] = 0
    <2>1. ch[Commands[i]][r] + Laid(k, i, r) = Copies(k.arg, r) BY <1>1, <1>2 DEF Removes
    <2>2. Laid(k, i, r) = Copies(k.arg, r) /\ Laid(k, i, r) \in Nat BY <1>1, LaidEnds
    <2>3. ch[Commands[i]][r] \in Nat BY SMTT(60), CommandFacts DEF Chains, RulesOf
    <2> QED BY SMTT(60), <2>1, <2>2, <2>3
  <1>3. Rests(ch, ds, t, None) BY <1>2 DEF Rests
  <1>4. \E e \in Redirects : Within(ch, t, e) BY DEF TagOk
  <1> QED BY <1>3, <1>4 DEF TagOk, Idle

-----------------------------------------------------------------------------
(* The steps                                                                *)

\* Calls that begin or have ended are calls.
LEMMA CallTypes ==
    /\ Idle \in HopCalls /\ NoRules \in [Rules -> Nat]
    /\ \A stage \in Stages, t \in Tags, d \in Redirects : LoopOver(stage, t, d) \in HopCalls
  <1>1. NoRules \in [Rules -> Nat] BY DEF NoRules
  <1>2. Idle \in HopCalls BY <1>1 DEF Idle, HopCalls, Stages
  <1>3. ASSUME NEW stage \in Stages, NEW t \in Tags, NEW d \in Redirects
        PROVE  LoopOver(stage, t, d) \in HopCalls
    <2>1. \A k \in HopCalls :
             [k EXCEPT !.at = stage, !.tag = t, !.arg = d, !.cmd = 1] \in HopCalls
      BY DEF HopCalls
    <2> QED BY <2>1, <1>2 DEF LoopOver
  <1> QED BY <1>1, <1>2, <1>3

\* A tag with a call of its own is not in the shutdown's hands, and no tag is before
\* the shutdown.
LEMMA NotInShutdown ==
    ASSUME HopInv, NEW t \in Tags, call[t].at # "idle" \/ running = "up"
    PROVE  call[Main].tag # t /\ t \notin call[Main].tags /\ Work(call, t) = call[t]
  <1>1. CASE call[t].at # "idle"
    <2>1. call[t] # Idle BY SMTT(60), <1>1 DEF Idle
    <2> QED BY <2>1 DEF HopInv, Control, Work
  <1>2. CASE running = "up"
    <2>1. call[Main] = Idle BY <1>2 DEF HopInv, Control
    <2>2. call[Main].tag = None /\ call[Main].tags = {} BY SMTT(60), <2>1 DEF Idle
    <2> QED BY <2>2, TagFacts DEF Work
  <1> QED BY <1>1, <1>2

\* The record of a tag, and the call that works on it, have their types.
LEMMA WorkTypes ==
    ASSUME HopInv, NEW t \in Tags
    PROVE  /\ call[t] \in HopCalls /\ call[Main] \in HopCalls
           /\ Work(call, t) \in HopCalls
           /\ applied[t] \in Redirects \union {None}
           /\ TagOk(chain, dirty, t, Work(call, t), applied[t])
  BY DEF HopInv, HopTypes, Work, Procs

\* A step of the goroutine of a tag keeps the invariant if it leaves the other tags
\* alone and the rules of its own as they have to be.
LEMMA OwnStep ==
    ASSUME HopInv, NEW t \in Tags, NEW n \in HopCalls,
           call[Main].tag # t, t \notin call[Main].tags,
           call' = [call EXCEPT ![t] = n],
           running' = running,
           chain' \in Chains, \A u \in Tags : u # t => Same(chain, chain', u),
           dirty' \in SUBSET Tags, \A u \in dirty : u # t => u \in dirty',
           applied' \in [Tags -> Redirects \union {None}],
           \A u \in Tags : u # t => applied'[u] = applied[u],
           n.at = "idle" => n = Idle,
           n.at # "idle" => n.tag = t /\ n.arg \in Redirects /\ applied'[t] = None,
           \A u \in up : u # t => u \in up', applied'[t] # None => t \in up',
           TagOk(chain', dirty', t, n, applied'[t])
    PROVE  HopInv'
  <1>1. call \in [Procs -> HopCalls] /\ t \in Procs /\ t # Main /\ Main \in Procs
    BY TagFacts DEF HopInv, HopTypes, Procs
  <1>2. /\ call' \in [Procs -> HopCalls] /\ call'[t] = n /\ call'[Main] = call[Main]
        /\ \A u \in Tags : u # t => call'[u] = call[u]
    BY <1>1 DEF Procs
  <1>3. HopTypes' BY <1>2 DEF HopTypes
  <1>4. Control'
    <2>1. \A u \in Tags :
             /\ call'[u].at = "idle" => call'[u] = Idle
             /\ call'[u].at # "idle" =>
                   call'[u].tag = u /\ call'[u].arg \in Redirects /\ applied'[u] = None
             /\ applied'[u] # None => u \in up'
      BY SMTT(60), <1>2 DEF HopInv, Control
    <2>2. \A u \in call[Main].tags : u \in Tags BY <1>1 DEF HopCalls
    <2>3. \A u \in call[Main].tags : call'[u] = Idle BY <1>2, <2>2 DEF HopInv, Control
    <2>4. \A u \in Tags : call[Main].tag = u =>
             call'[u] = Idle /\ applied'[u] = None /\ call[Main].arg \in Redirects
             /\ u \notin call[Main].tags
      BY SMTT(60), <1>2 DEF HopInv, Control
    <2>5. /\ call[Main].at \in {"idle", "remove"}
          /\ call[Main].at = "idle" => call[Main] = Idle
          /\ call[Main].at = "remove" => running' = "closing"
      BY DEF HopInv, Control
    <2> QED BY <1>2, <2>1, <2>3, <2>4, <2>5 DEF Control
  <1>5. ASSUME NEW u \in Tags
        PROVE  TagOk(chain', dirty', u, Work(call', u), applied'[u])
    <2>1. CASE u = t
      <3>1. Work(call', u) = n BY <2>1, <1>2 DEF Work
      <3> QED BY <3>1, <2>1
    <2>2. CASE u # t
      <3>1. Work(call', u) = Work(call, u) BY <2>2, <1>2 DEF Work
      <3>2. TagOk(chain, dirty, u, Work(call, u), applied[u]) BY WorkTypes
      <3>3. Same(chain, chain', u) /\ (u \in dirty => u \in dirty') BY <2>2
      <3>4. TagOk(chain', dirty', u, Work(call, u), applied[u]) BY <3>2, <3>3, Frame
      <3> QED BY <3>1, <3>4, <2>2
    <2> QED BY <2>1, <2>2
  <1> QED BY <1>3, <1>4, <1>5 DEF HopInv

\* A step of the shutdown keeps the invariant on the same conditions.
LEMMA MainStep ==
    ASSUME HopInv, NEW n \in HopCalls,
           call' = [call EXCEPT ![Main] = n], up' = up,
           n.at \in {"idle", "remove"},
           n.at = "idle" => n = Idle,
           n.at = "remove" => running' = "closing",
           \A u \in n.tags : call[u] = Idle,
           \A u \in Tags : n.tag = u =>
               call[u] = Idle /\ applied'[u] = None /\ n.arg \in Redirects /\ u \notin n.tags,
           chain' \in Chains, dirty' \in SUBSET Tags,
           applied' \in [Tags -> Redirects \union {None}],
           \A u \in Tags : applied'[u] = applied[u] \/ applied'[u] = None,
           \A u \in Tags :
               TagOk(chain', dirty', u, IF n.tag = u THEN n ELSE call[u], applied'[u])
    PROVE  HopInv'
  <1>1. call \in [Procs -> HopCalls] /\ Main \in Procs BY DEF HopInv, HopTypes, Procs
  <1>2. /\ call' \in [Procs -> HopCalls] /\ call'[Main] = n
        /\ \A u \in Tags : call'[u] = call[u]
    BY <1>1, TagFacts DEF Procs
  <1>3. HopTypes' BY <1>2 DEF HopTypes
  <1>4. Control'
    <2>1. \A u \in Tags :
             /\ call'[u].at = "idle" => call'[u] = Idle
             /\ call'[u].at # "idle" =>
                   call'[u].tag = u /\ call'[u].arg \in Redirects /\ applied'[u] = None
             /\ applied'[u] # None => u \in up'
      BY SMTT(60), <1>2 DEF HopInv, Control
    <2>2. \A u \in n.tags : u \in Tags /\ call'[u] = Idle BY <1>2 DEF HopCalls
    <2>3. \A u \in Tags : n.tag = u =>
             call'[u] = Idle /\ applied'[u] = None /\ n.arg \in Redirects /\ u \notin n.tags
      BY <1>2
    <2> QED BY <1>2, <2>1, <2>2, <2>3 DEF Control
  <1>5. ASSUME NEW u \in Tags
        PROVE  TagOk(chain', dirty', u, Work(call', u), applied'[u])
    <2>1. Work(call', u) = IF n.tag = u THEN n ELSE call[u] BY <1>2 DEF Work
    <2> QED BY <2>1
  <1> QED BY <1>3, <1>4, <1>5 DEF HopInv

\* What is unchanged stays as it has to be.
LEMMA HopUnchanged ==
    ASSUME HopInv, UNCHANGED <<chain, applied, call, running, dirty>>,
           \A u \in up : u \in up'
    PROVE  HopInv'
  BY DEF HopInv, HopTypes, Control

\* A chain that is not touched is the same.
LEMMA SameChain == \A ch, u : Same(ch, ch, u)
  BY DEF Same

\* A deletion succeeds, or leaves a rule behind.
LEMMA DeleteCases ==
    ASSUME NEW p, NEW c, NEW a, NEW ok, NEW bad, DeleteStep(p, c, a, ok, bad)
    PROVE  \/ /\ chain[c][a] # 0 /\ chain' = Minus(chain, c, a)
              /\ call' = [call EXCEPT ![p] = ok] /\ dirty' = dirty
           \/ /\ chain' = chain /\ dirty' = dirty \union {a.tag}
              /\ call' = [call EXCEPT ![p] = bad]
  BY DEF DeleteStep, DeleteFails, Delete, Minus

\* AddNode begins to apply the redirect of a node.
LEMMA BeginApplyKeeps ==
    ASSUME HopInv, NEW t \in Tags, NEW e \in Redirects, BeginApply(t, e)
    PROVE  HopInv' /\ Same(chain, chain', None)
  <1> DEFINE n == [LoopOver("stale", t, e) EXCEPT !.cmd = 0]
  <1>1. /\ call[Main].tag # t /\ t \notin call[Main].tags
        /\ TagOk(chain, dirty, t, call[t], applied[t])
    BY NotInShutdown, WorkTypes DEF BeginApply
  <1> call[t].at = "idle" /\ applied[t] = None BY DEF BeginApply, HopInv, Control, Idle
  <1>2. LoopOver("stale", t, e) \in HopCalls BY CallTypes DEF Stages
  <1>3. n \in HopCalls BY <1>2 DEF HopCalls
  <1>4. n.at = "stale" /\ n.tag = t /\ n.arg = e BY DEF LoopOver, Idle
  <1>5. TagOk(chain, dirty, t, n, None) BY <1>1, BeginCleans
  <1> HIDE DEF n
  <1>6. /\ call' = [call EXCEPT ![t] = n] /\ running' = running /\ chain' = chain
        /\ up' = up /\ dirty' = dirty /\ applied' = [applied EXCEPT ![t] = None]
    BY DEF BeginApply, n
  <1>7. /\ applied' \in [Tags -> Redirects \union {None}] /\ applied'[t] = None
        /\ \A u \in Tags : u # t => applied'[u] = applied[u]
    BY <1>6 DEF HopInv, HopTypes
  <1>8. chain' \in Chains /\ dirty' \in SUBSET Tags BY <1>6 DEF HopInv, HopTypes
  <1>9. TagOk(chain', dirty', t, n, applied'[t]) BY <1>5, <1>6, <1>7
  <1>10. \A u : Same(chain, chain', u) BY <1>6, SameChain
  <1>11. HopInv' BY <1>1, <1>3, <1>4, <1>6, <1>7, <1>8, <1>9, <1>10, OwnStep
  <1> QED BY <1>10, <1>11

\* The next chain is read, or cannot be.
LEMMA ReadChainKeeps ==
    ASSUME HopInv, NEW t \in Tags, ReadChain(t)
    PROVE  HopInv' /\ Same(chain, chain', None)
  <1> DEFINE k == call[t]
             l == Deletes(Commands[k.cmd + 1], t)
             n1 == [k EXCEPT !.cmd = k.cmd + 1, !.listed = l]
             n2 == [k EXCEPT !.cmd = k.cmd + 1, !.failed = TRUE]
  <1>1. /\ k.at = "stale" /\ k.listed = NoRules /\ k.cmd < Len(Commands)
        /\ k \in HopCalls /\ k.cmd \in Nat
    BY WorkTypes DEF ReadChain, HopCalls
  <1>2. call[Main].tag # t /\ t \notin call[Main].tags /\ Work(call, t) = k
    BY <1>1, NotInShutdown
  <1>3. TagOk(chain, dirty, t, k, applied[t]) BY <1>2, WorkTypes
  <1>4. k.tag = t /\ k.arg \in Redirects /\ applied[t] = None
    BY <1>1 DEF HopInv, Control
  <1>5. /\ chain' = chain /\ applied' = applied /\ running' = running /\ dirty' = dirty
        /\ up' = up
        /\ call' = [call EXCEPT ![t] = n1] \/ call' = [call EXCEPT ![t] = n2]
    BY <1>1 DEF ReadChain, HopCalls
  <1>6. chain \in Chains /\ dirty \in SUBSET Tags
        /\ applied \in [Tags -> Redirects \union {None}]
    BY DEF HopInv, HopTypes
  <1>7. \A u : Same(chain, chain', u) BY <1>5, SameChain
  <1>8. l \in [Rules -> Nat] /\ \A r \in Rules :
           l[r] = IF r.tag = t THEN chain[Commands[k.cmd + 1]][r] ELSE 0
    <2>1. k.cmd + 1 \in DOMAIN Commands BY SMTT(60), <1>1, CommandFacts
    <2>2. chain[Commands[k.cmd + 1]] \in [Rules -> Nat] BY <2>1, <1>6, CommandFacts DEF Chains
    <2> QED BY SMTT(60), <2>2 DEF Deletes, staleRules
  <1>9. CASE call' = [call EXCEPT ![t] = n1]
    <2>1. TagOk(chain, dirty, t, n1, applied[t]) BY <1>1, <1>3, <1>6, <1>8, ReadCleans
    <2>2. n1 \in HopCalls
      <3>1. k \in HopCalls /\ k.cmd + 1 \in Nat /\ l \in [Rules -> Nat] BY SMTT(60), <1>1, <1>8
      <3> HIDE DEF k, l
      <3> QED BY <3>1, ReadType
    <2>3. n1.at = "stale" /\ n1.tag = t /\ n1.arg \in Redirects BY <1>1, <1>4 DEF HopCalls
    <2> HIDE DEF n1, k
    <2>4. HopInv' BY <2>1, <2>2, <2>3, <1>2, <1>4, <1>5, <1>6, <1>7, <1>9, OwnStep
    <2> QED BY <2>4, <1>7
  <1>10. CASE call' = [call EXCEPT ![t] = n2]
    <2>1. /\ n2.at = "stale" /\ n2.tag = t /\ n2.arg \in Redirects
          /\ n2.cmd = k.cmd + 1 /\ n2.failed = TRUE /\ n2.listed = NoRules
      BY <1>1, <1>4 DEF HopCalls
    <2> n2 \in HopCalls
      <3>1. k \in HopCalls /\ k.cmd + 1 \in Nat /\ l \in [Rules -> Nat] BY SMTT(60), <1>1, <1>8
      <3> HIDE DEF k, l
      <3> QED BY <3>1, ReadType
    <2>2. n2.cmd \in 0 .. Len(Commands) BY SMTT(60), <2>1, <1>1, CommandFacts
    <2>3. \A r \in Rules : n2.listed[r] = 0 BY <2>1 DEF NoRules
    <2>4. (t \notin dirty => Gone(chain, t)) /\ \E e \in Redirects : Within(chain, t, e)
      BY <1>1, <1>3 DEF TagOk, Cleans
    <2> HIDE DEF n2, k
    <2>5. TagOk(chain, dirty, t, n2, applied[t]) BY SMTT(60), <2>1, <2>2, <2>3, <2>4, FailedCleans
    <2>6. HopInv' BY <2>1, <2>5, <1>2, <1>4, <1>5, <1>6, <1>7, <1>10, OwnStep
    <2> QED BY <2>6, <1>7
  <1> QED BY <1>5, <1>9, <1>10

\* A stale rule is deleted, or not.
LEMMA DeleteStaleKeeps ==
    ASSUME HopInv, NEW t \in Tags, NEW a \in Rules, DeleteStale(t, a)
    PROVE  HopInv' /\ Same(chain, chain', None)
  <1> DEFINE k == call[t]
             c == Commands[k.cmd]
             n1 == [k EXCEPT !.listed[a] = @ - 1]
             n2 == [n1 EXCEPT !.failed = TRUE]
  <1>1. /\ k.at = "stale" /\ k.listed[a] > 0 /\ k \in HopCalls
        /\ k.listed \in [Rules -> Nat] /\ k.cmd \in Nat
    BY WorkTypes DEF DeleteStale, HopCalls
  <1>2. call[Main].tag # t /\ t \notin call[Main].tags /\ Work(call, t) = k
    BY <1>1, NotInShutdown
  <1>3. TagOk(chain, dirty, t, k, applied[t]) BY <1>2, WorkTypes
  <1>4. k.tag = t /\ k.arg \in Redirects /\ applied[t] = None
    BY <1>1 DEF HopInv, Control
  <1>5. applied' = applied /\ running' = running /\ up' = up /\ DeleteStep(t, c, a, n1, n2)
    BY DEF DeleteStale
  <1>6. chain \in Chains /\ dirty \in SUBSET Tags
        /\ applied \in [Tags -> Redirects \union {None}]
    BY DEF HopInv, HopTypes
  <1>7. Cleans(chain, dirty, t, k) BY <1>1, <1>3 DEF TagOk
  <1>8. k.cmd \in DOMAIN Commands /\ a \in RulesOf(t) /\ a.tag = t
    BY SMTT(60), <1>1, <1>7, CommandFacts DEF Cleans, RulesOf
  <1>9. k.listed[a] - 1 \in Nat BY SMTT(60), <1>1
  <1>10. /\ n1 \in HopCalls /\ n1.at = "stale" /\ n1.tag = t /\ n1.arg = k.arg
         /\ n1.cmd = k.cmd /\ n1.listed = [k.listed EXCEPT ![a] = k.listed[a] - 1]
    BY <1>1, <1>4, <1>9 DEF HopCalls
  <1> HIDE DEF n1
  <1>11. CASE /\ chain[c][a] # 0 /\ chain' = Minus(chain, c, a)
              /\ call' = [call EXCEPT ![t] = n1] /\ dirty' = dirty
    <2>1. TagOk(chain', dirty, t, n1, applied[t])
      BY <1>1, <1>3, <1>6, <1>11, DeleteCleans DEF n1
    <2>2. chain' \in Chains /\ \A u : u # t => Same(chain, chain', u)
      BY SMTT(60), <1>6, <1>8, <1>11, MinusFacts
    <2> HIDE DEF k
    <2>3. HopInv' BY <2>1, <2>2, <1>2, <1>4, <1>5, <1>6, <1>10, <1>11, OwnStep
    <2> QED BY <2>2, <2>3, TagFacts
  <1>12. CASE /\ chain' = chain /\ dirty' = dirty \union {a.tag}
              /\ call' = [call EXCEPT ![t] = n2]
    <2>1. \A r \in Rules : n1.listed[r] > 0 => k.listed[r] > 0 BY <1>1, <1>10
    <2>2. /\ n2 \in HopCalls /\ n2.at = "stale" /\ n2.tag = t /\ n2.arg = k.arg
          /\ n2.cmd = k.cmd /\ n2.listed = n1.listed /\ n2.failed = TRUE
      BY <1>10 DEF HopCalls
    <2>3. \E e \in Redirects : Within(chain, t, e) BY <1>3 DEF TagOk
    <2>4. n2.cmd \in 0 .. Len(Commands) BY <1>7, <2>2 DEF Cleans
    <2>5. \A r \in Rules : n2.listed[r] > 0 => r.tag = t /\ n2.cmd > 0
      BY <1>7, <2>1, <2>2 DEF Cleans
    <2> HIDE DEF n2, k
    <2>6. TagOk(chain', dirty', t, n2, applied[t])
      BY <2>2, <2>3, <2>4, <2>5, <1>8, <1>12, FailedCleans
    <2>7. \A u : Same(chain, chain', u) BY <1>12, SameChain
    <2>8. dirty' \in SUBSET Tags /\ \A u \in dirty : u \in dirty' BY <1>6, <1>8, <1>12
    <2>9. HopInv' BY <2>2, <2>6, <2>7, <2>8, <1>2, <1>4, <1>5, <1>6, <1>12, OwnStep
    <2> QED BY <2>7, <2>9
  <1> QED BY SMTT(60), <1>5, <1>11, <1>12, DeleteCases

\* The cleanup ends, with an error or with nothing left of the tag.
LEMMA StaleDoneKeeps ==
    ASSUME HopInv, NEW t \in Tags, StaleDone(t)
    PROVE  HopInv' /\ Same(chain, chain', None)
  <1> DEFINE k == call[t]
             n == LoopOver("add", t, k.arg)
  <1>1. k.at = "stale" /\ k.listed = NoRules /\ k.cmd = Len(Commands) /\ k \in HopCalls
    BY WorkTypes DEF StaleDone
  <1>2. call[Main].tag # t /\ t \notin call[Main].tags /\ Work(call, t) = k
    BY <1>1, NotInShutdown
  <1>3. TagOk(chain, dirty, t, k, applied[t]) BY <1>2, WorkTypes
  <1>4. k.tag = t /\ k.arg \in Redirects /\ applied[t] = None
    BY <1>1 DEF HopInv, Control
  <1>5. chain \in Chains /\ dirty \in SUBSET Tags
        /\ applied \in [Tags -> Redirects \union {None}]
    BY DEF HopInv, HopTypes
  <1>6. chain' = chain /\ applied' = applied /\ running' = running /\ up' = up BY DEF StaleDone
  <1>7. \A u : Same(chain, chain', u) BY <1>6, SameChain
  <1>8. CASE k.failed
    <2>1. call' = [call EXCEPT ![t] = Idle] /\ dirty' = dirty
      BY <1>8 DEF StaleDone, StaleFailed
    <2>2. TagOk(chain, dirty, t, Idle, None)
      <3>1. t \notin dirty => Gone(chain, t) BY <1>1, <1>3 DEF TagOk, Cleans
      <3>2. Rests(chain, dirty, t, None) BY <3>1 DEF Rests, Gone
      <3> QED BY <3>2, <1>3 DEF TagOk, Idle
    <2>3. Idle \in HopCalls /\ Idle.at = "idle" BY CallTypes DEF Idle
    <2> QED BY <2>1, <2>2, <2>3, <1>2, <1>4, <1>5, <1>6, <1>7, OwnStep
  <1>9. CASE ~k.failed
    <2>1. call' = [call EXCEPT ![t] = n] /\ dirty' = dirty \ {t}
      BY <1>9 DEF StaleDone, StaleFailed
    <2>2. Gone(chain, t) BY <1>1, <1>3, <1>5, <1>9, CleanedTag
    <2>3. n.at = "add" /\ n.tag = t /\ n.arg = k.arg /\ n.cmd = 1 /\ n.done = 0
      BY DEF LoopOver, Idle
    <2>4. n \in HopCalls BY <1>4, CallTypes DEF Stages
    <2> HIDE DEF n, k
    <2>5. TagOk(chain, dirty', t, n, None) BY <2>2, <2>3, <1>4, BeginAdds
    <2>6. dirty' \in SUBSET Tags /\ \A u \in dirty : u # t => u \in dirty' BY <2>1, <1>5
    <2>7. HopInv' BY <2>1, <2>3, <2>4, <2>5, <2>6, <1>2, <1>4, <1>5, <1>6, <1>7, OwnStep
    <2> QED BY <2>7, <1>7
  <1> QED BY <1>8, <1>9

\* A rule is added, or not.
LEMMA AddRuleKeeps ==
    ASSUME HopInv, NEW t \in Tags, AddRule(t)
    PROVE  HopInv' /\ Same(chain, chain', None)
  <1> DEFINE k == call[t]
             a == RuleAt(k)
             n == [k EXCEPT !.at = "rollback"]
  <1>1. k.at = "add" /\ ~Over(k) /\ k \in HopCalls BY WorkTypes DEF AddRule
  <1>2. call[Main].tag # t /\ t \notin call[Main].tags /\ Work(call, t) = k
    BY <1>1, NotInShutdown
  <1>3. TagOk(chain, dirty, t, k, applied[t]) BY <1>2, WorkTypes
  <1>4. k.tag = t /\ k.arg \in Redirects /\ applied[t] = None
    BY <1>1 DEF HopInv, Control
  <1>5. chain \in Chains /\ dirty \in SUBSET Tags
        /\ applied \in [Tags -> Redirects \union {None}]
    BY DEF HopInv, HopTypes
  <1>6. /\ applied' = applied /\ running' = running /\ up' = up /\ dirty' = dirty
        /\ \/ chain' = Plus(chain, a.cmd, a.rule) /\ call' = [call EXCEPT ![t] = Forward(k)]
           \/ chain' = chain /\ call' = [call EXCEPT ![t] = n]
    <2>1. call \in [Procs -> HopCalls] /\ t \in Procs BY TagFacts DEF HopInv, HopTypes
    <2>2. [call EXCEPT ![t].at = "rollback"] = [call EXCEPT ![t] = n] BY <2>1
    <2> QED BY <2>2 DEF AddRule, Plus
  <1>7. Position(k) BY <1>1, <1>3 DEF TagOk, Adds
  <1>8. CASE chain' = Plus(chain, a.cmd, a.rule) /\ call' = [call EXCEPT ![t] = Forward(k)]
    <2>1. TagOk(chain', dirty, t, Forward(k), applied[t])
      BY <1>1, <1>3, <1>4, <1>5, <1>8, AddForward
    <2>2. /\ Forward(k) \in HopCalls /\ Forward(k).at = "add" /\ Forward(k).tag = t
          /\ Forward(k).arg \in Redirects
      BY <1>1, <1>4, <1>7, ForwardFacts
    <2>3. k.cmd \in DOMAIN Commands /\ a.cmd = Commands[k.cmd] /\ a.rule \in RulesOf(t)
      BY <1>1, <1>4, <1>7, RuleFacts
    <2>4. chain' \in Chains /\ \A u : u # t => Same(chain, chain', u)
      BY SMTT(60), <2>3, <1>5, <1>8, PlusFacts
    <2> HIDE DEF k, a
    <2>5. HopInv' BY <2>1, <2>2, <2>4, <1>2, <1>4, <1>5, <1>6, <1>8, OwnStep
    <2> QED BY <2>4, <2>5, TagFacts
  <1>9. CASE chain' = chain /\ call' = [call EXCEPT ![t] = n]
    <2>1. TagOk(chain, dirty, t, n, applied[t]) BY <1>1, <1>3, <1>5, AddFails
    <2>2. n \in HopCalls /\ n.at = "rollback" /\ n.tag = t /\ n.arg \in Redirects
      BY <1>1, <1>4 DEF HopCalls, Stages
    <2>3. \A u : Same(chain, chain', u) BY <1>9, SameChain
    <2> HIDE DEF k, n
    <2>4. HopInv' BY <2>1, <2>2, <2>3, <1>2, <1>4, <1>5, <1>6, <1>9, OwnStep
    <2> QED BY <2>3, <2>4
  <1> QED BY <1>6, <1>8, <1>9

\* A rule is rolled back, or not, or there is none left to roll back.
LEMMA RollBackKeeps ==
    ASSUME HopInv, NEW t \in Tags, RollBack(t)
    PROVE  HopInv' /\ Same(chain, chain', None)
  <1> DEFINE k == call[t]
             b == Back(k)
             a == RuleAt(b)
  <1>1. k.at = "rollback" /\ k \in HopCalls BY WorkTypes DEF RollBack
  <1>2. call[Main].tag # t /\ t \notin call[Main].tags /\ Work(call, t) = k
    BY <1>1, NotInShutdown
  <1>3. TagOk(chain, dirty, t, k, applied[t]) BY <1>2, WorkTypes
  <1>4. k.tag = t /\ k.arg \in Redirects /\ applied[t] = None
    BY <1>1 DEF HopInv, Control
  <1>5. chain \in Chains /\ dirty \in SUBSET Tags
        /\ applied \in [Tags -> Redirects \union {None}]
    BY DEF HopInv, HopTypes
  <1>6. applied' = applied /\ running' = running /\ up' = up BY DEF RollBack
  <1>7. Position(k) BY <1>1, <1>3 DEF TagOk, RollsBack
  <1>8. CASE AtStart(k)
    <2>1. call' = [call EXCEPT ![t] = Idle] /\ chain' = chain /\ dirty' = dirty
      BY <1>8 DEF RollBack
    <2>2. TagOk(chain, dirty, t, Idle, None) BY SMTT(60), <1>1, <1>3, <1>8, RollsOver
    <2>3. Idle \in HopCalls /\ Idle.at = "idle" BY CallTypes DEF Idle
    <2>4. \A u : Same(chain, chain', u) BY <2>1, SameChain
    <2>5. HopInv' BY <2>1, <2>2, <2>3, <2>4, <1>2, <1>4, <1>5, <1>6, OwnStep
    <2> QED BY <2>4, <2>5
  <1>9. CASE ~AtStart(k)
    <2>1. DeleteStep(t, a.cmd, a.rule, b, b) BY <1>9 DEF RollBack
    <2>2. /\ b \in HopCalls /\ b.at = "rollback" /\ b.tag = t /\ b.arg \in Redirects
          /\ Position(b) /\ ~Over(b)
      BY <1>1, <1>4, <1>7, <1>9, BackFacts
    <2>3. b.cmd \in DOMAIN Commands /\ a.cmd = Commands[b.cmd] /\ a.rule \in RulesOf(t)
      BY <2>2, RuleFacts
    <2>4. CASE /\ chain[a.cmd][a.rule] # 0 /\ chain' = Minus(chain, a.cmd, a.rule)
               /\ call' = [call EXCEPT ![t] = b] /\ dirty' = dirty
      <3>1. TagOk(chain', dirty, t, b, applied[t])
        BY <2>4, <1>1, <1>3, <1>4, <1>5, <1>9, RollBackward
      <3> HIDE DEF k, b, a
      <3>2. chain' \in Chains /\ \A u : u # t => Same(chain, chain', u)
        BY SMTT(60), <2>3, <2>4, <1>5, MinusFacts
      <3>3. HopInv' BY <3>1, <3>2, <2>2, <2>4, <1>2, <1>4, <1>5, <1>6, OwnStep
      <3> QED BY <3>2, <3>3, TagFacts
    <2>5. CASE /\ chain' = chain /\ dirty' = dirty \union {a.rule.tag}
               /\ call' = [call EXCEPT ![t] = b]
      <3>1. a.rule.tag = t BY <2>3 DEF RulesOf
      <3>2. t \in dirty' /\ dirty' \in SUBSET Tags /\ \A u \in dirty : u \in dirty'
        BY <3>1, <2>5, <1>5
      <3>3. TagOk(chain, dirty', t, b, applied[t]) BY <3>2, <1>1, <1>3, <1>9, RollFails
      <3>4. \A u : Same(chain, chain', u) BY <2>5, SameChain
      <3> HIDE DEF k, b, a
      <3>5. HopInv' BY <3>2, <3>3, <3>4, <2>2, <2>5, <1>2, <1>4, <1>5, <1>6, OwnStep
      <3> QED BY <3>4, <3>5
    <2> HIDE DEF b, a
    <2> QED BY <2>1, <2>4, <2>5, DeleteCases
  <1> QED BY <1>8, <1>9

\* Apply ends: the redirect is recorded.
LEMMA EndApplyKeeps ==
    ASSUME HopInv, NEW t \in Tags, EndApply(t)
    PROVE  HopInv' /\ Same(chain, chain', None)
  <1> DEFINE k == call[t]
  <1>1. k.at = "add" /\ Over(k) /\ k \in HopCalls BY WorkTypes DEF EndApply
  <1>2. call[Main].tag # t /\ t \notin call[Main].tags /\ Work(call, t) = k
    BY <1>1, NotInShutdown
  <1>3. TagOk(chain, dirty, t, k, applied[t]) BY <1>2, WorkTypes
  <1>4. chain \in Chains /\ dirty \in SUBSET Tags
        /\ applied \in [Tags -> Redirects \union {None}]
    BY DEF HopInv, HopTypes
  <1>5. /\ call' = [call EXCEPT ![t] = Idle] /\ chain' = chain /\ dirty' = dirty
        /\ running' = running /\ up' = up \union {t} /\ applied' = [applied EXCEPT ![t] = k.arg]
    BY DEF EndApply, RecordApplied
  <1>6. k.arg \in Redirects /\ TagOk(chain, dirty, t, Idle, k.arg) BY <1>1, <1>3, <1>4, AddsOver
  <1> HIDE DEF k
  <1>7. /\ applied' \in [Tags -> Redirects \union {None}] /\ applied'[t] = k.arg
        /\ \A u \in Tags : u # t => applied'[u] = applied[u]
    BY <1>4, <1>5, <1>6
  <1>8. Idle \in HopCalls /\ Idle.at = "idle" BY CallTypes DEF Idle
  <1>9. \A u : Same(chain, chain', u) BY <1>5, SameChain
  <1>10. HopInv' BY <1>2, <1>4, <1>5, <1>6, <1>7, <1>8, <1>9, OwnStep
  <1> QED BY <1>9, <1>10

\* A node goes: its record is taken, and its removal begins.
LEMMA BeginRemoveKeeps ==
    ASSUME HopInv, NEW t \in Tags, BeginRemove(t)
    PROVE  HopInv' /\ Same(chain, chain', None)
  <1> DEFINE n == IF applied[t] = None THEN Idle ELSE LoopOver("remove", t, applied[t])
  <1>1. /\ call[Main].tag # t /\ t \notin call[Main].tags
        /\ TagOk(chain, dirty, t, call[t], applied[t])
    BY NotInShutdown, WorkTypes DEF BeginRemove
  <1>2. call[t].at = "idle" BY SMTT(60) DEF BeginRemove, Idle
  <1>3. /\ chain \in Chains /\ dirty \in SUBSET Tags
        /\ applied \in [Tags -> Redirects \union {None}]
    BY DEF HopInv, HopTypes
  <1>4. /\ call' = [call EXCEPT ![t] = n] /\ running' = running /\ chain' = chain
        /\ up' = up \ {t} /\ dirty' = dirty /\ applied' = [applied EXCEPT ![t] = None]
    BY DEF BeginRemove, Take
  <1>5. /\ n \in HopCalls /\ (n.at = "idle" => n = Idle)
        /\ (n.at # "idle" => n.tag = t /\ n.arg \in Redirects)
        /\ TagOk(chain, dirty, t, n, None)
    <2>1. CASE applied[t] = None
      <3>1. n = Idle /\ n \in HopCalls /\ n.at = "idle" BY <2>1, CallTypes DEF Idle
      <3>2. TagOk(chain, dirty, t, n, None) BY <3>1, <2>1, <1>1, <1>2 DEF TagOk
      <3> QED BY <3>1, <3>2
    <2>2. CASE applied[t] # None
      <3>1. applied[t] \in Redirects BY <2>2, <1>3
      <3>2. n = LoopOver("remove", t, applied[t]) BY <2>2
      <3>3. n \in HopCalls BY <3>1, <3>2, CallTypes DEF Stages
      <3>4. n.at = "remove" /\ n.tag = t /\ n.arg = applied[t] /\ n.cmd = 1 /\ n.done = 0
        BY <3>2 DEF LoopOver, Idle
      <3> HIDE DEF n
      <3>5. TagOk(chain, dirty, t, n, None) BY <3>1, <3>4, <1>1, <1>2, <1>3, BeginRemoves
      <3> QED BY <3>1, <3>3, <3>4, <3>5
    <2> QED BY <2>1, <2>2
  <1> HIDE DEF n
  <1>6. /\ applied' \in [Tags -> Redirects \union {None}] /\ applied'[t] = None
        /\ \A u \in Tags : u # t => applied'[u] = applied[u]
    BY <1>3, <1>4
  <1>7. \A u : Same(chain, chain', u) BY <1>4, SameChain
  <1>8. HopInv' BY <1>1, <1>3, <1>4, <1>5, <1>6, <1>7, OwnStep
  <1> QED BY <1>7, <1>8

\* What a deletion of the loop that removes does to the rules of its tag, whoever runs it.
LEMMA RemoveOne ==
    ASSUME HopInv, NEW p \in Procs, NEW t \in Tags, RemoveRule(p), call[p].tag = t,
           Work(call, t) = call[p]
    PROVE  /\ chain' \in Chains /\ dirty' \in SUBSET Tags
           /\ \A u : u # t => Same(chain, chain', u)
           /\ dirty \subseteq dirty' /\ dirty' \subseteq dirty \union {t}
           /\ \E n \in HopCalls :
                 /\ call' = [call EXCEPT ![p] = n]
                 /\ n.at = "remove" /\ n.tag = t /\ n.arg = call[p].arg
                 /\ n.tags = call[p].tags
                 /\ TagOk(chain', dirty', t, n, applied[t])
  <1> DEFINE k == call[p]
             a == RuleAt(k)
             n1 == Forward(k)
             n2 == [n1 EXCEPT !.failed = TRUE]
  <1>1. k.at = "remove" /\ ~Over(k) /\ k \in HopCalls BY DEF RemoveRule, HopInv, HopTypes
  <1>2. TagOk(chain, dirty, t, k, applied[t]) BY WorkTypes
  <1>3. chain \in Chains /\ dirty \in SUBSET Tags BY DEF HopInv, HopTypes
  <1>4. Position(k) BY <1>1, <1>2 DEF TagOk, Removes
  <1>5. DeleteStep(p, a.cmd, a.rule, n1, n2) BY DEF RemoveRule
  <1>6. k.cmd \in DOMAIN Commands /\ a.cmd = Commands[k.cmd] /\ a.rule \in RulesOf(t)
    BY <1>1, <1>4, RuleFacts
  <1>7. /\ n1 \in HopCalls /\ n1.at = "remove" /\ n1.tag = t /\ n1.arg = k.arg
        /\ n1.tags = k.tags
    BY <1>1, <1>4, ForwardFacts
  <1>8. /\ n2 \in HopCalls /\ n2.at = "remove" /\ n2.tag = t /\ n2.arg = k.arg
        /\ n2.tags = k.tags
    <2> HIDE DEF n1
    <2> QED BY <1>7 DEF HopCalls
  <1>9. CASE /\ chain[a.cmd][a.rule] # 0 /\ chain' = Minus(chain, a.cmd, a.rule)
             /\ call' = [call EXCEPT ![p] = n1] /\ dirty' = dirty
    <2>1. TagOk(chain', dirty', t, n1, applied[t])
      BY <1>1, <1>2, <1>3, <1>9, RemoveForward
    <2>2. chain' \in Chains /\ \A u : u # t => Same(chain, chain', u)
      BY SMTT(60), <1>3, <1>6, <1>9, MinusFacts
    <2> HIDE DEF a, n1
    <2> QED BY <2>1, <2>2, <1>3, <1>7, <1>9
  <1>10. CASE /\ chain' = chain /\ dirty' = dirty \union {a.rule.tag}
              /\ call' = [call EXCEPT ![p] = n2]
    <2>1. a.rule.tag = t BY <1>6 DEF RulesOf
    <2>2. /\ t \in dirty' /\ dirty' \in SUBSET Tags /\ dirty \subseteq dirty'
          /\ dirty' \subseteq dirty \union {t}
      BY <2>1, <1>3, <1>10
    <2>3. TagOk(chain', dirty', t, n2, applied[t]) BY <2>2, <1>1, <1>2, <1>10, RemoveFails
    <2>4. \A u : Same(chain, chain', u) BY <1>10, SameChain
    <2> HIDE DEF a, n2
    <2> QED BY <2>2, <2>3, <2>4, <1>3, <1>8, <1>10
  <1> HIDE DEF k, a, n1, n2
  <1>11. \/ /\ chain[a.cmd][a.rule] # 0 /\ chain' = Minus(chain, a.cmd, a.rule)
            /\ call' = [call EXCEPT ![p] = n1] /\ dirty' = dirty
         \/ /\ chain' = chain /\ dirty' = dirty \union {a.rule.tag}
            /\ call' = [call EXCEPT ![p] = n2]
    BY <1>5, DeleteCases
  <1> QED BY <1>9, <1>10, <1>11

\* A rule of a node that goes is removed, or not.
LEMMA RemoveRuleKeeps ==
    ASSUME HopInv, NEW t \in Tags, RemoveRule(t)
    PROVE  HopInv' /\ Same(chain, chain', None)
  <1> DEFINE k == call[t]
  <1>1. k.at = "remove" BY DEF RemoveRule
  <1>2. call[Main].tag # t /\ t \notin call[Main].tags /\ Work(call, t) = k
    BY <1>1, NotInShutdown
  <1>3. k.tag = t /\ k.arg \in Redirects /\ applied[t] = None
    BY <1>1 DEF HopInv, Control
  <1>4. applied' = applied /\ running' = running /\ up' = up BY DEF RemoveRule
  <1>5. /\ chain' \in Chains /\ dirty' \in SUBSET Tags
        /\ \A u : u # t => Same(chain, chain', u)
        /\ dirty \subseteq dirty'
        /\ \E n \in HopCalls :
              /\ call' = [call EXCEPT ![t] = n]
              /\ n.at = "remove" /\ n.tag = t /\ n.arg = k.arg
              /\ TagOk(chain', dirty', t, n, applied[t])
    BY SMTT(60), <1>2, <1>3, RemoveOne, TagFacts
  <1> HIDE DEF k
  <1>6. PICK n \in HopCalls :
              /\ call' = [call EXCEPT ![t] = n]
              /\ n.at = "remove" /\ n.tag = t /\ n.arg = k.arg
              /\ TagOk(chain', dirty', t, n, applied[t])
    BY <1>5
  <1>7. applied \in [Tags -> Redirects \union {None}] BY DEF HopInv, HopTypes
  <1>8. HopInv' BY <1>2, <1>3, <1>4, <1>5, <1>6, <1>7, OwnStep
  <1> QED BY <1>5, <1>8, TagFacts

\* The removal of a node ends.
LEMMA EndRemoveKeeps ==
    ASSUME HopInv, NEW t \in Tags, EndRemove(t)
    PROVE  HopInv' /\ Same(chain, chain', None)
  <1> DEFINE k == call[t]
  <1>1. k.at = "remove" /\ Over(k) BY DEF EndRemove
  <1>2. call[Main].tag # t /\ t \notin call[Main].tags /\ Work(call, t) = k
    BY <1>1, NotInShutdown
  <1>3. TagOk(chain, dirty, t, k, applied[t]) BY <1>2, WorkTypes
  <1>4. applied[t] = None BY <1>1 DEF HopInv, Control
  <1>5. chain \in Chains /\ dirty \in SUBSET Tags
        /\ applied \in [Tags -> Redirects \union {None}]
    BY DEF HopInv, HopTypes
  <1>6. /\ call' = [call EXCEPT ![t] = Idle] /\ chain' = chain /\ dirty' = dirty
        /\ running' = running /\ up' = up /\ applied' = applied
    BY DEF EndRemove
  <1>7. TagOk(chain, dirty, t, Idle, None) BY <1>1, <1>3, <1>5, RemovesOver
  <1>8. Idle \in HopCalls /\ Idle.at = "idle" BY CallTypes DEF Idle
  <1>9. \A u : Same(chain, chain', u) BY <1>6, SameChain
  <1>10. HopInv' BY <1>2, <1>4, <1>5, <1>6, <1>7, <1>8, <1>9, OwnStep
  <1> QED BY <1>9, <1>10

\* The shutdown begins with the tags that are recorded.
LEMMA BeginRemoveAllKeeps ==
    ASSUME HopInv, BeginRemoveAll
    PROVE  HopInv' /\ Same(chain, chain', None)
  <1> DEFINE s == {t \in Tags : applied[t] # None}
             n == [Idle EXCEPT !.at = "remove", !.tags = s]
  <1>1. call[Main] = Idle BY DEF BeginRemoveAll, HopInv, Control
  <1>2. n \in HopCalls
    <2>1. \A k \in HopCalls : [k EXCEPT !.at = "remove", !.tags = s] \in HopCalls
      BY DEF HopCalls, Stages
    <2> QED BY <2>1, CallTypes
  <1>3. n.at = "remove" /\ n.tag = None /\ n.tags = s BY DEF Idle
  <1> HIDE DEF n
  <1>4. /\ call' = [call EXCEPT ![Main] = n] /\ running' = "closing" /\ chain' = chain
        /\ up' = up /\ applied' = applied /\ dirty' = dirty
    BY DEF BeginRemoveAll, n
  <1>5. /\ chain \in Chains /\ dirty \in SUBSET Tags
        /\ applied \in [Tags -> Redirects \union {None}]
    BY DEF HopInv, HopTypes
  <1>6. \A u \in n.tags : call[u] = Idle BY <1>3 DEF HopInv, Control
  <1>7. ASSUME NEW u \in Tags
        PROVE  /\ n.tag # u
               /\ TagOk(chain, dirty, u, call[u], applied[u])
    <2>1. call[Main].tag = None BY SMTT(60), <1>1 DEF Idle
    <2>2. Work(call, u) = call[u] BY <2>1, TagFacts DEF Work
    <2> QED BY <2>2, <1>3, WorkTypes, TagFacts
  <1>8. \A u \in Tags :
           TagOk(chain', dirty', u, IF n.tag = u THEN n ELSE call[u], applied'[u])
    BY <1>4, <1>7
  <1>9. HopInv' BY <1>2, <1>3, <1>4, <1>5, <1>6, <1>7, <1>8, MainStep
  <1> QED BY <1>4, <1>9, SameChain

\* The shutdown removes a rule, or not.
LEMMA ShutdownRuleKeeps ==
    ASSUME HopInv, RemoveRule(Main)
    PROVE  HopInv' /\ Same(chain, chain', None)
  <1> DEFINE t == call[Main].tag
  <1>1. Main \in Procs /\ call[Main] \in HopCalls BY DEF HopInv, HopTypes, Procs
  <1>2. t \in Tags /\ call[Main].at = "remove" /\ call[Main].tags \in SUBSET Tags
    BY <1>1 DEF RemoveRule, HopCalls
  <1>3. /\ call[t] = Idle /\ applied[t] = None /\ call[Main].arg \in Redirects
        /\ t \notin call[Main].tags /\ running = "closing"
        /\ \A u \in call[Main].tags : call[u] = Idle
    BY <1>2 DEF HopInv, Control
  <1>4. Work(call, t) = call[Main] BY DEF Work
  <1>5. applied' = applied /\ running' = running /\ up' = up BY DEF RemoveRule
  <1>6. /\ chain' \in Chains /\ dirty' \in SUBSET Tags
        /\ \A u : u # t => Same(chain, chain', u)
        /\ dirty \subseteq dirty'
        /\ \E n \in HopCalls :
              /\ call' = [call EXCEPT ![Main] = n]
              /\ n.at = "remove" /\ n.tag = t /\ n.arg = call[Main].arg
              /\ n.tags = call[Main].tags
              /\ TagOk(chain', dirty', t, n, applied[t])
    BY <1>1, <1>2, <1>4, RemoveOne
  <1>7. PICK n \in HopCalls :
              /\ call' = [call EXCEPT ![Main] = n]
              /\ n.at = "remove" /\ n.tag = t /\ n.arg = call[Main].arg
              /\ n.tags = call[Main].tags
              /\ TagOk(chain', dirty', t, n, applied[t])
    BY <1>6
  <1> HIDE DEF t
  <1>8. ASSUME NEW u \in Tags
        PROVE  TagOk(chain', dirty', u, IF n.tag = u THEN n ELSE call[u], applied'[u])
    <2>1. CASE u = t BY <2>1, <1>5, <1>7
    <2>2. CASE u # t
      <3>1. Work(call, u) = call[u] BY <2>2 DEF Work, t
      <3>2. TagOk(chain, dirty, u, call[u], applied[u]) BY <3>1, WorkTypes
      <3>3. TagOk(chain', dirty', u, call[u], applied[u]) BY <3>2, <2>2, <1>6, Frame
      <3> QED BY <3>3, <2>2, <1>5, <1>7
    <2> QED BY <2>1, <2>2
  <1>9. applied' \in [Tags -> Redirects \union {None}] BY <1>5 DEF HopInv, HopTypes
  <1>10. \A u \in Tags : n.tag = u =>
            call[u] = Idle /\ applied'[u] = None /\ n.arg \in Redirects /\ u \notin n.tags
    BY <1>3, <1>5, <1>7
  <1>11. \A u \in n.tags : call[u] = Idle BY <1>3, <1>7
  <1>12. HopInv' BY <1>3, <1>5, <1>6, <1>7, <1>8, <1>9, <1>10, <1>11, MainStep
  <1>13. t # None BY <1>2, TagFacts
  <1> QED BY <1>6, <1>12, <1>13

\* Between two tags, and at the end, the shutdown leaves the tag it had clean.
LEMMA ShutdownLeaves ==
    ASSUME HopInv, NEW u \in Tags, call[Main].at = "remove",
           call[Main].tag = None \/ Over(call[Main])
    PROVE  TagOk(chain, dirty, u, call[u], applied[u])
  <1>1. TagOk(chain, dirty, u, Work(call, u), applied[u]) BY WorkTypes
  <1>2. CASE call[Main].tag # u BY <1>1, <1>2 DEF Work
  <1>3. CASE call[Main].tag = u
    <2>1. Work(call, u) = call[Main] /\ u # None BY <1>3, TagFacts DEF Work
    <2>2. call[u] = Idle /\ applied[u] = None BY <1>3 DEF HopInv, Control
    <2>3. chain \in Chains /\ Over(call[Main]) BY <2>1, <1>3 DEF HopInv, HopTypes
    <2>4. TagOk(chain, dirty, u, Idle, None) BY <1>1, <2>1, <2>3, RemovesOver
    <2> QED BY <2>2, <2>4
  <1> QED BY <1>2, <1>3

\* The shutdown takes the next record.
LEMMA RemoveNextKeeps ==
    ASSUME HopInv, NEW t \in Tags, RemoveNext(t)
    PROVE  HopInv' /\ Same(chain, chain', None)
  <1> DEFINE k == call[Main]
             rest == [Idle EXCEPT !.at = "remove", !.tags = k.tags \ {t}, !.failed = k.failed]
             n == IF applied[t] = None THEN rest
                  ELSE [rest EXCEPT !.tag = t, !.arg = applied[t], !.cmd = 1]
  <1>1. /\ k.at = "remove" /\ (k.tag = None \/ Over(k)) /\ t \in k.tags
        /\ call' = [call EXCEPT ![Main] = n] /\ chain' = chain /\ up' = up
        /\ running' = running /\ dirty' = dirty /\ applied' = [applied EXCEPT ![t] = None]
    BY DEF RemoveNext, Take
  <1>2. k \in HopCalls /\ k.tags \in SUBSET Tags /\ k.failed \in BOOLEAN
    BY DEF HopInv, HopTypes, HopCalls, Procs
  <1>3. /\ chain \in Chains /\ dirty \in SUBSET Tags
        /\ applied \in [Tags -> Redirects \union {None}] /\ running = "closing"
        /\ \A u \in k.tags : call[u] = Idle
    BY <1>1 DEF HopInv, HopTypes, Control
  <1>4. rest \in HopCalls
    <2>1. \A i \in HopCalls, s \in SUBSET Tags, f \in BOOLEAN :
             [i EXCEPT !.at = "remove", !.tags = s, !.failed = f] \in HopCalls
      BY DEF HopCalls, Stages
    <2>2. k.tags \ {t} \in SUBSET Tags BY <1>2
    <2> HIDE DEF k
    <2> QED BY <2>1, <2>2, <1>2, CallTypes
  <1>5. /\ rest.at = "remove" /\ rest.tag = None /\ rest.tags = k.tags \ {t}
        /\ rest.done = 0
    BY DEF Idle
  <1>6. /\ applied' \in [Tags -> Redirects \union {None}] /\ applied'[t] = None
        /\ \A u \in Tags : u # t => applied'[u] = applied[u]
    BY <1>1, <1>3
  <1>7. ASSUME NEW u \in Tags
        PROVE  TagOk(chain, dirty, u, call[u], applied[u])
    BY <1>1, ShutdownLeaves
  <1>8. call[t].at = "idle" BY SMTT(60), <1>1, <1>3 DEF Idle
  <1>9. \A u : Same(chain, chain', u) BY SMTT(60), <1>1, SameChain
  <1> HIDE DEF rest
  <1>10. CASE applied[t] = None
    <2>1. n = rest /\ applied' = applied BY <1>10, <1>1, <1>3
    <2>2. \A u \in Tags : n.tag # u BY <2>1, <1>5, TagFacts
    <2>3. \A u \in Tags :
             TagOk(chain', dirty', u, IF n.tag = u THEN n ELSE call[u], applied'[u])
      BY <2>1, <2>2, <1>1, <1>7
    <2>4. n \in HopCalls /\ n.at = "remove" /\ \A u \in n.tags : call[u] = Idle
      BY <2>1, <1>3, <1>4, <1>5
    <2> HIDE DEF n, k
    <2>5. call' = [call EXCEPT ![Main] = n] BY <1>1
    <2>6. chain' \in Chains /\ dirty' \in SUBSET Tags /\ up' = up /\ running' = "closing"
      BY <1>1, <1>3
    <2>7. HopInv' BY <2>1, <2>2, <2>3, <2>4, <2>5, <2>6, <1>6, MainStep
    <2> QED BY <2>7, <1>9
  <1>11. CASE applied[t] # None
    <2>1. n = [rest EXCEPT !.tag = t, !.arg = applied[t], !.cmd = 1] BY <1>11
    <2>2. applied[t] \in Redirects BY <1>11, <1>3
    <2>3. n \in HopCalls
      <3>1. \A i \in HopCalls, e \in Redirects :
               [i EXCEPT !.tag = t, !.arg = e, !.cmd = 1] \in HopCalls
        BY DEF HopCalls
      <3> QED BY <3>1, <2>1, <2>2, <1>4
    <2>4. /\ n.at = "remove" /\ n.tag = t /\ n.arg = applied[t] /\ n.cmd = 1 /\ n.done = 0
          /\ n.tags = k.tags \ {t}
      BY <2>1, <1>4, <1>5 DEF HopCalls
    <2> HIDE DEF n
    <2>5. TagOk(chain, dirty, t, n, None) BY SMTT(60), <2>2, <2>4, <1>3, <1>7, <1>8, BeginRemoves
    <2>6. ASSUME NEW u \in Tags
          PROVE  TagOk(chain', dirty', u, IF n.tag = u THEN n ELSE call[u], applied'[u])
      <3>1. CASE u = t BY <3>1, <2>4, <2>5, <1>1, <1>6
      <3>2. CASE u # t BY <3>2, <2>4, <1>1, <1>6, <1>7
      <3> QED BY <3>1, <3>2
    <2>7. \A u \in Tags : n.tag = u =>
             call[u] = Idle /\ applied'[u] = None /\ n.arg \in Redirects /\ u \notin n.tags
      BY SMTT(60), <2>2, <2>4, <1>1, <1>3, <1>6
    <2>8. \A u \in n.tags : call[u] = Idle BY <2>4, <1>3
    <2>9. call' = [call EXCEPT ![Main] = n] BY <1>1
    <2>10. chain' \in Chains /\ dirty' \in SUBSET Tags /\ up' = up /\ running' = "closing"
           /\ \A u \in Tags : applied'[u] = applied[u] \/ applied'[u] = None
      BY <1>1, <1>3, <1>6
    <2>11. HopInv' BY <2>3, <2>4, <2>6, <2>7, <2>8, <2>9, <2>10, <1>6, MainStep
    <2> QED BY <2>11, <1>9
  <1> QED BY <1>10, <1>11

\* The shutdown is over.
LEMMA EndRemoveAllKeeps ==
    ASSUME HopInv, EndRemoveAll
    PROVE  HopInv' /\ Same(chain, chain', None)
  <1>1. /\ call[Main].at = "remove" /\ (call[Main].tag = None \/ Over(call[Main]))
        /\ call' = [call EXCEPT ![Main] = Idle] /\ chain' = chain /\ up' = up
        /\ dirty' = dirty /\ applied' = applied
    BY DEF EndRemoveAll
  <1>2. Idle \in HopCalls BY CallTypes
  <1>3. Idle.at = "idle" /\ Idle.tag = None /\ Idle.tags = {} BY DEF Idle
  <1>4. /\ chain' \in Chains /\ dirty' \in SUBSET Tags
        /\ applied' \in [Tags -> Redirects \union {None}]
    BY <1>1 DEF HopInv, HopTypes
  <1>5. ASSUME NEW u \in Tags
        PROVE  /\ Idle.tag # u
               /\ TagOk(chain', dirty', u, IF Idle.tag = u THEN Idle ELSE call[u], applied'[u])
    <2>1. TagOk(chain, dirty, u, call[u], applied[u]) BY <1>1, ShutdownLeaves
    <2> QED BY <2>1, <1>1, <1>3, TagFacts
  <1>6. HopInv' BY <1>1, <1>2, <1>3, <1>4, <1>5, MainStep
  <1> QED BY <1>1, <1>6, SameChain

\* The process is started again: the chain is all that is left.
LEMMA RestartKeeps ==
    ASSUME HopInv, Restart
    PROVE  HopInv' /\ Same(chain, chain', None)
  <1>1. /\ chain' = chain /\ dirty' = Tags /\ running' = "up"
        /\ call' = [p \in Procs |-> Idle] /\ applied' = [t \in Tags |-> None]
    BY DEF Restart
  <1>2. Idle \in HopCalls BY CallTypes
  <1>3. HopTypes' BY <1>1, <1>2 DEF HopInv, HopTypes
  <1>4. call'[Main] = Idle /\ \A t \in Tags : call'[t] = Idle /\ applied'[t] = None
    BY <1>1 DEF Procs
  <1>5. Idle.at = "idle" /\ Idle.tag = None /\ Idle.tags = {} BY DEF Idle
  <1>6. Control' BY <1>4, <1>5, TagFacts DEF Control
  <1>7. ASSUME NEW t \in Tags
        PROVE  TagOk(chain', dirty', t, Work(call', t), applied'[t])
    <2>1. Work(call', t) = Idle /\ applied'[t] = None /\ t \in dirty' BY <1>1, <1>4 DEF Work
    <2>2. \E e \in Redirects : Within(chain', t, e) BY <1>1, WorkTypes DEF TagOk
    <2> QED BY <2>1, <2>2, DirtyRests
  <1>8. HopInv' BY <1>3, <1>6, <1>7 DEF HopInv
  <1> QED BY <1>1, <1>8, SameChain

\* The operator flushes a table.
LEMMA FlushKeeps ==
    ASSUME HopInv, Flush
    PROVE  HopInv'
  <1>1. PICK c \in CommandSet : chain' = [chain EXCEPT ![c] = NoRules] BY DEF Flush
  <1>2. /\ dirty' = Tags /\ running' = running /\ call' = call /\ applied' = applied
        /\ up' = up
    BY DEF Flush
  <1>3. chain \in Chains BY DEF HopInv, HopTypes
  <1>4. chain' \in Chains BY <1>1, <1>3, CallTypes DEF Chains
  <1>5. HopTypes' BY <1>2, <1>4 DEF HopInv, HopTypes
  <1>6. Control' BY <1>2 DEF HopInv, Control
  <1>7. ASSUME NEW t \in Tags
        PROVE  TagOk(chain', dirty', t, Work(call', t), applied'[t])
    <2>1. Fewer(chain, chain', t)
      <3> SUFFICES ASSUME NEW i \in DOMAIN Commands, NEW r \in RulesOf(t)
                   PROVE  /\ chain[Commands[i]][r] \in Nat /\ chain'[Commands[i]][r] \in Nat
                          /\ chain'[Commands[i]][r] <= chain[Commands[i]][r]
        BY DEF Fewer
      <3>1. Commands[i] \in CommandSet /\ r \in Rules BY CommandFacts DEF RulesOf
      <3>2. chain[Commands[i]][r] \in Nat /\ chain'[Commands[i]][r] \in Nat
        BY <3>1, <1>3, <1>4 DEF Chains
      <3>3. chain'[Commands[i]][r] = 0 \/ chain'[Commands[i]][r] = chain[Commands[i]][r]
        BY <3>1, <1>1, <1>3 DEF Chains, NoRules
      <3> QED BY SMTT(60), <3>2, <3>3
    <2>2. TagOk(chain', dirty', t, Work(call, t), applied[t])
      BY <2>1, <1>2, WorkTypes, FlushKeepsTag
    <2> QED BY <2>2, <1>2
  <1> QED BY <1>5, <1>6, <1>7 DEF HopInv

-----------------------------------------------------------------------------
(* The theorems                                                             *)

\* The host begins with the operator's rules only.
LEMMA HopInitInv ==
    ASSUME HopInit
    PROVE  HopInv
  <1>1. PICK port \in Ports : chain = [c \in CommandSet |-> [r \in Rules |->
           IF r \in {OperatorRule(x, port) : x \in AllRanges} THEN 1 ELSE 0]]
    BY DEF HopInit
  <1>2. /\ dirty = {} /\ running = "up" /\ up = {}
        /\ call = [p \in Procs |-> Idle] /\ applied = [t \in Tags |-> None]
    BY DEF HopInit
  <1>3. chain \in Chains BY <1>1 DEF Chains
  <1>4. HopTypes BY <1>2, <1>3, CallTypes DEF HopTypes
  <1>5. call[Main] = Idle /\ \A t \in Tags : call[t] = Idle /\ applied[t] = None
    BY <1>2 DEF Procs
  <1>6. Idle.at = "idle" /\ Idle.tag = None /\ Idle.tags = {} BY DEF Idle
  <1>7. Control BY <1>5, <1>6, TagFacts DEF Control
  <1>8. ASSUME NEW t \in Tags
        PROVE  TagOk(chain, dirty, t, Work(call, t), applied[t])
    <2>1. Work(call, t) = Idle /\ applied[t] = None BY <1>5 DEF Work
    <2>2. \A r \in RulesOf(t) : \A x : r # OperatorRule(x, port)
      BY SMTT(60), TagFacts DEF RulesOf, OperatorRule
    <2>3. Gone(chain, t) BY SMTT(60), <1>1, <2>2, CommandFacts DEF Gone, RulesOf
    <2>4. PICK d \in Redirects : TRUE BY DEF Ports
    <2>5. Within(chain, t, d)
      <3> SUFFICES ASSUME NEW i \in DOMAIN Commands, NEW r \in RulesOf(t)
                   PROVE  chain[Commands[i]][r] <= Copies(d, r)
        BY DEF Within
      <3>1. chain[Commands[i]][r] = 0 /\ Copies(d, r) \in Nat BY <2>3, CopiesType DEF Gone
      <3> QED BY SMTT(60), <3>1
    <2>6. Rests(chain, dirty, t, None) BY <2>3 DEF Rests, Gone
    <2> QED BY SMTT(60), <2>1, <2>5, <2>6 DEF TagOk, Idle
  <1> QED BY <1>4, <1>7, <1>8 DEF HopInv

\* Every step keeps the invariant, and every step but a flush the operator's rules.
LEMMA HopStep ==
    ASSUME HopInv, [HopNext]_hopVars
    PROVE  HopInv' /\ (Same(chain, chain', None) \/ flushes' # flushes)
  <1>1. ASSUME NEW t \in Tags, Apply(t)
        PROVE  HopInv' /\ Same(chain, chain', None)
    <2>1. CASE AddPlain(t) BY <2>1, HopUnchanged, SameChain DEF AddPlain
    <2>2. CASE \E r \in Redirects : BeginApply(t, r) BY <2>2, BeginApplyKeeps
    <2>3. CASE ReadChain(t) BY <2>3, ReadChainKeeps
    <2>4. ASSUME NEW r \in Rules, DeleteStale(t, r) PROVE HopInv' /\ Same(chain, chain', None)
      BY <2>4, DeleteStaleKeeps
    <2>5. CASE StaleDone(t) BY <2>5, StaleDoneKeeps
    <2>6. CASE AddRule(t) BY <2>6, AddRuleKeeps
    <2>7. CASE RollBack(t) BY <2>7, RollBackKeeps
    <2>8. CASE EndApply(t) BY <2>8, EndApplyKeeps
    <2> QED BY <1>1, <2>1, <2>2, <2>3, <2>4, <2>5, <2>6, <2>7, <2>8 DEF Apply
  <1>2. ASSUME NEW t \in Tags, RemoveNode(t)
        PROVE  HopInv' /\ Same(chain, chain', None)
    BY <1>2, BeginRemoveKeeps, RemoveRuleKeeps, EndRemoveKeeps DEF RemoveNode
  <1>3. CASE RemoveAll
    BY <1>3, BeginRemoveAllKeeps, ShutdownRuleKeeps, EndRemoveAllKeeps, RemoveNextKeeps
    DEF RemoveAll
  <1>4. CASE Restart BY <1>4, RestartKeeps
  <1>5. CASE Flush
    <2>1. HopInv' BY <1>5, FlushKeeps
    <2>2. flushes' # flushes BY SMTT(60), <1>5 DEF Flush
    <2> QED BY <2>1, <2>2
  <1>6. CASE UNCHANGED hopVars BY <1>6, HopUnchanged, SameChain DEF hopVars
  <1> QED BY <1>1, <1>2, <1>3, <1>4, <1>5, <1>6 DEF HopNext

\* The invariant gives the property.
LEMMA HopInvMatches == HopInv => RecordMatchesChain
  <1> SUFFICES ASSUME HopInv PROVE RecordMatchesChain OBVIOUS
  <1>1. NoStacking
    <2> SUFFICES ASSUME NEW t \in Tags
                 PROVE  \E d \in Redirects : \A c \in CommandSet, r \in Rules :
                            r.tag = t => chain[c][r] <= Copies(d, r)
      BY DEF NoStacking
    <2>1. PICK d \in Redirects : Within(chain, t, d) BY WorkTypes DEF TagOk
    <2>2. \A c \in CommandSet, r \in Rules : r.tag = t => chain[c][r] <= Copies(d, r)
      BY <2>1, CommandFacts DEF Within, RulesOf
    <2> QED BY <2>2
  <1>2. ASSUME NEW t \in Tags \ dirty, call[t] = Idle, call[Main] = Idle,
               NEW c \in CommandSet, NEW r \in Rules, r.tag = t
        PROVE  chain[c][r] = IF applied[t] = None THEN 0 ELSE Copies(applied[t], r)
    <2>1. Work(call, t).at = "idle" BY SMTT(60), <1>2 DEF Work, Idle
    <2>2. Rests(chain, dirty, t, applied[t]) BY <2>1, WorkTypes DEF TagOk
    <2>3. PICK i \in DOMAIN Commands : c = Commands[i] BY CommandFacts
    <2>4. r \in RulesOf(t) /\ t \notin dirty BY <1>2 DEF RulesOf
    <2> QED BY <2>2, <2>3, <2>4 DEF Rests
  <1> QED BY <1>1, <1>2 DEF RecordMatchesChain

\* Rules never pile up, and what is recorded of a node without a call under way is what
\* the chain has, rule by rule and copy by copy (Apply, Remove and RemoveAll of
\* porthop.go), for any tags, redirects and binaries and any failures, kills and flushes.
THEOREM RecordsMatchRules == HopSpec => []RecordMatchesChain
  <1>1. HopInit => HopInv BY HopInitInv
  <1>2. HopInv /\ [HopNext]_hopVars => HopInv' BY HopStep
  <1> QED BY <1>1, <1>2, HopInvMatches, PTL DEF HopSpec

\* No step but the operator's own flush changes a rule without a tag of N2X (the tag
\* that staleRules compares and the record that remove goes by).
THEOREM OperatorRulesUntouched == HopSpec => OperatorRulesStay
  <1>1. HopInit => HopInv BY HopInitInv
  <1>2. HopInv /\ [HopNext]_hopVars => HopInv' BY HopStep
  <1>3. HopInv /\ [HopNext]_hopVars =>
           [\A c \in CommandSet, r \in Rules :
               r.tag = None /\ chain'[c][r] # chain[c][r] => flushes' # flushes]_hopVars
    <2> SUFFICES ASSUME HopInv, [HopNext]_hopVars,
                        NEW c \in CommandSet, NEW r \in Rules,
                        r.tag = None, chain'[c][r] # chain[c][r]
                 PROVE  flushes' # flushes
      OBVIOUS
    <2>1. PICK i \in DOMAIN Commands : c = Commands[i] BY CommandFacts
    <2>2. r \in RulesOf(None) BY DEF RulesOf
    <2>3. ~Same(chain, chain', None) BY <2>1, <2>2 DEF Same
    <2> QED BY <2>3, HopStep
  <1> QED BY <1>1, <1>2, <1>3, PTL DEF HopSpec, OperatorRulesStay
=============================================================================
