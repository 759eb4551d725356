--------------------------- MODULE KubeClientProofs ---------------------------
(***************************************************************************)
(* What holds of the Kubernetes client for any calls, releases, lists and  *)
(* pods, whatever requests fail, pipelines deploy and restarts forget.     *)
(***************************************************************************)
EXTENDS KubeClient, SequenceTheorems, FiniteSetTheorems, TLAPS

Ops == {"none", "ensure", "teardown", "has", "logs"}
AskEnd == {"open", "ok", "error", "remains", "none", "message", "partial", "lost"}
AskRecord ==
    [op : Ops, pc : {"idle", "go", "create", "pods", "done"}, todo : Seq(Release),
     at : 1 .. 4, end : AskEnd, held : SUBSET Release, clean : SUBSET Release,
     listed : SUBSET Pod, seen : SUBSET Pod, told : SUBSET Pod]

Under(x) == x.pc \in {"go", "create", "pods"}
Lacks(objs, r) == \A k \in Kind : <<r, k>> \notin objs

(* A call under way has a release to see to, and has answered nothing.      *)
UnderWay(x) ==
    /\ Under(x) => x.todo # <<>>
    /\ x.pc # "done" => x.end = "open"
    /\ x.pc = "go" => x.told = {}
    /\ x.told \subseteq x.seen

(* The releases that ran all along run still, and are yet to be asked for.  *)
LookerFits(x, objs) ==
    /\ x.op = "has" /\ x.pc = "go" =>
          \A r \in x.held : <<r, "Deployment">> \in objs /\ r \in Range(x.todo)
    /\ x.end = "none" => x.held = {}

(* A teardown has cleared what it has passed: releases, and of the release  *)
(* it is at, the kinds before.                                              *)
TeardownFits(x, objs) ==
    x.op = "teardown" =>
        /\ x.pc = "go" =>
              /\ \A r \in x.clean \ Range(x.todo) : Lacks(objs, r)
              /\ Head(x.todo) \in x.clean =>
                    \A i \in 1 .. 4 : i < x.at => <<Head(x.todo), Kinds[i]>> \notin objs
        /\ x.pc = "done" /\ x.end = "ok" => (\A r \in x.clean : Lacks(objs, r))

(* A reader has picked as many pods as it may, and its answer tells of them *)
(* and says whether they are all.                                           *)
ReaderFits(x) ==
    /\ x.op = "logs" /\ x.pc = "pods" => FirstOf(x.listed, x.seen)
    /\ x.op = "logs" /\ x.pc = "done" =>
          /\ x.end = "ok" => x.told = x.listed
          /\ x.end = "partial" => x.told # x.listed /\ Cardinality(x.told) = MaxPods

AskFits(x, objs) ==
    UnderWay(x) /\ LookerFits(x, objs) /\ TeardownFits(x, objs) /\ ReaderFits(x)

KubeInv ==
    /\ yamls \subseteq Profile /\ apiClients \subseteq Profile /\ spaces \subseteq Profile
    /\ objects \subseteq Release \X Resource /\ pods \in [Release -> SUBSET Pod]
    /\ events \in 0 .. MaxEvents
    /\ ask \in [Ask -> AskRecord]
    /\ \A a \in Ask : AskFits(ask[a], objects)

-----------------------------------------------------------------------------
(* Lists of releases.                                                       *)
LEMMA HeadAndTail ==
    ASSUME NEW s \in Seq(Release), s # <<>>
    PROVE  /\ Head(s) \in Release /\ Len(s) \in Nat \ {0}
           /\ Tail(s) \in Seq(Release)
           /\ Len(s) = 1 => Range(s) = {Head(s)}
           /\ Len(s) # 1 => Tail(s) # <<>> /\ Range(s) = {Head(s)} \cup Range(Tail(s))
<1>1. Len(s) \in Nat \ {0} /\ Head(s) = s[1] /\ DOMAIN s = 1 .. Len(s) /\ Head(s) \in Release
  OBVIOUS
<1>2. Tail(s) \in Seq(Release) /\ Len(Tail(s)) = Len(s) - 1
      /\ \A i \in 1 .. Len(s) - 1 : Tail(s)[i] = s[i + 1]
  BY <1>1
<1>3. Len(s) = 1 => Range(s) = {Head(s)}
  BY <1>1 DEF Range
<1>4. Len(s) # 1 => Tail(s) # <<>>
  <2>1. Len(s) # 1 => Len(Tail(s)) # 0
    BY <1>1, <1>2
  <2>. QED  BY <2>1
<1>5. Range(s) = {Head(s)} \cup Range(Tail(s))
  <2>1. ASSUME NEW r \in Range(s) PROVE r \in {Head(s)} \cup Range(Tail(s))
    <3>1. PICK i \in 1 .. Len(s) : r = s[i]
      BY <1>1 DEF Range
    <3>2. CASE i # 1
      <4>1. i - 1 \in 1 .. Len(s) - 1 /\ Tail(s)[i - 1] = s[i]
        BY <1>1, <1>2, <3>1, <3>2
      <4>2. DOMAIN Tail(s) = 1 .. Len(s) - 1
        BY <1>2
      <4>. QED  BY <3>1, <4>1, <4>2 DEF Range
    <3>. QED  BY <1>1, <3>1, <3>2
  <2>2. ASSUME NEW r \in Range(Tail(s)) PROVE r \in Range(s)
    <3>1. PICK i \in 1 .. Len(s) - 1 : r = Tail(s)[i]
      BY <1>2 DEF Range
    <3>2. i + 1 \in 1 .. Len(s) /\ r = s[i + 1]
      BY <1>1, <1>2, <3>1
    <3>. QED  BY <1>1, <3>2 DEF Range
  <2>3. Head(s) \in Range(s)
    BY <1>1 DEF Range
  <2>. QED  BY <2>1, <2>2, <2>3
<1>. QED  BY <1>1, <1>2, <1>3, <1>4, <1>5

(* A call turns to its next release, or answers.                            *)
LEMMA TurnsOnward ==
    ASSUME NEW x \in AskRecord, x.todo # <<>>, x.pc = "go", NEW end \in AskEnd
    PROVE  LET y == Onward(x, end) IN
           /\ y \in AskRecord
           /\ y.op = x.op /\ y.held = x.held /\ y.clean = x.clean
           /\ y.seen = x.seen /\ y.told = x.told
           /\ \/ Len(x.todo) = 1 /\ y.pc = "done" /\ y.end = end
              \/ /\ Len(x.todo) # 1 /\ y.pc = "go" /\ y.end = x.end
                 /\ y.todo = Tail(x.todo) /\ y.at = 1
<1>1. x.todo \in Seq(Release) /\ Tail(x.todo) \in Seq(Release)
  BY HeadAndTail DEF AskRecord
<1>2. CASE Len(x.todo) = 1
  BY <1>2 DEF Onward, AskRecord
<1>3. CASE Len(x.todo) # 1
  <2>. DEFINE t == Tail(x.todo)
              z == [x EXCEPT !.todo = t]
              y == [z EXCEPT !.at = 1]
  <2>1. Onward(x, end) = y
    BY <1>3 DEF Onward, AskRecord
  <2>2. t \in Seq(Release)
    BY <1>1
  <2>. HIDE DEF t
  <2>3. /\ z \in AskRecord /\ z.pc = "go" /\ z.end = x.end /\ z.todo = t
        /\ z.op = x.op /\ z.held = x.held /\ z.clean = x.clean
        /\ z.seen = x.seen /\ z.told = x.told
    BY <2>2 DEF AskRecord
  <2>. HIDE DEF z
  <2>4. /\ y \in AskRecord /\ y.pc = "go" /\ y.end = x.end /\ y.todo = t /\ y.at = 1
        /\ y.op = x.op /\ y.held = x.held /\ y.clean = x.clean
        /\ y.seen = x.seen /\ y.told = x.told
    <3>1. y \in AskRecord
      BY <2>3, SMTT(30) DEF AskRecord
    <3>. QED  BY <2>3, <3>1 DEF AskRecord
  <2>. QED  BY <1>3, <2>1, <2>4 DEF t
<1>. QED  BY <1>2, <1>3

LEMMA InitKube == KubeInit => KubeInv
<1>. SUFFICES ASSUME KubeInit PROVE KubeInv
  OBVIOUS
<1>1. IdleAsk \in AskRecord
  BY DEF IdleAsk, AskRecord, Ops, AskEnd
<1>2. AskFits(IdleAsk, objects)
  BY DEF AskFits, UnderWay, Under, LookerFits, TeardownFits, ReaderFits, IdleAsk
<1>3. objects \subseteq Release \X Resource
  BY DEF KubeInit, Resource, ChartOnly
<1>. QED  BY <1>1, <1>2, <1>3, KubeAssumption DEF KubeInit, KubeInv, KubeAssumption, Profile

(* One call moves while the clusters stay as they are.                      *)
LEMMA AskMoves ==
    ASSUME KubeInv, NEW a \in Ask, NEW new \in AskRecord, Alters(a, new),
           UNCHANGED <<yamls, pods, apiClients, objects>>, spaces' \subseteq Profile,
           events' \in 0 .. MaxEvents, AskFits(new, objects)
    PROVE  KubeInv'
BY DEF KubeInv, Alters

LEMMA StartsKube ==
    ASSUME KubeInv, NEW a \in Ask, NEW op \in Ops, NEW rels \in Seq(Release) \ {<<>>},
           AskStarts(a, op, rels)
    PROVE  KubeInv'
<1>1. Range(rels) \subseteq Release
  BY HeadAndTail DEF Range
<1>. DEFINE held == {r \in Range(rels) : Runs(r)}
            clean == Range(rels)
            new == [IdleAsk EXCEPT !.op = op, !.pc = "go", !.todo = rels,
                                   !.held = held, !.clean = clean]
<1>2. Alters(a, new)
  BY Zenon DEF AskStarts
<1>3. held = {r \in Range(rels) : Runs(r)} /\ clean = Range(rels)
  OBVIOUS
<1>. HIDE DEF held, clean
<1>4. (\A r \in held : <<r, "Deployment">> \in objects /\ r \in Range(rels)) /\ clean \subseteq Range(rels)
  BY <1>3 DEF Runs
<1>5. UNCHANGED <<yamls, pods, apiClients, objects, spaces, events>>
  BY DEF AskStarts, World
<1>6. new \in AskRecord
  <2>1. op \in Ops /\ rels \in Seq(Release) /\ held \in SUBSET Release /\ clean \in SUBSET Release
    BY <1>1, <1>3
  <2>. DEFINE n1 == [IdleAsk EXCEPT !.op = op, !.pc = "go"]
              n2 == [n1 EXCEPT !.todo = rels]
              n3 == [n2 EXCEPT !.held = held, !.clean = clean]
  <2>2. IdleAsk \in AskRecord
    BY DEF IdleAsk, AskRecord, Ops, AskEnd
  <2>3. n1 \in AskRecord
    BY <2>1, <2>2 DEF AskRecord
  <2>4. new = n3
    BY <2>2 DEF AskRecord
  <2>. HIDE DEF n1, new
  <2>5. n2 \in AskRecord
    BY <2>1, <2>3 DEF AskRecord
  <2>. HIDE DEF n2
  <2>6. n3 \in AskRecord
    BY <2>1, <2>5 DEF AskRecord
  <2>. QED  BY <2>4, <2>6
<1>7. /\ new.op = op /\ new.pc = "go" /\ new.todo = rels /\ new.at = 1 /\ new.end = "open"
      /\ new.held = held /\ new.clean = clean /\ new.told = {} /\ new.seen = {}
  BY DEF IdleAsk
<1>. HIDE DEF new
<1>8. AskFits(new, objects)
  BY <1>4, <1>7 DEF AskFits, UnderWay, LookerFits, TeardownFits, ReaderFits
<1>. QED  BY <1>2, <1>6, <1>8, <1>5, AskMoves DEF KubeInv

(* A call answers.                                                          *)
LEMMA EndsKube ==
    ASSUME KubeInv, NEW a \in Ask, NEW end \in AskEnd \ {"none", "open", "partial"}, Alters(a, Ended(a, end)),
           UNCHANGED <<yamls, pods, apiClients, objects, events>>, spaces' \subseteq Profile,
           ask[a].op \notin {"teardown", "logs"} \/ end # "ok"
    PROVE  KubeInv'
<1>1. ask[a] \in AskRecord /\ AskFits(ask[a], objects)
  BY DEF KubeInv
<1>. DEFINE new == Ended(a, end)
<1>2. /\ new \in AskRecord /\ new.pc = "done" /\ new.end = end /\ new.op = ask[a].op
      /\ new.told = ask[a].told /\ new.seen = ask[a].seen
  BY <1>1 DEF Ended, AskRecord
<1>. HIDE DEF new
<1>3. AskFits(new, objects)
  BY <1>1, <1>2 DEF AskFits, UnderWay, Under, LookerFits, TeardownFits, ReaderFits
<1>. QED  BY <1>2, <1>3, AskMoves DEF new, KubeInv

LEMMA EnsuresKeep ==
    ASSUME KubeInv, NEW a \in Ask, EnsureReads(a) \/ EnsureCreates(a) PROVE KubeInv'
<1>1. /\ ask[a] \in AskRecord /\ AskFits(ask[a], objects) /\ ask[a].op = "ensure"
      /\ ask[a].pc \in {"go", "create"}
      /\ UNCHANGED <<yamls, pods, apiClients, objects, events>>
  BY DEF KubeInv, EnsureReads, EnsureCreates, AskIs, World
<1>2. First(a) \in Release /\ ask[a].todo # <<>>
  BY <1>1, HeadAndTail DEF First, AskFits, UnderWay, Under, AskRecord
<1>3. spaces' \subseteq Profile
  BY <1>2 DEF KubeInv, EnsureReads, EnsureCreates, World, Profile
<1>4. CASE Alters(a, [ask[a] EXCEPT !.pc = "create"])
  <2>. DEFINE new == [ask[a] EXCEPT !.pc = "create"]
  <2>1. /\ new \in AskRecord /\ new.pc = "create" /\ new.op = "ensure" /\ new.end = ask[a].end
        /\ new.told = ask[a].told /\ new.seen = ask[a].seen /\ new.todo = ask[a].todo
        /\ new.held = ask[a].held
    BY <1>1 DEF AskRecord
  <2>. HIDE DEF new
  <2>2. AskFits(new, objects)
    BY <1>1, <1>2, <2>1 DEF AskFits, UnderWay, Under, LookerFits, TeardownFits, ReaderFits
  <2>. QED  BY <1>1, <1>3, <1>4, <2>1, <2>2, AskMoves DEF new, KubeInv
<1>5. CASE Alters(a, Ended(a, "ok")) \/ Alters(a, Ended(a, "error"))
  BY <1>1, <1>3, <1>5, EndsKube DEF AskEnd
<1>. QED  BY <1>4, <1>5 DEF EnsureReads, EnsureCreates

(* A teardown that leaves nothing of a release, or none of its claim to it, *)
(* turns to the next one.                                                   *)
LEMMA PassesOn ==
    ASSUME NEW x \in AskRecord, NEW objs, UnderWay(x), x.op = "teardown", x.pc = "go",
           \A r \in x.clean \ Range(x.todo) : Lacks(objs, r),
           Head(x.todo) \in x.clean => Lacks(objs, Head(x.todo))
    PROVE  Onward(x, "ok") \in AskRecord /\ AskFits(Onward(x, "ok"), objs)
<1>. DEFINE y == Onward(x, "ok")
<1>1. x.todo # <<>> /\ x.end = "open" /\ x.told = {} /\ x.todo \in Seq(Release)
  BY DEF UnderWay, Under, AskRecord
<1>2. /\ y \in AskRecord /\ y.op = "teardown" /\ y.clean = x.clean /\ y.told = {}
      /\ \/ Len(x.todo) = 1 /\ y.pc = "done" /\ y.end = "ok"
         \/ /\ Len(x.todo) # 1 /\ y.pc = "go" /\ y.end = "open"
            /\ y.todo = Tail(x.todo) /\ y.at = 1
  BY <1>1, TurnsOnward DEF AskEnd
<1>. HIDE DEF y
<1>3. CASE Len(x.todo) = 1
  <2>1. \A r \in y.clean : Lacks(objs, r)
    BY <1>1, <1>2, <1>3, HeadAndTail
  <2>. QED  BY <1>2, <1>3, <2>1 DEF AskFits, UnderWay, Under, LookerFits, TeardownFits, ReaderFits, y
<1>4. CASE Len(x.todo) # 1
  <2>1. (\A r \in y.clean \ Range(y.todo) : Lacks(objs, r)) /\ y.todo # <<>>
    BY <1>1, <1>2, <1>4, HeadAndTail
  <2>. QED  BY <1>2, <1>4, <2>1 DEF AskFits, UnderWay, Under, LookerFits, TeardownFits, ReaderFits, y
<1>. QED  BY <1>3, <1>4

(* A teardown turns to the next kind of its release, or to its next one.    *)
LEMMA KindAfterKind ==
    ASSUME NEW x \in AskRecord, NEW objs, UnderWay(x), x.op = "teardown", x.pc = "go",
           \A r \in x.clean \ Range(x.todo) : Lacks(objs, r),
           Head(x.todo) \in x.clean =>
               \A i \in 1 .. 4 : i <= x.at => <<Head(x.todo), Kinds[i]>> \notin objs
    PROVE  LET y == IF x.at = 4 THEN Onward(x, "ok") ELSE [x EXCEPT !.at = @ + 1] IN
           y \in AskRecord /\ AskFits(y, objs)
<1>1. x.at \in 1 .. 4
  BY DEF AskRecord
<1>2. CASE x.at = 4
  <2>1. Head(x.todo) \in x.clean => Lacks(objs, Head(x.todo))
    <3>. SUFFICES ASSUME Head(x.todo) \in x.clean, NEW k \in Kind
                  PROVE  <<Head(x.todo), k>> \notin objs
      BY DEF Lacks
    <3>1. \E i \in 1 .. 4 : k = Kinds[i]
      <4>1. /\ Kinds[1] = "Deployment" /\ Kinds[2] = "Service"
            /\ Kinds[3] = "Ingress" /\ Kinds[4] = "Secret"
        BY DEF Kinds
      <4>2. 1 \in 1 .. 4 /\ 2 \in 1 .. 4 /\ 3 \in 1 .. 4 /\ 4 \in 1 .. 4
        OBVIOUS
      <4>. QED  BY <4>1, <4>2 DEF Kind
    <3>. QED  BY <1>2, <3>1
  <2>. QED  BY <1>2, <2>1, PassesOn
<1>3. CASE x.at # 4
  <2>. DEFINE next == x.at + 1
              y == [x EXCEPT !.at = next]
  <2>1. next \in 1 .. 4
    BY <1>1, <1>3
  <2>. HIDE DEF next
  <2>2. /\ y \in AskRecord /\ y.at = next /\ y.op = x.op /\ y.pc = x.pc /\ y.todo = x.todo
        /\ y.end = x.end /\ y.clean = x.clean /\ y.told = x.told /\ y.seen = x.seen
    BY <2>1 DEF AskRecord
  <2>. HIDE DEF y
  <2>3. Head(y.todo) \in y.clean =>
            \A i \in 1 .. 4 : i < y.at => <<Head(y.todo), Kinds[i]>> \notin objs
    BY <1>1, <2>2 DEF next
  <2>4. AskFits(y, objs)
    BY <2>2, <2>3 DEF AskFits, UnderWay, Under, LookerFits, TeardownFits, ReaderFits
  <2>. QED  BY <1>3, <2>2, <2>4 DEF y, next
<1>. QED  BY <1>2, <1>3

(* What a teardown under way brings to its next step.                       *)
LEMMA TeardownUnderWay ==
    ASSUME KubeInv, NEW a \in Ask, AskIs(a, "teardown", "go")
    PROVE  /\ ask[a] \in AskRecord /\ UnderWay(ask[a])
           /\ ask[a].op = "teardown" /\ ask[a].pc = "go" /\ First(a) = Head(ask[a].todo)
           /\ First(a) \in Release /\ First(a) \in Range(ask[a].todo)
           /\ \A r \in ask[a].clean \ Range(ask[a].todo) : Lacks(objects, r)
           /\ First(a) \in ask[a].clean =>
                 \A i \in 1 .. 4 : i < ask[a].at => <<First(a), Kinds[i]>> \notin objects
<1>1. /\ ask[a] \in AskRecord /\ AskFits(ask[a], objects) /\ ask[a].op = "teardown"
      /\ ask[a].pc = "go" /\ First(a) = Head(ask[a].todo)
  BY DEF KubeInv, AskIs, First
<1>2. ask[a].todo \in Seq(Release) /\ ask[a].todo # <<>>
  BY <1>1 DEF AskFits, UnderWay, Under, AskRecord
<1>. HIDE DEF First
<1>3. First(a) \in Release /\ First(a) \in Range(ask[a].todo)
  <2>1. Head(ask[a].todo) \in Range(ask[a].todo)
    BY <1>2, HeadAndTail
  <2>. QED  BY <1>1, <1>2, <2>1, HeadAndTail
<1>. QED  BY <1>1, <1>3 DEF AskFits, TeardownFits

(* The same call, its claim to its first release given up.                  *)
LEMMA GivesUp ==
    ASSUME KubeInv, NEW a \in Ask, AskIs(a, "teardown", "go")
    PROVE  LET x == [ask[a] EXCEPT !.clean = @ \ {First(a)}] IN
           /\ x \in AskRecord /\ UnderWay(x) /\ x.op = "teardown" /\ x.pc = "go"
           /\ x.at = ask[a].at /\ x.todo = ask[a].todo /\ Head(x.todo) \notin x.clean
           /\ \A r \in x.clean \ Range(x.todo) : Lacks(objects, r)
<1>. DEFINE x == [ask[a] EXCEPT !.clean = @ \ {First(a)}]
<1>1. /\ ask[a] \in AskRecord /\ UnderWay(ask[a]) /\ ask[a].op = "teardown" /\ ask[a].pc = "go"
      /\ First(a) = Head(ask[a].todo)
      /\ \A r \in ask[a].clean \ Range(ask[a].todo) : Lacks(objects, r)
  BY TeardownUnderWay
<1>2. /\ x \in AskRecord /\ x.op = ask[a].op /\ x.pc = ask[a].pc /\ x.todo = ask[a].todo
      /\ x.at = ask[a].at /\ x.end = ask[a].end /\ x.clean = ask[a].clean \ {First(a)}
      /\ x.told = ask[a].told /\ x.seen = ask[a].seen
  BY <1>1 DEF AskRecord
<1>. HIDE DEF x
<1>3. UnderWay(x)
  BY <1>1, <1>2 DEF UnderWay, Under
<1>. QED  BY <1>1, <1>2, <1>3 DEF x

(* A teardown passes over a release whose cluster it cannot reach.          *)
LEMMA SkipsKeep == ASSUME KubeInv, NEW a \in Ask, TeardownSkips(a) PROVE KubeInv'
<1>. DEFINE x == [ask[a] EXCEPT !.clean = @ \ {First(a)}]
            new == Onward(x, "ok")
<1>1. /\ AskIs(a, "teardown", "go") /\ Alters(a, new)
      /\ UNCHANGED <<yamls, pods, apiClients, objects, events, spaces>>
  BY DEF TeardownSkips, World
<1>2. /\ x \in AskRecord /\ UnderWay(x) /\ x.op = "teardown" /\ x.pc = "go"
      /\ Head(x.todo) \notin x.clean /\ \A r \in x.clean \ Range(x.todo) : Lacks(objects, r)
  BY <1>1, GivesUp
<1>. HIDE DEF x
<1>3. new \in AskRecord /\ AskFits(new, objects)
  BY <1>2, PassesOn
<1>. HIDE DEF new
<1>. QED  BY <1>1, <1>3, AskMoves DEF KubeInv

(* A kind deleted is out of every call's way but for the looker's, whose    *)
(* release no longer runs.                                                  *)
LEMMA DeletionSeen ==
    ASSUME KubeInv, NEW b \in Ask, NEW r \in Release, NEW i \in 1 .. 4
    PROVE  LET gone == objects \ {<<r, Kinds[i]>>}
               y == IF i = 1 THEN [ask[b] EXCEPT !.held = @ \ {r}] ELSE ask[b]
           IN y \in AskRecord /\ AskFits(y, gone)
<1>. DEFINE gone == objects \ {<<r, Kinds[i]>>}
            y == IF i = 1 THEN [ask[b] EXCEPT !.held = @ \ {r}] ELSE ask[b]
<1>1. ask[b] \in AskRecord /\ AskFits(ask[b], objects)
  BY DEF KubeInv
<1>2. /\ y \in AskRecord /\ y.op = ask[b].op /\ y.pc = ask[b].pc /\ y.todo = ask[b].todo
      /\ y.at = ask[b].at /\ y.end = ask[b].end /\ y.clean = ask[b].clean
      /\ y.told = ask[b].told /\ y.seen = ask[b].seen /\ y.listed = ask[b].listed
      /\ y.held \subseteq ask[b].held /\ (i = 1 => r \notin y.held)
  BY <1>1 DEF AskRecord
<1>. HIDE DEF y
<1>3. i # 1 => Kinds[i] # "Deployment"
  BY DEF Kinds
<1>4. \A q : <<q, "Deployment">> \in objects /\ q \in y.held => <<q, "Deployment">> \in gone
  BY <1>2, <1>3
<1>5. gone \subseteq objects
  OBVIOUS
<1>. HIDE DEF gone
<1>6. LookerFits(y, gone)
  BY <1>1, <1>2, <1>4 DEF AskFits, LookerFits
<1>7. TeardownFits(y, gone)
  BY <1>1, <1>2, <1>5 DEF AskFits, TeardownFits, Lacks
<1>8. UnderWay(y) /\ ReaderFits(y)
  BY <1>1, <1>2 DEF AskFits, UnderWay, Under, ReaderFits
<1>. QED  BY <1>2, <1>6, <1>7, <1>8 DEF AskFits, y, gone

LEMMA TeardownKeeps == ASSUME KubeInv, NEW a \in Ask, DeletesKind(a) PROVE KubeInv'
<1>1. AskIs(a, "teardown", "go") /\ UNCHANGED <<yamls, pods, apiClients, spaces>>
  BY DEF DeletesKind, World
<1>2. /\ ask[a] \in AskRecord /\ UnderWay(ask[a]) /\ ask[a].at \in 1 .. 4
      /\ ask[a].op = "teardown" /\ ask[a].pc = "go" /\ First(a) = Head(ask[a].todo)
      /\ First(a) \in Release /\ First(a) \in Range(ask[a].todo)
      /\ \A r \in ask[a].clean \ Range(ask[a].todo) : Lacks(objects, r)
      /\ First(a) \in ask[a].clean =>
            \A i \in 1 .. 4 : i < ask[a].at => <<First(a), Kinds[i]>> \notin objects
  BY <1>1, TeardownUnderWay DEF AskRecord
<1>3. CASE /\ objects' = objects \ {<<First(a), Kinds[ask[a].at]>>}
           /\ ask' = [b \in Ask |->
                IF b = a THEN NextKind(a, ask[a])
                ELSE IF ask[a].at = 1 THEN [ask[b] EXCEPT !.held = @ \ {First(a)}] ELSE ask[b]]
           /\ UNCHANGED events
  <2>. DEFINE gone == objects \ {<<First(a), Kinds[ask[a].at]>>}
  <2>1. \A r \in ask[a].clean \ Range(ask[a].todo) : Lacks(gone, r)
    BY <1>2 DEF Lacks
  <2>2. First(a) \in ask[a].clean =>
            \A i \in 1 .. 4 : i <= ask[a].at => <<First(a), Kinds[i]>> \notin gone
    BY <1>2
  <2>3. NextKind(a, ask[a]) \in AskRecord /\ AskFits(NextKind(a, ask[a]), gone)
    <3>. HIDE DEF gone
    <3>. QED  BY <1>2, <2>1, <2>2, KindAfterKind DEF NextKind
  <2>4. \A b \in Ask \ {a} : ask'[b] \in AskRecord /\ AskFits(ask'[b], gone)
    BY <1>2, <1>3, DeletionSeen
  <2>5. objects' = gone /\ gone \subseteq Release \X Resource /\ ask'[a] = NextKind(a, ask[a])
    BY <1>3 DEF KubeInv
  <2>6. DOMAIN ask' = Ask /\ ask' = [b \in Ask |-> ask'[b]]
    BY <1>3
  <2>. HIDE DEF gone
  <2>7. ask' \in [Ask -> AskRecord] /\ \A b \in Ask : AskFits(ask'[b], gone)
    BY <2>3, <2>4, <2>5, <2>6
  <2>. QED  BY <1>1, <1>3, <2>5, <2>7 DEF KubeInv
<1>4. CASE /\ Alters(a, NextKind(a, [ask[a] EXCEPT !.clean = @ \ {First(a)}]))
           /\ Happens /\ UNCHANGED objects
  <2>. DEFINE x == [ask[a] EXCEPT !.clean = @ \ {First(a)}]
              new == NextKind(a, x)
  <2>1. /\ x \in AskRecord /\ UnderWay(x) /\ x.op = "teardown" /\ x.pc = "go" /\ x.at = ask[a].at
        /\ Head(x.todo) \notin x.clean /\ \A r \in x.clean \ Range(x.todo) : Lacks(objects, r)
    BY <1>1, GivesUp
  <2>. HIDE DEF x
  <2>2. new \in AskRecord /\ AskFits(new, objects)
    BY <2>1, KindAfterKind DEF NextKind
  <2>3. Alters(a, new)
    BY <1>4 DEF x
  <2>4. events' \in 0 .. MaxEvents
    BY <1>4, KubeAssumption DEF Happens, KubeInv, KubeAssumption
  <2>. HIDE DEF new
  <2>. QED  BY <1>1, <1>4, <2>2, <2>3, <2>4, AskMoves DEF KubeInv
<1>. QED  BY <1>3, <1>4 DEF DeletesKind

-----------------------------------------------------------------------------
(* A looker goes on from a release that does not run.                       *)
LEMMA LooksOn ==
    ASSUME NEW x \in AskRecord, NEW objs, UnderWay(x), x.op = "has", x.pc = "go",
           LookerFits(x, objs), Head(x.todo) \notin x.held
    PROVE  Onward(x, "none") \in AskRecord /\ AskFits(Onward(x, "none"), objs)
<1>. DEFINE y == Onward(x, "none")
<1>1. x.todo # <<>> /\ x.end = "open" /\ x.told = {} /\ x.todo \in Seq(Release)
  BY DEF UnderWay, Under, AskRecord
<1>2. /\ y \in AskRecord /\ y.op = "has" /\ y.held = x.held /\ y.told = {}
      /\ \/ Len(x.todo) = 1 /\ y.pc = "done" /\ y.end = "none"
         \/ /\ Len(x.todo) # 1 /\ y.pc = "go" /\ y.end = "open"
            /\ y.todo = Tail(x.todo) /\ y.at = 1
  BY <1>1, TurnsOnward DEF AskEnd
<1>. HIDE DEF y
<1>3. \A r \in x.held : <<r, "Deployment">> \in objs /\ r \in Range(x.todo)
  BY DEF LookerFits
<1>4. CASE Len(x.todo) = 1
  <2>1. x.held = {}
    BY <1>1, <1>3, <1>4, HeadAndTail
  <2>. QED  BY <1>2, <1>4, <2>1 DEF AskFits, UnderWay, Under, LookerFits, TeardownFits, ReaderFits, y
<1>5. CASE Len(x.todo) # 1
  <2>1. (\A r \in x.held : r \in Range(y.todo)) /\ y.todo # <<>>
    BY <1>1, <1>2, <1>3, <1>5, HeadAndTail
  <2>. QED  BY <1>2, <1>3, <1>5, <2>1
            DEF AskFits, UnderWay, Under, LookerFits, TeardownFits, ReaderFits, y
<1>. QED  BY <1>4, <1>5

LEMMA ProbeKeeps == ASSUME KubeInv, NEW a \in Ask, LooksForRelease(a) PROVE KubeInv'
<1>1. /\ ask[a] \in AskRecord /\ AskFits(ask[a], objects) /\ ask[a].op = "has"
      /\ ask[a].pc = "go" /\ First(a) = Head(ask[a].todo)
      /\ UNCHANGED <<yamls, pods, apiClients, objects, events, spaces>>
  BY DEF KubeInv, LooksForRelease, AskIs, World, First
<1>2. UnderWay(ask[a]) /\ LookerFits(ask[a], objects)
  BY <1>1 DEF AskFits
<1>. DEFINE z == [ask[a] EXCEPT !.held = @ \ {First(a)}]
<1>3. \/ Alters(a, Ended(a, "remains"))
      \/ Alters(a, Onward(ask[a], "none")) /\ ~Runs(First(a))
      \/ Alters(a, Onward(z, "none"))
  BY DEF LooksForRelease, Reads
<1>4. CASE Alters(a, Ended(a, "remains"))
  BY <1>1, <1>4, EndsKube DEF KubeInv, AskEnd
<1>5. CASE Alters(a, Onward(ask[a], "none")) /\ ~Runs(First(a))
  <2>1. First(a) \notin ask[a].held
    BY <1>1, <1>2, <1>5 DEF LookerFits, Runs
  <2>2. Onward(ask[a], "none") \in AskRecord /\ AskFits(Onward(ask[a], "none"), objects)
    BY <1>1, <1>2, <2>1, LooksOn
  <2>. QED  BY <1>1, <1>5, <2>2, AskMoves DEF KubeInv
<1>6. CASE Alters(a, Onward(z, "none"))
  <2>1. /\ z \in AskRecord /\ z.op = "has" /\ z.pc = "go" /\ z.todo = ask[a].todo
        /\ z.end = ask[a].end /\ z.held = ask[a].held \ {First(a)}
        /\ z.told = ask[a].told /\ z.seen = ask[a].seen
    BY <1>1 DEF AskRecord
  <2>. HIDE DEF z
  <2>2. UnderWay(z) /\ LookerFits(z, objects) /\ Head(z.todo) \notin z.held
    BY <1>1, <1>2, <2>1 DEF UnderWay, Under, LookerFits
  <2>3. Onward(z, "none") \in AskRecord /\ AskFits(Onward(z, "none"), objects)
    BY <2>1, <2>2, LooksOn
  <2>. QED  BY <1>1, <1>6, <2>3, AskMoves DEF KubeInv
<1>. QED  BY <1>3, <1>4, <1>5, <1>6

-----------------------------------------------------------------------------
LEMMA LogsListed == ASSUME KubeInv, NEW a \in Ask, LogsList(a) PROVE KubeInv'
<1>1. /\ ask[a] \in AskRecord /\ AskFits(ask[a], objects) /\ ask[a].op = "logs"
      /\ ask[a].pc = "go"
      /\ UNCHANGED <<yamls, pods, apiClients, objects, events, spaces>>
  BY DEF KubeInv, LogsList, AskIs, World
<1>2. CASE Alters(a, Ended(a, "message"))
  BY <1>1, <1>2, EndsKube DEF KubeInv, AskEnd
<1>3. CASE \E some \in SUBSET pods[First(a)] :
              /\ FirstOf(pods[First(a)], some)
              /\ Alters(a, [ask[a] EXCEPT !.pc = "pods", !.listed = pods[First(a)], !.seen = some])
  <2>. DEFINE all == pods[First(a)]
  <2>1. First(a) \in Release
    BY <1>1, HeadAndTail DEF First, AskFits, UnderWay, Under, AskRecord
  <2>2. all \in SUBSET Pod
    BY <2>1 DEF KubeInv
  <2>3. PICK some \in SUBSET all :
            /\ FirstOf(all, some)
            /\ Alters(a, [ask[a] EXCEPT !.pc = "pods", !.listed = all, !.seen = some])
    BY <1>3
  <2>. HIDE DEF all
  <2>. DEFINE new == [ask[a] EXCEPT !.pc = "pods", !.listed = all, !.seen = some]
  <2>4. /\ new \in AskRecord /\ new.pc = "pods" /\ new.op = "logs" /\ new.end = ask[a].end
        /\ new.told = ask[a].told /\ new.seen = some /\ new.listed = all
        /\ new.todo = ask[a].todo
    BY <1>1, <2>2, <2>3 DEF AskRecord
  <2>. HIDE DEF new
  <2>5. AskFits(new, objects)
    BY <1>1, <2>3, <2>4 DEF AskFits, UnderWay, Under, LookerFits, TeardownFits, ReaderFits
  <2>. QED  BY <1>1, <2>3, <2>4, <2>5, AskMoves DEF new, KubeInv
<1>. QED  BY <1>2, <1>3 DEF LogsList

(* A reader that leaves pods out has picked as many as it may.              *)
LEMMA FirstOnes ==
    ASSUME NEW listed \in SUBSET Pod, NEW some, FirstOf(listed, some)
    PROVE  /\ Cardinality(listed) > Cardinality(some) =>
                 some # listed /\ Cardinality(some) = MaxPods
           /\ ~(Cardinality(listed) > Cardinality(some)) => some = listed
<1>1. IsFiniteSet(listed) /\ IsFiniteSet(some) /\ some \subseteq listed
  BY KubeAssumption, FS_Subset DEF KubeAssumption, FirstOf
<1>2. /\ Cardinality(listed) \in Nat /\ Cardinality(some) \in Nat /\ MaxPods \in Nat
      /\ Cardinality(some) <= Cardinality(listed)
      /\ Cardinality(some) = Cardinality(listed) => some = listed
  BY <1>1, KubeAssumption, FS_CardinalityType, FS_Subset DEF KubeAssumption
<1>. QED  BY <1>1, <1>2 DEF FirstOf

LEMMA LogsReadKeep == ASSUME KubeInv, NEW a \in Ask, LogsRead(a) PROVE KubeInv'
<1>1. /\ ask[a] \in AskRecord /\ AskFits(ask[a], objects) /\ ask[a].op = "logs"
      /\ ask[a].pc = "pods"
      /\ UNCHANGED <<yamls, pods, apiClients, objects, events, spaces>>
  BY DEF KubeInv, LogsRead, AskIs, World
<1>2. /\ ask[a].told \subseteq ask[a].seen /\ ask[a].seen \subseteq Pod /\ ask[a].todo # <<>>
      /\ ask[a].end = "open" /\ FirstOf(ask[a].listed, ask[a].seen) /\ ask[a].listed \in SUBSET Pod
  BY <1>1 DEF AskFits, UnderWay, Under, AskRecord, ReaderFits
<1>. DEFINE Reading(p) == [ask[a] EXCEPT !.told = @ \cup {p}]
            Finished(p) == [Reading(p) EXCEPT !.pc = "done", !.end = Says(a)]
<1>3. PICK p \in Unread(a) :
          \/ Alters(a, Finished(p)) /\ Unread(a) = {p}
          \/ Alters(a, Reading(p))
  BY DEF LogsRead
<1>. DEFINE more == ask[a].told \cup {p}
<1>4. more \subseteq ask[a].seen /\ more \in SUBSET Pod
  BY <1>2, <1>3 DEF Unread
<1>5. Reading(p) = [ask[a] EXCEPT !.told = more]
  OBVIOUS
<1>6. Unread(a) = {p} => more = ask[a].seen
  BY <1>2 DEF Unread
<1>. HIDE DEF more, Reading
<1>7. /\ Reading(p) \in AskRecord /\ Reading(p).pc = "pods" /\ Reading(p).op = "logs"
      /\ Reading(p).end = "open" /\ Reading(p).told = more /\ Reading(p).seen = ask[a].seen
      /\ Reading(p).listed = ask[a].listed /\ Reading(p).todo = ask[a].todo
  BY <1>1, <1>2, <1>4, <1>5 DEF AskRecord
<1>8. CASE Alters(a, Reading(p))
  <2>1. AskFits(Reading(p), objects)
    BY <1>2, <1>4, <1>7 DEF AskFits, UnderWay, Under, LookerFits, TeardownFits, ReaderFits
  <2>. QED  BY <1>1, <1>7, <1>8, <2>1, AskMoves DEF KubeInv
<1>9. CASE Alters(a, Finished(p)) /\ Unread(a) = {p}
  <2>1. more = ask[a].seen
    BY <1>6, <1>9
  <2>2. /\ Says(a) \in {"ok", "partial"}
        /\ Says(a) = "ok" => more = ask[a].listed
        /\ Says(a) = "partial" => more # ask[a].listed /\ Cardinality(more) = MaxPods
    BY <1>2, <2>1, FirstOnes DEF Says
  <2>3. /\ Finished(p) \in AskRecord /\ Finished(p).pc = "done" /\ Finished(p).op = "logs"
        /\ Finished(p).end = Says(a) /\ Finished(p).told = more
        /\ Finished(p).seen = ask[a].seen /\ Finished(p).listed = ask[a].listed
    BY <1>7, <2>2 DEF AskRecord, AskEnd
  <2>. HIDE DEF Finished
  <2>4. AskFits(Finished(p), objects)
    BY <1>4, <2>2, <2>3 DEF AskFits, UnderWay, Under, LookerFits, TeardownFits, ReaderFits
  <2>. QED  BY <1>1, <1>9, <2>3, <2>4, AskMoves DEF KubeInv
<1>. QED  BY <1>3, <1>8, <1>9

-----------------------------------------------------------------------------
(* Pipelines, pods, operators and restarts.                                 *)
LEMMA DeploysKeep == ASSUME KubeInv, NEW r \in Release, Deploys(r) PROVE KubeInv'
<1>1. /\ UNCHANGED <<yamls, pods, apiClients, spaces>>
      /\ \E more \in SUBSET ChartOnly : objects' = objects \cup ({r} \X (Kind \cup more))
      /\ ask' = [a \in Ask |-> [ask[a] EXCEPT !.clean = @ \ {r}]]
  BY DEF Deploys, World
<1>2. events' \in 0 .. MaxEvents /\ objects' \subseteq Release \X Resource
  <2>1. events' \in 0 .. MaxEvents /\ objects \subseteq Release \X Resource
    BY KubeAssumption DEF Deploys, Happens, KubeInv, KubeAssumption
  <2>. QED  BY <1>1, <2>1 DEF Resource
<1>3. ASSUME NEW a \in Ask PROVE ask'[a] \in AskRecord /\ AskFits(ask'[a], objects')
  <2>. DEFINE x == ask[a]
              y == [x EXCEPT !.clean = @ \ {r}]
  <2>1. x \in AskRecord /\ AskFits(x, objects) /\ ask'[a] = y
    BY <1>1 DEF KubeInv
  <2>. HIDE DEF x
  <2>2. /\ y \in AskRecord /\ y.op = x.op /\ y.pc = x.pc /\ y.todo = x.todo /\ y.at = x.at
        /\ y.end = x.end /\ y.held = x.held /\ y.clean = x.clean \ {r}
        /\ y.told = x.told /\ y.seen = x.seen /\ y.listed = x.listed
    BY <2>1 DEF AskRecord
  <2>. HIDE DEF y
  <2>3. objects \subseteq objects' /\ \A q, k : q # r /\ <<q, k>> \in objects' => <<q, k>> \in objects
    BY <1>1
  <2>4. LookerFits(y, objects')
    BY <2>1, <2>2, <2>3 DEF AskFits, LookerFits
  <2>5. TeardownFits(y, objects')
    BY <2>1, <2>2, <2>3 DEF AskFits, TeardownFits, Lacks
  <2>6. UnderWay(y) /\ ReaderFits(y)
    BY <2>1, <2>2 DEF AskFits, UnderWay, Under, ReaderFits
  <2>. QED  BY <2>1, <2>2, <2>4, <2>5, <2>6 DEF AskFits
<1>4. ask' = [a \in Ask |-> ask'[a]]
  BY <1>1
<1>5. ask' \in [Ask -> AskRecord]
  BY <1>3, <1>4
<1>. QED  BY <1>1, <1>2, <1>3, <1>5 DEF KubeInv

LEMMA RestartsKeep == ASSUME KubeInv, Restarts PROVE KubeInv'
<1>1. Happens /\ apiClients' \in SUBSET yamls
  BY DEF Restarts
<1>2. /\ UNCHANGED <<yamls, pods, spaces, objects>>
      /\ ask' = [a \in Ask |-> IF ask[a].pc \in {"idle", "done"} THEN ask[a]
                               ELSE [ask[a] EXCEPT !.pc = "done", !.end = "lost"]]
  BY DEF Restarts, World
<1>3. events' \in 0 .. MaxEvents /\ apiClients' \subseteq Profile
  <2>1. yamls \subseteq Profile /\ events \in 0 .. MaxEvents
    BY DEF KubeInv
  <2>. QED  BY <1>1, <2>1, KubeAssumption DEF Happens, KubeAssumption
<1>4. ASSUME NEW a \in Ask PROVE ask'[a] \in AskRecord /\ AskFits(ask'[a], objects)
  <2>. DEFINE x == ask[a]
              y == [x EXCEPT !.pc = "done", !.end = "lost"]
  <2>1. x \in AskRecord /\ AskFits(x, objects) /\ (ask'[a] = x \/ ask'[a] = y)
    BY <1>2 DEF KubeInv
  <2>. HIDE DEF x
  <2>2. /\ y \in AskRecord /\ y.op = x.op /\ y.pc = "done" /\ y.end = "lost"
        /\ y.told = x.told /\ y.seen = x.seen
    BY <2>1 DEF AskRecord, AskEnd
  <2>. HIDE DEF y
  <2>3. AskFits(y, objects)
    BY <2>1, <2>2 DEF AskFits, UnderWay, Under, LookerFits, TeardownFits, ReaderFits
  <2>. QED  BY <2>1, <2>2, <2>3
<1>5. ask' = [a \in Ask |-> ask'[a]]
  BY <1>2
<1>6. ask' \in [Ask -> AskRecord]
  BY <1>4, <1>5
<1>. QED  BY <1>2, <1>3, <1>4, <1>6 DEF KubeInv

LEMMA WorldKeeps ==
    ASSUME KubeInv,
           \/ \E r \in Release : PodsRoll(r)
           \/ \E p \in Profile : YamlChanges(p)
           \/ UNCHANGED kubeVars
    PROVE  KubeInv'
<1>1. UNCHANGED <<spaces, apiClients, objects, ask>>
  BY DEF PodsRoll, YamlChanges, kubeVars
<1>2. events' \in 0 .. MaxEvents
  BY KubeAssumption DEF PodsRoll, YamlChanges, Happens, kubeVars, KubeInv, KubeAssumption
<1>3. yamls' \subseteq Profile
  BY DEF PodsRoll, YamlChanges, kubeVars, KubeInv
<1>4. pods' \in [Release -> SUBSET Pod]
  BY DEF PodsRoll, YamlChanges, kubeVars, KubeInv
<1>. QED  BY <1>1, <1>2, <1>3, <1>4 DEF KubeInv

LEMMA StepKeepsKube == KubeInv /\ [KubeNext]_kubeVars => KubeInv'
<1>. SUFFICES ASSUME KubeInv, [KubeNext]_kubeVars PROVE KubeInv'
  OBVIOUS
<1>1. ASSUME NEW a \in Ask, AskStep(a) PROVE KubeInv'
  BY <1>1, EnsuresKeep, SkipsKeep, TeardownKeeps, ProbeKeeps, LogsListed, LogsReadKeep DEF AskStep
<1>2. ASSUME NEW a \in Ask, NEW list \in Lists,
             AskStarts(a, "teardown", list) \/ AskStarts(a, "has", list)
      PROVE  KubeInv'
  <2>1. list \in Seq(Release) \ {<<>>}
    BY ListsAssumption DEF ListsAssumption
  <2>. QED  BY <1>2, <2>1, StartsKube DEF Ops
<1>3. ASSUME NEW a \in Ask, NEW r \in Release,
             AskStarts(a, "ensure", <<r>>) \/ AskStarts(a, "logs", <<r>>)
      PROVE  KubeInv'
  <2>1. <<r>> \in Seq(Release) \ {<<>>}
    OBVIOUS
  <2>. QED  BY <1>3, <2>1, StartsKube DEF Ops
<1>. QED  BY <1>1, <1>2, <1>3, DeploysKeep, RestartsKeep, WorldKeeps DEF KubeNext

-----------------------------------------------------------------------------
(* The invariant behind everything below: a call under way has the rest of  *)
(* its releases before it, and what it has passed is as it claims.          *)
THEOREM KubeInvariant == KubeSpec => []KubeInv
<1>. QED  BY InitKube, StepKeepsKube, PTL DEF KubeSpec

LEMMA KubeTypes == KubeInv => KubeTypeOK
BY DEF KubeInv, KubeTypeOK, AskRecord, AskEnd, AskFits, UnderWay

(* The state of the client and of the clusters is always well formed.       *)
THEOREM KubeTyped == KubeSpec => []KubeTypeOK
BY KubeTypes, KubeInvariant, PTL

(* hasReleaseInTargets never answers that no release remains while one ran  *)
(* all along where the API can reach it.                                    *)
THEOREM VerdictIsSafe == KubeSpec => []VerdictErrsSafe
<1>1. KubeInv => VerdictErrsSafe
  BY DEF KubeInv, VerdictErrsSafe, AskFits, LookerFits
<1>. QED  BY <1>1, KubeInvariant, PTL

(* teardownProjectTargets leaves none of the kinds it deletes of a release  *)
(* none of whose deletions failed, whatever half of it an earlier teardown  *)
(* had left.  The kinds it does not know (ChartOnly) it leaves.             *)
THEOREM TeardownClears == KubeSpec => []RetryFinishes
<1>1. KubeInv => RetryFinishes
  BY DEF KubeInv, RetryFinishes, AskIs, AskFits, TeardownFits, Lacks
<1>. QED  BY <1>1, KubeInvariant, PTL

(* readReleaseContainerLogs tells of every pod of its listing, or says that *)
(* it shows no more than so many of them.                                   *)
THEOREM LogsAreComplete == KubeSpec => []LogsTellOfEveryPod
<1>1. KubeInv => LogsTellOfEveryPod
  BY DEF KubeInv, LogsTellOfEveryPod, AskIs, AskFits, ReaderFits
<1>. QED  BY <1>1, KubeInvariant, PTL

=============================================================================
