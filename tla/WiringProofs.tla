---------------------------- MODULE WiringProofs ----------------------------
(***************************************************************************)
(* What holds of the targets and profiles of a project for any number of   *)
(* requests, of any kind, however they interleave and wherever they fail.  *)
(* The plan of a request is taken as the set of calls it has still to make *)
(* and two facts about their order: no call comes before one of a lower    *)
(* rank, and a write of what was read comes right after its read.          *)
(***************************************************************************)
EXTENDS ProjectWiring, FiniteSetTheorems, SequenceTheorems, TLAPS

(* What a plan saves comes after what it writes outside and before what it  *)
(* only refreshes; a migration commits the chart first.                     *)
Rank(op, c) ==
    IF c.c = "save" THEN IF c.new.legacy THEN 1 ELSE 2
    ELSE IF c.c \in {"index", "app-host", "reject"} \/ (c.c = "chart" /\ op # "migrate") THEN 3
    ELSE 0

Sorted(op, s) == \A i, j \in 1 .. Len(s) : i < j => Rank(op, s[i]) <= Rank(op, s[j])

Second(c) == c.c \in {"merge", "commit", "root"}
Goes(a, b) ==
    /\ b.c = "merge" => a.c = "read" /\ a.k = b.k
    /\ b.c \in {"commit", "root"} => a.c = "read-root" /\ a.b = b.b
Paired(s) == \A i \in 1 .. Len(s) - 1 : Second(s[i + 1]) => Goes(s[i], s[i + 1])

(* A list of calls: those of S, in order.                                   *)
Lists(op, s, S) ==
    /\ s \in Seq(S) /\ Range(s) = S
    /\ Sorted(op, s) /\ Paired(s) /\ (s # <<>> => ~Second(s[1]))

LEMMA RankNat == ASSUME NEW op, NEW c PROVE Rank(op, c) \in 0 .. 3
BY DEF Rank

LEMMA ListsNone == ASSUME NEW op PROVE Lists(op, <<>>, {})
BY DEF Lists, Range, Sorted, Paired

LEMMA ListsOne == ASSUME NEW op, NEW c, ~Second(c) PROVE Lists(op, <<c>>, {c})
<1>1. Len(<<c>>) = 1 /\ <<c>>[1] = c /\ DOMAIN <<c>> = 1 .. 1 /\ <<c>> \in Seq({c})
  OBVIOUS
<1>2. Range(<<c>>) = {c}
  BY <1>1 DEF Range
<1>. QED  BY <1>1, <1>2 DEF Lists, Sorted, Paired

LEMMA ListsTwo ==
    ASSUME NEW op, NEW c, NEW d, ~Second(c), Second(d) => Goes(c, d), Rank(op, c) <= Rank(op, d)
    PROVE  Lists(op, <<c, d>>, {c, d})
<1>. DEFINE s == <<c, d>>
<1>1. Len(s) = 2 /\ s[1] = c /\ s[2] = d /\ DOMAIN s = 1 .. 2 /\ s \in Seq({c, d})
  OBVIOUS
<1>. HIDE DEF s
<1>2. Range(s) = {c, d}
  BY <1>1 DEF Range
<1>3. Sorted(op, s)
  BY <1>1 DEF Sorted
<1>4. Paired(s)
  BY <1>1 DEF Paired
<1>. QED  BY <1>1, <1>2, <1>3, <1>4 DEF Lists

(* A set of calls of one rank, in any order.                                *)
LEMMA InAnyOrder ==
    ASSUME NEW S, IsFiniteSet(S)
    PROVE  /\ SetToSeq(S) \in Seq(S) /\ Range(SetToSeq(S)) = S
           /\ Len(SetToSeq(S)) = Cardinality(S)
           /\ IsInjective(SetToSeq(S))
<1>. DEFINE n == Cardinality(S)
            s == SetToSeq(S)
<1>1. n \in Nat /\ ExistsBijection(1 .. n, S)
  BY FS_CardinalityType
<1>2. PICK f \in Bijection(1 .. n, S) : TRUE
  BY <1>1 DEF ExistsBijection
<1>3. f \in [1 .. n -> S] /\ IsInjective(f)
  BY <1>2 DEF Bijection, Injection, IsInjective
<1>4. s \in [1 .. n -> S] /\ IsInjective(s)
  BY <1>3 DEF SetToSeq
<1>. HIDE DEF s
<1>5. s \in Injection(1 .. n, S)
  BY <1>4 DEF Injection, IsInjective
<1>6. Cardinality(1 .. n) = n
  BY <1>1, FS_Interval
<1>7. s \in Surjection(1 .. n, S)
  BY <1>5, <1>6, FS_Injection
<1>8. Range(s) = S
  BY <1>4, <1>7 DEF Range, Surjection
<1>9. s \in Seq(S) /\ Len(s) = n
  BY <1>1, <1>4
<1>. QED  BY <1>4, <1>8, <1>9 DEF s

LEMMA ListsSome ==
    ASSUME NEW op, NEW S, IsFiniteSet(S), \A c \in S : ~Second(c),
           \A c, d \in S : Rank(op, c) = Rank(op, d)
    PROVE  Lists(op, SetToSeq(S), S)
<1>. DEFINE s == SetToSeq(S)
<1>1. s \in Seq(S) /\ Range(s) = S
  BY InAnyOrder
<1>. HIDE DEF s
<1>2. Len(s) \in Nat /\ \A i \in 1 .. Len(s) : s[i] \in S
  BY <1>1
<1>3. Sorted(op, s)
  BY <1>2, RankNat DEF Sorted
<1>4. Paired(s)
  BY <1>2 DEF Paired
<1>5. s # <<>> => ~Second(s[1])
  BY <1>1, <1>2
<1>. QED  BY <1>1, <1>3, <1>4, <1>5 DEF Lists, s

(* One list after another.                                                  *)
LEMMA ListsBoth ==
    ASSUME NEW op, NEW s, NEW S, Lists(op, s, S), NEW t, NEW T, Lists(op, t, T),
           \A c \in S, d \in T : Rank(op, c) <= Rank(op, d)
    PROVE  Lists(op, s \o t, S \cup T)
<1>. DEFINE u == s \o t
            m == Len(s)
            n == Len(t)
<1>1. s \in Seq(S \cup T) /\ t \in Seq(S \cup T) /\ m \in Nat /\ n \in Nat
  BY DEF Lists
<1>2. /\ u \in Seq(S \cup T) /\ Len(u) = m + n
      /\ \A i \in 1 .. m : u[i] = s[i]
      /\ \A i \in m + 1 .. m + n : u[i] = t[i - m]
  BY <1>1
<1>. HIDE DEF u, m, n
<1>3. /\ \A i \in 1 .. m : s[i] \in S
      /\ \A i \in 1 .. n : t[i] \in T
      /\ \A c \in S : \E i \in 1 .. m : c = s[i]
      /\ \A c \in T : \E i \in 1 .. n : c = t[i]
  BY <1>1 DEF Lists, Range, m, n
<1>4. Range(u) = S \cup T
  <2>1. \A c \in Range(u) : c \in S \cup T
    BY <1>2 DEF Range
  <2>2. ASSUME NEW c \in S PROVE c \in Range(u)
    <3>1. PICK i \in 1 .. m : c = s[i]
      BY <1>3
    <3>2. i \in DOMAIN u /\ u[i] = c
      BY <1>1, <1>2, <3>1
    <3>. QED  BY <3>2 DEF Range
  <2>3. ASSUME NEW c \in T PROVE c \in Range(u)
    <3>1. PICK i \in 1 .. n : c = t[i]
      BY <1>3
    <3>2. i + m \in DOMAIN u /\ u[i + m] = c
      BY <1>1, <1>2, <3>1
    <3>. QED  BY <3>2 DEF Range
  <2>. QED  BY <2>1, <2>2, <2>3
<1>5. Sorted(op, u)
  <2>. SUFFICES ASSUME NEW i \in 1 .. Len(u), NEW j \in 1 .. Len(u), i < j
                PROVE  Rank(op, u[i]) <= Rank(op, u[j])
    BY DEF Sorted
  <2>1. CASE j \in 1 .. m
    <3>1. i \in 1 .. m
      BY <1>1, <2>1
    <3>. QED  BY <1>2, <2>1, <3>1 DEF Lists, Sorted, m
  <2>2. CASE i \in m + 1 .. m + n
    <3>1. i - m \in 1 .. n /\ j - m \in 1 .. n /\ i - m < j - m /\ j \in m + 1 .. m + n
      BY <1>1, <1>2, <2>2
    <3>. QED  BY <1>2, <2>2, <3>1 DEF Lists, Sorted, n
  <2>3. CASE i \in 1 .. m /\ j \in m + 1 .. m + n
    <3>1. j - m \in 1 .. n
      BY <1>1, <2>3
    <3>. QED  BY <1>2, <1>3, <2>3, <3>1
  <2>. QED  BY <1>1, <1>2, <2>1, <2>2, <2>3
<1>6. Paired(u)
  <2>. SUFFICES ASSUME NEW i \in 1 .. Len(u) - 1, Second(u[i + 1])
                PROVE  Goes(u[i], u[i + 1])
    BY DEF Paired
  <2>1. CASE i + 1 \in 1 .. m
    <3>1. i \in 1 .. m /\ i \in 1 .. m - 1
      BY <1>1, <1>2, <2>1
    <3>. QED  BY <1>2, <2>1, <3>1 DEF Lists, Paired, m
  <2>2. CASE i = m
    <3>1. u[i + 1] = t[1] /\ t # <<>>
      BY <1>1, <1>2, <2>2 DEF n
    <3>. QED  BY <3>1 DEF Lists
  <2>3. CASE i \in m + 1 .. m + n
    <3>1. i - m \in 1 .. n - 1 /\ i + 1 - m = (i - m) + 1 /\ i + 1 \in m + 1 .. m + n
      BY <1>1, <1>2, <2>3
    <3>2. u[i] = t[i - m] /\ u[i + 1] = t[(i - m) + 1]
      BY <1>1, <1>2, <2>3, <3>1
    <3>. QED  BY <3>1, <3>2 DEF Lists, Paired, n
  <2>. QED  BY <1>1, <1>2, <2>1, <2>2, <2>3
<1>7. u # <<>> => ~Second(u[1])
  <2>1. CASE m = 0
    <3>1. s = <<>>
      BY <1>1, <2>1 DEF m
    <3>2. u = t
      BY <1>1, <3>1 DEF u
    <3>. QED  BY <3>2 DEF Lists
  <2>2. CASE m # 0
    <3>1. s # <<>> /\ u[1] = s[1]
      BY <1>1, <1>2, <2>2 DEF m
    <3>. QED  BY <3>1 DEF Lists
  <2>. QED  BY <2>1, <2>2
<1>. QED  BY <1>2, <1>4, <1>5, <1>6, <1>7 DEF Lists, u

(* What is left once the first call of a list is made.                      *)
Left(op, s, t) ==
    /\ Range(t) \subseteq Range(s) /\ Range(s) \subseteq Range(t) \cup {Head(s)}
    /\ Head(s) \in Range(s)
    /\ Sorted(op, t) /\ Paired(t)
    /\ \A c \in Range(t) : Rank(op, Head(s)) <= Rank(op, c)
    /\ t # <<>> /\ Second(t[1]) => Goes(Head(s), t[1])

LEMMA ListsRest ==
    ASSUME NEW op, NEW S, NEW s \in Seq(S), s # <<>>, Sorted(op, s), Paired(s)
    PROVE  Tail(s) \in Seq(S) /\ Left(op, s, Tail(s))
<1>. DEFINE t == Tail(s)
            n == Len(s)
<1>1. /\ n \in Nat \ {0} /\ t \in Seq(S) /\ Len(t) = n - 1 /\ Head(s) = s[1]
      /\ \A i \in 1 .. n - 1 : t[i] = s[i + 1]
      /\ DOMAIN s = 1 .. n /\ DOMAIN t = 1 .. n - 1
  OBVIOUS
<1>. HIDE DEF t, n
<1>2. \A i \in 1 .. n - 1 : i + 1 \in 1 .. n
  BY <1>1
<1>3. Range(t) \subseteq Range(s)
  BY <1>1, <1>2 DEF Range
<1>4. Range(s) \subseteq Range(t) \cup {Head(s)}
  <2>. SUFFICES ASSUME NEW i \in 1 .. n, i # 1 PROVE s[i] \in Range(t)
    BY <1>1 DEF Range
  <2>1. i - 1 \in 1 .. n - 1 /\ t[i - 1] = s[i]
    BY <1>1
  <2>. QED  BY <1>1, <2>1 DEF Range
<1>5. Head(s) \in Range(s)
  BY <1>1 DEF Range
<1>6. Sorted(op, t)
  <2>. SUFFICES ASSUME NEW i \in 1 .. Len(t), NEW j \in 1 .. Len(t), i < j
                PROVE  Rank(op, t[i]) <= Rank(op, t[j])
    BY DEF Sorted
  <2>1. i + 1 \in 1 .. n /\ j + 1 \in 1 .. n /\ i + 1 < j + 1
    BY <1>1
  <2>2. t[i] = s[i + 1] /\ t[j] = s[j + 1]
    BY <1>1
  <2>. QED  BY <2>1, <2>2 DEF Sorted, n
<1>7. Paired(t)
  <2>. SUFFICES ASSUME NEW i \in 1 .. Len(t) - 1, Second(t[i + 1]) PROVE Goes(t[i], t[i + 1])
    BY DEF Paired
  <2>1. i + 1 \in 1 .. n - 1 /\ i \in 1 .. n - 1
    BY <1>1
  <2>2. t[i] = s[i + 1] /\ t[i + 1] = s[(i + 1) + 1]
    BY <1>1, <2>1
  <2>. QED  BY <2>1, <2>2 DEF Paired, n
<1>8. ASSUME NEW c \in Range(t) PROVE Rank(op, Head(s)) <= Rank(op, c)
  <2>1. PICK i \in 1 .. n - 1 : c = t[i]
    BY <1>1 DEF Range
  <2>2. 1 \in 1 .. n /\ i + 1 \in 1 .. n /\ 1 < i + 1 /\ c = s[i + 1]
    BY <1>1, <2>1
  <2>. QED  BY <1>1, <2>2 DEF Sorted, n
<1>9. t # <<>> /\ Second(t[1]) => Goes(Head(s), t[1])
  <2>. SUFFICES ASSUME t # <<>>, Second(t[1]) PROVE Goes(Head(s), t[1])
    OBVIOUS
  <2>1. 1 \in 1 .. n - 1
    BY <1>1
  <2>2. t[1] = s[1 + 1]
    BY <1>1, <2>1
  <2>. QED  BY <1>1, <2>1, <2>2 DEF Paired, n
<1>. QED  BY <1>1, <1>3, <1>4, <1>5, <1>6, <1>7, <1>8, <1>9 DEF Left, t

ReadOf(k) == [c |-> "read", k |-> k]
MergeOf(k, minus, plus, body) ==
    [c |-> "merge", k |-> k, minus |-> minus, plus |-> plus, body |-> body]

LEMMA ListsMerges ==
    ASSUME NEW op, NEW T, IsFiniteSet(T), NEW minus, NEW plus, NEW body
    PROVE  Lists(op, MergeInto(T, minus, plus, body),
                 {ReadOf(k) : k \in T} \cup {MergeOf(k, minus, plus, body) : k \in T})
<1>. DEFINE s == SetToSeq(T)
            n == Len(s)
            u == MergeInto(T, minus, plus, body)
            S == {ReadOf(k) : k \in T} \cup {MergeOf(k, minus, plus, body) : k \in T}
<1>1. s \in Seq(T) /\ Range(s) = T /\ n \in Nat
  BY InAnyOrder
<1>2. u = [i \in 1 .. 2 * n |-> IF i % 2 = 1 THEN ReadOf(s[(i + 1) \div 2])
                                ELSE MergeOf(s[i \div 2], minus, plus, body)]
  BY DEF MergeInto, ReadOf, MergeOf
<1>. HIDE DEF s, n, u
<1>3. \A i \in 1 .. n : s[i] \in T
  BY <1>1 DEF n
<1>4. \A k \in T : \E i \in 1 .. n : k = s[i]
  BY <1>1 DEF Range, n
<1>5. \A i \in 1 .. 2 * n :
         /\ i % 2 = 1 => (i + 1) \div 2 \in 1 .. n
         /\ i % 2 # 1 => i \div 2 \in 1 .. n
  BY <1>1
<1>6. u \in Seq(S) /\ Len(u) = 2 * n
  <2>1. \A i \in 1 .. 2 * n : u[i] \in S
    BY <1>2, <1>3, <1>5
  <2>2. 2 * n \in Nat
    BY <1>1
  <2>. HIDE DEF S
  <2>. QED  BY <1>2, <2>1, <2>2
<1>7. Range(u) = S
  <2>1. Range(u) \subseteq S
    BY <1>6 DEF Range
  <2>2. ASSUME NEW k \in T PROVE ReadOf(k) \in Range(u) /\ MergeOf(k, minus, plus, body) \in Range(u)
    <3>1. PICK i \in 1 .. n : k = s[i]
      BY <1>4
    <3>2. 2 * i - 1 \in 1 .. 2 * n /\ (2 * i - 1) % 2 = 1 /\ (2 * i - 1 + 1) \div 2 = i
      BY <1>1
    <3>3. 2 * i \in 1 .. 2 * n /\ (2 * i) % 2 # 1 /\ (2 * i) \div 2 = i
      BY <1>1
    <3>4. u[2 * i - 1] = ReadOf(k)
      BY <1>2, <3>1, <3>2
    <3>5. u[2 * i] = MergeOf(k, minus, plus, body)
      BY <1>2, <3>1, <3>3
    <3>6. DOMAIN u = 1 .. 2 * n
      BY <1>2
    <3>. QED  BY <3>2, <3>3, <3>4, <3>5, <3>6 DEF Range
  <2>. QED  BY <2>1, <2>2
<1>8. Sorted(op, u)
  <2>1. \A c \in S : Rank(op, c) = 0
    BY DEF Rank, ReadOf, MergeOf
  <2>2. \A i \in 1 .. Len(u) : u[i] \in S
    BY <1>6
  <2>. HIDE DEF S
  <2>. QED  BY <2>1, <2>2 DEF Sorted
<1>9. Paired(u)
  <2>. SUFFICES ASSUME NEW i \in 1 .. Len(u) - 1, Second(u[i + 1]) PROVE Goes(u[i], u[i + 1])
    BY DEF Paired
  <2>1. i \in 1 .. 2 * n /\ i + 1 \in 1 .. 2 * n
    BY <1>1, <1>6
  <2>2. (i + 1) % 2 # 1
    BY <1>2, <2>1 DEF Second, ReadOf
  <2>3. i % 2 = 1
    BY <1>1, <2>1, <2>2
  <2>4. u[i] = ReadOf(s[(i + 1) \div 2]) /\ u[i + 1] = MergeOf(s[(i + 1) \div 2], minus, plus, body)
    BY <1>2, <2>1, <2>2, <2>3
  <2>. QED  BY <2>4 DEF Goes, ReadOf, MergeOf
<1>10. u # <<>> => ~Second(u[1])
  <2>. SUFFICES ASSUME u # <<>> PROVE ~Second(u[1])
    OBVIOUS
  <2>1. 1 \in 1 .. 2 * n /\ 1 % 2 = 1
    BY <1>1, <1>6
  <2>2. u[1] = ReadOf(s[(1 + 1) \div 2])
    BY <1>2, <2>1
  <2>. QED  BY <2>2 DEF Second, ReadOf
<1>. QED  BY <1>6, <1>7, <1>8, <1>9, <1>10 DEF Lists, u

-----------------------------------------------------------------------------
(***************************************************************************)
(* The types of the state.                                                 *)
(***************************************************************************)
GoodTarget == {t \in Target : AppsOf(t) # {}}
Doc == [ver : Nat, profiles : [Profile -> StoredProfile \cup {Nil}], runtime : BOOLEAN,
        pinned : BOOLEAN, legacy : BOOLEAN, deployable : BOOLEAN, app : App,
        targets : [Key -> GoodTarget \cup {Nil}]]
Vault == [target : [Key -> SUBSET (RtKey \cup {Seed})],
          body : [Profile -> (SUBSET RtKey) \cup {Nil}],
          index : SUBSET (Profile \X SUBSET Branch)]
AnyHost == Host \cup {Nil} \cup (Key \X App)
Jobs == [deploy : SUBSET (Key \X App), off : SUBSET Standard, build : SUBSET (App \X Key)]

(* The root files that branch b can hold: what its users wrote, with other  *)
(* includes.                                                                *)
RootsOf(b) ==
    {f \in [shape : Shape, jobs : {UserRoots[b].jobs},
            includes : (SUBSET Managed) \cup {UserRoots[b].includes}] :
        /\ f.shape \in {"absent", "scalar"} => f.jobs = {}
        /\ f.shape = "garbage" <=> UserRoots[b].shape = "garbage"}
AnyRoot == UNION {RootsOf(b) : b \in Branch}
GitLab == [ref : [Key -> Branch \cup {NoRef, Nil}], host : [Key -> [App -> AnyHost]],
           jobs : [Branch -> Jobs], root : [Branch -> AnyRoot],
           chart : [Branch -> BOOLEAN \cup {Nil}]]

(* What a call carries.                                                     *)
Typed(c) ==
    /\ c.c \in {"teardown", "unscope", "seed", "publish", "no-ref", "app-host", "read-root",
                "commit", "root", "chart", "read", "merge", "body", "read-body", "drop-body",
                "index", "reject", "save"}
    /\ c.c \in {"teardown", "unscope", "app-host"} => c.k \in Key /\ c.a \in App
    /\ c.c \in {"seed", "publish", "no-ref", "read", "merge"} => c.k \in Key
    /\ c.c = "publish" => c.t \in GoodTarget
    /\ c.c = "app-host" => c.h \in Host
    /\ c.c \in {"read-root", "commit", "root", "chart"} => c.b \in Branch
    /\ c.c = "chart" => c.on \in BOOLEAN
    /\ c.c = "merge" => c.minus \subseteq RtKey /\ c.plus \subseteq RtKey
    /\ c.c \in {"body", "read-body", "drop-body"} => c.p \in Profile
    /\ c.c = "body" => c.names \subseteq RtKey
    /\ c.c = "index" => c.profiles \subseteq Profile \X SUBSET Branch
    /\ c.c = "save" => c.new \in Doc /\ c.at \in Profile \cup {Nil}

(* What a save may change in a document d.                                  *)
SaveFits(o, d, c) ==
    /\ c.new.legacy => d.legacy
    /\ c.at # Nil => /\ o.op \in {"content", "metadata"} /\ c.at = o.profile
                     /\ d.profiles[c.at] # Nil /\ c.new.profiles[c.at] # Nil
    /\ c.at = Nil => o.op \notin {"content", "metadata"}
    /\ \A p \in Profile :
          c.new.profiles[p] # d.profiles[p] =>
             /\ o.op \in {"upload", "content", "metadata", "drop"} /\ p = o.profile
             /\ c.new.profiles[p] = Nil => o.op = "drop"
             /\ d.profiles[p] = Nil => o.op = "upload"
SavesFit(o, d, S) ==
    /\ \A c \in S : c.c = "save" => SaveFits(o, d, c)
    /\ \A c, e \in S : c.c = "save" /\ e.c = "save" /\ Rank(o.op, c) <= Rank(o.op, e)
                       => SaveFits(o, c.new, e)

(* What is in memory when the next call is a write of what was read.        *)
Memory == [secret : SUBSET (RtKey \cup {Seed}), body : SUBSET RtKey,
           root : AnyRoot \cup {NoRoot}]
Remembers(s, m) == s # <<>> /\ s[1].c \in {"commit", "root"} => m.root \in RootsOf(s[1].b)

Place == {"idle", "busy", "done", "failed", "rejected"}
ReqField == {"st", "op", "doc", "todo", "mem", "wrote"}
ReqOK(x) ==
    /\ DOMAIN x = ReqField
    /\ x.st \in Place /\ x.wrote \in BOOLEAN
    /\ x.st # "idle" => x.op \in Ops
    /\ x.st = "idle" => x.op = [op |-> "none"]
    /\ x.st # "busy" => x.todo = <<>>
    /\ x.st = "busy" =>
          /\ x.doc \in Doc /\ x.mem \in Memory
          /\ x.todo \in Seq(Range(x.todo)) /\ Sorted(x.op.op, x.todo) /\ Paired(x.todo)
          /\ Remembers(x.todo, x.mem)
          /\ \A c \in Range(x.todo) : Typed(c)
          /\ SavesFit(x.op, x.doc, Range(x.todo))

WiringInv ==
    /\ row \in Doc /\ vault \in Vault /\ gitlab \in GitLab /\ releases \subseteq Key \X App
    /\ \A b \in Branch : gitlab.root[b] \in RootsOf(b)
    /\ DOMAIN req = Req /\ \A r \in Req : ReqOK(req[r])

(* Branches, rows and profiles over time.                                   *)
Charted(b) == gitlab.chart[b] # Nil
Included(b) == "template" \in gitlab.root[b].includes \/ UserRoots[b].shape = "garbage"
Wired(b) == Charted(b) /\ Included(b)
WillWire(S, b) ==
    /\ Charted(b) \/ \E c \in S : c.c = "chart" /\ c.b = b
    /\ Included(b) \/ \E c \in S : c.c \in {"commit", "root"} /\ c.b = b
FlagInv ==
    /\ ~row.legacy => \E b \in Branch : Wired(b)
    /\ \A r \in Req : req[r].st = "busy" =>
          /\ ~req[r].doc.legacy => ~row.legacy
          /\ \A c \in Range(req[r].todo) : c.c = "save" /\ ~c.new.legacy =>
                ~row.legacy \/ (req[r].op.op = "migrate"
                                /\ \E b \in Branch : WillWire(Range(req[r].todo), b))

Dropped(p) == \E q \in OpsOf({"drop"}) : req[q].op.profile = p
Kept(p) == row.profiles[p] # Nil \/ Dropped(p)
Brings(S, p) == \E c \in S : c.c = "save" /\ c.new.profiles[p] # Nil
VersionFits(doc) ==
    /\ doc.ver <= row.ver
    /\ doc.ver = row.ver => \A p \in Profile : doc.profiles[p] = Nil <=> row.profiles[p] = Nil
    /\ \A p \in Profile : doc.profiles[p] # Nil => Kept(p)
WritesBody(S, p) == \E c \in S : c.c = "body" /\ c.p = p
ProfileFits(x) ==
    LET S == Range(x.todo)
    IN  /\ VersionFits(x.doc)
        /\ \A c \in S : /\ c.c = "drop-body" => x.op.op = "drop" /\ c.p = x.op.profile
                        /\ c.c = "save" => \A p \in Profile : c.new.profiles[p] # Nil =>
                              vault.body[p] # Nil \/ Dropped(p) \/ WritesBody(S, p)
                        /\ c.c = "index" => \A e \in c.profiles : Kept(e[1]) \/ Brings(S, e[1])
ProfileInv ==
    /\ \A p \in Profile : row.profiles[p] # Nil => vault.body[p] # Nil \/ Dropped(p)
    /\ \A e \in vault.index : Kept(e[1])
    /\ \A r \in Req : req[r].st = "busy" => ProfileFits(req[r])
    /\ \A r \in OpsOf({"upload"}) :
          /\ req[r].st = "done" => Kept(req[r].op.profile)
          /\ req[r].st = "busy" => \/ Kept(req[r].op.profile)
                                   \/ Brings(Range(req[r].todo), req[r].op.profile)
                                   \/ \E c \in Range(req[r].todo) : c.c = "reject"

Apart(profiles) ==
    \A p, q \in Profile : p # q /\ profiles[p] # Nil /\ profiles[q] # Nil
                          => ~Overlaps(profiles[p], profiles[q])
ApartInv ==
    OpsOf({"content", "metadata"}) = {} =>
        /\ Apart(row.profiles)
        /\ \A r \in Req : \A c \in Range(req[r].todo) : c.c = "save" => Apart(c.new.profiles)

-----------------------------------------------------------------------------
(***************************************************************************)
(* The rules give targets of the right type.                               *)
(***************************************************************************)
LEMMA HostsTyped ==
    ASSUME NEW k \in Key, NEW apps \in SUBSET App, NEW asked \in [App -> Host \cup {Nil}],
           NEW on \in BOOLEAN,
           NEW ref \in Branch \cup {NoRef}
    PROVE  LET t == [on |-> on, ref |-> ref, host |-> HostsFor(k, apps, asked)]
           IN  t \in Target /\ AppsOf(t) = apps /\ t # Nil
<1>. DEFINE t == [on |-> on, ref |-> ref, host |-> HostsFor(k, apps, asked)]
<1>1. \A a \in App : /\ a \notin apps => HostsFor(k, apps, asked)[a] = Nil
                     /\ a \in apps => /\ HostsFor(k, apps, asked)[a] # Nil
                                      /\ HostsFor(k, apps, asked)[a] \in Host \cup (Key \X App)
  <2>. TAKE a \in App
  <2>. DEFINE h == HostsFor(k, apps, asked)[a]
  <2>1. <<k, a>> \in Key \X App /\ <<k, a>> # Nil
    BY RefAssumption
  <2>2. h = IF a \notin apps THEN Nil
            ELSE IF asked[a] # Nil THEN asked[a] ELSE <<k, a>>
    BY DEF HostsFor, DerivedHost
  <2>. HIDE DEF h
  <2>. asked[a] \in Host \cup {Nil}
    OBVIOUS
  <2>3. a \notin apps => h = Nil
    BY <2>2
  <2>4. a \in apps => h # Nil /\ h \in Host \cup (Key \X App)
    BY <2>1, <2>2
  <2>. QED  BY <2>3, <2>4 DEF h
<1>2. HostsFor(k, apps, asked) \in [App -> Host \cup {Nil} \cup (Key \X App)]
  BY <1>1 DEF HostsFor
<1>3. t \in Target
  BY <1>2 DEF Target
<1>4. t # Nil
  BY <1>3, NilAssumption
<1>5. AppsOf(t) = apps
  BY <1>1, <1>4 DEF AppsOf
<1>. QED  BY <1>3, <1>4, <1>5

LEMMA DerivedTyped ==
    ASSUME NEW k \in Key, NEW app \in App, NEW deployable \in BOOLEAN
    PROVE  DeriveStandard(k, app, deployable) \in GoodTarget \cup {Nil}
<1>1. CASE k \in Standard
  <2>1. DefaultRef[k] \in Branch
    BY <1>1, RefAssumption
  <2>2. {app} \in SUBSET App /\ NoApps \in [App -> Host \cup {Nil}]
    BY DEF NoApps
  <2>3. (IF deployable THEN DefaultRef[k] ELSE NoRef) \in Branch \cup {NoRef}
    BY <2>1
  <2>4. DeriveStandard(k, app, deployable) \in Target /\ AppsOf(DeriveStandard(k, app, deployable)) = {app}
    BY <1>1, <2>2, <2>3, HostsTyped DEF DeriveStandard
  <2>. QED  BY <2>4 DEF GoodTarget
<1>2. CASE k \notin Standard
  BY <1>2 DEF DeriveStandard
<1>. QED  BY <1>1, <1>2

LEMMA Refers ==
    ASSUME NEW t \in GoodTarget, NEW ref \in Branch \cup {NoRef}
    PROVE  [t EXCEPT !.ref = ref] \in GoodTarget /\ AppsOf([t EXCEPT !.ref = ref]) = AppsOf(t)
<1>. DEFINE u == [t EXCEPT !.ref = ref]
<1>1. u \in Target /\ u.host = t.host
  BY DEF GoodTarget, Target
<1>2. u # Nil /\ t # Nil
  BY <1>1, NilAssumption DEF GoodTarget
<1>3. AppsOf(u) = AppsOf(t)
  BY <1>1, <1>2 DEF AppsOf
<1>. QED  BY <1>1, <1>3 DEF GoodTarget

LEMMA OverriddenTyped ==
    ASSUME NEW ts \in [Key -> GoodTarget \cup {Nil}], NEW opts \in DeployBranchOptionsInput
    PROVE  Overridden(ts, opts) \in [Key -> GoodTarget \cup {Nil}]
<1>. SUFFICES ASSUME NEW k \in Key, ts[k] # Nil
              PROVE  [ts[k] EXCEPT !.ref = OverriddenRef(k, ts[k], opts)] \in GoodTarget
  BY DEF Overridden
<1>1. ts[k] \in GoodTarget /\ ts[k].ref \in Branch \cup {NoRef}
  BY DEF GoodTarget, Target
<1>2. /\ opts.main \in Branch \cup {Nil}
      /\ k \in Standard => opts.refs[k] \in Branch \cup {Nil}
  BY DEF DeployBranchOptionsInput, DeployBranchRefsInput, Optional
<1>3. OverriddenRef(k, ts[k], opts) \in Branch \cup {NoRef}
  BY <1>1, <1>2 DEF OverriddenRef
<1>. QED  BY <1>1, <1>3, Refers

LEMMA SavedTyped ==
    ASSUME NEW k \in Key, NEW on \in BOOLEAN, NEW asked \in Branch \cup {NoRef, Nil},
           NEW old \in GoodTarget \cup {Nil}
    PROVE  SavedRef(k, on, asked, old) \in Branch \cup {NoRef, Nil}
<1>1. old # Nil => old.ref \in Branch \cup {NoRef}
  BY DEF GoodTarget, Target
<1>2. DefaultDeployRef(k) \in Branch \cup {Nil}
  BY RefAssumption DEF DefaultDeployRef
<1>. QED  BY <1>1, <1>2 DEF SavedRef

LEMMA InputTyped ==
    ASSUME NEW in, in.deployable \in BOOLEAN, in.app \in App,
           in.targets \in Optional([Key -> Optional(DeploymentTargetInput)]),
           in.opts \in DeployBranchOptionsInput,
           \A k \in Key : InitialTargets(in)[k] # Nil
                          => ValidRef(InitialTargets(in)[k].ref, InitialTargets(in)[k].on)
    PROVE  InitialTargets(in) \in [Key -> GoodTarget \cup {Nil}]
<1>. DEFINE first(k) == IF in.targets = Nil
                        THEN DeriveStandard(k, in.app, in.deployable)
                        ELSE IF in.targets[k] = Nil THEN Nil
                        ELSE InputTarget(k, in.targets[k], in.app, in.deployable)
            ts == InitialTargets(in)
            all == [k \in Key |-> first(k)]
<1>1. ts = Overridden(all, in.opts)
  BY DEF InitialTargets
<1>. SUFFICES ASSUME NEW k \in Key PROVE ts[k] \in GoodTarget \cup {Nil}
  BY <1>1 DEF Overridden
<1>2. ts[k] = IF first(k) = Nil THEN Nil
              ELSE [first(k) EXCEPT !.ref = OverriddenRef(k, first(k), in.opts)]
  BY <1>1 DEF Overridden
<1>3. CASE in.targets = Nil
  <2>1. first(k) \in GoodTarget \cup {Nil}
    BY <1>3, DerivedTyped
  <2>2. \A j \in Key : first(j) \in GoodTarget \cup {Nil}
    BY <1>3, DerivedTyped
  <2>3. all \in [Key -> GoodTarget \cup {Nil}]
    BY <2>2
  <2>. HIDE DEF all, first
  <2>. QED  BY <1>1, <2>3, OverriddenTyped DEF ts
<1>4. CASE in.targets # Nil /\ in.targets[k] = Nil
  <2>1. first(k) = Nil
    BY <1>4
  <2>. QED  BY <1>2, <2>1
<1>5. CASE in.targets # Nil /\ in.targets[k] # Nil
  <2>. DEFINE i == in.targets[k]
              on == IF i.on = Nil THEN in.deployable ELSE i.on
              ref == SavedRef(k, on, i.ref, Nil)
              apps == IF i.apps = {} THEN {in.app} ELSE i.apps
              asked == IF i.apps = {} THEN [NoApps EXCEPT ![in.app] = i.host] ELSE i.hosts
              host == HostsFor(k, apps, asked)
              t == [on |-> on, ref |-> ref, host |-> host]
              u == OverriddenRef(k, t, in.opts)
  <2>1. i \in DeploymentTargetInput
    BY <1>5 DEF Optional
  <2>2. /\ on \in BOOLEAN /\ i.ref \in Branch \cup {NoRef, Nil} /\ apps \in SUBSET App /\ apps # {}
        /\ i.host \in Host \cup {Nil} /\ i.hosts \in [App -> Host \cup {Nil}]
        /\ asked \in [App -> Host \cup {Nil}]
    BY <2>1 DEF DeploymentTargetInput, Optional, Ref, TargetAppInput, NoApps
  <2>3. ref \in Branch \cup {NoRef, Nil}
    BY <2>2, SavedTyped
  <2>4. first(k) = t
    BY <1>5 DEF InputTarget
  <2>5. /\ in.opts.main \in Branch \cup {Nil}
        /\ k \in Standard => in.opts.refs[k] \in Branch \cup {Nil}
    BY DEF DeployBranchOptionsInput, DeployBranchRefsInput, Optional
  <2>. HIDE DEF i, on, ref, apps, asked, host
  <2>6. u \in Branch \cup {NoRef, Nil} /\ (t # Nil => u \in Branch \cup {NoRef, ref})
    BY <2>3, <2>5 DEF OverriddenRef
  <2>7. CASE t = Nil
    <3>. QED  BY <1>2, <2>4, <2>7
  <2>8. CASE t # Nil
    <3>1. ts[k] = [on |-> on, ref |-> u, host |-> host]
      BY <1>2, <2>4, <2>8
    <3>2. CASE ts[k] = Nil
      BY <3>2
    <3>3. CASE ts[k] # Nil
      <4>1. u # Nil
        BY <3>1, <3>3 DEF ValidRef, ts
      <4>2. u \in Branch \cup {NoRef}
        BY <2>6, <4>1
      <4>. HIDE DEF u, ts, t
      <4>3. ts[k] \in Target /\ AppsOf(ts[k]) = apps
        BY <2>2, <3>1, <4>2, HostsTyped DEF host
      <4>. QED  BY <2>2, <4>3 DEF GoodTarget
    <3>. QED  BY <3>2, <3>3
  <2>. QED  BY <2>7, <2>8
<1>. QED  BY <1>3, <1>4, <1>5

-----------------------------------------------------------------------------
(***************************************************************************)
(* The pieces of the plans, and the calls that they list.                  *)
(***************************************************************************)
Early(op, S) == \A c \in S : Rank(op, c) = 0

LEMMA ListsEarly ==
    ASSUME NEW op, NEW s, NEW S, Lists(op, s, S), NEW t, NEW T, Lists(op, t, T), Early(op, S)
    PROVE  Lists(op, s \o t, S \cup T)
<1>1. \A c \in S, d \in T : Rank(op, c) <= Rank(op, d)
  BY RankNat DEF Early
<1>. QED  BY <1>1, ListsBoth

LEMMA SetsFinite ==
    /\ \A ts : IsFiniteSet(KeysOf(ts))
    /\ \A S \in SUBSET Key : IsFiniteSet(S)
    /\ \A S \in SUBSET App : IsFiniteSet(S)
    /\ \A S \in SUBSET Branch : IsFiniteSet(S)
<1>1. \A ts : KeysOf(ts) \subseteq Key
  BY DEF KeysOf
<1>. QED  BY <1>1, FiniteAssumption, FS_Subset

LEMMA ImageFinite ==
    ASSUME NEW T, IsFiniteSet(T), NEW F, NEW S, F \in [T -> S], S = {F[x] : x \in T}
    PROVE  IsFiniteSet(S)
<1>1. F \in Surjection(T, S)
  BY DEF Surjection
<1>. QED  BY <1>1, FS_Surjection

TeardownOf(k, a) == [c |-> "teardown", k |-> k, a |-> a]
SeedOf(k) == [c |-> "seed", k |-> k]
UnscopeOf(k, a) == [c |-> "unscope", k |-> k, a |-> a]
PublishOf(k, t) == [c |-> "publish", k |-> k, t |-> t]
NoRefOf(k) == [c |-> "no-ref", k |-> k]
ReadRootOf(b) == [c |-> "read-root", b |-> b]
CommitOf(b, ts) == [c |-> "commit", b |-> b, ts |-> ts]
RootOf(b, ts) == [c |-> "root", b |-> b, ts |-> ts]
ChartOf(b, on) == [c |-> "chart", b |-> b, on |-> on]
HostOf(k, a, h) == [c |-> "app-host", k |-> k, a |-> a, h |-> h]
BodyOf(p, names) == [c |-> "body", p |-> p, names |-> names]
ReadBodyOf(p) == [c |-> "read-body", p |-> p]
DropOf(p) == [c |-> "drop-body", p |-> p]
IndexCall(ps) == [c |-> "index", profiles |-> ps]
RejectOf == [c |-> "reject"]
SaveOf(new, at) == [c |-> "save", new |-> new, at |-> at]

Teardowns(k, apps) == {TeardownOf(k, a) : a \in apps}
Unscopes(k, apps) == {UnscopeOf(k, a) : a \in apps}
SeedCalls(ts) == {SeedOf(k) : k \in KeysOf(ts)}
Publishes(ts) == {PublishOf(k, ts[k]) : k \in KeysOf(ts)}
Merges(T, minus, plus, body) ==
    {ReadOf(k) : k \in T} \cup {MergeOf(k, minus, plus, body) : k \in T}
Charts(doc, branches) ==
    IF Deployable(doc) THEN {ChartOf(b, doc.runtime) : b \in branches} ELSE {}

LEMMA ListsTeardowns ==
    ASSUME NEW op, NEW k, NEW apps \in SUBSET App
    PROVE  Lists(op, Teardown(k, apps), Teardowns(k, apps)) /\ Early(op, Teardowns(k, apps))
<1>. DEFINE F == [a \in apps |-> TeardownOf(k, a)]
<1>1. IsFiniteSet(Teardowns(k, apps))
  <2>1. F \in [apps -> Teardowns(k, apps)] /\ Teardowns(k, apps) = {F[a] : a \in apps}
    BY DEF Teardowns
  <2>2. IsFiniteSet(apps)
    BY SetsFinite
  <2>. HIDE DEF F
  <2>. QED  BY <2>1, <2>2, ImageFinite
<1>2. \A c \in Teardowns(k, apps) : ~Second(c) /\ Rank(op, c) = 0
  BY DEF Teardowns, TeardownOf, Second, Rank
<1>3. Teardown(k, apps) = SetToSeq(Teardowns(k, apps))
  BY DEF Teardown, Teardowns, TeardownOf
<1>. QED  BY <1>1, <1>2, <1>3, ListsSome DEF Early

LEMMA ListsUnscopes ==
    ASSUME NEW op, NEW k, NEW apps \in SUBSET App
    PROVE  Lists(op, Unscope(k, apps), Unscopes(k, apps)) /\ Early(op, Unscopes(k, apps))
<1>. DEFINE F == [a \in apps |-> UnscopeOf(k, a)]
<1>1. IsFiniteSet(Unscopes(k, apps))
  <2>1. F \in [apps -> Unscopes(k, apps)] /\ Unscopes(k, apps) = {F[a] : a \in apps}
    BY DEF Unscopes
  <2>2. IsFiniteSet(apps)
    BY SetsFinite
  <2>. HIDE DEF F
  <2>. QED  BY <2>1, <2>2, ImageFinite
<1>2. \A c \in Unscopes(k, apps) : ~Second(c) /\ Rank(op, c) = 0
  BY DEF Unscopes, UnscopeOf, Second, Rank
<1>3. Unscope(k, apps) = SetToSeq(Unscopes(k, apps))
  BY DEF Unscope, Unscopes, UnscopeOf
<1>. QED  BY <1>1, <1>2, <1>3, ListsSome DEF Early

LEMMA ListsSeeds ==
    ASSUME NEW op, NEW ts
    PROVE  Lists(op, SeedAll(ts), SeedCalls(ts)) /\ Early(op, SeedCalls(ts))
<1>. DEFINE F == [k \in KeysOf(ts) |-> SeedOf(k)]
<1>1. IsFiniteSet(SeedCalls(ts))
  <2>1. F \in [KeysOf(ts) -> SeedCalls(ts)] /\ SeedCalls(ts) = {F[k] : k \in KeysOf(ts)}
    BY DEF SeedCalls
  <2>2. IsFiniteSet(KeysOf(ts))
    BY SetsFinite
  <2>. HIDE DEF F
  <2>. QED  BY <2>1, <2>2, ImageFinite
<1>2. \A c \in SeedCalls(ts) : ~Second(c) /\ Rank(op, c) = 0
  BY DEF SeedCalls, SeedOf, Second, Rank
<1>3. SeedAll(ts) = SetToSeq(SeedCalls(ts))
  BY DEF SeedAll, SeedCalls, SeedOf
<1>. QED  BY <1>1, <1>2, <1>3, ListsSome DEF Early

LEMMA ListsPublishes ==
    ASSUME NEW op, NEW ts
    PROVE  Lists(op, Publish(ts), Publishes(ts)) /\ Early(op, Publishes(ts))
<1>. DEFINE F == [k \in KeysOf(ts) |-> PublishOf(k, ts[k])]
<1>1. IsFiniteSet(Publishes(ts))
  <2>1. F \in [KeysOf(ts) -> Publishes(ts)] /\ Publishes(ts) = {F[k] : k \in KeysOf(ts)}
    BY DEF Publishes
  <2>2. IsFiniteSet(KeysOf(ts))
    BY SetsFinite
  <2>. HIDE DEF F
  <2>. QED  BY <2>1, <2>2, ImageFinite
<1>2. \A c \in Publishes(ts) : ~Second(c) /\ Rank(op, c) = 0
  BY DEF Publishes, PublishOf, Second, Rank
<1>3. Publish(ts) = SetToSeq(Publishes(ts))
  BY DEF Publish, Publishes, PublishOf
<1>. QED  BY <1>1, <1>2, <1>3, ListsSome DEF Early

LEMMA ListsCharts ==
    ASSUME NEW op, op # "migrate", NEW doc, NEW branches \in SUBSET Branch
    PROVE  Lists(op, RefreshCharts(doc, branches), Charts(doc, branches))
<1>. DEFINE F == [b \in branches |-> ChartOf(b, doc.runtime)]
            S == {ChartOf(b, doc.runtime) : b \in branches}
<1>1. IsFiniteSet(S)
  <2>1. F \in [branches -> S] /\ S = {F[b] : b \in branches}
    OBVIOUS
  <2>2. IsFiniteSet(branches)
    BY SetsFinite
  <2>. HIDE DEF F, S
  <2>. QED  BY <2>1, <2>2, ImageFinite
<1>2. \A c \in S : ~Second(c) /\ Rank(op, c) = 3
  BY DEF ChartOf, Second, Rank
<1>3. Deployable(doc) => RefreshCharts(doc, branches) = SetToSeq(S)
  BY DEF RefreshCharts, ChartOf
<1>4. Lists(op, SetToSeq(S), S)
  BY <1>1, <1>2, ListsSome
<1>. QED  BY <1>3, <1>4, ListsNone DEF Charts, RefreshCharts

LEMMA ListsMerge ==
    ASSUME NEW op, NEW T \in SUBSET Key, NEW minus, NEW plus, NEW body
    PROVE  /\ Lists(op, MergeInto(T, minus, plus, body), Merges(T, minus, plus, body))
           /\ Early(op, Merges(T, minus, plus, body))
<1>1. \A c \in Merges(T, minus, plus, body) : Rank(op, c) = 0
  BY DEF Merges, ReadOf, MergeOf, Rank
<1>. QED  BY <1>1, SetsFinite, ListsMerges DEF Early, Merges

LEMMA ListsCommit ==
    ASSUME NEW op, NEW b, NEW ts
    PROVE  /\ Lists(op, CommitCi(b, ts), {ReadRootOf(b), CommitOf(b, ts)})
           /\ Early(op, {ReadRootOf(b), CommitOf(b, ts)})
           /\ Lists(op, CommitRoot(b, ts), {ReadRootOf(b), RootOf(b, ts)})
           /\ Early(op, {ReadRootOf(b), RootOf(b, ts)})
<1>1. /\ ~Second(ReadRootOf(b)) /\ Goes(ReadRootOf(b), CommitOf(b, ts))
      /\ Goes(ReadRootOf(b), RootOf(b, ts))
  BY DEF Second, Goes, ReadRootOf, CommitOf, RootOf
<1>2. Rank(op, ReadRootOf(b)) = 0 /\ Rank(op, CommitOf(b, ts)) = 0 /\ Rank(op, RootOf(b, ts)) = 0
  BY DEF Rank, ReadRootOf, CommitOf, RootOf
<1>3. /\ CommitCi(b, ts) = <<ReadRootOf(b), CommitOf(b, ts)>>
      /\ CommitRoot(b, ts) = <<ReadRootOf(b), RootOf(b, ts)>>
  BY DEF CommitCi, CommitRoot, ReadRootOf, CommitOf, RootOf
<1>4. Lists(op, CommitCi(b, ts), {ReadRootOf(b), CommitOf(b, ts)})
  BY <1>1, <1>2, <1>3, ListsTwo
<1>5. Lists(op, CommitRoot(b, ts), {ReadRootOf(b), RootOf(b, ts)})
  BY <1>1, <1>2, <1>3, ListsTwo
<1>. QED  BY <1>2, <1>4, <1>5 DEF Early

(* The calls that a plan makes by themselves.                               *)
LEMMA ListsSingles ==
    ASSUME NEW op
    PROVE  /\ \A k : SeedTarget(k) = <<SeedOf(k)>> /\ Lists(op, SeedTarget(k), {SeedOf(k)})
           /\ \A k : PublishNoRef(k) = <<NoRefOf(k)>> /\ Lists(op, PublishNoRef(k), {NoRefOf(k)})
           /\ \A k, a, h : Lists(op, SetAppHost(k, a, h), {HostOf(k, a, h)})
           /\ \A p, names : Lists(op, WriteBody(p, names), {BodyOf(p, names)})
           /\ \A p : Lists(op, ReadBody(p), {ReadBodyOf(p)})
           /\ \A p : Lists(op, DropBody(p), {DropOf(p)})
           /\ \A ps : Lists(op, WriteIndex(ps), {IndexCall(ps)})
           /\ Lists(op, Reject, {RejectOf})
           /\ \A new : Lists(op, Save(new), {SaveOf(new, Nil)})
           /\ \A p, new : Lists(op, SaveProfileAt(p, new), {SaveOf(new, p)})
           /\ \A b, on : Lists(op, <<[c |-> "chart", b |-> b, on |-> on]>>, {ChartOf(b, on)})
<1>1. \A k : SeedTarget(k) = <<SeedOf(k)>> /\ ~Second(SeedOf(k))
  BY DEF SeedTarget, SeedOf, Second
<1>2. \A k : PublishNoRef(k) = <<NoRefOf(k)>> /\ ~Second(NoRefOf(k))
  BY DEF PublishNoRef, NoRefOf, Second
<1>3. \A k, a, h : SetAppHost(k, a, h) = <<HostOf(k, a, h)>> /\ ~Second(HostOf(k, a, h))
  BY DEF SetAppHost, HostOf, Second
<1>4. \A p, names : WriteBody(p, names) = <<BodyOf(p, names)>> /\ ~Second(BodyOf(p, names))
  BY DEF WriteBody, BodyOf, Second
<1>5. \A p : ReadBody(p) = <<ReadBodyOf(p)>> /\ ~Second(ReadBodyOf(p))
  BY DEF ReadBody, ReadBodyOf, Second
<1>6. \A p : DropBody(p) = <<DropOf(p)>> /\ ~Second(DropOf(p))
  BY DEF DropBody, DropOf, Second
<1>7. \A ps : WriteIndex(ps) = <<IndexCall(ps)>> /\ ~Second(IndexCall(ps))
  BY DEF WriteIndex, IndexCall, Second
<1>8. Reject = <<RejectOf>> /\ ~Second(RejectOf)
  BY DEF Reject, RejectOf, Second
<1>9. \A new : Save(new) = <<SaveOf(new, Nil)>> /\ ~Second(SaveOf(new, Nil))
  BY DEF Save, SaveOf, Second
<1>10. \A p, new : SaveProfileAt(p, new) = <<SaveOf(new, p)>> /\ ~Second(SaveOf(new, p))
  BY DEF SaveProfileAt, SaveOf, Second
<1>11. \A b, on : ~Second(ChartOf(b, on))
  BY DEF ChartOf, Second
<1>. QED  BY <1>1, <1>2, <1>3, <1>4, <1>5, <1>6, <1>7, <1>8, <1>9, <1>10, <1>11, ListsOne, Zenon
          DEF ChartOf

LEMMA RanksOf ==
    ASSUME NEW op
    PROVE  /\ \A k : Rank(op, SeedOf(k)) = 0 /\ Rank(op, NoRefOf(k)) = 0
           /\ \A p, names : Rank(op, BodyOf(p, names)) = 0
           /\ \A p : Rank(op, ReadBodyOf(p)) = 0 /\ Rank(op, DropOf(p)) = 0
           /\ \A k, a, h : Rank(op, HostOf(k, a, h)) = 3
           /\ \A ps : Rank(op, IndexCall(ps)) = 3
           /\ Rank(op, RejectOf) = 3
           /\ \A b, on : Rank(op, ChartOf(b, on)) = IF op = "migrate" THEN 0 ELSE 3
           /\ \A new, at : Rank(op, SaveOf(new, at)) = IF new.legacy THEN 1 ELSE 2
           /\ \A doc, bs : op # "migrate" => \A c \in Charts(doc, bs) : Rank(op, c) = 3
BY DEF Rank, SeedOf, NoRefOf, BodyOf, ReadBodyOf, DropOf, HostOf, IndexCall, RejectOf, ChartOf,
       SaveOf, Charts

-----------------------------------------------------------------------------
(***************************************************************************)
(* The plans: the documents that they save and the calls that they list.   *)
(***************************************************************************)
UpsertNew(doc, o) ==
    [on |-> o.on, ref |-> SavedRef(o.key, o.on, o.ref, doc.targets[o.key]),
     host |-> HostsFor(o.key, o.apps, o.hosts)]
UpsertDoc(doc, o) == [doc EXCEPT !.targets[o.key] = UpsertNew(doc, o)]
RemoveDoc(doc, o) == [doc EXCEPT !.targets[o.key] = Nil]
HostApp(doc, o) == First(AppsOf(doc.targets[o.key]))
HostDoc(doc, o) == [doc EXCEPT !.targets[o.key].host[HostApp(doc, o)] = o.host]
MigrateTargets(doc, o) ==
    Overridden(IF KeysOf(doc.targets) = {}
               THEN [k \in Key |-> DeriveStandard(k, doc.app, doc.deployable)]
               ELSE doc.targets, o.opts)
MigrateDoc(doc, o) == [doc EXCEPT !.targets = MigrateTargets(doc, o)]
MigrateFlags(doc, o) ==
    [MigrateDoc(doc, o) EXCEPT !.legacy = FALSE, !.pinned = IF o.unpin THEN FALSE ELSE @]
PinDoc(doc, o) == [doc EXCEPT !.pinned = o.pinned]

SyncSet(doc, b) ==
    SeedCalls(doc.targets) \cup Publishes(doc.targets)
    \cup {ReadRootOf(b), CommitOf(b, doc.targets)} \cup {SaveOf(doc, Nil)}

Refused(doc, o) == ~ValidRef(UpsertNew(doc, o).ref, o.on) \/ o.apps = {}
UpsertSet(doc, o) ==
    IF Refused(doc, o) THEN {RejectOf}
    ELSE (IF ~o.on /\ o.teardown THEN Teardowns(o.key, AppsOf(UpsertNew(doc, o))) ELSE {})
         \cup {SeedOf(o.key)}
         \cup Unscopes(o.key, AppsOf(doc.targets[o.key]) \ AppsOf(UpsertNew(doc, o)))
         \cup SyncSet(UpsertDoc(doc, o), OwnBranch(UpsertNew(doc, o).ref))
         \cup {SaveOf(UpsertDoc(doc, o), Nil)}
RemoveSet(doc, o) ==
    LET old == doc.targets[o.key]
        b == OwnBranch(old.ref)
        ts == RemoveDoc(doc, o).targets
    IN  IF old = Nil THEN {RejectOf}
        ELSE (IF o.teardown THEN Teardowns(o.key, AppsOf(old)) ELSE {})
             \cup Unscopes(o.key, AppsOf(old)) \cup {NoRefOf(o.key)}
             \cup {ReadRootOf(b), CommitOf(b, ts)} \cup {SaveOf(RemoveDoc(doc, o), Nil)}
HostnameSet(doc, o) ==
    IF doc.targets[o.key] = Nil THEN {RejectOf}
    ELSE {SaveOf(HostDoc(doc, o), Nil)} \cup {HostOf(o.key, HostApp(doc, o), o.host)}
MigrateSet(doc, o) ==
    LET b == PipelineRef(o.opts)
        next == MigrateDoc(doc, o)
    IN  IF doc.pinned /\ ~o.unpin THEN {RejectOf}
        ELSE IF ~doc.legacy THEN {}
        ELSE {ChartOf(b, doc.runtime)}
             \cup (IF Deployable(next) THEN SyncSet(next, b)
                   ELSE {ReadRootOf(b), RootOf(b, next.targets)})
             \cup {SaveOf(MigrateFlags(doc, o), Nil)}
PinSet(doc, o) == {SaveOf(PinDoc(doc, o), Nil)}

LEMMA ListsSync ==
    ASSUME NEW op, NEW doc, NEW b
    PROVE  /\ Lists(op, SyncAll(doc, b), SyncSet(doc, b))
           /\ \A c \in SyncSet(doc, b) : Rank(op, c) = 0 \/ c = SaveOf(doc, Nil)
<1>. DEFINE A == SeedCalls(doc.targets)
            B == Publishes(doc.targets)
            C == {ReadRootOf(b), CommitOf(b, doc.targets)}
<1>1. Lists(op, SeedAll(doc.targets), A) /\ Early(op, A)
  BY ListsSeeds
<1>2. Lists(op, Publish(doc.targets), B) /\ Early(op, B)
  BY ListsPublishes
<1>3. Lists(op, CommitCi(b, doc.targets), C) /\ Early(op, C)
  BY ListsCommit
<1>4. Lists(op, Save(doc), {SaveOf(doc, Nil)})
  BY ListsSingles
<1>. HIDE DEF A, B, C
<1>5. Lists(op, SeedAll(doc.targets) \o Publish(doc.targets), A \cup B) /\ Early(op, A \cup B)
  BY <1>1, <1>2, ListsEarly DEF Early
<1>6. /\ Lists(op, SeedAll(doc.targets) \o Publish(doc.targets) \o CommitCi(b, doc.targets),
               A \cup B \cup C)
      /\ Early(op, A \cup B \cup C)
  BY <1>3, <1>5, ListsEarly DEF Early
<1>7. Lists(op, SyncAll(doc, b), A \cup B \cup C \cup {SaveOf(doc, Nil)})
  BY <1>4, <1>6, ListsEarly DEF SyncAll
<1>. QED  BY <1>6, <1>7 DEF A, B, C, SyncSet, Early

LEMMA ListsUpsert ==
    ASSUME NEW doc \in Doc, NEW o \in UpsertDeploymentTargetInput
    PROVE  Lists(o.op, UpsertPlan(doc, o), UpsertSet(doc, o))
<1>. DEFINE k == o.key
            old == doc.targets[k]
            new == UpsertNew(doc, o)
            next == UpsertDoc(doc, o)
            b == OwnBranch(new.ref)
            down == IF ~o.on /\ o.teardown THEN Teardown(k, AppsOf(new)) ELSE <<>>
            A == IF ~o.on /\ o.teardown THEN Teardowns(k, AppsOf(new)) ELSE {}
            C == Unscopes(k, AppsOf(old) \ AppsOf(new))
            D == SyncSet(next, b)
<1>1. AppsOf(new) \in SUBSET App /\ AppsOf(old) \ AppsOf(new) \in SUBSET App
  BY DEF AppsOf
<1>2. UpsertPlan(doc, o) =
        IF Refused(doc, o) THEN Reject
        ELSE down \o SeedTarget(k) \o Unscope(k, AppsOf(old) \ AppsOf(new))
             \o SyncAll(next, b) \o Save(next)
  BY DEF UpsertPlan, UpsertNew, UpsertDoc, Refused
<1>3. UpsertSet(doc, o) = IF Refused(doc, o) THEN {RejectOf}
                          ELSE A \cup {SeedOf(k)} \cup C \cup D \cup {SaveOf(next, Nil)}
  BY DEF UpsertSet
<1>4. Lists(o.op, down, A) /\ Early(o.op, A)
  BY <1>1, ListsTeardowns, ListsNone DEF Early
<1>5. Lists(o.op, SeedTarget(k), {SeedOf(k)}) /\ Early(o.op, {SeedOf(k)})
  BY ListsSingles, RanksOf DEF Early
<1>6. Lists(o.op, Unscope(k, AppsOf(old) \ AppsOf(new)), C) /\ Early(o.op, C)
  BY <1>1, ListsUnscopes
<1>7. Lists(o.op, SyncAll(next, b), D) /\ \A c \in D : Rank(o.op, c) = 0 \/ c = SaveOf(next, Nil)
  BY ListsSync
<1>8. Lists(o.op, Save(next), {SaveOf(next, Nil)})
  BY ListsSingles
<1>. HIDE DEF k, old, new, next, b, down, A, C, D
<1>9. Lists(o.op, down \o SeedTarget(k), A \cup {SeedOf(k)}) /\ Early(o.op, A \cup {SeedOf(k)})
  BY <1>4, <1>5, ListsEarly DEF Early
<1>10. /\ Lists(o.op, down \o SeedTarget(k) \o Unscope(k, AppsOf(old) \ AppsOf(new)),
                A \cup {SeedOf(k)} \cup C)
       /\ Early(o.op, A \cup {SeedOf(k)} \cup C)
  BY <1>6, <1>9, ListsEarly DEF Early
<1>11. /\ Lists(o.op, down \o SeedTarget(k) \o Unscope(k, AppsOf(old) \ AppsOf(new))
                      \o SyncAll(next, b), A \cup {SeedOf(k)} \cup C \cup D)
       /\ \A c \in A \cup {SeedOf(k)} \cup C \cup D : Rank(o.op, c) = 0 \/ c = SaveOf(next, Nil)
  BY <1>7, <1>10, ListsEarly DEF Early
<1>12. \A c \in A \cup {SeedOf(k)} \cup C \cup D, e \in {SaveOf(next, Nil)} :
          Rank(o.op, c) <= Rank(o.op, e)
  BY <1>11, RankNat
<1>13. Lists(o.op, down \o SeedTarget(k) \o Unscope(k, AppsOf(old) \ AppsOf(new))
                   \o SyncAll(next, b) \o Save(next),
             A \cup {SeedOf(k)} \cup C \cup D \cup {SaveOf(next, Nil)})
  BY <1>8, <1>11, <1>12, ListsBoth
<1>. QED  BY <1>2, <1>3, <1>13, ListsSingles

LEMMA ListsRemove ==
    ASSUME NEW doc \in Doc, NEW o \in RemoveDeploymentTargetArgs
    PROVE  Lists(o.op, RemovePlan(doc, o), RemoveSet(doc, o))
<1>. DEFINE k == o.key
            old == doc.targets[k]
            next == RemoveDoc(doc, o)
            b == OwnBranch(old.ref)
            down == IF o.teardown THEN Teardown(k, AppsOf(old)) ELSE <<>>
            A == IF o.teardown THEN Teardowns(k, AppsOf(old)) ELSE {}
            B == Unscopes(k, AppsOf(old))
            C == {ReadRootOf(b), CommitOf(b, next.targets)}
<1>1. AppsOf(old) \in SUBSET App
  BY DEF AppsOf
<1>2. RemovePlan(doc, o) =
        IF old = Nil THEN Reject
        ELSE down \o Unscope(k, AppsOf(old)) \o PublishNoRef(k) \o CommitCi(b, next.targets)
             \o Save(next)
  BY DEF RemovePlan, RemoveDoc
<1>3. RemoveSet(doc, o) = IF old = Nil THEN {RejectOf}
                          ELSE A \cup B \cup {NoRefOf(k)} \cup C \cup {SaveOf(next, Nil)}
  BY DEF RemoveSet
<1>4. Lists(o.op, down, A) /\ Early(o.op, A)
  BY <1>1, ListsTeardowns, ListsNone DEF Early
<1>5. Lists(o.op, Unscope(k, AppsOf(old)), B) /\ Early(o.op, B)
  BY <1>1, ListsUnscopes
<1>6. Lists(o.op, PublishNoRef(k), {NoRefOf(k)}) /\ Early(o.op, {NoRefOf(k)})
  BY ListsSingles, RanksOf DEF Early
<1>7. Lists(o.op, CommitCi(b, next.targets), C) /\ Early(o.op, C)
  BY ListsCommit
<1>8. Lists(o.op, Save(next), {SaveOf(next, Nil)})
  BY ListsSingles
<1>. HIDE DEF k, old, next, b, down, A, B, C
<1>9. Lists(o.op, down \o Unscope(k, AppsOf(old)), A \cup B) /\ Early(o.op, A \cup B)
  BY <1>4, <1>5, ListsEarly DEF Early
<1>10. /\ Lists(o.op, down \o Unscope(k, AppsOf(old)) \o PublishNoRef(k), A \cup B \cup {NoRefOf(k)})
       /\ Early(o.op, A \cup B \cup {NoRefOf(k)})
  BY <1>6, <1>9, ListsEarly DEF Early
<1>11. /\ Lists(o.op, down \o Unscope(k, AppsOf(old)) \o PublishNoRef(k)
                      \o CommitCi(b, next.targets), A \cup B \cup {NoRefOf(k)} \cup C)
       /\ Early(o.op, A \cup B \cup {NoRefOf(k)} \cup C)
  BY <1>7, <1>10, ListsEarly DEF Early
<1>12. Lists(o.op, down \o Unscope(k, AppsOf(old)) \o PublishNoRef(k)
                   \o CommitCi(b, next.targets) \o Save(next),
             A \cup B \cup {NoRefOf(k)} \cup C \cup {SaveOf(next, Nil)})
  BY <1>8, <1>11, ListsEarly
<1>. QED  BY <1>2, <1>3, <1>12, ListsSingles

LEMMA ListsHostname ==
    ASSUME NEW doc \in Doc, NEW o \in HostnameArgs
    PROVE  Lists(o.op, HostnamePlan(doc, o), HostnameSet(doc, o))
<1>. DEFINE s == Save(HostDoc(doc, o))
            t == SetAppHost(o.key, HostApp(doc, o), o.host)
            c == SaveOf(HostDoc(doc, o), Nil)
            d == HostOf(o.key, HostApp(doc, o), o.host)
<1>1. HostnamePlan(doc, o) = IF doc.targets[o.key] = Nil THEN Reject ELSE s \o t
  BY DEF HostnamePlan, HostDoc, HostApp
<1>2. Lists(o.op, s, {c}) /\ Lists(o.op, t, {d})
  BY ListsSingles
<1>3. Rank(o.op, c) <= Rank(o.op, d)
  BY RanksOf, RankNat
<1>. HIDE DEF s, t
<1>4. Lists(o.op, s \o t, {c} \cup {d})
  BY <1>2, <1>3, ListsBoth
<1>. QED  BY <1>1, <1>4, ListsSingles DEF HostnameSet

LEMMA ListsMigrate ==
    ASSUME NEW doc \in Doc, NEW o \in MigrateInput
    PROVE  Lists(o.op, MigratePlan(doc, o), MigrateSet(doc, o))
<1>. DEFINE b == PipelineRef(o.opts)
            next == MigrateDoc(doc, o)
            flags == MigrateFlags(doc, o)
            chart == <<[c |-> "chart", b |-> b, on |-> doc.runtime]>>
            rest == IF Deployable(next) THEN SyncAll(next, b) ELSE CommitRoot(b, next.targets)
            A == {ChartOf(b, doc.runtime)}
            B == IF Deployable(next) THEN SyncSet(next, b)
                 ELSE {ReadRootOf(b), RootOf(b, next.targets)}
<1>1. MigratePlan(doc, o) = IF doc.pinned /\ ~o.unpin THEN Reject
                            ELSE IF ~doc.legacy THEN <<>>
                            ELSE chart \o rest \o Save(flags)
  BY DEF MigratePlan, MigrateDoc, MigrateTargets, MigrateFlags
<1>2. MigrateSet(doc, o) = IF doc.pinned /\ ~o.unpin THEN {RejectOf}
                           ELSE IF ~doc.legacy THEN {}
                           ELSE A \cup B \cup {SaveOf(flags, Nil)}
  BY DEF MigrateSet
<1>3. Lists(o.op, chart, A) /\ Early(o.op, A)
  <2>1. o.op = "migrate"
    BY DEF MigrateInput
  <2>. HIDE DEF b
  <2>2. Lists(o.op, chart, A)
    BY ListsSingles
  <2>3. Rank(o.op, ChartOf(b, doc.runtime)) = 0
    BY <2>1, RanksOf
  <2>. HIDE DEF chart
  <2>. QED  BY <2>2, <2>3 DEF Early
<1>4. /\ Lists(o.op, rest, B)
      /\ \A c \in B : Rank(o.op, c) = 0 \/ c = SaveOf(next, Nil)
  BY ListsSync, ListsCommit DEF Early
<1>5. Lists(o.op, Save(flags), {SaveOf(flags, Nil)})
  BY ListsSingles
<1>6. \A c \in A \cup B, d \in {SaveOf(flags, Nil)} : Rank(o.op, c) <= Rank(o.op, d)
  <2>1. flags.legacy = FALSE
    BY DEF MigrateFlags, MigrateDoc, Doc
  <2>2. Rank(o.op, SaveOf(flags, Nil)) = 2
    BY <2>1, RanksOf
  <2>3. Rank(o.op, SaveOf(next, Nil)) <= 2
    BY RanksOf
  <2>. HIDE DEF flags, next, A, B
  <2>. QED  BY <1>3, <1>4, <2>2, <2>3 DEF Early
<1>. HIDE DEF b, next, flags, chart, rest, A, B
<1>7. Lists(o.op, chart \o rest, A \cup B)
  BY <1>3, <1>4, ListsEarly
<1>8. Lists(o.op, chart \o rest \o Save(flags), A \cup B \cup {SaveOf(flags, Nil)})
  BY <1>5, <1>6, <1>7, ListsBoth
<1>. QED  BY <1>1, <1>2, <1>8, ListsSingles, ListsNone

LEMMA ListsPin ==
    ASSUME NEW doc \in Doc, NEW o \in PinArgs
    PROVE  Lists(o.op, PinPlan(doc, o), PinSet(doc, o))
BY ListsSingles DEF PinPlan, PinSet, PinDoc

UploadProfiles(doc, o) == [doc.profiles EXCEPT ![o.profile] = NewProfile(o)]
UploadDoc(doc, o) ==
    [doc EXCEPT !.profiles = UploadProfiles(doc, o), !.runtime = RuntimeEnv(UploadProfiles(doc, o))]
EditedNames(doc, o) == [doc.profiles[o.profile] EXCEPT !.names = o.names]
ContentProfiles(doc, o) == [doc.profiles EXCEPT ![o.profile] = EditedNames(doc, o)]
ContentDoc(doc, o) ==
    [doc EXCEPT !.profiles = ContentProfiles(doc, o), !.runtime = RuntimeEnv(ContentProfiles(doc, o))]
Moved(doc, o) ==
    LET old == doc.profiles[o.profile]
    IN  old.phase = "runtime" /\ o.targets # Nil /\ o.targets # old.targets
EditedPlace(doc, o) ==
    [doc.profiles[o.profile] EXCEPT !.branches = IF o.branches = Nil THEN @ ELSE o.branches,
                                    !.targets = IF Moved(doc, o) THEN o.targets ELSE @,
                                    !.job = IF o.job = {} THEN @ ELSE First(o.job),
                                    !.file = IF doc.profiles[o.profile].phase = "build"
                                                /\ o.file # Nil THEN o.file ELSE @]
MetadataDoc(doc, o) == [doc EXCEPT !.profiles[o.profile] = EditedPlace(doc, o)]
DropProfiles(doc, o) == [doc.profiles EXCEPT ![o.profile] = Nil]
DropDoc(doc, o) ==
    [doc EXCEPT !.profiles = DropProfiles(doc, o), !.runtime = RuntimeEnv(DropProfiles(doc, o))]

AfterSet(doc, branches) == {IndexCall(IndexOf(doc.profiles))} \cup Charts(doc, branches)

ValidUpload(doc, o) ==
    /\ o.branches # {}
    /\ NewProfile(o).phase = "build"
       \/ (NewProfile(o).targets # {} /\ NewProfile(o).targets \subseteq KeysOf(doc.targets))
Conflicts(doc, o) == \E q \in ProfilesOf(doc) : Overlaps(doc.profiles[q], NewProfile(o))
UploadSet(doc, o) ==
    IF ~ValidUpload(doc, o) THEN {RejectOf}
    ELSE Merges(NewProfile(o).targets, {}, o.names, FALSE) \cup {BodyOf(o.profile, o.names)}
         \cup (IF Conflicts(doc, o) THEN {RejectOf}
               ELSE {SaveOf(UploadDoc(doc, o), Nil)}
                    \cup AfterSet(UploadDoc(doc, o), NewProfile(o).branches))
ContentSet(doc, o) ==
    LET old == doc.profiles[o.profile]
    IN  IF old = Nil THEN {RejectOf}
        ELSE Merges(old.targets, old.names, {}, FALSE) \cup Merges(old.targets, {}, o.names, FALSE)
             \cup {BodyOf(o.profile, o.names)} \cup {SaveOf(ContentDoc(doc, o), o.profile)}
             \cup AfterSet(ContentDoc(doc, o), EditedNames(doc, o).branches)
MovesOf(doc, o) ==
    LET old == doc.profiles[o.profile]
    IN  IF Moved(doc, o)
        THEN Merges(old.targets, old.names, {}, FALSE) \cup {ReadBodyOf(o.profile)}
             \cup Merges(EditedPlace(doc, o).targets, {}, {}, TRUE)
        ELSE {}
MetadataSet(doc, o) ==
    LET old == doc.profiles[o.profile]
    IN  IF old = Nil THEN {RejectOf}
        ELSE IF EditedPlace(doc, o).branches = {} THEN {RejectOf}
        ELSE MovesOf(doc, o) \cup {SaveOf(MetadataDoc(doc, o), o.profile)}
             \cup AfterSet(MetadataDoc(doc, o), old.branches \cup EditedPlace(doc, o).branches)
DropSet(doc, o) ==
    LET old == doc.profiles[o.profile]
    IN  IF old = Nil THEN {RejectOf}
        ELSE Merges(old.targets, old.names, {}, FALSE) \cup {DropOf(o.profile)}
             \cup ({SaveOf(DropDoc(doc, o), Nil)} \cup AfterSet(DropDoc(doc, o), old.branches))

LEMMA NewTyped ==
    ASSUME NEW o \in UploadEnvProfileInput
    PROVE  /\ NewProfile(o) \in StoredProfile /\ NewProfile(o) # Nil
           /\ NewProfile(o).targets \in SUBSET Key /\ NewProfile(o).branches \in SUBSET Branch
<1>1. NewProfile(o) \in StoredProfile
  BY DEF NewProfile, StoredProfile, UploadEnvProfileInput, Optional
<1>. QED  BY <1>1, NilAssumption DEF StoredProfile

LEMMA NamesTyped ==
    ASSUME NEW doc \in Doc, NEW o \in UpdateEnvProfileContentInput, doc.profiles[o.profile] # Nil
    PROVE  /\ EditedNames(doc, o) \in StoredProfile /\ EditedNames(doc, o) # Nil
           /\ EditedNames(doc, o).branches \in SUBSET Branch
<1>1. doc.profiles[o.profile] \in StoredProfile
  BY DEF Doc, UpdateEnvProfileContentInput
<1>2. EditedNames(doc, o) \in StoredProfile
  BY <1>1 DEF EditedNames, StoredProfile, UpdateEnvProfileContentInput
<1>. QED  BY <1>2, NilAssumption DEF StoredProfile

LEMMA PlaceTyped ==
    ASSUME NEW doc \in Doc, NEW o \in UpdateEnvProfileMetadataInput, doc.profiles[o.profile] # Nil
    PROVE  /\ EditedPlace(doc, o) \in StoredProfile /\ EditedPlace(doc, o) # Nil
           /\ EditedPlace(doc, o).branches \in SUBSET Branch
           /\ EditedPlace(doc, o).targets \in SUBSET Key
<1>1. doc.profiles[o.profile] \in StoredProfile
  BY DEF Doc, UpdateEnvProfileMetadataInput
<1>2. (IF o.branches = Nil THEN doc.profiles[o.profile].branches ELSE o.branches) \in SUBSET Branch
  BY <1>1 DEF StoredProfile, UpdateEnvProfileMetadataInput, Optional
<1>3. (IF Moved(doc, o) THEN o.targets ELSE doc.profiles[o.profile].targets) \in SUBSET Key
  BY <1>1 DEF StoredProfile, UpdateEnvProfileMetadataInput, Optional, Moved
<1>4. (IF o.job = {} THEN doc.profiles[o.profile].job ELSE First(o.job)) \in Optional(App)
  <2>1. o.job # {} => First(o.job) \in o.job
    BY DEF First
  <2>2. o.job \in SUBSET Optional(App)
    BY DEF UpdateEnvProfileMetadataInput
  <2>. QED  BY <1>1, <2>1, <2>2 DEF StoredProfile
<1>5. (IF doc.profiles[o.profile].phase = "build" /\ o.file # Nil THEN o.file
       ELSE doc.profiles[o.profile].file) \in Optional(File)
  BY <1>1 DEF StoredProfile, UpdateEnvProfileMetadataInput
<1>6. EditedPlace(doc, o) \in StoredProfile
  BY <1>1, <1>2, <1>3, <1>4, <1>5 DEF EditedPlace, StoredProfile
<1>. QED  BY <1>6, NilAssumption DEF StoredProfile

LEMMA OldTyped ==
    ASSUME NEW doc \in Doc, NEW p \in Profile, doc.profiles[p] # Nil
    PROVE  /\ doc.profiles[p] \in StoredProfile
           /\ doc.profiles[p].targets \in SUBSET Key /\ doc.profiles[p].branches \in SUBSET Branch
           /\ doc.profiles[p].names \in SUBSET RtKey
BY DEF Doc, StoredProfile

LEMMA ListsAfter ==
    ASSUME NEW op, op # "migrate", NEW doc, NEW branches \in SUBSET Branch
    PROVE  /\ Lists(op, AfterSave(doc, branches), AfterSet(doc, branches))
           /\ \A c \in AfterSet(doc, branches) : Rank(op, c) = 3
<1>1. Lists(op, WriteIndex(IndexOf(doc.profiles)), {IndexCall(IndexOf(doc.profiles))})
  BY ListsSingles
<1>2. Lists(op, RefreshCharts(doc, branches), Charts(doc, branches))
  BY ListsCharts
<1>3. \A c \in AfterSet(doc, branches) : Rank(op, c) = 3
  BY RanksOf DEF AfterSet
<1>4. \A c \in {IndexCall(IndexOf(doc.profiles))}, d \in Charts(doc, branches) :
         Rank(op, c) <= Rank(op, d)
  BY RanksOf
<1>. QED  BY <1>1, <1>2, <1>3, <1>4, ListsBoth DEF AfterSave, AfterSet

LEMMA ListsSaved ==
    ASSUME NEW op, op # "migrate", NEW doc, NEW branches \in SUBSET Branch, NEW at,
           NEW s, Lists(op, s, {SaveOf(doc, at)})
    PROVE  Lists(op, s \o AfterSave(doc, branches), {SaveOf(doc, at)} \cup AfterSet(doc, branches))
<1>1. /\ Lists(op, AfterSave(doc, branches), AfterSet(doc, branches))
      /\ \A c \in AfterSet(doc, branches) : Rank(op, c) = 3
  BY ListsAfter
<1>2. \A c \in {SaveOf(doc, at)}, d \in AfterSet(doc, branches) : Rank(op, c) <= Rank(op, d)
  BY <1>1, RankNat
<1>. QED  BY <1>1, <1>2, ListsBoth

LEMMA ListsUpload ==
    ASSUME NEW doc \in Doc, NEW o \in UploadEnvProfileInput
    PROVE  Lists(o.op, UploadPlan(doc, o), UploadSet(doc, o))
<1>. DEFINE new == NewProfile(o)
            next == UploadDoc(doc, o)
            s == MergeInto(new.targets, {}, o.names, FALSE)
            A == Merges(new.targets, {}, o.names, FALSE)
            t == IF Conflicts(doc, o) THEN Reject ELSE SaveAndIndex(next, new.branches)
            B == IF Conflicts(doc, o) THEN {RejectOf}
                 ELSE {SaveOf(next, Nil)} \cup AfterSet(next, new.branches)
            w == WriteBody(o.profile, o.names)
            W == {BodyOf(o.profile, o.names)}
<1>1. UploadPlan(doc, o) = IF ~ValidUpload(doc, o) THEN Reject ELSE (s \o w) \o t
  BY DEF UploadPlan, ValidUpload, Conflicts, UploadDoc, UploadProfiles
<1>2. UploadSet(doc, o) = IF ~ValidUpload(doc, o) THEN {RejectOf} ELSE A \cup W \cup B
  BY DEF UploadSet
<1>3. o.op # "migrate" /\ new.targets \in SUBSET Key /\ new.branches \in SUBSET Branch
  BY NewTyped DEF UploadEnvProfileInput
<1>4. Lists(o.op, s, A) /\ Early(o.op, A)
  BY <1>3, ListsMerge
<1>5. Lists(o.op, w, W) /\ Early(o.op, W)
  BY ListsSingles, RanksOf DEF Early
<1>6. Lists(o.op, t, B)
  BY <1>3, ListsSingles, ListsSaved DEF SaveAndIndex
<1>. HIDE DEF new, next, s, A, t, B, w, W
<1>7. Lists(o.op, s \o w, A \cup W) /\ Early(o.op, A \cup W)
  BY <1>4, <1>5, ListsEarly DEF Early
<1>8. Lists(o.op, (s \o w) \o t, A \cup W \cup B)
  BY <1>6, <1>7, ListsEarly
<1>. QED  BY <1>1, <1>2, <1>8, ListsSingles

LEMMA ListsContent ==
    ASSUME NEW doc \in Doc, NEW o \in UpdateEnvProfileContentInput
    PROVE  Lists(o.op, ContentPlan(doc, o), ContentSet(doc, o))
<1>. DEFINE old == doc.profiles[o.profile]
            next == ContentDoc(doc, o)
            bs == EditedNames(doc, o).branches
            s == RemoveKeys(old)
            t == MergeInto(old.targets, {}, o.names, FALSE)
            w == WriteBody(o.profile, o.names)
            v == SaveProfileAt(o.profile, next)
            z == AfterSave(next, bs)
            A == Merges(old.targets, old.names, {}, FALSE)
            B == Merges(old.targets, {}, o.names, FALSE)
            W == {BodyOf(o.profile, o.names)}
            V == {SaveOf(next, o.profile)}
            Z == AfterSet(next, bs)
<1>1. ContentPlan(doc, o) = IF old = Nil THEN Reject ELSE s \o t \o w \o v \o z
  BY DEF ContentPlan, ContentDoc, ContentProfiles, EditedNames
<1>2. ContentSet(doc, o) = IF old = Nil THEN {RejectOf} ELSE A \cup B \cup W \cup V \cup Z
  BY DEF ContentSet
<1>3. CASE old = Nil
  BY <1>1, <1>2, <1>3, ListsSingles
<1>4. CASE old # Nil
  <2>1. /\ o.op # "migrate" /\ o.profile \in Profile
        /\ old.targets \in SUBSET Key /\ bs \in SUBSET Branch
    BY <1>4, OldTyped, NamesTyped DEF UpdateEnvProfileContentInput
  <2>2. Lists(o.op, s, A) /\ Early(o.op, A) /\ Lists(o.op, t, B) /\ Early(o.op, B)
    BY <2>1, ListsMerge DEF RemoveKeys
  <2>3. Lists(o.op, w, W) /\ Early(o.op, W) /\ Lists(o.op, v, V)
    BY ListsSingles, RanksOf DEF Early
  <2>4. Lists(o.op, z, Z) /\ \A c \in Z : Rank(o.op, c) = 3
    BY <2>1, ListsAfter
  <2>. HIDE DEF old, next, bs, s, t, w, v, z, A, B, W, V, Z
  <2>5. Lists(o.op, s \o t, A \cup B) /\ Early(o.op, A \cup B)
    BY <2>2, ListsEarly DEF Early
  <2>6. Lists(o.op, s \o t \o w, A \cup B \cup W) /\ Early(o.op, A \cup B \cup W)
    BY <2>3, <2>5, ListsEarly DEF Early
  <2>7. Lists(o.op, s \o t \o w \o v, A \cup B \cup W \cup V)
    BY <2>3, <2>6, ListsEarly
  <2>8. \A c \in A \cup B \cup W \cup V, d \in Z : Rank(o.op, c) <= Rank(o.op, d)
    BY <2>4, RankNat
  <2>9. Lists(o.op, s \o t \o w \o v \o z, A \cup B \cup W \cup V \cup Z)
    BY <2>4, <2>7, <2>8, ListsBoth
  <2>. QED  BY <1>1, <1>2, <1>4, <2>9
<1>. QED  BY <1>3, <1>4

LEMMA ListsMetadata ==
    ASSUME NEW doc \in Doc, NEW o \in UpdateEnvProfileMetadataInput
    PROVE  Lists(o.op, MetadataPlan(doc, o), MetadataSet(doc, o))
<1>. DEFINE old == doc.profiles[o.profile]
            new == EditedPlace(doc, o)
            next == MetadataDoc(doc, o)
            bs == old.branches \cup new.branches
            s == RemoveKeys(old)
            w == ReadBody(o.profile)
            t == MergeInto(new.targets, {}, {}, TRUE)
            m == IF Moved(doc, o) THEN s \o w \o t ELSE <<>>
            v == SaveProfileAt(o.profile, next)
            z == AfterSave(next, bs)
            A == Merges(old.targets, old.names, {}, FALSE)
            W == {ReadBodyOf(o.profile)}
            B == Merges(new.targets, {}, {}, TRUE)
            M == MovesOf(doc, o)
            V == {SaveOf(next, o.profile)}
            Z == AfterSet(next, bs)
<1>1. MetadataPlan(doc, o) = IF old = Nil THEN Reject ELSE IF new.branches = {} THEN Reject
                             ELSE m \o v \o z
  BY DEF MetadataPlan, MetadataDoc, EditedPlace, Moved
<1>2. /\ MetadataSet(doc, o) = IF old = Nil THEN {RejectOf}
                               ELSE IF new.branches = {} THEN {RejectOf} ELSE M \cup V \cup Z
      /\ M = IF Moved(doc, o) THEN A \cup W \cup B ELSE {}
  BY DEF MetadataSet, MovesOf
<1>3. CASE old = Nil \/ new.branches = {}
  BY <1>1, <1>2, <1>3, ListsSingles
<1>4. CASE old # Nil /\ new.branches # {}
  <2>1. /\ o.op # "migrate" /\ o.profile \in Profile
        /\ old.targets \in SUBSET Key /\ bs \in SUBSET Branch /\ new.targets \in SUBSET Key
    BY <1>4, OldTyped, PlaceTyped DEF UpdateEnvProfileMetadataInput
  <2>2. Lists(o.op, s, A) /\ Early(o.op, A) /\ Lists(o.op, t, B) /\ Early(o.op, B)
    BY <2>1, ListsMerge DEF RemoveKeys
  <2>3. Lists(o.op, w, W) /\ Early(o.op, W) /\ Lists(o.op, v, V)
    BY ListsSingles, RanksOf DEF Early
  <2>4. Lists(o.op, z, Z) /\ \A c \in Z : Rank(o.op, c) = 3
    BY <2>1, ListsAfter
  <2>. HIDE DEF old, new, next, bs, s, t, w, v, z, A, B, W, V, Z, M
  <2>5. Lists(o.op, s \o w, A \cup W) /\ Early(o.op, A \cup W)
    BY <2>2, <2>3, ListsEarly DEF Early
  <2>6. Lists(o.op, s \o w \o t, A \cup W \cup B) /\ Early(o.op, A \cup W \cup B)
    BY <2>2, <2>5, ListsEarly DEF Early
  <2>7. Lists(o.op, m, M) /\ Early(o.op, M)
    BY <1>2, <2>6, ListsNone DEF Early
  <2>8. Lists(o.op, m \o v, M \cup V)
    BY <2>3, <2>7, ListsEarly
  <2>9. \A c \in M \cup V, d \in Z : Rank(o.op, c) <= Rank(o.op, d)
    BY <2>4, RankNat
  <2>10. Lists(o.op, m \o v \o z, M \cup V \cup Z)
    BY <2>4, <2>8, <2>9, ListsBoth
  <2>. QED  BY <1>1, <1>2, <1>4, <2>10
<1>. QED  BY <1>3, <1>4

LEMMA ListsDrop ==
    ASSUME NEW doc \in Doc, NEW o \in DeleteEnvProfileArgs
    PROVE  Lists(o.op, DropPlan(doc, o), DropSet(doc, o))
<1>. DEFINE old == doc.profiles[o.profile]
            next == DropDoc(doc, o)
            s == RemoveKeys(old)
            w == DropBody(o.profile)
            z == SaveAndIndex(next, old.branches)
            A == Merges(old.targets, old.names, {}, FALSE)
            W == {DropOf(o.profile)}
            Z == {SaveOf(next, Nil)} \cup AfterSet(next, old.branches)
<1>1. DropPlan(doc, o) = IF old = Nil THEN Reject ELSE s \o w \o z
  BY DEF DropPlan, DropDoc, DropProfiles
<1>2. DropSet(doc, o) = IF old = Nil THEN {RejectOf} ELSE A \cup W \cup Z
  BY DEF DropSet
<1>3. CASE old = Nil
  BY <1>1, <1>2, <1>3, ListsSingles
<1>4. CASE old # Nil
  <2>1. /\ o.op # "migrate" /\ o.profile \in Profile
        /\ old.targets \in SUBSET Key /\ old.branches \in SUBSET Branch
    BY <1>4, OldTyped DEF DeleteEnvProfileArgs
  <2>2. Lists(o.op, s, A) /\ Early(o.op, A)
    BY <2>1, ListsMerge DEF RemoveKeys
  <2>3. Lists(o.op, w, W) /\ Early(o.op, W)
    BY ListsSingles, RanksOf DEF Early
  <2>4. Lists(o.op, z, Z)
    BY <2>1, ListsSingles, ListsSaved DEF SaveAndIndex
  <2>. HIDE DEF old, next, s, w, z, A, W, Z
  <2>5. Lists(o.op, s \o w, A \cup W) /\ Early(o.op, A \cup W)
    BY <2>2, <2>3, ListsEarly DEF Early
  <2>6. Lists(o.op, s \o w \o z, A \cup W \cup Z)
    BY <2>4, <2>5, ListsEarly
  <2>. QED  BY <1>1, <1>2, <1>4, <2>6
<1>. QED  BY <1>3, <1>4

-----------------------------------------------------------------------------
(***************************************************************************)
(* What a plan made from document doc promises.                            *)
(***************************************************************************)
BodiesFit(o, doc, S) ==
    /\ \A c \in S :
          /\ c.c = "drop-body" => o.op = "drop" /\ c.p = o.profile
          /\ c.c = "save" => \A p \in Profile : c.new.profiles[p] # Nil =>
                                doc.profiles[p] # Nil \/ WritesBody(S, p)
          /\ c.c = "index" => \A e \in c.profiles : Brings(S, e[1])
    /\ o.op = "upload" => RejectOf \in S \/ Brings(S, o.profile)
ApartFit(o, doc, S) ==
    o.op \notin {"content", "metadata"} /\ Apart(doc.profiles)
    => \A c \in S : c.c = "save" => Apart(c.new.profiles)
FlagFit(o, doc, S) ==
    \A c \in S : c.c = "save" /\ ~c.new.legacy =>
        \/ ~doc.legacy
        \/ /\ o.op = "migrate"
           /\ \E b \in Branch : /\ \E d \in S : d.c = "chart" /\ d.b = b
                                /\ \E d \in S : d.c \in {"commit", "root"} /\ d.b = b
PlanFits(o, doc, S) ==
    /\ \A c \in S : Typed(c)
    /\ SavesFit(o, doc, S) /\ BodiesFit(o, doc, S) /\ ApartFit(o, doc, S) /\ FlagFit(o, doc, S)

LEMMA RejectFits ==
    ASSUME NEW o, NEW doc PROVE PlanFits(o, doc, {RejectOf})
<1>1. \A c \in {RejectOf} : c.c = "reject"
  BY DEF RejectOf
<1>2. \A c \in {RejectOf} : Typed(c)
  BY <1>1 DEF Typed
<1>. QED  BY <1>1, <1>2 DEF PlanFits, SavesFit, BodiesFit, ApartFit, FlagFit

LEMMA NothingFits ==
    ASSUME NEW o, NEW doc, o.op # "upload" PROVE PlanFits(o, doc, {})
BY DEF PlanFits, SavesFit, BodiesFit, ApartFit, FlagFit

LEMMA TargetFits ==
    ASSUME NEW o, NEW doc \in Doc, o.op \in {"upsert", "remove", "hostname", "migrate", "pin"},
           NEW S, \A c \in S : Typed(c) /\ c.c \notin {"drop-body", "index"},
           \A c \in S : c.c = "save" => /\ c.at = Nil /\ c.new.profiles = doc.profiles
                                        /\ c.new.legacy => doc.legacy,
           FlagFit(o, doc, S)
    PROVE  PlanFits(o, doc, S)
<1>1. SavesFit(o, doc, S)
  <2>1. ASSUME NEW c \in S, c.c = "save" PROVE SaveFits(o, doc, c)
    BY <2>1 DEF SaveFits
  <2>2. ASSUME NEW c \in S, NEW e \in S, c.c = "save", e.c = "save", Rank(o.op, c) <= Rank(o.op, e)
        PROVE  SaveFits(o, c.new, e)
    <3>1. e.new.legacy => c.new.legacy
      BY <2>2 DEF Rank
    <3>. QED  BY <2>2, <3>1 DEF SaveFits
  <2>. QED  BY <2>1, <2>2 DEF SavesFit
<1>2. BodiesFit(o, doc, S)
  BY DEF BodiesFit
<1>3. ApartFit(o, doc, S)
  BY DEF ApartFit
<1>. QED  BY <1>1, <1>2, <1>3 DEF PlanFits

LEMMA ProfileFit ==
    ASSUME NEW o, NEW doc \in Doc, o.op \in {"upload", "content", "metadata", "drop"},
           o.profile \in Profile, NEW S, \A c \in S : Typed(c),
           NEW x, NEW next \in Doc, NEW at,
           next.legacy = doc.legacy, next.profiles = [doc.profiles EXCEPT ![o.profile] = x],
           SaveOf(next, at) \in S, \A c \in S : c.c = "save" => c = SaveOf(next, at),
           at = IF o.op \in {"content", "metadata"} THEN o.profile ELSE Nil, o.profile # Nil,
           x = Nil <=> o.op = "drop", doc.profiles[o.profile] = Nil => o.op = "upload",
           o.op = "upload" => WritesBody(S, o.profile),
           \A c \in S : c.c = "drop-body" => o.op = "drop" /\ c.p = o.profile,
           \A c \in S : c.c = "index" => c.profiles = IndexOf(next.profiles),
           o.op \in {"upload", "drop"} /\ Apart(doc.profiles) => Apart(next.profiles)
    PROVE  PlanFits(o, doc, S)
<1>. DEFINE sv == SaveOf(next, at)
<1>1. sv.c = "save" /\ sv.new = next /\ sv.at = at
  BY DEF SaveOf
<1>2. /\ \A p \in Profile : p # o.profile => next.profiles[p] = doc.profiles[p]
      /\ next.profiles[o.profile] = x
  BY DEF Doc
<1>. HIDE DEF sv
<1>3. SavesFit(o, doc, S)
  <2>1. SaveFits(o, doc, sv)
    BY <1>1, <1>2 DEF SaveFits
  <2>2. SaveFits(o, next, sv)
    BY <1>1, <1>2 DEF SaveFits
  <2>. QED  BY <1>1, <2>1, <2>2 DEF SavesFit, sv
<1>4. \A p \in Profile : next.profiles[p] # Nil => Brings(S, p)
  BY <1>1 DEF Brings, sv
<1>5. BodiesFit(o, doc, S)
  <2>1. ASSUME NEW c \in S, c.c = "save", NEW p \in Profile, c.new.profiles[p] # Nil
        PROVE  doc.profiles[p] # Nil \/ WritesBody(S, p)
    <3>1. next.profiles[p] # Nil
      BY <1>1, <2>1 DEF sv
    <3>. QED  BY <1>2, <3>1
  <2>2. ASSUME NEW c \in S, c.c = "index", NEW e \in c.profiles PROVE Brings(S, e[1])
    <3>1. e[1] \in Profile /\ next.profiles[e[1]] # Nil
      BY <2>2 DEF IndexOf
    <3>. QED  BY <1>4, <3>1
  <2>3. o.op = "upload" => Brings(S, o.profile)
    BY <1>2, <1>4
  <2>. QED  BY <2>1, <2>2, <2>3 DEF BodiesFit
<1>6. ApartFit(o, doc, S)
  BY <1>1 DEF ApartFit, sv
<1>7. FlagFit(o, doc, S)
  BY <1>1 DEF FlagFit, sv, Doc
<1>. QED  BY <1>3, <1>5, <1>6, <1>7 DEF PlanFits

(* The calls of the pieces are well typed.                                  *)
LEMMA MergesTyped ==
    ASSUME NEW T \in SUBSET Key, NEW minus \in SUBSET RtKey, NEW plus \in SUBSET RtKey, NEW body
    PROVE  \A c \in Merges(T, minus, plus, body) : Typed(c) /\ c.c \in {"read", "merge"}
<1>1. ASSUME NEW k \in T
      PROVE  /\ ReadOf(k).c = "read" /\ Typed(ReadOf(k))
             /\ MergeOf(k, minus, plus, body).c = "merge" /\ Typed(MergeOf(k, minus, plus, body))
  BY DEF ReadOf, MergeOf, Typed
<1>2. ASSUME NEW c \in Merges(T, minus, plus, body)
      PROVE  \E k \in T : c = ReadOf(k) \/ c = MergeOf(k, minus, plus, body)
  BY Zenon DEF Merges
<1>3. ASSUME NEW c \in Merges(T, minus, plus, body) PROVE Typed(c) /\ c.c \in {"read", "merge"}
  <2>1. PICK k \in T : c = ReadOf(k) \/ c = MergeOf(k, minus, plus, body)
    BY <1>2
  <2>. QED  BY <1>1, <2>1
<1>. QED  BY <1>3

LEMMA PiecesTyped ==
    /\ \A k \in Key, apps \in SUBSET App :
          \A c \in Teardowns(k, apps) \cup Unscopes(k, apps) :
             Typed(c) /\ c.c \in {"teardown", "unscope"}
    /\ \A ts \in [Key -> GoodTarget \cup {Nil}] :
          \A c \in SeedCalls(ts) \cup Publishes(ts) : Typed(c) /\ c.c \in {"seed", "publish"}
    /\ \A doc \in Doc, bs \in SUBSET Branch :
          \A c \in Charts(doc, bs) : Typed(c) /\ c.c = "chart"
<1>1. \A k \in Key, apps \in SUBSET App :
         \A c \in Teardowns(k, apps) \cup Unscopes(k, apps) :
            Typed(c) /\ c.c \in {"teardown", "unscope"}
  BY DEF Teardowns, Unscopes, TeardownOf, UnscopeOf, Typed
<1>2. \A ts \in [Key -> GoodTarget \cup {Nil}] :
         \A c \in SeedCalls(ts) \cup Publishes(ts) : Typed(c) /\ c.c \in {"seed", "publish"}
  BY DEF SeedCalls, Publishes, SeedOf, PublishOf, Typed, KeysOf
<1>4. \A doc \in Doc, bs \in SUBSET Branch :
         \A c \in Charts(doc, bs) : Typed(c) /\ c.c = "chart"
  BY DEF Charts, ChartOf, Typed, Doc
<1>. QED  BY <1>1, <1>2, <1>4

LEMMA SinglesTyped ==
    /\ \A k \in Key : /\ Typed(SeedOf(k)) /\ SeedOf(k).c = "seed"
                      /\ Typed(NoRefOf(k)) /\ NoRefOf(k).c = "no-ref"
    /\ \A b \in Branch : \A ts : /\ Typed(ReadRootOf(b)) /\ ReadRootOf(b).c = "read-root"
                                 /\ Typed(CommitOf(b, ts)) /\ CommitOf(b, ts).c = "commit"
                                 /\ CommitOf(b, ts).b = b
                                 /\ Typed(RootOf(b, ts)) /\ RootOf(b, ts).c = "root"
                                 /\ RootOf(b, ts).b = b
    /\ \A b \in Branch, on \in BOOLEAN :
          Typed(ChartOf(b, on)) /\ ChartOf(b, on).c = "chart" /\ ChartOf(b, on).b = b
    /\ \A k \in Key, a \in App, h \in Host : Typed(HostOf(k, a, h)) /\ HostOf(k, a, h).c = "app-host"
    /\ \A p \in Profile, names \in SUBSET RtKey :
          /\ Typed(BodyOf(p, names)) /\ BodyOf(p, names).c = "body" /\ BodyOf(p, names).p = p
          /\ Typed(ReadBodyOf(p)) /\ ReadBodyOf(p).c = "read-body"
          /\ Typed(DropOf(p)) /\ DropOf(p).c = "drop-body" /\ DropOf(p).p = p
    /\ \A ps \in SUBSET (Profile \X SUBSET Branch) :
          Typed(IndexCall(ps)) /\ IndexCall(ps).c = "index" /\ IndexCall(ps).profiles = ps
    /\ \A new \in Doc, at \in Profile \cup {Nil} :
          /\ Typed(SaveOf(new, at)) /\ SaveOf(new, at).c = "save"
          /\ SaveOf(new, at).new = new /\ SaveOf(new, at).at = at
BY DEF Typed, SeedOf, NoRefOf, ReadRootOf, CommitOf, RootOf, ChartOf, HostOf, BodyOf, ReadBodyOf,
       DropOf, IndexCall, SaveOf

LEMMA SyncTyped ==
    ASSUME NEW doc \in Doc, NEW b \in Branch
    PROVE  \A c \in SyncSet(doc, b) :
              /\ Typed(c) /\ c.c \in {"seed", "publish", "read-root", "commit", "save"}
              /\ c.c = "save" => c = SaveOf(doc, Nil)
<1>1. doc.targets \in [Key -> GoodTarget \cup {Nil}]
  BY DEF Doc
<1>2. \A c \in SeedCalls(doc.targets) \cup Publishes(doc.targets) :
         Typed(c) /\ c.c \in {"seed", "publish"}
  BY <1>1, PiecesTyped
<1>3. \A c \in {ReadRootOf(b), CommitOf(b, doc.targets)} : Typed(c) /\ c.c \in {"read-root", "commit"}
  BY SinglesTyped
<1>4. \A c \in {SaveOf(doc, Nil)} : Typed(c) /\ c.c = "save"
  BY SinglesTyped
<1>. QED  BY <1>2, <1>3, <1>4 DEF SyncSet

-----------------------------------------------------------------------------
(***************************************************************************)
(* Each handler's plan keeps these promises.                               *)
(***************************************************************************)
LEMMA UpsertFits ==
    ASSUME NEW doc \in Doc, NEW o \in UpsertDeploymentTargetInput
    PROVE  PlanFits(o, doc, UpsertSet(doc, o))
<1>1. CASE Refused(doc, o)
  BY <1>1, RejectFits DEF UpsertSet
<1>2. CASE ~Refused(doc, o)
  <2>. DEFINE new == UpsertNew(doc, o)
              next == UpsertDoc(doc, o)
              b == OwnBranch(new.ref)
              S == UpsertSet(doc, o)
  <2>1. /\ o.op = "upsert" /\ o.key \in Key /\ o.on \in BOOLEAN /\ o.apps \in SUBSET App
        /\ o.ref \in Branch \cup {NoRef, Nil} /\ o.hosts \in [App -> Host \cup {Nil}]
    BY DEF UpsertDeploymentTargetInput, Optional, Ref, TargetAppInput
  <2>2. doc.targets \in [Key -> GoodTarget \cup {Nil}] /\ doc.profiles \in [Profile -> StoredProfile \cup {Nil}]
    BY DEF Doc
  <2>3. new.ref \in Branch \cup {NoRef}
    <3>1. SavedRef(o.key, o.on, o.ref, doc.targets[o.key]) \in Branch \cup {NoRef, Nil}
      BY <2>1, <2>2, SavedTyped
    <3>2. new.ref = SavedRef(o.key, o.on, o.ref, doc.targets[o.key])
      BY DEF UpsertNew
    <3>. QED  BY <1>2, <3>1, <3>2 DEF Refused, ValidRef
  <2>4. new \in Target /\ AppsOf(new) = o.apps
    BY <2>1, <2>3, HostsTyped DEF UpsertNew
  <2>5. new \in GoodTarget
    BY <1>2, <2>4 DEF GoodTarget, Refused
  <2>6. next \in Doc /\ next.profiles = doc.profiles /\ next.legacy = doc.legacy
    BY <2>1, <2>2, <2>5 DEF UpsertDoc, Doc
  <2>7. b \in Branch
    BY <2>3, RefAssumption DEF OwnBranch
  <2>8. AppsOf(new) \in SUBSET App /\ AppsOf(doc.targets[o.key]) \ AppsOf(new) \in SUBSET App
    BY DEF AppsOf
  <2>9. \A c \in S : /\ Typed(c) /\ c.c \notin {"drop-body", "index"}
                     /\ c.c = "save" => c = SaveOf(next, Nil)
    <3>1. \A c \in SyncSet(next, b) \cup {SaveOf(next, Nil)} :
             /\ Typed(c) /\ c.c \notin {"drop-body", "index"}
             /\ c.c = "save" => c = SaveOf(next, Nil)
      BY <2>6, <2>7, SyncTyped, SinglesTyped
    <3>2. \A c \in Teardowns(o.key, AppsOf(new)) \cup {SeedOf(o.key)}
                   \cup Unscopes(o.key, AppsOf(doc.targets[o.key]) \ AppsOf(new)) :
             Typed(c) /\ c.c \in {"teardown", "seed", "unscope"}
      BY <2>1, <2>8, PiecesTyped, SinglesTyped
    <3>3. S \subseteq (SyncSet(next, b) \cup {SaveOf(next, Nil)})
                      \cup (Teardowns(o.key, AppsOf(new)) \cup {SeedOf(o.key)}
                            \cup Unscopes(o.key, AppsOf(doc.targets[o.key]) \ AppsOf(new)))
      BY <1>2 DEF UpsertSet
    <3>. QED  BY <3>1, <3>2, <3>3
  <2>. HIDE DEF S, next
  <2>10. \A c \in S : c.c = "save" => /\ c.at = Nil /\ c.new.profiles = doc.profiles
                                      /\ c.new.legacy = doc.legacy
    BY <2>6, <2>9, SinglesTyped
  <2>11. FlagFit(o, doc, S)
    BY <2>10 DEF FlagFit, Doc
  <2>12. PlanFits(o, doc, S)
    BY <2>1, <2>9, <2>10, <2>11, TargetFits
  <2>. QED  BY <2>12 DEF S
<1>. QED  BY <1>1, <1>2

LEMMA RemoveFits ==
    ASSUME NEW doc \in Doc, NEW o \in RemoveDeploymentTargetArgs
    PROVE  PlanFits(o, doc, RemoveSet(doc, o))
<1>. DEFINE old == doc.targets[o.key]
<1>1. CASE old = Nil
  BY <1>1, RejectFits DEF RemoveSet
<1>2. CASE old # Nil
  <2>. DEFINE next == RemoveDoc(doc, o)
              b == OwnBranch(old.ref)
              S == RemoveSet(doc, o)
  <2>1. o.op = "remove" /\ o.key \in Key
    BY DEF RemoveDeploymentTargetArgs
  <2>2. doc.targets \in [Key -> GoodTarget \cup {Nil}]
    BY DEF Doc
  <2>3. old.ref \in Branch \cup {NoRef}
    BY <1>2, <2>1, <2>2 DEF GoodTarget, Target
  <2>4. next \in Doc /\ next.profiles = doc.profiles /\ next.legacy = doc.legacy
    BY <2>1, <2>2 DEF RemoveDoc, Doc
  <2>5. b \in Branch
    BY <2>3, RefAssumption DEF OwnBranch
  <2>6. AppsOf(old) \in SUBSET App
    BY DEF AppsOf
  <2>7. \A c \in S : /\ Typed(c) /\ c.c \notin {"drop-body", "index"}
                     /\ c.c = "save" => c = SaveOf(next, Nil)
    <3>1. \A c \in {SaveOf(next, Nil)} : Typed(c) /\ c.c = "save"
      BY <2>4, SinglesTyped
    <3>2. \A c \in Teardowns(o.key, AppsOf(old)) \cup Unscopes(o.key, AppsOf(old))
                   \cup {NoRefOf(o.key)} \cup {ReadRootOf(b), CommitOf(b, next.targets)} :
             Typed(c) /\ c.c \in {"teardown", "unscope", "no-ref", "read-root", "commit"}
      BY <2>1, <2>5, <2>6, PiecesTyped, SinglesTyped
    <3>3. S \subseteq {SaveOf(next, Nil)}
                      \cup (Teardowns(o.key, AppsOf(old)) \cup Unscopes(o.key, AppsOf(old))
                            \cup {NoRefOf(o.key)} \cup {ReadRootOf(b), CommitOf(b, next.targets)})
      BY <1>2 DEF RemoveSet
    <3>. QED  BY <3>1, <3>2, <3>3
  <2>. HIDE DEF S, next
  <2>8. \A c \in S : c.c = "save" => /\ c.at = Nil /\ c.new.profiles = doc.profiles
                                     /\ c.new.legacy = doc.legacy
    BY <2>4, <2>7, SinglesTyped
  <2>9. FlagFit(o, doc, S)
    BY <2>8 DEF FlagFit, Doc
  <2>10. PlanFits(o, doc, S)
    BY <2>1, <2>7, <2>8, <2>9, TargetFits
  <2>. QED  BY <2>10 DEF S
<1>. QED  BY <1>1, <1>2

LEMMA HostTyped ==
    ASSUME NEW t \in GoodTarget, NEW h \in Host
    PROVE  /\ First(AppsOf(t)) \in App
           /\ [t EXCEPT !.host[First(AppsOf(t))] = h] \in GoodTarget
<1>. DEFINE a == First(AppsOf(t))
            u == [t EXCEPT !.host[a] = h]
<1>1. a \in AppsOf(t) /\ a \in App
  BY DEF GoodTarget, First, AppsOf
<1>. HIDE DEF a
<1>2. u \in Target /\ u.host[a] = h
  BY <1>1 DEF GoodTarget, Target
<1>3. u # Nil /\ h # Nil
  BY <1>2, NilAssumption, RefAssumption
<1>4. a \in AppsOf(u)
  BY <1>1, <1>2, <1>3 DEF AppsOf
<1>. QED  BY <1>1, <1>2, <1>4 DEF GoodTarget, a

LEMMA HostnameFits ==
    ASSUME NEW doc \in Doc, NEW o \in HostnameArgs
    PROVE  PlanFits(o, doc, HostnameSet(doc, o))
<1>. DEFINE old == doc.targets[o.key]
<1>1. CASE old = Nil
  BY <1>1, RejectFits DEF HostnameSet
<1>2. CASE old # Nil
  <2>. DEFINE next == HostDoc(doc, o)
              a == HostApp(doc, o)
              S == HostnameSet(doc, o)
              u == [old EXCEPT !.host[a] = o.host]
  <2>1. o.op = "hostname" /\ o.key \in Key /\ o.host \in Host
    BY DEF HostnameArgs
  <2>2. doc.targets \in [Key -> GoodTarget \cup {Nil}] /\ old \in GoodTarget
    BY <1>2, <2>1 DEF Doc
  <2>3. a \in App /\ u \in GoodTarget
    BY <2>1, <2>2, HostTyped DEF HostApp
  <2>4. next = [doc EXCEPT !.targets = [@ EXCEPT ![o.key] = u]]
    BY <2>1, <2>2 DEF HostDoc
  <2>. HIDE DEF u, a
  <2>5. next \in Doc /\ next.profiles = doc.profiles /\ next.legacy = doc.legacy
    BY <2>1, <2>2, <2>3, <2>4 DEF Doc
  <2>6. S = {SaveOf(next, Nil)} \cup {HostOf(o.key, a, o.host)}
    BY <1>2 DEF HostnameSet, a
  <2>. HIDE DEF S, next
  <2>7. \A c \in S : /\ Typed(c) /\ c.c \notin {"drop-body", "index"}
                     /\ c.c = "save" => c = SaveOf(next, Nil)
    BY <2>1, <2>3, <2>5, <2>6, SinglesTyped
  <2>8. \A c \in S : c.c = "save" => /\ c.at = Nil /\ c.new.profiles = doc.profiles
                                     /\ c.new.legacy = doc.legacy
    BY <2>5, <2>7, SinglesTyped
  <2>9. FlagFit(o, doc, S)
    BY <2>8 DEF FlagFit, Doc
  <2>10. PlanFits(o, doc, S)
    BY <2>1, <2>7, <2>8, <2>9, TargetFits
  <2>. QED  BY <2>10 DEF S
<1>. QED  BY <1>1, <1>2

LEMMA MigrateFits ==
    ASSUME NEW doc \in Doc, NEW o \in MigrateInput
    PROVE  PlanFits(o, doc, MigrateSet(doc, o))
<1>. DEFINE next == MigrateDoc(doc, o)
            flags == MigrateFlags(doc, o)
            b == PipelineRef(o.opts)
            S == MigrateSet(doc, o)
<1>1. CASE doc.pinned /\ ~o.unpin
  BY <1>1, RejectFits DEF MigrateSet
<1>2. CASE ~(doc.pinned /\ ~o.unpin) /\ ~doc.legacy
  BY <1>2, NothingFits DEF MigrateSet, MigrateInput
<1>3. CASE ~(doc.pinned /\ ~o.unpin) /\ doc.legacy
  <2>1. o.op = "migrate" /\ o.opts \in DeployBranchOptionsInput /\ o.unpin \in BOOLEAN
    BY DEF MigrateInput
  <2>2. b \in Branch
    BY <2>1, RefAssumption DEF PipelineRef, DeployBranchOptionsInput, Optional
  <2>3. MigrateTargets(doc, o) \in [Key -> GoodTarget \cup {Nil}]
    <3>1. doc.targets \in [Key -> GoodTarget \cup {Nil}]
      BY DEF Doc
    <3>2. [k \in Key |-> DeriveStandard(k, doc.app, doc.deployable)] \in [Key -> GoodTarget \cup {Nil}]
      BY DerivedTyped DEF Doc
    <3>. QED  BY <2>1, <3>1, <3>2, OverriddenTyped DEF MigrateTargets
  <2>4. next \in Doc /\ next.profiles = doc.profiles /\ next.legacy = doc.legacy
    BY <2>3 DEF MigrateDoc, Doc
  <2>5. flags \in Doc /\ flags.profiles = doc.profiles /\ flags.legacy = FALSE
    BY <2>1, <2>4 DEF MigrateFlags, Doc
  <2>6. doc.runtime \in BOOLEAN
    BY DEF Doc
  <2>. DEFINE A == {ChartOf(b, doc.runtime)}
              B == IF Deployable(next) THEN SyncSet(next, b)
                   ELSE {ReadRootOf(b), RootOf(b, next.targets)}
              C == {SaveOf(flags, Nil)}
  <2>7. S = A \cup B \cup C
    BY <1>3 DEF MigrateSet
  <2>8. \A c \in B : /\ Typed(c) /\ c.c \notin {"drop-body", "index"}
                     /\ c.c = "save" => c = SaveOf(next, Nil)
    BY <2>2, <2>4, SyncTyped, SinglesTyped
  <2>9. \E c \in B : c.c \in {"commit", "root"} /\ c.b = b
    <3>1. CommitOf(b, next.targets) \in B \/ RootOf(b, next.targets) \in B
      BY DEF SyncSet
    <3>. QED  BY <2>2, <3>1, SinglesTyped
  <2>10. \A c \in A : Typed(c) /\ c.c = "chart" /\ c.b = b
    BY <2>2, <2>6, SinglesTyped
  <2>11. \A c \in C : Typed(c) /\ c.c = "save" /\ c = SaveOf(flags, Nil)
    BY <2>5, SinglesTyped
  <2>. HIDE DEF S, next, flags, B, b
  <2>12. \A c \in S : /\ Typed(c) /\ c.c \notin {"drop-body", "index"}
                      /\ c.c = "save" => c = SaveOf(next, Nil) \/ c = SaveOf(flags, Nil)
    BY <2>7, <2>8, <2>10, <2>11
  <2>13. \A c \in S : c.c = "save" => /\ c.at = Nil /\ c.new.profiles = doc.profiles
                                      /\ c.new.legacy => doc.legacy
    BY <1>3, <2>4, <2>5, <2>12, SinglesTyped
  <2>14. FlagFit(o, doc, S)
    <3>1. \E d \in S : d.c = "chart" /\ d.b = b
      BY <2>7, <2>10
    <3>2. \E d \in S : d.c \in {"commit", "root"} /\ d.b = b
      BY <2>7, <2>9
    <3>. QED  BY <2>1, <2>2, <3>1, <3>2 DEF FlagFit
  <2>15. PlanFits(o, doc, S)
    BY <2>1, <2>12, <2>13, <2>14, TargetFits
  <2>. QED  BY <2>15 DEF S
<1>. QED  BY <1>1, <1>2, <1>3

LEMMA PinFits ==
    ASSUME NEW doc \in Doc, NEW o \in PinArgs
    PROVE  PlanFits(o, doc, PinSet(doc, o))
<1>. DEFINE next == PinDoc(doc, o)
            S == PinSet(doc, o)
<1>1. o.op = "pin" /\ o.pinned \in BOOLEAN
  BY DEF PinArgs
<1>2. next \in Doc /\ next.profiles = doc.profiles /\ next.legacy = doc.legacy
  BY <1>1 DEF PinDoc, Doc
<1>3. S = {SaveOf(next, Nil)}
  BY DEF PinSet
<1>. HIDE DEF S, next
<1>4. \A c \in S : /\ Typed(c) /\ c.c = "save" /\ c.at = Nil /\ c.new.profiles = doc.profiles
                   /\ c.new.legacy = doc.legacy
  BY <1>2, <1>3, SinglesTyped
<1>5. FlagFit(o, doc, S)
  BY <1>4 DEF FlagFit, Doc
<1>6. PlanFits(o, doc, S)
  BY <1>1, <1>4, <1>5, TargetFits
<1>. QED  BY <1>6 DEF S

LEMMA IndexTyped ==
    ASSUME NEW doc \in Doc
    PROVE  IndexOf(doc.profiles) \in SUBSET (Profile \X SUBSET Branch)
<1>. SUFFICES ASSUME NEW p \in Profile, doc.profiles[p] # Nil
              PROVE  doc.profiles[p].branches \in SUBSET Branch
  BY DEF IndexOf
<1>. QED  BY OldTyped

LEMMA AfterTyped ==
    ASSUME NEW doc \in Doc, NEW branches \in SUBSET Branch
    PROVE  \A c \in AfterSet(doc, branches) :
              /\ Typed(c) /\ c.c \in {"index", "chart"}
              /\ c.c = "index" => c.profiles = IndexOf(doc.profiles)
<1>1. IndexOf(doc.profiles) \in SUBSET (Profile \X SUBSET Branch)
  BY IndexTyped
<1>. HIDE DEF IndexOf
<1>. QED  BY <1>1, PiecesTyped, SinglesTyped DEF AfterSet

LEMMA OverlapsBoth == ASSUME NEW p, NEW q PROVE Overlaps(p, q) <=> Overlaps(q, p)
BY DEF Overlaps

LEMMA UploadFits ==
    ASSUME NEW doc \in Doc, NEW o \in UploadEnvProfileInput
    PROVE  PlanFits(o, doc, UploadSet(doc, o))
<1>. DEFINE new == NewProfile(o)
            next == UploadDoc(doc, o)
            S == UploadSet(doc, o)
            M == Merges(new.targets, {}, o.names, FALSE)
            W == {BodyOf(o.profile, o.names)}
<1>1. o.op = "upload" /\ o.profile \in Profile /\ o.names \in SUBSET RtKey
  BY DEF UploadEnvProfileInput
<1>2. /\ new \in StoredProfile /\ new # Nil
      /\ new.targets \in SUBSET Key /\ new.branches \in SUBSET Branch
  BY NewTyped
<1>3. next \in Doc /\ next.legacy = doc.legacy
      /\ next.profiles = [doc.profiles EXCEPT ![o.profile] = new]
  BY <1>1, <1>2 DEF UploadDoc, UploadProfiles, RuntimeEnv, Doc
<1>4. \A c \in M \cup W : Typed(c) /\ c.c \in {"read", "merge", "body"}
  <2>1. {} \in SUBSET RtKey
    OBVIOUS
  <2>2. \A c \in M : Typed(c) /\ c.c \in {"read", "merge"}
    BY <1>1, <1>2, <2>1, MergesTyped
  <2>3. \A c \in W : Typed(c) /\ c.c = "body"
    BY <1>1, SinglesTyped
  <2>. HIDE DEF M, W
  <2>. QED  BY <2>2, <2>3
<1>5. CASE ~ValidUpload(doc, o)
  BY <1>5, RejectFits DEF UploadSet
<1>6. CASE ValidUpload(doc, o) /\ Conflicts(doc, o)
  <2>1. S = M \cup W \cup {RejectOf}
    BY <1>6 DEF UploadSet
  <2>2. \A c \in {RejectOf} : c.c = "reject" /\ Typed(c)
    BY DEF RejectOf, Typed
  <2>. HIDE DEF S, M, W
  <2>3. /\ RejectOf \in S
        /\ \A c \in S : Typed(c) /\ c.c \in {"read", "merge", "body", "reject"}
    BY <1>4, <2>1, <2>2
  <2>4. PlanFits(o, doc, S)
    BY <2>3 DEF PlanFits, SavesFit, BodiesFit, ApartFit, FlagFit
  <2>. QED  BY <2>4 DEF S
<1>7. CASE ValidUpload(doc, o) /\ ~Conflicts(doc, o)
  <2>. DEFINE A == AfterSet(next, new.branches)
              V == {SaveOf(next, Nil)}
  <2>1. S = M \cup W \cup (V \cup A)
    BY <1>7 DEF UploadSet
  <2>2. \A c \in A : /\ Typed(c) /\ c.c \in {"index", "chart"}
                     /\ c.c = "index" => c.profiles = IndexOf(next.profiles)
    BY <1>2, <1>3, AfterTyped
  <2>3. \A c \in V : Typed(c) /\ c.c = "save" /\ c = SaveOf(next, Nil)
    BY <1>3, SinglesTyped
  <2>4. Apart(doc.profiles) => Apart(next.profiles)
    <3>. SUFFICES ASSUME Apart(doc.profiles), NEW p \in Profile, NEW q \in Profile, p # q,
                         next.profiles[p] # Nil, next.profiles[q] # Nil
                  PROVE  ~Overlaps(next.profiles[p], next.profiles[q])
      BY DEF Apart
    <3>1. \A x \in Profile : next.profiles[x] = IF x = o.profile THEN new ELSE doc.profiles[x]
      BY <1>1, <1>3 DEF Doc
    <3>2. \A x \in Profile : doc.profiles[x] # Nil => ~Overlaps(doc.profiles[x], new)
      BY <1>7 DEF Conflicts, ProfilesOf
    <3>. HIDE DEF new, next
    <3>3. CASE p = o.profile
      BY <3>1, <3>2, <3>3, OverlapsBoth
    <3>4. CASE q = o.profile
      BY <3>1, <3>2, <3>4
    <3>5. CASE p # o.profile /\ q # o.profile
      BY <3>1, <3>5 DEF Apart
    <3>. QED  BY <3>3, <3>4, <3>5
  <2>5. WritesBody(M \cup W \cup (V \cup A), o.profile)
    <3>1. BodyOf(o.profile, o.names).c = "body" /\ BodyOf(o.profile, o.names).p = o.profile
      BY <1>1, SinglesTyped
    <3>. QED  BY <3>1 DEF WritesBody
  <2>6. SaveOf(next, Nil) \in V
    OBVIOUS
  <2>. HIDE DEF S, M, W, A, V, new, next
  <2>7. /\ SaveOf(next, Nil) \in S
        /\ \A c \in S : /\ Typed(c) /\ c.c # "drop-body"
                        /\ c.c = "save" => c = SaveOf(next, Nil)
                        /\ c.c = "index" => c.profiles = IndexOf(next.profiles)
    BY <1>4, <2>1, <2>2, <2>3, <2>6
  <2>8. o.profile # Nil
    BY <1>1, NilAssumption
  <2>9. PlanFits(o, doc, S)
    BY <1>1, <1>2, <1>3, <2>1, <2>4, <2>5, <2>7, <2>8, ProfileFit
  <2>. QED  BY <2>9 DEF S
<1>. QED  BY <1>5, <1>6, <1>7

LEMMA ContentFits ==
    ASSUME NEW doc \in Doc, NEW o \in UpdateEnvProfileContentInput
    PROVE  PlanFits(o, doc, ContentSet(doc, o))
<1>. DEFINE old == doc.profiles[o.profile]
            new == EditedNames(doc, o)
            next == ContentDoc(doc, o)
            S == ContentSet(doc, o)
            M == Merges(old.targets, old.names, {}, FALSE) \cup Merges(old.targets, {}, o.names, FALSE)
            W == {BodyOf(o.profile, o.names)}
            V == {SaveOf(next, o.profile)}
            A == AfterSet(next, new.branches)
<1>1. o.op = "content" /\ o.profile \in Profile /\ o.names \in SUBSET RtKey
  BY DEF UpdateEnvProfileContentInput
<1>2. CASE old = Nil
  BY <1>2, RejectFits DEF ContentSet
<1>3. CASE old # Nil
  <2>1. new \in StoredProfile /\ new # Nil /\ new.branches \in SUBSET Branch
    BY <1>3, NamesTyped
  <2>2. next \in Doc /\ next.legacy = doc.legacy
        /\ next.profiles = [doc.profiles EXCEPT ![o.profile] = new]
    BY <1>1, <2>1 DEF ContentDoc, ContentProfiles, RuntimeEnv, Doc
  <2>3. \A c \in M \cup W : Typed(c) /\ c.c \in {"read", "merge", "body"}
    <3>1. {} \in SUBSET RtKey /\ old.targets \in SUBSET Key /\ old.names \in SUBSET RtKey
      BY <1>1, <1>3, OldTyped
    <3>2. /\ \A c \in Merges(old.targets, old.names, {}, FALSE) : Typed(c) /\ c.c \in {"read", "merge"}
          /\ \A c \in Merges(old.targets, {}, o.names, FALSE) : Typed(c) /\ c.c \in {"read", "merge"}
      BY <1>1, <3>1, MergesTyped
    <3>3. \A c \in W : Typed(c) /\ c.c = "body"
      BY <1>1, SinglesTyped
    <3>. HIDE DEF W
    <3>. QED  BY <3>2, <3>3
  <2>4. \A c \in A : /\ Typed(c) /\ c.c \in {"index", "chart"}
                     /\ c.c = "index" => c.profiles = IndexOf(next.profiles)
    BY <2>1, <2>2, AfterTyped
  <2>5. \A c \in V : Typed(c) /\ c.c = "save" /\ c = SaveOf(next, o.profile)
    BY <1>1, <2>2, SinglesTyped
  <2>6. S = M \cup W \cup V \cup A
    BY <1>3 DEF ContentSet
  <2>7. SaveOf(next, o.profile) \in V
    OBVIOUS
  <2>. HIDE DEF S, M, W, A, V, new, next
  <2>8. /\ SaveOf(next, o.profile) \in S
        /\ \A c \in S : /\ Typed(c) /\ c.c # "drop-body"
                        /\ c.c = "save" => c = SaveOf(next, o.profile)
                        /\ c.c = "index" => c.profiles = IndexOf(next.profiles)
    BY <2>3, <2>4, <2>5, <2>6, <2>7
  <2>9. o.profile # Nil
    BY <1>1, NilAssumption
  <2>10. PlanFits(o, doc, S)
    BY <1>1, <1>3, <2>1, <2>2, <2>8, <2>9, ProfileFit
  <2>. QED  BY <2>10 DEF S
<1>. QED  BY <1>2, <1>3

LEMMA MetadataFits ==
    ASSUME NEW doc \in Doc, NEW o \in UpdateEnvProfileMetadataInput
    PROVE  PlanFits(o, doc, MetadataSet(doc, o))
<1>. DEFINE old == doc.profiles[o.profile]
            new == EditedPlace(doc, o)
            next == MetadataDoc(doc, o)
            S == MetadataSet(doc, o)
            M == MovesOf(doc, o)
            V == {SaveOf(next, o.profile)}
            A == AfterSet(next, old.branches \cup new.branches)
<1>1. o.op = "metadata" /\ o.profile \in Profile
  BY DEF UpdateEnvProfileMetadataInput
<1>2. CASE old = Nil \/ new.branches = {}
  BY <1>2, RejectFits DEF MetadataSet
<1>3. CASE old # Nil /\ new.branches # {}
  <2>1. /\ new \in StoredProfile /\ new # Nil /\ new.branches \in SUBSET Branch
        /\ new.targets \in SUBSET Key /\ old.branches \in SUBSET Branch
        /\ old.targets \in SUBSET Key /\ old.names \in SUBSET RtKey
    BY <1>1, <1>3, PlaceTyped, OldTyped
  <2>2. next \in Doc /\ next.legacy = doc.legacy
        /\ next.profiles = [doc.profiles EXCEPT ![o.profile] = new]
    BY <1>1, <2>1 DEF MetadataDoc, Doc
  <2>3. \A c \in M : Typed(c) /\ c.c \in {"read", "merge", "read-body"}
    <3>1. {} \in SUBSET RtKey
      OBVIOUS
    <3>2. /\ \A c \in Merges(old.targets, old.names, {}, FALSE) : Typed(c) /\ c.c \in {"read", "merge"}
          /\ \A c \in Merges(new.targets, {}, {}, TRUE) : Typed(c) /\ c.c \in {"read", "merge"}
      BY <2>1, <3>1, MergesTyped
    <3>3. \A c \in {ReadBodyOf(o.profile)} : Typed(c) /\ c.c = "read-body"
      BY <1>1, <3>1, SinglesTyped
    <3>. HIDE DEF new
    <3>. QED  BY <3>2, <3>3 DEF MovesOf, new
  <2>4. \A c \in A : /\ Typed(c) /\ c.c \in {"index", "chart"}
                     /\ c.c = "index" => c.profiles = IndexOf(next.profiles)
    BY <2>1, <2>2, AfterTyped
  <2>5. \A c \in V : Typed(c) /\ c.c = "save" /\ c = SaveOf(next, o.profile)
    BY <1>1, <2>2, SinglesTyped
  <2>6. S = M \cup V \cup A
    BY <1>3 DEF MetadataSet
  <2>7. SaveOf(next, o.profile) \in V
    OBVIOUS
  <2>. HIDE DEF S, M, A, V, new, next
  <2>8. /\ SaveOf(next, o.profile) \in S
        /\ \A c \in S : /\ Typed(c) /\ c.c # "drop-body"
                        /\ c.c = "save" => c = SaveOf(next, o.profile)
                        /\ c.c = "index" => c.profiles = IndexOf(next.profiles)
    BY <2>3, <2>4, <2>5, <2>6, <2>7
  <2>9. o.profile # Nil
    BY <1>1, NilAssumption
  <2>10. PlanFits(o, doc, S)
    BY <1>1, <1>3, <2>1, <2>2, <2>8, <2>9, ProfileFit
  <2>. QED  BY <2>10 DEF S
<1>. QED  BY <1>2, <1>3

LEMMA DropFits ==
    ASSUME NEW doc \in Doc, NEW o \in DeleteEnvProfileArgs
    PROVE  PlanFits(o, doc, DropSet(doc, o))
<1>. DEFINE old == doc.profiles[o.profile]
            next == DropDoc(doc, o)
            S == DropSet(doc, o)
            M == Merges(old.targets, old.names, {}, FALSE)
            W == {DropOf(o.profile)}
            V == {SaveOf(next, Nil)}
            A == AfterSet(next, old.branches)
<1>1. o.op = "drop" /\ o.profile \in Profile
  BY DEF DeleteEnvProfileArgs
<1>2. CASE old = Nil
  BY <1>2, RejectFits DEF DropSet
<1>3. CASE old # Nil
  <2>1. old.branches \in SUBSET Branch /\ old.targets \in SUBSET Key /\ old.names \in SUBSET RtKey
    BY <1>1, <1>3, OldTyped
  <2>2. next \in Doc /\ next.legacy = doc.legacy
        /\ next.profiles = [doc.profiles EXCEPT ![o.profile] = Nil]
    BY <1>1, <2>1 DEF DropDoc, DropProfiles, RuntimeEnv, Doc
  <2>3. \A c \in M \cup W : /\ Typed(c) /\ c.c \in {"read", "merge", "drop-body"}
                            /\ c.c = "drop-body" => c.p = o.profile
    <3>1. {} \in SUBSET RtKey
      OBVIOUS
    <3>2. \A c \in M : Typed(c) /\ c.c \in {"read", "merge"}
      BY <2>1, <3>1, MergesTyped
    <3>3. \A c \in W : Typed(c) /\ c.c = "drop-body" /\ c.p = o.profile
      BY <1>1, <3>1, SinglesTyped
    <3>. HIDE DEF M, W
    <3>. QED  BY <3>2, <3>3
  <2>4. \A c \in A : /\ Typed(c) /\ c.c \in {"index", "chart"}
                     /\ c.c = "index" => c.profiles = IndexOf(next.profiles)
    BY <2>1, <2>2, AfterTyped
  <2>5. \A c \in V : Typed(c) /\ c.c = "save" /\ c = SaveOf(next, Nil)
    BY <1>1, <2>2, SinglesTyped
  <2>6. S = M \cup W \cup (V \cup A)
    BY <1>3 DEF DropSet
  <2>7. SaveOf(next, Nil) \in V
    OBVIOUS
  <2>8. Apart(doc.profiles) => Apart(next.profiles)
    BY <1>1, <2>2 DEF Apart, Doc
  <2>. HIDE DEF S, M, W, A, V, next
  <2>9. /\ SaveOf(next, Nil) \in S
        /\ \A c \in S : /\ Typed(c)
                        /\ c.c = "drop-body" => c.p = o.profile
                        /\ c.c = "save" => c = SaveOf(next, Nil)
                        /\ c.c = "index" => c.profiles = IndexOf(next.profiles)
    BY <2>3, <2>4, <2>5, <2>6, <2>7
  <2>10. o.profile # Nil
    BY <1>1, NilAssumption
  <2>11. PlanFits(o, doc, S)
    BY <1>1, <1>3, <2>2, <2>8, <2>9, <2>10, ProfileFit
  <2>. QED  BY <2>11 DEF S
<1>. QED  BY <1>2, <1>3

-----------------------------------------------------------------------------
(***************************************************************************)
(* A request that starts, moves on or stops.                               *)
(***************************************************************************)
LEMMA OpTyped ==
    ASSUME NEW o \in Ops
    PROVE  /\ o.op = "upsert" => o \in UpsertDeploymentTargetInput
           /\ o.op = "remove" => o \in RemoveDeploymentTargetArgs
           /\ o.op = "hostname" => o \in HostnameArgs
           /\ o.op = "migrate" => o \in MigrateInput
           /\ o.op = "pin" => o \in PinArgs
           /\ o.op = "upload" => o \in UploadEnvProfileInput
           /\ o.op = "content" => o \in UpdateEnvProfileContentInput
           /\ o.op = "metadata" => o \in UpdateEnvProfileMetadataInput
           /\ o.op = "drop" => o \in DeleteEnvProfileArgs
           /\ o.op \in {"upload", "content", "metadata", "drop"} => o.profile \in Profile
<1>1. o \in ProjectRequest
  BY OpsAssumption
<1>2. \/ o \in UpsertDeploymentTargetInput \/ o \in RemoveDeploymentTargetArgs
      \/ o \in HostnameArgs \/ o \in MigrateInput \/ o \in PinArgs
      \/ o \in UploadEnvProfileInput \/ o \in UpdateEnvProfileContentInput
      \/ o \in UpdateEnvProfileMetadataInput \/ o \in DeleteEnvProfileArgs
  BY <1>1 DEF ProjectRequest
<1>3. /\ o \in UpsertDeploymentTargetInput => o.op = "upsert"
      /\ o \in RemoveDeploymentTargetArgs => o.op = "remove"
      /\ o \in HostnameArgs => o.op = "hostname"
      /\ o \in MigrateInput => o.op = "migrate"
      /\ o \in PinArgs => o.op = "pin"
      /\ o \in UploadEnvProfileInput => o.op = "upload" /\ o.profile \in Profile
      /\ o \in UpdateEnvProfileContentInput => o.op = "content" /\ o.profile \in Profile
      /\ o \in UpdateEnvProfileMetadataInput => o.op = "metadata" /\ o.profile \in Profile
      /\ o \in DeleteEnvProfileArgs => o.op = "drop" /\ o.profile \in Profile
  BY DEF UpsertDeploymentTargetInput, RemoveDeploymentTargetArgs, HostnameArgs, MigrateInput,
         PinArgs, UploadEnvProfileInput, UpdateEnvProfileContentInput,
         UpdateEnvProfileMetadataInput, DeleteEnvProfileArgs
<1>. QED  BY <1>2, <1>3

Starts(r, o) == WiringStarts(r, o) \/ ProfileStarts(r, o)
Planned(o, doc, plan) == \E S : Lists(o.op, plan, S) /\ PlanFits(o, doc, S)

LEMMA StartsPlanned ==
    ASSUME row \in Doc, NEW r, NEW o \in Ops, Starts(r, o)
    PROVE  \E plan : Begins(r, o, plan) /\ Planned(o, row, plan)
<1>1. CASE UpsertTarget(r, o)
  BY <1>1, OpTyped, ListsUpsert, UpsertFits DEF UpsertTarget, Planned
<1>2. CASE RemoveTarget(r, o)
  BY <1>2, OpTyped, ListsRemove, RemoveFits DEF RemoveTarget, Planned
<1>3. CASE SetHostname(r, o)
  BY <1>3, OpTyped, ListsHostname, HostnameFits DEF SetHostname, Planned
<1>4. CASE Migrate(r, o)
  BY <1>4, OpTyped, ListsMigrate, MigrateFits DEF Migrate, Planned
<1>5. CASE SetPinned(r, o)
  BY <1>5, OpTyped, ListsPin, PinFits DEF SetPinned, Planned
<1>6. CASE Upload(r, o)
  BY <1>6, OpTyped, ListsUpload, UploadFits DEF Upload, Planned
<1>7. CASE UpdateContent(r, o)
  BY <1>7, OpTyped, ListsContent, ContentFits DEF UpdateContent, Planned
<1>8. CASE UpdateMetadata(r, o)
  BY <1>8, OpTyped, ListsMetadata, MetadataFits DEF UpdateMetadata, Planned
<1>9. CASE DeleteProfile(r, o)
  BY <1>9, OpTyped, ListsDrop, DropFits DEF DeleteProfile, Planned
<1>. QED  BY <1>1, <1>2, <1>3, <1>4, <1>5, <1>6, <1>7, <1>8, <1>9
          DEF Starts, WiringStarts, ProfileStarts

(* What a started request looks like.                                       *)
LEMMA BeginsOK ==
    ASSUME row \in Doc, DOMAIN req = Req, NEW r \in Req, NEW o \in Ops, NEW plan,
           Begins(r, o, plan), Planned(o, row, plan)
    PROVE  /\ DOMAIN req' = Req /\ \A q \in Req \ {r} : req'[q] = req[q]
           /\ req[r].st = "idle"
           /\ req'[r].st = "busy" /\ req'[r].op = o /\ req'[r].doc = row /\ req'[r].todo = plan
           /\ req'[r].wrote = FALSE
           /\ ReqOK(req'[r]) /\ PlanFits(o, row, Range(plan))
<1>. DEFINE x == [Idle EXCEPT !.st = "busy", !.op = o, !.doc = row, !.todo = plan]
<1>1. req' = [req EXCEPT ![r] = x] /\ req[r].st = "idle"
  BY DEF Begins
<1>2. /\ x.st = "busy" /\ x.op = o /\ x.doc = row /\ x.todo = plan /\ x.mem = NoMemory
      /\ x.wrote = FALSE /\ DOMAIN x = ReqField
  BY DEF Idle, ReqField
<1>. HIDE DEF x
<1>3. req'[r] = x /\ DOMAIN req' = Req /\ \A q \in Req \ {r} : req'[q] = req[q]
  BY <1>1
<1>4. PICK S : Lists(o.op, plan, S) /\ PlanFits(o, row, S)
  BY DEF Planned
<1>5. Range(plan) = S /\ plan \in Seq(Range(plan))
  BY <1>4 DEF Lists
<1>6. NoMemory \in Memory
  BY DEF NoMemory, Memory
<1>7. Remembers(plan, NoMemory)
  BY <1>4 DEF Lists, Remembers, Second
<1>8. ReqOK(x)
  BY <1>2, <1>4, <1>5, <1>6, <1>7 DEF ReqOK, Place, Lists, PlanFits
<1>. QED  BY <1>1, <1>2, <1>3, <1>4, <1>5, <1>8

(* A request after its next call.                                           *)
Goes1(x, y) ==
    /\ x.todo # <<>> /\ y.st = "busy" /\ y.op = x.op
    /\ y.todo = Tail(x.todo) /\ Left(x.op.op, x.todo, y.todo)
    /\ Head(x.todo) \in Range(x.todo)

LEMMA TailOf ==
    ASSUME NEW x, ReqOK(x), x.st = "busy", x.todo # <<>>
    PROVE  /\ Tail(x.todo) \in Seq(Range(Tail(x.todo)))
           /\ Left(x.op.op, x.todo, Tail(x.todo))
<1>1. x.todo \in Seq(Range(x.todo)) /\ Sorted(x.op.op, x.todo) /\ Paired(x.todo)
  BY DEF ReqOK
<1>2. Tail(x.todo) \in Seq(Range(x.todo)) /\ Left(x.op.op, x.todo, Tail(x.todo))
  BY <1>1, ListsRest
<1>. QED  BY <1>2, SeqOfRange

LEMMA MovesOn ==
    ASSUME NEW x, ReqOK(x), x.st = "busy", x.todo # <<>>, NEW m \in Memory,
           Head(x.todo).c = "read-root" => m.root \in RootsOf(Head(x.todo).b),
           NEW y, DOMAIN y = ReqField, y.st = x.st, y.op = x.op, y.doc = x.doc, y.wrote = x.wrote,
           y.mem = m, y.todo = Tail(x.todo)
    PROVE  ReqOK(y) /\ Goes1(x, y)
<1>1. /\ y.st = x.st /\ y.op = x.op /\ y.doc = x.doc /\ y.wrote = x.wrote /\ y.mem = m
      /\ y.todo = Tail(x.todo) /\ DOMAIN y = ReqField
  OBVIOUS
<1>2. Left(x.op.op, x.todo, y.todo)
  BY <1>1, TailOf
<1>3. y.todo \in Seq(Range(y.todo))
  BY <1>1, TailOf
<1>4. Remembers(y.todo, m)
  BY <1>2 DEF Left, Remembers, Second, Goes
<1>5. SavesFit(x.op, x.doc, Range(y.todo))
  BY <1>2 DEF Left, SavesFit, ReqOK
<1>6. ReqOK(y)
  BY <1>1, <1>2, <1>3, <1>4, <1>5 DEF ReqOK, Left
<1>. QED  BY <1>1, <1>2, <1>6 DEF Goes1, Left

LEMMA SavesOn ==
    ASSUME NEW x, ReqOK(x), x.st = "busy", x.todo # <<>>, Head(x.todo).c = "save",
           NEW v \in Nat, NEW w \in BOOLEAN,
           NEW y, DOMAIN y = ReqField, y.st = x.st, y.op = x.op, y.wrote = w, y.mem = x.mem,
           y.doc = [Head(x.todo).new EXCEPT !.ver = v], y.todo = Tail(x.todo)
    PROVE  ReqOK(y) /\ Goes1(x, y)
<1>. DEFINE c == Head(x.todo)
            d == [c.new EXCEPT !.ver = v]
<1>1. /\ y.st = x.st /\ y.op = x.op /\ y.doc = d /\ y.wrote = w /\ y.mem = x.mem
      /\ y.todo = Tail(x.todo) /\ DOMAIN y = ReqField
  OBVIOUS
<1>2. Left(x.op.op, x.todo, y.todo)
  BY <1>1, TailOf
<1>3. y.todo \in Seq(Range(y.todo))
  BY <1>1, TailOf
<1>4. Remembers(y.todo, x.mem)
  BY <1>2 DEF Left, Remembers, Second, Goes
<1>5. c \in Range(x.todo) /\ c.new \in Doc
  BY <1>2 DEF Left, ReqOK, Typed
<1>6. d \in Doc /\ d.profiles = c.new.profiles /\ d.legacy = c.new.legacy
  BY <1>5 DEF Doc
<1>. HIDE DEF c, d
<1>7. SavesFit(x.op, d, Range(y.todo))
  <2>1. SavesFit(x.op, x.doc, Range(x.todo))
    BY DEF ReqOK
  <2>2. ASSUME NEW e \in Range(y.todo), e.c = "save" PROVE SaveFits(x.op, d, e)
    <3>1. Rank(x.op.op, c) <= Rank(x.op.op, e) /\ e \in Range(x.todo) /\ c.c = "save"
      BY <1>2, <2>2 DEF Left, c
    <3>2. SaveFits(x.op, c.new, e)
      BY <1>5, <2>1, <2>2, <3>1 DEF SavesFit
    <3>. QED  BY <1>6, <3>2 DEF SaveFits
  <2>. QED  BY <1>2, <2>1, <2>2 DEF SavesFit, Left
<1>8. ReqOK(y)
  BY <1>1, <1>2, <1>3, <1>4, <1>6, <1>7 DEF ReqOK, Left, d
<1>. QED  BY <1>1, <1>2, <1>8 DEF Goes1, Left, c, d

(* A request that stops.                                                    *)
Stops(x, y) ==
    /\ y.st \in {"done", "failed", "rejected"} /\ y.op = x.op /\ y.todo = <<>>
    /\ y.wrote = x.wrote
    /\ y.st = "done" => x.todo = <<>>
    /\ y.st = "rejected" => x.todo # <<>> /\ Head(x.todo).c = "reject"

LEMMA EndsOK ==
    ASSUME NEW x, ReqOK(x), x.st = "busy", NEW st \in {"done", "failed", "rejected"},
           NEW y, DOMAIN y = ReqField, y.st = st, y.op = x.op, y.wrote = x.wrote, y.todo = <<>>
    PROVE  ReqOK(y)
BY DEF ReqOK, Place

(* What a save writes.                                                      *)
LEMMA WrittenIs ==
    ASSUME row \in Doc, NEW r, req[r].doc \in Doc, Call(r).new \in Doc,
           Call(r).at \in Profile \cup {Nil}
    PROVE  LET d == req[r].doc
               c == Call(r)
               w == Written(r)
           IN  /\ w \in Doc /\ w.app = row.app /\ w.deployable = row.deployable
               /\ w.legacy = (IF c.new.legacy # d.legacy THEN c.new.legacy ELSE row.legacy)
               /\ w.runtime = (IF c.new.runtime # d.runtime THEN c.new.runtime ELSE row.runtime)
               /\ w.pinned = (IF c.new.pinned # d.pinned THEN c.new.pinned ELSE row.pinned)
               /\ w.targets = (IF c.at = Nil /\ c.new.targets # d.targets THEN c.new.targets
                               ELSE row.targets)
               /\ w.profiles = (IF c.at # Nil THEN [row.profiles EXCEPT ![c.at] = c.new.profiles[c.at]]
                                ELSE IF c.new.profiles # d.profiles THEN c.new.profiles
                                ELSE row.profiles)
               /\ w.ver = (IF c.at = Nil /\ Versioned(r) THEN row.ver + 1 ELSE row.ver)
               /\ Versioned(r) <=> c.at # Nil \/ c.new.targets # d.targets \/ c.new.profiles # d.profiles
<1>. DEFINE d == req[r].doc
            c == Call(r)
            w == Written(r)
            new == c.new
            at == c.at
            array == IF at = Nil THEN Changed(r) ELSE Changed(r) \ Arrays
            next == [f \in DOMAIN row |-> IF f \in array THEN new[f] ELSE row[f]]
            D == {"ver", "profiles", "runtime", "pinned", "legacy", "deployable", "app", "targets"}
<1>1. DOMAIN row = D /\ DOMAIN new = D
  BY DEF Doc
<1>2. w = IF at # Nil THEN [next EXCEPT !.profiles = [@ EXCEPT ![at] = new.profiles[at]]]
          ELSE IF Versioned(r) THEN [next EXCEPT !.ver = @ + 1] ELSE next
  BY DEF Written
<1>3. Changed(r) = {f \in Fields : new[f] # d[f]}
  BY DEF Changed
<1>4. /\ "legacy" \in array <=> new.legacy # d.legacy
      /\ "pinned" \in array <=> new.pinned # d.pinned
      /\ "runtime" \in array <=> new.runtime # d.runtime
      /\ "targets" \in array <=> at = Nil /\ new.targets # d.targets
      /\ "profiles" \in array <=> at = Nil /\ new.profiles # d.profiles
      /\ "ver" \notin array /\ "app" \notin array /\ "deployable" \notin array
  BY <1>3 DEF Fields, Arrays
<1>5. Versioned(r) <=> at # Nil \/ new.targets # d.targets \/ new.profiles # d.profiles
  BY <1>3 DEF Versioned, Fields, Arrays
<1>6. next = [ver |-> row.ver,
              profiles |-> IF at = Nil /\ new.profiles # d.profiles THEN new.profiles ELSE row.profiles,
              runtime |-> IF new.runtime # d.runtime THEN new.runtime ELSE row.runtime,
              pinned |-> IF new.pinned # d.pinned THEN new.pinned ELSE row.pinned,
              legacy |-> IF new.legacy # d.legacy THEN new.legacy ELSE row.legacy,
              deployable |-> row.deployable, app |-> row.app,
              targets |-> IF at = Nil /\ new.targets # d.targets THEN new.targets ELSE row.targets]
  <2>. HIDE DEF array
  <2>. QED  BY <1>1, <1>4
<1>. HIDE DEF next, array, w, new, at, d
<1>7. next \in Doc
  BY <1>6 DEF Doc, new
<1>8. CASE at # Nil
  <2>1. /\ next.profiles = row.profiles /\ row.profiles \in [Profile -> StoredProfile \cup {Nil}]
        /\ new.profiles[at] \in StoredProfile \cup {Nil} /\ at \in Profile
    BY <1>6, <1>8 DEF Doc, new, at
  <2>2. w = [next EXCEPT !.profiles = [row.profiles EXCEPT ![at] = new.profiles[at]]]
    BY <1>2, <1>7, <1>8, <2>1 DEF Doc
  <2>3. [row.profiles EXCEPT ![at] = new.profiles[at]] \in [Profile -> StoredProfile \cup {Nil}]
    BY <2>1
  <2>4. /\ w \in Doc /\ w.profiles = [row.profiles EXCEPT ![at] = new.profiles[at]]
        /\ w.ver = next.ver /\ w.legacy = next.legacy /\ w.targets = next.targets
        /\ w.app = next.app /\ w.deployable = next.deployable
        /\ w.runtime = next.runtime /\ w.pinned = next.pinned
    BY <1>7, <2>2, <2>3 DEF Doc
  <2>. QED  BY <1>5, <1>6, <1>8, <2>4 DEF new, at, d, w
<1>9. CASE at = Nil
  <2>1. w = IF Versioned(r) THEN [next EXCEPT !.ver = @ + 1] ELSE next
    BY <1>2, <1>9
  <2>2. /\ w \in Doc /\ w.ver = (IF Versioned(r) THEN row.ver + 1 ELSE row.ver)
        /\ w.legacy = next.legacy /\ w.targets = next.targets /\ w.profiles = next.profiles
        /\ w.app = next.app /\ w.deployable = next.deployable
        /\ w.runtime = next.runtime /\ w.pinned = next.pinned
    BY <1>6, <1>7, <2>1 DEF Doc
  <2>. QED  BY <1>5, <1>6, <1>9, <2>2 DEF new, at, d, w
<1>. QED  BY <1>8, <1>9

(* Any call: who moves and what changes.                                    *)
LEMMA CalledReq ==
    ASSUME WiringInv, NEW r \in Req, Called(r)
    PROVE  /\ DOMAIN req' = Req /\ \A q \in Req \ {r} : req'[q] = req[q]
           /\ req[r].st = "busy" /\ ReqOK(req'[r])
           /\ \/ Stops(req[r], req'[r]) /\ UNCHANGED <<row, vault, gitlab, releases>>
              \/ /\ Goes1(req[r], req'[r]) /\ Call(r).c \in {"save"} /\ Saves(r)
              \/ /\ Goes1(req[r], req'[r]) /\ Call(r).c # "save" /\ row' = row
                 /\ req'[r].doc = req[r].doc /\ req'[r].wrote = req[r].wrote
<1>. DEFINE x == req[r]
            y == req'[r]
<1>1. ReqOK(x) /\ DOMAIN req = Req
  BY DEF WiringInv
<1>2. ASSUME NEW z, req' = [req EXCEPT ![r] = z]
      PROVE  DOMAIN req' = Req /\ y = z /\ \A q \in Req \ {r} : req'[q] = req[q]
  BY <1>1, <1>2
<1>3. ASSUME x.st = "busy" PROVE x.mem \in Memory
  BY <1>1, <1>3 DEF ReqOK
<1>4. ASSUME x.st = "busy", x.todo # <<>>, Head(x.todo).c # "read-root", Returns(r, x)
      PROVE  /\ DOMAIN req' = Req /\ \A q \in Req \ {r} : req'[q] = req[q]
             /\ ReqOK(y) /\ Goes1(x, y) /\ y.doc = x.doc /\ y.wrote = x.wrote
  <2>1. y = [x EXCEPT !.todo = Tail(@)] /\ DOMAIN req' = Req /\ \A q \in Req \ {r} : req'[q] = req[q]
    BY <1>2, <1>4 DEF Returns
  <2>2. /\ DOMAIN y = ReqField /\ y.st = x.st /\ y.op = x.op /\ y.doc = x.doc
        /\ y.wrote = x.wrote /\ y.mem = x.mem /\ y.todo = Tail(x.todo)
    BY <1>1, <2>1 DEF ReqOK, ReqField
  <2>. HIDE DEF x, y
  <2>3. ReqOK(y) /\ Goes1(x, y)
    BY <1>1, <1>3, <1>4, <2>2, MovesOn
  <2>. QED  BY <2>1, <2>2, <2>3 DEF x, y
<1>5. ASSUME x.st = "busy", x.todo # <<>>, NEW m \in Memory, Returns(r, [x EXCEPT !.mem = m]),
             Head(x.todo).c = "read-root" => m.root \in RootsOf(Head(x.todo).b)
      PROVE  /\ DOMAIN req' = Req /\ \A q \in Req \ {r} : req'[q] = req[q]
             /\ ReqOK(y) /\ Goes1(x, y) /\ y.doc = x.doc /\ y.wrote = x.wrote
  <2>1. /\ y = [[x EXCEPT !.mem = m] EXCEPT !.todo = Tail(@)]
        /\ DOMAIN req' = Req /\ \A q \in Req \ {r} : req'[q] = req[q]
    BY <1>2, <1>5 DEF Returns
  <2>2. /\ DOMAIN y = ReqField /\ y.st = x.st /\ y.op = x.op /\ y.doc = x.doc
        /\ y.wrote = x.wrote /\ y.mem = m /\ y.todo = Tail(x.todo)
    BY <1>1, <2>1 DEF ReqOK, ReqField
  <2>. HIDE DEF x, y
  <2>3. ReqOK(y) /\ Goes1(x, y)
    BY <1>1, <1>5, <2>2, MovesOn
  <2>. QED  BY <2>1, <2>2, <2>3 DEF x, y
<1>6. ASSUME x.st = "busy", NEW st \in {"done", "failed", "rejected"}, req' = Ended(r, st),
             st = "done" => x.todo = <<>>,
             st = "rejected" => x.todo # <<>> /\ Head(x.todo).c = "reject"
      PROVE  /\ DOMAIN req' = Req /\ \A q \in Req \ {r} : req'[q] = req[q]
             /\ ReqOK(y) /\ Stops(x, y)
  <2>1. /\ y = [x EXCEPT !.st = st, !.doc = Forgotten, !.todo = <<>>, !.mem = NoMemory]
        /\ DOMAIN req' = Req /\ \A q \in Req \ {r} : req'[q] = req[q]
    BY <1>2, <1>6 DEF Ended
  <2>2. /\ DOMAIN y = ReqField /\ y.st = st /\ y.op = x.op /\ y.wrote = x.wrote /\ y.todo = <<>>
    BY <1>1, <2>1 DEF ReqOK, ReqField
  <2>. HIDE DEF x, y
  <2>3. ReqOK(y)
    BY <1>1, <1>6, <2>2, EndsOK
  <2>. QED  BY <1>6, <2>1, <2>2, <2>3 DEF x, y, Stops
<1>7. CASE TearsDown(r) \/ Seeds(r) \/ SetsVariables(r) \/ Commits(r) \/ CommitsChart(r) \/ WritesIndex(r)
  BY <1>4, <1>7 DEF TearsDown, Seeds, SetsVariables, Commits, CommitsChart, WritesIndex, Next1, Call
<1>8. CASE ReadsRoot(r)
  <2>. DEFINE m == [x.mem EXCEPT !.root = gitlab.root[Call(r).b]]
  <2>1. x.st = "busy" /\ x.todo # <<>> /\ Call(r).c = "read-root" /\ row' = row
    BY <1>8 DEF ReadsRoot, Next1, Call
  <2>2. Call(r) \in Range(x.todo) /\ Typed(Call(r))
    BY <1>1, <2>1, TailOf DEF ReqOK, Left, Call
  <2>3. Call(r).b \in Branch
    BY <2>1, <2>2 DEF Typed
  <2>4. gitlab.root[Call(r).b] \in RootsOf(Call(r).b) /\ gitlab.root[Call(r).b] \in AnyRoot
    BY <2>3 DEF WiringInv, AnyRoot
  <2>5. m \in Memory /\ m.root = gitlab.root[Call(r).b]
    BY <1>3, <2>1, <2>4 DEF Memory
  <2>6. Returns(r, [x EXCEPT !.mem = m])
    <3>1. [x EXCEPT !.mem.root = gitlab.root[Call(r).b]] = [x EXCEPT !.mem = m]
      BY <1>1 DEF ReqOK, ReqField
    <3>2. Returns(r, [x EXCEPT !.mem.root = gitlab.root[Call(r).b]])
      BY <1>8 DEF ReadsRoot
    <3>. QED  BY <3>1, <3>2
  <2>. HIDE DEF m
  <2>. QED  BY <1>5, <2>1, <2>4, <2>5, <2>6 DEF Call
<1>9. CASE ReadsSecret(r)
  <2>1. x.st = "busy" /\ x.todo # <<>> /\ Call(r).c = "read" /\ row' = row
    BY <1>9 DEF ReadsSecret, Next1, Call
  <2>2. Call(r) \in Range(x.todo) /\ Typed(Call(r))
    BY <1>1, <2>1, TailOf DEF ReqOK, Left, Call
  <2>3. Call(r).k \in Key
    BY <2>1, <2>2 DEF Typed
  <2>4. PICK s \in {{}, vault.target[Call(r).k]} : Returns(r, [x EXCEPT !.mem.secret = s])
    BY <1>9 DEF ReadsSecret
  <2>5. s \in SUBSET (RtKey \cup {Seed})
    BY <2>3 DEF WiringInv, Vault
  <2>. DEFINE m == [x.mem EXCEPT !.secret = s]
  <2>6. m \in Memory
    BY <1>3, <2>1, <2>5 DEF Memory
  <2>7. [x EXCEPT !.mem.secret = s] = [x EXCEPT !.mem = m]
    BY <1>1 DEF ReqOK, ReqField
  <2>. HIDE DEF m
  <2>. QED  BY <1>5, <2>1, <2>4, <2>6, <2>7 DEF Call
<1>10. CASE MergesSecret(r)
  <2>1. x.st = "busy" /\ x.todo # <<>> /\ Call(r).c = "merge" /\ row' = row
    BY <1>10 DEF MergesSecret, Next1, Call
  <2>. DEFINE m == [x.mem EXCEPT !.secret = {}]
  <2>2. m \in Memory
    BY <1>3, <2>1 DEF Memory
  <2>3. [x EXCEPT !.mem.secret = {}] = [x EXCEPT !.mem = m]
    BY <1>1 DEF ReqOK, ReqField
  <2>4. Returns(r, [x EXCEPT !.mem.secret = {}])
    BY <1>10 DEF MergesSecret
  <2>. HIDE DEF m
  <2>. QED  BY <1>5, <2>1, <2>2, <2>3, <2>4 DEF Call
<1>11. CASE TouchesBody(r)
  <2>1. x.st = "busy" /\ x.todo # <<>> /\ Call(r).c \in {"body", "read-body", "drop-body"} /\ row' = row
    BY <1>11 DEF TouchesBody, Next1, Call
  <2>2. Call(r) \in Range(x.todo) /\ Typed(Call(r))
    BY <1>1, <2>1, TailOf DEF ReqOK, Left, Call
  <2>3. Call(r).p \in Profile
    BY <2>1, <2>2 DEF Typed
  <2>4. \/ Returns(r, x)
        \/ \E s \in {{}, IF vault.body[Call(r).p] = Nil THEN {} ELSE vault.body[Call(r).p]} :
              Returns(r, [x EXCEPT !.mem.body = s])
    BY <1>11 DEF TouchesBody
  <2>5. CASE Returns(r, x)
    BY <1>4, <2>1, <2>5 DEF Call
  <2>6. ASSUME NEW s \in {{}, IF vault.body[Call(r).p] = Nil THEN {} ELSE vault.body[Call(r).p]},
               Returns(r, [x EXCEPT !.mem.body = s])
        PROVE  /\ DOMAIN req' = Req /\ \A q \in Req \ {r} : req'[q] = req[q]
               /\ ReqOK(y) /\ Goes1(x, y) /\ y.doc = x.doc /\ y.wrote = x.wrote
    <3>1. s \in SUBSET RtKey
      <4>1. vault.body[Call(r).p] \in (SUBSET RtKey) \cup {Nil}
        BY <2>3 DEF WiringInv, Vault
      <4>. DEFINE had == vault.body[Call(r).p]
      <4>2. s = {} \/ (had # Nil /\ s = had)
        OBVIOUS
      <4>. HIDE DEF had
      <4>3. had # Nil => had \in SUBSET RtKey
        BY <4>1 DEF had
      <4>. QED  BY <4>2, <4>3
    <3>. DEFINE m == [x.mem EXCEPT !.body = s]
    <3>2. m \in Memory
      BY <1>3, <2>1, <3>1 DEF Memory
    <3>3. [x EXCEPT !.mem.body = s] = [x EXCEPT !.mem = m]
      BY <1>1 DEF ReqOK, ReqField
    <3>. HIDE DEF m
    <3>. QED  BY <1>5, <2>1, <2>6, <3>2, <3>3 DEF Call
  <2>. QED  BY <2>1, <2>4, <2>5, <2>6
<1>12. CASE Saves(r)
  <2>. DEFINE c == Call(r)
              v == IF Versioned(r) THEN row'.ver ELSE x.doc.ver
              w == x.wrote \/ Versioned(r)
              z == [x EXCEPT !.doc = [c.new EXCEPT !.ver = v], !.wrote = w]
  <2>1. x.st = "busy" /\ x.todo # <<>> /\ c.c = "save" /\ row' = Written(r)
    BY <1>12 DEF Saves, Next1, Call
  <2>2. c \in Range(x.todo) /\ Typed(c)
    BY <1>1, <2>1, TailOf DEF ReqOK, Left, Call
  <2>3. c.new \in Doc /\ c.at \in Profile \cup {Nil} /\ x.doc \in Doc /\ row \in Doc
    BY <1>1, <2>1, <2>2 DEF Typed, ReqOK, WiringInv
  <2>4. row' \in Doc
    BY <2>1, <2>3, WrittenIs
  <2>5. v \in Nat
    BY <2>3, <2>4 DEF Doc
  <2>6. w \in BOOLEAN
    BY <1>1 DEF ReqOK, Versioned
  <2>7. z = [x EXCEPT !.doc = [c.new EXCEPT !.ver = IF Versioned(r) THEN row'.ver ELSE req[r].doc.ver],
                      !.wrote = @ \/ Versioned(r)]
    BY <1>1 DEF ReqOK, ReqField
  <2>8. Returns(r, z)
    BY <1>12, <2>7 DEF Saves
  <2>9. /\ y = [z EXCEPT !.todo = Tail(@)]
        /\ DOMAIN req' = Req /\ \A q \in Req \ {r} : req'[q] = req[q]
    BY <1>2, <2>8 DEF Returns
  <2>. HIDE DEF v, w
  <2>10. /\ DOMAIN y = ReqField /\ y.st = x.st /\ y.op = x.op /\ y.wrote = w /\ y.mem = x.mem
         /\ y.doc = [Head(x.todo).new EXCEPT !.ver = v] /\ y.todo = Tail(x.todo)
    BY <1>1, <2>9 DEF ReqOK, ReqField, Call
  <2>11. ReqOK(y) /\ Goes1(x, y)
    <3>. HIDE DEF x, y
    <3>. QED  BY <1>1, <2>1, <2>5, <2>6, <2>10, SavesOn DEF Call, x
  <2>. QED  BY <1>12, <2>1, <2>9, <2>11
<1>13. CASE Throws1(r)
  BY <1>6, <1>13 DEF Throws1
<1>14. CASE Rejects(r)
  BY <1>6, <1>14 DEF Rejects, Next1
<1>15. CASE Answers(r)
  BY <1>6, <1>15 DEF Answers
<1>. QED  BY <1>7, <1>8, <1>9, <1>10, <1>11, <1>12, <1>13, <1>14, <1>15 DEF Called

-----------------------------------------------------------------------------
(***************************************************************************)
(* The state keeps its types.                                              *)
(***************************************************************************)
LEMMA UserRootOK == ASSUME NEW b \in Branch PROVE UserRoots[b] \in RootsOf(b)
<1>1. /\ UserRoots[b] = [shape |-> UserRoots[b].shape, jobs |-> UserRoots[b].jobs,
                          includes |-> UserRoots[b].includes]
      /\ UserRoots[b].shape \in Shape
      /\ UserRoots[b].shape \in {"absent", "scalar"} => UserRoots[b].jobs = {}
  BY RootsAssumption
<1>2. UserRoots[b] \in [shape : Shape, jobs : {UserRoots[b].jobs},
                        includes : (SUBSET Managed) \cup {UserRoots[b].includes}]
  BY <1>1
<1>. QED  BY <1>1, <1>2 DEF RootsOf

(* Merging keeps the jobs, brings the template, and refuses garbage only.   *)
LEMMA MergedOK ==
    ASSUME NEW b \in Branch, NEW f \in RootsOf(b), NEW ts
    PROVE  LET m == MergedRoot(f, ManagedIncludes(ts))
           IN  /\ UserRoots[b].shape = "garbage" => m = Nil
               /\ UserRoots[b].shape # "garbage" =>
                     m # Nil /\ m \in RootsOf(b) /\ m.includes = ManagedIncludes(ts)
<1>. DEFINE inc == ManagedIncludes(ts)
            m == MergedRoot(f, inc)
<1>1. inc \in SUBSET Managed
  BY DEF ManagedIncludes, Managed
<1>2. /\ f = [shape |-> f.shape, jobs |-> f.jobs, includes |-> f.includes]
      /\ f.shape \in Shape /\ f.jobs = UserRoots[b].jobs
      /\ f.shape \in {"absent", "scalar"} => f.jobs = {}
      /\ f.shape = "garbage" <=> UserRoots[b].shape = "garbage"
  BY DEF RootsOf
<1>. HIDE DEF inc
<1>3. CASE f.shape = "garbage"
  BY <1>2, <1>3 DEF MergedRoot, IncludeFallback, inc
<1>4. CASE f.shape # "garbage"
  <2>. DEFINE sh == IF f.shape \in {"absent", "scalar"} THEN "yaml" ELSE f.shape
              n == [shape |-> sh, jobs |-> f.jobs, includes |-> inc]
  <2>1. m = n
    <3>1. CASE f.shape \in {"absent", "scalar"}
      BY <1>2, <3>1 DEF MergedRoot, RewrittenRoot
    <3>2. CASE f.shape = "yaml"
      <4>1. [f EXCEPT !.includes = inc] = [shape |-> f.shape, jobs |-> f.jobs, includes |-> inc]
        BY <1>2
      <4>. QED  BY <3>2, <4>1 DEF MergedRoot
    <3>3. CASE f.shape = "tagged"
      <4>1. [f EXCEPT !.includes = inc] = [shape |-> f.shape, jobs |-> f.jobs, includes |-> inc]
        BY <1>2
      <4>. QED  BY <3>3, <4>1 DEF MergedRoot, IncludeFallback
    <3>. QED  BY <1>2, <1>4, <3>1, <3>2, <3>3 DEF Shape
  <2>2. sh \in Shape /\ sh \notin {"absent", "scalar", "garbage"}
    BY <1>2, <1>4 DEF Shape
  <2>. HIDE DEF sh
  <2>3. n \in MergedFile
    BY <1>1, <1>2, <2>2 DEF MergedFile
  <2>4. n # Nil
    BY <2>3, NilAssumption
  <2>5. n \in RootsOf(b)
    BY <1>1, <1>2, <1>4, <2>2 DEF RootsOf
  <2>. QED  BY <1>2, <1>4, <2>1, <2>4, <2>5 DEF inc
<1>. QED  BY <1>3, <1>4

LEMMA FragmentTyped == ASSUME NEW ts PROVE Fragment(ts) \in Jobs
BY KeyAssumption DEF Fragment, Jobs, DeployJobs, DisabledBuiltins, BuildJobs

LEMMA NewDocTyped ==
    ASSUME NEW in \in Creations
    PROVE  /\ NewDoc(in) \in Doc
           /\ NewDoc(in).profiles = in.profiles /\ NewDoc(in).legacy = in.legacy
           /\ Apart(in.profiles)
<1>. DEFINE i == [deployable |-> in.deployable, app |-> in.app, targets |-> in.targets, opts |-> in.opts]
<1>1. i \in RegisterGitLabProjectInput
  BY CreationsAssumption DEF CreateProjectInput
<1>2. /\ in.deployable \in BOOLEAN /\ in.app \in App
      /\ in.targets \in Optional([Key -> Optional(DeploymentTargetInput)])
      /\ in.opts \in DeployBranchOptionsInput
  BY <1>1 DEF RegisterGitLabProjectInput
<1>3. /\ in.legacy \in BOOLEAN /\ in.pinned \in BOOLEAN
      /\ \A k \in Key : InitialTargets(in)[k] # Nil
                        => ValidRef(InitialTargets(in)[k].ref, InitialTargets(in)[k].on)
  BY CreationsAssumption
<1>. HIDE DEF i
<1>4. InitialTargets(in) \in [Key -> GoodTarget \cup {Nil}]
  <2>1. \A k \in Key : InitialTargets(in)[k] # Nil
                        => ValidRef(InitialTargets(in)[k].ref, InitialTargets(in)[k].on)
    BY <1>3, Zenon
  <2>2. /\ in.deployable \in BOOLEAN /\ in.app \in App
        /\ in.targets \in Optional([Key -> Optional(DeploymentTargetInput)])
        /\ in.opts \in DeployBranchOptionsInput
    BY <1>2, Zenon
  <2>. QED  BY <2>1, <2>2, InputTyped DEF ValidRef
<1>5. in.profiles \in [Profile -> StoredProfile \cup {Nil}] /\ Apart(in.profiles)
  BY ProfilesAssumption DEF Apart
<1>. DEFINE ts == IF in.legacy THEN [k \in Key |-> Nil] ELSE InitialTargets(in)
<1>6. ts \in [Key -> GoodTarget \cup {Nil}]
  BY <1>3, <1>4
<1>. DEFINE rt == (\A p \in Profile : in.profiles[p] = Nil) \/ RuntimeEnv(in.profiles)
<1>. HIDE DEF ts
<1>7. NewDoc(in) = [ver |-> 0, profiles |-> in.profiles, pinned |-> in.pinned, legacy |-> in.legacy,
                    runtime |-> rt, deployable |-> in.deployable, app |-> in.app, targets |-> ts]
  BY Zenon DEF NewDoc, ts
<1>8. rt \in BOOLEAN
  BY Zenon
<1>. HIDE DEF rt
<1>. QED  BY <1>2, <1>3, <1>5, <1>6, <1>7, <1>8 DEF Doc

LEMMA NamesInTyped ==
    ASSUME NEW profiles \in [Profile -> StoredProfile \cup {Nil}], NEW k
    PROVE  NamesIn(profiles, k) \in SUBSET RtKey
<1>1. ASSUME NEW p \in Profile, profiles[p] # Nil PROVE profiles[p].names \in SUBSET RtKey
  BY <1>1 DEF StoredProfile
<1>. QED  BY <1>1 DEF NamesIn

LEMMA NewVaultTyped ==
    ASSUME NEW doc \in Doc
    PROVE  NewVault(doc) \in Vault
<1>1. doc.profiles \in [Profile -> StoredProfile \cup {Nil}]
  BY DEF Doc
<1>2. \A k \in Key : (IF k \in Standard \cup KeysOf(doc.targets)
                      THEN {Seed} \cup NamesIn(doc.profiles, k) ELSE {}) \in SUBSET (RtKey \cup {Seed})
  BY <1>1, NamesInTyped
<1>3. \A p \in Profile : (IF doc.profiles[p] = Nil THEN Nil ELSE doc.profiles[p].names)
                         \in (SUBSET RtKey) \cup {Nil}
  BY OldTyped
<1>4. IndexOf(doc.profiles) \in SUBSET (Profile \X SUBSET Branch)
  BY IndexTyped
<1>. QED  BY <1>2, <1>3, <1>4 DEF NewVault, Vault

LEMMA NewGitLabTyped ==
    ASSUME NEW ts \in [Key -> GoodTarget \cup {Nil}], NEW wired \in BOOLEAN
    PROVE  LET g == NewGitLab(ts, wired)
           IN  /\ g \in GitLab /\ \A b \in Branch : g.root[b] \in RootsOf(b)
               /\ wired => /\ g.chart[MainBranch] = TRUE
                           /\ \/ "template" \in g.root[MainBranch].includes
                              \/ UserRoots[MainBranch].shape = "garbage"
<1>. DEFINE g == NewGitLab(ts, wired)
            root(b) == IF b = MainBranch /\ wired /\ UserRoots[b].shape # "garbage"
                       THEN MergedRoot(UserRoots[b], ManagedIncludes(ts)) ELSE UserRoots[b]
<1>1. \A b \in Branch : root(b) \in RootsOf(b) /\ root(b) \in AnyRoot
  <2>1. \A b \in Branch : root(b) \in RootsOf(b)
    BY UserRootOK, MergedOK
  <2>. QED  BY <2>1 DEF AnyRoot
<1>2. \A k \in Key : /\ (IF ts[k] = Nil THEN Nil ELSE ts[k].ref) \in Branch \cup {NoRef, Nil}
                     /\ (IF ts[k] = Nil THEN NoApps ELSE ts[k].host) \in [App -> AnyHost]
  <2>. SUFFICES ASSUME NEW k \in Key
                PROVE  /\ (IF ts[k] = Nil THEN Nil ELSE ts[k].ref) \in Branch \cup {NoRef, Nil}
                       /\ (IF ts[k] = Nil THEN NoApps ELSE ts[k].host) \in [App -> AnyHost]
    OBVIOUS
  <2>1. ts[k] # Nil => ts[k] \in Target
    BY DEF GoodTarget
  <2>2. NoApps \in [App -> AnyHost]
    BY DEF NoApps, AnyHost
  <2>. QED  BY <2>1, <2>2 DEF Target, AnyHost
<1>3. \A b \in Branch : (IF b = MainBranch /\ wired THEN Fragment(ts)
                         ELSE Fragment([k \in Key |-> Nil])) \in Jobs
  BY FragmentTyped
<1>4. \A b \in Branch : (IF b = MainBranch /\ wired THEN TRUE ELSE Nil) \in BOOLEAN \cup {Nil}
  OBVIOUS
<1>5. g = [ref |-> [k \in Key |-> IF ts[k] = Nil THEN Nil ELSE ts[k].ref],
           host |-> [k \in Key |-> IF ts[k] = Nil THEN NoApps ELSE ts[k].host],
           jobs |-> [b \in Branch |-> IF b = MainBranch /\ wired THEN Fragment(ts)
                                      ELSE Fragment([k \in Key |-> Nil])],
           root |-> [b \in Branch |-> root(b)],
           chart |-> [b \in Branch |-> IF b = MainBranch /\ wired THEN TRUE ELSE Nil]]
  BY DEF NewGitLab
<1>6. wired => \/ "template" \in root(MainBranch).includes
               \/ UserRoots[MainBranch].shape = "garbage"
  <2>1. "template" \in ManagedIncludes(ts)
    BY DEF ManagedIncludes
  <2>. QED  BY <2>1, RefAssumption, UserRootOK, MergedOK
<1>. HIDE DEF root
<1>7. /\ [k \in Key |-> IF ts[k] = Nil THEN Nil ELSE ts[k].ref] \in [Key -> Branch \cup {NoRef, Nil}]
      /\ [k \in Key |-> IF ts[k] = Nil THEN NoApps ELSE ts[k].host] \in [Key -> [App -> AnyHost]]
      /\ [b \in Branch |-> root(b)] \in [Branch -> AnyRoot]
  BY <1>1, <1>2
<1>8. /\ [b \in Branch |-> IF b = MainBranch /\ wired THEN Fragment(ts)
                           ELSE Fragment([k \in Key |-> Nil])] \in [Branch -> Jobs]
      /\ [b \in Branch |-> IF b = MainBranch /\ wired THEN TRUE ELSE Nil] \in [Branch -> BOOLEAN \cup {Nil}]
  BY <1>3, <1>4
<1>9. g \in GitLab
  BY <1>5, <1>7, <1>8 DEF GitLab
<1>. QED  BY <1>1, <1>5, <1>6, <1>9, RefAssumption

LEMMA IdleOK == ReqOK(Idle) /\ Idle.st = "idle" /\ Idle.todo = <<>>
BY DEF ReqOK, Idle, ReqField, Place

LEMMA InitOK == WiringInit => WiringInv
<1>. SUFFICES ASSUME WiringInit PROVE WiringInv
  OBVIOUS
<1>1. PICK in \in Creations :
         /\ row = NewDoc(in)
         /\ vault = NewVault(NewDoc(in))
         /\ gitlab = NewGitLab(NewDoc(in).targets, ~in.legacy)
         /\ releases = {}
         /\ req = [r \in Req |-> Idle]
  BY DEF WiringInit
<1>2. row \in Doc
  BY <1>1, NewDocTyped
<1>3. vault \in Vault
  BY <1>1, <1>2, NewVaultTyped
<1>4. row.targets \in [Key -> GoodTarget \cup {Nil}] /\ (~in.legacy) \in BOOLEAN
  BY <1>2 DEF Doc
<1>5. gitlab \in GitLab /\ \A b \in Branch : gitlab.root[b] \in RootsOf(b)
  BY <1>1, <1>4, NewGitLabTyped
<1>6. DOMAIN req = Req /\ \A r \in Req : ReqOK(req[r])
  BY <1>1, IdleOK
<1>. QED  BY <1>1, <1>2, <1>3, <1>5, <1>6 DEF WiringInv

(* The call that a request makes.                                           *)
LEMMA CallTyped ==
    ASSUME WiringInv, NEW r \in Req, req[r].st = "busy", req[r].todo # <<>>
    PROVE  /\ Call(r) \in Range(req[r].todo) /\ Typed(Call(r)) /\ Call(r) = Head(req[r].todo)
           /\ req[r].doc \in Doc /\ req[r].mem \in Memory
           /\ Remembers(req[r].todo, req[r].mem)
           /\ Call(r) = req[r].todo[1]
           /\ SavesFit(req[r].op, req[r].doc, Range(req[r].todo))
<1>1. ReqOK(req[r])
  BY DEF WiringInv
<1>2. Call(r) \in Range(req[r].todo)
  BY <1>1, TailOf DEF Left, Call
<1>3. req[r].todo \in Seq(Range(req[r].todo))
  BY <1>1 DEF ReqOK
<1>4. Call(r) = req[r].todo[1]
  BY <1>3 DEF Call
<1>. QED  BY <1>1, <1>2, <1>4 DEF ReqOK, Call

LEMMA VaultStays ==
    ASSUME WiringInv, NEW r \in Req, Called(r)
    PROVE  vault' \in Vault
<1>1. CASE Seeds(r)
  <2>1. Call(r).k \in Key
    BY <1>1, CallTyped DEF Seeds, Next1, Call, Typed
  <2>. QED  BY <1>1, <2>1 DEF Seeds, WiringInv, Vault
<1>2. CASE MergesSecret(r)
  <2>. DEFINE m == Call(r)
              body == IF m.body THEN req[r].mem.body ELSE {}
              new == (req[r].mem.secret \ m.minus) \cup m.plus \cup body
  <2>1. /\ m.k \in Key /\ m.plus \subseteq RtKey /\ req[r].mem \in Memory
        /\ vault' = [vault EXCEPT !.target[m.k] = new]
    BY <1>2, CallTyped DEF MergesSecret, Next1, Call, Typed
  <2>2. new \in SUBSET (RtKey \cup {Seed})
    <3>1. body \subseteq RtKey
      BY <2>1 DEF Memory
    <3>. HIDE DEF body
    <3>. QED  BY <2>1, <3>1 DEF Memory
  <2>. HIDE DEF new, m
  <2>. QED  BY <2>1, <2>2 DEF WiringInv, Vault
<1>3. CASE TouchesBody(r)
  <2>1. /\ Call(r).c \in {"body", "read-body", "drop-body"} /\ Call(r).p \in Profile
        /\ Call(r).c = "body" => Call(r).names \in SUBSET RtKey
    BY <1>3, CallTyped DEF TouchesBody, Next1, Call, Typed
  <2>2. vault.body[Call(r).p] \in (SUBSET RtKey) \cup {Nil}
    BY <2>1 DEF WiringInv, Vault
  <2>3. \/ vault' = vault
        \/ \E b \in (SUBSET RtKey) \cup {Nil} : vault' = [vault EXCEPT !.body[Call(r).p] = b]
    BY <1>3, <2>1, <2>2 DEF TouchesBody, Next1, Call
  <2>. QED  BY <2>1, <2>3 DEF WiringInv, Vault
<1>4. CASE WritesIndex(r)
  <2>1. Call(r).profiles \in SUBSET (Profile \X SUBSET Branch)
    BY <1>4, CallTyped DEF WritesIndex, Next1, Call, Typed
  <2>. QED  BY <1>4, <2>1 DEF WritesIndex, WiringInv, Vault
<1>5. CASE \/ TearsDown(r) \/ SetsVariables(r) \/ ReadsRoot(r) \/ Commits(r) \/ CommitsChart(r)
           \/ ReadsSecret(r) \/ Saves(r) \/ Throws1(r) \/ Rejects(r) \/ Answers(r)
  <2>1. vault' = vault
    BY <1>5 DEF TearsDown, SetsVariables, ReadsRoot, Commits, CommitsChart, ReadsSecret, Saves,
                Throws1, Rejects, Answers
  <2>. QED  BY <2>1 DEF WiringInv
<1>. QED  BY <1>1, <1>2, <1>3, <1>4, <1>5 DEF Called

LEMMA CommitsIs ==
    ASSUME WiringInv, NEW r \in Req, Commits(r)
    PROVE  LET b == Call(r).b
           IN  /\ b \in Branch /\ gitlab' \in GitLab /\ gitlab'.chart = gitlab.chart
               /\ \A a \in Branch : gitlab'.root[a] \in RootsOf(a)
               /\ \A a \in Branch \ {b} : gitlab'.root[a] = gitlab.root[a]
               /\ "template" \in gitlab'.root[b].includes \/ UserRoots[b].shape = "garbage"
<1>. DEFINE b == Call(r).b
            m == req[r].mem.root
            ts == Call(r).ts
            root == MergedRoot(m, ManagedIncludes(ts))
            kept == IF root = Nil THEN gitlab.root[b] ELSE root
<1>1. /\ req[r].st = "busy" /\ req[r].todo # <<>> /\ Call(r).c \in {"commit", "root"}
      /\ \/ gitlab' = [gitlab EXCEPT !.jobs[b] = Fragment(ts), !.root[b] = kept]
         \/ gitlab' = [gitlab EXCEPT !.root[b] = kept]
  BY DEF Commits, Next1, Call
<1>2. b \in Branch /\ m \in RootsOf(b)
  BY <1>1, CallTyped DEF Typed, Remembers
<1>3. /\ UserRoots[b].shape = "garbage" => root = Nil
      /\ UserRoots[b].shape # "garbage" =>
            root # Nil /\ root \in RootsOf(b) /\ root.includes = ManagedIncludes(ts)
  BY <1>2, MergedOK
<1>4. /\ gitlab \in GitLab /\ \A a \in Branch : gitlab.root[a] \in RootsOf(a)
  BY DEF WiringInv
<1>5. "template" \in ManagedIncludes(ts)
  BY DEF ManagedIncludes
<1>6. Fragment(ts) \in Jobs
  BY FragmentTyped
<1>. HIDE DEF root, m, ts
<1>7. /\ kept \in RootsOf(b) /\ kept \in AnyRoot
      /\ "template" \in kept.includes \/ UserRoots[b].shape = "garbage"
  BY <1>2, <1>3, <1>4, <1>5 DEF AnyRoot
<1>. HIDE DEF kept, b
<1>8. /\ gitlab'.chart = gitlab.chart /\ gitlab'.root = [gitlab.root EXCEPT ![b] = kept]
      /\ gitlab' \in GitLab
  <2>. DEFINE js == [gitlab.jobs EXCEPT ![b] = Fragment(ts)]
              rs == [gitlab.root EXCEPT ![b] = kept]
  <2>1. /\ gitlab.jobs \in [Branch -> Jobs] /\ gitlab.root \in [Branch -> AnyRoot]
        /\ gitlab.ref \in [Key -> Branch \cup {NoRef, Nil}]
        /\ gitlab.host \in [Key -> [App -> AnyHost]]
        /\ gitlab.chart \in [Branch -> BOOLEAN \cup {Nil}]
        /\ gitlab = [ref |-> gitlab.ref, host |-> gitlab.host, jobs |-> gitlab.jobs,
                     root |-> gitlab.root, chart |-> gitlab.chart]
    BY <1>4 DEF GitLab
  <2>2. js \in [Branch -> Jobs] /\ rs \in [Branch -> AnyRoot]
    BY <1>2, <1>6, <1>7, <2>1
  <2>. DEFINE new(j) == [ref |-> gitlab.ref, host |-> gitlab.host, jobs |-> j,
                         root |-> rs, chart |-> gitlab.chart]
  <2>3. gitlab' = new(js) \/ gitlab' = new(gitlab.jobs)
    <3>1. CASE gitlab' = [gitlab EXCEPT !.jobs[b] = Fragment(ts), !.root[b] = kept]
      BY <2>1, <3>1
    <3>2. CASE gitlab' = [gitlab EXCEPT !.root[b] = kept]
      BY <2>1, <3>2
    <3>. QED  BY <1>1, <3>1, <3>2
  <2>. HIDE DEF js
  <2>4. gitlab'.chart = gitlab.chart /\ gitlab'.root = rs
    BY <2>3
  <2>. HIDE DEF rs
  <2>5. \A j \in [Branch -> Jobs] : new(j) \in GitLab
    BY <2>1, <2>2 DEF GitLab
  <2>. HIDE DEF new
  <2>. QED  BY <2>1, <2>2, <2>3, <2>4, <2>5 DEF rs
<1>9. \A a \in Branch : gitlab'.root[a] = IF a = b THEN kept ELSE gitlab.root[a]
  BY <1>2, <1>4, <1>8 DEF GitLab
<1>. QED  BY <1>2, <1>4, <1>7, <1>8, <1>9 DEF b

LEMMA GitLabStays ==
    ASSUME WiringInv, NEW r \in Req, Called(r)
    PROVE  gitlab' \in GitLab /\ \A b \in Branch : gitlab'.root[b] \in RootsOf(b)
<1>1. /\ gitlab \in GitLab /\ \A b \in Branch : gitlab.root[b] \in RootsOf(b)
  BY DEF WiringInv
<1>2. CASE SetsVariables(r)
  <2>. DEFINE k == Call(r).k
              c == Call(r)
  <2>1. /\ req[r].st = "busy" /\ req[r].todo # <<>>
        /\ c.c \in {"unscope", "publish", "no-ref", "app-host"}
    BY <1>2 DEF SetsVariables, Next1, Call
  <2>2. /\ k \in Key /\ (c.c \in {"unscope", "app-host"} => c.a \in App)
        /\ (c.c = "publish" => c.t \in GoodTarget) /\ (c.c = "app-host" => c.h \in Host)
    BY <2>1, CallTyped DEF Typed
  <2>3. /\ gitlab.host \in [Key -> [App -> AnyHost]] /\ gitlab.host[k] \in [App -> AnyHost]
        /\ gitlab.ref \in [Key -> Branch \cup {NoRef, Nil}]
    BY <1>1, <2>2 DEF GitLab
  <2>4. ASSUME NEW a \in App, NEW h \in AnyHost, gitlab' = [gitlab EXCEPT !.host[k][a] = h]
        PROVE  gitlab' \in GitLab /\ gitlab'.root = gitlab.root
    <3>1. [gitlab.host EXCEPT ![k][a] = h] \in [Key -> [App -> AnyHost]]
      BY <2>2, <2>3
    <3>. QED  BY <1>1, <2>4, <3>1 DEF GitLab
  <2>5. CASE c.c = "unscope"
    <3>1. gitlab' = [gitlab EXCEPT !.host[k][c.a] = Nil] /\ Nil \in AnyHost
      BY <1>2, <2>5 DEF SetsVariables, Next1, Call, AnyHost
    <3>. HIDE DEF c, k
    <3>. QED  BY <1>1, <2>2, <2>4, <2>5, <3>1
  <2>6. CASE c.c = "app-host"
    <3>1. c.a \in App /\ gitlab.host[k][c.a] \in AnyHost /\ c.h \in AnyHost
      BY <2>2, <2>3, <2>6 DEF AnyHost
    <3>2. PICK h \in {c.h, gitlab.host[k][c.a]} : gitlab' = [gitlab EXCEPT !.host[k][c.a] = h]
      BY <1>2, <2>6 DEF SetsVariables, Next1, Call
    <3>3. h \in AnyHost
      BY <3>1, <3>2
    <3>. HIDE DEF c, k
    <3>. QED  BY <1>1, <2>4, <3>1, <3>2, <3>3
  <2>7. CASE c.c = "publish"
    <3>. DEFINE hs == [a \in App |-> IF a \in AppsOf(c.t) THEN c.t.host[a] ELSE gitlab.host[k][a]]
    <3>1. gitlab' = [gitlab EXCEPT !.ref[k] = c.t.ref, !.host[k] = hs]
      BY <1>2, <2>7 DEF SetsVariables, Next1, Call
    <3>2. c.t.ref \in Branch \cup {NoRef, Nil} /\ \A a \in App : c.t.host[a] \in AnyHost
      BY <2>2, <2>7 DEF GoodTarget, Target, AnyHost
    <3>3. hs \in [App -> AnyHost]
      BY <2>3, <3>2
    <3>. HIDE DEF hs, c, k
    <3>4. /\ gitlab'.root = gitlab.root
          /\ [gitlab.ref EXCEPT ![k] = c.t.ref] \in [Key -> Branch \cup {NoRef, Nil}]
          /\ [gitlab.host EXCEPT ![k] = hs] \in [Key -> [App -> AnyHost]]
      BY <1>1, <2>3, <3>1, <3>2, <3>3 DEF GitLab
    <3>. QED  BY <1>1, <3>1, <3>4 DEF GitLab
  <2>8. CASE c.c = "no-ref"
    <3>1. gitlab' = [gitlab EXCEPT !.ref[k] = NoRef]
      BY <1>2, <2>8 DEF SetsVariables, Next1, Call
    <3>. HIDE DEF k
    <3>. QED  BY <1>1, <2>3, <3>1 DEF GitLab
  <2>. QED  BY <2>1, <2>5, <2>6, <2>7, <2>8
<1>3. CASE Commits(r)
  BY <1>3, CommitsIs
<1>4. CASE CommitsChart(r)
  <2>1. /\ Call(r).b \in Branch /\ Call(r).on \in BOOLEAN
        /\ gitlab' = [gitlab EXCEPT !.chart[Call(r).b] = Call(r).on]
    BY <1>4, CallTyped DEF CommitsChart, Next1, Call, Typed
  <2>. QED  BY <1>1, <2>1 DEF GitLab
<1>5. CASE \/ TearsDown(r) \/ Seeds(r) \/ ReadsRoot(r) \/ ReadsSecret(r) \/ MergesSecret(r)
           \/ TouchesBody(r) \/ WritesIndex(r) \/ Saves(r) \/ Throws1(r) \/ Rejects(r) \/ Answers(r)
  <2>1. gitlab' = gitlab
    BY <1>5 DEF TearsDown, Seeds, ReadsRoot, ReadsSecret, MergesSecret, TouchesBody, WritesIndex,
                Saves, Throws1, Rejects, Answers
  <2>. QED  BY <1>1, <2>1
<1>. QED  BY <1>2, <1>3, <1>4, <1>5 DEF Called

LEMMA ReleasesStay ==
    ASSUME WiringInv, NEW r \in Req, Called(r)
    PROVE  releases' \subseteq Key \X App
<1>1. CASE TearsDown(r)
  BY <1>1 DEF TearsDown, WiringInv
<1>2. CASE ~TearsDown(r)
  <2>1. releases' = releases
    BY <1>2 DEF Called, Seeds, SetsVariables, ReadsRoot, Commits, CommitsChart, ReadsSecret,
                MergesSecret, TouchesBody, WritesIndex, Saves, Throws1, Rejects, Answers
  <2>. QED  BY <2>1 DEF WiringInv
<1>. QED  BY <1>1, <1>2

LEMMA SaveIs ==
    ASSUME WiringInv, NEW r \in Req, Saves(r)
    PROVE  LET x == req[r]
               d == x.doc
               c == Call(r)
           IN  /\ x.st = "busy" /\ x.todo # <<>> /\ c.c = "save" /\ c \in Range(x.todo)
               /\ c.new \in Doc /\ c.at \in Profile \cup {Nil} /\ d \in Doc
               /\ SaveFits(x.op, d, c)
               /\ Versioned(r) => row.ver = d.ver
               /\ Versioned(r) <=> c.at # Nil \/ c.new.targets # d.targets \/ c.new.profiles # d.profiles
               /\ row' \in Doc
               /\ row'.legacy = (IF c.new.legacy # d.legacy THEN c.new.legacy ELSE row.legacy)
               /\ row'.profiles = (IF c.at # Nil THEN [row.profiles EXCEPT ![c.at] = c.new.profiles[c.at]]
                                   ELSE IF c.new.profiles # d.profiles THEN c.new.profiles
                                   ELSE row.profiles)
               /\ row'.ver = (IF c.at = Nil /\ Versioned(r) THEN row.ver + 1 ELSE row.ver)
               /\ req'[r].doc = [c.new EXCEPT !.ver = IF Versioned(r) THEN row'.ver ELSE d.ver]
<1>1. /\ req[r].st = "busy" /\ req[r].todo # <<>> /\ Call(r).c = "save"
      /\ row' = Written(r) /\ ~Stale(r)
  BY DEF Saves, Next1, Call
<1>2. /\ Call(r) \in Range(req[r].todo) /\ Call(r).new \in Doc
      /\ Call(r).at \in Profile \cup {Nil} /\ req[r].doc \in Doc /\ row \in Doc
      /\ SaveFits(req[r].op, req[r].doc, Call(r))
  BY <1>1, CallTyped DEF Typed, SavesFit, WiringInv
<1>3. Versioned(r) => row.ver = req[r].doc.ver
  BY <1>1 DEF Stale
<1>4. req'[r].doc = [Call(r).new EXCEPT !.ver = IF Versioned(r) THEN row'.ver ELSE req[r].doc.ver]
  <2>. DEFINE nd == [Call(r).new EXCEPT !.ver = IF Versioned(r) THEN row'.ver ELSE req[r].doc.ver]
              z == [req[r] EXCEPT !.doc = nd, !.wrote = @ \/ Versioned(r)]
  <2>1. Returns(r, z)
    BY DEF Saves
  <2>. HIDE DEF nd
  <2>2. DOMAIN req = Req /\ DOMAIN req[r] = ReqField
    BY DEF WiringInv, ReqOK
  <2>3. z.doc = nd /\ DOMAIN z = ReqField
    BY <2>2 DEF ReqField
  <2>. HIDE DEF z
  <2>4. req'[r] = [z EXCEPT !.todo = Tail(@)]
    BY <2>1, <2>2 DEF Returns
  <2>5. req'[r].doc = nd
    BY <2>3, <2>4
  <2>. QED  BY <2>5 DEF nd
<1>. QED  BY <1>1, <1>2, <1>3, <1>4, WrittenIs

LEMMA CalledOK ==
    ASSUME WiringInv, NEW r \in Req, Called(r)
    PROVE  WiringInv'
<1>1. DOMAIN req' = Req /\ \A q \in Req : ReqOK(req'[q])
  BY CalledReq DEF WiringInv
<1>2. row' \in Doc
  BY CalledReq, SaveIs DEF WiringInv
<1>. QED  BY <1>1, <1>2, VaultStays, GitLabStays, ReleasesStay DEF WiringInv

(* Every step: a request starts, makes a call or stops, or a push deploys.  *)
StartStep(r, o) == \E plan : Begins(r, o, plan) /\ Planned(o, row, plan)

LEMMA NextIs ==
    ASSUME WiringInv, [WiringNext]_project
    PROVE  \/ \E r \in Req, o \in Ops : StartStep(r, o) /\ Starts(r, o)
           \/ \E r \in Req : Called(r)
           \/ \E k \in Key, a \in App, b \in Branch : PipelineDeploys(k, a, b)
           \/ UNCHANGED project
BY StartsPlanned DEF WiringNext, Starts, StartStep, WiringInv

LEMMA WiringStep == WiringInv /\ [WiringNext]_project => WiringInv'
<1>. SUFFICES ASSUME WiringInv, [WiringNext]_project PROVE WiringInv'
  OBVIOUS
<1>1. ASSUME NEW r \in Req, NEW o \in Ops, StartStep(r, o) PROVE WiringInv'
  <2>1. PICK plan : Begins(r, o, plan) /\ Planned(o, row, plan)
    BY <1>1 DEF StartStep
  <2>2. DOMAIN req' = Req /\ \A q \in Req : ReqOK(req'[q])
    BY <2>1, BeginsOK DEF WiringInv
  <2>3. UNCHANGED <<row, vault, gitlab, releases>>
    BY <2>1 DEF Begins
  <2>. QED  BY <2>2, <2>3 DEF WiringInv
<1>2. ASSUME NEW r \in Req, Called(r) PROVE WiringInv'
  BY <1>2, CalledOK
<1>3. ASSUME NEW k \in Key, NEW a \in App, NEW b \in Branch, PipelineDeploys(k, a, b)
      PROVE  WiringInv'
  BY <1>3 DEF PipelineDeploys, WiringInv
<1>4. CASE UNCHANGED project
  BY <1>4 DEF project, WiringInv
<1>. QED  BY <1>1, <1>2, <1>3, <1>4, NextIs

(* Whatever the requests are and however their calls interleave, the row,   *)
(* the secrets and the branches keep their shape, every branch holds its    *)
(* users' file with other includes, and every unfinished plan is in order.  *)
THEOREM WiringInvariant == WiringSpec => []WiringInv
<1>. QED  BY InitOK, WiringStep, PTL DEF WiringSpec

(* The project's state has its type, whatever the requests.                 *)
THEOREM WiringTyped == WiringSpec => []WiringTypeOK
<1>1. WiringInv => WiringTypeOK
  <2>. SUFFICES ASSUME WiringInv PROVE WiringTypeOK
    OBVIOUS
  <2>1. \A k \in Key : row.targets[k] \in Target \cup {Nil}
    BY DEF WiringInv, Doc, GoodTarget
  <2>2. row.ver \in Nat /\ {row.legacy, row.pinned, row.runtime} \subseteq BOOLEAN
    BY DEF WiringInv, Doc
  <2>3. vault.target \in [Key -> SUBSET (RtKey \cup {Seed})] /\ vault.body \in [Profile -> (SUBSET RtKey) \cup {Nil}]
    BY DEF WiringInv, Vault
  <2>4. gitlab.ref \in [Key -> Branch \cup {NoRef, Nil}] /\ \A b \in Branch : gitlab.root[b].shape \in Shape
    BY DEF WiringInv, GitLab, RootsOf
  <2>5. \A r \in Req : req[r].st \in {"idle", "busy", "done", "failed", "rejected"}
    BY DEF WiringInv, ReqOK, Place
  <2>. QED  BY <2>1, <2>2, <2>3, <2>4, <2>5 DEF WiringInv, WiringTypeOK
<1>. QED  BY <1>1, WiringInvariant, PTL

(* Whatever the requests write to the branches, the jobs that users wrote   *)
(* in .gitlab-ci.yml stay there (mergeProjectGitlabCi).                     *)
THEOREM UsersKeepJobs == WiringSpec => []UserJobsKept
<1>1. WiringInv => UserJobsKept
  BY DEF WiringInv, RootsOf, UserJobsKept
<1>. QED  BY <1>1, WiringInvariant, PTL

-----------------------------------------------------------------------------
(***************************************************************************)
(* A migrated row is wired.                                                *)
(***************************************************************************)
LEMMA BranchesAdvance ==
    ASSUME WiringInv, NEW r \in Req, Called(r), NEW b \in Branch
    PROVE  /\ Charted(b) => Charted(b)'
           /\ Included(b) => Included(b)'
           /\ req'[r].st = "busy" /\ Call(r).c = "chart" /\ Call(r).b = b => Charted(b)'
           /\ req'[r].st = "busy" /\ Call(r).c \in {"commit", "root"} /\ Call(r).b = b => Included(b)'
<1>1. gitlab \in GitLab
  BY DEF WiringInv
<1>2. CASE Commits(r)
  BY <1>2, CommitsIs DEF Charted, Included, Commits, Next1, Call
<1>3. CASE CommitsChart(r)
  <2>1. /\ Call(r).b \in Branch /\ Call(r).on \in BOOLEAN /\ Call(r).c = "chart"
        /\ gitlab' = [gitlab EXCEPT !.chart[Call(r).b] = Call(r).on]
    BY <1>3, CallTyped DEF CommitsChart, Next1, Call, Typed
  <2>2. /\ gitlab'.root = gitlab.root /\ gitlab'.chart = [gitlab.chart EXCEPT ![Call(r).b] = Call(r).on]
    BY <1>1, <2>1 DEF GitLab
  <2>3. gitlab'.chart[b] = IF b = Call(r).b THEN Call(r).on ELSE gitlab.chart[b]
    BY <1>1, <2>1, <2>2 DEF GitLab
  <2>4. Call(r).on # Nil
    BY <2>1, NilAssumption
  <2>. QED  BY <2>1, <2>2, <2>3, <2>4 DEF Charted, Included
<1>4. CASE SetsVariables(r)
  <2>1. gitlab'.root = gitlab.root /\ gitlab'.chart = gitlab.chart
    BY <1>1, <1>4 DEF SetsVariables, GitLab
  <2>2. Call(r).c \notin {"chart", "commit", "root"}
    BY <1>4 DEF SetsVariables, Next1, Call
  <2>. QED  BY <2>1, <2>2 DEF Charted, Included
<1>5. CASE Throws1(r) \/ Rejects(r) \/ Answers(r)
  <2>1. gitlab' = gitlab
    BY <1>5 DEF Throws1, Rejects, Answers
  <2>2. PICK st \in {"done", "failed", "rejected"} : req' = Ended(r, st)
    BY <1>5 DEF Throws1, Rejects, Answers
  <2>3. req'[r].st = st
    BY <2>2 DEF Ended, WiringInv, ReqOK, ReqField
  <2>. QED  BY <2>1, <2>3 DEF Charted, Included
<1>6. CASE \/ TearsDown(r) \/ Seeds(r) \/ ReadsRoot(r) \/ ReadsSecret(r) \/ MergesSecret(r)
           \/ TouchesBody(r) \/ WritesIndex(r) \/ Saves(r)
  <2>1. gitlab' = gitlab /\ Call(r).c \notin {"chart", "commit", "root"}
    BY <1>6 DEF TearsDown, Seeds, ReadsRoot, ReadsSecret, MergesSecret, TouchesBody, WritesIndex,
                Saves, Next1, Call
  <2>. QED  BY <2>1 DEF Charted, Included
<1>. QED  BY <1>2, <1>3, <1>4, <1>5, <1>6 DEF Called

LEMMA WillStay ==
    ASSUME WiringInv, NEW r \in Req, Called(r), NEW q \in Req, NEW b \in Branch,
           req[q].st = "busy", req'[q].st = "busy", WillWire(Range(req[q].todo), b)
    PROVE  WillWire(Range(req[q].todo), b)'
<1>1. CASE q # r
  <2>1. req'[q] = req[q]
    BY <1>1, CalledReq
  <2>. QED  BY <2>1, BranchesAdvance DEF WillWire
<1>2. CASE q = r
  <2>. DEFINE S == Range(req[r].todo)
              T == Range(req'[r].todo)
  <2>1. Goes1(req[r], req'[r])
    BY <1>2, CalledReq DEF Stops
  <2>2. S \subseteq T \cup {Call(r)}
    BY <2>1 DEF Goes1, Left, Call
  <2>3. WillWire(S, b)
    BY <1>2
  <2>. HIDE DEF S, T
  <2>4. Charted(b)' \/ \E c \in T : c.c = "chart" /\ c.b = b
    BY <1>2, <2>2, <2>3, BranchesAdvance DEF WillWire
  <2>5. Included(b)' \/ \E c \in T : c.c \in {"commit", "root"} /\ c.b = b
    BY <1>2, <2>2, <2>3, BranchesAdvance DEF WillWire
  <2>. QED  BY <1>2, <2>4, <2>5 DEF WillWire, T
<1>. QED  BY <1>1, <1>2

LEMMA LegacyOnce ==
    ASSUME WiringInv, NEW r \in Req, Called(r)
    PROVE  ~row.legacy => ~row'.legacy
<1>1. CASE Saves(r)
  BY <1>1, SaveIs DEF SaveFits, Doc
<1>2. CASE ~Saves(r)
  BY <1>2, CalledReq
<1>. QED  BY <1>1, <1>2

LEMMA FlagCalled ==
    ASSUME WiringInv, FlagInv, NEW r \in Req, Called(r)
    PROVE  FlagInv'
<1>1. ASSUME NEW b \in Branch, Wired(b) PROVE Wired(b)'
  BY <1>1, BranchesAdvance DEF Wired
<1>2. ASSUME Saves(r), ~row'.legacy PROVE \E b \in Branch : Wired(b)
  <2>. DEFINE c == Call(r)
              x == req[r]
  <2>1. CASE ~row.legacy
    BY <2>1 DEF FlagInv
  <2>2. CASE row.legacy
    <3>1. /\ x.st = "busy" /\ x.todo # <<>> /\ c.c = "save" /\ c \in Range(x.todo)
          /\ ~c.new.legacy /\ c.new.legacy # x.doc.legacy
      BY <1>2, <2>2, SaveIs DEF Doc
    <3>2. x.op.op = "migrate" /\ \E b \in Branch : WillWire(Range(x.todo), b)
      BY <2>2, <3>1 DEF FlagInv
    <3>3. PICK b \in Branch : WillWire(Range(x.todo), b)
      BY <3>2
    <3>4. Goes1(x, req'[r])
      BY <1>2, <2>2, CalledReq, <3>1
    <3>5. \A d \in Range(x.todo) : d = c \/ Rank("migrate", c) <= Rank("migrate", d)
      BY <3>2, <3>4 DEF Goes1, Left, Call
    <3>6. Rank("migrate", c) = 2
      BY <3>1 DEF Rank
    <3>7. \A d \in Range(x.todo) : d.c \notin {"chart", "commit", "root"}
      <4>. SUFFICES ASSUME NEW d \in Range(x.todo), d.c \in {"chart", "commit", "root"} PROVE FALSE
        OBVIOUS
      <4>1. Rank("migrate", d) = 0
        BY DEF Rank
      <4>. QED  BY <3>1, <3>5, <3>6, <4>1
    <3>. QED  BY <3>3, <3>7 DEF WillWire, Wired
  <2>. QED  BY <2>1, <2>2
<1>3. ~row'.legacy => \E b \in Branch : Wired(b)'
  <2>1. CASE Saves(r)
    BY <1>1, <1>2, <2>1
  <2>2. CASE ~Saves(r)
    BY <1>1, <2>2, CalledReq DEF FlagInv
  <2>. QED  BY <2>1, <2>2
<1>4. ASSUME NEW q \in Req, req'[q].st = "busy"
      PROVE  ~req'[q].doc.legacy => ~row'.legacy
  <2>1. CASE q # r \/ ~Saves(r)
    <3>1. req[q].st = "busy" /\ req'[q].doc = req[q].doc
      BY <1>4, <2>1, CalledReq DEF Stops
    <3>. QED  BY <3>1, LegacyOnce DEF FlagInv
  <2>2. CASE q = r /\ Saves(r)
    <3>1. req'[r].doc.legacy = Call(r).new.legacy
      BY <2>2, SaveIs DEF Doc
    <3>2. req[r].st = "busy"
      BY <2>2, SaveIs
    <3>. QED  BY <2>2, <3>1, <3>2, SaveIs DEF FlagInv, Doc
  <2>. QED  BY <2>1, <2>2
<1>5. ASSUME NEW q \in Req, req'[q].st = "busy", NEW c \in Range(req'[q].todo),
             c.c = "save", ~c.new.legacy
      PROVE  ~row'.legacy \/ (req'[q].op.op = "migrate"
                              /\ \E b \in Branch : WillWire(Range(req[q].todo), b)')
  <2>1. req[q].st = "busy" /\ req'[q].op = req[q].op /\ c \in Range(req[q].todo)
    BY <1>5, CalledReq DEF Stops, Goes1, Left
  <2>2. ~row.legacy \/ (req[q].op.op = "migrate"
                        /\ \E b \in Branch : WillWire(Range(req[q].todo), b))
    BY <1>5, <2>1 DEF FlagInv
  <2>3. CASE ~row.legacy
    BY <2>3, LegacyOnce
  <2>4. CASE req[q].op.op = "migrate" /\ \E b \in Branch : WillWire(Range(req[q].todo), b)
    BY <1>5, <2>1, <2>4, WillStay
  <2>. QED  BY <2>2, <2>3, <2>4
<1>. QED  BY <1>3, <1>4, <1>5 DEF FlagInv

LEMMA FlagStep == WiringInv /\ FlagInv /\ [WiringNext]_project => FlagInv'
<1>. SUFFICES ASSUME WiringInv, FlagInv, [WiringNext]_project PROVE FlagInv'
  OBVIOUS
<1>1. ASSUME NEW r \in Req, NEW o \in Ops, StartStep(r, o) PROVE FlagInv'
  <2>1. PICK plan : Begins(r, o, plan) /\ Planned(o, row, plan)
    BY <1>1 DEF StartStep
  <2>2. row' = row /\ gitlab' = gitlab
    BY <2>1 DEF Begins
  <2>3. /\ \A q \in Req \ {r} : req'[q] = req[q]
        /\ req'[r].op = o /\ req'[r].doc = row /\ req'[r].todo = plan
        /\ FlagFit(o, row, Range(plan))
    BY <2>1, BeginsOK DEF WiringInv, PlanFits
  <2>4. ASSUME NEW c \in Range(plan), c.c = "save", ~c.new.legacy
        PROVE  ~row'.legacy \/ (o.op = "migrate" /\ \E b \in Branch : WillWire(Range(plan), b)')
    BY <2>2, <2>3, <2>4 DEF FlagFit, WillWire
  <2>5. (~row.legacy => \E b \in Branch : Wired(b))'
    BY <2>2 DEF FlagInv, Wired, Charted, Included
  <2>6. ASSUME NEW q \in Req, req'[q].st = "busy"
        PROVE  /\ ~req'[q].doc.legacy => ~row'.legacy
               /\ \A c \in Range(req'[q].todo) : c.c = "save" /\ ~c.new.legacy =>
                    ~row'.legacy \/ (req'[q].op.op = "migrate"
                                     /\ \E b \in Branch : WillWire(Range(req[q].todo), b)')
    <3>1. CASE q = r
      BY <2>2, <2>3, <2>4, <3>1 DEF WillWire
    <3>2. CASE q # r
      BY <2>2, <2>3, <2>6, <3>2 DEF FlagInv, WillWire, Charted, Included
    <3>. QED  BY <3>1, <3>2
  <2>. QED  BY <2>5, <2>6 DEF FlagInv
<1>2. ASSUME NEW r \in Req, Called(r) PROVE FlagInv'
  BY <1>2, FlagCalled
<1>3. ASSUME NEW k \in Key, NEW a \in App, NEW b \in Branch, PipelineDeploys(k, a, b)
      PROVE  FlagInv'
  BY <1>3 DEF PipelineDeploys, FlagInv, Wired, WillWire, Charted, Included
<1>4. CASE UNCHANGED project
  BY <1>4 DEF project, FlagInv, Wired, WillWire, Charted, Included
<1>. QED  BY <1>1, <1>2, <1>3, <1>4, NextIs

LEMMA FlagInit == WiringInit => FlagInv
<1>. SUFFICES ASSUME WiringInit PROVE FlagInv
  OBVIOUS
<1>1. PICK in \in Creations :
         /\ row = NewDoc(in)
         /\ gitlab = NewGitLab(NewDoc(in).targets, ~in.legacy)
         /\ req = [r \in Req |-> Idle]
  BY DEF WiringInit
<1>2. row \in Doc /\ row.legacy = in.legacy
  BY <1>1, NewDocTyped
<1>3. row.targets \in [Key -> GoodTarget \cup {Nil}] /\ (~in.legacy) \in BOOLEAN
  BY <1>2 DEF Doc
<1>4. ~row.legacy => Wired(MainBranch)
  <2>1. TRUE # Nil
    BY NilAssumption
  <2>. QED  BY <1>1, <1>2, <1>3, <2>1, NewGitLabTyped DEF Wired, Charted, Included
<1>5. \A r \in Req : req[r].st # "busy"
  BY <1>1, IdleOK
<1>. QED  BY <1>4, <1>5, RefAssumption DEF FlagInv

(* A row stops being legacy only once some branch has the chart values and  *)
(* the template include, unless its file could not be merged: the migration *)
(* saves the flag last, and no other request can lower it.                  *)
THEOREM MigrationsAreWired == WiringSpec => []MigratedIsWired
<1>1. FlagInv => MigratedIsWired
  BY DEF FlagInv, MigratedIsWired, Wired, Charted, Included
<1>2. WiringInit => WiringInv /\ FlagInv
  BY InitOK, FlagInit
<1>3. WiringInv /\ FlagInv /\ [WiringNext]_project => WiringInv' /\ FlagInv'
  BY WiringStep, FlagStep
<1>. QED  BY <1>1, <1>2, <1>3, PTL DEF WiringSpec

-----------------------------------------------------------------------------
(***************************************************************************)
(* Profiles: what is stored, listed and answered.                          *)
(***************************************************************************)
LEMMA CalledStays ==
    ASSUME WiringInv, NEW r \in Req, Called(r)
    PROVE  /\ \A q \in Req : req'[q].op = req[q].op
           /\ \A q \in Req : req'[q].st = "busy" =>
                 /\ req[q].st = "busy" /\ Range(req'[q].todo) \subseteq Range(req[q].todo)
                 /\ q # r \/ ~Saves(r) => req'[q].doc = req[q].doc
           /\ \A p : Dropped(p) => Dropped(p)'
           /\ req'[r].st = "busy" =>
                 /\ Goes1(req[r], req'[r]) /\ Call(r).c # "reject"
                 /\ Range(req[r].todo) \subseteq Range(req'[r].todo) \cup {Call(r)}
<1>1. \A q \in Req : req'[q].op = req[q].op
  BY CalledReq DEF Stops, Goes1
<1>2. \A q \in Req : req'[q].st = "busy" =>
                 /\ req[q].st = "busy" /\ Range(req'[q].todo) \subseteq Range(req[q].todo)
                 /\ q # r \/ ~Saves(r) => req'[q].doc = req[q].doc
  BY CalledReq DEF Stops, Goes1, Left
<1>3. \A p : Dropped(p) => Dropped(p)'
  BY <1>1 DEF Dropped, OpsOf
<1>4. ASSUME req'[r].st = "busy" PROVE Call(r).c # "reject"
  <2>1. CASE Throws1(r) \/ Rejects(r) \/ Answers(r)
    <3>1. PICK st \in {"done", "failed", "rejected"} : req' = Ended(r, st)
      BY <2>1 DEF Throws1, Rejects, Answers
    <3>2. req'[r].st = st
      BY <3>1 DEF Ended, WiringInv, ReqOK, ReqField
    <3>. QED  BY <1>4, <3>2
  <2>2. CASE ~(Throws1(r) \/ Rejects(r) \/ Answers(r))
    BY <2>2 DEF Called, TearsDown, Seeds, SetsVariables, ReadsRoot, Commits, CommitsChart, ReadsSecret,
                MergesSecret, TouchesBody, WritesIndex, Saves, Next1, Call
  <2>. QED  BY <2>1, <2>2
<1>5. ASSUME req'[r].st = "busy"
      PROVE  /\ Goes1(req[r], req'[r])
             /\ Range(req[r].todo) \subseteq Range(req'[r].todo) \cup {Call(r)}
  <2>1. Goes1(req[r], req'[r])
    BY <1>5, CalledReq DEF Stops
  <2>. QED  BY <2>1 DEF Goes1, Left, Call
<1>. QED  BY <1>1, <1>2, <1>3, <1>4, <1>5

(* What r saves of the profiles.                                            *)
LEMMA SaveKeeps ==
    ASSUME WiringInv, ProfileInv, NEW r \in Req, Saves(r), NEW p \in Profile
    PROVE  LET d == req[r].doc
               new == Call(r).new
           IN  /\ row'.profiles[p] \in {row.profiles[p], new.profiles[p]}
               /\ row.profiles[p] # Nil => row'.profiles[p] # Nil \/ Dropped(p)
               /\ new.profiles[p] # Nil => row'.profiles[p] # Nil \/ Kept(p)
               /\ row'.ver = row.ver => (row'.profiles[p] = Nil <=> row.profiles[p] = Nil)
               /\ Versioned(r) => (new.profiles[p] = Nil <=> row'.profiles[p] = Nil)
               /\ ~Versioned(r) => new.profiles[p] = d.profiles[p]
                                   /\ row'.profiles[p] = row.profiles[p]
<1>. DEFINE x == req[r]
            d == x.doc
            c == Call(r)
            new == c.new
<1>1. /\ x.st = "busy" /\ c.new \in Doc /\ c.at \in Profile \cup {Nil} /\ d \in Doc
      /\ SaveFits(x.op, d, c) /\ row' \in Doc
      /\ Versioned(r) => row.ver = d.ver
      /\ Versioned(r) <=> c.at # Nil \/ c.new.targets # d.targets \/ c.new.profiles # d.profiles
      /\ row'.profiles = (IF c.at # Nil THEN [row.profiles EXCEPT ![c.at] = c.new.profiles[c.at]]
                          ELSE IF c.new.profiles # d.profiles THEN c.new.profiles
                          ELSE row.profiles)
      /\ row'.ver = (IF c.at = Nil /\ Versioned(r) THEN row.ver + 1 ELSE row.ver)
  BY SaveIs
<1>2. VersionFits(d)
  BY <1>1 DEF ProfileInv, ProfileFits
<1>3. /\ d.profiles \in [Profile -> StoredProfile \cup {Nil}]
      /\ new.profiles \in [Profile -> StoredProfile \cup {Nil}]
      /\ row.profiles \in [Profile -> StoredProfile \cup {Nil}]
      /\ row.ver \in Nat
  BY <1>1 DEF Doc, WiringInv
<1>4. Versioned(r) => (d.profiles[p] = Nil <=> row.profiles[p] = Nil)
  BY <1>1, <1>2 DEF VersionFits
<1>5. d.profiles[p] # Nil => Kept(p)
  BY <1>2 DEF VersionFits
<1>6. new.profiles[p] # d.profiles[p] /\ new.profiles[p] = Nil => Dropped(p)
  BY <1>1 DEF SaveFits, Dropped, OpsOf
<1>. HIDE DEF c, d, x
<1>7. CASE c.at # Nil
  <2>1. /\ c.at \in Profile /\ d.profiles[c.at] # Nil /\ new.profiles[c.at] # Nil
        /\ p # c.at => new.profiles[p] = d.profiles[p]
    BY <1>1, <1>7 DEF SaveFits
  <2>2. row'.profiles[p] = IF p = c.at THEN new.profiles[p] ELSE row.profiles[p]
    BY <1>1, <1>3, <1>7, <2>1
  <2>3. Versioned(r)
    BY <1>1, <1>7
  <2>. QED  BY <1>1, <1>4, <1>5, <1>7, <2>1, <2>2, <2>3 DEF c, d, x
<1>8. CASE c.at = Nil /\ new.profiles # d.profiles
  <2>1. Versioned(r) /\ row'.profiles = new.profiles /\ row'.ver = row.ver + 1
    BY <1>1, <1>8
  <2>2. row'.ver # row.ver
    BY <1>3, <2>1
  <2>. QED  BY <1>4, <1>5, <1>6, <2>1, <2>2 DEF c, d, x
<1>9. CASE c.at = Nil /\ new.profiles = d.profiles
  <2>1. row'.profiles = row.profiles
    BY <1>1, <1>9
  <2>. QED  BY <1>4, <1>5, <1>9, <2>1 DEF c, d, x
<1>. QED  BY <1>7, <1>8, <1>9

LEMMA KeptStays ==
    ASSUME WiringInv, ProfileInv, NEW r \in Req, Called(r), NEW p \in Profile, Kept(p)
    PROVE  Kept(p)'
<1>1. CASE Saves(r)
  BY <1>1, SaveKeeps, CalledStays DEF Kept
<1>2. CASE ~Saves(r)
  <2>1. row' = row
    BY <1>2, CalledReq
  <2>. QED  BY <2>1, CalledStays DEF Kept
<1>. QED  BY <1>1, <1>2

LEMMA BodyStays ==
    ASSUME WiringInv, ProfileInv, NEW r \in Req, Called(r), NEW p \in Profile
    PROVE  /\ vault.body[p] # Nil \/ Dropped(p) => vault'.body[p] # Nil \/ Dropped(p)'
           /\ req'[r].st = "busy" /\ Call(r).c = "body" /\ Call(r).p = p => vault'.body[p] # Nil
<1>1. vault \in Vault
  BY DEF WiringInv
<1>2. CASE TouchesBody(r)
  <2>. DEFINE c == Call(r)
              x == req[r]
  <2>1. /\ x.st = "busy" /\ x.todo # <<>> /\ c.c \in {"body", "read-body", "drop-body"}
        /\ c.p \in Profile /\ c \in Range(x.todo)
        /\ c.c = "body" => c.names \in SUBSET RtKey
    BY <1>2, CallTyped DEF TouchesBody, Next1, Call, Typed
  <2>2. CASE c.c = "body"
    <3>1. vault' = [vault EXCEPT !.body[c.p] = c.names]
      BY <1>2, <2>2 DEF TouchesBody, Next1, Call
    <3>2. c.names # Nil
      BY <2>1, <2>2, NilAssumption
    <3>. HIDE DEF c
    <3>3. vault'.body = [vault.body EXCEPT ![c.p] = c.names]
      BY <1>1, <3>1 DEF Vault
    <3>4. vault'.body[p] = IF p = c.p THEN c.names ELSE vault.body[p]
      BY <1>1, <2>1, <3>3 DEF Vault
    <3>. QED  BY <3>2, <3>4, CalledStays DEF c
  <2>3. CASE c.c = "read-body"
    <3>1. vault' = vault
      BY <1>2, <2>3 DEF TouchesBody, Next1, Call
    <3>. QED  BY <2>3, <3>1, CalledStays
  <2>4. CASE c.c = "drop-body"
    <3>1. PICK left \in {Nil, vault.body[c.p]} : vault' = [vault EXCEPT !.body[c.p] = left]
      BY <1>2, <2>4 DEF TouchesBody, Next1, Call
    <3>2. x.op.op = "drop" /\ c.p = x.op.profile
      BY <2>1, <2>4 DEF ProfileInv, ProfileFits
    <3>3. Dropped(c.p)
      BY <3>2 DEF Dropped, OpsOf
    <3>. HIDE DEF c
    <3>4. p # c.p => vault'.body[p] = vault.body[p]
      BY <1>1, <2>1, <3>1 DEF Vault
    <3>. QED  BY <2>4, <3>3, <3>4, CalledStays DEF c
  <2>. QED  BY <2>1, <2>2, <2>3, <2>4
<1>3. CASE \/ Seeds(r) \/ MergesSecret(r) \/ WritesIndex(r)
  <2>1. vault'.body = vault.body
    BY <1>1, <1>3 DEF Seeds, MergesSecret, WritesIndex, Vault
  <2>2. Call(r).c # "body"
    BY <1>3 DEF Seeds, MergesSecret, WritesIndex, Next1, Call
  <2>. QED  BY <2>1, <2>2, CalledStays
<1>4. CASE \/ TearsDown(r) \/ SetsVariables(r) \/ ReadsRoot(r) \/ Commits(r) \/ CommitsChart(r)
           \/ ReadsSecret(r) \/ Saves(r)
  <2>1. vault' = vault /\ Call(r).c # "body"
    BY <1>4 DEF TearsDown, SetsVariables, ReadsRoot, Commits, CommitsChart, ReadsSecret, Saves,
                Next1, Call
  <2>. QED  BY <2>1, CalledStays
<1>5. CASE Throws1(r) \/ Rejects(r) \/ Answers(r)
  <2>1. vault' = vault
    BY <1>5 DEF Throws1, Rejects, Answers
  <2>2. PICK st \in {"done", "failed", "rejected"} : req' = Ended(r, st)
    BY <1>5 DEF Throws1, Rejects, Answers
  <2>3. req'[r].st = st
    BY <2>2 DEF Ended, WiringInv, ReqOK, ReqField
  <2>. QED  BY <2>1, <2>3, CalledStays
<1>. QED  BY <1>2, <1>3, <1>4, <1>5 DEF Called

(* What a request still has to write, it writes or has written.             *)
LEMMA BringsStays ==
    ASSUME WiringInv, ProfileInv, NEW r \in Req, Called(r), NEW q \in Req, req'[q].st = "busy",
           NEW p \in Profile
    PROVE  /\ Brings(Range(req[q].todo), p) => Brings(Range(req'[q].todo), p) \/ Kept(p)'
           /\ WritesBody(Range(req[q].todo), p) =>
                 WritesBody(Range(req'[q].todo), p) \/ vault'.body[p] # Nil
<1>1. CASE q # r
  <2>1. req'[q] = req[q]
    BY <1>1, CalledReq
  <2>. QED  BY <2>1
<1>2. CASE q = r
  <2>1. /\ Range(req[r].todo) \subseteq Range(req'[r].todo) \cup {Call(r)}
    BY <1>2, CalledStays
  <2>. DEFINE S == Range(req[r].todo)
              T == Range(req'[r].todo)
  <2>2. ASSUME Call(r).c = "save", Call(r).new.profiles[p] # Nil PROVE Kept(p)'
    <3>1. Goes1(req[r], req'[r])
      BY <1>2, CalledStays
    <3>2. Saves(r)
      BY <2>2, <3>1, <1>2, CalledReq DEF Stops
    <3>3. row'.profiles[p] # Nil \/ Kept(p)
      BY <2>2, <3>2, SaveKeeps
    <3>. QED  BY <3>3, KeptStays DEF Kept
  <2>3. Call(r).c = "body" /\ Call(r).p = p => vault'.body[p] # Nil
    BY <1>2, BodyStays
  <2>. HIDE DEF S, T
  <2>4. S \subseteq T \cup {Call(r)}
    BY <2>1 DEF S, T
  <2>5. Brings(S, p) => Brings(T, p) \/ Kept(p)'
    BY <2>2, <2>4 DEF Brings
  <2>6. WritesBody(S, p) => WritesBody(T, p) \/ vault'.body[p] # Nil
    BY <2>3, <2>4 DEF WritesBody
  <2>. QED  BY <1>2, <2>5, <2>6 DEF S, T
<1>. QED  BY <1>1, <1>2

LEMMA VersionStays ==
    ASSUME WiringInv, ProfileInv, NEW r \in Req, Called(r), NEW q \in Req, req'[q].st = "busy"
    PROVE  VersionFits(req[q].doc)'
<1>. DEFINE e == req'[q].doc
<1>1. req[q].st = "busy" /\ VersionFits(req[q].doc)
  BY CalledStays DEF ProfileInv, ProfileFits
<1>2. row.ver \in Nat /\ req[q].doc.ver \in Nat
  BY <1>1 DEF WiringInv, ReqOK, Doc
<1>3. \A p \in Profile : Kept(p) => Kept(p)'
  BY KeptStays
<1>4. CASE ~Saves(r)
  <2>1. e = req[q].doc /\ row' = row
    BY <1>4, CalledReq, CalledStays
  <2>. QED  BY <1>1, <1>3, <2>1 DEF VersionFits
<1>5. CASE Saves(r) /\ q # r
  <2>1. e = req[q].doc
    BY <1>5, CalledReq
  <2>2. row'.ver = row.ver \/ row'.ver = row.ver + 1
    BY <1>5, SaveIs
  <2>3. row'.ver = row.ver => \A p \in Profile : row'.profiles[p] = Nil <=> row.profiles[p] = Nil
    BY <1>5, SaveKeeps
  <2>4. e.ver <= row'.ver /\ (e.ver = row'.ver => row'.ver = row.ver)
    BY <1>1, <1>2, <2>1, <2>2 DEF VersionFits
  <2>. QED  BY <1>1, <1>3, <2>1, <2>3, <2>4 DEF VersionFits
<1>6. CASE Saves(r) /\ q = r
  <2>. DEFINE new == Call(r).new
              d == req[r].doc
  <2>1. /\ e = [new EXCEPT !.ver = IF Versioned(r) THEN row'.ver ELSE d.ver]
        /\ new \in Doc /\ row' \in Doc
        /\ row'.ver = (IF Call(r).at = Nil /\ Versioned(r) THEN row.ver + 1 ELSE row.ver)
    BY <1>6, SaveIs
  <2>2. /\ e.ver = (IF Versioned(r) THEN row'.ver ELSE d.ver) /\ e.profiles = new.profiles
    BY <2>1 DEF Doc
  <2>3. \A p \in Profile :
           /\ new.profiles[p] # Nil => row'.profiles[p] # Nil \/ Kept(p)
           /\ Versioned(r) => (new.profiles[p] = Nil <=> row'.profiles[p] = Nil)
           /\ ~Versioned(r) => new.profiles[p] = d.profiles[p]
                               /\ row'.profiles[p] = row.profiles[p]
    BY <1>6, SaveKeeps
  <2>4. row'.ver \in Nat
    BY <2>1 DEF Doc
  <2>. HIDE DEF e, new, d
  <2>5. e.ver <= row'.ver
    BY <1>1, <1>2, <1>6, <2>1, <2>2, <2>4 DEF VersionFits, d
  <2>6. ASSUME e.ver = row'.ver, NEW p \in Profile PROVE e.profiles[p] = Nil <=> row'.profiles[p] = Nil
    <3>1. CASE Versioned(r)
      BY <2>2, <2>3, <3>1
    <3>2. CASE ~Versioned(r)
      <4>1. d.ver = row.ver
        BY <2>1, <2>2, <2>6, <3>2
      <4>2. d.profiles[p] = Nil <=> row.profiles[p] = Nil
        BY <1>1, <1>6, <4>1 DEF VersionFits, d
      <4>. QED  BY <2>2, <2>3, <3>2, <4>2
    <3>. QED  BY <3>1, <3>2
  <2>7. \A p \in Profile : e.profiles[p] # Nil => Kept(p)'
    BY <1>3, <2>2, <2>3 DEF Kept
  <2>. QED  BY <2>5, <2>6, <2>7 DEF VersionFits, e
<1>. QED  BY <1>4, <1>5, <1>6

LEMMA FitsStay ==
    ASSUME WiringInv, ProfileInv, NEW r \in Req, Called(r), NEW q \in Req, req'[q].st = "busy"
    PROVE  ProfileFits(req[q])'
<1>. DEFINE x == req[q]
            y == req'[q]
            S == Range(x.todo)
            T == Range(y.todo)
<1>1. /\ x.st = "busy" /\ y.op = x.op /\ T \subseteq S /\ ProfileFits(x)
  BY CalledStays DEF ProfileInv
<1>2. VersionFits(req[q].doc)'
  BY VersionStays
<1>3. ASSUME NEW c \in T, c.c = "drop-body" PROVE y.op.op = "drop" /\ c.p = y.op.profile
  BY <1>1, <1>3 DEF ProfileFits
<1>4. ASSUME NEW c \in T, c.c = "save", NEW p \in Profile, c.new.profiles[p] # Nil
      PROVE  vault'.body[p] # Nil \/ Dropped(p)' \/ WritesBody(T, p)
  <2>1. vault.body[p] # Nil \/ Dropped(p) \/ WritesBody(S, p)
    BY <1>1, <1>4 DEF ProfileFits
  <2>. QED  BY <2>1, BodyStays, BringsStays
<1>5. ASSUME NEW c \in T, c.c = "index", NEW e \in c.profiles
      PROVE  Kept(e[1])' \/ Brings(T, e[1])
  <2>1. Kept(e[1]) \/ Brings(S, e[1])
    BY <1>1, <1>5 DEF ProfileFits
  <2>2. e[1] \in Profile
    <3>1. Typed(c)
      BY <1>1, <1>5 DEF WiringInv, ReqOK
    <3>. QED  BY <1>5, <3>1 DEF Typed
  <2>3. Kept(e[1]) => Kept(e[1])'
    BY <2>2, KeptStays DEF Kept, Dropped, OpsOf
  <2>4. Brings(S, e[1]) => Brings(T, e[1]) \/ Kept(e[1])'
    BY <2>2, BringsStays DEF Kept, Dropped, OpsOf
  <2>. QED  BY <2>1, <2>3, <2>4
<1>. QED  BY <1>2, <1>3, <1>4, <1>5 DEF ProfileFits

LEMMA ProfileCalled ==
    ASSUME WiringInv, ProfileInv, NEW r \in Req, Called(r)
    PROVE  ProfileInv'
<1>. DEFINE x == req[r]
            c == Call(r)
            S == Range(x.todo)
<1>1. ASSUME x.st = "busy", x.todo # <<>>, req'[r].st = "busy", NEW d \in S
      PROVE  d = c \/ Rank(x.op.op, c) <= Rank(x.op.op, d)
  BY <1>1, CalledStays DEF Goes1, Left, Call
<1>2. ASSUME NEW p \in Profile, row'.profiles[p] # Nil
      PROVE  vault'.body[p] # Nil \/ Dropped(p)'
  <2>1. CASE row.profiles[p] # Nil
    BY <2>1, BodyStays DEF ProfileInv
  <2>2. CASE row.profiles[p] = Nil
    <3>1. Saves(r)
      BY <1>2, <2>2, CalledReq
    <3>2. c.new.profiles[p] # Nil
      BY <1>2, <2>2, <3>1, SaveKeeps
    <3>3. x.st = "busy" /\ x.todo # <<>> /\ c.c = "save" /\ c \in S
      BY <3>1, SaveIs
    <3>4. vault.body[p] # Nil \/ Dropped(p) \/ WritesBody(S, p)
      BY <3>2, <3>3 DEF ProfileInv, ProfileFits
    <3>5. req'[r].st = "busy"
      <4>1. row' # row
        BY <1>2, <2>2
      <4>. QED  BY <4>1, CalledReq DEF Goes1
    <3>6. ~WritesBody(S, p)
      <4>. SUFFICES ASSUME NEW d \in S, d.c = "body" PROVE FALSE
        BY DEF WritesBody
      <4>1. Rank(x.op.op, d) = 0 /\ Rank(x.op.op, c) \in {1, 2} /\ d # c
        BY <3>3 DEF Rank
      <4>. QED  BY <1>1, <3>3, <3>5, <4>1
    <3>. QED  BY <3>4, <3>6, BodyStays
  <2>. QED  BY <2>1, <2>2
<1>3. ASSUME NEW e \in vault'.index PROVE Kept(e[1])'
  <2>1. CASE WritesIndex(r)
    <3>1. /\ x.st = "busy" /\ x.todo # <<>> /\ c.c = "index" /\ c \in S /\ Typed(c)
          /\ vault'.index = c.profiles
      BY <2>1, CallTyped DEF WritesIndex, Next1, Call, WiringInv, Vault
    <3>2. e[1] \in Profile
      BY <1>3, <3>1 DEF Typed
    <3>3. Kept(e[1]) \/ Brings(S, e[1])
      BY <1>3, <3>1 DEF ProfileInv, ProfileFits
    <3>4. req'[r].st = "busy"
      BY <2>1, CalledReq, <3>1 DEF Stops, Goes1, WritesIndex, Returns, WiringInv, ReqOK, ReqField
    <3>5. ~Brings(S, e[1])
      <4>. SUFFICES ASSUME NEW d \in S, d.c = "save" PROVE FALSE
        BY DEF Brings
      <4>1. Rank(x.op.op, d) \in {1, 2} /\ Rank(x.op.op, c) = 3 /\ d # c
        BY <3>1 DEF Rank
      <4>. QED  BY <1>1, <3>1, <3>4, <4>1
    <3>. QED  BY <3>2, <3>3, <3>5, KeptStays
  <2>2. CASE ~WritesIndex(r)
    <3>1. vault'.index = vault.index
      BY <2>2 DEF Called, TearsDown, Seeds, SetsVariables, ReadsRoot, Commits, CommitsChart,
                  ReadsSecret, MergesSecret, TouchesBody, Saves, Throws1, Rejects, Answers,
                  WiringInv, Vault
    <3>2. Kept(e[1]) /\ e[1] \in Profile
      BY <1>3, <3>1 DEF ProfileInv, WiringInv, Vault
    <3>. QED  BY <3>2, KeptStays
  <2>. QED  BY <2>1, <2>2
<1>4. ASSUME NEW q \in Req, req'[q].st = "busy" PROVE ProfileFits(req[q])'
  BY <1>4, FitsStay
<1>5. ASSUME NEW q \in Req, req[q].op.op = "upload", NEW p \in Profile, p = req[q].op.profile
      PROVE  /\ req'[q].st = "done" => Kept(p)'
             /\ req'[q].st = "busy" => \/ Kept(p)'
                                       \/ Brings(Range(req'[q].todo), p)
                                       \/ \E d \in Range(req'[q].todo) : d.c = "reject"
  <2>1. /\ req[q].st = "done" => Kept(p)
        /\ req[q].st = "busy" => \/ Kept(p) \/ Brings(Range(req[q].todo), p)
                                 \/ \E d \in Range(req[q].todo) : d.c = "reject"
    BY <1>5 DEF ProfileInv, OpsOf
  <2>2. ASSUME req'[q].st = "busy"
        PROVE  \/ Kept(p)' \/ Brings(Range(req'[q].todo), p)
               \/ \E d \in Range(req'[q].todo) : d.c = "reject"
    <3>1. \/ Kept(p) \/ Brings(Range(req[q].todo), p)
          \/ \E d \in Range(req[q].todo) : d.c = "reject"
      BY <2>1, <2>2, CalledStays
    <3>2. ASSUME NEW d \in Range(req[q].todo), d.c = "reject"
          PROVE  d \in Range(req'[q].todo)
      BY <2>2, <3>2, CalledStays, CalledReq
    <3>3. Kept(p) => Kept(p)'
      BY <1>5, KeptStays
    <3>4. Brings(Range(req[q].todo), p) => Brings(Range(req'[q].todo), p) \/ Kept(p)'
      BY <1>5, <2>2, BringsStays
    <3>. QED  BY <3>1, <3>2, <3>3, <3>4
  <2>3. ASSUME req'[q].st = "done" PROVE Kept(p)'
    <3>1. CASE req[q].st = "done"
      BY <1>5, <2>1, <3>1, KeptStays
    <3>2. CASE req[q].st # "done"
      <4>1. q = r /\ req[q].st = "busy" /\ req[q].todo = <<>>
        BY <2>3, <3>2, CalledReq DEF Stops, Goes1
      <4>2. Range(req[q].todo) = {}
        BY <4>1 DEF Range
      <4>3. Kept(p)
        BY <2>1, <4>1, <4>2 DEF Brings
      <4>. QED  BY <1>5, <4>3, KeptStays
    <3>. QED  BY <3>1, <3>2
  <2>. QED  BY <2>2, <2>3
<1>6. ASSUME NEW q \in OpsOf({"upload"})'
      PROVE  /\ req'[q].st = "done" => Kept(req[q].op.profile)'
             /\ req'[q].st = "busy" => \/ Kept(req[q].op.profile)'
                                       \/ Brings(Range(req[q].todo), req[q].op.profile)'
                                       \/ (\E d \in Range(req[q].todo) : d.c = "reject")'
  <2>1. q \in Req /\ req'[q].op = req[q].op /\ req[q].op.op = "upload"
    BY <1>6, CalledStays DEF OpsOf
  <2>2. req[q].op.profile \in Profile
    <3>1. req[q].op \in Ops
      BY <2>1 DEF WiringInv, ReqOK
    <3>. QED  BY <2>1, <3>1, OpTyped
  <2>. QED  BY <1>5, <2>1, <2>2 DEF Kept, Dropped, OpsOf, Brings
<1>. QED  BY <1>2, <1>3, <1>4, <1>6 DEF ProfileInv

LEMMA ProfileStarted ==
    ASSUME WiringInv, ProfileInv, NEW r \in Req, NEW o \in Ops, StartStep(r, o)
    PROVE  ProfileInv'
<1>1. PICK plan : Begins(r, o, plan) /\ Planned(o, row, plan)
  BY DEF StartStep
<1>2. row' = row /\ vault' = vault
  BY <1>1 DEF Begins
<1>. DEFINE S == Range(plan)
<1>3. /\ \A q \in Req \ {r} : req'[q] = req[q]
      /\ req[r].st = "idle" /\ req'[r].st = "busy"
      /\ req'[r].op = o /\ req'[r].doc = row /\ req'[r].todo = plan
      /\ BodiesFit(o, row, S)
  BY <1>1, BeginsOK DEF WiringInv, PlanFits
<1>4. \A p : Dropped(p) => Dropped(p)'
  <2>1. req[r].op.op = "none"
    BY <1>3 DEF WiringInv, ReqOK
  <2>2. \A q \in OpsOf({"drop"}) : q \in OpsOf({"drop"})' /\ req'[q] = req[q]
    BY <1>3, <2>1 DEF OpsOf
  <2>. QED  BY <2>2 DEF Dropped
<1>5. \A p : Kept(p) => Kept(p)'
  BY <1>2, <1>4 DEF Kept
<1>. HIDE DEF S
<1>6. ASSUME NEW p \in Profile, row'.profiles[p] # Nil PROVE vault'.body[p] # Nil \/ Dropped(p)'
  BY <1>2, <1>4, <1>6 DEF ProfileInv
<1>7. ASSUME NEW e \in vault'.index PROVE Kept(e[1])'
  <2>1. Kept(e[1])
    BY <1>2, <1>7 DEF ProfileInv
  <2>. QED  BY <1>2, <1>4, <2>1 DEF Kept, Dropped, OpsOf
<1>8. ASSUME NEW q \in Req, req'[q].st = "busy" PROVE ProfileFits(req[q])'
  <2>1. CASE q # r
    <3>1. req'[q] = req[q] /\ ProfileFits(req[q])
      BY <1>3, <1>8, <2>1 DEF ProfileInv
    <3>2. VersionFits(req[q].doc)'
      BY <1>2, <1>5, <3>1 DEF ProfileFits, VersionFits
    <3>3. ASSUME NEW c \in Range(req[q].todo), c.c = "index", NEW e \in c.profiles
          PROVE  Kept(e[1])' \/ Brings(Range(req[q].todo), e[1])
      <4>1. Kept(e[1]) \/ Brings(Range(req[q].todo), e[1])
        BY <3>1, <3>3 DEF ProfileFits
      <4>. QED  BY <1>2, <1>4, <4>1 DEF Kept, Dropped, OpsOf
    <3>. QED  BY <1>2, <1>4, <3>1, <3>2, <3>3 DEF ProfileFits
  <2>2. CASE q = r
    <3>1. VersionFits(req[q].doc)'
      <4>1. row.ver \in Nat
        BY DEF WiringInv, Doc
      <4>. QED  BY <1>2, <1>3, <2>2, <4>1 DEF VersionFits, Kept
    <3>2. ASSUME NEW c \in S, c.c = "save", NEW p \in Profile, c.new.profiles[p] # Nil
          PROVE  vault'.body[p] # Nil \/ Dropped(p)' \/ WritesBody(S, p)
      <4>1. row.profiles[p] # Nil \/ WritesBody(S, p)
        BY <1>3, <3>2 DEF BodiesFit
      <4>. QED  BY <1>2, <1>6, <4>1
    <3>3. ASSUME NEW c \in S, c.c = "index", NEW e \in c.profiles PROVE Brings(S, e[1])
      BY <1>3, <3>3 DEF BodiesFit
    <3>4. \A c \in S : c.c = "drop-body" => o.op = "drop" /\ c.p = o.profile
      BY <1>3 DEF BodiesFit
    <3>. QED  BY <1>3, <2>2, <3>1, <3>2, <3>3, <3>4 DEF ProfileFits, S
  <2>. QED  BY <2>1, <2>2
<1>9. ASSUME NEW q \in OpsOf({"upload"})'
      PROVE  /\ req'[q].st = "done" => Kept(req[q].op.profile)'
             /\ req'[q].st = "busy" => \/ Kept(req[q].op.profile)'
                                       \/ Brings(Range(req[q].todo), req[q].op.profile)'
                                       \/ (\E d \in Range(req[q].todo) : d.c = "reject")'
  <2>1. CASE q = r
    <3>1. o.op = "upload"
      BY <1>3, <1>9, <2>1 DEF OpsOf
    <3>2. RejectOf \in S \/ Brings(S, o.profile)
      BY <1>3, <3>1 DEF BodiesFit
    <3>3. RejectOf.c = "reject"
      BY DEF RejectOf
    <3>. QED  BY <1>3, <2>1, <3>2, <3>3 DEF Brings, S
  <2>2. CASE q # r
    <3>1. req'[q] = req[q] /\ q \in OpsOf({"upload"})
      BY <1>3, <1>9, <2>2 DEF OpsOf
    <3>2. /\ req[q].st = "done" => Kept(req[q].op.profile)
          /\ req[q].st = "busy" => \/ Kept(req[q].op.profile)
                                   \/ Brings(Range(req[q].todo), req[q].op.profile)
                                   \/ \E d \in Range(req[q].todo) : d.c = "reject"
      BY <3>1 DEF ProfileInv
    <3>. QED  BY <1>2, <1>4, <3>1, <3>2 DEF Kept, Dropped, OpsOf, Brings
  <2>. QED  BY <2>1, <2>2
<1>. QED  BY <1>6, <1>7, <1>8, <1>9 DEF ProfileInv

LEMMA ProfileStep == WiringInv /\ ProfileInv /\ [WiringNext]_project => ProfileInv'
<1>. SUFFICES ASSUME WiringInv, ProfileInv, [WiringNext]_project PROVE ProfileInv'
  OBVIOUS
<1>1. CASE \E r \in Req, o \in Ops : StartStep(r, o)
  BY <1>1, ProfileStarted
<1>2. CASE \E r \in Req : Called(r)
  BY <1>2, ProfileCalled
<1>3. CASE \/ \E k \in Key, a \in App, b \in Branch : PipelineDeploys(k, a, b)
           \/ UNCHANGED project
  <2>1. row' = row /\ vault' = vault /\ req' = req
    BY <1>3 DEF PipelineDeploys, project
  <2>. QED  BY <2>1 DEF ProfileInv, ProfileFits, VersionFits, Kept, Dropped, OpsOf
<1>. QED  BY <1>1, <1>2, <1>3, NextIs

LEMMA ProfileInit == WiringInit => ProfileInv
<1>. SUFFICES ASSUME WiringInit PROVE ProfileInv
  OBVIOUS
<1>1. WiringInv
  BY InitOK
<1>2. PICK in \in Creations :
         row = NewDoc(in) /\ vault = NewVault(NewDoc(in)) /\ req = [r \in Req |-> Idle]
  BY DEF WiringInit
<1>3. row.profiles \in [Profile -> StoredProfile \cup {Nil}]
  BY <1>1 DEF WiringInv, Doc
<1>4. vault.body = [p \in Profile |-> IF row.profiles[p] = Nil THEN Nil ELSE row.profiles[p].names]
      /\ vault.index = IndexOf(row.profiles)
  BY <1>2 DEF NewVault
<1>5. ASSUME NEW p \in Profile, row.profiles[p] # Nil PROVE vault.body[p] # Nil
  <2>1. row.profiles[p].names \in SUBSET RtKey
    BY <1>3, <1>5 DEF StoredProfile
  <2>. QED  BY <1>4, <1>5, <2>1, NilAssumption
<1>6. ASSUME NEW e \in vault.index PROVE Kept(e[1])
  BY <1>4, <1>6 DEF IndexOf, Kept
<1>7. \A r \in Req : req[r].st = "idle"
  BY <1>2, IdleOK
<1>. QED  BY <1>5, <1>6, <1>7 DEF ProfileInv, OpsOf

(* Whatever the requests, a listed or stored profile has its body, a plan   *)
(* that writes the array was made from it or will be refused by its         *)
(* version, and an upload is stored once it was answered.                   *)
THEOREM ProfileInvariant == WiringSpec => []ProfileInv
<1>1. WiringInit => WiringInv /\ ProfileInv
  BY InitOK, ProfileInit
<1>2. WiringInv /\ ProfileInv /\ [WiringNext]_project => WiringInv' /\ ProfileInv'
  BY WiringStep, ProfileStep
<1>. QED  BY <1>1, <1>2, PTL DEF WiringSpec

(* The pipeline finds what ci/index names: a listed profile that no request *)
(* is deleting is in the document and has its body in OpenBao.              *)
THEOREM IndexIsReadable == WiringSpec => []IndexedIsReadable
<1>1. WiringInv /\ ProfileInv => IndexedIsReadable
  <2>. SUFFICES ASSUME WiringInv, ProfileInv, NEW e \in vault.index
                PROVE  \/ e[1] \in ProfilesOf(row) /\ vault.body[e[1]] # Nil
                       \/ \E r \in OpsOf({"drop"}) : req[r].op.profile = e[1]
    BY DEF IndexedIsReadable
  <2>1. e[1] \in Profile
    BY DEF WiringInv, Vault
  <2>2. Kept(e[1])
    BY DEF ProfileInv
  <2>3. row.profiles[e[1]] # Nil => vault.body[e[1]] # Nil \/ Dropped(e[1])
    BY <2>1 DEF ProfileInv
  <2>. QED  BY <2>1, <2>2, <2>3 DEF Kept, Dropped, ProfilesOf
<1>. QED  BY <1>1, WiringInvariant, ProfileInvariant, PTL

LEMMA ApartStep == WiringInv /\ ApartInv /\ [WiringNext]_project => ApartInv'
<1>. SUFFICES ASSUME WiringInv, ApartInv, [WiringNext]_project, (OpsOf({"content", "metadata"}) = {})'
              PROVE  /\ Apart(row'.profiles)
                     /\ \A r \in Req : \A c \in Range(req'[r].todo) :
                           c.c = "save" => Apart(c.new.profiles)
  BY DEF ApartInv
<1>1. \A q \in Req : req'[q].op.op \notin {"content", "metadata"}
  BY DEF OpsOf
<1>2. ASSUME \A q \in Req : req[q].op.op \notin {"content", "metadata"}
      PROVE  /\ Apart(row.profiles)
             /\ \A r \in Req : \A c \in Range(req[r].todo) : c.c = "save" => Apart(c.new.profiles)
  <2>1. OpsOf({"content", "metadata"}) = {}
    BY <1>2 DEF OpsOf
  <2>. QED  BY <2>1 DEF ApartInv
<1>3. ASSUME NEW r \in Req, NEW o \in Ops, StartStep(r, o)
      PROVE  /\ Apart(row'.profiles)
             /\ \A q \in Req : \A c \in Range(req'[q].todo) : c.c = "save" => Apart(c.new.profiles)
  <2>1. PICK plan : Begins(r, o, plan) /\ Planned(o, row, plan)
    BY <1>3 DEF StartStep
  <2>2. row' = row
    BY <2>1 DEF Begins
  <2>3. /\ \A q \in Req \ {r} : req'[q] = req[q]
        /\ req[r].st = "idle" /\ req'[r].op = o /\ req'[r].todo = plan
        /\ ApartFit(o, row, Range(plan))
    BY <2>1, BeginsOK DEF WiringInv, PlanFits
  <2>4. req[r].op.op = "none"
    BY <2>3 DEF WiringInv, ReqOK
  <2>5. \A q \in Req : req[q].op.op \notin {"content", "metadata"}
    BY <1>1, <2>3, <2>4
  <2>6. \A c \in Range(plan) : c.c = "save" => Apart(c.new.profiles)
    BY <1>1, <1>2, <2>3, <2>5 DEF ApartFit
  <2>7. \A q \in Req \ {r} : Range(req'[q].todo) = Range(req[q].todo)
    BY <2>3
  <2>8. Range(req'[r].todo) = Range(plan)
    BY <2>3
  <2>. QED  BY <1>2, <2>2, <2>5, <2>6, <2>7, <2>8
<1>4. ASSUME NEW r \in Req, Called(r)
      PROVE  /\ Apart(row'.profiles)
             /\ \A q \in Req : \A c \in Range(req'[q].todo) : c.c = "save" => Apart(c.new.profiles)
  <2>1. \A q \in Req : req[q].op.op \notin {"content", "metadata"}
    BY <1>1, <1>4, CalledStays
  <2>2. \A q \in Req : Range(req'[q].todo) \subseteq Range(req[q].todo)
    <3>. SUFFICES ASSUME NEW q \in Req PROVE Range(req'[q].todo) \subseteq Range(req[q].todo)
      OBVIOUS
    <3>1. CASE req'[q].st = "busy"
      BY <1>4, <3>1, CalledStays
    <3>2. CASE req'[q].st # "busy"
      <4>1. req'[q].todo = <<>>
        BY <1>4, <3>2, CalledReq DEF WiringInv, ReqOK
      <4>. QED  BY <4>1 DEF Range
    <3>. QED  BY <3>1, <3>2
  <2>3. Apart(row'.profiles)
    <3>1. CASE Saves(r)
      <4>1. /\ SaveFits(req[r].op, req[r].doc, Call(r)) /\ Call(r).c = "save"
            /\ Call(r) \in Range(req[r].todo)
            /\ row'.profiles = (IF Call(r).at # Nil
                                THEN [row.profiles EXCEPT ![Call(r).at] = Call(r).new.profiles[Call(r).at]]
                                ELSE IF Call(r).new.profiles # req[r].doc.profiles
                                THEN Call(r).new.profiles ELSE row.profiles)
        BY <3>1, SaveIs
      <4>2. Call(r).at = Nil
        BY <2>1, <4>1 DEF SaveFits
      <4>3. row'.profiles = Call(r).new.profiles \/ row'.profiles = row.profiles
        BY <4>1, <4>2
      <4>. QED  BY <1>2, <2>1, <4>1, <4>3
    <3>2. CASE ~Saves(r)
      BY <1>2, <1>4, <2>1, <3>2, CalledReq
    <3>. QED  BY <3>1, <3>2
  <2>. QED  BY <1>2, <2>1, <2>2, <2>3
<1>5. CASE \/ \E k \in Key, a \in App, b \in Branch : PipelineDeploys(k, a, b)
           \/ UNCHANGED project
  <2>1. row' = row /\ req' = req
    BY <1>5 DEF PipelineDeploys, project
  <2>. QED  BY <1>1, <1>2, <2>1
<1>. QED  BY <1>3, <1>4, <1>5, NextIs

LEMMA ApartInit == WiringInit => ApartInv
<1>. SUFFICES ASSUME WiringInit PROVE ApartInv
  OBVIOUS
<1>1. PICK in \in Creations : row = NewDoc(in) /\ req = [r \in Req |-> Idle]
  BY DEF WiringInit
<1>2. Apart(row.profiles)
  BY <1>1, NewDocTyped
<1>3. \A r \in Req : Range(req[r].todo) = {}
  BY <1>1, IdleOK DEF Range
<1>. QED  BY <1>2, <1>3 DEF ApartInv

(* An upload that was answered is stored until someone deletes it, and      *)
(* profiles that were never edited do not overlap, although each upload     *)
(* checks the rule on the document it loaded and then saves the whole       *)
(* array it made from it.                                                   *)
THEOREM UploadsStayApart == WiringSpec => []UploadsStoredApart
<1>1. WiringInv /\ ProfileInv /\ ApartInv => UploadsStoredApart
  <2>. SUFFICES ASSUME WiringInv, ProfileInv, ApartInv PROVE UploadsStoredApart
    OBVIOUS
  <2>1. ASSUME NEW r \in OpsOf({"upload"}), req[r].st = "done"
        PROVE  \/ req[r].op.profile \in ProfilesOf(row)
               \/ \E q \in OpsOf({"drop"}) : req[q].op.profile = req[r].op.profile
    <3>1. r \in Req /\ req[r].op.op = "upload" /\ req[r].op \in Ops
      BY <2>1 DEF OpsOf, WiringInv, ReqOK
    <3>2. req[r].op.profile \in Profile
      BY <3>1, OpTyped
    <3>3. Kept(req[r].op.profile)
      BY <2>1 DEF ProfileInv
    <3>. QED  BY <3>2, <3>3 DEF Kept, Dropped, ProfilesOf
  <2>2. OpsOf({"content", "metadata"}) = {} =>
           \A p, q \in ProfilesOf(row) : p # q => ~Overlaps(row.profiles[p], row.profiles[q])
    BY DEF ApartInv, Apart, ProfilesOf
  <2>. QED  BY <2>1, <2>2 DEF UploadsStoredApart
<1>2. WiringInit => WiringInv /\ ApartInv
  BY InitOK, ApartInit
<1>3. WiringInv /\ ApartInv /\ [WiringNext]_project => WiringInv' /\ ApartInv'
  BY WiringStep, ApartStep
<1>. QED  BY <1>1, <1>2, <1>3, ProfileInvariant, PTL DEF WiringSpec


-----------------------------------------------------------------------------
(***************************************************************************)
(* The requests that succeed follow one another.  __v refuses a save made  *)
(* from an old document, so of two requests that both change an array one  *)
(* fails; what is left behind is then the work of one request after the    *)
(* other, each of which began where the one before it had saved.           *)
(***************************************************************************)
Targeted == {"upsert", "remove", "migrate"}
Profiled == {"upload", "drop"}
Edits == {"upload", "content", "metadata", "drop"}

(* A call that changes an array of document d, and the one that refuses.    *)
Alters(d, c) ==
    c.c = "save" /\ (c.new.targets # d.targets \/ c.new.profiles # d.profiles)
Rejecting(S) == \E c \in S : c.c = "reject"

Brought(k, ps) == {Seed} \cup NamesIn(ps, k)

(* What call e does for a request that loaded d and will save new.          *)
CallAims(o, d, new, e) ==
    /\ e.c = "save" => e.new.targets = new.targets /\ e.new.profiles = new.profiles
    /\ e.c = "publish" => e.t = new.targets[e.k]
    /\ e.c = "unscope" => e.a \notin AppsOf(new.targets[e.k])
    /\ e.c = "no-ref" => new.targets[e.k] = Nil
    /\ e.c = "commit" => e.ts = new.targets
    /\ e.c = "merge" /\ o.op \in Profiled =>
          /\ ~e.body
          /\ ((Brought(e.k, d.profiles) \cup Brought(e.k, new.profiles)) \ e.minus) \cup e.plus
                \subseteq Brought(e.k, new.profiles)

(* Which calls a request may make.                                          *)
CallFits(o, d, e) ==
    /\ e.c \in {"publish", "unscope", "no-ref", "commit"} => o.op \in Targeted
    /\ e.c = "app-host" => o.op = "hostname"
    /\ e.c = "root" => o.op = "migrate"
    /\ e.c = "merge" => o.op \in Edits
    /\ e.c = "save" => /\ o.op \notin Targeted \cup {"hostname"} => e.new.targets = d.targets
                       /\ o.op \notin Edits => e.new.profiles = d.profiles

WorkFit(o, d, S) ==
    /\ \A s \in S : s.c = "save" => \A e \in S : CallAims(o, d, s.new, e)
    /\ \A e \in S : CallFits(o, d, e)
    /\ Rejecting(S) => \A e \in S : e.c # "save" /\ (o.op \in Targeted => e.c = "reject")

(* A request that has saved an array has only refreshing left to do; one    *)
(* that edits profiles saves an array unless it is refused.                 *)
WorkFits(x) ==
    /\ WorkFit(x.op, x.doc, Range(x.todo))
    /\ x.wrote => \A c \in Range(x.todo) :
                     Rank(x.op.op, c) > 0 /\ c.c # "reject" /\ ~Alters(x.doc, c)
    /\ ~x.wrote /\ x.op.op \in Profiled =>
          Rejecting(Range(x.todo)) \/ \E c \in Range(x.todo) : Alters(x.doc, c)

(* An upload's id is new to every document until the upload begins.         *)
Unused(p) == \A q \in Req : req[q].op.op = "upload" => req[q].op.profile # p
WorkInv ==
    /\ \A r \in Req : req[r].st = "busy" => WorkFits(req[r])
    /\ \A r \in OpsOf(Profiled) : req[r].st = "done" => req[r].wrote
    /\ \A o \in Ops : o.op = "upload" /\ Unused(o.profile) =>
          /\ row.profiles[o.profile] = Nil
          /\ \A r \in Req : req[r].st = "busy" => req[r].doc.profiles[o.profile] = Nil

(* A request is void when it is refused; it is lost when it ended without a *)
(* save of an array, or has none left that MongoDB would take at version v. *)
Void(x) == x.st = "rejected" \/ (x.st = "busy" /\ Rejecting(Range(x.todo)))
Wins(v, x) == x.doc.ver = v /\ \E c \in Range(x.todo) : Alters(x.doc, c)
Lost(v, x) == ~x.wrote /\ (x.st \in {"done", "failed"} \/ (x.st = "busy" /\ ~Wins(v, x)))
Active(x) == x.st = "busy" /\ ~x.wrote /\ ~Void(x)
Course(v, rs, kinds) ==
    /\ \A r \in Req : rs[r].op.op \in kinds => Void(rs[r]) \/ ~Lost(v, rs[r])
    /\ \A r, q \in Req : /\ rs[r].op.op \in kinds /\ Active(rs[r])
                         /\ rs[q].op.op \in kinds /\ Active(rs[q])
                         => r = q

(* GitLab g has what targets ts say, or S has a call that still sees to it; *)
(* M are the migrations, U the targets that upserts saved.                  *)
Follows(g, M, k, ts, S) ==
    /\ ts[k] # Nil /\ (ts[k].on \/ M = {}) =>
          \/ \E c \in S : c.c = "publish" /\ c.k = k
          \/ /\ g.ref[k] = ts[k].ref
             /\ \A a \in AppsOf(ts[k]) : g.host[k][a] = ts[k].host[a]
    /\ ts[k] = Nil => \/ \E c \in S : c.c = "no-ref" /\ c.k = k
                      \/ g.ref[k] \in {NoRef, Nil}
    /\ \A a \in App \ AppsOf(ts[k]) : \/ g.host[k][a] = Nil
                                      \/ \E c \in S : c.c = "unscope" /\ c.k = k /\ c.a = a
Included2(g, b) == "deploy-targets" \in g.root[b].includes \/ UserRoots[b].shape = "garbage"
JobsFit(g, U, k, t) ==
    /\ \A a \in App : <<k, a>> \in g.jobs[t.ref].deploy => Generates(t) /\ a \in AppsOf(t)
    /\ k \in U /\ Generates(t) =>
          /\ \A a \in AppsOf(t) : <<k, a>> \in g.jobs[t.ref].deploy
          /\ Included2(g, t.ref)
JobsFollow(g, U, k, ts, S) ==
    ts[k] # Nil /\ ts[k].ref # NoRef =>
       (\E c \in S : c.c = "commit" /\ c.b = ts[k].ref) \/ JobsFit(g, U, k, ts[k])
Wiring(g, M, U, ts, S) ==
    \A k \in Key : Follows(g, M, k, ts, S) /\ (M = {} => JobsFollow(g, U, k, ts, S))

Migrations == OpsOf({"migrate"})
Upserted == {k \in Key : \E q \in OpsOf({"upsert"}) : ~Void(req[q]) /\ req[q].op.key = k}
FollowInv ==
    OpsOf({"hostname"}) = {} /\ Course(row.ver, req, Targeted) =>
       /\ (\A r \in OpsOf(Targeted) : ~Active(req[r])) =>
             Wiring(gitlab, Migrations, Upserted, row.targets, {})
       /\ \A r \in OpsOf(Targeted) : Active(req[r]) =>
             \A c \in Range(req[r].todo) : c.c = "save" =>
                Wiring(gitlab, Migrations, Upserted, c.new.targets, Range(req[r].todo))

(* A target's secret has no key but those of profiles ps, and of the loaded *)
(* ones where S still has a merge to make; nor has what was read of it.     *)
Secrets(v, old, ps, S) ==
    \A k \in Key : \/ v.target[k] \subseteq Brought(k, ps)
                   \/ /\ \E c \in S : c.c = "merge" /\ c.k = k
                      /\ v.target[k] \subseteq Brought(k, ps) \cup Brought(k, old)
MergeReady(x, ps) ==
    x.todo # <<>> /\ x.todo[1].c = "merge" =>
       x.mem.secret \subseteq Brought(x.todo[1].k, ps) \cup Brought(x.todo[1].k, x.doc.profiles)
SecretInv ==
    /\ OpsOf({"content", "metadata"}) = {}
    /\ Course(row.ver, req, Profiled)
    /\ (\A r \in OpsOf(Profiled) : ~Void(req[r]))
    =>
       /\ (\A r \in OpsOf(Profiled) : ~Active(req[r])) =>
             Secrets(vault, row.profiles, row.profiles, {})
       /\ \A r \in OpsOf(Profiled) : Active(req[r]) =>
             \A c \in Range(req[r].todo) : c.c = "save" =>
                /\ Secrets(vault, req[r].doc.profiles, c.new.profiles, Range(req[r].todo))
                /\ MergeReady(req[r], c.new.profiles)


-----------------------------------------------------------------------------
(***************************************************************************)
(* What each plan promises of its calls.                                   *)
(***************************************************************************)
(* What changes between the targets ds and ts, S has a call for.            *)
TargetMoves(o, ds, ts, S) ==
    \A k \in Key :
       /\ ts[k] # Nil /\ (ts[k].on \/ o.op # "migrate") =>
             ts[k] = ds[k] \/ \E c \in S : c.c = "publish" /\ c.k = k
       /\ ts[k] = Nil => ds[k] = Nil \/ \E c \in S : c.c = "no-ref" /\ c.k = k
       /\ \A a \in App \ AppsOf(ts[k]) :
             a \notin AppsOf(ds[k]) \/ \E c \in S : c.c = "unscope" /\ c.k = k /\ c.a = a
       /\ ts[k] # Nil /\ ts[k].ref # NoRef /\ o.op # "migrate" =>
             \/ ts[k] = ds[k] /\ (o.op = "upsert" => o.key # k)
             \/ \E c \in S : c.c = "commit" /\ c.b = ts[k].ref
ProfileMoves(old, ps, S) ==
    \A k \in Key : Brought(k, old) \subseteq Brought(k, ps) \/ \E c \in S : c.c = "merge" /\ c.k = k
PlanWork(o, d, S) ==
    /\ WorkFit(o, d, S)
    /\ o.op \in Profiled => Rejecting(S) \/ \E c \in S : Alters(d, c)
    /\ \A c \in S : c.c = "save" =>
          /\ o.op \in Targeted => TargetMoves(o, d.targets, c.new.targets, S)
          /\ o.op \in Profiled => ProfileMoves(d.profiles, c.new.profiles, S)

LEMMA RejectWork == ASSUME NEW o, NEW d PROVE PlanWork(o, d, {RejectOf})
<1>1. \A c \in {RejectOf} : c.c = "reject"
  BY DEF RejectOf
<1>2. WorkFit(o, d, {RejectOf})
  BY <1>1 DEF WorkFit, CallFits, Rejecting
<1>. QED  BY <1>1, <1>2 DEF PlanWork, Rejecting

LEMMA NothingWork ==
    ASSUME NEW o, NEW d, o.op \notin Profiled PROVE PlanWork(o, d, {})
BY DEF PlanWork, WorkFit, Rejecting

(* A plan that saves the targets ts.                                        *)
LEMMA TargetWork ==
    ASSUME NEW o, o.op \in Targeted, NEW d, NEW ts, NEW S,
           \A c \in S :
              /\ c.c \in {"teardown", "seed", "unscope", "publish", "no-ref", "read-root", "commit",
                          "root", "chart", "save"}
              /\ c.c = "save" => c.new.targets = ts /\ c.new.profiles = d.profiles
              /\ c.c = "publish" => c.t = ts[c.k]
              /\ c.c = "unscope" => c.a \notin AppsOf(ts[c.k])
              /\ c.c = "no-ref" => ts[c.k] = Nil
              /\ c.c = "commit" => c.ts = ts
              /\ c.c = "root" => o.op = "migrate",
           TargetMoves(o, d.targets, ts, S)
    PROVE  PlanWork(o, d, S)
<1>1. o.op \notin Profiled /\ ~Rejecting(S)
  BY DEF Targeted, Profiled, Rejecting
<1>2. \A e \in S : CallFits(o, d, e)
  BY DEF CallFits
<1>3. ASSUME NEW s \in S, s.c = "save", NEW e \in S PROVE CallAims(o, d, s.new, e)
  BY <1>1, <1>3 DEF CallAims
<1>4. \A c \in S : c.c = "save" => TargetMoves(o, d.targets, c.new.targets, S)
  OBVIOUS
<1>. HIDE DEF TargetMoves
<1>. QED  BY <1>1, <1>2, <1>3, <1>4 DEF PlanWork, WorkFit

(* The calls of each kind.                                                  *)
LEMMA PublishesWork ==
    ASSUME NEW ts
    PROVE  /\ \A c \in Publishes(ts) : c.c = "publish" /\ c.t = ts[c.k]
           /\ \A k \in KeysOf(ts) : \E c \in Publishes(ts) : c.c = "publish" /\ c.k = k
<1>1. \A k, t : PublishOf(k, t).c = "publish" /\ PublishOf(k, t).k = k /\ PublishOf(k, t).t = t
  BY DEF PublishOf
<1>2. ASSUME NEW c \in Publishes(ts) PROVE c.c = "publish" /\ c.t = ts[c.k]
  <2>1. PICK k \in KeysOf(ts) : c = PublishOf(k, ts[k])
    BY <1>2 DEF Publishes
  <2>. QED  BY <1>1, <2>1
<1>3. ASSUME NEW k \in KeysOf(ts) PROVE \E c \in Publishes(ts) : c.c = "publish" /\ c.k = k
  <2>1. PublishOf(k, ts[k]) \in Publishes(ts)
    BY <1>3 DEF Publishes
  <2>. QED  BY <1>1, <2>1
<1>. QED  BY <1>2, <1>3

LEMMA UnscopesWork ==
    ASSUME NEW k, NEW apps
    PROVE  /\ \A c \in Unscopes(k, apps) : c.c = "unscope" /\ c.k = k /\ c.a \in apps
           /\ \A a \in apps : \E c \in Unscopes(k, apps) : c.c = "unscope" /\ c.k = k /\ c.a = a
<1>1. \A a : /\ UnscopeOf(k, a).c = "unscope" /\ UnscopeOf(k, a).k = k /\ UnscopeOf(k, a).a = a
  BY DEF UnscopeOf
<1>2. \A c \in Unscopes(k, apps) : \E a \in apps : c = UnscopeOf(k, a)
  BY DEF Unscopes
<1>3. \A a \in apps : UnscopeOf(k, a) \in Unscopes(k, apps)
  BY DEF Unscopes
<1>. QED  BY <1>1, <1>2, <1>3

LEMMA SyncWork ==
    ASSUME NEW doc \in Doc, NEW b \in Branch
    PROVE  /\ \A c \in SyncSet(doc, b) :
                 /\ c.c \in {"seed", "publish", "read-root", "commit", "save"}
                 /\ c.c = "save" => c.new = doc
                 /\ c.c = "publish" => c.t = doc.targets[c.k]
                 /\ c.c = "commit" => c.ts = doc.targets
           /\ \A k \in KeysOf(doc.targets) : \E c \in SyncSet(doc, b) : c.c = "publish" /\ c.k = k
           /\ \E c \in SyncSet(doc, b) : c.c = "commit" /\ c.b = b
<1>. DEFINE S == SyncSet(doc, b)
            A == SeedCalls(doc.targets)
            B == Publishes(doc.targets)
            C == {ReadRootOf(b), CommitOf(b, doc.targets)}
            D == {SaveOf(doc, Nil)}
<1>1. S = A \cup B \cup C \cup D
  BY DEF SyncSet
<1>2. \A c \in A : c.c = "seed"
  BY DEF SeedCalls, SeedOf
<1>3. /\ \A c \in B : c.c = "publish" /\ c.t = doc.targets[c.k]
      /\ \A k \in KeysOf(doc.targets) : \E c \in B : c.c = "publish" /\ c.k = k
  BY PublishesWork
<1>4. /\ \A c \in C : c.c \in {"read-root", "commit"} /\ (c.c = "commit" => c.ts = doc.targets)
      /\ \E c \in C : c.c = "commit" /\ c.b = b
  BY DEF ReadRootOf, CommitOf
<1>5. \A c \in D : c.c = "save" /\ c.new = doc
  BY DEF SaveOf
<1>. HIDE DEF A, B, C, D, S
<1>6. \A c \in S : /\ c.c \in {"seed", "publish", "read-root", "commit", "save"}
                   /\ c.c = "save" => c.new = doc
                   /\ c.c = "publish" => c.t = doc.targets[c.k]
                   /\ c.c = "commit" => c.ts = doc.targets
  BY <1>1, <1>2, <1>3, <1>4, <1>5
<1>7. B \subseteq S /\ C \subseteq S
  BY <1>1
<1>. QED  BY <1>3, <1>4, <1>6, <1>7 DEF S

LEMMA UpsertWork ==
    ASSUME NEW doc \in Doc, NEW o \in UpsertDeploymentTargetInput
    PROVE  PlanWork(o, doc, UpsertSet(doc, o))
<1>1. CASE Refused(doc, o)
  BY <1>1, RejectWork DEF UpsertSet
<1>2. CASE ~Refused(doc, o)
  <2>. DEFINE new == UpsertNew(doc, o)
              next == UpsertDoc(doc, o)
              b == OwnBranch(new.ref)
              k == o.key
              S == UpsertSet(doc, o)
              A == IF ~o.on /\ o.teardown THEN Teardowns(k, AppsOf(new)) ELSE {}
              B == Unscopes(k, AppsOf(doc.targets[k]) \ AppsOf(new))
  <2>1. /\ o.op = "upsert" /\ k \in Key /\ o.on \in BOOLEAN /\ o.apps \in SUBSET App
        /\ o.ref \in Branch \cup {NoRef, Nil} /\ o.hosts \in [App -> Host \cup {Nil}]
    BY DEF UpsertDeploymentTargetInput, Optional, Ref, TargetAppInput
  <2>2. doc.targets \in [Key -> GoodTarget \cup {Nil}]
    BY DEF Doc
  <2>3. new.ref \in Branch \cup {NoRef}
    <3>1. SavedRef(o.key, o.on, o.ref, doc.targets[o.key]) \in Branch \cup {NoRef, Nil}
      BY <2>1, <2>2, SavedTyped
    <3>2. new.ref = SavedRef(o.key, o.on, o.ref, doc.targets[o.key])
      BY DEF UpsertNew
    <3>. QED  BY <1>2, <3>1, <3>2 DEF Refused, ValidRef
  <2>4. new \in Target /\ AppsOf(new) = o.apps
    BY <2>1, <2>3, HostsTyped DEF UpsertNew
  <2>5. new \in GoodTarget /\ new # Nil
    BY <1>2, <2>4, NilAssumption DEF GoodTarget, Refused
  <2>6. /\ next \in Doc /\ next.profiles = doc.profiles
        /\ next.targets = [doc.targets EXCEPT ![k] = new]
    BY <2>1, <2>2, <2>5 DEF UpsertDoc, Doc
  <2>7. b \in Branch /\ (new.ref # NoRef => b = new.ref)
    BY <2>3, RefAssumption DEF OwnBranch
  <2>8. next.targets[k] = new /\ \A j \in Key \ {k} : next.targets[j] = doc.targets[j]
    BY <2>1, <2>2, <2>6
  <2>9. S = A \cup {SeedOf(k)} \cup B \cup SyncSet(next, b) \cup {SaveOf(next, Nil)}
    BY <1>2 DEF UpsertSet
  <2>10. \A c \in A \cup {SeedOf(k)} : c.c \in {"teardown", "seed"}
    BY DEF Teardowns, TeardownOf, SeedOf
  <2>11. /\ \A c \in B : c.c = "unscope" /\ c.k = k /\ c.a \notin AppsOf(new)
         /\ \A a \in AppsOf(doc.targets[k]) \ AppsOf(new) :
               \E c \in B : c.c = "unscope" /\ c.k = k /\ c.a = a
    <3>. HIDE DEF k, new
    <3>. QED  BY UnscopesWork
  <2>12. SaveOf(next, Nil).c = "save" /\ SaveOf(next, Nil).new = next
    BY DEF SaveOf
  <2>. HIDE DEF S, A, B, next, new, b, k
  <2>13. \A c \in S :
            /\ c.c \in {"teardown", "seed", "unscope", "publish", "no-ref", "read-root", "commit",
                        "root", "chart", "save"}
            /\ c.c = "save" => c.new.targets = next.targets /\ c.new.profiles = doc.profiles
            /\ c.c = "publish" => c.t = next.targets[c.k]
            /\ c.c = "unscope" => c.a \notin AppsOf(next.targets[c.k])
            /\ c.c = "no-ref" => next.targets[c.k] = Nil
            /\ c.c = "commit" => c.ts = next.targets
            /\ c.c = "root" => o.op = "migrate"
    <3>1. \A c \in SyncSet(next, b) :
             /\ c.c \in {"seed", "publish", "read-root", "commit", "save"}
             /\ c.c = "save" => c.new = next
             /\ c.c = "publish" => c.t = next.targets[c.k]
             /\ c.c = "commit" => c.ts = next.targets
      BY <2>6, <2>7, SyncWork
    <3>2. \A c \in S : \/ c \in SyncSet(next, b) \/ c \in A \cup {SeedOf(k)} \/ c \in B
                        \/ c = SaveOf(next, Nil)
      BY <2>9
    <3>. QED  BY <2>6, <2>8, <2>10, <2>11, <2>12, <3>1, <3>2
  <2>14. /\ SyncSet(next, b) \subseteq S /\ B \subseteq S
    BY <2>9
  <2>15. TargetMoves(o, doc.targets, next.targets, S)
    <3>. SUFFICES ASSUME NEW j \in Key
                  PROVE  /\ next.targets[j] # Nil =>
                            next.targets[j] = doc.targets[j] \/ \E c \in S : c.c = "publish" /\ c.k = j
                         /\ next.targets[j] = Nil => doc.targets[j] = Nil
                         /\ \A a \in App \ AppsOf(next.targets[j]) :
                               \/ a \notin AppsOf(doc.targets[j])
                               \/ \E c \in S : c.c = "unscope" /\ c.k = j /\ c.a = a
                         /\ next.targets[j] # Nil /\ next.targets[j].ref # NoRef =>
                               \/ next.targets[j] = doc.targets[j] /\ k # j
                               \/ \E c \in S : c.c = "commit" /\ c.b = next.targets[j].ref
      BY DEF TargetMoves, k
    <3>1. CASE j # k
      BY <2>8, <3>1
    <3>2. CASE j = k
      <4>1. k \in KeysOf(next.targets)
        BY <2>1, <2>5, <2>8 DEF KeysOf
      <4>2. \E c \in S : c.c = "publish" /\ c.k = k
        BY <2>6, <2>7, <2>14, <4>1, SyncWork
      <4>3. new.ref # NoRef => \E c \in S : c.c = "commit" /\ c.b = new.ref
        BY <2>6, <2>7, <2>14, SyncWork
      <4>4. \A a \in App \ AppsOf(new) :
               \/ a \notin AppsOf(doc.targets[k])
               \/ \E c \in S : c.c = "unscope" /\ c.k = k /\ c.a = a
        BY <2>11, <2>14
      <4>. QED  BY <2>5, <2>8, <3>2, <4>2, <4>3, <4>4
    <3>. QED  BY <3>1, <3>2
  <2>16. o.op \in Targeted
    BY <2>1 DEF Targeted
  <2>17. PlanWork(o, doc, S)
    BY <2>6, <2>13, <2>15, <2>16, TargetWork
  <2>. QED  BY <2>17 DEF S
<1>. QED  BY <1>1, <1>2


LEMMA RemoveWork ==
    ASSUME NEW doc \in Doc, NEW o \in RemoveDeploymentTargetArgs
    PROVE  PlanWork(o, doc, RemoveSet(doc, o))
<1>. DEFINE old == doc.targets[o.key]
<1>1. CASE old = Nil
  BY <1>1, RejectWork DEF RemoveSet
<1>2. CASE old # Nil
  <2>. DEFINE next == RemoveDoc(doc, o)
              b == OwnBranch(old.ref)
              k == o.key
              S == RemoveSet(doc, o)
              A == IF o.teardown THEN Teardowns(k, AppsOf(old)) ELSE {}
              B == Unscopes(k, AppsOf(old))
              C == {ReadRootOf(b), CommitOf(b, next.targets)}
  <2>1. o.op = "remove" /\ k \in Key
    BY DEF RemoveDeploymentTargetArgs
  <2>2. doc.targets \in [Key -> GoodTarget \cup {Nil}]
    BY DEF Doc
  <2>3. /\ next \in Doc /\ next.profiles = doc.profiles
        /\ next.targets = [doc.targets EXCEPT ![k] = Nil]
    BY <2>1, <2>2 DEF RemoveDoc, Doc
  <2>4. next.targets[k] = Nil /\ \A j \in Key \ {k} : next.targets[j] = doc.targets[j]
    BY <2>1, <2>2, <2>3
  <2>5. S = A \cup B \cup {NoRefOf(k)} \cup C \cup {SaveOf(next, Nil)}
    BY <1>2 DEF RemoveSet
  <2>6. \A c \in A : c.c = "teardown"
    BY DEF Teardowns, TeardownOf
  <2>7. /\ \A c \in B : c.c = "unscope" /\ c.k = k
        /\ \A a \in AppsOf(old) : \E c \in B : c.c = "unscope" /\ c.k = k /\ c.a = a
    <3>. HIDE DEF k, old
    <3>. QED  BY UnscopesWork
  <2>8. NoRefOf(k).c = "no-ref" /\ NoRefOf(k).k = k
    BY DEF NoRefOf
  <2>9. \A c \in C : c.c \in {"read-root", "commit"} /\ (c.c = "commit" => c.ts = next.targets)
    BY DEF ReadRootOf, CommitOf
  <2>10. SaveOf(next, Nil).c = "save" /\ SaveOf(next, Nil).new = next
    BY DEF SaveOf
  <2>11. AppsOf(Nil) = {}
    BY DEF AppsOf
  <2>12. old = doc.targets[k]
    OBVIOUS
  <2>. HIDE DEF S, A, B, C, next, b, k, old
  <2>13. \A c \in S :
            /\ c.c \in {"teardown", "seed", "unscope", "publish", "no-ref", "read-root", "commit",
                        "root", "chart", "save"}
            /\ c.c = "save" => c.new.targets = next.targets /\ c.new.profiles = doc.profiles
            /\ c.c = "publish" => c.t = next.targets[c.k]
            /\ c.c = "unscope" => c.a \notin AppsOf(next.targets[c.k])
            /\ c.c = "no-ref" => next.targets[c.k] = Nil
            /\ c.c = "commit" => c.ts = next.targets
            /\ c.c = "root" => o.op = "migrate"
    <3>1. \A c \in S : c \in A \/ c \in B \/ c = NoRefOf(k) \/ c \in C \/ c = SaveOf(next, Nil)
      BY <2>5
    <3>. QED  BY <2>3, <2>4, <2>6, <2>7, <2>8, <2>9, <2>10, <2>11, <3>1
  <2>14. B \subseteq S /\ NoRefOf(k) \in S
    BY <2>5
  <2>15. TargetMoves(o, doc.targets, next.targets, S)
    <3>. SUFFICES ASSUME NEW j \in Key
                  PROVE  /\ next.targets[j] # Nil => next.targets[j] = doc.targets[j]
                         /\ next.targets[j] = Nil =>
                               doc.targets[j] = Nil \/ \E c \in S : c.c = "no-ref" /\ c.k = j
                         /\ \A a \in App \ AppsOf(next.targets[j]) :
                               \/ a \notin AppsOf(doc.targets[j])
                               \/ \E c \in S : c.c = "unscope" /\ c.k = j /\ c.a = a
      BY <2>1 DEF TargetMoves
    <3>1. CASE j # k
      BY <2>4, <3>1
    <3>2. CASE j = k
      <4>1. \E c \in S : c.c = "no-ref" /\ c.k = k
        BY <2>8, <2>14
      <4>2. \A a \in AppsOf(doc.targets[k]) : \E c \in S : c.c = "unscope" /\ c.k = k /\ c.a = a
        BY <2>7, <2>12, <2>14
      <4>. QED  BY <2>4, <3>2, <4>1, <4>2
    <3>. QED  BY <3>1, <3>2
  <2>16. o.op \in Targeted
    BY <2>1 DEF Targeted
  <2>17. PlanWork(o, doc, S)
    BY <2>13, <2>15, <2>16, TargetWork
  <2>. QED  BY <2>17 DEF S
<1>. QED  BY <1>1, <1>2

(* A migration keeps every target, and changes nothing but its ref.         *)
LEMMA OverriddenKeeps ==
    ASSUME NEW ts \in [Key -> GoodTarget \cup {Nil}], NEW opts \in DeployBranchOptionsInput,
           NEW k \in Key
    PROVE  /\ Overridden(ts, opts)[k] = Nil <=> ts[k] = Nil
           /\ AppsOf(Overridden(ts, opts)[k]) = AppsOf(ts[k])
<1>1. Overridden(ts, opts) \in [Key -> GoodTarget \cup {Nil}]
  BY OverriddenTyped
<1>2. Nil \notin GoodTarget
  BY NilAssumption DEF GoodTarget
<1>3. CASE ts[k] = Nil
  BY <1>3 DEF Overridden
<1>4. CASE ts[k] # Nil
  <2>. DEFINE u == [ts[k] EXCEPT !.ref = OverriddenRef(k, ts[k], opts)]
  <2>1. Overridden(ts, opts)[k] = u
    BY <1>4 DEF Overridden
  <2>2. ts[k] \in GoodTarget /\ ts[k] \in Target
    BY <1>4 DEF GoodTarget
  <2>3. u.host = ts[k].host
    BY <2>2 DEF Target
  <2>4. u # Nil
    <3>1. ts[k].ref \in Branch \cup {NoRef}
      BY <2>2 DEF Target
    <3>2. /\ opts.main \in Branch \cup {Nil}
          /\ k \in Standard => opts.refs[k] \in Branch \cup {Nil}
      BY DEF DeployBranchOptionsInput, DeployBranchRefsInput, Optional
    <3>3. OverriddenRef(k, ts[k], opts) \in Branch \cup {NoRef}
      BY <3>1, <3>2 DEF OverriddenRef
    <3>4. u \in GoodTarget
      BY <2>2, <3>3, Refers
    <3>. QED  BY <1>2, <3>4
  <2>. HIDE DEF u
  <2>. QED  BY <1>4, <2>1, <2>3, <2>4 DEF AppsOf
<1>. QED  BY <1>3, <1>4

LEMMA MigrateWork ==
    ASSUME NEW doc \in Doc, NEW o \in MigrateInput
    PROVE  PlanWork(o, doc, MigrateSet(doc, o))
<1>. DEFINE next == MigrateDoc(doc, o)
            flags == MigrateFlags(doc, o)
            b == PipelineRef(o.opts)
            S == MigrateSet(doc, o)
<1>1. CASE doc.pinned /\ ~o.unpin
  BY <1>1, RejectWork DEF MigrateSet
<1>2. CASE ~(doc.pinned /\ ~o.unpin) /\ ~doc.legacy
  BY <1>2, NothingWork DEF MigrateSet, MigrateInput, Profiled
<1>3. CASE ~(doc.pinned /\ ~o.unpin) /\ doc.legacy
  <2>1. o.op = "migrate" /\ o.opts \in DeployBranchOptionsInput /\ o.unpin \in BOOLEAN
    BY DEF MigrateInput
  <2>2. b \in Branch
    BY <2>1, RefAssumption DEF PipelineRef, DeployBranchOptionsInput, Optional
  <2>. DEFINE derived == [k \in Key |-> DeriveStandard(k, doc.app, doc.deployable)]
              first == IF KeysOf(doc.targets) = {} THEN derived ELSE doc.targets
  <2>3. doc.targets \in [Key -> GoodTarget \cup {Nil}] /\ derived \in [Key -> GoodTarget \cup {Nil}]
    BY DerivedTyped DEF Doc
  <2>4. /\ first \in [Key -> GoodTarget \cup {Nil}]
        /\ \A k \in Key : first[k] = doc.targets[k] \/ doc.targets[k] = Nil
    BY <2>3 DEF KeysOf
  <2>5. MigrateTargets(doc, o) = Overridden(first, o.opts)
    BY DEF MigrateTargets
  <2>6. MigrateTargets(doc, o) \in [Key -> GoodTarget \cup {Nil}]
    BY <2>1, <2>4, <2>5, OverriddenTyped
  <2>7. /\ next \in Doc /\ next.profiles = doc.profiles
        /\ next.targets = MigrateTargets(doc, o)
    BY <2>6 DEF MigrateDoc, Doc
  <2>8. flags.profiles = doc.profiles /\ flags.targets = next.targets
    BY <2>7 DEF MigrateFlags, Doc
  <2>. DEFINE A == {ChartOf(b, doc.runtime)}
              B == IF Deployable(next) THEN SyncSet(next, b)
                   ELSE {ReadRootOf(b), RootOf(b, next.targets)}
              C == {SaveOf(flags, Nil)}
  <2>9. S = A \cup B \cup C
    BY <1>3 DEF MigrateSet
  <2>10. /\ \A c \in A : c.c = "chart"
         /\ \A c \in C : c.c = "save" /\ c.new = flags
    BY DEF ChartOf, SaveOf
  <2>11. /\ \A c \in B : /\ c.c \in {"seed", "publish", "read-root", "commit", "root", "save"}
                         /\ c.c = "save" => c.new = next
                         /\ c.c = "publish" => c.t = next.targets[c.k]
                         /\ c.c = "commit" => c.ts = next.targets
         /\ \A k \in Key : next.targets[k] # Nil /\ next.targets[k].on =>
                              \E c \in B : c.c = "publish" /\ c.k = k
    <3>1. CASE Deployable(next)
      <4>. HIDE DEF next, b
      <4>1. B = SyncSet(next, b)
        BY <3>1
      <4>2. \A k \in Key : next.targets[k] # Nil => k \in KeysOf(next.targets)
        BY DEF KeysOf
      <4>. HIDE DEF B
      <4>. QED  BY <2>2, <2>7, <4>1, <4>2, SyncWork
    <3>2. CASE ~Deployable(next)
      <4>. HIDE DEF next, b
      <4>1. B = {ReadRootOf(b), RootOf(b, next.targets)}
        BY <3>2
      <4>2. ReadRootOf(b).c = "read-root" /\ RootOf(b, next.targets).c = "root"
        BY DEF ReadRootOf, RootOf
      <4>3. \A k \in Key : next.targets[k] # Nil => ~next.targets[k].on
        BY <3>2 DEF Deployable, KeysOf
      <4>. HIDE DEF B
      <4>. QED  BY <4>1, <4>2, <4>3
    <3>. QED  BY <3>1, <3>2
  <2>. HIDE DEF S, A, B, C, next, flags, b, derived, first
  <2>12. \A c \in S :
            /\ c.c \in {"teardown", "seed", "unscope", "publish", "no-ref", "read-root", "commit",
                        "root", "chart", "save"}
            /\ c.c = "save" => c.new.targets = next.targets /\ c.new.profiles = doc.profiles
            /\ c.c = "publish" => c.t = next.targets[c.k]
            /\ c.c = "unscope" => c.a \notin AppsOf(next.targets[c.k])
            /\ c.c = "no-ref" => next.targets[c.k] = Nil
            /\ c.c = "commit" => c.ts = next.targets
            /\ c.c = "root" => o.op = "migrate"
    BY <2>1, <2>7, <2>8, <2>9, <2>10, <2>11
  <2>13. TargetMoves(o, doc.targets, next.targets, S)
    <3>. SUFFICES ASSUME NEW k \in Key
                  PROVE  /\ next.targets[k] # Nil /\ next.targets[k].on =>
                            \E c \in S : c.c = "publish" /\ c.k = k
                         /\ next.targets[k] = Nil => doc.targets[k] = Nil
                         /\ AppsOf(doc.targets[k]) \subseteq AppsOf(next.targets[k])
      BY <2>1 DEF TargetMoves
    <3>1. /\ next.targets[k] = Nil <=> first[k] = Nil
          /\ AppsOf(next.targets[k]) = AppsOf(first[k])
      BY <2>1, <2>4, <2>5, <2>7, OverriddenKeeps
    <3>2. AppsOf(Nil) = {}
      BY DEF AppsOf
    <3>. QED  BY <2>4, <2>9, <2>11, <3>1, <3>2
  <2>14. o.op \in Targeted
    BY <2>1 DEF Targeted
  <2>15. PlanWork(o, doc, S)
    BY <2>12, <2>13, <2>14, TargetWork
  <2>. QED  BY <2>15 DEF S
<1>. QED  BY <1>1, <1>2, <1>3

(* A plan that saves one document, of the requests that only refresh.       *)
LEMMA OtherWork ==
    ASSUME NEW o, o.op \in {"hostname", "pin", "content", "metadata"}, NEW d, NEW new, NEW S,
           o.op = "hostname" \/ new.targets = d.targets,
           o.op \in Edits \/ new.profiles = d.profiles,
           \A c \in S : /\ c.c \in {"read", "merge", "body", "read-body", "save", "index", "chart", "app-host"}
                        /\ c.c = "save" => c.new = new
                        /\ c.c = "app-host" => o.op = "hostname"
                        /\ c.c = "merge" => o.op \in Edits
    PROVE  PlanWork(o, d, S)
<1>1. o.op \notin Profiled /\ o.op \notin Targeted /\ ~Rejecting(S)
  BY DEF Targeted, Profiled, Rejecting
<1>2. \A e \in S : CallFits(o, d, e)
  BY <1>1 DEF CallFits
<1>3. \A s, e \in S : s.c = "save" => CallAims(o, d, s.new, e)
  BY <1>1 DEF CallAims
<1>. QED  BY <1>1, <1>2, <1>3 DEF PlanWork, WorkFit

LEMMA HostnameWork ==
    ASSUME NEW doc \in Doc, NEW o \in HostnameArgs
    PROVE  PlanWork(o, doc, HostnameSet(doc, o))
<1>1. CASE doc.targets[o.key] = Nil
  BY <1>1, RejectWork DEF HostnameSet
<1>2. CASE doc.targets[o.key] # Nil
  <2>. DEFINE next == HostDoc(doc, o)
              S == HostnameSet(doc, o)
  <2>1. o.op = "hostname"
    BY DEF HostnameArgs
  <2>2. next.profiles = doc.profiles
    BY DEF HostDoc, Doc
  <2>3. /\ SaveOf(next, Nil).c = "save" /\ SaveOf(next, Nil).new = next
        /\ HostOf(o.key, HostApp(doc, o), o.host).c = "app-host"
    BY DEF SaveOf, HostOf
  <2>4. S = {SaveOf(next, Nil), HostOf(o.key, HostApp(doc, o), o.host)}
    BY <1>2 DEF HostnameSet
  <2>. HIDE DEF S, next
  <2>5. PlanWork(o, doc, S)
    BY <2>1, <2>2, <2>3, <2>4, OtherWork
  <2>. QED  BY <2>5 DEF S
<1>. QED  BY <1>1, <1>2

LEMMA PinWork ==
    ASSUME NEW doc \in Doc, NEW o \in PinArgs
    PROVE  PlanWork(o, doc, PinSet(doc, o))
<1>. DEFINE next == PinDoc(doc, o)
            S == PinSet(doc, o)
<1>1. o.op = "pin"
  BY DEF PinArgs
<1>2. next.profiles = doc.profiles /\ next.targets = doc.targets
  BY DEF PinDoc, Doc
<1>3. SaveOf(next, Nil).c = "save" /\ SaveOf(next, Nil).new = next
  BY DEF SaveOf
<1>4. S = {SaveOf(next, Nil)}
  BY DEF PinSet
<1>. HIDE DEF S, next
<1>5. PlanWork(o, doc, S)
  BY <1>1, <1>2, <1>3, <1>4, OtherWork
<1>. QED  BY <1>5 DEF S


LEMMA NamesAre ==
    ASSUME NEW ps, NEW k, NEW x
    PROVE  x \in NamesIn(ps, k) <=>
              \E p \in Profile : ps[p] # Nil /\ k \in ps[p].targets /\ x \in ps[p].names
BY DEF NamesIn

LEMMA BroughtIs ==
    ASSUME NEW ps, NEW k, NEW x
    PROVE  x \in Brought(k, ps) <=>
              \/ x = Seed
              \/ \E p \in Profile : ps[p] # Nil /\ k \in ps[p].targets /\ x \in ps[p].names
BY NamesAre DEF Brought

Merged(T, minus, plus) == Merges(T, minus, plus, FALSE)
Fetched(T, minus, plus) == Merges(T, minus, plus, TRUE)

LEMMA MergesWork ==
    ASSUME NEW T, NEW minus, NEW plus
    PROVE  /\ \A c \in Merged(T, minus, plus) :
                 /\ c.c \in {"read", "merge"}
                 /\ c.c = "merge" => c.k \in T /\ c.minus = minus /\ c.plus = plus /\ ~c.body
           /\ \A k \in T : \E c \in Merged(T, minus, plus) : c.c = "merge" /\ c.k = k
           /\ \A c \in Fetched(T, minus, plus) : c.c \in {"read", "merge"}
<1>. DEFINE M(k) == MergeOf(k, minus, plus, FALSE)
            N(k) == MergeOf(k, minus, plus, TRUE)
<1>1. \A k : /\ ReadOf(k).c = "read"
             /\ M(k).c = "merge" /\ M(k).k = k /\ M(k).minus = minus /\ M(k).plus = plus /\ ~M(k).body
             /\ N(k).c = "merge"
  BY DEF ReadOf, MergeOf
<1>2. \A c \in Merged(T, minus, plus) : \E k \in T : c = ReadOf(k) \/ c = M(k)
  BY Zenon DEF Merges, Merged, Fetched
<1>3. \A k \in T : M(k) \in Merged(T, minus, plus)
  BY Zenon DEF Merges, Merged, Fetched
<1>4. \A c \in Fetched(T, minus, plus) : \E k \in T : c = ReadOf(k) \/ c = N(k)
  BY Zenon DEF Merges, Merged, Fetched
<1>. HIDE DEF M, N
<1>5. \A c \in Merged(T, minus, plus) :
         /\ c.c \in {"read", "merge"}
         /\ c.c = "merge" => c.k \in T /\ c.minus = minus /\ c.plus = plus /\ ~c.body
  <2>. SUFFICES ASSUME NEW c \in Merged(T, minus, plus)
                PROVE  /\ c.c \in {"read", "merge"}
                       /\ c.c = "merge" => c.k \in T /\ c.minus = minus /\ c.plus = plus /\ ~c.body
    OBVIOUS
  <2>1. PICK k \in T : c = ReadOf(k) \/ c = M(k)
    BY <1>2
  <2>. QED  BY <1>1, <2>1
<1>6. \A k \in T : \E c \in Merged(T, minus, plus) : c.c = "merge" /\ c.k = k
  BY <1>1, <1>3
<1>7. \A c \in Fetched(T, minus, plus) : c.c \in {"read", "merge"}
  BY <1>1, <1>4
<1>. QED  BY <1>5, <1>6, <1>7

LEMMA AfterWork ==
    ASSUME NEW doc, NEW branches
    PROVE  \A c \in AfterSet(doc, branches) : c.c \in {"index", "chart"}
<1>1. IndexCall(IndexOf(doc.profiles)).c = "index" /\ \A b : ChartOf(b, doc.runtime).c = "chart"
  BY DEF IndexCall, ChartOf
<1>2. ASSUME NEW c \in Charts(doc, branches) PROVE c.c = "chart"
  <2>1. \E b \in branches : c = ChartOf(b, doc.runtime)
    BY <1>2 DEF Charts
  <2>. QED  BY <1>1, <2>1
<1>. QED  BY <1>1, <1>2 DEF AfterSet

(* A plan that saves one array of profiles.                                 *)
LEMMA ProfileWork ==
    ASSUME NEW o, o.op \in Profiled, NEW d, NEW new, NEW S,
           new.targets = d.targets, new.profiles # d.profiles,
           \E c \in S : c.c = "save",
           \A c \in S :
              /\ c.c \in {"read", "merge", "body", "drop-body", "save", "index", "chart"}
              /\ c.c = "save" => c.new = new
              /\ c.c = "merge" =>
                    /\ ~c.body
                    /\ ((Brought(c.k, d.profiles) \cup Brought(c.k, new.profiles)) \ c.minus)
                          \cup c.plus \subseteq Brought(c.k, new.profiles),
           ProfileMoves(d.profiles, new.profiles, S)
    PROVE  PlanWork(o, d, S)
<1>1. o.op \notin Targeted /\ o.op \in Edits /\ ~Rejecting(S)
  BY DEF Targeted, Profiled, Edits, Rejecting
<1>2. \A e \in S : CallFits(o, d, e)
  BY <1>1 DEF CallFits
<1>3. ASSUME NEW s \in S, s.c = "save", NEW e \in S PROVE CallAims(o, d, s.new, e)
  <2>1. s.new = new
    BY <1>3
  <2>. HIDE DEF Brought
  <2>. QED  BY <1>3, <2>1 DEF CallAims
<1>4. \E c \in S : Alters(d, c)
  BY DEF Alters
<1>5. \A c \in S : c.c = "save" => ProfileMoves(d.profiles, c.new.profiles, S)
  OBVIOUS
<1>. HIDE DEF ProfileMoves
<1>. QED  BY <1>1, <1>2, <1>3, <1>4, <1>5 DEF PlanWork, WorkFit

LEMMA UploadWork ==
    ASSUME NEW doc \in Doc, NEW o \in UploadEnvProfileInput, doc.profiles[o.profile] = Nil
    PROVE  PlanWork(o, doc, UploadSet(doc, o))
<1>. DEFINE new == NewProfile(o)
            p == o.profile
            next == UploadDoc(doc, o)
            S == UploadSet(doc, o)
            M == Merged(new.targets, {}, o.names)
            W == {BodyOf(o.profile, o.names)}
            V == {SaveOf(next, Nil)}
            A == AfterSet(next, new.branches)
<1>1. /\ o.op = "upload" /\ p \in Profile /\ o.names \in SUBSET RtKey
      /\ o.op \in Profiled /\ o.op \notin Targeted
  BY DEF UploadEnvProfileInput, Profiled, Targeted
<1>2. new # Nil /\ new.names = o.names
  BY NewTyped DEF NewProfile
<1>3. /\ next.targets = doc.targets /\ next.profiles = [doc.profiles EXCEPT ![p] = new]
      /\ doc.profiles \in [Profile -> StoredProfile \cup {Nil}]
  BY DEF UploadDoc, UploadProfiles, Doc
<1>4. /\ next.profiles[p] = new /\ \A q \in Profile \ {p} : next.profiles[q] = doc.profiles[q]
      /\ next.profiles # doc.profiles
  BY <1>1, <1>2, <1>3
<1>5. CASE ~ValidUpload(doc, o)
  BY <1>5, RejectWork DEF UploadSet
<1>6. /\ \A c \in M : /\ c.c \in {"read", "merge"}
                      /\ c.c = "merge" => c.k \in new.targets /\ c.minus = {} /\ c.plus = o.names
                                          /\ ~c.body
      /\ \A k \in new.targets : \E c \in M : c.c = "merge" /\ c.k = k
  BY MergesWork
<1>7. \A c \in W : c.c = "body"
  BY DEF BodyOf
<1>8. CASE ValidUpload(doc, o) /\ Conflicts(doc, o)
  <2>1. S = M \cup W \cup {RejectOf}
    BY <1>8 DEF UploadSet, Merged
  <2>2. RejectOf.c = "reject"
    BY DEF RejectOf
  <2>. HIDE DEF S, M, W
  <2>3. \A c \in S : c.c \in {"read", "merge", "body", "reject"}
    BY <1>6, <1>7, <2>1, <2>2
  <2>4. Rejecting(S)
    BY <2>1, <2>2 DEF Rejecting
  <2>5. \A e \in S : CallFits(o, doc, e)
    BY <1>1, <2>3 DEF CallFits, Edits
  <2>6. PlanWork(o, doc, S)
    BY <1>1, <2>3, <2>4, <2>5 DEF PlanWork, WorkFit
  <2>. QED  BY <2>6 DEF S
<1>9. CASE ValidUpload(doc, o) /\ ~Conflicts(doc, o)
  <2>1. S = M \cup W \cup (V \cup A)
    BY <1>9 DEF UploadSet, Merged
  <2>2. \A c \in A : c.c \in {"index", "chart"}
    BY AfterWork
  <2>3. \A c \in V : c.c = "save" /\ c.new = next
    BY DEF SaveOf
  <2>4. SaveOf(next, Nil) \in V
    OBVIOUS
  <2>. HIDE DEF S, M, W, V, A, next, new, p
  <2>5. \A k : Brought(k, doc.profiles) \subseteq Brought(k, next.profiles)
    <3>. SUFFICES ASSUME NEW k, NEW x \in Brought(k, doc.profiles)
                  PROVE  x \in Brought(k, next.profiles)
      OBVIOUS
    <3>1. CASE x = Seed
      BY <3>1, BroughtIs
    <3>2. CASE x # Seed
      <4>1. PICK q \in Profile : /\ doc.profiles[q] # Nil /\ k \in doc.profiles[q].targets
                                 /\ x \in doc.profiles[q].names
        BY <3>2, BroughtIs
      <4>2. q # p
        BY <4>1 DEF p
      <4>3. next.profiles[q] = doc.profiles[q]
        BY <1>4, <4>2
      <4>. QED  BY <4>1, <4>3, BroughtIs
    <3>. QED  BY <3>1, <3>2
  <2>6. ASSUME NEW k \in new.targets PROVE o.names \subseteq Brought(k, next.profiles)
    BY <1>1, <1>2, <1>4, <2>6, BroughtIs
  <2>7. \A c \in S :
           /\ c.c \in {"read", "merge", "body", "drop-body", "save", "index", "chart"}
           /\ c.c = "save" => c.new = next
           /\ c.c = "merge" =>
                 /\ ~c.body
                 /\ ((Brought(c.k, doc.profiles) \cup Brought(c.k, next.profiles)) \ c.minus)
                       \cup c.plus \subseteq Brought(c.k, next.profiles)
    <3>. SUFFICES ASSUME NEW c \in S
                  PROVE  /\ c.c \in {"read", "merge", "body", "save", "index", "chart"}
                         /\ c.c = "save" => c.new = next
                         /\ c.c = "merge" => c.k \in new.targets /\ c.plus = o.names /\ ~c.body
      BY <2>5, <2>6
    <3>. QED  BY <1>6, <1>7, <2>1, <2>2, <2>3
  <2>8. \E c \in S : c.c = "save"
    BY <2>1, <2>3, <2>4
  <2>9. ProfileMoves(doc.profiles, next.profiles, S)
    BY <2>5 DEF ProfileMoves
  <2>10. PlanWork(o, doc, S)
    BY <1>1, <1>3, <1>4, <2>7, <2>8, <2>9, ProfileWork
  <2>. QED  BY <2>10 DEF S
<1>. QED  BY <1>5, <1>8, <1>9

LEMMA DropWork ==
    ASSUME NEW doc \in Doc, NEW o \in DeleteEnvProfileArgs
    PROVE  PlanWork(o, doc, DropSet(doc, o))
<1>. DEFINE old == doc.profiles[o.profile]
            p == o.profile
            next == DropDoc(doc, o)
            S == DropSet(doc, o)
            M == Merged(old.targets, old.names, {})
            W == {DropOf(o.profile)}
            V == {SaveOf(next, Nil)}
            A == AfterSet(next, old.branches)
<1>1. o.op \in Profiled /\ p \in Profile
  BY DEF DeleteEnvProfileArgs, Profiled
<1>2. CASE old = Nil
  BY <1>2, RejectWork DEF DropSet
<1>3. CASE old # Nil
  <2>1. /\ next.targets = doc.targets /\ next.profiles = [doc.profiles EXCEPT ![p] = Nil]
        /\ doc.profiles \in [Profile -> StoredProfile \cup {Nil}]
    BY DEF DropDoc, DropProfiles, Doc
  <2>2. /\ next.profiles[p] = Nil /\ \A q \in Profile \ {p} : next.profiles[q] = doc.profiles[q]
        /\ next.profiles # doc.profiles
    BY <1>1, <1>3, <2>1
  <2>3. /\ \A c \in M : /\ c.c \in {"read", "merge"}
                        /\ c.c = "merge" => c.k \in old.targets /\ c.minus = old.names /\ c.plus = {}
                                            /\ ~c.body
        /\ \A k \in old.targets : \E c \in M : c.c = "merge" /\ c.k = k
    BY MergesWork
  <2>4. \A c \in W : c.c = "drop-body"
    BY DEF DropOf
  <2>5. S = M \cup W \cup (V \cup A)
    BY <1>3 DEF DropSet, Merged
  <2>6. \A c \in A : c.c \in {"index", "chart"}
    BY AfterWork
  <2>7. \A c \in V : c.c = "save" /\ c.new = next
    BY DEF SaveOf
  <2>8. SaveOf(next, Nil) \in V /\ old = doc.profiles[p]
    OBVIOUS
  <2>. HIDE DEF S, M, W, V, A, next, old, p
  <2>9. ASSUME NEW k, NEW x \in Brought(k, doc.profiles)
        PROVE  x \in Brought(k, next.profiles) \/ (x \in old.names /\ k \in old.targets)
    <3>1. CASE x = Seed
      BY <3>1, BroughtIs
    <3>2. CASE x # Seed
      <4>1. PICK q \in Profile : /\ doc.profiles[q] # Nil /\ k \in doc.profiles[q].targets
                                 /\ x \in doc.profiles[q].names
        BY <2>9, <3>2, BroughtIs
      <4>2. CASE q = p
        BY <2>8, <4>1, <4>2
      <4>3. CASE q # p
        <5>1. next.profiles[q] = doc.profiles[q]
          BY <2>2, <4>3
        <5>. QED  BY <4>1, <5>1, BroughtIs
      <4>. QED  BY <4>2, <4>3
    <3>. QED  BY <3>1, <3>2
  <2>10. \A c \in S :
            /\ c.c \in {"read", "merge", "body", "drop-body", "save", "index", "chart"}
            /\ c.c = "save" => c.new = next
            /\ c.c = "merge" =>
                  /\ ~c.body
                  /\ ((Brought(c.k, doc.profiles) \cup Brought(c.k, next.profiles)) \ c.minus)
                        \cup c.plus \subseteq Brought(c.k, next.profiles)
    <3>. SUFFICES ASSUME NEW c \in S
                  PROVE  /\ c.c \in {"read", "merge", "drop-body", "save", "index", "chart"}
                         /\ c.c = "save" => c.new = next
                         /\ c.c = "merge" => c.minus = old.names /\ c.plus = {} /\ ~c.body
      BY <2>9
    <3>. QED  BY <2>3, <2>4, <2>5, <2>6, <2>7
  <2>11. \E c \in S : c.c = "save"
    BY <2>5, <2>7, <2>8
  <2>12. ProfileMoves(doc.profiles, next.profiles, S)
    <3>. SUFFICES ASSUME NEW k \in Key, k \notin old.targets
                  PROVE  Brought(k, doc.profiles) \subseteq Brought(k, next.profiles)
      BY <2>3, <2>5 DEF ProfileMoves
    <3>. QED  BY <2>9
  <2>13. PlanWork(o, doc, S)
    BY <1>1, <2>1, <2>2, <2>10, <2>11, <2>12, ProfileWork
  <2>. QED  BY <2>13 DEF S
<1>. QED  BY <1>2, <1>3

LEMMA ContentWork ==
    ASSUME NEW doc \in Doc, NEW o \in UpdateEnvProfileContentInput
    PROVE  PlanWork(o, doc, ContentSet(doc, o))
<1>. DEFINE old == doc.profiles[o.profile]
            next == ContentDoc(doc, o)
            S == ContentSet(doc, o)
            M == Merged(old.targets, old.names, {})
            N == Merged(old.targets, {}, o.names)
            B == BodyOf(o.profile, o.names)
            V == SaveOf(next, o.profile)
            A == AfterSet(next, EditedNames(doc, o).branches)
<1>1. o.op = "content"
  BY DEF UpdateEnvProfileContentInput
<1>2. CASE old = Nil
  BY <1>2, RejectWork DEF ContentSet
<1>3. CASE old # Nil
  <2>1. next.targets = doc.targets
    BY DEF ContentDoc, Doc
  <2>2. /\ \A c \in M : c.c \in {"read", "merge"}
        /\ \A c \in N : c.c \in {"read", "merge"}
    BY MergesWork
  <2>3. B.c = "body" /\ V.c = "save" /\ V.new = next
    BY DEF BodyOf, SaveOf
  <2>4. \A c \in A : c.c \in {"index", "chart"}
    BY AfterWork
  <2>5. S = M \cup N \cup {B} \cup {V} \cup A
    BY <1>3 DEF ContentSet, Merged
  <2>. HIDE DEF S, M, N, B, V, A, next, old
  <2>6. \A c \in S : /\ c.c \in {"read", "merge", "body", "read-body", "save", "index", "chart", "app-host"}
                     /\ c.c = "save" => c.new = next
                     /\ c.c = "app-host" => o.op = "hostname"
                     /\ c.c = "merge" => o.op \in Edits
    BY <1>1, <2>2, <2>3, <2>4, <2>5 DEF Edits
  <2>7. PlanWork(o, doc, S)
    BY <1>1, <2>1, <2>6, OtherWork DEF Edits
  <2>. QED  BY <2>7 DEF S
<1>. QED  BY <1>2, <1>3

LEMMA MetadataWork ==
    ASSUME NEW doc \in Doc, NEW o \in UpdateEnvProfileMetadataInput
    PROVE  PlanWork(o, doc, MetadataSet(doc, o))
<1>. DEFINE old == doc.profiles[o.profile]
            next == MetadataDoc(doc, o)
            S == MetadataSet(doc, o)
            M == MovesOf(doc, o)
            V == SaveOf(next, o.profile)
            A == AfterSet(next, old.branches \cup EditedPlace(doc, o).branches)
<1>1. o.op = "metadata"
  BY DEF UpdateEnvProfileMetadataInput
<1>2. CASE old = Nil \/ EditedPlace(doc, o).branches = {}
  BY <1>2, RejectWork DEF MetadataSet
<1>3. CASE ~(old = Nil \/ EditedPlace(doc, o).branches = {})
  <2>1. next.targets = doc.targets
    BY DEF MetadataDoc, Doc
  <2>2. \A c \in M : c.c \in {"read", "merge", "read-body"}
    <3>. DEFINE N == Merged(old.targets, old.names, {})
                P == Fetched(EditedPlace(doc, o).targets, {}, {})
                B == ReadBodyOf(o.profile)
    <3>1. \A c \in N : c.c \in {"read", "merge"}
      BY MergesWork
    <3>2. \A c \in P : c.c \in {"read", "merge"}
      BY MergesWork
    <3>3. B.c = "read-body"
      BY DEF ReadBodyOf
    <3>4. M \subseteq N \cup {B} \cup P
      BY DEF MovesOf, Merged, Fetched
    <3>. HIDE DEF N, P, B, M
    <3>. QED  BY <3>1, <3>2, <3>3, <3>4
  <2>3. V.c = "save" /\ V.new = next
    BY DEF SaveOf
  <2>4. \A c \in A : c.c \in {"index", "chart"}
    BY AfterWork
  <2>5. S = M \cup {V} \cup A
    BY <1>3 DEF MetadataSet
  <2>. HIDE DEF S, M, V, A, next, old
  <2>6. \A c \in S : /\ c.c \in {"read", "merge", "body", "read-body", "save", "index", "chart", "app-host"}
                     /\ c.c = "save" => c.new = next
                     /\ c.c = "app-host" => o.op = "hostname"
                     /\ c.c = "merge" => o.op \in Edits
    BY <1>1, <2>2, <2>3, <2>4, <2>5 DEF Edits
  <2>7. PlanWork(o, doc, S)
    BY <1>1, <2>1, <2>6, OtherWork DEF Edits
  <2>. QED  BY <2>7 DEF S
<1>. QED  BY <1>2, <1>3


-----------------------------------------------------------------------------
(***************************************************************************)
(* The work of each request over time.                                     *)
(***************************************************************************)
LEMMA ListsRange == ASSUME NEW op, NEW s, NEW S, Lists(op, s, S) PROVE Range(s) = S
BY DEF Lists

LEMMA StartsWork ==
    ASSUME row \in Doc, WorkInv, NEW r, NEW o \in Ops, Starts(r, o)
    PROVE  \E plan : Begins(r, o, plan) /\ Planned(o, row, plan) /\ PlanWork(o, row, Range(plan))
<1>1. CASE UpsertTarget(r, o)
  <2>1. o \in UpsertDeploymentTargetInput /\ Begins(r, o, UpsertPlan(row, o))
    BY <1>1, OpTyped DEF UpsertTarget
  <2>2. Lists(o.op, UpsertPlan(row, o), UpsertSet(row, o)) /\ PlanFits(o, row, UpsertSet(row, o))
    BY <1>1, <2>1, ListsUpsert, UpsertFits DEF UpsertTarget
  <2>. QED  BY <2>1, <2>2, ListsRange, UpsertWork DEF Planned
<1>2. CASE RemoveTarget(r, o)
  <2>1. o \in RemoveDeploymentTargetArgs /\ Begins(r, o, RemovePlan(row, o))
    BY <1>2, OpTyped DEF RemoveTarget
  <2>2. Lists(o.op, RemovePlan(row, o), RemoveSet(row, o)) /\ PlanFits(o, row, RemoveSet(row, o))
    BY <1>2, <2>1, ListsRemove, RemoveFits DEF RemoveTarget
  <2>. QED  BY <2>1, <2>2, ListsRange, RemoveWork DEF Planned
<1>3. CASE SetHostname(r, o)
  <2>1. o \in HostnameArgs /\ Begins(r, o, HostnamePlan(row, o))
    BY <1>3, OpTyped DEF SetHostname
  <2>2. Lists(o.op, HostnamePlan(row, o), HostnameSet(row, o)) /\ PlanFits(o, row, HostnameSet(row, o))
    BY <1>3, <2>1, ListsHostname, HostnameFits DEF SetHostname
  <2>. QED  BY <2>1, <2>2, ListsRange, HostnameWork DEF Planned
<1>4. CASE Migrate(r, o)
  <2>1. o \in MigrateInput /\ Begins(r, o, MigratePlan(row, o))
    BY <1>4, OpTyped DEF Migrate
  <2>2. Lists(o.op, MigratePlan(row, o), MigrateSet(row, o)) /\ PlanFits(o, row, MigrateSet(row, o))
    BY <1>4, <2>1, ListsMigrate, MigrateFits DEF Migrate
  <2>. QED  BY <2>1, <2>2, ListsRange, MigrateWork DEF Planned
<1>5. CASE SetPinned(r, o)
  <2>1. o \in PinArgs /\ Begins(r, o, PinPlan(row, o))
    BY <1>5, OpTyped DEF SetPinned
  <2>2. Lists(o.op, PinPlan(row, o), PinSet(row, o)) /\ PlanFits(o, row, PinSet(row, o))
    BY <1>5, <2>1, ListsPin, PinFits DEF SetPinned
  <2>. QED  BY <2>1, <2>2, ListsRange, PinWork DEF Planned
<1>6. CASE Upload(r, o)
  <2>1. o \in UploadEnvProfileInput /\ Begins(r, o, UploadPlan(row, o))
    BY <1>6, OpTyped DEF Upload
  <2>2. Lists(o.op, UploadPlan(row, o), UploadSet(row, o)) /\ PlanFits(o, row, UploadSet(row, o))
    BY <1>6, <2>1, ListsUpload, UploadFits DEF Upload
  <2>3. row.profiles[o.profile] = Nil
    BY <1>6 DEF Upload, Unused, WorkInv
  <2>. QED  BY <2>1, <2>2, <2>3, ListsRange, UploadWork DEF Planned
<1>7. CASE UpdateContent(r, o)
  <2>1. o \in UpdateEnvProfileContentInput /\ Begins(r, o, ContentPlan(row, o))
    BY <1>7, OpTyped DEF UpdateContent
  <2>2. Lists(o.op, ContentPlan(row, o), ContentSet(row, o)) /\ PlanFits(o, row, ContentSet(row, o))
    BY <1>7, <2>1, ListsContent, ContentFits DEF UpdateContent
  <2>. QED  BY <2>1, <2>2, ListsRange, ContentWork DEF Planned
<1>8. CASE UpdateMetadata(r, o)
  <2>1. o \in UpdateEnvProfileMetadataInput /\ Begins(r, o, MetadataPlan(row, o))
    BY <1>8, OpTyped DEF UpdateMetadata
  <2>2. Lists(o.op, MetadataPlan(row, o), MetadataSet(row, o)) /\ PlanFits(o, row, MetadataSet(row, o))
    BY <1>8, <2>1, ListsMetadata, MetadataFits DEF UpdateMetadata
  <2>. QED  BY <2>1, <2>2, ListsRange, MetadataWork DEF Planned
<1>9. CASE DeleteProfile(r, o)
  <2>1. o \in DeleteEnvProfileArgs /\ Begins(r, o, DropPlan(row, o))
    BY <1>9, OpTyped DEF DeleteProfile
  <2>2. Lists(o.op, DropPlan(row, o), DropSet(row, o)) /\ PlanFits(o, row, DropSet(row, o))
    BY <1>9, <2>1, ListsDrop, DropFits DEF DeleteProfile
  <2>. QED  BY <2>1, <2>2, ListsRange, DropWork DEF Planned
<1>. QED  BY <1>1, <1>2, <1>3, <1>4, <1>5, <1>6, <1>7, <1>8, <1>9
          DEF Starts, WiringStarts, ProfileStarts

(* What a save leaves in the row and in its request.                        *)
LEMMA SaveChanges ==
    ASSUME WiringInv, NEW r \in Req, Saves(r)
    PROVE  LET d == req[r].doc
               c == Call(r)
           IN  /\ row'.targets = (IF c.at = Nil /\ c.new.targets # d.targets THEN c.new.targets
                                  ELSE row.targets)
               /\ req'[r].doc.targets = c.new.targets /\ req'[r].doc.profiles = c.new.profiles
               /\ req'[r].doc.ver = (IF Versioned(r) THEN row'.ver ELSE d.ver)
               /\ req'[r].wrote <=> (req[r].wrote \/ Versioned(r))
               /\ req'[r].st = "busy"
<1>1. /\ req[r].st = "busy" /\ req[r].todo # <<>> /\ row' = Written(r)
      /\ Call(r).c = "save"
  BY DEF Saves, Next1, Call
<1>2. /\ Call(r).new \in Doc /\ Call(r).at \in Profile \cup {Nil} /\ req[r].doc \in Doc /\ row \in Doc
  BY <1>1, CallTyped DEF Typed, WiringInv
<1>3. req'[r].doc = [Call(r).new EXCEPT !.ver = IF Versioned(r) THEN row'.ver ELSE req[r].doc.ver]
  BY SaveIs
<1>4. /\ req'[r].doc.targets = Call(r).new.targets /\ req'[r].doc.profiles = Call(r).new.profiles
      /\ req'[r].doc.ver = (IF Versioned(r) THEN row'.ver ELSE req[r].doc.ver)
  BY <1>2, <1>3 DEF Doc
<1>5. (req'[r].wrote <=> (req[r].wrote \/ Versioned(r))) /\ req'[r].st = "busy"
  <2>. DEFINE nd == [Call(r).new EXCEPT !.ver = IF Versioned(r) THEN row'.ver ELSE req[r].doc.ver]
              w == req[r].wrote \/ Versioned(r)
              z == [req[r] EXCEPT !.doc = nd, !.wrote = @ \/ Versioned(r)]
  <2>1. Returns(r, z)
    BY DEF Saves
  <2>2. DOMAIN req = Req /\ DOMAIN req[r] = ReqField
    BY DEF WiringInv, ReqOK
  <2>. HIDE DEF nd
  <2>3. z = [req[r] EXCEPT !.doc = nd, !.wrote = w]
    OBVIOUS
  <2>. HIDE DEF z, w
  <2>4. z.wrote = w /\ z.st = "busy" /\ DOMAIN z = ReqField
    BY <1>1, <2>2, <2>3 DEF ReqField
  <2>5. req'[r] = [z EXCEPT !.todo = Tail(@)]
    BY <2>1, <2>2 DEF Returns
  <2>6. req'[r].wrote = w /\ req'[r].st = "busy"
    BY <2>4, <2>5
  <2>. QED  BY <2>6 DEF w
<1>6. row'.targets = (IF Call(r).at = Nil /\ Call(r).new.targets # req[r].doc.targets
                      THEN Call(r).new.targets ELSE row.targets)
  BY <1>1, <1>2, WrittenIs
<1>. QED  BY <1>4, <1>5, <1>6

(* A document after a save, for the calls that are left.                    *)
LEMMA WorkShrinks ==
    ASSUME NEW o, NEW d, NEW S, NEW T \in SUBSET S, WorkFit(o, d, S)
    PROVE  WorkFit(o, d, T)
BY DEF WorkFit, Rejecting

LEMMA WorkSaved ==
    ASSUME NEW o, NEW d, NEW n, NEW c, NEW S, NEW T, T \subseteq S, WorkFit(o, d, S),
           c \in S, c.c = "save", \A e \in T : Rank(o.op, c) <= Rank(o.op, e),
           n.targets = c.new.targets, n.profiles = c.new.profiles
    PROVE  /\ WorkFit(o, n, T) /\ ~Rejecting(S)
           /\ \A e \in S : e.c = "save" =>
                 e.new.targets = c.new.targets /\ e.new.profiles = c.new.profiles
           /\ \A e \in T : Rank(o.op, e) > 0 /\ e.c # "reject" /\ ~Alters(n, e)
<1>1. \A e \in T : Rank(o.op, e) > 0 /\ e.c # "merge"
  BY DEF Rank
<1>2. \A e \in S : e.c = "save" => e.new.targets = c.new.targets /\ e.new.profiles = c.new.profiles
  BY DEF WorkFit, CallAims
<1>3. ~Rejecting(S) /\ \A e \in S : e.c # "reject"
  BY DEF WorkFit, Rejecting
<1>4. \A e \in T : CallFits(o, n, e)
  <2>. SUFFICES ASSUME NEW e \in T PROVE CallFits(o, n, e)
    OBVIOUS
  <2>1. CallFits(o, d, e) /\ CallFits(o, d, c)
    BY DEF WorkFit
  <2>. QED  BY <2>1, <1>2 DEF CallFits
<1>5. ASSUME NEW s \in T, s.c = "save", NEW e \in T PROVE CallAims(o, n, s.new, e)
  <2>1. CallAims(o, d, s.new, e)
    BY <1>5 DEF WorkFit
  <2>. QED  BY <1>1, <2>1 DEF CallAims
<1>6. ~Rejecting(T)
  BY <1>3 DEF Rejecting
<1>. QED  BY <1>1, <1>2, <1>3, <1>4, <1>5, <1>6 DEF WorkFit, Alters

LEMMA FitsWork ==
    ASSUME WiringInv, NEW r \in Req, Called(r), WorkFits(req[r]), req'[r].st = "busy"
    PROVE  WorkFits(req'[r])
<1>. DEFINE x == req[r]
            y == req'[r]
            c == Call(r)
            S == Range(x.todo)
            T == Range(y.todo)
<1>1. /\ y.op = x.op /\ T \subseteq S /\ S \subseteq T \cup {c} /\ c.c # "reject" /\ c \in S
      /\ \A e \in T : Rank(x.op.op, c) <= Rank(x.op.op, e)
  BY CalledStays DEF Goes1, Left, Call
<1>2. /\ WorkFit(x.op, x.doc, S)
      /\ x.wrote => \A e \in S : Rank(x.op.op, e) > 0 /\ e.c # "reject" /\ ~Alters(x.doc, e)
      /\ ~x.wrote /\ x.op.op \in Profiled => Rejecting(S) \/ \E e \in S : Alters(x.doc, e)
  BY DEF WorkFits
<1>3. CASE c.c # "save"
  <2>1. y.doc = x.doc /\ y.wrote = x.wrote
    BY <1>3, CalledReq, CalledStays DEF Stops
  <2>. HIDE DEF S, T, c, x, y
  <2>2. WorkFit(x.op, x.doc, T)
    BY <1>1, <1>2, WorkShrinks
  <2>3. Rejecting(S) => Rejecting(T)
    BY <1>1 DEF Rejecting
  <2>4. (\E e \in S : Alters(x.doc, e)) => \E e \in T : Alters(x.doc, e)
    BY <1>1, <1>3 DEF Alters
  <2>5. x.wrote => \A e \in T : Rank(x.op.op, e) > 0 /\ e.c # "reject" /\ ~Alters(x.doc, e)
    BY <1>1, <1>2
  <2>. QED  BY <1>1, <1>2, <2>1, <2>2, <2>3, <2>4, <2>5 DEF WorkFits, S, T, x, y
<1>4. CASE c.c = "save"
  <2>1. Saves(r)
    BY <1>4, CalledReq, CalledStays DEF Stops
  <2>2. /\ y.doc.targets = c.new.targets /\ y.doc.profiles = c.new.profiles
        /\ y.wrote <=> (x.wrote \/ Versioned(r))
    BY <2>1, SaveChanges
  <2>3. Versioned(r) <=> c.at # Nil \/ c.new.targets # x.doc.targets \/ c.new.profiles # x.doc.profiles
    BY <2>1, SaveIs
  <2>. HIDE DEF S, T, c, x, y
  <2>4. /\ WorkFit(x.op, y.doc, T) /\ ~Rejecting(S)
        /\ \A e \in S : e.c = "save" =>
              e.new.targets = c.new.targets /\ e.new.profiles = c.new.profiles
        /\ \A e \in T : Rank(x.op.op, e) > 0 /\ e.c # "reject" /\ ~Alters(y.doc, e)
    <3>. DEFINE n == y.doc
                o == x.op
    <3>1. /\ T \subseteq S /\ WorkFit(o, x.doc, S) /\ c \in S /\ c.c = "save"
          /\ \A e \in T : Rank(o.op, c) <= Rank(o.op, e)
          /\ n.targets = c.new.targets /\ n.profiles = c.new.profiles
      BY <1>1, <1>2, <1>4, <2>2
    <3>. HIDE DEF n, o
    <3>2. /\ WorkFit(o, n, T) /\ ~Rejecting(S)
          /\ \A e \in S : e.c = "save" =>
                e.new.targets = c.new.targets /\ e.new.profiles = c.new.profiles
          /\ \A e \in T : Rank(o.op, e) > 0 /\ e.c # "reject" /\ ~Alters(n, e)
      BY <3>1, WorkSaved
    <3>. QED  BY <3>2 DEF n, o
  <2>5. ~y.wrote /\ x.op.op \in Profiled => FALSE
    <3>. SUFFICES ASSUME ~x.wrote, ~Versioned(r), x.op.op \in Profiled PROVE FALSE
      BY <2>2
    <3>1. PICK e \in S : Alters(x.doc, e)
      BY <1>2, <2>4
    <3>. QED  BY <2>3, <2>4, <3>1 DEF Alters
  <2>. QED  BY <1>1, <2>4, <2>5 DEF WorkFits, S, T, x, y
<1>. QED  BY <1>3, <1>4

LEMMA WorkCalled ==
    ASSUME WiringInv, WorkInv, NEW r \in Req, Called(r)
    PROVE  WorkInv'
<1>. DEFINE x == req[r]
            c == Call(r)
<1>1. \A q \in Req : req'[q].op = req[q].op
  BY CalledStays
<1>2. ASSUME NEW q \in Req, req'[q].st = "busy" PROVE WorkFits(req'[q])
  <2>1. req[q].st = "busy" /\ WorkFits(req[q])
    BY <1>2, CalledStays DEF WorkInv
  <2>2. CASE q # r
    BY <2>1, <2>2, CalledReq
  <2>3. CASE q = r
    BY <1>2, <2>1, <2>3, FitsWork
  <2>. QED  BY <2>2, <2>3
<1>3. ASSUME NEW q \in Req, req[q].op.op \in Profiled, req'[q].st = "done" PROVE req'[q].wrote
  <2>1. CASE q # r
    <3>1. req'[q] = req[q]
      BY <2>1, CalledReq
    <3>. QED  BY <1>3, <3>1 DEF WorkInv, OpsOf
  <2>2. CASE q = r
    <3>1. Stops(req[r], req'[r]) /\ req[r].st = "busy"
      BY <1>3, <2>2, CalledReq DEF Goes1
    <3>2. req[r].todo = <<>> /\ req'[r].wrote = req[r].wrote
      BY <1>3, <2>2, <3>1 DEF Stops
    <3>3. Range(req[r].todo) = {}
      BY <3>2 DEF Range
    <3>4. WorkFits(req[r])
      BY <3>1 DEF WorkInv
    <3>5. req[r].wrote
      BY <1>3, <2>2, <3>3, <3>4 DEF WorkFits, Rejecting
    <3>. QED  BY <2>2, <3>2, <3>5
  <2>. QED  BY <2>1, <2>2
<1>4. ASSUME NEW o \in Ops, o.op = "upload", \A q \in Req : req[q].op.op = "upload" => req[q].op.profile # o.profile
      PROVE  /\ row'.profiles[o.profile] = Nil
             /\ \A q \in Req : req'[q].st = "busy" => req'[q].doc.profiles[o.profile] = Nil
  <2>. DEFINE p == o.profile
  <2>1. /\ row.profiles[p] = Nil
        /\ \A q \in Req : req[q].st = "busy" => req[q].doc.profiles[p] = Nil
    BY <1>4 DEF WorkInv, Unused
  <2>2. p \in Profile
    BY <1>4, OpTyped
  <2>. HIDE DEF p
  <2>3. CASE ~Saves(r)
    <3>1. row' = row
      BY <2>3, CalledReq
    <3>. QED  BY <2>1, <2>3, <3>1, CalledStays DEF p
  <2>4. CASE Saves(r)
    <3>1. /\ x.st = "busy" /\ c.new \in Doc /\ c.at \in Profile \cup {Nil} /\ SaveFits(x.op, x.doc, c)
          /\ row'.profiles = (IF c.at # Nil THEN [row.profiles EXCEPT ![c.at] = c.new.profiles[c.at]]
                              ELSE IF c.new.profiles # x.doc.profiles THEN c.new.profiles
                              ELSE row.profiles)
      BY <2>4, SaveIs
    <3>2. req'[r].doc.profiles = c.new.profiles
      BY <2>4, SaveChanges
    <3>3. row.profiles \in [Profile -> StoredProfile \cup {Nil}]
      BY DEF WiringInv, Doc
    <3>4. x.doc.profiles[p] = Nil
      BY <2>1, <3>1
    <3>5. c.new.profiles[p] = Nil
      BY <1>4, <2>2, <3>1, <3>4 DEF SaveFits, p
    <3>. HIDE DEF c
    <3>6. row'.profiles[p] = Nil
      BY <2>1, <2>2, <3>1, <3>3, <3>5
    <3>. QED  BY <2>1, <3>2, <3>5, <3>6, CalledStays, CalledReq DEF p, c
  <2>. QED  BY <2>3, <2>4
<1>5. \A q \in Req : req'[q].st = "busy" => WorkFits(req'[q])
  BY <1>2
<1>6. \A q \in OpsOf(Profiled)' : req'[q].st = "done" => req'[q].wrote
  BY <1>1, <1>3 DEF OpsOf, Profiled
<1>7. \A o \in Ops : o.op = "upload" /\ (\A q \in Req : req'[q].op.op = "upload" => req'[q].op.profile # o.profile)
          =>  /\ row'.profiles[o.profile] = Nil
              /\ \A q \in Req : req'[q].st = "busy" => req'[q].doc.profiles[o.profile] = Nil
  BY <1>1, <1>4
<1>. QED  BY <1>5, <1>6, <1>7 DEF WorkInv, Unused

LEMMA WorkStarted ==
    ASSUME WiringInv, WorkInv, NEW r \in Req, NEW o \in Ops, NEW plan, Begins(r, o, plan),
           Planned(o, row, plan), PlanWork(o, row, Range(plan))
    PROVE  WorkInv'
<1>1. row' = row
  BY DEF Begins
<1>2. /\ \A q \in Req \ {r} : req'[q] = req[q]
      /\ req[r].st = "idle" /\ req'[r].st = "busy" /\ req'[r].wrote = FALSE
      /\ req'[r].op = o /\ req'[r].doc = row /\ req'[r].todo = plan
  BY BeginsOK DEF WiringInv
<1>3. req[r].op.op = "none"
  BY <1>2 DEF WiringInv, ReqOK
<1>4. WorkFits(req'[r])
  <2>1. /\ WorkFit(o, row, Range(plan))
        /\ o.op \in Profiled => Rejecting(Range(plan)) \/ \E c \in Range(plan) : Alters(row, c)
    BY DEF PlanWork
  <2>. QED  BY <1>2, <2>1 DEF WorkFits
<1>5. \A q \in Req : req'[q].st = "busy" => WorkFits(req'[q])
  BY <1>2, <1>4 DEF WorkInv
<1>6. \A q \in Req : req'[q].op.op \in Profiled /\ req'[q].st = "done" => req'[q].wrote
  BY <1>2 DEF WorkInv, OpsOf
<1>7. ASSUME NEW u \in Ops, u.op = "upload",
             \A q \in Req : req'[q].op.op = "upload" => req'[q].op.profile # u.profile
      PROVE  /\ row'.profiles[u.profile] = Nil
             /\ \A q \in Req : req'[q].st = "busy" => req'[q].doc.profiles[u.profile] = Nil
  <2>1. \A q \in Req : req[q].op.op = "upload" => req[q].op.profile # u.profile
    BY <1>2, <1>3, <1>7
  <2>2. /\ row.profiles[u.profile] = Nil
        /\ \A q \in Req : req[q].st = "busy" => req[q].doc.profiles[u.profile] = Nil
    BY <1>7, <2>1 DEF WorkInv, Unused
  <2>. QED  BY <1>1, <1>2, <2>2
<1>. QED  BY <1>5, <1>6, <1>7 DEF WorkInv, Unused, OpsOf, Profiled

(* Every step of a run: a request starts with a plan that does its work, or *)
(* makes a call or stops, or nothing but a release changes.                 *)
LEMMA WorkNextIs ==
    ASSUME WiringInv, WorkInv, [WiringNext]_project
    PROVE  \/ \E r \in Req, o \in Ops : \E plan :
                 Begins(r, o, plan) /\ Planned(o, row, plan) /\ PlanWork(o, row, Range(plan))
           \/ \E r \in Req : Called(r)
           \/ UNCHANGED <<row, vault, gitlab, req>>
<1>1. row \in Doc
  BY DEF WiringInv
<1>2. ASSUME NEW r \in Req, NEW o \in Ops, WiringStarts(r, o) \/ ProfileStarts(r, o)
      PROVE  \E plan : Begins(r, o, plan) /\ Planned(o, row, plan) /\ PlanWork(o, row, Range(plan))
  BY <1>1, <1>2, StartsWork DEF Starts
<1>3. ASSUME NEW k \in Key, NEW a \in App, NEW b \in Branch, PipelineDeploys(k, a, b)
      PROVE  UNCHANGED <<row, vault, gitlab, req>>
  BY <1>3 DEF PipelineDeploys
<1>. QED  BY <1>2, <1>3 DEF WiringNext, project

LEMMA WorkStep == WiringInv /\ WorkInv /\ [WiringNext]_project => WorkInv'
<1>. SUFFICES ASSUME WiringInv, WorkInv, [WiringNext]_project PROVE WorkInv'
  OBVIOUS
<1>1. ASSUME UNCHANGED <<row, vault, gitlab, req>> PROVE WorkInv'
  BY <1>1 DEF WorkInv, Unused, OpsOf
<1>. QED  BY <1>1, WorkNextIs, WorkStarted, WorkCalled

LEMMA WorkInit == WiringInit => WorkInv
<1>. SUFFICES ASSUME WiringInit PROVE WorkInv
  OBVIOUS
<1>1. PICK in \in Creations : row = NewDoc(in) /\ req = [r \in Req |-> Idle]
  BY DEF WiringInit
<1>2. row.profiles = in.profiles
  BY <1>1 DEF NewDoc
<1>3. \A o \in Ops : o.op = "upload" => in.profiles[o.profile] = Nil
  BY ProfilesAssumption
<1>4. \A r \in Req : req[r].st = "idle"
  BY <1>1, IdleOK
<1>. QED  BY <1>2, <1>3, <1>4 DEF WorkInv, OpsOf

-----------------------------------------------------------------------------
(***************************************************************************)
(* A run that took its course took it before its last step too.            *)
(***************************************************************************)
LEMMA CourseSame ==
    ASSUME NEW v \in Nat, NEW w \in Nat, v <= w, NEW x, x.st = "busy" => x.doc.ver \in Nat /\ x.doc.ver <= v,
           Void(x) \/ ~Lost(w, x)
    PROVE  /\ Void(x) \/ ~Lost(v, x)
           /\ Active(x) => w = v
<1>1. ASSUME x.st = "busy", x.doc.ver = w PROVE v = w
  BY <1>1
<1>2. x.st = "busy" /\ Wins(w, x) => v = w
  BY <1>1 DEF Wins
<1>3. Lost(v, x) => Lost(w, x)
  BY <1>2 DEF Lost
<1>4. Active(x) => w = v
  BY <1>2 DEF Active, Lost
<1>. QED  BY <1>3, <1>4

LEMMA VoidCalled ==
    ASSUME WiringInv, WorkInv, NEW r \in Req, Called(r),
           Void(req'[r]) \/ ~Lost(row'.ver, req'[r])
    PROVE  Void(req[r]) <=> Void(req'[r])
<1>. DEFINE x == req[r]
            y == req'[r]
            S == Range(x.todo)
            T == Range(y.todo)
<1>1. x.st = "busy" /\ WorkFits(x)
  BY CalledReq DEF WorkInv
<1>2. CASE Stops(x, y)
  <2>1. /\ y.st \in {"done", "failed", "rejected"} /\ y.wrote = x.wrote
        /\ y.st = "done" => x.todo = <<>>
        /\ y.st = "rejected" => x.todo # <<>> /\ Head(x.todo).c = "reject"
    BY <1>2 DEF Stops
  <2>2. y.st = "rejected" => Rejecting(S)
    BY <1>1, <2>1, CallTyped DEF Rejecting, Call
  <2>3. y.st = "done" => ~Rejecting(S)
    BY <2>1 DEF Rejecting, Range
  <2>4. y.st = "failed" /\ Rejecting(S) => FALSE
    <3>. SUFFICES ASSUME y.st = "failed", Rejecting(S) PROVE FALSE
      OBVIOUS
    <3>1. ~x.wrote
      BY <1>1 DEF WorkFits, Rejecting
    <3>. QED  BY <2>1, <3>1 DEF Void, Lost
  <2>. QED  BY <1>1, <2>1, <2>2, <2>3, <2>4 DEF Void
<1>3. CASE ~Stops(x, y)
  <2>1. y.st = "busy"
    BY <1>3, CalledReq DEF Goes1
  <2>2. T \subseteq S /\ S \subseteq T \cup {Call(r)} /\ Call(r).c # "reject"
    BY <2>1, CalledStays
  <2>3. Rejecting(S) <=> Rejecting(T)
    BY <2>2 DEF Rejecting
  <2>. QED  BY <1>1, <2>1, <2>3 DEF Void
<1>. QED  BY <1>2, <1>3

LEMMA CourseOne ==
    ASSUME WiringInv, ProfileInv, WorkInv, NEW r \in Req, Called(r),
           req[r].op.op \notin {"content", "metadata"},
           Void(req'[r]) \/ ~Lost(row'.ver, req'[r])
    PROVE  /\ Void(req[r]) <=> Void(req'[r])
           /\ Void(req[r]) \/ ~Lost(row.ver, req[r])
           /\ Active(req[r]) => \/ Active(req'[r])
                                \/ /\ Saves(r) /\ Versioned(r) /\ Call(r).at = Nil
                                   /\ row'.ver = row.ver + 1
<1>. DEFINE x == req[r]
            y == req'[r]
            c == Call(r)
            S == Range(x.todo)
            T == Range(y.todo)
<1>1. Void(x) <=> Void(y)
  BY VoidCalled
<1>2. x.st = "busy" /\ x.doc \in Doc
  BY CalledReq DEF WiringInv, ReqOK
<1>3. ASSUME ~Void(x), ~x.wrote, ~(Saves(r) /\ Versioned(r)), Wins(row'.ver, y) => Wins(row.ver, x)
      PROVE  /\ ~Lost(row.ver, x)
             /\ Active(x) => Active(y)
  <2>1. ~y.wrote
    BY <1>3, CalledReq, SaveChanges DEF Stops
  <2>2. ~Lost(row'.ver, y)
    BY <1>1, <1>3
  <2>3. y.st = "busy"
    BY <2>1, <2>2, <1>1, <1>3, CalledReq DEF Lost, Void, Stops, Goes1
  <2>4. Wins(row'.ver, y)
    BY <2>1, <2>2, <2>3 DEF Lost
  <2>5. Active(y)
    BY <1>1, <1>3, <2>1, <2>3 DEF Active
  <2>6. ~Lost(row.ver, x)
    BY <1>2, <1>3, <2>4 DEF Lost
  <2>. QED  BY <2>5, <2>6
<1>4. CASE ~Saves(r)
  <2>1. row' = row
    BY <1>4, CalledReq
  <2>2. Wins(row'.ver, y) => Wins(row.ver, x)
    <3>1. CASE y.st = "busy"
      <4>1. y.doc = x.doc /\ T \subseteq S
        BY <1>4, <3>1, CalledStays
      <4>. QED  BY <2>1, <4>1 DEF Wins
    <3>2. CASE y.st # "busy"
      <4>1. y.todo = <<>>
        BY <3>2, CalledReq DEF WiringInv, ReqOK
      <4>2. T = {}
        BY <4>1 DEF Range
      <4>. QED  BY <4>2 DEF Wins
    <3>. QED  BY <3>1, <3>2
  <2>3. ~Void(x) /\ ~x.wrote => ~Lost(row.ver, x) /\ (Active(x) => Active(y))
    BY <1>3, <1>4, <2>2
  <2>. QED  BY <1>1, <2>3 DEF Lost, Active
<1>5. CASE Saves(r)
  <2>1. /\ SaveFits(x.op, x.doc, c) /\ c \in S
        /\ Versioned(r) => row.ver = x.doc.ver
        /\ Versioned(r) <=> c.at # Nil \/ c.new.targets # x.doc.targets \/ c.new.profiles # x.doc.profiles
        /\ row'.ver = (IF c.at = Nil /\ Versioned(r) THEN row.ver + 1 ELSE row.ver)
        /\ c.c = "save"
    BY <1>5, SaveIs
  <2>2. /\ y.doc.targets = c.new.targets /\ y.doc.profiles = c.new.profiles
        /\ y.doc.ver = (IF Versioned(r) THEN row'.ver ELSE x.doc.ver)
    BY <1>5, SaveChanges
  <2>3. c.at = Nil
    BY <2>1 DEF SaveFits
  <2>4. T \subseteq S
    <3>1. y.st = "busy"
      BY <1>5, SaveChanges
    <3>. QED  BY <3>1, CalledStays
  <2>. HIDE DEF x, y, c, S, T
  <2>5. CASE ~Versioned(r)
    <3>1. Wins(row'.ver, y) => Wins(row.ver, x)
      BY <2>1, <2>2, <2>3, <2>4, <2>5 DEF Wins, Alters, S, T
    <3>2. ~Void(x) /\ ~x.wrote => ~Lost(row.ver, x) /\ (Active(x) => Active(y))
      BY <1>3, <2>5, <3>1
    <3>. QED  BY <1>1, <3>2 DEF Lost, Active, x, y
  <2>6. CASE Versioned(r)
    <3>1. Wins(row.ver, x)
      BY <2>1, <2>3, <2>6 DEF Wins, Alters, S
    <3>2. ~Lost(row.ver, x)
      BY <1>2, <3>1 DEF Lost
    <3>. QED  BY <1>1, <1>5, <2>1, <2>3, <2>6, <3>2 DEF x, y, c
  <2>. QED  BY <2>5, <2>6
<1>. QED  BY <1>4, <1>5

LEMMA CourseCalled ==
    ASSUME WiringInv, ProfileInv, WorkInv, NEW r \in Req, Called(r),
           NEW K, "content" \notin K, "metadata" \notin K, Course(row'.ver, req', K)
    PROVE  /\ Course(row.ver, req, K)
           /\ \A q \in Req : req[q].op.op \in K => (Void(req[q]) <=> Void(req'[q]))
<1>1. \A q \in Req : req'[q].op = req[q].op
  BY CalledStays
<1>2. row.ver \in Nat /\ row' \in Doc /\ row'.ver \in Nat
  <2>1. WiringInv'
    BY CalledOK
  <2>. QED  BY <2>1 DEF WiringInv, Doc
<1>3. row.ver <= row'.ver
  <2>1. CASE Saves(r)
    <3>1. row'.ver = row.ver \/ row'.ver = row.ver + 1
      BY <2>1, SaveIs
    <3>. QED  BY <1>2, <3>1
  <2>2. CASE ~Saves(r)
    BY <1>2, <2>2, CalledReq
  <2>. QED  BY <2>1, <2>2
<1>4. ASSUME NEW q \in Req, req[q].op.op \in K
      PROVE  /\ Void(req'[q]) \/ ~Lost(row'.ver, req'[q])
             /\ req[q].st = "busy" => req[q].doc.ver \in Nat /\ req[q].doc.ver <= row.ver
  <2>1. Void(req'[q]) \/ ~Lost(row'.ver, req'[q])
    BY <1>1, <1>4 DEF Course
  <2>2. req[q].st = "busy" => req[q].doc.ver \in Nat /\ req[q].doc.ver <= row.ver
    BY DEF ProfileInv, ProfileFits, VersionFits, WiringInv, ReqOK, Doc
  <2>. QED  BY <2>1, <2>2
<1>5. ASSUME req[r].op.op \in K
      PROVE  /\ Void(req[r]) <=> Void(req'[r])
             /\ Void(req[r]) \/ ~Lost(row.ver, req[r])
             /\ Active(req[r]) => \/ Active(req'[r])
                                  \/ /\ Saves(r) /\ Versioned(r) /\ Call(r).at = Nil
                                     /\ row'.ver = row.ver + 1
  BY <1>4, <1>5, CourseOne
<1>6. ASSUME NEW q \in Req \ {r}, req[q].op.op \in K
      PROVE  /\ req'[q] = req[q]
             /\ Void(req[q]) \/ ~Lost(row.ver, req[q])
             /\ Active(req[q]) => row'.ver = row.ver
  <2>1. req'[q] = req[q]
    BY CalledReq
  <2>2. /\ Void(req[q]) \/ ~Lost(row'.ver, req[q])
        /\ req[q].st = "busy" => req[q].doc.ver \in Nat /\ req[q].doc.ver <= row.ver
    BY <1>4, <1>6, <2>1
  <2>. QED  BY <1>2, <1>3, <2>1, <2>2, CourseSame
<1>7. \A q \in Req : req[q].op.op \in K => Void(req[q]) \/ ~Lost(row.ver, req[q])
  BY <1>5, <1>6
<1>8. \A q \in Req : req[q].op.op \in K => (Void(req[q]) <=> Void(req'[q]))
  BY <1>5, <1>6
<1>9. ASSUME NEW p \in Req, NEW q \in Req, req[p].op.op \in K, Active(req[p]),
             req[q].op.op \in K, Active(req[q]), p # q
      PROVE  FALSE
  <2>1. row'.ver = row.ver
    <3>1. p # r \/ q # r
      BY <1>9
    <3>. QED  BY <1>6, <1>9, <3>1
  <2>2. Active(req'[p])
    <3>1. CASE p = r
      <4>1. row'.ver # row.ver + 1
        BY <1>2, <2>1
      <4>. QED  BY <1>5, <1>9, <3>1, <4>1
    <3>2. CASE p # r
      BY <1>6, <1>9, <3>2
    <3>. QED  BY <3>1, <3>2
  <2>3. Active(req'[q])
    <3>1. CASE q = r
      <4>1. row'.ver # row.ver + 1
        BY <1>2, <2>1
      <4>. QED  BY <1>5, <1>9, <3>1, <4>1
    <3>2. CASE q # r
      BY <1>6, <1>9, <3>2
    <3>. QED  BY <3>1, <3>2
  <2>. QED  BY <1>1, <1>9, <2>2, <2>3 DEF Course
<1>. QED  BY <1>7, <1>8, <1>9 DEF Course

(* Starting a request changes nothing about the others.                     *)
LEMMA CourseStarted ==
    ASSUME WiringInv, NEW r \in Req, NEW o \in Ops, NEW plan, Begins(r, o, plan),
           Planned(o, row, plan), NEW K, "none" \notin K, Course(row'.ver, req', K)
    PROVE  /\ Course(row.ver, req, K)
           /\ req[r].op.op \notin K /\ req[r].op.op = "none"
           /\ \A q \in Req \ {r} : req'[q] = req[q]
<1>1. row' = row
  BY DEF Begins
<1>2. /\ \A q \in Req \ {r} : req'[q] = req[q]
      /\ req[r].op.op = "none"
  <2>1. (\A q \in Req \ {r} : req'[q] = req[q]) /\ req[r].st = "idle"
    BY BeginsOK DEF WiringInv
  <2>. QED  BY <2>1 DEF WiringInv, ReqOK
<1>3. \A q \in Req : req[q].op.op \in K => req'[q] = req[q]
  BY <1>2
<1>. QED  BY <1>1, <1>2, <1>3 DEF Course

-----------------------------------------------------------------------------
(***************************************************************************)
(* What one call does to GitLab, g before it and h after it.               *)
(***************************************************************************)
Effect(c, g, h) ==
    /\ \A k \in Key :
          /\ c.c = "publish" /\ c.k = k =>
                h.ref[k] = c.t.ref /\ \A a \in AppsOf(c.t) : h.host[k][a] = c.t.host[a]
          /\ c.c = "no-ref" /\ c.k = k => h.ref[k] = NoRef
          /\ ~(c.c \in {"publish", "no-ref"} /\ c.k = k) => h.ref[k] = g.ref[k]
          /\ \A a \in App :
                /\ c.c = "unscope" /\ c.k = k /\ c.a = a => h.host[k][a] = Nil
                /\ ~(c.c = "unscope" /\ c.k = k /\ c.a = a) /\ ~(c.c = "publish" /\ c.k = k /\ a \in AppsOf(c.t))
                      => h.host[k][a] = g.host[k][a]
    /\ \A b \in Branch :
          /\ c.c = "commit" /\ c.b = b =>
                /\ h.jobs[b].deploy = DeployJobs(c.ts)
                /\ "deploy-targets" \in ManagedIncludes(c.ts) => Included2(h, b)
          /\ ~(c.c = "commit" /\ c.b = b) => h.jobs[b] = g.jobs[b]
          /\ ~(c.c \in {"commit", "root"} /\ c.b = b) => h.root[b] = g.root[b]

LEMMA EffectNone ==
    ASSUME NEW c, c.c \notin {"publish", "no-ref", "unscope", "commit", "root"}, NEW g, NEW h,
           h.ref = g.ref, h.host = g.host, h.jobs = g.jobs, h.root = g.root
    PROVE  Effect(c, g, h)
BY DEF Effect

LEMMA EffectIs ==
    ASSUME WiringInv, NEW r \in Req, Called(r), req'[r].st = "busy", Call(r).c # "app-host"
    PROVE  Effect(Call(r), gitlab, gitlab')
<1>. DEFINE c == Call(r)
            k == c.k
<1>1. /\ gitlab \in GitLab /\ \A b \in Branch : gitlab.root[b] \in RootsOf(b)
  BY DEF WiringInv
<1>2. /\ gitlab.host \in [Key -> [App -> AnyHost]] /\ gitlab.ref \in [Key -> Branch \cup {NoRef, Nil}]
      /\ gitlab.jobs \in [Branch -> Jobs] /\ gitlab.root \in [Branch -> AnyRoot]
  BY <1>1 DEF GitLab
<1>3. CASE SetsVariables(r)
  <2>1. /\ req[r].st = "busy" /\ req[r].todo # <<>>
        /\ c.c \in {"unscope", "publish", "no-ref"}
    BY <1>3 DEF SetsVariables, Next1, Call
  <2>2. /\ k \in Key /\ (c.c = "unscope" => c.a \in App) /\ (c.c = "publish" => c.t \in GoodTarget)
    BY <2>1, CallTyped DEF Typed
  <2>3. CASE c.c = "unscope"
    <3>1. gitlab' = [gitlab EXCEPT !.host[k][c.a] = Nil]
      BY <1>3, <2>3 DEF SetsVariables, Next1, Call
    <3>. HIDE DEF c, k
    <3>2. /\ gitlab'.ref = gitlab.ref /\ gitlab'.jobs = gitlab.jobs /\ gitlab'.root = gitlab.root
          /\ gitlab'.host = [gitlab.host EXCEPT ![k] = [gitlab.host[k] EXCEPT ![c.a] = Nil]]
      BY <1>1, <1>2, <2>2, <2>3, <3>1 DEF GitLab
    <3>3. /\ gitlab'.host[k][c.a] = Nil
          /\ \A j \in Key : \A a \in App : ~(j = k /\ a = c.a) => gitlab'.host[j][a] = gitlab.host[j][a]
      BY <1>2, <2>2, <2>3, <3>2
    <3>4. c.k = k
      BY DEF k
    <3>5. Effect(c, gitlab, gitlab')
      BY <2>3, <3>2, <3>3, <3>4 DEF Effect
    <3>. QED  BY <3>5 DEF c
  <2>4. CASE c.c = "publish"
    <3>. DEFINE hs == [a \in App |-> IF a \in AppsOf(c.t) THEN c.t.host[a] ELSE gitlab.host[k][a]]
    <3>1. gitlab' = [gitlab EXCEPT !.ref[k] = c.t.ref, !.host[k] = hs]
      BY <1>3, <2>4 DEF SetsVariables, Next1, Call
    <3>2. /\ \A a \in App : a \in AppsOf(c.t) => hs[a] = c.t.host[a]
          /\ \A a \in App : a \notin AppsOf(c.t) => hs[a] = gitlab.host[k][a]
      OBVIOUS
    <3>3. AppsOf(c.t) \subseteq App
      BY DEF AppsOf
    <3>4. c.k = k
      OBVIOUS
    <3>. HIDE DEF hs, c, k
    <3>5. /\ gitlab'.root = gitlab.root /\ gitlab'.jobs = gitlab.jobs
          /\ gitlab'.ref = [gitlab.ref EXCEPT ![k] = c.t.ref]
          /\ gitlab'.host = [gitlab.host EXCEPT ![k] = hs]
      BY <1>1, <3>1 DEF GitLab
    <3>6. /\ gitlab'.ref[k] = c.t.ref /\ gitlab'.host[k] = hs
          /\ \A j \in Key \ {k} : gitlab'.ref[j] = gitlab.ref[j] /\ gitlab'.host[j] = gitlab.host[j]
      BY <1>2, <2>2, <3>5
    <3>7. Effect(c, gitlab, gitlab')
      BY <2>4, <3>2, <3>3, <3>4, <3>5, <3>6 DEF Effect
    <3>. QED  BY <3>7 DEF c
  <2>5. CASE c.c = "no-ref"
    <3>1. gitlab' = [gitlab EXCEPT !.ref[k] = NoRef]
      BY <1>3, <2>5 DEF SetsVariables, Next1, Call
    <3>2. c.k = k
      OBVIOUS
    <3>. HIDE DEF c, k
    <3>3. /\ gitlab'.root = gitlab.root /\ gitlab'.jobs = gitlab.jobs /\ gitlab'.host = gitlab.host
          /\ gitlab'.ref = [gitlab.ref EXCEPT ![k] = NoRef]
      BY <1>1, <3>1 DEF GitLab
    <3>4. gitlab'.ref[k] = NoRef /\ \A j \in Key \ {k} : gitlab'.ref[j] = gitlab.ref[j]
      BY <1>2, <2>2, <3>3
    <3>5. Effect(c, gitlab, gitlab')
      BY <2>5, <3>2, <3>3, <3>4 DEF Effect
    <3>. QED  BY <3>5 DEF c
  <2>. QED  BY <2>1, <2>3, <2>4, <2>5
<1>4. CASE Commits(r)
  <2>. DEFINE b == c.b
              m == req[r].mem.root
              ts == c.ts
              root == MergedRoot(m, ManagedIncludes(ts))
              kept == IF root = Nil THEN gitlab.root[b] ELSE root
  <2>1. /\ req[r].st = "busy" /\ req[r].todo # <<>> /\ c.c \in {"commit", "root"}
        /\ c.c = "commit" => gitlab' = [gitlab EXCEPT !.jobs[b] = Fragment(ts), !.root[b] = kept]
        /\ c.c = "root" => gitlab' = [gitlab EXCEPT !.root[b] = kept]
    BY <1>4 DEF Commits, Next1, Call
  <2>2. b \in Branch /\ m \in RootsOf(b)
    BY <2>1, CallTyped DEF Typed, Remembers
  <2>3. /\ UserRoots[b].shape = "garbage" => root = Nil
        /\ UserRoots[b].shape # "garbage" => root # Nil /\ root.includes = ManagedIncludes(ts)
    BY <2>2, MergedOK
  <2>4. "deploy-targets" \in ManagedIncludes(ts) =>
           "deploy-targets" \in kept.includes \/ UserRoots[b].shape = "garbage"
    BY <2>3
  <2>5. Fragment(ts).deploy = DeployJobs(ts)
    BY DEF Fragment
  <2>6. c.b = b /\ c.ts = ts
    OBVIOUS
  <2>. HIDE DEF c, b, kept, ts
  <2>7. /\ gitlab'.ref = gitlab.ref /\ gitlab'.host = gitlab.host
        /\ gitlab'.root = [gitlab.root EXCEPT ![b] = kept]
        /\ c.c = "commit" => gitlab'.jobs = [gitlab.jobs EXCEPT ![b] = Fragment(ts)]
        /\ c.c = "root" => gitlab'.jobs = gitlab.jobs
    BY <1>1, <2>1 DEF GitLab
  <2>8. /\ gitlab'.root[b] = kept /\ \A a \in Branch \ {b} : gitlab'.root[a] = gitlab.root[a]
        /\ c.c = "commit" => gitlab'.jobs[b] = Fragment(ts)
        /\ \A a \in Branch \ {b} : gitlab'.jobs[a] = gitlab.jobs[a]
        /\ c.c = "root" => gitlab'.jobs = gitlab.jobs
    BY <1>2, <2>1, <2>2, <2>7
  <2>9. Effect(c, gitlab, gitlab')
    BY <2>1, <2>4, <2>5, <2>6, <2>7, <2>8 DEF Effect, Included2
  <2>. QED  BY <2>9 DEF c
<1>5. CASE CommitsChart(r)
  <2>1. c.c = "chart" /\ gitlab' = [gitlab EXCEPT !.chart[c.b] = c.on]
    BY <1>5 DEF CommitsChart, Next1, Call
  <2>. HIDE DEF c
  <2>2. /\ gitlab'.ref = gitlab.ref /\ gitlab'.host = gitlab.host /\ gitlab'.jobs = gitlab.jobs
        /\ gitlab'.root = gitlab.root
    BY <1>1, <2>1 DEF GitLab
  <2>3. Effect(c, gitlab, gitlab')
    BY <2>1, <2>2, EffectNone
  <2>. QED  BY <2>3 DEF c
<1>6. CASE \/ TearsDown(r) \/ Seeds(r) \/ ReadsRoot(r) \/ ReadsSecret(r) \/ MergesSecret(r)
           \/ TouchesBody(r) \/ WritesIndex(r) \/ Saves(r)
  <2>1. gitlab' = gitlab /\ c.c \notin {"publish", "no-ref", "unscope", "commit", "root"}
    BY <1>6 DEF TearsDown, Seeds, ReadsRoot, ReadsSecret, MergesSecret, TouchesBody, WritesIndex,
                Saves, Next1, Call
  <2>. QED  BY <2>1, EffectNone
<1>7. CASE Throws1(r) \/ Rejects(r) \/ Answers(r)
  <2>1. PICK st \in {"done", "failed", "rejected"} : req' = Ended(r, st)
    BY <1>7 DEF Throws1, Rejects, Answers
  <2>2. req'[r].st = st
    BY <2>1 DEF Ended, WiringInv, ReqOK, ReqField
  <2>. QED  BY <2>2
<1>. QED  BY <1>3, <1>4, <1>5, <1>6, <1>7 DEF Called

(* Making a call of a plan whose calls are for the targets ts.              *)
CallFor(c, M, ts) ==
    /\ c.c = "publish" => c.t = ts[c.k] /\ c.t # Nil
    /\ c.c = "unscope" => c.a \notin AppsOf(ts[c.k])
    /\ c.c = "no-ref" => ts[c.k] = Nil
    /\ c.c = "commit" => c.ts = ts
    /\ c.c = "root" => M # {}

LEMMA FollowsOn ==
    ASSUME NEW g, NEW h, NEW M, NEW ts, NEW S, NEW T, NEW c, NEW k \in Key,
           S \subseteq T \cup {c}, Effect(c, g, h), CallFor(c, M, ts), Follows(g, M, k, ts, S)
    PROVE  Follows(h, M, k, ts, T)
<1>1. AppsOf(ts[k]) \subseteq App
  BY DEF AppsOf
<1>2. ASSUME ts[k] # Nil, ts[k].on \/ M = {}
      PROVE  \/ \E e \in T : e.c = "publish" /\ e.k = k
             \/ h.ref[k] = ts[k].ref /\ \A a \in AppsOf(ts[k]) : h.host[k][a] = ts[k].host[a]
  <2>1. CASE c.c = "publish" /\ c.k = k
    BY <2>1 DEF Effect, CallFor
  <2>2. CASE ~(c.c = "publish" /\ c.k = k)
    <3>1. CASE \E e \in S : e.c = "publish" /\ e.k = k
      BY <2>2, <3>1
    <3>2. CASE g.ref[k] = ts[k].ref /\ \A a \in AppsOf(ts[k]) : g.host[k][a] = ts[k].host[a]
      <4>1. h.ref[k] = g.ref[k]
        BY <1>2, <2>2 DEF Effect, CallFor
      <4>2. \A a \in AppsOf(ts[k]) : h.host[k][a] = g.host[k][a]
        BY <1>1, <2>2 DEF Effect, CallFor
      <4>. QED  BY <3>2, <4>1, <4>2
    <3>. QED  BY <1>2, <3>1, <3>2 DEF Follows
  <2>. QED  BY <2>1, <2>2
<1>3. ASSUME ts[k] = Nil
      PROVE  (\E e \in T : e.c = "no-ref" /\ e.k = k) \/ h.ref[k] \in {NoRef, Nil}
  <2>1. CASE c.c = "no-ref" /\ c.k = k
    BY <2>1 DEF Effect
  <2>2. CASE ~(c.c = "no-ref" /\ c.k = k)
    <3>1. h.ref[k] = g.ref[k]
      BY <1>3, <2>2 DEF Effect, CallFor
    <3>. QED  BY <1>3, <2>2, <3>1 DEF Follows
  <2>. QED  BY <2>1, <2>2
<1>4. ASSUME NEW a \in App \ AppsOf(ts[k])
      PROVE  h.host[k][a] = Nil \/ \E e \in T : e.c = "unscope" /\ e.k = k /\ e.a = a
  <2>1. CASE c.c = "unscope" /\ c.k = k /\ c.a = a
    BY <2>1 DEF Effect
  <2>2. CASE ~(c.c = "unscope" /\ c.k = k /\ c.a = a)
    <3>1. h.host[k][a] = g.host[k][a]
      BY <2>2 DEF Effect, CallFor
    <3>. QED  BY <2>2, <3>1 DEF Follows
  <2>. QED  BY <2>1, <2>2
<1>. QED  BY <1>2, <1>3, <1>4 DEF Follows

LEMMA JobsOn ==
    ASSUME NEW g, NEW h, NEW U, NEW ts \in [Key -> GoodTarget \cup {Nil}], NEW S, NEW T, NEW c,
           NEW k \in Key, S \subseteq T \cup {c}, Effect(c, g, h), c.c = "commit" => c.ts = ts,
           c.c # "root", JobsFollow(g, U, k, ts, S)
    PROVE  JobsFollow(h, U, k, ts, T)
<1>. SUFFICES ASSUME ts[k] # Nil, ts[k].ref # NoRef
              PROVE  (\E e \in T : e.c = "commit" /\ e.b = ts[k].ref) \/ JobsFit(h, U, k, ts[k])
  BY DEF JobsFollow
<1>. DEFINE t == ts[k]
            b == t.ref
<1>1. t \in GoodTarget
  OBVIOUS
<1>2. b \in Branch /\ AppsOf(t) \subseteq App /\ AppsOf(t) # {}
  BY <1>1 DEF GoodTarget, Target, AppsOf
<1>3. CASE c.c = "commit" /\ c.b = b
  <2>1. /\ h.jobs[b].deploy = DeployJobs(ts)
        /\ "deploy-targets" \in ManagedIncludes(ts) => Included2(h, b)
    BY <1>2, <1>3 DEF Effect
  <2>2. \A a \in App : <<k, a>> \in DeployJobs(ts) <=> Generates(t) /\ a \in AppsOf(t)
    BY DEF DeployJobs
  <2>3. Generates(t) => DeployJobs(ts) # {}
    BY <1>2, <2>2
  <2>4. Generates(t) => "deploy-targets" \in ManagedIncludes(ts)
    BY <2>3 DEF ManagedIncludes
  <2>5. JobsFit(h, U, k, t)
    BY <1>2, <2>1, <2>2, <2>4 DEF JobsFit
  <2>. QED  BY <2>5
<1>4. CASE ~(c.c = "commit" /\ c.b = b)
  <2>1. h.jobs[b] = g.jobs[b] /\ h.root[b] = g.root[b]
    BY <1>2, <1>4 DEF Effect
  <2>2. JobsFit(g, U, k, t) => JobsFit(h, U, k, t)
    BY <2>1 DEF JobsFit, Included2
  <2>3. (\E e \in S : e.c = "commit" /\ e.b = b) \/ JobsFit(g, U, k, t)
    BY DEF JobsFollow
  <2>. QED  BY <1>4, <2>2, <2>3
<1>. QED  BY <1>3, <1>4

LEMMA WiringOn ==
    ASSUME NEW g, NEW h, NEW M, NEW U, NEW ts \in [Key -> GoodTarget \cup {Nil}], NEW S, NEW T,
           NEW c, S \subseteq T \cup {c}, Effect(c, g, h), CallFor(c, M, ts),
           Wiring(g, M, U, ts, S)
    PROVE  Wiring(h, M, U, ts, T)
<1>. SUFFICES ASSUME NEW k \in Key
              PROVE  Follows(h, M, k, ts, T) /\ (M = {} => JobsFollow(h, U, k, ts, T))
  BY DEF Wiring
<1>1. Follows(g, M, k, ts, S) /\ (M = {} => JobsFollow(g, U, k, ts, S))
  BY DEF Wiring
<1>2. Follows(h, M, k, ts, T)
  BY <1>1, FollowsOn
<1>3. ASSUME M = {} PROVE JobsFollow(h, U, k, ts, T)
  <2>1. JobsFollow(g, U, k, ts, S) /\ c.c # "root" /\ (c.c = "commit" => c.ts = ts)
    BY <1>1, <1>3 DEF CallFor
  <2>. QED  BY <2>1, JobsOn
<1>. QED  BY <1>2, <1>3

(* More migrations, fewer upserts, more calls left: less is asked.          *)
LEMMA WiringWeaker ==
    ASSUME NEW g, NEW ts, NEW M, NEW N, M \subseteq N, NEW U, NEW V, V \subseteq U, NEW S, NEW T,
           S \subseteq T, Wiring(g, M, U, ts, S)
    PROVE  Wiring(g, N, V, ts, T)
<1>. SUFFICES ASSUME NEW k \in Key
              PROVE  Follows(g, N, k, ts, T) /\ (N = {} => JobsFollow(g, V, k, ts, T))
  BY DEF Wiring
<1>1. Follows(g, M, k, ts, S) /\ (M = {} => JobsFollow(g, U, k, ts, S))
  BY DEF Wiring
<1>2. Follows(g, N, k, ts, T)
  BY <1>1 DEF Follows
<1>3. ASSUME N = {} PROVE JobsFollow(g, V, k, ts, T)
  BY <1>1, <1>3 DEF JobsFollow, JobsFit
<1>. QED  BY <1>2, <1>3

LEMMA WiringRests ==
    ASSUME NEW g, NEW ts, NEW M, NEW U, NEW S, Wiring(g, M, U, ts, S),
           \A c \in S : c.c \notin {"publish", "no-ref", "unscope", "commit"}
    PROVE  Wiring(g, M, U, ts, {})
<1>. SUFFICES ASSUME NEW k \in Key
              PROVE  Follows(g, M, k, ts, {}) /\ (M = {} => JobsFollow(g, U, k, ts, {}))
  BY DEF Wiring
<1>1. Follows(g, M, k, ts, S) /\ (M = {} => JobsFollow(g, U, k, ts, S))
  BY DEF Wiring
<1>2. Follows(g, M, k, ts, {})
  BY <1>1 DEF Follows
<1>3. ASSUME M = {} PROVE JobsFollow(g, U, k, ts, {})
  BY <1>1, <1>3 DEF JobsFollow
<1>. QED  BY <1>2, <1>3

(* A plan that starts where GitLab follows the row sees to what it changes. *)
LEMMA WiringStarts1 ==
    ASSUME NEW g, NEW ds, NEW ts, NEW M, NEW N, M \subseteq N, NEW U, NEW V, NEW o, NEW S,
           o.op = "migrate" => N # {},
           \A k \in V : k \in U \/ (o.op = "upsert" /\ o.key = k),
           Wiring(g, M, U, ds, {}), TargetMoves(o, ds, ts, S)
    PROVE  Wiring(g, N, V, ts, S)
<1>. SUFFICES ASSUME NEW k \in Key
              PROVE  Follows(g, N, k, ts, S) /\ (N = {} => JobsFollow(g, V, k, ts, S))
  BY DEF Wiring
<1>1. Follows(g, M, k, ds, {}) /\ (M = {} => JobsFollow(g, U, k, ds, {}))
  BY DEF Wiring
<1>2. /\ ts[k] # Nil /\ (ts[k].on \/ o.op # "migrate") =>
            ts[k] = ds[k] \/ \E c \in S : c.c = "publish" /\ c.k = k
      /\ ts[k] = Nil => ds[k] = Nil \/ \E c \in S : c.c = "no-ref" /\ c.k = k
      /\ \A a \in App \ AppsOf(ts[k]) :
            a \notin AppsOf(ds[k]) \/ \E c \in S : c.c = "unscope" /\ c.k = k /\ c.a = a
      /\ ts[k] # Nil /\ ts[k].ref # NoRef /\ o.op # "migrate" =>
            \/ ts[k] = ds[k] /\ (o.op = "upsert" => o.key # k)
            \/ \E c \in S : c.c = "commit" /\ c.b = ts[k].ref
  BY DEF TargetMoves
<1>3. Follows(g, N, k, ts, S)
  <2>1. ASSUME ts[k] # Nil, ts[k].on \/ N = {}
        PROVE  \/ \E c \in S : c.c = "publish" /\ c.k = k
               \/ g.ref[k] = ts[k].ref /\ \A a \in AppsOf(ts[k]) : g.host[k][a] = ts[k].host[a]
    <3>1. ts[k] = ds[k] \/ \E c \in S : c.c = "publish" /\ c.k = k
      BY <1>2, <2>1
    <3>2. CASE ts[k] = ds[k]
      <4>1. ds[k] # Nil /\ (ds[k].on \/ M = {})
        BY <2>1, <3>2
      <4>. QED  BY <1>1, <3>2, <4>1 DEF Follows
    <3>. QED  BY <3>1, <3>2
  <2>2. ts[k] = Nil => (\E c \in S : c.c = "no-ref" /\ c.k = k) \/ g.ref[k] \in {NoRef, Nil}
    BY <1>1, <1>2 DEF Follows
  <2>3. \A a \in App \ AppsOf(ts[k]) :
           g.host[k][a] = Nil \/ \E c \in S : c.c = "unscope" /\ c.k = k /\ c.a = a
    BY <1>1, <1>2 DEF Follows
  <2>. QED  BY <2>1, <2>2, <2>3 DEF Follows
<1>4. ASSUME N = {} PROVE JobsFollow(g, V, k, ts, S)
  <2>. SUFFICES ASSUME ts[k] # Nil, ts[k].ref # NoRef, ts[k] = ds[k], o.op = "upsert" => o.key # k
                PROVE  JobsFit(g, V, k, ts[k])
    BY <1>2, <1>4 DEF JobsFollow
  <2>1. JobsFit(g, U, k, ts[k])
    BY <1>1, <1>4 DEF JobsFollow
  <2>. QED  BY <2>1 DEF JobsFit
<1>. QED  BY <1>3, <1>4

LEMMA FollowStarted ==
    ASSUME WiringInv, FollowInv, NEW r \in Req, NEW o \in Ops, NEW plan, Begins(r, o, plan),
           Planned(o, row, plan), PlanWork(o, row, Range(plan))
    PROVE  FollowInv'
<1>. DEFINE S == Range(plan)
            M == Migrations
            U == Upserted
            N == Migrations'
            V == Upserted'
<1>. SUFFICES ASSUME OpsOf({"hostname"})' = {}, Course(row'.ver, req', Targeted)
              PROVE  /\ (\A q \in OpsOf(Targeted)' : ~Active(req'[q])) =>
                           Wiring(gitlab', N, V, row'.targets, {})
                     /\ \A q \in OpsOf(Targeted)' : Active(req'[q]) =>
                           \A c \in Range(req'[q].todo) : c.c = "save" =>
                              Wiring(gitlab', N, V, c.new.targets, Range(req'[q].todo))
  BY DEF FollowInv
<1>1. row' = row /\ gitlab' = gitlab
  BY DEF Begins
<1>2. /\ \A q \in Req \ {r} : req'[q] = req[q]
      /\ req'[r].st = "busy" /\ req'[r].wrote = FALSE
      /\ req'[r].op = o /\ req'[r].doc = row /\ req'[r].todo = plan
  BY BeginsOK DEF WiringInv
<1>3. /\ Course(row.ver, req, Targeted)
      /\ req[r].op.op = "none"
  BY CourseStarted DEF Targeted
<1>4. OpsOf({"hostname"}) = {}
  BY <1>2, <1>3 DEF OpsOf
<1>5. /\ (\A q \in OpsOf(Targeted) : ~Active(req[q])) => Wiring(gitlab, M, U, row.targets, {})
      /\ \A q \in OpsOf(Targeted) : Active(req[q]) =>
            \A c \in Range(req[q].todo) : c.c = "save" =>
               Wiring(gitlab, M, U, c.new.targets, Range(req[q].todo))
  BY <1>3, <1>4 DEF FollowInv
<1>6. M \subseteq N /\ (o.op = "migrate" => N # {})
  BY <1>2, <1>3 DEF Migrations, OpsOf
<1>7. /\ \A k \in V : k \in U \/ (o.op = "upsert" /\ o.key = k /\ ~Void(req'[r]))
  BY <1>2 DEF Upserted, OpsOf
<1>8. \A q \in Req : q \in OpsOf(Targeted)' <=> (q # r /\ q \in OpsOf(Targeted)) \/ (q = r /\ o.op \in Targeted)
  BY <1>2 DEF OpsOf, Targeted
<1>9. r \notin OpsOf(Targeted)
  BY <1>3 DEF OpsOf, Targeted
<1>10. CASE o.op \notin Targeted \/ Void(req'[r])
  <2>1. V \subseteq U
    BY <1>7, <1>10 DEF Targeted
  <2>2. r \in OpsOf(Targeted)' => ~Active(req'[r])
    BY <1>8, <1>10 DEF Active
  <2>. HIDE DEF M, N, U, V
  <2>3. \A ts, T : Wiring(gitlab, M, U, ts, T) => Wiring(gitlab', N, V, ts, T)
    BY <1>1, <1>6, <2>1, WiringWeaker
  <2>. QED  BY <1>1, <1>2, <1>5, <1>8, <1>9, <2>2, <2>3 DEF OpsOf
<1>11. CASE o.op \in Targeted /\ ~Void(req'[r])
  <2>1. Active(req'[r]) /\ r \in OpsOf(Targeted)'
    BY <1>2, <1>8, <1>11 DEF Active
  <2>2. \A q \in Req : req'[q].op.op \in Targeted /\ Active(req'[q]) => q = r
    BY <1>2, <1>11, <2>1 DEF Course
  <2>3. \A q \in OpsOf(Targeted)' : Active(req'[q]) => q = r
    BY <2>2 DEF OpsOf, Targeted
  <2>4. \A q \in OpsOf(Targeted) : ~Active(req[q])
    BY <1>2, <1>9, <2>2 DEF OpsOf
  <2>5. Wiring(gitlab, M, U, row.targets, {})
    BY <1>5, <2>4
  <2>6. ASSUME NEW c \in S, c.c = "save" PROVE Wiring(gitlab', N, V, c.new.targets, S)
    <3>1. TargetMoves(o, row.targets, c.new.targets, S)
      BY <1>11, <2>6 DEF PlanWork
    <3>. HIDE DEF M, N, U, V, S
    <3>2. \A k \in V : k \in U \/ (o.op = "upsert" /\ o.key = k)
      BY <1>7
    <3>. QED  BY <1>1, <1>6, <2>5, <3>1, <3>2, WiringStarts1
  <2>. QED  BY <1>2, <2>1, <2>3, <2>6
<1>. QED  BY <1>10, <1>11


(* A call of a request that changes no targets, or no longer does.          *)
LEMMA QuietCall ==
    ASSUME WiringInv, WorkInv, NEW r \in Req, Called(r), req[r].op.op # "hostname",
           ~(req[r].op.op \in Targeted /\ Active(req[r]))
    PROVE  /\ row'.targets = row.targets
           /\ \/ gitlab' = gitlab
              \/ /\ Effect(Call(r), gitlab, gitlab')
                 /\ Call(r).c \notin {"publish", "no-ref", "unscope", "commit", "root"}
<1>. DEFINE x == req[r]
            c == Call(r)
            S == Range(x.todo)
<1>1. x.st = "busy" /\ WorkFits(x)
  BY CalledReq DEF WorkInv
<1>2. CASE req'[r].st # "busy"
  BY <1>2, CalledReq DEF Goes1
<1>3. CASE req'[r].st = "busy"
  <2>1. Goes1(x, req'[r]) /\ c.c # "reject"
    BY <1>3, CalledStays
  <2>2. c \in S
    BY <2>1 DEF Goes1, Call
  <2>3. ~Rejecting(S) \/ x.op.op \notin Targeted
    BY <1>1, <2>1, <2>2 DEF WorkFits, WorkFit
  <2>4. x.op.op \notin Targeted \/ x.wrote
    BY <1>1, <2>3 DEF Active, Void
  <2>5. /\ c.c \notin {"publish", "no-ref", "unscope", "commit", "root", "app-host"}
        /\ c.c = "save" => c.new.targets = x.doc.targets
    <3>1. CallFits(x.op, x.doc, c)
      BY <1>1, <2>2 DEF WorkFits, WorkFit
    <3>2. CASE x.op.op \notin Targeted
      BY <3>1, <3>2 DEF CallFits, Targeted
    <3>3. CASE x.op.op \in Targeted /\ x.wrote
      <4>1. Rank(x.op.op, c) > 0 /\ ~Alters(x.doc, c)
        BY <1>1, <2>2, <3>3 DEF WorkFits
      <4>2. c.c \in {"publish", "no-ref", "unscope", "commit", "root"} => Rank(x.op.op, c) = 0
        BY DEF Rank
      <4>. QED  BY <3>1, <4>1, <4>2 DEF CallFits, Alters
    <3>. QED  BY <2>4, <3>2, <3>3
  <2>6. row'.targets = row.targets
    <3>1. CASE Saves(r)
      BY <2>5, <3>1, SaveIs, SaveChanges
    <3>2. CASE ~Saves(r)
      BY <3>2, CalledReq
    <3>. QED  BY <3>1, <3>2
  <2>7. Effect(c, gitlab, gitlab')
    BY <1>3, <2>5, EffectIs
  <2>. QED  BY <2>5, <2>6, <2>7
<1>. QED  BY <1>2, <1>3

LEMMA QuietWiring ==
    ASSUME NEW g, NEW h, NEW c, \/ h = g
                                \/ /\ Effect(c, g, h)
                                   /\ c.c \notin {"publish", "no-ref", "unscope", "commit", "root"},
           NEW M, NEW U, NEW ts \in [Key -> GoodTarget \cup {Nil}], NEW S, Wiring(g, M, U, ts, S)
    PROVE  Wiring(h, M, U, ts, S)
<1>1. CASE h = g
  BY <1>1
<1>2. CASE Effect(c, g, h) /\ c.c \notin {"publish", "no-ref", "unscope", "commit", "root"}
  <2>1. CallFor(c, M, ts)
    BY <1>2 DEF CallFor
  <2>2. S \subseteq S \cup {c}
    OBVIOUS
  <2>. QED  BY <1>2, <2>1, <2>2, WiringOn
<1>. QED  BY <1>1, <1>2

(* A call of the one request that is changing the targets.                  *)
LEMMA BusyCall ==
    ASSUME WiringInv, WorkInv, NEW r \in Req, Called(r), req[r].op.op \in Targeted,
           req'[r].st = "busy", NEW e \in Range(req'[r].todo), e.c = "save",
           Wiring(gitlab, Migrations, Upserted, e.new.targets, Range(req[r].todo))
    PROVE  Wiring(gitlab', Migrations, Upserted, e.new.targets, Range(req'[r].todo))
<1>. DEFINE x == req[r]
            c == Call(r)
            S == Range(x.todo)
            T == Range(req'[r].todo)
            ts == e.new.targets
            M == Migrations
            U == Upserted
<1>1. /\ x.st = "busy" /\ WorkFits(x) /\ Goes1(x, req'[r])
      /\ T \subseteq S /\ S \subseteq T \cup {c} /\ x.todo # <<>>
  BY CalledReq, CalledStays DEF WorkInv, Goes1
<1>2. c \in S /\ e \in S /\ Typed(c)
  BY <1>1, CallTyped
<1>3. Typed(e)
  BY <1>1, <1>2 DEF WiringInv, ReqOK
<1>4. ts \in [Key -> GoodTarget \cup {Nil}]
  BY <1>3 DEF Typed, Doc
<1>5. CallAims(x.op, x.doc, e.new, c) /\ CallFits(x.op, x.doc, c)
  BY <1>1, <1>2 DEF WorkFits, WorkFit
<1>6. c.c = "root" => M # {}
  BY <1>5 DEF CallFits, Migrations, OpsOf
<1>7. c.c = "publish" => c.t # Nil
  BY <1>2, NilAssumption DEF Typed, GoodTarget
<1>8. CallFor(c, M, ts)
  BY <1>5, <1>6, <1>7 DEF CallFor, CallAims
<1>9. Effect(c, gitlab, gitlab')
  <2>1. c.c # "app-host"
    BY <1>5 DEF CallFits, Targeted
  <2>. QED  BY <2>1, EffectIs
<1>10. Wiring(gitlab, M, U, ts, S)
  OBVIOUS
<1>. HIDE DEF M, U, ts, S, T, c
<1>11. Wiring(gitlab', M, U, ts, T)
  BY <1>1, <1>4, <1>8, <1>9, <1>10, WiringOn
<1>. QED  BY <1>11 DEF M, U, ts, T

(* The save that makes the targets those of the request.                    *)
LEMMA LastCall ==
    ASSUME WiringInv, WorkInv, NEW r \in Req, Called(r), req[r].op.op \in Targeted,
           Saves(r), Versioned(r), Call(r).at = Nil,
           Wiring(gitlab, Migrations, Upserted, Call(r).new.targets, Range(req[r].todo))
    PROVE  Wiring(gitlab', Migrations, Upserted, row'.targets, {})
<1>. DEFINE x == req[r]
            y == req'[r]
            c == Call(r)
            S == Range(x.todo)
            T == Range(y.todo)
<1>1. /\ x.st = "busy" /\ WorkFits(x) /\ c \in S /\ c.c = "save"
      /\ Versioned(r) <=> c.at # Nil \/ c.new.targets # x.doc.targets \/ c.new.profiles # x.doc.profiles
  BY SaveIs DEF WorkInv
<1>2. y.st = "busy" /\ y.wrote
  BY SaveChanges
<1>3. CallFits(x.op, x.doc, c)
  BY <1>1 DEF WorkFits, WorkFit
<1>4. c.new.targets # x.doc.targets
  BY <1>1, <1>3 DEF CallFits, Targeted, Edits
<1>5. row'.targets = c.new.targets
  BY <1>4, SaveChanges
<1>6. gitlab' = gitlab
  BY DEF Saves
<1>7. S \subseteq T \cup {c} /\ y.op = x.op
  BY <1>2, CalledStays
<1>8. WorkFits(y)
  BY <1>1, <1>2, FitsWork
<1>9. \A e \in S : e.c \notin {"publish", "no-ref", "unscope", "commit"}
  <2>1. \A e \in T : Rank(x.op.op, e) > 0
    BY <1>2, <1>7, <1>8 DEF WorkFits
  <2>2. \A e : e.c \in {"publish", "no-ref", "unscope", "commit"} => Rank(x.op.op, e) = 0
    BY DEF Rank
  <2>. QED  BY <1>1, <1>7, <2>1, <2>2
<1>. QED  BY <1>5, <1>6, <1>9, WiringRests

LEMMA FollowCalled ==
    ASSUME WiringInv, ProfileInv, WorkInv, FollowInv, NEW r \in Req, Called(r)
    PROVE  FollowInv'
<1>. DEFINE M == Migrations
            U == Upserted
<1>. SUFFICES ASSUME OpsOf({"hostname"})' = {}, Course(row'.ver, req', Targeted)
              PROVE  /\ (\A q \in OpsOf(Targeted)' : ~Active(req'[q])) =>
                           Wiring(gitlab', Migrations', Upserted', row'.targets, {})
                     /\ \A q \in OpsOf(Targeted)' : Active(req'[q]) =>
                           \A c \in Range(req'[q].todo) : c.c = "save" =>
                              Wiring(gitlab', Migrations', Upserted', c.new.targets, Range(req'[q].todo))
  BY DEF FollowInv
<1>1. \A q \in Req : req'[q].op = req[q].op
  BY CalledStays
<1>2. /\ Course(row.ver, req, Targeted)
      /\ \A q \in Req : req[q].op.op \in Targeted => (Void(req[q]) <=> Void(req'[q]))
  <2>1. "content" \notin Targeted /\ "metadata" \notin Targeted
    BY DEF Targeted
  <2>. QED  BY <2>1, CourseCalled
<1>3. OpsOf({"hostname"}) = {} /\ Migrations' = M /\ OpsOf(Targeted)' = OpsOf(Targeted)
  BY <1>1 DEF OpsOf, Migrations, Targeted
<1>4. Upserted' = U
  <2>1. \A k, q : q \in OpsOf({"upsert"})' /\ ~Void(req'[q]) /\ req'[q].op.key = k
                  <=> q \in OpsOf({"upsert"}) /\ ~Void(req[q]) /\ req[q].op.key = k
    BY <1>1, <1>2 DEF OpsOf, Targeted
  <2>. QED  BY <2>1 DEF Upserted
<1>5. /\ (\A q \in OpsOf(Targeted) : ~Active(req[q])) => Wiring(gitlab, M, U, row.targets, {})
      /\ \A q \in OpsOf(Targeted) : Active(req[q]) =>
            \A c \in Range(req[q].todo) : c.c = "save" =>
               Wiring(gitlab, M, U, c.new.targets, Range(req[q].todo))
  BY <1>2, <1>3 DEF FollowInv
<1>6. \A q \in Req \ {r} : req'[q] = req[q]
  BY CalledReq
<1>7. req[r].st = "busy" /\ req[r].op.op # "hostname"
  BY <1>3, CalledReq DEF OpsOf
<1>8. r \in OpsOf(Targeted) <=> req[r].op.op \in Targeted
  BY DEF OpsOf
<1>9. CASE ~(req[r].op.op \in Targeted /\ Active(req[r]))
  <2>1. req[r].op.op \in Targeted => ~Active(req'[r])
    <3>. SUFFICES ASSUME req[r].op.op \in Targeted, Active(req'[r]) PROVE FALSE
      OBVIOUS
    <3>1. req[r].wrote
      BY <1>2, <1>7, <1>9 DEF Active
    <3>2. req'[r].wrote
      BY <3>1, CalledReq, SaveChanges DEF Stops
    <3>. QED  BY <3>2 DEF Active
  <2>2. /\ row'.targets = row.targets
        /\ \/ gitlab' = gitlab
           \/ /\ Effect(Call(r), gitlab, gitlab')
              /\ Call(r).c \notin {"publish", "no-ref", "unscope", "commit", "root"}
    BY <1>7, <1>9, QuietCall
  <2>3. ASSUME NEW ts \in [Key -> GoodTarget \cup {Nil}], NEW T, Wiring(gitlab, M, U, ts, T)
        PROVE  Wiring(gitlab', M, U, ts, T)
    <3>. DEFINE c == Call(r)
    <3>. HIDE DEF M, U, c
    <3>1. \/ gitlab' = gitlab
          \/ /\ Effect(c, gitlab, gitlab')
             /\ c.c \notin {"publish", "no-ref", "unscope", "commit", "root"}
      BY <2>2 DEF c
    <3>. QED  BY <2>3, <3>1, QuietWiring
  <2>4. row.targets \in [Key -> GoodTarget \cup {Nil}]
    BY DEF WiringInv, Doc
  <2>5. ASSUME \A q \in OpsOf(Targeted)' : ~Active(req'[q])
        PROVE  Wiring(gitlab', M, U, row'.targets, {})
    <3>1. \A q \in OpsOf(Targeted) : ~Active(req[q])
      <4>. SUFFICES ASSUME NEW q \in OpsOf(Targeted), Active(req[q]) PROVE FALSE
        OBVIOUS
      <4>1. q \in Req
        BY DEF OpsOf
      <4>2. q # r
        BY <1>8, <1>9
      <4>. QED  BY <1>3, <1>6, <2>5, <4>1, <4>2
    <3>2. Wiring(gitlab, M, U, row.targets, {})
      BY <1>5, <3>1
    <3>. QED  BY <2>2, <2>3, <2>4, <3>2
  <2>6. ASSUME NEW q \in OpsOf(Targeted)', Active(req'[q]), NEW c \in Range(req'[q].todo), c.c = "save"
        PROVE  Wiring(gitlab', M, U, c.new.targets, Range(req'[q].todo))
    <3>1. q \in Req /\ q \in OpsOf(Targeted)
      BY <1>3 DEF OpsOf
    <3>2. q # r
      BY <1>8, <2>1, <2>6, <3>1
    <3>3. req'[q] = req[q]
      BY <1>6, <3>1, <3>2
    <3>4. Wiring(gitlab, M, U, c.new.targets, Range(req[q].todo))
      BY <1>5, <2>6, <3>1, <3>3
    <3>5. c.new.targets \in [Key -> GoodTarget \cup {Nil}]
      <4>1. Typed(c)
        BY <2>6, <3>1, <3>3 DEF WiringInv, ReqOK, Active
      <4>. QED  BY <2>6, <4>1 DEF Typed, Doc
    <3>. QED  BY <2>3, <3>3, <3>4, <3>5
  <2>. QED  BY <1>3, <1>4, <2>5, <2>6
<1>10. CASE req[r].op.op \in Targeted /\ Active(req[r])
  <2>1. ASSUME NEW q \in OpsOf(Targeted)', Active(req'[q]) PROVE q = r
    <3>1. q \in Req /\ q \in OpsOf(Targeted) /\ req[q].op.op \in Targeted
      BY <1>3 DEF OpsOf
    <3>2. q # r => Active(req[q])
      BY <1>6, <2>1, <3>1
    <3>. QED  BY <1>2, <1>10, <3>1, <3>2 DEF Course
  <2>2. CASE Active(req'[r])
    <3>1. r \in OpsOf(Targeted)'
      BY <1>3, <1>8, <1>10
    <3>2. ASSUME NEW c \in Range(req'[r].todo), c.c = "save"
          PROVE  Wiring(gitlab', M, U, c.new.targets, Range(req'[r].todo))
      <4>1. req'[r].st = "busy"
        BY <2>2 DEF Active
      <4>2. c \in Range(req[r].todo)
        BY <4>1, CalledStays
      <4>3. Wiring(gitlab, M, U, c.new.targets, Range(req[r].todo))
        BY <1>5, <1>8, <1>10, <3>2, <4>2
      <4>. QED  BY <1>10, <3>2, <4>1, <4>3, BusyCall
    <3>. QED  BY <1>3, <1>4, <2>1, <2>2, <3>1, <3>2
  <2>3. CASE ~Active(req'[r])
    <3>1. req[r].op.op \notin {"content", "metadata"}
      BY <1>10 DEF Targeted
    <3>2. Void(req'[r]) \/ ~Lost(row'.ver, req'[r])
      BY <1>1, <1>10 DEF Course
    <3>3. Saves(r) /\ Versioned(r) /\ Call(r).at = Nil
      BY <1>10, <2>3, <3>1, <3>2, CourseOne
    <3>4. Call(r) \in Range(req[r].todo) /\ Call(r).c = "save"
      BY <3>3, SaveIs
    <3>5. Wiring(gitlab, M, U, Call(r).new.targets, Range(req[r].todo))
      BY <1>5, <1>8, <1>10, <3>4
    <3>6. Wiring(gitlab', M, U, row'.targets, {})
      BY <1>10, <3>3, <3>5, LastCall
    <3>. QED  BY <1>3, <1>4, <2>1, <2>3, <3>6
  <2>. QED  BY <2>2, <2>3
<1>. QED  BY <1>9, <1>10

LEMMA FollowStep == WiringInv /\ ProfileInv /\ WorkInv /\ FollowInv /\ [WiringNext]_project => FollowInv'
<1>. SUFFICES ASSUME WiringInv, ProfileInv, WorkInv, FollowInv, [WiringNext]_project PROVE FollowInv'
  OBVIOUS
<1>1. ASSUME UNCHANGED <<row, vault, gitlab, req>> PROVE FollowInv'
  BY <1>1 DEF FollowInv, OpsOf, Migrations, Upserted
<1>. QED  BY <1>1, WorkNextIs, FollowStarted, FollowCalled

LEMMA NewWiring ==
    ASSUME NEW ts \in [Key -> GoodTarget \cup {Nil}], NEW wired \in BOOLEAN
    PROVE  Wiring(NewGitLab(ts, wired), {}, {}, ts, {})
<1>. DEFINE g == NewGitLab(ts, wired)
            none == [k \in Key |-> Nil]
<1>. SUFFICES ASSUME NEW k \in Key
              PROVE  Follows(g, {}, k, ts, {}) /\ JobsFollow(g, {}, k, ts, {})
  BY DEF Wiring
<1>1. /\ g.ref[k] = IF ts[k] = Nil THEN Nil ELSE ts[k].ref
      /\ g.host[k] = IF ts[k] = Nil THEN NoApps ELSE ts[k].host
      /\ \A b \in Branch : g.jobs[b] = Fragment(ts) \/ g.jobs[b] = Fragment(none)
  BY DEF NewGitLab
<1>2. \A a \in App \ AppsOf(ts[k]) : g.host[k][a] = Nil
  BY <1>1 DEF AppsOf, NoApps
<1>3. Follows(g, {}, k, ts, {})
  BY <1>1, <1>2 DEF Follows
<1>4. \A a \in App : /\ <<k, a>> \in Fragment(ts).deploy => Generates(ts[k]) /\ a \in AppsOf(ts[k])
                     /\ <<k, a>> \notin Fragment(none).deploy
  BY DEF Fragment, DeployJobs, Generates
<1>. HIDE DEF g, none
<1>5. ASSUME ts[k] # Nil, ts[k].ref # NoRef PROVE JobsFit(g, {}, k, ts[k])
  <2>1. ts[k].ref \in Branch
    BY <1>5 DEF GoodTarget, Target
  <2>2. \A a \in App : <<k, a>> \in g.jobs[ts[k].ref].deploy => Generates(ts[k]) /\ a \in AppsOf(ts[k])
    BY <1>1, <1>4, <2>1
  <2>. QED  BY <2>2 DEF JobsFit
<1>6. JobsFollow(g, {}, k, ts, {})
  BY <1>5 DEF JobsFollow
<1>. QED  BY <1>3, <1>6 DEF g

LEMMA FollowInit == WiringInit => FollowInv
<1>. SUFFICES ASSUME WiringInit PROVE FollowInv
  OBVIOUS
<1>1. PICK in \in Creations :
         /\ row = NewDoc(in)
         /\ gitlab = NewGitLab(NewDoc(in).targets, ~in.legacy)
         /\ req = [r \in Req |-> Idle]
  BY DEF WiringInit
<1>2. row.targets \in [Key -> GoodTarget \cup {Nil}]
  BY InitOK DEF WiringInv, Doc
<1>3. (~in.legacy) \in BOOLEAN
  OBVIOUS
<1>4. Wiring(gitlab, {}, {}, row.targets, {})
  BY <1>1, <1>2, <1>3, NewWiring
<1>5. \A r \in Req : req[r].op.op = "none"
  BY <1>1 DEF Idle
<1>6. OpsOf(Targeted) = {} /\ Migrations = {} /\ Upserted = {}
  BY <1>5 DEF OpsOf, Migrations, Upserted, Targeted
<1>. QED  BY <1>4, <1>6 DEF FollowInv

LEMMA SettledIs ==
    ASSUME WiringInv, FollowInv, NEW K, Settled(K), K \subseteq Targeted
    PROVE  /\ Wiring(gitlab, Migrations, Upserted, row.targets, {})
           /\ "migrate" \notin K => Migrations = {}
<1>1. /\ \A r \in Req : req[r].st \notin {"busy", "failed"}
      /\ \A r \in Req : req[r].op.op \in Targeted /\ req[r].st = "done" => req[r].wrote
      /\ \A r \in Req : req[r].op.op \in Targeted \cup {"hostname"} => req[r].op.op \in K
  BY DEF Settled, Done, OpsOf, Targeted
<1>2. OpsOf({"hostname"}) = {} /\ ("migrate" \notin K => Migrations = {})
  BY <1>1 DEF OpsOf, Migrations, Targeted
<1>3. \A r \in Req : ~Active(req[r])
  BY <1>1 DEF Active
<1>4. ASSUME NEW r \in Req, req[r].op.op \in Targeted
      PROVE  Void(req[r]) \/ ~Lost(row.ver, req[r])
  BY <1>1, <1>4 DEF Void, Lost
<1>5. Course(row.ver, req, Targeted)
  BY <1>3, <1>4 DEF Course
<1>6. \A r \in OpsOf(Targeted) : ~Active(req[r])
  BY <1>3 DEF OpsOf
<1>. QED  BY <1>2, <1>5, <1>6 DEF FollowInv

(* However target requests and migrations interleave, once they have        *)
(* settled the variables in GitLab are those of the stored targets: the     *)
(* version check of the save at the end of syncAllDeploymentWiring refuses  *)
(* every request that published the targets of an older document.           *)
THEOREM VariablesFollowRow == WiringSpec => []WiringFollowsRow
<1>1. WiringInit => WiringInv /\ WorkInv /\ FollowInv
  BY InitOK, WorkInit, FollowInit
<1>2. WiringInv /\ ProfileInv /\ WorkInv /\ FollowInv /\ [WiringNext]_project
      => WiringInv' /\ WorkInv' /\ FollowInv'
  BY WiringStep, WorkStep, FollowStep
<1>3. WiringInv /\ FollowInv => WiringFollowsRow
  <2>. SUFFICES ASSUME WiringInv, FollowInv, Settled({"upsert", "remove", "migrate"}), NEW k \in Key
                PROVE  LET t == row.targets[k]
                       IN  /\ t # Nil /\ (t.on \/ OpsOf({"migrate"}) = {}) =>
                                 /\ gitlab.ref[k] = t.ref
                                 /\ \A a \in AppsOf(t) : gitlab.host[k][a] = t.host[a]
                           /\ t = Nil => gitlab.ref[k] \in {NoRef, Nil}
                           /\ \A a \in App \ AppsOf(t) : gitlab.host[k][a] = Nil
    BY DEF WiringFollowsRow
  <2>1. Wiring(gitlab, Migrations, Upserted, row.targets, {})
    BY SettledIs DEF Targeted
  <2>2. Follows(gitlab, Migrations, k, row.targets, {})
    BY <2>1 DEF Wiring
  <2>. QED  BY <2>2 DEF Follows, Migrations
<1>. QED  BY <1>1, <1>2, <1>3, ProfileInvariant, PTL DEF WiringSpec

(* After target requests have settled, the branch that the ref of an        *)
(* upserted target names has exactly that target's deploy jobs, and         *)
(* includes them, whatever other requests wrote to that branch meanwhile.   *)
THEOREM JobsAreOnTheirBranch == WiringSpec => []JobsFollowTarget
<1>1. WiringInit => WiringInv /\ WorkInv /\ FollowInv
  BY InitOK, WorkInit, FollowInit
<1>2. WiringInv /\ ProfileInv /\ WorkInv /\ FollowInv /\ [WiringNext]_project
      => WiringInv' /\ WorkInv' /\ FollowInv'
  BY WiringStep, WorkStep, FollowStep
<1>3. WiringInv /\ FollowInv => JobsFollowTarget
  <2>. SUFFICES ASSUME WiringInv, FollowInv, Settled({"upsert", "remove"}),
                       NEW r \in OpsOf({"upsert"}), req[r].st = "done",
                       Generates(row.targets[req[r].op.key]),
                       AppsOf(row.targets[req[r].op.key]) = req[r].op.apps
                PROVE  LET o == req[r].op
                           t == row.targets[o.key]
                       IN  /\ \A a \in App : <<o.key, a>> \in gitlab.jobs[t.ref].deploy <=> a \in o.apps
                           /\ \/ "deploy-targets" \in gitlab.root[t.ref].includes
                              \/ UserRoots[t.ref].shape = "garbage"
    BY DEF JobsFollowTarget
  <2>. DEFINE k == req[r].op.key
              t == row.targets[k]
  <2>1. Wiring(gitlab, Migrations, Upserted, row.targets, {}) /\ Migrations = {}
    BY SettledIs DEF Targeted
  <2>2. k \in Key
    <3>1. req[r].op \in Ops /\ req[r].op.op = "upsert"
      BY DEF OpsOf, WiringInv, ReqOK
    <3>. QED  BY <3>1, OpTyped DEF UpsertDeploymentTargetInput
  <2>3. k \in Upserted
    BY <2>2 DEF Upserted, Void
  <2>4. t # Nil /\ t.ref # NoRef
    BY DEF Generates
  <2>5. JobsFit(gitlab, Upserted, k, t)
    BY <2>1, <2>2, <2>4 DEF Wiring, JobsFollow
  <2>. QED  BY <2>3, <2>5 DEF JobsFit, Included2
<1>. QED  BY <1>1, <1>2, <1>3, ProfileInvariant, PTL DEF WiringSpec

(* Once target requests have settled, a push installs releases of enabled   *)
(* targets and of their apps only, on whichever branch it is: fragments     *)
(* that older requests left behind are on branches no ref variable names.   *)
THEOREM OnlyEnabledDeploys == WiringSpec => DeploysOnlyEnabled
<1>. DEFINE Fits == Settled({"upsert", "remove"}) =>
                       \A ka \in releases' \ releases :
                          /\ Generates(row.targets[ka[1]])
                          /\ ka[2] \in AppsOf(row.targets[ka[1]])
<1>1. WiringInit => WiringInv /\ WorkInv /\ FollowInv
  BY InitOK, WorkInit, FollowInit
<1>2. WiringInv /\ ProfileInv /\ WorkInv /\ FollowInv /\ [WiringNext]_project
      => WiringInv' /\ WorkInv' /\ FollowInv'
  BY WiringStep, WorkStep, FollowStep
<1>3. WiringInv /\ FollowInv /\ [WiringNext]_project => [Fits]_project
  <2>. SUFFICES ASSUME WiringInv, FollowInv, [WiringNext]_project, Settled({"upsert", "remove"}),
                       NEW ka \in releases' \ releases
                PROVE  Generates(row.targets[ka[1]]) /\ ka[2] \in AppsOf(row.targets[ka[1]])
    OBVIOUS
  <2>1. \A r \in Req : ~Called(r)
    BY CalledReq DEF Settled, Done
  <2>2. ASSUME NEW r \in Req, NEW o \in Ops, StartStep(r, o) PROVE releases' = releases
    BY <2>2 DEF StartStep, Begins
  <2>3. PICK k \in Key, a \in App, b \in Branch : PipelineDeploys(k, a, b)
    BY <2>1, <2>2, NextIs DEF project
  <2>4. /\ ka = <<k, a>> /\ <<k, a>> \in gitlab.jobs[b].deploy /\ gitlab.ref[k] = b
    BY <2>3 DEF PipelineDeploys
  <2>. DEFINE t == row.targets[k]
  <2>5. Wiring(gitlab, Migrations, Upserted, row.targets, {}) /\ Migrations = {}
    BY SettledIs DEF Targeted
  <2>6. /\ Follows(gitlab, Migrations, k, row.targets, {})
        /\ JobsFollow(gitlab, Upserted, k, row.targets, {})
    BY <2>5 DEF Wiring
  <2>7. t # Nil
    BY <2>4, <2>6, RefAssumption DEF Follows
  <2>8. t.ref = b /\ t.ref # NoRef
    BY <2>4, <2>5, <2>6, <2>7, RefAssumption DEF Follows
  <2>9. JobsFit(gitlab, Upserted, k, t)
    BY <2>6, <2>7, <2>8 DEF JobsFollow
  <2>. QED  BY <2>4, <2>8, <2>9 DEF JobsFit
<1>. QED  BY <1>1, <1>2, <1>3, ProfileInvariant, PTL DEF WiringSpec, DeploysOnlyEnabled

-----------------------------------------------------------------------------
(***************************************************************************)
(* What one call does to the secrets of the targets.                       *)
(***************************************************************************)
LEMMA SecretEffect ==
    ASSUME WiringInv, NEW r \in Req, Called(r)
    PROVE  LET c == Call(r)
               m == req[r].mem
           IN  \/ /\ vault'.target = vault.target
                  /\ c.c = "merge" => req'[r].st # "busy"
               \/ /\ c.c = "seed" /\ c.k \in Key /\ vault'.target[c.k] = {Seed}
                  /\ \A k \in Key \ {c.k} : vault'.target[k] = vault.target[k]
               \/ /\ c.c = "merge" /\ c.k \in Key
                  /\ ~c.body => vault'.target[c.k] = (m.secret \ c.minus) \cup c.plus
                  /\ \A k \in Key \ {c.k} : vault'.target[k] = vault.target[k]
<1>. DEFINE c == Call(r)
            m == req[r].mem
<1>1. vault \in Vault /\ vault.target \in [Key -> SUBSET (RtKey \cup {Seed})]
  BY DEF WiringInv, Vault
<1>2. CASE Seeds(r)
  <2>1. /\ req[r].st = "busy" /\ req[r].todo # <<>> /\ c.c = "seed"
        /\ vault' = [vault EXCEPT !.target[c.k] = {Seed}]
    BY <1>2 DEF Seeds, Next1, Call
  <2>2. c.k \in Key
    BY <2>1, CallTyped DEF Typed
  <2>. HIDE DEF c
  <2>3. vault'.target = [vault.target EXCEPT ![c.k] = {Seed}]
    BY <1>1, <2>1 DEF Vault
  <2>4. vault'.target[c.k] = {Seed} /\ \A k \in Key \ {c.k} : vault'.target[k] = vault.target[k]
    BY <1>1, <2>2, <2>3
  <2>. QED  BY <2>1, <2>2, <2>4 DEF c
<1>3. CASE MergesSecret(r)
  <2>. DEFINE body == IF c.body THEN m.body ELSE {}
              new == (m.secret \ c.minus) \cup c.plus \cup body
  <2>1. /\ req[r].st = "busy" /\ req[r].todo # <<>> /\ c.c = "merge"
        /\ vault' = [vault EXCEPT !.target[c.k] = new]
    BY <1>3 DEF MergesSecret, Next1, Call
  <2>2. c.k \in Key
    BY <2>1, CallTyped DEF Typed
  <2>3. ~c.body => new = (m.secret \ c.minus) \cup c.plus
    OBVIOUS
  <2>. HIDE DEF c, new, m
  <2>4. vault'.target = [vault.target EXCEPT ![c.k] = new]
    BY <1>1, <2>1 DEF Vault
  <2>5. vault'.target[c.k] = new /\ \A k \in Key \ {c.k} : vault'.target[k] = vault.target[k]
    BY <1>1, <2>2, <2>4
  <2>. QED  BY <2>1, <2>2, <2>3, <2>5 DEF c, m
<1>4. CASE TouchesBody(r) \/ WritesIndex(r)
  <2>1. c.c \in {"body", "read-body", "drop-body", "index"}
    BY <1>4 DEF TouchesBody, WritesIndex, Next1, Call
  <2>2. vault'.target = vault.target
    <3>1. CASE WritesIndex(r)
      BY <1>1, <3>1 DEF WritesIndex, Vault
    <3>2. CASE TouchesBody(r)
      BY <1>1, <3>2 DEF TouchesBody, Vault
    <3>. QED  BY <1>4, <3>1, <3>2
  <2>. QED  BY <2>1, <2>2
<1>5. CASE \/ TearsDown(r) \/ SetsVariables(r) \/ ReadsRoot(r) \/ Commits(r) \/ CommitsChart(r)
           \/ ReadsSecret(r) \/ Saves(r)
  <2>1. vault' = vault /\ c.c # "merge"
    BY <1>5 DEF TearsDown, SetsVariables, ReadsRoot, Commits, CommitsChart, ReadsSecret, Saves,
                Next1, Call
  <2>. QED  BY <2>1
<1>6. CASE Throws1(r) \/ Rejects(r) \/ Answers(r)
  <2>1. PICK st \in {"done", "failed", "rejected"} : req' = Ended(r, st)
    BY <1>6 DEF Throws1, Rejects, Answers
  <2>2. req'[r].st = st
    BY <2>1 DEF Ended, WiringInv, ReqOK, ReqField
  <2>3. vault' = vault
    BY <1>6 DEF Throws1, Rejects, Answers
  <2>. QED  BY <2>2, <2>3
<1>. QED  BY <1>2, <1>3, <1>4, <1>5, <1>6 DEF Called

(* What is read before a merge is the secret of the merge's target.         *)
LEMMA ReadEffect ==
    ASSUME WiringInv, NEW r \in Req, Called(r), req'[r].todo # <<>>, req'[r].todo[1].c = "merge"
    PROVE  /\ req'[r].todo[1].k \in Key
           /\ req'[r].mem.secret \in {{}, vault.target[req'[r].todo[1].k]}
           /\ vault' = vault
<1>. DEFINE x == req[r]
            y == req'[r]
            c == Call(r)
<1>1. y.st = "busy"
  BY CalledReq DEF Stops, Goes1
<1>2. Goes1(x, y) /\ x.st = "busy"
  BY <1>1, CalledReq, CalledStays
<1>3. c.c = "read" /\ c.k = y.todo[1].k
  BY <1>2 DEF Goes1, Left, Second, Goes, Call
<1>4. c.k \in Key
  BY <1>2, <1>3, CallTyped DEF Goes1, Typed
<1>5. ReadsSecret(r)
  <2>1. ~(Throws1(r) \/ Rejects(r) \/ Answers(r))
    <3>. SUFFICES ASSUME Throws1(r) \/ Rejects(r) \/ Answers(r) PROVE FALSE
      OBVIOUS
    <3>1. PICK st \in {"done", "failed", "rejected"} : req' = Ended(r, st)
      BY DEF Throws1, Rejects, Answers
    <3>2. req'[r].st = st
      BY <3>1 DEF Ended, WiringInv, ReqOK, ReqField
    <3>. QED  BY <1>1, <3>2
  <2>. QED  BY <1>3, <2>1 DEF Called, TearsDown, Seeds, SetsVariables, ReadsRoot, Commits, CommitsChart,
                MergesSecret, TouchesBody, WritesIndex, Saves, Next1, Call
<1>6. PICK s \in {{}, vault.target[c.k]} : Returns(r, [req[r] EXCEPT !.mem.secret = s])
  BY <1>5 DEF ReadsSecret
<1>7. y.mem.secret = s
  <2>. DEFINE z == [req[r] EXCEPT !.mem.secret = s]
  <2>1. DOMAIN req = Req /\ DOMAIN req[r] = ReqField /\ req[r].mem \in Memory
    BY <1>2 DEF WiringInv, ReqOK
  <2>2. z.mem = [req[r].mem EXCEPT !.secret = s] /\ DOMAIN z = ReqField
    BY <2>1 DEF ReqField
  <2>3. z.mem.secret = s
    BY <2>1, <2>2 DEF Memory
  <2>4. Returns(r, z)
    BY <1>6
  <2>. HIDE DEF z
  <2>5. req'[r] = [z EXCEPT !.todo = Tail(@)]
    BY <2>1, <2>4 DEF Returns
  <2>. QED  BY <2>2, <2>3, <2>5 DEF ReqField
<1>. QED  BY <1>3, <1>4, <1>5, <1>6, <1>7 DEF ReadsSecret

(* A call of a request that edits no profiles, or no longer does.           *)
LEMMA QuietSecret ==
    ASSUME WiringInv, WorkInv, NEW r \in Req, Called(r), req[r].op.op \notin {"content", "metadata"},
           req[r].op.op \in Profiled => ~Active(req[r]) /\ ~Void(req[r])
    PROVE  /\ row'.profiles = row.profiles
           /\ \A k \in Key : vault'.target[k] \in {{Seed}, vault.target[k]}
<1>. DEFINE x == req[r]
            c == Call(r)
            S == Range(x.todo)
<1>1. x.st = "busy" /\ WorkFits(x)
  BY CalledReq DEF WorkInv
<1>2. x.op.op \in Profiled => x.wrote
  BY <1>1 DEF Active
<1>3. ASSUME c \in S
      PROVE  /\ c.c # "merge"
             /\ c.c = "save" => c.new.profiles = x.doc.profiles
  <2>1. CallFits(x.op, x.doc, c)
    BY <1>1, <1>3 DEF WorkFits, WorkFit
  <2>2. CASE x.op.op \notin Profiled
    <3>1. x.op.op \notin Edits
      BY <2>2 DEF Profiled, Edits
    <3>. QED  BY <2>1, <3>1 DEF CallFits
  <2>3. CASE x.op.op \in Profiled
    <3>1. Rank(x.op.op, c) > 0 /\ ~Alters(x.doc, c)
      BY <1>1, <1>2, <1>3, <2>3 DEF WorkFits
    <3>2. c.c = "merge" => Rank(x.op.op, c) = 0
      BY DEF Rank
    <3>. QED  BY <3>1, <3>2 DEF Alters
  <2>. QED  BY <2>2, <2>3
<1>4. row'.profiles = row.profiles
  <2>1. CASE Saves(r)
    <3>1. /\ c \in S /\ c.c = "save" /\ SaveFits(x.op, x.doc, c)
          /\ row'.profiles = (IF c.at # Nil THEN [row.profiles EXCEPT ![c.at] = c.new.profiles[c.at]]
                              ELSE IF c.new.profiles # x.doc.profiles THEN c.new.profiles
                              ELSE row.profiles)
      BY <2>1, SaveIs
    <3>2. c.at = Nil
      BY <3>1 DEF SaveFits
    <3>. QED  BY <1>3, <3>1, <3>2
  <2>2. CASE ~Saves(r)
    BY <2>2, CalledReq
  <2>. QED  BY <2>1, <2>2
<1>5. CASE req'[r].st # "busy"
  <2>1. vault' = vault
    BY <1>5, CalledReq DEF Goes1
  <2>. QED  BY <1>4, <2>1
<1>6. CASE req'[r].st = "busy"
  <2>1. c \in S
    BY <1>6, CalledStays DEF Goes1, Call
  <2>2. c.c # "merge"
    BY <1>3, <2>1
  <2>. HIDE DEF c
  <2>3. \A k \in Key : vault'.target[k] \in {{Seed}, vault.target[k]}
    BY <2>2, SecretEffect DEF c
  <2>. QED  BY <1>4, <2>3
<1>. QED  BY <1>5, <1>6

LEMMA SecretsSeeded ==
    ASSUME NEW v, NEW w, \A k \in Key : w.target[k] \in {{Seed}, v.target[k]},
           NEW old, NEW ps, NEW S, Secrets(v, old, ps, S)
    PROVE  Secrets(w, old, ps, S)
<1>1. \A k \in Key : {Seed} \subseteq Brought(k, ps)
  BY DEF Brought
<1>. QED  BY <1>1 DEF Secrets

(* A call of the one request that is changing the profiles.                 *)
LEMMA BusySecret ==
    ASSUME WiringInv, WorkInv, NEW r \in Req, Called(r), req[r].op.op \in Profiled,
           req'[r].st = "busy", NEW e \in Range(req'[r].todo), e.c = "save",
           Secrets(vault, req[r].doc.profiles, e.new.profiles, Range(req[r].todo)),
           MergeReady(req[r], e.new.profiles), req'[r].doc.profiles = req[r].doc.profiles
    PROVE  /\ Secrets(vault', req'[r].doc.profiles, e.new.profiles, Range(req'[r].todo))
           /\ MergeReady(req'[r], e.new.profiles)
<1>. DEFINE x == req[r]
            c == Call(r)
            S == Range(x.todo)
            T == Range(req'[r].todo)
            ps == e.new.profiles
            old == x.doc.profiles
<1>1. /\ x.st = "busy" /\ WorkFits(x) /\ Goes1(x, req'[r])
      /\ T \subseteq S /\ S \subseteq T \cup {c} /\ x.todo # <<>>
  BY CalledReq, CalledStays DEF WorkInv, Goes1
<1>2. c \in S /\ e \in S /\ c = x.todo[1]
  BY <1>1, CallTyped
<1>3. CallAims(x.op, x.doc, e.new, c)
  BY <1>1, <1>2 DEF WorkFits, WorkFit
<1>4. ASSUME NEW k \in Key
      PROVE  \/ vault'.target[k] \subseteq Brought(k, ps)
             \/ /\ \E i \in T : i.c = "merge" /\ i.k = k
                /\ vault'.target[k] \subseteq Brought(k, ps) \cup Brought(k, old)
  <2>1. \/ vault.target[k] \subseteq Brought(k, ps)
        \/ /\ \E i \in S : i.c = "merge" /\ i.k = k
           /\ vault.target[k] \subseteq Brought(k, ps) \cup Brought(k, old)
    BY DEF Secrets
  <2>2. CASE c.c = "merge" /\ c.k = k
    <3>1. /\ ~c.body
          /\ ((Brought(k, old) \cup Brought(k, ps)) \ c.minus) \cup c.plus \subseteq Brought(k, ps)
      BY <1>3, <2>2 DEF CallAims
    <3>2. x.mem.secret \subseteq Brought(k, ps) \cup Brought(k, old)
      BY <1>1, <1>2, <2>2 DEF MergeReady
    <3>3. vault'.target[k] = (x.mem.secret \ c.minus) \cup c.plus
      BY <2>2, <3>1, SecretEffect
    <3>. QED  BY <3>1, <3>2, <3>3
  <2>3. CASE ~(c.c = "merge" /\ c.k = k)
    <3>1. vault'.target[k] = vault.target[k] \/ vault'.target[k] = {Seed}
      <4>. HIDE DEF c
      <4>. QED  BY <2>3, SecretEffect DEF c
    <3>2. CASE vault'.target[k] = {Seed}
      BY <3>2 DEF Brought
    <3>3. CASE vault'.target[k] = vault.target[k]
      <4>1. (\E i \in S : i.c = "merge" /\ i.k = k) => \E i \in T : i.c = "merge" /\ i.k = k
        BY <1>1, <2>3
      <4>. QED  BY <2>1, <3>3, <4>1
    <3>. QED  BY <3>1, <3>2, <3>3
  <2>. QED  BY <2>2, <2>3
<1>5. ASSUME req'[r].todo # <<>>, req'[r].todo[1].c = "merge"
      PROVE  req'[r].mem.secret \subseteq
                Brought(req'[r].todo[1].k, ps) \cup Brought(req'[r].todo[1].k, old)
  <2>. DEFINE k == req'[r].todo[1].k
  <2>1. k \in Key /\ req'[r].mem.secret \in {{}, vault.target[k]}
    BY <1>5, ReadEffect
  <2>2. vault.target[k] \subseteq Brought(k, ps) \cup Brought(k, old)
    BY <2>1 DEF Secrets
  <2>. QED  BY <2>1, <2>2
<1>. QED  BY <1>4, <1>5 DEF Secrets, MergeReady

(* The save that makes the profiles those of the request.                   *)
LEMMA LastSecret ==
    ASSUME WiringInv, WorkInv, NEW r \in Req, Called(r), req[r].op.op \in Profiled,
           Saves(r), Versioned(r), Call(r).at = Nil,
           Secrets(vault, req[r].doc.profiles, Call(r).new.profiles, Range(req[r].todo))
    PROVE  Secrets(vault', row'.profiles, row'.profiles, {})
<1>. DEFINE x == req[r]
            y == req'[r]
            c == Call(r)
            S == Range(x.todo)
            T == Range(y.todo)
<1>1. /\ x.st = "busy" /\ WorkFits(x) /\ c \in S /\ c.c = "save"
      /\ Versioned(r) <=> c.at # Nil \/ c.new.targets # x.doc.targets \/ c.new.profiles # x.doc.profiles
      /\ row'.profiles = (IF c.at # Nil THEN [row.profiles EXCEPT ![c.at] = c.new.profiles[c.at]]
                          ELSE IF c.new.profiles # x.doc.profiles THEN c.new.profiles
                          ELSE row.profiles)
  BY SaveIs DEF WorkInv
<1>2. y.st = "busy" /\ y.wrote
  BY SaveChanges
<1>3. CallFits(x.op, x.doc, c)
  BY <1>1 DEF WorkFits, WorkFit
<1>4. c.new.profiles # x.doc.profiles
  BY <1>1, <1>3 DEF CallFits, Targeted, Profiled
<1>5. row'.profiles = c.new.profiles
  BY <1>1, <1>4
<1>6. vault' = vault
  BY DEF Saves
<1>7. S \subseteq T \cup {c} /\ y.op = x.op
  BY <1>2, CalledStays
<1>8. WorkFits(y)
  BY <1>1, <1>2, FitsWork
<1>9. \A e \in S : e.c # "merge"
  <2>1. \A e \in T : Rank(x.op.op, e) > 0
    BY <1>2, <1>7, <1>8 DEF WorkFits
  <2>2. \A e : e.c = "merge" => Rank(x.op.op, e) = 0
    BY DEF Rank
  <2>. QED  BY <1>1, <1>7, <2>1, <2>2
<1>. QED  BY <1>5, <1>6, <1>9 DEF Secrets

LEMMA SecretCalled ==
    ASSUME WiringInv, ProfileInv, WorkInv, SecretInv, NEW r \in Req, Called(r)
    PROVE  SecretInv'
<1>. SUFFICES ASSUME OpsOf({"content", "metadata"})' = {}, Course(row'.ver, req', Profiled),
                     \A q \in OpsOf(Profiled)' : ~Void(req'[q])
              PROVE  /\ (\A q \in OpsOf(Profiled)' : ~Active(req'[q])) =>
                           Secrets(vault', row'.profiles, row'.profiles, {})
                     /\ \A q \in OpsOf(Profiled)' : Active(req'[q]) =>
                           \A c \in Range(req'[q].todo) : c.c = "save" =>
                              /\ Secrets(vault', req'[q].doc.profiles, c.new.profiles, Range(req'[q].todo))
                              /\ MergeReady(req'[q], c.new.profiles)
  BY DEF SecretInv
<1>1. \A q \in Req : req'[q].op = req[q].op
  BY CalledStays
<1>2. /\ Course(row.ver, req, Profiled)
      /\ \A q \in Req : req[q].op.op \in Profiled => (Void(req[q]) <=> Void(req'[q]))
  <2>1. "content" \notin Profiled /\ "metadata" \notin Profiled
    BY DEF Profiled
  <2>. QED  BY <2>1, CourseCalled
<1>3. /\ OpsOf({"content", "metadata"}) = {} /\ OpsOf(Profiled)' = OpsOf(Profiled)
      /\ \A q \in Req : q \in OpsOf(Profiled) <=> req[q].op.op \in Profiled
  BY <1>1 DEF OpsOf, Profiled
<1>4. \A q \in Req : req[q].op.op \in Profiled => ~Void(req[q])
  BY <1>2, <1>3
<1>5. /\ (\A q \in OpsOf(Profiled) : ~Active(req[q])) => Secrets(vault, row.profiles, row.profiles, {})
      /\ \A q \in OpsOf(Profiled) : Active(req[q]) =>
            \A c \in Range(req[q].todo) : c.c = "save" =>
               /\ Secrets(vault, req[q].doc.profiles, c.new.profiles, Range(req[q].todo))
               /\ MergeReady(req[q], c.new.profiles)
  <2>1. \A q \in OpsOf(Profiled) : ~Void(req[q])
    BY <1>4 DEF OpsOf
  <2>. QED  BY <1>2, <1>3, <2>1 DEF SecretInv
<1>6. \A q \in Req \ {r} : req'[q] = req[q]
  BY CalledReq
<1>7. req[r].st = "busy" /\ req[r].op.op \notin {"content", "metadata"}
  BY <1>3, CalledReq DEF OpsOf
<1>8. CASE ~(req[r].op.op \in Profiled /\ Active(req[r]))
  <2>1. req[r].op.op \in Profiled => ~Active(req'[r])
    <3>. SUFFICES ASSUME req[r].op.op \in Profiled, Active(req'[r]) PROVE FALSE
      OBVIOUS
    <3>1. req[r].wrote
      BY <1>4, <1>7, <1>8 DEF Active
    <3>2. req'[r].wrote
      BY <3>1, CalledReq, SaveChanges DEF Stops
    <3>. QED  BY <3>2 DEF Active
  <2>2. /\ row'.profiles = row.profiles
        /\ \A k \in Key : vault'.target[k] \in {{Seed}, vault.target[k]}
    BY <1>4, <1>7, <1>8, QuietSecret
  <2>3. ASSUME \A q \in OpsOf(Profiled)' : ~Active(req'[q])
        PROVE  Secrets(vault', row'.profiles, row'.profiles, {})
    <3>1. \A q \in OpsOf(Profiled) : ~Active(req[q])
      <4>. SUFFICES ASSUME NEW q \in OpsOf(Profiled), Active(req[q]) PROVE FALSE
        OBVIOUS
      <4>1. q \in Req
        BY DEF OpsOf
      <4>2. q # r
        BY <1>3, <1>8
      <4>. QED  BY <1>3, <1>6, <2>3, <4>1, <4>2
    <3>2. Secrets(vault, row.profiles, row.profiles, {})
      BY <1>5, <3>1
    <3>. QED  BY <2>2, <3>2, SecretsSeeded
  <2>4. ASSUME NEW q \in OpsOf(Profiled)', Active(req'[q]), NEW c \in Range(req'[q].todo), c.c = "save"
        PROVE  /\ Secrets(vault', req'[q].doc.profiles, c.new.profiles, Range(req'[q].todo))
               /\ MergeReady(req'[q], c.new.profiles)
    <3>1. q \in Req /\ q \in OpsOf(Profiled)
      BY <1>3 DEF OpsOf
    <3>2. q # r
      BY <1>3, <2>1, <2>4, <3>1
    <3>3. req'[q] = req[q]
      BY <1>6, <3>1, <3>2
    <3>4. /\ Secrets(vault, req[q].doc.profiles, c.new.profiles, Range(req[q].todo))
          /\ MergeReady(req[q], c.new.profiles)
      BY <1>5, <2>4, <3>1, <3>3
    <3>5. Secrets(vault', req[q].doc.profiles, c.new.profiles, Range(req[q].todo))
      BY <2>2, <3>4, SecretsSeeded
    <3>. QED  BY <3>3, <3>4, <3>5
  <2>. QED  BY <2>3, <2>4
<1>9. CASE req[r].op.op \in Profiled /\ Active(req[r])
  <2>1. ASSUME NEW q \in OpsOf(Profiled)', Active(req'[q]) PROVE q = r
    <3>1. q \in Req /\ req[q].op.op \in Profiled
      BY <1>3 DEF OpsOf
    <3>2. q # r => Active(req[q])
      BY <1>6, <2>1, <3>1
    <3>. QED  BY <1>2, <1>9, <3>1, <3>2 DEF Course
  <2>2. CASE Active(req'[r])
    <3>1. r \in OpsOf(Profiled) /\ r \in OpsOf(Profiled)'
      BY <1>3, <1>9
    <3>2. req'[r].st = "busy" /\ ~req'[r].wrote
      BY <2>2 DEF Active
    <3>3. req'[r].doc.profiles = req[r].doc.profiles
      <4>1. CASE Saves(r)
        <5>1. ~Versioned(r)
          BY <3>2, <4>1, SaveChanges
        <5>. QED  BY <4>1, <5>1, SaveIs, SaveChanges
      <4>2. CASE ~Saves(r)
        BY <3>2, <4>2, CalledStays
      <4>. QED  BY <4>1, <4>2
    <3>4. ASSUME NEW c \in Range(req'[r].todo), c.c = "save"
          PROVE  /\ Secrets(vault', req'[r].doc.profiles, c.new.profiles, Range(req'[r].todo))
                 /\ MergeReady(req'[r], c.new.profiles)
      <4>1. c \in Range(req[r].todo)
        BY <3>2, CalledStays
      <4>2. /\ Secrets(vault, req[r].doc.profiles, c.new.profiles, Range(req[r].todo))
            /\ MergeReady(req[r], c.new.profiles)
        BY <1>5, <1>9, <3>1, <3>4, <4>1
      <4>. QED  BY <1>9, <3>2, <3>3, <3>4, <4>2, BusySecret
    <3>. QED  BY <2>1, <2>2, <3>1, <3>4
  <2>3. CASE ~Active(req'[r])
    <3>1. Void(req'[r]) \/ ~Lost(row'.ver, req'[r])
      BY <1>1, <1>9 DEF Course
    <3>2. Saves(r) /\ Versioned(r) /\ Call(r).at = Nil
      BY <1>7, <1>9, <2>3, <3>1, CourseOne
    <3>3. Call(r) \in Range(req[r].todo) /\ Call(r).c = "save" /\ r \in OpsOf(Profiled)
      BY <1>3, <1>9, <3>2, SaveIs
    <3>4. Secrets(vault, req[r].doc.profiles, Call(r).new.profiles, Range(req[r].todo))
      BY <1>5, <1>9, <3>3
    <3>5. Secrets(vault', row'.profiles, row'.profiles, {})
      BY <1>9, <3>2, <3>4, LastSecret
    <3>. QED  BY <2>1, <2>3, <3>5
  <2>. QED  BY <2>2, <2>3
<1>. QED  BY <1>8, <1>9

LEMMA SecretStarted ==
    ASSUME WiringInv, SecretInv, NEW r \in Req, NEW o \in Ops, NEW plan, Begins(r, o, plan),
           Planned(o, row, plan), PlanWork(o, row, Range(plan))
    PROVE  SecretInv'
<1>. SUFFICES ASSUME OpsOf({"content", "metadata"})' = {}, Course(row'.ver, req', Profiled),
                     \A q \in OpsOf(Profiled)' : ~Void(req'[q])
              PROVE  /\ (\A q \in OpsOf(Profiled)' : ~Active(req'[q])) =>
                           Secrets(vault', row'.profiles, row'.profiles, {})
                     /\ \A q \in OpsOf(Profiled)' : Active(req'[q]) =>
                           \A c \in Range(req'[q].todo) : c.c = "save" =>
                              /\ Secrets(vault', req'[q].doc.profiles, c.new.profiles, Range(req'[q].todo))
                              /\ MergeReady(req'[q], c.new.profiles)
  BY DEF SecretInv
<1>1. row' = row /\ vault' = vault
  BY DEF Begins
<1>2. /\ \A q \in Req \ {r} : req'[q] = req[q]
      /\ req'[r].st = "busy" /\ req'[r].wrote = FALSE
      /\ req'[r].op = o /\ req'[r].doc = row /\ req'[r].todo = plan
  BY BeginsOK DEF WiringInv
<1>3. /\ Course(row.ver, req, Profiled)
      /\ req[r].op.op = "none"
  BY CourseStarted DEF Profiled
<1>4. \A q \in Req : q \in OpsOf(Profiled)' <=> (q # r /\ q \in OpsOf(Profiled)) \/ (q = r /\ o.op \in Profiled)
  BY <1>2 DEF OpsOf, Profiled
<1>5. /\ r \notin OpsOf(Profiled) /\ OpsOf({"content", "metadata"}) = {}
      /\ \A q \in OpsOf(Profiled) : ~Void(req[q])
  <2>1. r \notin OpsOf(Profiled) /\ OpsOf({"content", "metadata"}) = {}
    BY <1>2, <1>3 DEF OpsOf, Profiled
  <2>2. ASSUME NEW q \in OpsOf(Profiled) PROVE ~Void(req[q])
    <3>1. q \in Req \ {r}
      BY <2>1 DEF OpsOf
    <3>. QED  BY <1>2, <1>4, <3>1
  <2>. QED  BY <2>1, <2>2
<1>6. /\ (\A q \in OpsOf(Profiled) : ~Active(req[q])) => Secrets(vault, row.profiles, row.profiles, {})
      /\ \A q \in OpsOf(Profiled) : Active(req[q]) =>
            \A c \in Range(req[q].todo) : c.c = "save" =>
               /\ Secrets(vault, req[q].doc.profiles, c.new.profiles, Range(req[q].todo))
               /\ MergeReady(req[q], c.new.profiles)
  BY <1>3, <1>5 DEF SecretInv
<1>7. CASE o.op \notin Profiled
  BY <1>1, <1>2, <1>4, <1>5, <1>6, <1>7 DEF OpsOf
<1>8. CASE o.op \in Profiled
  <2>. DEFINE S == Range(plan)
  <2>1. r \in OpsOf(Profiled)' /\ Active(req'[r])
    <3>1. r \in OpsOf(Profiled)'
      BY <1>4, <1>8
    <3>. QED  BY <1>2, <3>1 DEF Active
  <2>2. \A q \in Req : req'[q].op.op \in Profiled /\ Active(req'[q]) => q = r
    BY <1>2, <1>8, <2>1 DEF Course
  <2>3. \A q \in OpsOf(Profiled)' : Active(req'[q]) => q = r
    BY <2>2 DEF OpsOf, Profiled
  <2>4. \A q \in OpsOf(Profiled) : ~Active(req[q])
    BY <1>2, <1>5, <2>2 DEF OpsOf
  <2>5. \A k \in Key : vault.target[k] \subseteq Brought(k, row.profiles)
    BY <1>6, <2>4 DEF Secrets
  <2>6. ASSUME NEW c \in S, c.c = "save" PROVE Secrets(vault', row.profiles, c.new.profiles, S)
    <3>1. ProfileMoves(row.profiles, c.new.profiles, S)
      BY <1>8, <2>6 DEF PlanWork
    <3>. QED  BY <1>1, <2>5, <3>1 DEF ProfileMoves, Secrets
  <2>7. \A ps : MergeReady(req'[r], ps)
    <3>1. plan # <<>> => ~Second(plan[1])
      BY DEF Planned, Lists
    <3>. QED  BY <1>2, <3>1 DEF Second, MergeReady
  <2>. QED  BY <1>2, <2>1, <2>3, <2>6, <2>7
<1>. QED  BY <1>7, <1>8

LEMMA SecretStep == WiringInv /\ ProfileInv /\ WorkInv /\ SecretInv /\ [WiringNext]_project => SecretInv'
<1>. SUFFICES ASSUME WiringInv, ProfileInv, WorkInv, SecretInv, [WiringNext]_project PROVE SecretInv'
  OBVIOUS
<1>1. ASSUME UNCHANGED <<row, vault, gitlab, req>> PROVE SecretInv'
  BY <1>1 DEF SecretInv, OpsOf
<1>. QED  BY <1>1, WorkNextIs, SecretStarted, SecretCalled

LEMMA SecretInit == WiringInit => SecretInv
<1>. SUFFICES ASSUME WiringInit PROVE SecretInv
  OBVIOUS
<1>1. PICK in \in Creations :
         /\ row = NewDoc(in) /\ vault = NewVault(NewDoc(in))
         /\ req = [r \in Req |-> Idle]
  BY DEF WiringInit
<1>2. \A k \in Key : vault.target[k] \subseteq Brought(k, row.profiles)
  BY <1>1 DEF NewVault, Brought
<1>3. \A r \in Req : req[r].op.op = "none"
  BY <1>1 DEF Idle
<1>4. OpsOf(Profiled) = {}
  BY <1>3 DEF OpsOf, Profiled
<1>. QED  BY <1>2, <1>4 DEF SecretInv, Secrets

(* When uploads and deletions of profiles have all succeeded, a target's    *)
(* secret has no key but those of the profiles that are stored for it:      *)
(* although each upload writes back the whole secret that it read, the      *)
(* requests that read one document cannot all save.                         *)
THEOREM SecretsFollowRow == WiringSpec => []NoOrphanKeys
<1>1. WiringInit => WiringInv /\ WorkInv /\ SecretInv
  BY InitOK, WorkInit, SecretInit
<1>2. WiringInv /\ ProfileInv /\ WorkInv /\ SecretInv /\ [WiringNext]_project
      => WiringInv' /\ WorkInv' /\ SecretInv'
  BY WiringStep, WorkStep, SecretStep
<1>3. WiringInv /\ WorkInv /\ SecretInv => NoOrphanKeys
  <2>. SUFFICES ASSUME WiringInv, WorkInv, SecretInv, Done, \A r \in Req : Succeeded(r),
                       OpsOf({"content", "metadata"}) = {}
                PROVE  \A k \in Key : vault.target[k] \subseteq {Seed} \cup NamesIn(row.profiles, k)
    BY DEF NoOrphanKeys
  <2>1. \A r \in Req : req[r].st \in {"idle", "done"}
    BY DEF Done, Succeeded
  <2>2. \A r \in Req : req[r].op.op \in Profiled => req[r].st = "done" /\ req[r].wrote
    <3>. SUFFICES ASSUME NEW r \in Req, req[r].op.op \in Profiled
                  PROVE  req[r].st = "done" /\ req[r].wrote
      OBVIOUS
    <3>1. req[r].st # "idle"
      BY DEF WiringInv, ReqOK, Profiled
    <3>2. r \in OpsOf(Profiled)
      BY DEF OpsOf
    <3>. QED  BY <2>1, <3>1, <3>2 DEF WorkInv
  <2>3. \A r \in Req : ~Active(req[r]) /\ ~Void(req[r])
    BY <2>1 DEF Active, Void
  <2>4. \A r \in Req : req[r].op.op \in Profiled => ~Lost(row.ver, req[r])
    BY <2>2 DEF Lost
  <2>5. Course(row.ver, req, Profiled)
    BY <2>3, <2>4 DEF Course
  <2>6. \A r \in OpsOf(Profiled) : ~Active(req[r]) /\ ~Void(req[r])
    BY <2>3 DEF OpsOf
  <2>7. Secrets(vault, row.profiles, row.profiles, {})
    BY <2>5, <2>6 DEF SecretInv
  <2>. QED  BY <2>7 DEF Secrets, Brought
<1>. QED  BY <1>1, <1>2, <1>3, ProfileInvariant, PTL DEF WiringSpec

-----------------------------------------------------------------------------
(***************************************************************************)
(* The document as its readers see it: every change is one request's edit. *)
(***************************************************************************)
Flagged(doc) == ProfilesOf(doc) # {} => doc.runtime = RuntimeEnv(doc.profiles)
Origin(doc) == [app |-> doc.app, deployable |-> doc.deployable]

(* How a request o turns document d into new: its edit of the targets, of   *)
(* the list of profiles, or of one profile in place.                        *)
Retargeted(o, d, new) ==
    \/ /\ o.op = "upsert" /\ o.apps # {}
       /\ new.targets = Document!Upserted(d.targets, o)
       /\ ValidRef(new.targets[o.key].ref, o.on)
    \/ /\ o.op = "remove" /\ d.targets[o.key] # Nil
       /\ new.targets = [d.targets EXCEPT ![o.key] = Nil]
    \/ /\ o.op = "hostname" /\ d.targets[o.key] # Nil
       /\ new.targets = Document!Hosted(d.targets, o)
    \/ /\ o.op = "migrate"
       /\ new.targets = Document!Migrated(d.targets, Origin(d), o)
Relisted(o, d, new) ==
    /\ Document!OthersStay(o, d.profiles, new.profiles)
    /\ new.runtime = RuntimeEnv(new.profiles)
    /\ \/ /\ o.op = "upload" /\ d.profiles[o.profile] = Nil
          /\ new.profiles[o.profile] = NewProfile(o)
          /\ Document!Admitted(o, d.targets, new.profiles)
       \/ o.op = "drop" /\ d.profiles[o.profile] # Nil /\ new.profiles[o.profile] = Nil

EditFits(o, d, c) ==
    /\ c.new.app = d.app /\ c.new.deployable = d.deployable
    /\ c.new.targets # d.targets =>
          c.at = Nil /\ c.new.profiles = d.profiles /\ Retargeted(o, d, c.new)
    /\ c.new.profiles # d.profiles /\ c.at = Nil => Relisted(o, d, c.new)
    /\ c.new.profiles = d.profiles \/ c.at # Nil => c.new.runtime = d.runtime
    /\ c.at # Nil => Document!EditedBy(o, d.profiles[c.at], c.new.profiles[c.at])
    /\ c.new.legacy # d.legacy => o.op = "migrate"
    /\ c.new.pinned # d.pinned =>
          \/ o.op = "pin" /\ c.new.pinned = o.pinned
          \/ o.op = "migrate" /\ o.unpin /\ c.new.pinned = FALSE

EditsFit(o, d, S) ==
    /\ \A c \in S : c.c = "save" => EditFits(o, d, c)
    /\ \A c, e \in S : c.c = "save" /\ e.c = "save" /\ Rank(o.op, c) <= Rank(o.op, e)
                       => EditFits(o, c.new, e)

(* A document that still has the stored version is the stored one, but for  *)
(* flags and for what edits in place have made of its profiles.             *)
AsStored(d) ==
    /\ d.app = row.app /\ d.deployable = row.deployable
    /\ d.ver = row.ver =>
          /\ d.targets = row.targets /\ d.runtime = row.runtime
          /\ \A p \in Profile : Document!SameKind(d.profiles[p], row.profiles[p])

DocumentInv ==
    /\ Flagged(row)
    /\ \A r \in Req : req[r].st = "busy" =>
          AsStored(req[r].doc) /\ EditsFit(req[r].op, req[r].doc, Range(req[r].todo))

(* The rules are the same ones in both modules.                             *)
LEMMA RulesAgree ==
    /\ \A ts, o : Document!Upserted(ts, o) =
          [ts EXCEPT ![o.key] = [on |-> o.on, ref |-> SavedRef(o.key, o.on, o.ref, ts[o.key]),
                                 host |-> HostsFor(o.key, o.apps, o.hosts)]]
    /\ \A ts, o : Document!Hosted(ts, o) = [ts EXCEPT ![o.key].host[First(AppsOf(ts[o.key]))] = o.host]
    /\ \A o : Document!NewProfile(o) = NewProfile(o)
    /\ \A p, q : Document!Overlaps(p, q) <=> Overlaps(p, q)
    /\ \A ps : Document!RuntimeEnv(ps) <=> RuntimeEnv(ps)
    /\ \A ts : Document!KeysOf(ts) = KeysOf(ts)
    /\ \A ref, on : Document!ValidRef(ref, on) <=> ValidRef(ref, on)
<1>1. \A k, on, asked, old : Document!SavedRef(k, on, asked, old) = SavedRef(k, on, asked, old)
  BY DEF Document!SavedRef, SavedRef, Document!DefaultDeployRef, DefaultDeployRef
<1>2. \A k, apps, asked : Document!HostsFor(k, apps, asked) = HostsFor(k, apps, asked)
  BY DEF Document!HostsFor, HostsFor, Document!DerivedHost, DerivedHost
<1>3. \A t : Document!First(Document!AppsOf(t)) = First(AppsOf(t))
  BY DEF Document!First, First, Document!AppsOf, AppsOf
<1>4. \A ts, o : Document!Upserted(ts, o) =
          [ts EXCEPT ![o.key] = [on |-> o.on, ref |-> SavedRef(o.key, o.on, o.ref, ts[o.key]),
                                 host |-> HostsFor(o.key, o.apps, o.hosts)]]
  BY <1>1, <1>2 DEF Document!Upserted
<1>5. \A ts, o : Document!Hosted(ts, o) = [ts EXCEPT ![o.key].host[First(AppsOf(ts[o.key]))] = o.host]
  BY <1>3 DEF Document!Hosted
<1>6. \A o : Document!NewProfile(o) = NewProfile(o)
  BY DEF Document!NewProfile, NewProfile
<1>7. \A p, q : Document!Overlaps(p, q) <=> Overlaps(p, q)
  BY DEF Document!Overlaps, Overlaps
<1>8. \A ps : Document!RuntimeEnv(ps) <=> RuntimeEnv(ps)
  BY DEF Document!RuntimeEnv, RuntimeEnv
<1>9. \A ts : Document!KeysOf(ts) = KeysOf(ts)
  BY DEF Document!KeysOf, KeysOf
<1>10. \A ref, on : Document!ValidRef(ref, on) <=> ValidRef(ref, on)
  BY DEF Document!ValidRef, ValidRef
<1>. QED  BY <1>4, <1>5, <1>6, <1>7, <1>8, <1>9, <1>10

LEMMA MigratedIs ==
    ASSUME NEW doc, NEW o
    PROVE  Document!Migrated(doc.targets, Origin(doc), o) = MigrateTargets(doc, o)
<1>1. Origin(doc).app = doc.app /\ Origin(doc).deployable = doc.deployable
  BY DEF Origin
<1>2. \A k, asked, apps : Document!HostsFor(k, apps, asked) = HostsFor(k, apps, asked)
  BY DEF Document!HostsFor, HostsFor, Document!DerivedHost, DerivedHost
<1>3. \A k, app, deployable : Document!DeriveStandard(k, app, deployable) = DeriveStandard(k, app, deployable)
  BY <1>2 DEF Document!DeriveStandard, DeriveStandard, Document!NoApps, NoApps
<1>4. \A k, t, opts : Document!OverriddenRef(k, t, opts) = OverriddenRef(k, t, opts)
  BY DEF Document!OverriddenRef, OverriddenRef
<1>5. \A ts, opts : Document!Overridden(ts, opts) = Overridden(ts, opts)
  BY <1>4 DEF Document!Overridden, Overridden
<1>6. \A ts : Document!KeysOf(ts) = KeysOf(ts)
  BY DEF Document!KeysOf, KeysOf
<1>. QED  BY <1>1, <1>3, <1>5, <1>6 DEF Document!Migrated, MigrateTargets

(* The saves of each plan.                                                  *)
LEMMA QuietPieces ==
    /\ \A k, apps : \A c \in Teardowns(k, apps) \cup Unscopes(k, apps) : c.c # "save"
    /\ \A T, minus, plus, body : \A c \in Merges(T, minus, plus, body) : c.c # "save"
    /\ \A doc, branches : \A c \in AfterSet(doc, branches) : c.c # "save"
    /\ \A doc, b : \A c \in SyncSet(doc, b) : c.c = "save" => c = SaveOf(doc, Nil)
    /\ \A k : SeedOf(k).c # "save" /\ NoRefOf(k).c # "save"
    /\ \A b : ReadRootOf(b).c # "save"
    /\ \A b, ts : CommitOf(b, ts).c # "save" /\ RootOf(b, ts).c # "save"
    /\ \A b, on : ChartOf(b, on).c # "save"
    /\ \A k, a, h : HostOf(k, a, h).c # "save"
    /\ \A p, names : BodyOf(p, names).c # "save"
    /\ \A p : ReadBodyOf(p).c # "save" /\ DropOf(p).c # "save"
    /\ RejectOf.c # "save"
<1>1. \A k, apps : \A c \in Teardowns(k, apps) \cup Unscopes(k, apps) : c.c # "save"
  BY DEF Teardowns, TeardownOf, Unscopes, UnscopeOf
<1>2. \A T, minus, plus, body : \A c \in Merges(T, minus, plus, body) : c.c # "save"
  BY DEF Merges, ReadOf, MergeOf
<1>3. \A doc, branches : \A c \in AfterSet(doc, branches) : c.c # "save"
  <2>. SUFFICES ASSUME NEW doc, NEW branches, NEW c \in AfterSet(doc, branches) PROVE c.c # "save"
    OBVIOUS
  <2>. QED  BY DEF AfterSet, IndexCall, Charts, ChartOf
<1>4. \A doc, b : \A c \in SyncSet(doc, b) : c.c = "save" => c = SaveOf(doc, Nil)
  BY DEF SyncSet, SeedCalls, SeedOf, Publishes, PublishOf, ReadRootOf, CommitOf
<1>5. /\ \A k : SeedOf(k).c # "save" /\ NoRefOf(k).c # "save"
      /\ \A b : ReadRootOf(b).c # "save"
      /\ \A b, ts : CommitOf(b, ts).c # "save" /\ RootOf(b, ts).c # "save"
      /\ \A b, on : ChartOf(b, on).c # "save"
      /\ \A k, a, h : HostOf(k, a, h).c # "save"
      /\ \A p, names : BodyOf(p, names).c # "save"
      /\ \A p : ReadBodyOf(p).c # "save" /\ DropOf(p).c # "save"
      /\ RejectOf.c # "save"
  BY DEF SeedOf, NoRefOf, ReadRootOf, CommitOf, RootOf, ChartOf, HostOf, BodyOf, ReadBodyOf, DropOf, RejectOf
<1>. QED  BY <1>1, <1>2, <1>3, <1>4, <1>5

LEMMA TargetSaves ==
    ASSUME NEW doc, NEW o
    PROVE  /\ \A c \in UpsertSet(doc, o) : c.c = "save" => ~Refused(doc, o) /\ c = SaveOf(UpsertDoc(doc, o), Nil)
           /\ \A c \in RemoveSet(doc, o) : c.c = "save" =>
                 doc.targets[o.key] # Nil /\ c = SaveOf(RemoveDoc(doc, o), Nil)
           /\ \A c \in HostnameSet(doc, o) : c.c = "save" =>
                 doc.targets[o.key] # Nil /\ c = SaveOf(HostDoc(doc, o), Nil)
           /\ \A c \in PinSet(doc, o) : c = SaveOf(PinDoc(doc, o), Nil)
           /\ \A c \in MigrateSet(doc, o) : c.c = "save" =>
                 /\ doc.legacy /\ ~(doc.pinned /\ ~o.unpin)
                 /\ c \in {SaveOf(MigrateDoc(doc, o), Nil), SaveOf(MigrateFlags(doc, o), Nil)}
<1>1. \A c \in UpsertSet(doc, o) : c.c = "save" => ~Refused(doc, o) /\ c = SaveOf(UpsertDoc(doc, o), Nil)
  <2>1. CASE Refused(doc, o)
    BY <2>1, QuietPieces DEF UpsertSet
  <2>2. CASE ~Refused(doc, o)
    <3>. DEFINE A == Teardowns(o.key, AppsOf(UpsertNew(doc, o)))
                B == Unscopes(o.key, AppsOf(doc.targets[o.key]) \ AppsOf(UpsertNew(doc, o)))
                C == SyncSet(UpsertDoc(doc, o), OwnBranch(UpsertNew(doc, o).ref))
    <3>1. UpsertSet(doc, o) \subseteq A \cup B \cup {SeedOf(o.key)} \cup C \cup {SaveOf(UpsertDoc(doc, o), Nil)}
      BY <2>2 DEF UpsertSet
    <3>2. \A c \in A \cup B \cup {SeedOf(o.key)} : c.c # "save"
      BY QuietPieces
    <3>3. \A c \in C : c.c = "save" => c = SaveOf(UpsertDoc(doc, o), Nil)
      BY QuietPieces
    <3>. HIDE DEF A, B, C
    <3>. QED  BY <2>2, <3>1, <3>2, <3>3
  <2>. QED  BY <2>1, <2>2
<1>2. \A c \in RemoveSet(doc, o) : c.c = "save" =>
         doc.targets[o.key] # Nil /\ c = SaveOf(RemoveDoc(doc, o), Nil)
  <2>1. CASE doc.targets[o.key] = Nil
    BY <2>1, QuietPieces DEF RemoveSet
  <2>2. CASE doc.targets[o.key] # Nil
    <3>. DEFINE old == doc.targets[o.key]
                A == Teardowns(o.key, AppsOf(old))
                B == Unscopes(o.key, AppsOf(old))
                C == {NoRefOf(o.key), ReadRootOf(OwnBranch(old.ref)),
                      CommitOf(OwnBranch(old.ref), RemoveDoc(doc, o).targets)}
    <3>1. RemoveSet(doc, o) \subseteq A \cup B \cup C \cup {SaveOf(RemoveDoc(doc, o), Nil)}
      BY <2>2 DEF RemoveSet
    <3>2. \A c \in A \cup B \cup C : c.c # "save"
      BY QuietPieces
    <3>. HIDE DEF A, B, C
    <3>. QED  BY <2>2, <3>1, <3>2
  <2>. QED  BY <2>1, <2>2
<1>3. \A c \in HostnameSet(doc, o) : c.c = "save" =>
         doc.targets[o.key] # Nil /\ c = SaveOf(HostDoc(doc, o), Nil)
  BY QuietPieces DEF HostnameSet
<1>4. \A c \in PinSet(doc, o) : c = SaveOf(PinDoc(doc, o), Nil)
  BY DEF PinSet
<1>5. \A c \in MigrateSet(doc, o) : c.c = "save" =>
         /\ doc.legacy /\ ~(doc.pinned /\ ~o.unpin)
         /\ c \in {SaveOf(MigrateDoc(doc, o), Nil), SaveOf(MigrateFlags(doc, o), Nil)}
  <2>1. CASE doc.pinned /\ ~o.unpin
    BY <2>1, QuietPieces DEF MigrateSet
  <2>2. CASE ~(doc.pinned /\ ~o.unpin) /\ ~doc.legacy
    BY <2>2 DEF MigrateSet
  <2>3. CASE ~(doc.pinned /\ ~o.unpin) /\ doc.legacy
    <3>. DEFINE b == PipelineRef(o.opts)
                A == SyncSet(MigrateDoc(doc, o), b)
                B == {ChartOf(b, doc.runtime), ReadRootOf(b), RootOf(b, MigrateDoc(doc, o).targets)}
    <3>1. MigrateSet(doc, o) \subseteq A \cup B \cup {SaveOf(MigrateFlags(doc, o), Nil)}
      BY <2>3 DEF MigrateSet
    <3>2. \A c \in B : c.c # "save"
      BY QuietPieces
    <3>3. \A c \in A : c.c = "save" => c = SaveOf(MigrateDoc(doc, o), Nil)
      BY QuietPieces
    <3>. HIDE DEF A, B
    <3>. QED  BY <2>3, <3>1, <3>2, <3>3
  <2>. QED  BY <2>1, <2>2, <2>3
<1>. QED  BY <1>1, <1>2, <1>3, <1>4, <1>5

LEMMA ProfileSaves ==
    ASSUME NEW doc, NEW o
    PROVE  /\ \A c \in UploadSet(doc, o) : c.c = "save" =>
                 /\ ValidUpload(doc, o) /\ ~Conflicts(doc, o)
                 /\ c = SaveOf(UploadDoc(doc, o), Nil)
           /\ \A c \in ContentSet(doc, o) : c.c = "save" =>
                 doc.profiles[o.profile] # Nil /\ c = SaveOf(ContentDoc(doc, o), o.profile)
           /\ \A c \in MetadataSet(doc, o) : c.c = "save" =>
                 /\ doc.profiles[o.profile] # Nil /\ EditedPlace(doc, o).branches # {}
                 /\ c = SaveOf(MetadataDoc(doc, o), o.profile)
           /\ \A c \in DropSet(doc, o) : c.c = "save" =>
                 doc.profiles[o.profile] # Nil /\ c = SaveOf(DropDoc(doc, o), Nil)
<1>. DEFINE old == doc.profiles[o.profile]
<1>1. \A c \in UploadSet(doc, o) : c.c = "save" =>
         /\ ValidUpload(doc, o) /\ ~Conflicts(doc, o)
         /\ c = SaveOf(UploadDoc(doc, o), Nil)
  <2>. DEFINE A == Merges(NewProfile(o).targets, {}, o.names, FALSE) \cup {BodyOf(o.profile, o.names)}
              B == AfterSet(UploadDoc(doc, o), NewProfile(o).branches)
  <2>1. \A c \in A \cup B \cup {RejectOf} : c.c # "save"
    BY QuietPieces
  <2>2. UploadSet(doc, o) \subseteq A \cup B \cup {RejectOf} \cup
           (IF ValidUpload(doc, o) /\ ~Conflicts(doc, o) THEN {SaveOf(UploadDoc(doc, o), Nil)} ELSE {})
    BY DEF UploadSet
  <2>. HIDE DEF A, B
  <2>. QED  BY <2>1, <2>2
<1>2. \A c \in ContentSet(doc, o) : c.c = "save" => old # Nil /\ c = SaveOf(ContentDoc(doc, o), o.profile)
  <2>. DEFINE A == Merges(old.targets, old.names, {}, FALSE) \cup Merges(old.targets, {}, o.names, FALSE)
                   \cup {BodyOf(o.profile, o.names)}
              B == AfterSet(ContentDoc(doc, o), EditedNames(doc, o).branches)
  <2>1. \A c \in A \cup B \cup {RejectOf} : c.c # "save"
    BY QuietPieces
  <2>2. ContentSet(doc, o) \subseteq A \cup B \cup {RejectOf} \cup
           (IF old # Nil THEN {SaveOf(ContentDoc(doc, o), o.profile)} ELSE {})
    BY DEF ContentSet
  <2>. HIDE DEF A, B
  <2>. QED  BY <2>1, <2>2
<1>3. \A c \in MetadataSet(doc, o) : c.c = "save" =>
         /\ old # Nil /\ EditedPlace(doc, o).branches # {}
         /\ c = SaveOf(MetadataDoc(doc, o), o.profile)
  <2>. DEFINE A == Merges(old.targets, old.names, {}, FALSE) \cup {ReadBodyOf(o.profile)}
                   \cup Merges(EditedPlace(doc, o).targets, {}, {}, TRUE)
              B == AfterSet(MetadataDoc(doc, o), old.branches \cup EditedPlace(doc, o).branches)
  <2>1. \A c \in A \cup B \cup {RejectOf} : c.c # "save"
    BY QuietPieces
  <2>2. MetadataSet(doc, o) \subseteq A \cup B \cup {RejectOf} \cup
           (IF old # Nil /\ EditedPlace(doc, o).branches # {}
            THEN {SaveOf(MetadataDoc(doc, o), o.profile)} ELSE {})
    BY DEF MetadataSet, MovesOf
  <2>. HIDE DEF A, B
  <2>. QED  BY <2>1, <2>2
<1>4. \A c \in DropSet(doc, o) : c.c = "save" => old # Nil /\ c = SaveOf(DropDoc(doc, o), Nil)
  <2>. DEFINE A == Merges(old.targets, old.names, {}, FALSE) \cup {DropOf(o.profile)}
              B == AfterSet(DropDoc(doc, o), old.branches)
  <2>1. \A c \in A \cup B \cup {RejectOf} : c.c # "save"
    BY QuietPieces
  <2>2. DropSet(doc, o) \subseteq A \cup B \cup {RejectOf} \cup
           (IF old # Nil THEN {SaveOf(DropDoc(doc, o), Nil)} ELSE {})
    BY DEF DropSet
  <2>. HIDE DEF A, B
  <2>. QED  BY <2>1, <2>2
<1>. QED  BY <1>1, <1>2, <1>3, <1>4

(* Plans that save one document.                                            *)
LEMMA EditsOne ==
    ASSUME NEW o, NEW d, NEW new, NEW at, NEW S, \A c \in S : c.c = "save" => c = SaveOf(new, at),
           (\E c \in S : c.c = "save") => /\ EditFits(o, d, SaveOf(new, at))
                                          /\ EditFits(o, new, SaveOf(new, at))
    PROVE  EditsFit(o, d, S)
<1>1. SaveOf(new, at).new = new
  BY DEF SaveOf
<1>. QED  BY <1>1 DEF EditsFit

LEMMA EditSame ==
    ASSUME NEW o, NEW new PROVE EditFits(o, new, SaveOf(new, Nil))
<1>1. SaveOf(new, Nil).new = new /\ SaveOf(new, Nil).at = Nil
  BY DEF SaveOf
<1>. QED  BY <1>1 DEF EditFits

LEMMA TargetEdits ==
    ASSUME NEW o, NEW d, NEW new, new.app = d.app, new.deployable = d.deployable,
           new.profiles = d.profiles, new.runtime = d.runtime, new.legacy = d.legacy,
           new.pinned = d.pinned, Retargeted(o, d, new),
           NEW S, \A c \in S : c.c = "save" => c = SaveOf(new, Nil)
    PROVE  EditsFit(o, d, S)
<1>1. SaveOf(new, Nil).new = new /\ SaveOf(new, Nil).at = Nil
  BY DEF SaveOf
<1>2. EditFits(o, d, SaveOf(new, Nil))
  BY <1>1 DEF EditFits
<1>. QED  BY <1>2, EditSame, EditsOne

LEMMA NoEdits == ASSUME NEW o, NEW d, NEW S, \A c \in S : c.c # "save" PROVE EditsFit(o, d, S)
BY DEF EditsFit

LEMMA UpsertEdits ==
    ASSUME NEW doc \in Doc, NEW o \in UpsertDeploymentTargetInput
    PROVE  EditsFit(o, doc, UpsertSet(doc, o))
<1>. DEFINE next == UpsertDoc(doc, o)
            S == UpsertSet(doc, o)
<1>1. \A c \in S : c.c = "save" => ~Refused(doc, o) /\ c = SaveOf(next, Nil)
  BY TargetSaves
<1>2. o.op = "upsert" /\ o.key \in Key /\ doc.targets \in [Key -> GoodTarget \cup {Nil}]
  BY DEF UpsertDeploymentTargetInput, Doc
<1>3. /\ next.app = doc.app /\ next.deployable = doc.deployable /\ next.profiles = doc.profiles
      /\ next.runtime = doc.runtime /\ next.legacy = doc.legacy /\ next.pinned = doc.pinned
      /\ next.targets = [doc.targets EXCEPT ![o.key] = UpsertNew(doc, o)]
  BY DEF UpsertDoc, Doc
<1>4. next.targets = Document!Upserted(doc.targets, o)
  BY <1>3, RulesAgree DEF UpsertNew
<1>5. next.targets[o.key] = UpsertNew(doc, o)
  BY <1>2, <1>3
<1>. HIDE DEF S, next
<1>6. ~Refused(doc, o) => Retargeted(o, doc, next)
  BY <1>2, <1>4, <1>5 DEF Retargeted, Refused
<1>7. CASE Refused(doc, o)
  BY <1>1, <1>7, NoEdits DEF S
<1>8. CASE ~Refused(doc, o)
  <2>1. EditsFit(o, doc, S)
    BY <1>1, <1>3, <1>6, <1>8, TargetEdits
  <2>. QED  BY <2>1 DEF S
<1>. QED  BY <1>7, <1>8

LEMMA RemoveEdits ==
    ASSUME NEW doc \in Doc, NEW o \in RemoveDeploymentTargetArgs
    PROVE  EditsFit(o, doc, RemoveSet(doc, o))
<1>. DEFINE next == RemoveDoc(doc, o)
            S == RemoveSet(doc, o)
<1>1. \A c \in S : c.c = "save" => doc.targets[o.key] # Nil /\ c = SaveOf(next, Nil)
  BY TargetSaves
<1>2. o.op = "remove"
  BY DEF RemoveDeploymentTargetArgs
<1>3. /\ next.app = doc.app /\ next.deployable = doc.deployable /\ next.profiles = doc.profiles
      /\ next.runtime = doc.runtime /\ next.legacy = doc.legacy /\ next.pinned = doc.pinned
      /\ next.targets = [doc.targets EXCEPT ![o.key] = Nil]
  BY DEF RemoveDoc, Doc
<1>. HIDE DEF S, next
<1>4. doc.targets[o.key] # Nil => Retargeted(o, doc, next)
  BY <1>2, <1>3 DEF Retargeted
<1>5. CASE doc.targets[o.key] = Nil
  BY <1>1, <1>5, NoEdits DEF S
<1>6. CASE doc.targets[o.key] # Nil
  <2>1. EditsFit(o, doc, S)
    BY <1>1, <1>3, <1>4, <1>6, TargetEdits
  <2>. QED  BY <2>1 DEF S
<1>. QED  BY <1>5, <1>6

LEMMA HostnameEdits ==
    ASSUME NEW doc \in Doc, NEW o \in HostnameArgs
    PROVE  EditsFit(o, doc, HostnameSet(doc, o))
<1>. DEFINE next == HostDoc(doc, o)
            S == HostnameSet(doc, o)
<1>1. \A c \in S : c.c = "save" => doc.targets[o.key] # Nil /\ c = SaveOf(next, Nil)
  BY TargetSaves
<1>2. o.op = "hostname"
  BY DEF HostnameArgs
<1>3. /\ next.app = doc.app /\ next.deployable = doc.deployable /\ next.profiles = doc.profiles
      /\ next.runtime = doc.runtime /\ next.legacy = doc.legacy /\ next.pinned = doc.pinned
      /\ next.targets = [doc.targets EXCEPT ![o.key].host[First(AppsOf(doc.targets[o.key]))] = o.host]
  BY DEF HostDoc, HostApp, Doc
<1>4. next.targets = Document!Hosted(doc.targets, o)
  BY <1>3, RulesAgree
<1>. HIDE DEF S, next
<1>5. doc.targets[o.key] # Nil => Retargeted(o, doc, next)
  BY <1>2, <1>4 DEF Retargeted
<1>6. CASE doc.targets[o.key] = Nil
  BY <1>1, <1>6, NoEdits DEF S
<1>7. CASE doc.targets[o.key] # Nil
  <2>1. EditsFit(o, doc, S)
    BY <1>1, <1>3, <1>5, <1>7, TargetEdits
  <2>. QED  BY <2>1 DEF S
<1>. QED  BY <1>6, <1>7

LEMMA PinEdits ==
    ASSUME NEW doc \in Doc, NEW o \in PinArgs
    PROVE  EditsFit(o, doc, PinSet(doc, o))
<1>. DEFINE next == PinDoc(doc, o)
            S == PinSet(doc, o)
<1>1. \A c \in S : c = SaveOf(next, Nil)
  BY TargetSaves
<1>2. o.op = "pin"
  BY DEF PinArgs
<1>3. /\ next.app = doc.app /\ next.deployable = doc.deployable /\ next.profiles = doc.profiles
      /\ next.runtime = doc.runtime /\ next.legacy = doc.legacy /\ next.targets = doc.targets
      /\ next.pinned = o.pinned
  BY DEF PinDoc, Doc
<1>. HIDE DEF S, next
<1>4. SaveOf(next, Nil).new = next /\ SaveOf(next, Nil).at = Nil
  BY DEF SaveOf
<1>5. EditFits(o, doc, SaveOf(next, Nil))
  BY <1>2, <1>3, <1>4 DEF EditFits
<1>6. EditsFit(o, doc, S)
  BY <1>1, <1>5, EditSame, EditsOne
<1>. QED  BY <1>6 DEF S

(* A migration saves the targets first and the flags with or after them.    *)
LEMMA MigrateEdits ==
    ASSUME NEW doc \in Doc, NEW o \in MigrateInput
    PROVE  EditsFit(o, doc, MigrateSet(doc, o))
<1>. DEFINE next == MigrateDoc(doc, o)
            flags == MigrateFlags(doc, o)
            S == MigrateSet(doc, o)
            c1 == SaveOf(next, Nil)
            c2 == SaveOf(flags, Nil)
<1>1. \A c \in S : c.c = "save" => doc.legacy /\ c \in {c1, c2}
  BY TargetSaves
<1>2. o.op = "migrate" /\ o.unpin \in BOOLEAN
  BY DEF MigrateInput
<1>3. /\ next.app = doc.app /\ next.deployable = doc.deployable /\ next.profiles = doc.profiles
      /\ next.runtime = doc.runtime /\ next.legacy = doc.legacy /\ next.pinned = doc.pinned
      /\ next.targets = MigrateTargets(doc, o)
  BY DEF MigrateDoc, Doc
<1>4. /\ flags.app = doc.app /\ flags.deployable = doc.deployable /\ flags.profiles = doc.profiles
      /\ flags.runtime = doc.runtime /\ flags.targets = next.targets /\ flags.legacy = FALSE
      /\ flags.pinned = IF o.unpin THEN FALSE ELSE doc.pinned
  BY DEF MigrateFlags, MigrateDoc, Doc
<1>5. Retargeted(o, doc, next) /\ Retargeted(o, doc, flags)
  BY <1>2, <1>3, <1>4, MigratedIs DEF Retargeted
<1>6. c1.new = next /\ c1.at = Nil /\ c2.new = flags /\ c2.at = Nil /\ c1.c = "save" /\ c2.c = "save"
  BY DEF SaveOf
<1>7. doc.legacy => Rank(o.op, c1) = 1
  BY <1>3, <1>6 DEF Rank
<1>8. Rank(o.op, c2) = 2
  BY <1>4, <1>6 DEF Rank
<1>9. EditFits(o, next, c1) /\ EditFits(o, flags, c2)
  BY EditSame
<1>. HIDE DEF S, next, flags, c1, c2
<1>10. EditFits(o, doc, c1) /\ EditFits(o, doc, c2)
  BY <1>2, <1>3, <1>4, <1>5, <1>6 DEF EditFits
<1>11. EditFits(o, next, c2)
  BY <1>2, <1>3, <1>4, <1>6 DEF EditFits
<1>12. EditsFit(o, doc, S)
  <2>1. \A c \in S : c.c = "save" => EditFits(o, doc, c)
    BY <1>1, <1>10
  <2>2. ASSUME NEW c \in S, NEW e \in S, c.c = "save", e.c = "save", Rank(o.op, c) <= Rank(o.op, e)
        PROVE  EditFits(o, c.new, e)
    <3>1. doc.legacy /\ c \in {c1, c2} /\ e \in {c1, c2}
      BY <1>1, <2>2
    <3>2. ~(c = c2 /\ e = c1)
      BY <1>7, <1>8, <2>2, <3>1
    <3>. QED  BY <1>6, <1>9, <1>11, <3>1, <3>2
  <2>. QED  BY <2>1, <2>2 DEF EditsFit
<1>. QED  BY <1>12 DEF S

LEMMA KindIs ==
    /\ \A p : Document!SameKind(p, p)
    /\ \A p, q : Document!SameKind(p, q) => Document!SameKind(q, p)
    /\ \A p, q, s : Document!SameKind(p, q) /\ Document!SameKind(q, s) => Document!SameKind(p, s)
BY DEF Document!SameKind

(* Profiles of the same kinds give the chart the same flag.                 *)
LEMMA KindFlags ==
    ASSUME NEW ps, NEW qs, \A p \in Profile : Document!SameKind(ps[p], qs[p])
    PROVE  RuntimeEnv(ps) = RuntimeEnv(qs)
BY DEF RuntimeEnv, Document!SameKind

LEMMA ListEdits ==
    ASSUME NEW o, NEW d, NEW new, new.app = d.app, new.deployable = d.deployable,
           new.targets = d.targets, new.legacy = d.legacy, new.pinned = d.pinned,
           new.profiles # d.profiles, Relisted(o, d, new),
           NEW S, \A c \in S : c.c = "save" => c = SaveOf(new, Nil)
    PROVE  EditsFit(o, d, S)
<1>1. SaveOf(new, Nil).new = new /\ SaveOf(new, Nil).at = Nil
  BY DEF SaveOf
<1>2. EditFits(o, d, SaveOf(new, Nil))
  BY <1>1 DEF EditFits
<1>. QED  BY <1>2, EditSame, EditsOne

LEMMA UploadEdits ==
    ASSUME NEW doc \in Doc, NEW o \in UploadEnvProfileInput, doc.profiles[o.profile] = Nil
    PROVE  EditsFit(o, doc, UploadSet(doc, o))
<1>. DEFINE next == UploadDoc(doc, o)
            S == UploadSet(doc, o)
            new == NewProfile(o)
<1>1. \A c \in S : c.c = "save" => ValidUpload(doc, o) /\ ~Conflicts(doc, o) /\ c = SaveOf(next, Nil)
  BY ProfileSaves
<1>2. /\ o.op = "upload" /\ o.profile \in Profile /\ new # Nil
      /\ doc.profiles \in [Profile -> StoredProfile \cup {Nil}] /\ new.phase = o.phase
  BY NewTyped DEF UploadEnvProfileInput, Doc, NewProfile
<1>3. /\ next.app = doc.app /\ next.deployable = doc.deployable /\ next.targets = doc.targets
      /\ next.legacy = doc.legacy /\ next.pinned = doc.pinned
      /\ next.profiles = [doc.profiles EXCEPT ![o.profile] = new]
      /\ next.runtime = RuntimeEnv(next.profiles)
  BY DEF UploadDoc, UploadProfiles, Doc
<1>4. /\ next.profiles[o.profile] = new
      /\ \A p \in Profile \ {o.profile} : next.profiles[p] = doc.profiles[p]
  BY <1>2, <1>3
<1>. HIDE DEF S, next, new
<1>5. ASSUME ValidUpload(doc, o), ~Conflicts(doc, o) PROVE Relisted(o, doc, next)
  <2>1. Document!OthersStay(o, doc.profiles, next.profiles)
    BY <1>4, KindIs DEF Document!OthersStay
  <2>2. \A p \in Profile \ {o.profile} : next.profiles[p] # Nil => ~Overlaps(next.profiles[p], new)
    BY <1>4, <1>5 DEF Conflicts, ProfilesOf, new
  <2>3. /\ o.branches # {}
        /\ o.phase = "build" \/ (new.targets # {} /\ new.targets \subseteq KeysOf(doc.targets))
    BY <1>2, <1>5 DEF ValidUpload, new
  <2>4. Document!Admitted(o, doc.targets, next.profiles)
    BY <2>2, <2>3, RulesAgree DEF Document!Admitted, new
  <2>. QED  BY <1>2, <1>3, <1>4, <2>1, <2>4 DEF Relisted, new
<1>6. CASE ValidUpload(doc, o) /\ ~Conflicts(doc, o)
  <2>1. next.profiles # doc.profiles
    BY <1>2, <1>4
  <2>2. EditsFit(o, doc, S)
    BY <1>1, <1>3, <1>5, <1>6, <2>1, ListEdits
  <2>. QED  BY <2>2 DEF S
<1>7. CASE ~(ValidUpload(doc, o) /\ ~Conflicts(doc, o))
  BY <1>1, <1>7, NoEdits DEF S
<1>. QED  BY <1>6, <1>7

LEMMA DropEdits ==
    ASSUME NEW doc \in Doc, NEW o \in DeleteEnvProfileArgs
    PROVE  EditsFit(o, doc, DropSet(doc, o))
<1>. DEFINE next == DropDoc(doc, o)
            S == DropSet(doc, o)
<1>1. \A c \in S : c.c = "save" => doc.profiles[o.profile] # Nil /\ c = SaveOf(next, Nil)
  BY ProfileSaves
<1>2. /\ o.op = "drop" /\ o.profile \in Profile
      /\ doc.profiles \in [Profile -> StoredProfile \cup {Nil}]
  BY DEF DeleteEnvProfileArgs, Doc
<1>3. /\ next.app = doc.app /\ next.deployable = doc.deployable /\ next.targets = doc.targets
      /\ next.legacy = doc.legacy /\ next.pinned = doc.pinned
      /\ next.profiles = [doc.profiles EXCEPT ![o.profile] = Nil]
      /\ next.runtime = RuntimeEnv(next.profiles)
  BY DEF DropDoc, DropProfiles, Doc
<1>4. /\ next.profiles[o.profile] = Nil
      /\ \A p \in Profile \ {o.profile} : next.profiles[p] = doc.profiles[p]
  BY <1>2, <1>3
<1>. HIDE DEF S, next
<1>5. CASE doc.profiles[o.profile] # Nil
  <2>1. Document!OthersStay(o, doc.profiles, next.profiles)
    BY <1>4, KindIs DEF Document!OthersStay
  <2>2. Relisted(o, doc, next) /\ next.profiles # doc.profiles
    BY <1>2, <1>3, <1>4, <1>5, <2>1 DEF Relisted
  <2>3. EditsFit(o, doc, S)
    BY <1>1, <1>3, <2>2, ListEdits
  <2>. QED  BY <2>3 DEF S
<1>6. CASE doc.profiles[o.profile] = Nil
  BY <1>1, <1>6, NoEdits DEF S
<1>. QED  BY <1>5, <1>6

(* A plan that edits profile p in place.                                    *)
LEMMA PlaceEdits ==
    ASSUME NEW o, NEW d, NEW new, new.app = d.app, new.deployable = d.deployable,
           new.targets = d.targets, new.legacy = d.legacy, new.pinned = d.pinned,
           new.runtime = d.runtime, NEW p, p # Nil,
           Document!EditedBy(o, d.profiles[p], new.profiles[p]),
           NEW S, \A c \in S : c.c = "save" => c = SaveOf(new, p)
    PROVE  EditsFit(o, d, S)
<1>1. SaveOf(new, p).new = new /\ SaveOf(new, p).at = p
  BY DEF SaveOf
<1>2. EditFits(o, d, SaveOf(new, p))
  BY <1>1 DEF EditFits
<1>3. Document!EditedBy(o, new.profiles[p], new.profiles[p])
  BY KindIs DEF Document!EditedBy, Document!SameKind
<1>4. EditFits(o, new, SaveOf(new, p))
  BY <1>1, <1>3 DEF EditFits
<1>. QED  BY <1>2, <1>4, EditsOne

LEMMA ContentEdits ==
    ASSUME NEW doc \in Doc, NEW o \in UpdateEnvProfileContentInput, Flagged(doc)
    PROVE  EditsFit(o, doc, ContentSet(doc, o))
<1>. DEFINE next == ContentDoc(doc, o)
            S == ContentSet(doc, o)
            old == doc.profiles[o.profile]
            new == EditedNames(doc, o)
<1>1. \A c \in S : c.c = "save" => old # Nil /\ c = SaveOf(next, o.profile)
  BY ProfileSaves
<1>2. /\ o.op = "content" /\ o.profile \in Profile /\ o.profile # Nil
      /\ doc.profiles \in [Profile -> StoredProfile \cup {Nil}] /\ doc.runtime \in BOOLEAN
  BY NilAssumption DEF UpdateEnvProfileContentInput, Doc
<1>3. /\ next.app = doc.app /\ next.deployable = doc.deployable /\ next.targets = doc.targets
      /\ next.legacy = doc.legacy /\ next.pinned = doc.pinned
      /\ next.profiles = [doc.profiles EXCEPT ![o.profile] = new]
  BY DEF ContentDoc, ContentProfiles, Doc
<1>4. next.runtime = RuntimeEnv(next.profiles)
  BY DEF ContentDoc, ContentProfiles, Doc
<1>5. /\ next.profiles[o.profile] = new
      /\ \A p \in Profile \ {o.profile} : next.profiles[p] = doc.profiles[p]
  BY <1>2, <1>3
<1>6. CASE old # Nil
  <2>1. old \in StoredProfile /\ new # Nil
    BY <1>2, <1>6, NamesTyped
  <2>2. new.phase = old.phase /\ new.names = o.names
    BY <2>1 DEF EditedNames, StoredProfile
  <2>. HIDE DEF S, next, new
  <2>3. Document!SameKind(old, new)
    BY <1>6, <2>1, <2>2 DEF Document!SameKind
  <2>4. Document!EditedBy(o, doc.profiles[o.profile], next.profiles[o.profile])
    BY <1>2, <1>5, <1>6, <2>1, <2>2, <2>3 DEF Document!EditedBy
  <2>5. next.runtime = doc.runtime
    <3>1. \A p \in Profile : Document!SameKind(doc.profiles[p], next.profiles[p])
      BY <1>5, <2>3, KindIs
    <3>2. RuntimeEnv(next.profiles) = RuntimeEnv(doc.profiles)
      BY <3>1, KindFlags
    <3>3. doc.runtime = RuntimeEnv(doc.profiles)
      BY <1>2, <1>6 DEF Flagged, ProfilesOf
    <3>. QED  BY <1>4, <3>2, <3>3, Zenon
  <2>6. \A c \in S : c.c = "save" => c = SaveOf(next, o.profile)
    BY <1>1
  <2>7. EditsFit(o, doc, S)
    BY <1>2, <1>3, <2>4, <2>5, <2>6, PlaceEdits
  <2>. QED  BY <2>7 DEF S
<1>7. CASE old = Nil
  BY <1>1, <1>7, NoEdits
<1>. QED  BY <1>6, <1>7

LEMMA MetadataEdits ==
    ASSUME NEW doc \in Doc, NEW o \in UpdateEnvProfileMetadataInput
    PROVE  EditsFit(o, doc, MetadataSet(doc, o))
<1>. DEFINE next == MetadataDoc(doc, o)
            S == MetadataSet(doc, o)
            old == doc.profiles[o.profile]
            new == EditedPlace(doc, o)
<1>1. \A c \in S : c.c = "save" => old # Nil /\ new.branches # {} /\ c = SaveOf(next, o.profile)
  BY ProfileSaves
<1>2. /\ o.op = "metadata" /\ o.profile \in Profile /\ o.profile # Nil
      /\ doc.profiles \in [Profile -> StoredProfile \cup {Nil}]
  BY NilAssumption DEF UpdateEnvProfileMetadataInput, Doc
<1>3. /\ next.app = doc.app /\ next.deployable = doc.deployable /\ next.targets = doc.targets
      /\ next.legacy = doc.legacy /\ next.pinned = doc.pinned /\ next.runtime = doc.runtime
      /\ next.profiles = [doc.profiles EXCEPT ![o.profile] = new]
  BY DEF MetadataDoc, Doc
<1>4. next.profiles[o.profile] = new
  BY <1>2, <1>3
<1>5. CASE old # Nil /\ new.branches # {}
  <2>1. old \in StoredProfile /\ new # Nil
    BY <1>2, <1>5, PlaceTyped
  <2>2. /\ new.phase = old.phase
        /\ o.branches # Nil => new.branches = o.branches
        /\ o.job # {} => new.job = Document!First(o.job)
        /\ old.phase = "build" /\ o.file # Nil => new.file = o.file
    BY <2>1 DEF EditedPlace, StoredProfile, First, Document!First
  <2>. HIDE DEF S, next, new
  <2>3. Document!SameKind(old, new)
    BY <1>5, <2>1, <2>2 DEF Document!SameKind
  <2>4. Document!EditedBy(o, doc.profiles[o.profile], next.profiles[o.profile])
    BY <1>2, <1>4, <1>5, <2>1, <2>2, <2>3 DEF Document!EditedBy
  <2>5. \A c \in S : c.c = "save" => c = SaveOf(next, o.profile)
    BY <1>1
  <2>6. EditsFit(o, doc, S)
    BY <1>2, <1>3, <2>4, <2>5, PlaceEdits
  <2>. QED  BY <2>6 DEF S
<1>6. CASE ~(old # Nil /\ new.branches # {})
  BY <1>1, <1>6, NoEdits
<1>. QED  BY <1>5, <1>6

LEMMA StartsEdits ==
    ASSUME row \in Doc, WorkInv, Flagged(row), NEW r, NEW o \in Ops, Starts(r, o)
    PROVE  \E plan : Begins(r, o, plan) /\ Planned(o, row, plan) /\ EditsFit(o, row, Range(plan))
<1>1. CASE UpsertTarget(r, o)
  <2>1. o \in UpsertDeploymentTargetInput /\ Begins(r, o, UpsertPlan(row, o))
    BY <1>1, OpTyped DEF UpsertTarget
  <2>2. Lists(o.op, UpsertPlan(row, o), UpsertSet(row, o)) /\ PlanFits(o, row, UpsertSet(row, o))
    BY <1>1, <2>1, ListsUpsert, UpsertFits DEF UpsertTarget
  <2>. QED  BY <2>1, <2>2, ListsRange, UpsertEdits DEF Planned
<1>2. CASE RemoveTarget(r, o)
  <2>1. o \in RemoveDeploymentTargetArgs /\ Begins(r, o, RemovePlan(row, o))
    BY <1>2, OpTyped DEF RemoveTarget
  <2>2. Lists(o.op, RemovePlan(row, o), RemoveSet(row, o)) /\ PlanFits(o, row, RemoveSet(row, o))
    BY <1>2, <2>1, ListsRemove, RemoveFits DEF RemoveTarget
  <2>. QED  BY <2>1, <2>2, ListsRange, RemoveEdits DEF Planned
<1>3. CASE SetHostname(r, o)
  <2>1. o \in HostnameArgs /\ Begins(r, o, HostnamePlan(row, o))
    BY <1>3, OpTyped DEF SetHostname
  <2>2. Lists(o.op, HostnamePlan(row, o), HostnameSet(row, o)) /\ PlanFits(o, row, HostnameSet(row, o))
    BY <1>3, <2>1, ListsHostname, HostnameFits DEF SetHostname
  <2>. QED  BY <2>1, <2>2, ListsRange, HostnameEdits DEF Planned
<1>4. CASE Migrate(r, o)
  <2>1. o \in MigrateInput /\ Begins(r, o, MigratePlan(row, o))
    BY <1>4, OpTyped DEF Migrate
  <2>2. Lists(o.op, MigratePlan(row, o), MigrateSet(row, o)) /\ PlanFits(o, row, MigrateSet(row, o))
    BY <1>4, <2>1, ListsMigrate, MigrateFits DEF Migrate
  <2>. QED  BY <2>1, <2>2, ListsRange, MigrateEdits DEF Planned
<1>5. CASE SetPinned(r, o)
  <2>1. o \in PinArgs /\ Begins(r, o, PinPlan(row, o))
    BY <1>5, OpTyped DEF SetPinned
  <2>2. Lists(o.op, PinPlan(row, o), PinSet(row, o)) /\ PlanFits(o, row, PinSet(row, o))
    BY <1>5, <2>1, ListsPin, PinFits DEF SetPinned
  <2>. QED  BY <2>1, <2>2, ListsRange, PinEdits DEF Planned
<1>6. CASE Upload(r, o)
  <2>1. o \in UploadEnvProfileInput /\ Begins(r, o, UploadPlan(row, o))
    BY <1>6, OpTyped DEF Upload
  <2>2. Lists(o.op, UploadPlan(row, o), UploadSet(row, o)) /\ PlanFits(o, row, UploadSet(row, o))
    BY <1>6, <2>1, ListsUpload, UploadFits DEF Upload
  <2>3. row.profiles[o.profile] = Nil
    BY <1>6 DEF Upload, Unused, WorkInv
  <2>. QED  BY <2>1, <2>2, <2>3, ListsRange, UploadEdits DEF Planned
<1>7. CASE UpdateContent(r, o)
  <2>1. o \in UpdateEnvProfileContentInput /\ Begins(r, o, ContentPlan(row, o))
    BY <1>7, OpTyped DEF UpdateContent
  <2>2. Lists(o.op, ContentPlan(row, o), ContentSet(row, o)) /\ PlanFits(o, row, ContentSet(row, o))
    BY <1>7, <2>1, ListsContent, ContentFits DEF UpdateContent
  <2>. QED  BY <2>1, <2>2, ListsRange, ContentEdits DEF Planned
<1>8. CASE UpdateMetadata(r, o)
  <2>1. o \in UpdateEnvProfileMetadataInput /\ Begins(r, o, MetadataPlan(row, o))
    BY <1>8, OpTyped DEF UpdateMetadata
  <2>2. Lists(o.op, MetadataPlan(row, o), MetadataSet(row, o)) /\ PlanFits(o, row, MetadataSet(row, o))
    BY <1>8, <2>1, ListsMetadata, MetadataFits DEF UpdateMetadata
  <2>. QED  BY <2>1, <2>2, ListsRange, MetadataEdits DEF Planned
<1>9. CASE DeleteProfile(r, o)
  <2>1. o \in DeleteEnvProfileArgs /\ Begins(r, o, DropPlan(row, o))
    BY <1>9, OpTyped DEF DeleteProfile
  <2>2. Lists(o.op, DropPlan(row, o), DropSet(row, o)) /\ PlanFits(o, row, DropSet(row, o))
    BY <1>9, <2>1, ListsDrop, DropFits DEF DeleteProfile
  <2>. QED  BY <2>1, <2>2, ListsRange, DropEdits DEF Planned
<1>. QED  BY <1>1, <1>2, <1>3, <1>4, <1>5, <1>6, <1>7, <1>8, <1>9
          DEF Starts, WiringStarts, ProfileStarts

(* What a save leaves of the fields outside the arrays.                     *)
LEMMA SaveLeaves ==
    ASSUME WiringInv, NEW r \in Req, Saves(r)
    PROVE  LET d == req[r].doc
               c == Call(r)
               e == req'[r].doc
           IN  /\ row'.app = row.app /\ row'.deployable = row.deployable
               /\ row'.runtime = (IF c.new.runtime # d.runtime THEN c.new.runtime ELSE row.runtime)
               /\ row'.pinned = (IF c.new.pinned # d.pinned THEN c.new.pinned ELSE row.pinned)
               /\ e \in Doc /\ e.ver = (IF Versioned(r) THEN row'.ver ELSE d.ver)
               /\ e.app = c.new.app /\ e.deployable = c.new.deployable
               /\ e.targets = c.new.targets /\ e.profiles = c.new.profiles
               /\ e.runtime = c.new.runtime /\ e.legacy = c.new.legacy /\ e.pinned = c.new.pinned
<1>. DEFINE d == req[r].doc
            c == Call(r)
            e == req'[r].doc
<1>1. /\ c.new \in Doc /\ c.at \in Profile \cup {Nil} /\ d \in Doc /\ row' \in Doc
      /\ e = [c.new EXCEPT !.ver = IF Versioned(r) THEN row'.ver ELSE d.ver]
  BY SaveIs
<1>2. row \in Doc /\ row' = Written(r)
  BY DEF WiringInv, Saves
<1>3. /\ row'.app = row.app /\ row'.deployable = row.deployable
      /\ row'.runtime = (IF c.new.runtime # d.runtime THEN c.new.runtime ELSE row.runtime)
      /\ row'.pinned = (IF c.new.pinned # d.pinned THEN c.new.pinned ELSE row.pinned)
  BY <1>1, <1>2, WrittenIs
<1>. DEFINE v == IF Versioned(r) THEN row'.ver ELSE d.ver
<1>4. v \in Nat
  BY <1>1 DEF Doc
<1>. HIDE DEF v
<1>5. e = [c.new EXCEPT !.ver = v]
  BY <1>1 DEF v
<1>. HIDE DEF c, e, d
<1>6. /\ e \in Doc /\ e.ver = v
      /\ e.app = c.new.app /\ e.deployable = c.new.deployable
      /\ e.targets = c.new.targets /\ e.profiles = c.new.profiles
      /\ e.runtime = c.new.runtime /\ e.legacy = c.new.legacy /\ e.pinned = c.new.pinned
  BY <1>1, <1>4, <1>5 DEF Doc
<1>. QED  BY <1>3, <1>6 DEF c, d, e, v

(* The edit does not depend on the version.                                 *)
LEMMA EditOther ==
    ASSUME NEW o, NEW d, NEW e, NEW c, e.app = d.app, e.deployable = d.deployable,
           e.targets = d.targets, e.profiles = d.profiles, e.runtime = d.runtime,
           e.legacy = d.legacy, e.pinned = d.pinned, EditFits(o, d, c)
    PROVE  EditFits(o, e, c)
<1>1. Origin(e) = Origin(d)
  BY DEF Origin
<1>2. Retargeted(o, d, c.new) => Retargeted(o, e, c.new)
  BY <1>1 DEF Retargeted
<1>3. Relisted(o, d, c.new) => Relisted(o, e, c.new)
  BY DEF Relisted
<1>. QED  BY <1>2, <1>3 DEF EditFits

(* A save is an edit of the stored document by its request.                 *)
Edited(o, v, w) ==
    /\ w.app = v.app /\ w.deployable = v.deployable
    /\ w.legacy = v.legacy \/ (o.op = "migrate" /\ w.legacy = FALSE)
    /\ \/ w.pinned = v.pinned
       \/ o.op = "pin" /\ w.pinned = o.pinned
       \/ o.op = "migrate" /\ o.unpin /\ w.pinned = FALSE
    /\ \/ /\ w.ver = v.ver + 1 /\ w.profiles = v.profiles /\ w.runtime = v.runtime
          /\ Retargeted(o, v, w)
       \/ w.ver = v.ver + 1 /\ w.targets = v.targets /\ Relisted(o, v, w)
       \/ /\ w.ver = v.ver /\ w.targets = v.targets /\ w.runtime = v.runtime
          /\ o.op \in {"content", "metadata"}
          /\ Document!EditedBy(o, v.profiles[o.profile], w.profiles[o.profile])
          /\ \A p \in Profile \ {o.profile} : w.profiles[p] = v.profiles[p]
       \/ /\ w.ver = v.ver /\ w.targets = v.targets /\ w.runtime = v.runtime
          /\ w.profiles = v.profiles

LEMMA SaveEdits ==
    ASSUME WiringInv, DocumentInv, NEW r \in Req, Saves(r)
    PROVE  /\ Edited(req[r].op, row, row')
           /\ AsStored(req[r].doc)'
<1>. DEFINE o == req[r].op
            d == req[r].doc
            c == Call(r)
            new == c.new
            e == req'[r].doc
<1>1. /\ req[r].st = "busy" /\ c.c = "save" /\ c \in Range(req[r].todo)
      /\ c.new \in Doc /\ c.at \in Profile \cup {Nil} /\ d \in Doc /\ SaveFits(o, d, c)
      /\ Versioned(r) => row.ver = d.ver
      /\ Versioned(r) <=> c.at # Nil \/ c.new.targets # d.targets \/ c.new.profiles # d.profiles
      /\ row' \in Doc
      /\ row'.legacy = (IF c.new.legacy # d.legacy THEN c.new.legacy ELSE row.legacy)
      /\ row'.profiles = (IF c.at # Nil THEN [row.profiles EXCEPT ![c.at] = c.new.profiles[c.at]]
                          ELSE IF c.new.profiles # d.profiles THEN c.new.profiles
                          ELSE row.profiles)
      /\ row'.ver = (IF c.at = Nil /\ Versioned(r) THEN row.ver + 1 ELSE row.ver)
  BY SaveIs
<1>2. row'.targets = (IF c.at = Nil /\ c.new.targets # d.targets THEN c.new.targets ELSE row.targets)
  BY SaveChanges
<1>3. /\ row'.app = row.app /\ row'.deployable = row.deployable
      /\ row'.runtime = (IF c.new.runtime # d.runtime THEN c.new.runtime ELSE row.runtime)
      /\ row'.pinned = (IF c.new.pinned # d.pinned THEN c.new.pinned ELSE row.pinned)
      /\ e \in Doc /\ e.ver = (IF Versioned(r) THEN row'.ver ELSE d.ver)
      /\ e.app = c.new.app /\ e.deployable = c.new.deployable
      /\ e.targets = c.new.targets /\ e.profiles = c.new.profiles
      /\ e.runtime = c.new.runtime
  BY SaveLeaves
<1>4. EditFits(o, d, c) /\ AsStored(d)
  BY <1>1 DEF DocumentInv, EditsFit
<1>5. row \in Doc
  BY DEF WiringInv
<1>. HIDE DEF c, d, e, o
<1>6. /\ new.app = d.app /\ new.deployable = d.deployable
      /\ new.targets # d.targets => c.at = Nil /\ new.profiles = d.profiles /\ Retargeted(o, d, new)
      /\ new.profiles # d.profiles /\ c.at = Nil => Relisted(o, d, new)
      /\ new.profiles = d.profiles \/ c.at # Nil => new.runtime = d.runtime
      /\ c.at # Nil => Document!EditedBy(o, d.profiles[c.at], new.profiles[c.at])
      /\ new.legacy # d.legacy => o.op = "migrate"
      /\ new.pinned # d.pinned =>
            \/ o.op = "pin" /\ new.pinned = o.pinned
            \/ o.op = "migrate" /\ o.unpin /\ new.pinned = FALSE
  BY <1>4 DEF EditFits
<1>7. /\ d.app = row.app /\ d.deployable = row.deployable
      /\ d.ver = row.ver =>
            /\ d.targets = row.targets /\ d.runtime = row.runtime
            /\ \A p \in Profile : Document!SameKind(d.profiles[p], row.profiles[p])
  BY <1>4 DEF AsStored
<1>8. row'.legacy = row.legacy \/ (o.op = "migrate" /\ row'.legacy = FALSE)
  <2>1. new.legacy # d.legacy => new.legacy = FALSE
    BY <1>1 DEF SaveFits, Doc
  <2>. QED  BY <1>1, <1>6, <2>1
<1>9. \/ row'.pinned = row.pinned
      \/ o.op = "pin" /\ row'.pinned = o.pinned
      \/ o.op = "migrate" /\ o.unpin /\ row'.pinned = FALSE
  BY <1>3, <1>6
<1>10. AsStored(req[r].doc)' <=>
          /\ e.app = row'.app /\ e.deployable = row'.deployable
          /\ e.ver = row'.ver =>
                /\ e.targets = row'.targets /\ e.runtime = row'.runtime
                /\ \A p \in Profile : Document!SameKind(e.profiles[p], row'.profiles[p])
  BY DEF AsStored, e
<1>11. row.ver \in Nat /\ row.profiles \in [Profile -> StoredProfile \cup {Nil}]
  BY <1>5 DEF Doc
<1>12. CASE c.at # Nil
  <2>1. c.at \in Profile /\ c.at = o.profile /\ o.op \in {"content", "metadata"} /\ Versioned(r)
        /\ \A p \in Profile \ {c.at} : new.profiles[p] = d.profiles[p]
    BY <1>1, <1>12 DEF SaveFits
  <2>2. d.ver = row.ver /\ row'.ver = row.ver /\ e.ver = row'.ver
    BY <1>1, <1>3, <1>12, <2>1
  <2>3. row'.targets = row.targets /\ row'.runtime = row.runtime
    BY <1>2, <1>3, <1>6, <1>12
  <2>4. /\ row'.profiles[c.at] = new.profiles[c.at]
        /\ \A p \in Profile \ {c.at} : row'.profiles[p] = row.profiles[p]
    BY <1>1, <1>11, <1>12, <2>1
  <2>5. Document!SameKind(d.profiles[c.at], row.profiles[c.at])
    BY <1>7, <2>1, <2>2
  <2>6. Document!EditedBy(o, d.profiles[c.at], new.profiles[c.at])
    BY <1>6, <1>12
  <2>7. Document!EditedBy(o, row.profiles[c.at], row'.profiles[c.at])
    BY <2>4, <2>5, <2>6, KindIs DEF Document!EditedBy, Document!SameKind
  <2>8. Edited(o, row, row')
    BY <1>3, <1>8, <1>9, <2>1, <2>2, <2>3, <2>4, <2>7 DEF Edited
  <2>9. e.targets = row'.targets /\ e.runtime = row'.runtime
    BY <1>3, <1>6, <1>7, <1>12, <2>2, <2>3
  <2>10. ASSUME NEW p \in Profile PROVE Document!SameKind(e.profiles[p], row'.profiles[p])
    <3>1. CASE p = c.at
      BY <1>3, <2>4, <3>1, KindIs
    <3>2. CASE p # c.at
      BY <1>3, <1>7, <2>1, <2>2, <2>4, <3>2
    <3>. QED  BY <3>1, <3>2
  <2>. QED  BY <1>3, <1>6, <1>7, <1>10, <2>8, <2>9, <2>10 DEF o
<1>13. CASE c.at = Nil /\ new.targets # d.targets
  <2>1. Versioned(r) /\ d.ver = row.ver /\ row'.ver = row.ver + 1
    BY <1>1, <1>13
  <2>2. /\ new.profiles = d.profiles /\ Retargeted(o, d, new) /\ new.runtime = d.runtime
        /\ row'.targets = new.targets /\ row'.profiles = row.profiles /\ row'.runtime = row.runtime
    BY <1>1, <1>2, <1>3, <1>6, <1>13
  <2>3. Origin(d) = Origin(row) /\ d.targets = row.targets
    BY <1>7, <2>1 DEF Origin
  <2>4. Retargeted(o, row, row')
    BY <2>2, <2>3 DEF Retargeted
  <2>5. Edited(o, row, row')
    BY <1>3, <1>8, <1>9, <2>1, <2>2, <2>4 DEF Edited
  <2>6. /\ e.targets = row'.targets /\ e.runtime = row'.runtime
        /\ \A p \in Profile : Document!SameKind(e.profiles[p], row'.profiles[p])
    BY <1>3, <1>7, <2>1, <2>2
  <2>. QED  BY <1>3, <1>6, <1>7, <1>10, <2>5, <2>6 DEF o
<1>14. CASE c.at = Nil /\ new.targets = d.targets /\ new.profiles # d.profiles
  <2>1. Versioned(r) /\ d.ver = row.ver /\ row'.ver = row.ver + 1
    BY <1>1, <1>14
  <2>2. /\ Relisted(o, d, new) /\ row'.targets = row.targets /\ row'.profiles = new.profiles
    BY <1>1, <1>2, <1>6, <1>14
  <2>3. d.targets = row.targets /\ d.runtime = row.runtime
    BY <1>7, <2>1
  <2>4. row'.runtime = new.runtime
    BY <1>3, <2>3
  <2>5. Document!OthersStay(o, row.profiles, row'.profiles)
    <3>1. Document!OthersStay(o, d.profiles, new.profiles)
      BY <2>2 DEF Relisted
    <3>. QED  BY <1>7, <2>1, <2>2, <3>1, KindIs DEF Document!OthersStay
  <2>6. o.op \in {"upload", "drop"}
    BY <2>2 DEF Relisted
  <2>7. o.profile \in Profile
    <3>1. o \in Ops
      BY <1>1 DEF WiringInv, ReqOK, o
    <3>. QED  BY <2>6, <3>1, OpTyped
  <2>8. d.profiles[o.profile] = Nil <=> row.profiles[o.profile] = Nil
    BY <1>7, <2>1, <2>7 DEF Document!SameKind
  <2>9. Relisted(o, row, row')
    BY <2>2, <2>3, <2>4, <2>5, <2>8 DEF Relisted
  <2>10. Edited(o, row, row')
    BY <1>3, <1>8, <1>9, <2>1, <2>2, <2>9 DEF Edited
  <2>11. /\ e.targets = row'.targets /\ e.runtime = row'.runtime
         /\ \A p \in Profile : Document!SameKind(e.profiles[p], row'.profiles[p])
    BY <1>3, <1>14, <2>2, <2>3, <2>4, KindIs
  <2>. QED  BY <1>3, <1>6, <1>7, <1>10, <2>10, <2>11 DEF o
<1>15. CASE c.at = Nil /\ new.targets = d.targets /\ new.profiles = d.profiles
  <2>1. /\ ~Versioned(r) /\ row'.ver = row.ver /\ row'.targets = row.targets
        /\ row'.profiles = row.profiles /\ e.ver = d.ver
    BY <1>1, <1>2, <1>3, <1>15
  <2>2. new.runtime = d.runtime /\ row'.runtime = row.runtime
    BY <1>3, <1>6, <1>15
  <2>3. Edited(o, row, row')
    BY <1>3, <1>8, <1>9, <2>1, <2>2 DEF Edited
  <2>. QED  BY <1>3, <1>6, <1>7, <1>10, <1>15, <2>1, <2>2, <2>3 DEF o
<1>. QED  BY <1>12, <1>13, <1>14, <1>15

(* What r still has to save is its edit of what it has saved.               *)
LEMMA EditsSaved ==
    ASSUME WiringInv, DocumentInv, NEW r \in Req, Saves(r), Called(r)
    PROVE  EditsFit(req'[r].op, req'[r].doc, Range(req'[r].todo))
<1>. DEFINE o == req[r].op
            d == req[r].doc
            c == Call(r)
            S == Range(req[r].todo)
            e == req'[r].doc
            T == Range(req'[r].todo)
<1>1. req[r].st = "busy" /\ c.c = "save" /\ c \in S
  BY SaveIs
<1>2. EditsFit(o, d, S)
  BY <1>1 DEF DocumentInv
<1>3. req'[r].st = "busy"
  BY SaveChanges
<1>4. Goes1(req[r], req'[r])
  BY <1>3, CalledStays
<1>5. req'[r].op = o /\ T \subseteq S /\ \A x \in T : Rank(o.op, c) <= Rank(o.op, x)
  BY <1>4 DEF Goes1, Left, Call
<1>6. /\ e.app = c.new.app /\ e.deployable = c.new.deployable
      /\ e.targets = c.new.targets /\ e.profiles = c.new.profiles
      /\ e.runtime = c.new.runtime /\ e.legacy = c.new.legacy /\ e.pinned = c.new.pinned
  BY SaveLeaves
<1>. HIDE DEF o, d, c, S, e, T
<1>7. ASSUME NEW x \in T, x.c = "save" PROVE EditFits(o, e, x)
  <2>1. x \in S /\ Rank(o.op, c) <= Rank(o.op, x)
    BY <1>5
  <2>2. EditFits(o, c.new, x)
    BY <1>1, <1>2, <1>7, <2>1 DEF EditsFit
  <2>. QED  BY <1>6, <2>2, EditOther
<1>8. EditsFit(o, e, T)
  BY <1>2, <1>5, <1>7 DEF EditsFit
<1>. QED  BY <1>5, <1>8 DEF e, T

(* The flag of the chart after an edit of the stored document.              *)
LEMMA FlagEdited ==
    ASSUME Flagged(row), NEW o, o.op \in {"content", "metadata"} => o.profile \in Profile,
           Edited(o, row, row')
    PROVE  Flagged(row')
<1>1. CASE row'.profiles = row.profiles /\ row'.runtime = row.runtime
  BY <1>1 DEF Flagged, ProfilesOf
<1>2. CASE row'.runtime = RuntimeEnv(row'.profiles)
  BY <1>2 DEF Flagged
<1>3. CASE /\ row'.runtime = row.runtime /\ o.op \in {"content", "metadata"}
           /\ Document!EditedBy(o, row.profiles[o.profile], row'.profiles[o.profile])
           /\ \A p \in Profile \ {o.profile} : row'.profiles[p] = row.profiles[p]
  <2>1. o.profile \in Profile /\ row.profiles[o.profile] # Nil
        /\ Document!SameKind(row.profiles[o.profile], row'.profiles[o.profile])
    BY <1>3 DEF Document!EditedBy
  <2>2. \A p \in Profile : Document!SameKind(row.profiles[p], row'.profiles[p])
    BY <1>3, <2>1, KindIs
  <2>3. RuntimeEnv(row.profiles) = RuntimeEnv(row'.profiles)
    BY <2>2, KindFlags
  <2>4. row.runtime = RuntimeEnv(row.profiles)
    BY <2>1 DEF Flagged, ProfilesOf
  <2>5. row'.runtime = RuntimeEnv(row'.profiles)
    BY <1>3, <2>3, <2>4, Zenon
  <2>. QED  BY <2>5 DEF Flagged
<1>. QED  BY <1>1, <1>2, <1>3 DEF Edited, Relisted

LEMMA DocumentStarted ==
    ASSUME WiringInv, WorkInv, DocumentInv, NEW r \in Req, NEW o \in Ops, Starts(r, o)
    PROVE  DocumentInv'
<1>1. PICK plan : Begins(r, o, plan) /\ Planned(o, row, plan) /\ EditsFit(o, row, Range(plan))
  BY StartsEdits DEF WiringInv, DocumentInv
<1>2. /\ \A q \in Req \ {r} : req'[q] = req[q]
      /\ req'[r].op = o /\ req'[r].doc = row /\ req'[r].todo = plan
  BY <1>1, BeginsOK DEF WiringInv
<1>3. row' = row
  BY <1>1 DEF Begins
<1>4. Flagged(row')
  BY <1>3 DEF DocumentInv
<1>5. ASSUME NEW q \in Req, req'[q].st = "busy"
      PROVE  AsStored(req[q].doc)' /\ EditsFit(req'[q].op, req'[q].doc, Range(req'[q].todo))
  <2>1. CASE q = r
    <3>1. AsStored(req[q].doc)'
      BY <1>2, <1>3, <2>1, KindIs DEF AsStored
    <3>. QED  BY <1>1, <1>2, <2>1, <3>1
  <2>2. CASE q # r
    <3>1. req'[q] = req[q] /\ AsStored(req[q].doc)
          /\ EditsFit(req[q].op, req[q].doc, Range(req[q].todo))
      BY <1>2, <1>5, <2>2 DEF DocumentInv
    <3>2. AsStored(req[q].doc)'
      BY <1>3, <3>1 DEF AsStored
    <3>. QED  BY <3>1, <3>2
  <2>. QED  BY <2>1, <2>2
<1>. QED  BY <1>4, <1>5 DEF DocumentInv, Flagged, ProfilesOf, RuntimeEnv

(* A call that is not a save leaves the documents alone.                    *)
LEMMA DocumentCalled ==
    ASSUME WiringInv, DocumentInv, NEW r \in Req, Called(r), ~Saves(r)
    PROVE  DocumentInv' /\ row' = row
<1>1. row' = row
  BY CalledReq
<1>2. ASSUME NEW q \in Req, req'[q].st = "busy"
      PROVE  AsStored(req[q].doc)' /\ EditsFit(req'[q].op, req'[q].doc, Range(req'[q].todo))
  <2>1. /\ req[q].st = "busy" /\ Range(req'[q].todo) \subseteq Range(req[q].todo)
        /\ req'[q].doc = req[q].doc /\ req'[q].op = req[q].op
    BY <1>2, CalledStays
  <2>2. AsStored(req[q].doc) /\ EditsFit(req[q].op, req[q].doc, Range(req[q].todo))
    BY <2>1 DEF DocumentInv
  <2>3. AsStored(req[q].doc)'
    BY <1>1, <2>1, <2>2 DEF AsStored
  <2>4. EditsFit(req[q].op, req[q].doc, Range(req'[q].todo))
    BY <2>1, <2>2 DEF EditsFit
  <2>. QED  BY <2>1, <2>3, <2>4
<1>3. Flagged(row')
  BY <1>1 DEF DocumentInv
<1>. QED  BY <1>1, <1>2, <1>3 DEF DocumentInv, Flagged, ProfilesOf, RuntimeEnv

(* After r's save, the documents of the others are the stored one still, or *)
(* have an older version.                                                   *)
LEMMA OthersStored ==
    ASSUME WiringInv, ProfileInv, DocumentInv, NEW r \in Req, Edited(req[r].op, row, row'),
           NEW q \in Req, req[q].st = "busy", req'[q].doc = req[q].doc
    PROVE  AsStored(req[q].doc)'
<1>. DEFINE d == req[q].doc
            o == req[r].op
<1>1. AsStored(d) /\ d.ver <= row.ver /\ d.ver \in Nat /\ row.ver \in Nat
  BY DEF DocumentInv, ProfileInv, ProfileFits, VersionFits, WiringInv, ReqOK, Doc
<1>2. row'.app = row.app /\ row'.deployable = row.deployable
  BY DEF Edited
<1>. HIDE DEF o
<1>3. CASE row'.ver = row.ver + 1
  BY <1>1, <1>2, <1>3 DEF AsStored
<1>4. CASE /\ row'.ver = row.ver /\ row'.targets = row.targets /\ row'.runtime = row.runtime
           /\ \A p \in Profile : Document!SameKind(row.profiles[p], row'.profiles[p])
  <2>1. d.app = row'.app /\ d.deployable = row'.deployable
    BY <1>1, <1>2 DEF AsStored
  <2>2. ASSUME d.ver = row'.ver
        PROVE  /\ d.targets = row'.targets /\ d.runtime = row'.runtime
               /\ \A p \in Profile : Document!SameKind(d.profiles[p], row'.profiles[p])
    BY <1>1, <1>4, <2>2, KindIs DEF AsStored
  <2>. QED  BY <2>1, <2>2 DEF AsStored
<1>5. CASE /\ row'.ver = row.ver /\ row'.targets = row.targets /\ row'.runtime = row.runtime
           /\ Document!EditedBy(o, row.profiles[o.profile], row'.profiles[o.profile])
           /\ \A p \in Profile \ {o.profile} : row'.profiles[p] = row.profiles[p]
  <2>1. \A p \in Profile : Document!SameKind(row.profiles[p], row'.profiles[p])
    BY <1>5, KindIs DEF Document!EditedBy
  <2>. QED  BY <1>4, <1>5, <2>1
<1>6. CASE /\ row'.ver = row.ver /\ row'.targets = row.targets /\ row'.runtime = row.runtime
           /\ row'.profiles = row.profiles
  BY <1>4, <1>6, KindIs
<1>. QED  BY <1>3, <1>5, <1>6 DEF Edited, o

LEMMA DocumentSaved ==
    ASSUME WiringInv, ProfileInv, DocumentInv, NEW r \in Req, Called(r), Saves(r)
    PROVE  DocumentInv' /\ Edited(req[r].op, row, row') /\ req[r].op \in Ops
<1>1. Edited(req[r].op, row, row') /\ AsStored(req[r].doc)'
  BY SaveEdits
<1>2. req[r].op \in Ops
  BY SaveIs DEF WiringInv, ReqOK
<1>3. Flagged(row')
  <2>1. Flagged(row)
    BY DEF DocumentInv
  <2>2. req[r].op.op \in {"content", "metadata"} => req[r].op.profile \in Profile
    BY <1>2, OpTyped
  <2>. QED  BY <1>1, <2>1, <2>2, FlagEdited
<1>4. ASSUME NEW q \in Req, req'[q].st = "busy"
      PROVE  AsStored(req[q].doc)' /\ EditsFit(req'[q].op, req'[q].doc, Range(req'[q].todo))
  <2>1. CASE q = r
    BY <1>1, <2>1, EditsSaved
  <2>2. CASE q # r
    <3>1. req'[q] = req[q] /\ req[q].st = "busy"
      BY <1>4, <2>2, CalledReq
    <3>2. EditsFit(req[q].op, req[q].doc, Range(req[q].todo))
      BY <3>1 DEF DocumentInv
    <3>3. req'[q].doc = req[q].doc
      BY <3>1
    <3>. QED  BY <1>1, <3>1, <3>2, <3>3, OthersStored
  <2>. QED  BY <2>1, <2>2
<1>. QED  BY <1>1, <1>2, <1>3, <1>4 DEF DocumentInv, Flagged, ProfilesOf, RuntimeEnv

(* Every step is a request's edit of the stored document or leaves it.      *)
LEMMA DocumentEdits ==
    ASSUME WiringInv, ProfileInv, WorkInv, DocumentInv, [WiringNext]_project
    PROVE  /\ DocumentInv'
           /\ row' = row \/ \E o \in Ops : Edited(o, row, row')
<1>1. ASSUME NEW r \in Req, NEW o \in Ops, Starts(r, o), StartStep(r, o)
      PROVE  DocumentInv' /\ row' = row
  BY <1>1, DocumentStarted DEF StartStep, Begins
<1>2. ASSUME NEW r \in Req, Called(r)
      PROVE  DocumentInv' /\ (row' = row \/ \E o \in Ops : Edited(o, row, row'))
  <2>1. CASE Saves(r)
    BY <1>2, <2>1, DocumentSaved
  <2>2. CASE ~Saves(r)
    BY <1>2, <2>2, DocumentCalled
  <2>. QED  BY <2>1, <2>2
<1>3. CASE \/ \E k \in Key, a \in App, b \in Branch : PipelineDeploys(k, a, b)
           \/ UNCHANGED project
  <2>1. row' = row /\ req' = req
    BY <1>3 DEF PipelineDeploys, project
  <2>. QED  BY <2>1 DEF DocumentInv, Flagged, ProfilesOf, RuntimeEnv, AsStored
<1>. QED  BY <1>1, <1>2, <1>3, NextIs

LEMMA DocumentInit == WiringInit => DocumentInv
<1>. SUFFICES ASSUME WiringInit PROVE DocumentInv
  OBVIOUS
<1>1. PICK in \in Creations : row = NewDoc(in) /\ req = [r \in Req |-> Idle]
  BY DEF WiringInit
<1>2. NewDoc(in).profiles = in.profiles
  BY NewDocTyped
<1>. DEFINE rt == (\A p \in Profile : in.profiles[p] = Nil) \/ RuntimeEnv(in.profiles)
<1>3. NewDoc(in).runtime = rt
  BY Zenon DEF NewDoc
<1>4. ProfilesOf(row) # {} => rt = RuntimeEnv(in.profiles)
  <2>1. ASSUME NEW p \in Profile, in.profiles[p] # Nil PROVE rt = RuntimeEnv(in.profiles)
    BY <2>1 DEF RuntimeEnv
  <2>2. ASSUME ProfilesOf(row) # {} PROVE \E p \in Profile : in.profiles[p] # Nil
    BY <1>1, <1>2, <2>2 DEF ProfilesOf
  <2>. HIDE DEF rt
  <2>. QED  BY <2>1, <2>2, Zenon
<1>. HIDE DEF rt
<1>5. Flagged(row)
  BY <1>1, <1>2, <1>3, <1>4, Zenon DEF Flagged
<1>6. \A r \in Req : req[r].st = "idle"
  BY <1>1, IdleOK
<1>. QED  BY <1>5, <1>6 DEF DocumentInv

(* Each edit is an action of the abstract document.                         *)
LEMMA EditIsAction ==
    ASSUME NEW o \in Ops, Edited(o, row, row')
    PROVE  [Document!Next]_Document!vars
<1>. DEFINE origin == [app |-> row.app, deployable |-> row.deployable]
<1>1. origin' = origin /\ Origin(row) = origin
  BY DEF Edited, Origin
<1>2. /\ row'.legacy = row.legacy \/ (o.op = "migrate" /\ row'.legacy = FALSE)
      /\ \/ row'.pinned = row.pinned
         \/ o.op = "pin" /\ row'.pinned = o.pinned
         \/ o.op = "migrate" /\ o.unpin /\ row'.pinned = FALSE
  BY DEF Edited
<1>3. o.op \notin {"pin", "migrate"} => row'.legacy = row.legacy /\ row'.pinned = row.pinned
  BY <1>2
<1>. HIDE DEF origin
<1>4. CASE row'.profiles = row.profiles /\ row'.runtime = row.runtime /\ Retargeted(o, row, row')
  <2>1. CASE /\ o.op = "upsert" /\ o.apps # {}
             /\ row'.targets = Document!Upserted(row.targets, o)
             /\ ValidRef(row'.targets[o.key].ref, o.on)
    <3>1. Document!ValidRef(row'.targets[o.key].ref, o.on)
      BY <2>1, RulesAgree
    <3>2. row'.legacy = row.legacy /\ row'.pinned = row.pinned
      BY <1>3, <2>1
    <3>3. Document!UpsertTarget(o)
      BY <1>1, <1>4, <2>1, <3>1, <3>2 DEF Document!UpsertTarget, Document!flags, origin
    <3>. QED  BY <3>3 DEF Document!Next
  <2>2. CASE /\ o.op = "remove" /\ row.targets[o.key] # Nil
             /\ row'.targets = [row.targets EXCEPT ![o.key] = Nil]
    <3>1. row'.legacy = row.legacy /\ row'.pinned = row.pinned
      BY <1>3, <2>2
    <3>2. Document!RemoveTarget(o)
      BY <1>1, <1>4, <2>2, <3>1 DEF Document!RemoveTarget, Document!flags, origin
    <3>. QED  BY <3>2 DEF Document!Next
  <2>3. CASE /\ o.op = "hostname" /\ row.targets[o.key] # Nil
             /\ row'.targets = Document!Hosted(row.targets, o)
    <3>1. row'.legacy = row.legacy /\ row'.pinned = row.pinned
      BY <1>3, <2>3
    <3>2. Document!SetHostname(o)
      BY <1>1, <1>4, <2>3, <3>1 DEF Document!SetHostname, Document!flags, origin
    <3>. QED  BY <3>2 DEF Document!Next
  <2>4. CASE o.op = "migrate" /\ row'.targets = Document!Migrated(row.targets, Origin(row), o)
    <3>1. row'.legacy \in {row.legacy, FALSE} /\ (row'.pinned = row.pinned \/ (o.unpin /\ row'.pinned = FALSE))
      BY <1>2, <2>4
    <3>2. row'.targets = Document!Migrated(row.targets, origin, o)
      BY <1>1, <2>4
    <3>3. Document!Migrate(o)
      BY <1>1, <1>4, <2>4, <3>1, <3>2 DEF Document!Migrate, origin
    <3>. QED  BY <3>3 DEF Document!Next
  <2>. QED  BY <1>4, <2>1, <2>2, <2>3, <2>4 DEF Retargeted
<1>5. CASE row'.targets = row.targets /\ Relisted(o, row, row')
  <2>1. /\ Document!OthersStay(o, row.profiles, row'.profiles)
        /\ row'.runtime = Document!RuntimeEnv(row'.profiles)
    BY <1>5 DEF Relisted, RuntimeEnv, Document!RuntimeEnv
  <2>2. CASE /\ o.op = "upload" /\ row.profiles[o.profile] = Nil
             /\ row'.profiles[o.profile] = NewProfile(o)
             /\ Document!Admitted(o, row.targets, row'.profiles)
    <3>1. row'.legacy = row.legacy /\ row'.pinned = row.pinned
      BY <1>3, <2>2
    <3>2. row'.profiles[o.profile] = Document!NewProfile(o)
      BY <2>2, RulesAgree
    <3>3. Document!Upload(o)
      BY <1>1, <1>5, <2>1, <2>2, <3>1, <3>2, Zenon DEF Document!Upload, origin
    <3>. QED  BY <3>3 DEF Document!Next
  <2>3. CASE o.op = "drop" /\ row.profiles[o.profile] # Nil /\ row'.profiles[o.profile] = Nil
    <3>1. row'.legacy = row.legacy /\ row'.pinned = row.pinned
      BY <1>3, <2>3
    <3>2. Document!DeleteProfile(o)
      BY <1>1, <1>5, <2>1, <2>3, <3>1, Zenon DEF Document!DeleteProfile, origin
    <3>. QED  BY <3>2 DEF Document!Next
  <2>. QED  BY <1>5, <2>2, <2>3 DEF Relisted
<1>6. CASE /\ row'.targets = row.targets /\ row'.runtime = row.runtime
           /\ o.op \in {"content", "metadata"}
           /\ Document!EditedBy(o, row.profiles[o.profile], row'.profiles[o.profile])
           /\ \A p \in Profile \ {o.profile} : row'.profiles[p] = row.profiles[p]
  <2>1. row'.legacy = row.legacy /\ row'.pinned = row.pinned
    BY <1>3, <1>6
  <2>2. Document!EditProfile(o)
    BY <1>1, <1>6, <2>1 DEF Document!EditProfile, Document!flags, origin
  <2>. QED  BY <2>2 DEF Document!Next
<1>7. CASE row'.targets = row.targets /\ row'.runtime = row.runtime /\ row'.profiles = row.profiles
  <2>1. CASE o.op = "migrate"
    <3>1. row'.legacy \in {row.legacy, FALSE} /\ (row'.pinned = row.pinned \/ (o.unpin /\ row'.pinned = FALSE))
      BY <1>2, <2>1
    <3>2. Document!Migrate(o)
      BY <1>1, <1>7, <2>1, <3>1 DEF Document!Migrate, origin
    <3>. QED  BY <3>2 DEF Document!Next
  <2>2. CASE o.op = "pin" /\ row'.pinned = o.pinned
    <3>1. row'.legacy = row.legacy
      BY <1>2, <2>2
    <3>2. Document!SetPinned(o)
      BY <1>1, <1>7, <2>2, <3>1 DEF Document!SetPinned, origin
    <3>. QED  BY <3>2 DEF Document!Next
  <2>3. CASE row'.legacy = row.legacy /\ row'.pinned = row.pinned
    BY <1>1, <1>7, <2>3 DEF Document!vars, origin
  <2>. QED  BY <1>2, <2>1, <2>2, <2>3
<1>. QED  BY <1>4, <1>5, <1>6, <1>7 DEF Edited

LEMMA DocumentStarts == WiringInit => Document!Init
<1>. SUFFICES ASSUME WiringInit PROVE Document!Init
  OBVIOUS
<1>1. PICK in \in Creations : row = NewDoc(in)
  BY DEF WiringInit
<1>2. NewDoc(in).profiles = in.profiles /\ NewDoc(in).legacy = in.legacy /\ Apart(in.profiles)
      /\ NewDoc(in) \in Doc
  BY NewDocTyped
<1>3. NewDoc(in).targets = IF in.legacy THEN [k \in Key |-> Nil] ELSE InitialTargets(in)
  BY Zenon DEF NewDoc
<1>4. \A k \in Key : InitialTargets(in)[k] # Nil
                     => ValidRef(InitialTargets(in)[k].ref, InitialTargets(in)[k].on)
  BY CreationsAssumption
<1>5. ASSUME NEW k \in Key, row.targets[k] # Nil
      PROVE  ~row.legacy /\ Document!ValidRef(row.targets[k].ref, row.targets[k].on)
  <2>1. ~in.legacy
    BY <1>1, <1>3, <1>5
  <2>2. row.targets = InitialTargets(in)
    BY <1>1, <1>3, <2>1
  <2>3. ValidRef(row.targets[k].ref, row.targets[k].on)
    BY <1>4, <1>5, <2>2
  <2>. QED  BY <1>1, <1>2, <2>1, <2>3, RulesAgree
<1>6. ASSUME NEW p \in Profile, NEW q \in Profile, p # q, row.profiles[p] # Nil, row.profiles[q] # Nil
      PROVE  ~Document!Overlaps(row.profiles[p], row.profiles[q])
  <2>1. ~Overlaps(row.profiles[p], row.profiles[q])
    BY <1>1, <1>2, <1>6 DEF Apart
  <2>. QED  BY <2>1, RulesAgree
<1>7. row.runtime <=> (\A p \in Profile : row.profiles[p] = Nil) \/ Document!RuntimeEnv(row.profiles)
  <2>1. NewDoc(in).runtime = ((\A p \in Profile : in.profiles[p] = Nil) \/ RuntimeEnv(in.profiles))
    BY Zenon DEF NewDoc
  <2>2. Document!RuntimeEnv(in.profiles) <=> RuntimeEnv(in.profiles)
    BY RulesAgree
  <2>. QED  BY <1>1, <1>2, <2>1, <2>2, Zenon
<1>. QED  BY <1>5, <1>6, <1>7, Zenon DEF Document!Init

(* What the two theorems rest on, for every reachable state.                *)
LEMMA DocumentInvariant == WiringSpec => [](WiringInv /\ ProfileInv /\ WorkInv /\ DocumentInv)
<1>1. WiringInit => WiringInv /\ ProfileInv /\ WorkInv /\ DocumentInv
  BY InitOK, ProfileInit, WorkInit, DocumentInit
<1>2. WiringInv /\ ProfileInv /\ WorkInv /\ DocumentInv /\ [WiringNext]_project
      => WiringInv' /\ ProfileInv' /\ WorkInv' /\ DocumentInv'
  BY WiringStep, ProfileStep, WorkStep, DocumentEdits
<1>. QED  BY <1>1, <1>2, PTL DEF WiringSpec

(* The chart gets the runtime secrets exactly while a stored profile has    *)
(* some, although each request computes the flag from the list it loaded    *)
(* and the flag itself is saved without asking for the version.             *)
THEOREM RuntimeFlagIsTrue == WiringSpec => []FlagFollowsProfiles
<1>1. DocumentInv => FlagFollowsProfiles
  <2>. SUFFICES ASSUME DocumentInv, ProfilesOf(row) # {}
                PROVE  row.runtime <=> \E p \in ProfilesOf(row) : row.profiles[p].phase = "runtime"
    BY DEF FlagFollowsProfiles
  <2>1. row.runtime = RuntimeEnv(row.profiles)
    BY DEF DocumentInv, Flagged
  <2>2. RuntimeEnv(row.profiles) <=> \E p \in ProfilesOf(row) : row.profiles[p].phase = "runtime"
    BY DEF RuntimeEnv, ProfilesOf
  <2>. QED  BY <2>1, <2>2, Zenon
<1>. QED  BY <1>1, DocumentInvariant, PTL

(* The stored document implements the abstract one: however the requests    *)
(* interleave and wherever they stop, each change of it is one request's    *)
(* edit of the document as it is stored at that moment.                     *)
THEOREM WiringImplementsDocument == WiringSpec => ImplementsDocument
<1>1. WiringInit => Document!Init
  BY DocumentStarts
<1>2. WiringInv /\ ProfileInv /\ WorkInv /\ DocumentInv /\ [WiringNext]_project
      => [Document!Next]_Document!vars
  <2>. SUFFICES ASSUME WiringInv, ProfileInv, WorkInv, DocumentInv, [WiringNext]_project
                PROVE  [Document!Next]_Document!vars
    OBVIOUS
  <2>1. CASE row' = row
    BY <2>1 DEF Document!vars
  <2>2. CASE \E o \in Ops : Edited(o, row, row')
    BY <2>2, EditIsAction
  <2>. QED  BY <2>1, <2>2, DocumentEdits
<1>. QED  BY <1>1, <1>2, DocumentInvariant, PTL DEF WiringSpec, ImplementsDocument, Document!Spec

=============================================================================
