-------------------------- MODULE AvatarCacheProofs --------------------------
(***************************************************************************)
(* Names and objects in the cache of ChatAvatarService, for any spellings, *)
(* any collation and any number of objects.                                *)
(***************************************************************************)
EXTENDS AvatarCache, FiniteSetTheorems, WellFoundedInduction, TLAPS

(***************************************************************************)
(* The invariant                                                           *)
(***************************************************************************)

Thing == [id : Nat, name : Spelling, list : SUBSET Nat, flag : BOOLEAN]

\* The table r has a row for each avatar, with a name that is narrow.
RowsGood(r, d) ==
    /\ r \in Seq(Spelling) /\ d \in Seq(SUBSET Nat) /\ Len(d) = Len(r)
    /\ \A k \in 1..Len(r) : Narrow[r[k]] = r[k]
    /\ \A j, k \in 1..Len(r) : Same[r[j]] = Same[r[k]] => j = k

IsFirst(c, i) == \A j \in 1..(i - 1) : c[j].id # c[i].id

\* Every object is called what its row is called, but for characters the
\* table cannot hold, and the first of an avatar has the stored list.
ObjectGood(r, d, c, i) ==
    /\ c[i].id \in 1..Len(r)
    /\ r[c[i].id] = Narrow[c[i].name]
    /\ IsFirst(c, i) => c[i].list = d[c[i].id]

CacheGood(r, d, c) ==
    /\ c \in Seq(Thing)
    /\ \A i \in 1..Len(c) : ObjectGood(r, d, c, i)

\* Who is on the list has its flag on.
OnlineGood(c, o) ==
    /\ o \in Seq(Nat)
    /\ \A k \in 1..Len(o) : o[k] \in 1..Len(c) /\ c[o[k]].flag

\* Who is on the list and left has an object besides.
LeftGood(c, o, l) ==
    \A k \in 1..Len(o) : c[o[k]].id \in l =>
        \E j \in 1..Len(c) : j # o[k] /\ c[j].id = c[o[k]].id

CacheInv ==
    /\ RowsGood(rows, dbList)
    /\ CacheGood(rows, dbList, cache)
    /\ OnlineGood(cache, online)
    /\ LeftGood(cache, online, left)
    /\ left \subseteq 1..Len(rows)

(***************************************************************************)
(* Least elements                                                          *)
(***************************************************************************)

\* The first of some places is one of them and before the others.
LEMMA FirstIsFirst ==
    ASSUME NEW S \in SUBSET Nat, S # {}
    PROVE  FirstOf(S) \in S /\ \A j \in S : FirstOf(S) <= j
<1> DEFINE T == {1..i : i \in S}
           R == StrictSubsetOrdering(Nat)
<1>1. T \subseteq FiniteSubsetsOf(Nat) /\ T # {}
  <2>1. \A i \in Nat : IsFiniteSet(1..i) /\ 1..i \subseteq Nat
    BY FS_Interval
  <2> QED BY <2>1 DEF FiniteSubsetsOf
<1>2. PICK x \in T : \A y \in T : <<y, x>> \notin R
  BY <1>1, FS_StrictSubsetOrderingWellFounded, WFMin
<1>3. PICK i \in S : x = 1..i
  BY <1>2
<1>4. ASSUME NEW j \in S, j < i PROVE FALSE
  <2>1. 1..j \subseteq 1..i /\ 1..j # 1..i
    BY <1>4
  <2>2. <<1..j, 1..i>> \in R
    BY <2>1 DEF StrictSubsetOrdering
  <2> QED BY <1>2, <1>3, <2>2
<1>5. \A j \in S : i <= j
  BY <1>4
<1> QED BY <1>5 DEF FirstOf

\* Induction, for a set of numbers.
LEMMA SetInduction ==
    ASSUME NEW S \in SUBSET Nat, 0 \in S, \A n \in S : n + 1 \in S
    PROVE  S = Nat
<1> SUFFICES ASSUME Nat \ S # {} PROVE FALSE
  OBVIOUS
<1> DEFINE n == FirstOf(Nat \ S)
<1>1. n \in Nat \ S /\ \A j \in Nat \ S : n <= j
  BY FirstIsFirst
<1> HIDE DEF n
<1>2. n # 0 /\ n - 1 \in Nat
  BY <1>1
<1>3. n - 1 \in S
  BY <1>1, <1>2
<1> QED BY <1>1, <1>2, <1>3

\* A sequence over a set is one over any larger set.
LEMMA SeqWidens ==
    ASSUME NEW S, NEW T, S \subseteq T, NEW q \in Seq(S)
    PROVE  q \in Seq(T)
<1>1. Len(q) \in Nat /\ q \in [1..Len(q) -> S]
  OBVIOUS
<1>2. q \in [1..Len(q) -> T]
  BY <1>1
<1> QED BY <1>1, <1>2

\* Two sequences, one behind the other.
LEMMA Behind ==
    ASSUME NEW S, NEW a \in Seq(S), NEW b \in Seq(S)
    PROVE  /\ Len(a \o b) = Len(a) + Len(b)
           /\ \A i \in 1..Len(a) : (a \o b)[i] = a[i]
           /\ \A i \in (Len(a) + 1)..Len(a \o b) : (a \o b)[i] = b[i - Len(a)]
OBVIOUS

\* SetToSeq lists members of its set, if that is finite.
LEMMA SetToSeqMembers ==
    ASSUME NEW S, IsFiniteSet(S)
    PROVE  SetToSeq(S) \in Seq(S)
<1> DEFINE n == Cardinality(S)
<1>1. n \in Nat /\ ExistsBijection(1..n, S)
  BY FS_CardinalityType
<1>2. PICK f : f \in Bijection(1..n, S)
  BY <1>1 DEF ExistsBijection
<1>3. f \in [1..n -> S] /\ IsInjective(f)
  BY <1>2 DEF Bijection, Injection
<1>4. SetToSeq(S) \in [1..n -> S]
  BY <1>3 DEF SetToSeq
<1> QED BY <1>1, <1>4

(***************************************************************************)
(* Leaving the list                                                        *)
(***************************************************************************)

\* What Without has kept of the first k entries of the list.
Keeping(c, i, kept, k) ==
    IF k = 0 THEN <<>>
    ELSE IF c[online[k]].id = c[i].id THEN kept[k - 1]
    ELSE Append(kept[k - 1], online[k])

\* The recursion of Without defines a function.
LEMMA KeptExists ==
    ASSUME NEW c, NEW i
    PROVE  \A n \in Nat : \E g : g = [k \in 0..n |-> Keeping(c, i, g, k)]
<1> DEFINE P(n) == \E g : g = [k \in 0..n |-> Keeping(c, i, g, k)]
           S == {n \in Nat : P(n)}
<1>1. 0 \in S
  <2> DEFINE g == [k \in 0..0 |-> <<>>]
  <2>1. g = [k \in 0..0 |-> Keeping(c, i, g, k)]
    BY DEF Keeping
  <2> QED BY <2>1
<1>2. ASSUME NEW n \in S PROVE n + 1 \in S
  <2>1. PICK g : g = [k \in 0..n |-> Keeping(c, i, g, k)]
    BY <1>2
  <2> DEFINE h == [k \in 0..(n + 1) |-> IF k \in 0..n THEN g[k] ELSE Keeping(c, i, g, n + 1)]
  <2>2. ASSUME NEW k \in 0..(n + 1) PROVE h[k] = Keeping(c, i, h, k)
    <3>1. CASE k \in 0..n
      <4>1. h[k] = Keeping(c, i, g, k)
        BY <2>1, <3>1
      <4>2. k = 0 \/ h[k - 1] = g[k - 1]
        BY <3>1
      <4> QED BY <4>1, <4>2 DEF Keeping
    <3>2. CASE k \notin 0..n
      <4>1. k = n + 1 /\ h[k] = Keeping(c, i, g, k)
        BY <2>2, <3>2
      <4>2. h[k - 1] = g[k - 1]
        BY <4>1
      <4> QED BY <4>1, <4>2 DEF Keeping
    <3> QED BY <3>1, <3>2
  <2>3. h = [k \in 0..(n + 1) |-> Keeping(c, i, h, k)]
    BY <2>2
  <2>4. P(n + 1)
    <3> HIDE DEF h
    <3> QED BY <2>3
  <2> QED BY <2>4
<1> HIDE DEF P
<1>3. S = Nat
  BY <1>1, <1>2, SetInduction
<1> QED BY <1>3 DEF P

\* Without keeps entries of the list, and none of the avatar.
LEMMA WithoutMembers ==
    ASSUME NEW c, NEW i, online \in Seq(Nat)
    PROVE  /\ Without(c, i) \in Seq(Nat)
           /\ \A k \in 1..Len(Without(c, i)) :
                 /\ c[Without(c, i)[k]].id # c[i].id
                 /\ \E m \in 1..Len(online) : Without(c, i)[k] = online[m]
<1> DEFINE L == Len(online)
           kept == CHOOSE g : g = [k \in 0..L |-> Keeping(c, i, g, k)]
           Entry == {x \in Nat : /\ c[x].id # c[i].id
                                 /\ \E m \in 1..L : x = online[m]}
           P(n) == n <= L => kept[n] \in Seq(Entry)
           S == {n \in Nat : P(n)}
<1>1. L \in Nat
  OBVIOUS
<1>2. kept = [k \in 0..L |-> Keeping(c, i, kept, k)]
  BY <1>1, KeptExists
<1>3. Without(c, i) = kept[L]
  BY DEF Without, Keeping
<1> HIDE DEF kept
<1>4. 0 \in S
  BY <1>1, <1>2 DEF Keeping
<1>5. ASSUME NEW n \in S PROVE n + 1 \in S
  <2> SUFFICES ASSUME n + 1 <= L PROVE kept[n + 1] \in Seq(Entry)
    BY <1>5
  <2>1. kept[n] \in Seq(Entry)
    BY <1>1, <1>5
  <2>2. n + 1 \in 0..L /\ n + 1 # 0 /\ n + 1 - 1 = n
    BY <1>1, <1>5
  <2>3. kept[n + 1] = Keeping(c, i, kept, n + 1)
    BY <1>2, <2>2
  <2>4. CASE c[online[n + 1]].id = c[i].id
    BY <2>1, <2>2, <2>3, <2>4 DEF Keeping
  <2>5. CASE c[online[n + 1]].id # c[i].id
    <3>1. online[n + 1] \in Entry
      BY <2>2, <2>5
    <3>2. kept[n + 1] = Append(kept[n], online[n + 1])
      BY <2>2, <2>3, <2>5 DEF Keeping
    <3> HIDE DEF Entry
    <3> QED BY <2>1, <3>1, <3>2
  <2> QED BY <2>4, <2>5
<1> HIDE DEF P
<1>6. S = Nat
  BY <1>4, <1>5, SetInduction
<1>7. kept[L] \in Seq(Entry)
  <2>1. P(L)
    BY <1>1, <1>6
  <2> HIDE DEF Entry
  <2> QED BY <1>1, <2>1 DEF P
<1>8. kept[L] \in Seq(Nat) /\ \A k \in 1..Len(kept[L]) : kept[L][k] \in Entry
  <2>1. Entry \subseteq Nat
    OBVIOUS
  <2> DEFINE q == kept[L]
  <2> HIDE DEF Entry, q
  <2>2. q \in Seq(Entry)
    BY <1>7 DEF q
  <2>3. q \in Seq(Nat)
    BY <2>1, <2>2, SeqWidens
  <2>4. \A k \in 1..Len(q) : q[k] \in Entry
    BY <2>2
  <2> QED BY <2>3, <2>4 DEF q
<1> QED BY <1>3, <1>8

(***************************************************************************)
(* Lookups and loads                                                       *)
(***************************************************************************)

\* The first object of an avatar, found by id.
LEMMA ByIdIsFirst ==
    ASSUME NEW c \in Seq(Thing), NEW id, WithIdIn(c, id) # {}
    PROVE  ById(c, id) \in 1..Len(c) /\ c[ById(c, id)].id = id /\ IsFirst(c, ById(c, id))
<1> DEFINE S == WithIdIn(c, id)
           i == ById(c, id)
<1>1. S \in SUBSET Nat /\ \A j \in 1..Len(c) : j \in S <=> c[j].id = id
  BY DEF WithIdIn
<1>2. i \in S /\ \A j \in S : i <= j
  BY <1>1, FirstIsFirst DEF ById
<1>3. i \in 1..Len(c) /\ c[i].id = id
  BY <1>2 DEF WithIdIn
<1> HIDE DEF i, S
<1>4. ASSUME NEW j \in 1..(i - 1) PROVE c[j].id # id
  <2>1. j \in 1..Len(c) /\ ~(i <= j)
    BY <1>3
  <2> QED BY <1>1, <1>2, <2>1
<1>5. IsFirst(c, i)
  BY <1>3, <1>4 DEF IsFirst
<1> QED BY <1>3, <1>5 DEF i

\* e is c with more objects behind.
Extends(c, e) == Len(c) <= Len(e) /\ \A i \in 1..Len(c) : e[i] = c[i]

\* Loading an avatar leaves the objects there are, and makes good ones.
LEMMA LoadGood ==
    ASSUME RowsGood(rows, dbList), NEW c, CacheGood(rows, dbList, c),
           NEW id \in 1..Len(rows), NEW n
    PROVE  /\ CacheGood(rows, dbList, Load(c, id, n))
           /\ Extends(c, Load(c, id, n))
           /\ Len(c) + 1 \in 1..Len(Load(c, id, n))
           /\ Load(c, id, n)[Len(c) + 1].id = id
<1> DEFINE M == Missing(c, id)
           New(k) == Object(k, rows[k], dbList[k])
           T == {New(k) : k \in M}
           q == SetToSeq(T)
           N == {New(k) : k \in 1..Len(rows)}
           e == Load(c, id, n)
<1>1. M \subseteq 1..Len(rows) /\ IsFiniteSet(M)
  <2>1. M \subseteq 1..Len(rows)
    BY DEF Missing, Id
  <2>2. IsFiniteSet(1..Len(rows))
    BY FS_Interval DEF RowsGood
  <2> HIDE DEF M
  <2> QED BY <2>1, <2>2, FS_Subset
<1>2. IsFiniteSet(T)
  <2> DEFINE f == [k \in M |-> New(k)]
  <2> HIDE DEF M, New
  <2>1. f \in Surjection(M, T)
    BY DEF Surjection
  <2> QED BY <1>1, <2>1, FS_Surjection
<1>3. q \in Seq(N)
  <2>1. q \in Seq(T)
    BY <1>2, SetToSeqMembers
  <2>2. T \subseteq N
    BY <1>1
  <2> HIDE DEF q, T, N
  <2> QED BY <2>1, <2>2, SeqWidens
<1>4. e = c \o <<New(id)>> \o q
  BY DEF Load, LoadedName
<1>5. New(id) \in N /\ c \in Seq(Thing)
  BY DEF CacheGood
<1>6. ASSUME NEW x \in N
      PROVE  /\ x \in Thing
             /\ x.id \in 1..Len(rows) /\ rows[x.id] = Narrow[x.name] /\ x.list = dbList[x.id]
  <2>1. PICK k \in 1..Len(rows) : x = New(k)
    OBVIOUS
  <2>2. x.id = k /\ x.name = rows[k] /\ x.list = dbList[k]
    BY <2>1 DEF Object
  <2>3. k \in Nat /\ rows[k] \in Spelling /\ dbList[k] \in SUBSET Nat
    BY DEF RowsGood
  <2>4. x \in Thing
    BY <2>1, <2>3 DEF Object, Thing
  <2> QED BY <2>2, <2>4 DEF RowsGood
<1>7. New(id).id = id
  BY DEF Object
<1> HIDE DEF N, New, q
<1>8. /\ Len(c) \in Nat /\ Len(q) \in Nat
      /\ Len(e) = Len(c) + 1 + Len(q)
      /\ \A i \in 1..Len(c) : e[i] = c[i]
      /\ e[Len(c) + 1] = New(id)
      /\ \A i \in (Len(c) + 1)..Len(e) : e[i] \in N
  <2> DEFINE a == c \o <<New(id)>>
  <2>1. /\ Len(c) \in Nat /\ Len(q) \in Nat /\ Len(a) = Len(c) + 1
        /\ \A i \in 1..Len(c) : a[i] = c[i]
        /\ a[Len(c) + 1] = New(id)
        /\ a \in Seq(Thing)
    BY <1>3, <1>5, <1>6
  <2> HIDE DEF a, e
  <2>2. e = a \o q
    BY <1>4 DEF a
  <2>3. /\ Len(e) = Len(a) + Len(q)
        /\ \A i \in 1..Len(a) : e[i] = a[i]
        /\ \A i \in (Len(a) + 1)..Len(e) : e[i] = q[i - Len(a)]
    <3>1. q \in Seq(Thing)
      BY <1>3, <1>6, SeqWidens
    <3> QED BY <2>1, <2>2, <3>1, Behind
  <2>4. ASSUME NEW i \in (Len(c) + 1)..Len(e) PROVE e[i] \in N
    <3>1. CASE i = Len(c) + 1
      BY <1>5, <2>1, <2>3, <3>1
    <3>2. CASE i # Len(c) + 1
      <4>1. i - Len(a) \in 1..Len(q) /\ e[i] = q[i - Len(a)]
        BY <2>1, <2>3, <2>4, <3>2
      <4> QED BY <1>3, <4>1
    <3> QED BY <3>1, <3>2
  <2> QED BY <2>1, <2>3, <2>4
<1> HIDE DEF e
<1>9. e \in Seq(Thing)
  <2>1. Len(e) \in Nat /\ e = [i \in 1..Len(e) |-> e[i]]
    BY <1>3, <1>4, <1>5, <1>6, <1>8
  <2>2. \A i \in 1..Len(e) : e[i] \in Thing
    BY <1>5, <1>6, <1>8
  <2> QED BY <2>1, <2>2
<1>10. ASSUME NEW i \in 1..Len(e) PROVE ObjectGood(rows, dbList, e, i)
  <2>1. CASE i \in 1..Len(c)
    <3>1. ObjectGood(rows, dbList, c, i)
      BY <2>1 DEF CacheGood
    <3>2. e[i] = c[i] /\ \A j \in 1..(i - 1) : e[j] = c[j]
      BY <1>8, <2>1
    <3> QED BY <3>1, <3>2 DEF ObjectGood, IsFirst
  <2>2. CASE i \notin 1..Len(c)
    <3>1. e[i] \in N
      BY <1>8, <2>2
    <3> QED BY <1>6, <3>1 DEF ObjectGood
  <2> QED BY <2>1, <2>2
<1> QED BY <1>7, <1>8, <1>9, <1>10 DEF CacheGood, Extends, e

\* GetAvatar(avatarId).
LEMMA AfterIdGood ==
    ASSUME RowsGood(rows, dbList), NEW c, CacheGood(rows, dbList, c),
           NEW id \in 1..Len(rows)
    PROVE  /\ CacheGood(rows, dbList, AfterId(c, id))
           /\ Extends(c, AfterId(c, id))
           /\ WithIdIn(AfterId(c, id), id) # {}
<1>1. CASE WithIdIn(c, id) # {}
  BY <1>1 DEF AfterId, Extends, CacheGood
<1>2. CASE WithIdIn(c, id) = {}
  <2>1. AfterId(c, id) = Load(c, id, rows[id])
    BY <1>2 DEF AfterId
  <2> QED BY <2>1, LoadGood DEF WithIdIn, CacheGood
<1> QED BY <1>1, <1>2

\* GetAvatar(name, address), of a name with an object or a row.
LEMMA AfterNameGood ==
    ASSUME RowsGood(rows, dbList), NEW c, CacheGood(rows, dbList, c), NEW n,
           NamedIn(c, n) # {} \/ RowsOf(n) # {}
    PROVE  /\ CacheGood(rows, dbList, AfterName(c, n))
           /\ Extends(c, AfterName(c, n))
           /\ ByName(c, n) \in 1..Len(AfterName(c, n))
<1>1. CASE NamedIn(c, n) # {}
  <2>1. NamedIn(c, n) \in SUBSET Nat /\ NamedIn(c, n) \subseteq 1..Len(c)
    BY DEF NamedIn, CacheGood
  <2>2. ByName(c, n) \in 1..Len(c)
    BY <1>1, <2>1, FirstIsFirst DEF ByName
  <2> QED BY <1>1, <2>2 DEF AfterName, Extends, CacheGood
<1>2. CASE NamedIn(c, n) = {}
  <2>1. RowsOf(n) # {} /\ RowsOf(n) \in SUBSET Nat /\ RowsOf(n) \subseteq 1..Len(rows)
    BY <1>2 DEF RowsOf, Id
  <2>2. FirstOf(RowsOf(n)) \in 1..Len(rows)
    BY <2>1, FirstIsFirst
  <2>3. AfterName(c, n) = Load(c, FirstOf(RowsOf(n)), n) /\ ByName(c, n) = Len(c) + 1
    BY <1>2 DEF AfterName, ByName
  <2> QED BY <2>2, <2>3, LoadGood
<1> QED BY <1>1, <1>2

\* A longer cache is as good for the list of online avatars.
LEMMA ExtendsKeepsOnline ==
    ASSUME NEW c, NEW e, Extends(c, e), Len(c) \in Nat, Len(e) \in Nat, NEW l,
           OnlineGood(c, online), LeftGood(c, online, l)
    PROVE  OnlineGood(e, online) /\ LeftGood(e, online, l)
<1>1. \A j \in 1..Len(c) : j \in 1..Len(e) /\ e[j] = c[j]
  BY DEF Extends
<1>2. OnlineGood(e, online)
  BY <1>1 DEF OnlineGood
<1>3. LeftGood(e, online, l)
  BY <1>1 DEF OnlineGood, LeftGood
<1> QED BY <1>2, <1>3

\* Ids and names stay when flags or lists change.
LEMMA ChangeGood ==
    ASSUME NEW r, NEW d, NEW c, CacheGood(r, d, c), NEW e, NEW f,
           e \in Seq(Thing), Len(e) = Len(c),
           \A i \in 1..Len(c) : e[i].id = c[i].id /\ e[i].name = c[i].name,
           \A i \in 1..Len(c) : IsFirst(c, i) => e[i].list = f[c[i].id]
    PROVE  CacheGood(r, f, e)
<1>1. c \in Seq(Thing) /\ Len(c) \in Nat
  BY DEF CacheGood
<1>2. ASSUME NEW i \in 1..Len(e) PROVE ObjectGood(r, f, e, i)
  <2>1. ObjectGood(r, d, c, i) /\ i \in 1..Len(c)
    BY DEF CacheGood
  <2>2. \A j \in 1..(i - 1) : j \in 1..Len(c)
    BY <1>1, <2>1
  <2>3. IsFirst(e, i) => IsFirst(c, i)
    BY <2>1, <2>2 DEF IsFirst
  <2> QED BY <2>1, <2>3 DEF ObjectGood
<1> QED BY <1>2 DEF CacheGood

\* What a handler does to an object.
Flagged(c, i, b) == [c EXCEPT ![i].flag = b]
Listing(c, i, l) == [c EXCEPT ![i].list = l]

\* e is c but for the object at place i, which keeps id and name.
ChangedAt(c, i, e) ==
    /\ e \in Seq(Thing)
    /\ Len(e) = Len(c)
    /\ e[i].id = c[i].id /\ e[i].name = c[i].name
    /\ \A j \in 1..Len(c) : j # i => e[j] = c[j]

\* Setting a flag.
LEMMA FlagChange ==
    ASSUME NEW c \in Seq(Thing), NEW i \in 1..Len(c), NEW b \in BOOLEAN
    PROVE  /\ ChangedAt(c, i, Flagged(c, i, b))
           /\ Flagged(c, i, b)[i].flag = b /\ Flagged(c, i, b)[i].list = c[i].list
<1> DEFINE x == [c[i] EXCEPT !.flag = b]
           e == Flagged(c, i, b)
<1>1. c[i] \in Thing
  OBVIOUS
<1>2. x \in Thing /\ x.id = c[i].id /\ x.name = c[i].name /\ x.list = c[i].list /\ x.flag = b
  BY <1>1 DEF Thing
<1>3. e = [c EXCEPT ![i] = x]
  BY DEF Flagged
<1> HIDE DEF x, e
<1>4. e \in Seq(Thing) /\ Len(e) = Len(c) /\ e[i] = x /\ \A j \in 1..Len(c) : j # i => e[j] = c[j]
  BY <1>2, <1>3
<1> QED BY <1>2, <1>4 DEF ChangedAt, e

\* Changing a list.
LEMMA ListChange ==
    ASSUME NEW c \in Seq(Thing), NEW i \in 1..Len(c), NEW l \in SUBSET Nat
    PROVE  /\ ChangedAt(c, i, Listing(c, i, l))
           /\ Listing(c, i, l)[i].list = l /\ Listing(c, i, l)[i].flag = c[i].flag
<1> DEFINE x == [c[i] EXCEPT !.list = l]
           e == Listing(c, i, l)
<1>1. c[i] \in Thing
  OBVIOUS
<1>2. x \in Thing /\ x.id = c[i].id /\ x.name = c[i].name /\ x.list = l /\ x.flag = c[i].flag
  BY <1>1 DEF Thing
<1>3. e = [c EXCEPT ![i] = x]
  BY DEF Listing
<1> HIDE DEF x, e
<1>4. e \in Seq(Thing) /\ Len(e) = Len(c) /\ e[i] = x /\ \A j \in 1..Len(c) : j # i => e[j] = c[j]
  BY <1>2, <1>3
<1> QED BY <1>2, <1>4 DEF ChangedAt, e

(***************************************************************************)
(* The handlers keep the invariant                                         *)
(***************************************************************************)

\* An object is put on the list, if its avatar is not on it.
LEMMA GoOnlineKeeps ==
    ASSUME NEW r, NEW d, NEW c, CacheGood(r, d, c), NEW i \in 1..Len(c), GoOnline(c, i),
           OnlineGood(c, online), LeftGood(c, online, left)
    PROVE  /\ CacheGood(r, d, cache') /\ OnlineGood(cache', online')
           /\ LeftGood(cache', online', left \ {c[i].id})
           /\ cache'[i].id = c[i].id
<1>1. c \in Seq(Thing) /\ Len(c) \in Nat
  BY DEF CacheGood
<1>2. cache' = Flagged(c, i, TRUE)
  BY DEF GoOnline, Flagged
<1>3. /\ cache' \in Seq(Thing) /\ Len(cache') = Len(c) /\ cache'[i].flag = TRUE
      /\ \A j \in 1..Len(c) :
            /\ cache'[j].id = c[j].id /\ cache'[j].name = c[j].name /\ cache'[j].list = c[j].list
            /\ j # i => cache'[j] = c[j]
  <2>1. TRUE \in BOOLEAN
    OBVIOUS
  <2>2. ChangedAt(c, i, Flagged(c, i, TRUE))
    BY <1>1, <2>1, FlagChange
  <2>3. Flagged(c, i, TRUE)[i].flag = TRUE
    BY <1>1, <2>1, FlagChange
  <2>4. Flagged(c, i, TRUE)[i].list = c[i].list
    BY <1>1, <2>1, FlagChange
  <2> QED BY <1>2, <2>2, <2>3, <2>4 DEF ChangedAt
<1>4. CacheGood(r, d, cache')
  <2>1. \A j \in 1..Len(c) : IsFirst(c, j) => cache'[j].list = d[c[j].id]
    BY <1>3 DEF CacheGood, ObjectGood
  <2> QED BY <1>3, <2>1, ChangeGood
<1>5. online' = online \/ online' = Append(online, i)
  BY DEF GoOnline
<1>6. /\ online' \in Seq(Nat)
      /\ \A k \in 1..Len(online') :
            online'[k] = i \/ \E m \in 1..Len(online) : online'[k] = online[m]
  <2>1. online \in Seq(Nat) /\ i \in Nat
    BY DEF OnlineGood
  <2>2. CASE online' = online
    BY <2>1, <2>2
  <2>3. CASE online' = Append(online, i)
    BY <2>1, <2>3
  <2> QED BY <1>5, <2>2, <2>3
<1>7. ASSUME NEW k \in 1..Len(online')
      PROVE  /\ online'[k] \in 1..Len(cache') /\ cache'[online'[k]].flag
             /\ cache'[online'[k]].id \in left \ {c[i].id} =>
                  \E j \in 1..Len(cache') : j # online'[k] /\ cache'[j].id = cache'[online'[k]].id
  <2>1. CASE online'[k] = i
    BY <1>3, <2>1
  <2>2. CASE online'[k] # i
    <3>1. PICK m \in 1..Len(online) : online'[k] = online[m]
      BY <1>6, <2>2
    <3>2. online[m] \in 1..Len(c) /\ c[online[m]].flag
      BY DEF OnlineGood
    <3>3. cache'[online'[k]] = c[online[m]]
      BY <1>3, <2>2, <3>1, <3>2
    <3>4. c[online[m]].id \in left =>
            \E j \in 1..Len(c) : j # online[m] /\ c[j].id = c[online[m]].id
      BY DEF LeftGood
    <3> QED BY <1>3, <3>1, <3>2, <3>3, <3>4
  <2> QED BY <2>1, <2>2
<1> QED BY <1>3, <1>4, <1>6, <1>7 DEF OnlineGood, LeftGood

\* LoginAvatar of an avatar there is.
LEMMA LoginKnownKeeps ==
    ASSUME CacheInv, NEW n \in Spelling, LoginKnown(n)
    PROVE  CacheInv'
<1> DEFINE c == AfterName(cache, n)
           i == ByName(cache, n)
<1>1. CacheGood(rows, dbList, c) /\ Extends(cache, c) /\ i \in 1..Len(c)
  BY AfterNameGood DEF CacheInv, LoginKnown, Known
<1>2. OnlineGood(c, online) /\ LeftGood(c, online, left)
  BY <1>1, ExtendsKeepsOnline DEF CacheInv, CacheGood
<1>3. GoOnline(c, i) /\ UNCHANGED <<rows, dbList>> /\ left' = left \ {cache'[i].id}
  BY DEF LoginKnown
<1> HIDE DEF c, i
<1>4. /\ CacheGood(rows, dbList, cache') /\ OnlineGood(cache', online')
      /\ LeftGood(cache', online', left')
  BY <1>1, <1>2, <1>3, GoOnlineKeeps
<1> QED BY <1>3, <1>4 DEF CacheInv

\* LoginAvatar of a new avatar: CreateAvatar, and the object is on the list.
LEMMA LoginNewKeeps ==
    ASSUME CacheInv, NEW n \in Spelling, LoginNew(n)
    PROVE  CacheInv'
<1> DEFINE x == Object(NewId, n, {})
           c == Append(cache, x)
           i == Len(cache) + 1
<1>1. /\ rows \in Seq(Spelling) /\ dbList \in Seq(SUBSET Nat) /\ Len(dbList) = Len(rows)
      /\ cache \in Seq(Thing)
  BY DEF CacheInv, RowsGood, CacheGood
<1>2. /\ rows' = Append(rows, Narrow[n]) /\ dbList' = Append(dbList, {})
      /\ left' = left /\ GoOnline(c, i)
  BY DEF LoginNew
<1>3. Narrow[n] \in Spelling /\ Narrow[Narrow[n]] = Narrow[n]
  BY SpellingAssumption
<1>4. /\ Len(rows) \in Nat /\ Len(rows') = Len(rows) + 1 /\ rows' \in Seq(Spelling)
      /\ \A k \in 1..Len(rows) : rows'[k] = rows[k]
      /\ rows'[Len(rows) + 1] = Narrow[n]
  BY <1>1, <1>2, <1>3
<1>5. /\ Len(dbList') = Len(rows') /\ dbList' \in Seq(SUBSET Nat)
      /\ \A k \in 1..Len(rows) : dbList'[k] = dbList[k]
      /\ dbList'[Len(rows) + 1] = {}
  BY <1>1, <1>2, <1>4
<1>6. \A k \in 1..Len(rows) : Same[rows[k]] # Same[Narrow[n]]
  BY DEF LoginNew, Known, RowsOf, Id
<1>7. RowsGood(rows', dbList')
  <2>1. \A k \in 1..Len(rows') : k \in 1..Len(rows) \/ k = Len(rows) + 1
    BY <1>4
  <2>2. \A k \in 1..Len(rows') : Narrow[rows'[k]] = rows'[k]
    BY <1>3, <1>4, <2>1 DEF CacheInv, RowsGood
  <2>3. ASSUME NEW j \in 1..Len(rows'), NEW k \in 1..Len(rows'), Same[rows'[j]] = Same[rows'[k]]
        PROVE  j = k
    BY <1>4, <1>6, <2>1, <2>3 DEF CacheInv, RowsGood
  <2> QED BY <1>4, <1>5, <2>2, <2>3 DEF RowsGood
<1>8. x \in Thing /\ x.id = Len(rows) + 1 /\ x.name = n /\ x.list = {}
  BY <1>4 DEF Object, NewId, Thing
<1> HIDE DEF x
<1>9. /\ c \in Seq(Thing) /\ Len(cache) \in Nat /\ Len(c) = Len(cache) + 1
      /\ \A j \in 1..Len(cache) : c[j] = cache[j]
      /\ c[Len(cache) + 1] = x
  BY <1>1, <1>8
<1> HIDE DEF c
<1>10. CacheGood(rows', dbList', c)
  <2>1. ASSUME NEW j \in 1..Len(c) PROVE ObjectGood(rows', dbList', c, j)
    <3>1. CASE j \in 1..Len(cache)
      <4>1. ObjectGood(rows, dbList, cache, j)
        BY <3>1 DEF CacheInv, CacheGood
      <4>2. \A m \in 1..(j - 1) : c[m] = cache[m]
        BY <1>9, <3>1
      <4>3. cache[j].id \in 1..Len(rows) /\ cache[j].id \in 1..Len(rows')
        BY <1>4, <4>1 DEF ObjectGood
      <4> QED BY <1>4, <1>5, <1>9, <3>1, <4>1, <4>2, <4>3 DEF ObjectGood, IsFirst
    <3>2. CASE j = Len(cache) + 1
      <4>1. c[j] = x /\ x.id \in 1..Len(rows')
        BY <1>4, <1>8, <1>9, <3>2
      <4> QED BY <1>4, <1>5, <1>8, <4>1 DEF ObjectGood
    <3> QED BY <1>9, <3>1, <3>2
  <2> QED BY <1>9, <2>1 DEF CacheGood
<1>11. OnlineGood(c, online) /\ LeftGood(c, online, left)
  <2>1. Extends(cache, c)
    BY <1>9 DEF Extends
  <2> QED BY <1>9, <2>1, ExtendsKeepsOnline DEF CacheInv
<1>12. i \in 1..Len(c)
  BY <1>9
<1>13. /\ CacheGood(rows', dbList', cache') /\ OnlineGood(cache', online')
       /\ LeftGood(cache', online', left \ {c[i].id})
  BY <1>2, <1>10, <1>11, <1>12, GoOnlineKeeps
<1>14. left' = left /\ left \ {c[i].id} = left /\ left' \subseteq 1..Len(rows')
  <2>1. left \subseteq 1..Len(rows) /\ c[i].id = Len(rows) + 1
    BY <1>8, <1>9 DEF CacheInv
  <2> QED BY <1>2, <1>4, <2>1
<1> QED BY <1>7, <1>13, <1>14 DEF CacheInv

\* GetAnyAvatar only looks an avatar up.
LEMMA GetAnyAvatarKeeps ==
    ASSUME CacheInv, NEW n \in Spelling, GetAnyAvatar(n)
    PROVE  CacheInv'
<1>1. /\ CacheGood(rows, dbList, AfterName(cache, n))
      /\ Extends(cache, AfterName(cache, n))
  BY AfterNameGood DEF CacheInv, GetAnyAvatar, Known
<1>2. OnlineGood(AfterName(cache, n), online) /\ LeftGood(AfterName(cache, n), online, left)
  BY <1>1, ExtendsKeepsOnline DEF CacheInv, CacheGood
<1>3. cache' = AfterName(cache, n) /\ UNCHANGED <<rows, dbList, online, left>>
  BY DEF GetAnyAvatar
<1> QED BY <1>1, <1>2, <1>3 DEF CacheInv

\* UpdateAvatar writes the name the row has.
LEMMA SameNameWritten ==
    ASSUME CacheInv, NEW id \in Id, SetAvatarAttributes(id)
    PROVE  rows' = rows
<1> DEFINE c == AfterId(cache, id)
<1>1. id \in 1..Len(rows)
  BY DEF Id
<1>2. CacheGood(rows, dbList, c) /\ WithIdIn(c, id) # {}
  BY <1>1, AfterIdGood DEF CacheInv
<1>3. rows' = [rows EXCEPT ![id] = Narrow[c[ById(c, id)].name]]
  BY DEF SetAvatarAttributes
<1> HIDE DEF c
<1>4. ById(c, id) \in 1..Len(c) /\ c[ById(c, id)].id = id
  BY <1>2, ByIdIsFirst DEF CacheGood
<1>5. rows[id] = Narrow[c[ById(c, id)].name]
  BY <1>2, <1>4 DEF CacheGood, ObjectGood
<1>6. rows \in Seq(Spelling)
  BY DEF CacheInv, RowsGood
<1> QED BY <1>1, <1>3, <1>5, <1>6

\* SetAvatarAttributes loads, and writes a row as it is.
LEMMA SetAvatarAttributesKeeps ==
    ASSUME CacheInv, NEW id \in Id, SetAvatarAttributes(id)
    PROVE  CacheInv'
<1>1. CacheGood(rows, dbList, AfterId(cache, id)) /\ Extends(cache, AfterId(cache, id))
  BY AfterIdGood DEF CacheInv, Id
<1>2. OnlineGood(AfterId(cache, id), online) /\ LeftGood(AfterId(cache, id), online, left)
  BY <1>1, ExtendsKeepsOnline DEF CacheInv, CacheGood
<1>3. cache' = AfterId(cache, id) /\ UNCHANGED <<rows, dbList, online, left>>
  BY SameNameWritten DEF SetAvatarAttributes
<1> QED BY <1>1, <1>2, <1>3 DEF CacheInv

\* LogoutAvatar.
LEMMA LogoutKeeps ==
    ASSUME CacheInv, NEW id \in Id, Logout(id)
    PROVE  CacheInv'
<1> DEFINE c == AfterId(cache, id)
           i == ById(c, id)
<1>1. CacheGood(rows, dbList, c) /\ Extends(cache, c) /\ WithIdIn(c, id) # {}
  BY AfterIdGood DEF CacheInv, Id
<1>2. OnlineGood(c, online) /\ LeftGood(c, online, left)
  BY <1>1, ExtendsKeepsOnline DEF CacheInv, CacheGood
<1>3. /\ cache' = Flagged(c, i, FALSE)
      /\ online' = IF c[i].flag THEN Without(c, i) ELSE online
      /\ left' = left \cup {id} /\ UNCHANGED <<rows, dbList>>
  BY DEF Logout, Flagged
<1>4. i \in 1..Len(c) /\ c[i].id = id /\ c \in Seq(Thing)
  BY <1>1, ByIdIsFirst DEF CacheGood
<1> HIDE DEF c, i
<1>5. /\ cache' \in Seq(Thing) /\ Len(cache') = Len(c)
      /\ \A j \in 1..Len(c) :
            /\ cache'[j].id = c[j].id /\ cache'[j].name = c[j].name /\ cache'[j].list = c[j].list
            /\ j # i => cache'[j] = c[j]
  <2>1. FALSE \in BOOLEAN
    OBVIOUS
  <2>2. ChangedAt(c, i, Flagged(c, i, FALSE))
    BY <1>4, <2>1, FlagChange
  <2>3. Flagged(c, i, FALSE)[i].list = c[i].list
    BY <1>4, <2>1, FlagChange
  <2> QED BY <1>3, <2>2, <2>3 DEF ChangedAt
<1>6. CacheGood(rows, dbList, cache')
  <2>1. \A j \in 1..Len(c) : IsFirst(c, j) => cache'[j].list = dbList[c[j].id]
    BY <1>1, <1>5 DEF CacheGood, ObjectGood
  <2> QED BY <1>1, <1>5, <2>1, ChangeGood
<1>7. /\ online' \in Seq(Nat)
      /\ \A k \in 1..Len(online') :
            /\ online'[k] # i
            /\ c[i].flag => c[online'[k]].id # id
            /\ \E m \in 1..Len(online) : online'[k] = online[m]
  <2>1. online \in Seq(Nat)
    BY <1>2 DEF OnlineGood
  <2>2. CASE c[i].flag
    <3> DEFINE w == Without(c, i)
    <3>1. /\ w \in Seq(Nat)
          /\ \A k \in 1..Len(w) :
                c[w[k]].id # c[i].id /\ \E m \in 1..Len(online) : w[k] = online[m]
      BY <2>1, WithoutMembers
    <3> HIDE DEF w
    <3>2. online' = w
      BY <1>3, <2>2 DEF w
    <3> QED BY <1>4, <3>1, <3>2
  <2>3. CASE ~c[i].flag
    BY <1>2, <1>3, <2>1, <2>3 DEF OnlineGood
  <2> QED BY <2>2, <2>3
<1>8. ASSUME NEW k \in 1..Len(online')
      PROVE  /\ online'[k] \in 1..Len(cache') /\ cache'[online'[k]].flag
             /\ cache'[online'[k]].id \in left' =>
                  \E j \in 1..Len(cache') : j # online'[k] /\ cache'[j].id = cache'[online'[k]].id
  <2>1. PICK m \in 1..Len(online) : online'[k] = online[m]
    BY <1>7
  <2>2. online[m] \in 1..Len(c) /\ c[online[m]].flag
    BY <1>2 DEF OnlineGood
  <2>3. cache'[online'[k]] = c[online[m]]
    BY <1>5, <1>7, <2>1, <2>2
  <2>4. CASE c[online[m]].id = id
    <3>1. i # online'[k] /\ cache'[i].id = id /\ i \in 1..Len(cache')
      BY <1>4, <1>5, <1>7
    <3> QED BY <1>5, <2>1, <2>2, <2>3, <2>4, <3>1
  <2>5. CASE c[online[m]].id # id
    <3>1. c[online[m]].id \in left =>
            \E j \in 1..Len(c) : j # online[m] /\ c[j].id = c[online[m]].id
      BY <1>2 DEF LeftGood
    <3>2. ASSUME cache'[online'[k]].id \in left'
          PROVE  \E j \in 1..Len(cache') : j # online'[k] /\ cache'[j].id = cache'[online'[k]].id
      <4>1. c[online[m]].id \in left
        BY <1>3, <2>3, <2>5, <3>2
      <4>2. PICK j \in 1..Len(c) : j # online[m] /\ c[j].id = c[online[m]].id
        BY <3>1, <4>1
      <4>3. j \in 1..Len(cache') /\ cache'[j].id = c[j].id
        BY <1>5
      <4> QED BY <2>1, <2>3, <4>2, <4>3
    <3> QED BY <1>5, <2>1, <2>2, <2>3, <3>2
  <2> QED BY <2>4, <2>5
<1>9. OnlineGood(cache', online') /\ LeftGood(cache', online', left')
  BY <1>7, <1>8 DEF OnlineGood, LeftGood
<1> QED BY <1>3, <1>6, <1>9 DEF CacheInv, Id

\* The cache after both lookups of a contact handler.
AfterBoth(id, n) == AfterName(AfterId(cache, id), n)

\* Both lookups leave a good cache with an object for the source, and the
\* destination's id is a number.
LEMMA BothLookups ==
    ASSUME CacheInv, NEW id \in Id, NEW n \in Spelling, Known(n)
    PROVE  /\ CacheGood(rows, dbList, AfterBoth(id, n))
           /\ OnlineGood(AfterBoth(id, n), online)
           /\ LeftGood(AfterBoth(id, n), online, left)
           /\ WithIdIn(AfterBoth(id, n), id) # {}
           /\ AfterBoth(id, n)[ByName(AfterId(cache, id), n)].id \in Nat
<1> DEFINE a == AfterId(cache, id)
           c == AfterBoth(id, n)
<1>1. CacheGood(rows, dbList, a) /\ Extends(cache, a) /\ WithIdIn(a, id) # {}
  BY AfterIdGood DEF CacheInv, Id
<1>2. OnlineGood(a, online) /\ LeftGood(a, online, left)
  BY <1>1, ExtendsKeepsOnline DEF CacheInv, CacheGood
<1>3. cache \in Seq(Thing)
  BY DEF CacheInv, CacheGood
<1> HIDE DEF a
<1>4. NamedIn(a, n) # {} \/ RowsOf(n) # {}
  <2>1. ASSUME NEW j \in NamedIn(cache, n) PROVE j \in NamedIn(a, n)
    BY <1>1, <1>3 DEF NamedIn, Extends, CacheGood
  <2> QED BY <2>1 DEF Known
<1>5. /\ CacheGood(rows, dbList, c) /\ Extends(a, c)
      /\ ByName(a, n) \in 1..Len(c)
  BY <1>1, <1>4, AfterNameGood DEF CacheInv, AfterBoth, a
<1> HIDE DEF c
<1>6. OnlineGood(c, online) /\ LeftGood(c, online, left)
  BY <1>1, <1>2, <1>5, ExtendsKeepsOnline DEF CacheGood
<1>7. WithIdIn(c, id) # {}
  BY <1>1, <1>5 DEF WithIdIn, Extends, CacheGood
<1>8. c[ByName(a, n)].id \in Nat
  <2>1. \A j \in 1..Len(c) : c[j].id \in Nat
    BY <1>5 DEF CacheGood, ObjectGood
  <2> QED BY <1>5, <2>1
<1> QED BY <1>5, <1>6, <1>7, <1>8 DEF a, c

\* A contact handler gives the first object of an avatar and the table the
\* same list.
LEMMA ListKept ==
    ASSUME CacheInv, NEW id \in Id, NEW n \in Spelling, Known(n), NEW l \in SUBSET Nat,
           cache' = Listing(AfterBoth(id, n), ById(AfterBoth(id, n), id), l),
           dbList' \in Seq(SUBSET Nat), Len(dbList') = Len(dbList), dbList'[id] = l,
           \A k \in 1..Len(dbList) : k # id => dbList'[k] = dbList[k],
           UNCHANGED <<rows, online, left>>
    PROVE  CacheInv'
<1> DEFINE c == AfterBoth(id, n)
           i == ById(c, id)
<1>1. CacheGood(rows, dbList, c) /\ OnlineGood(c, online) /\ LeftGood(c, online, left)
  BY BothLookups
<1>2. c \in Seq(Thing) /\ i \in 1..Len(c) /\ c[i].id = id /\ IsFirst(c, i)
  BY <1>1, BothLookups, ByIdIsFirst DEF CacheGood
<1>3. cache' = Listing(c, i, l)
  OBVIOUS
<1>4. RowsGood(rows', dbList') /\ Len(dbList) = Len(rows)
  BY DEF CacheInv, RowsGood
<1> HIDE DEF c, i
<1>5. ChangedAt(c, i, cache') /\ cache'[i].list = l /\ cache'[i].flag = c[i].flag
  BY <1>2, <1>3, ListChange
<1>6. \A j \in 1..Len(c) : IsFirst(c, j) => cache'[j].list = dbList'[c[j].id]
  <2> SUFFICES ASSUME NEW j \in 1..Len(c), IsFirst(c, j), j # i
               PROVE  cache'[j].list = dbList'[c[j].id]
    BY <1>2, <1>5
  <2>1. c[j].id # c[i].id
    BY <1>2 DEF IsFirst
  <2>2. c[j].id \in 1..Len(dbList) /\ c[j].list = dbList[c[j].id] /\ cache'[j] = c[j]
    BY <1>1, <1>4, <1>5 DEF CacheGood, ObjectGood, ChangedAt
  <2> QED BY <1>2, <2>1, <2>2
<1>7. CacheGood(rows, dbList', cache')
  <2>1. \A j \in 1..Len(c) : cache'[j].id = c[j].id /\ cache'[j].name = c[j].name
    BY <1>5 DEF ChangedAt
  <2> QED BY <1>1, <1>5, <1>6, <2>1, ChangeGood DEF ChangedAt
<1>8. \A j \in 1..Len(c) : cache'[j].id = c[j].id /\ (c[j].flag => cache'[j].flag)
  BY <1>5 DEF ChangedAt
<1>9. OnlineGood(cache', online) /\ LeftGood(cache', online, left)
  <2>1. Len(cache') = Len(c)
    BY <1>5 DEF ChangedAt
  <2>2. OnlineGood(cache', online)
    BY <1>1, <1>8, <2>1 DEF OnlineGood
  <2>3. \A k \in 1..Len(online) : online[k] \in 1..Len(c)
    BY <1>1 DEF OnlineGood
  <2>4. LeftGood(cache', online, left)
    BY <1>1, <1>8, <2>1, <2>3 DEF LeftGood
  <2> QED BY <2>2, <2>4
<1> QED BY <1>4, <1>7, <1>9 DEF CacheInv

\* The list of the first object is the stored one.
LEMMA ListOfFirst ==
    ASSUME CacheInv, NEW id \in Id, NEW n \in Spelling, Known(n)
    PROVE  /\ AfterBoth(id, n)[ById(AfterBoth(id, n), id)].list = dbList[id]
           /\ dbList \in Seq(SUBSET Nat) /\ id \in 1..Len(dbList) /\ dbList[id] \in SUBSET Nat
<1> DEFINE c == AfterBoth(id, n)
<1>1. CacheGood(rows, dbList, c) /\ WithIdIn(c, id) # {}
  BY BothLookups
<1> HIDE DEF c
<1>2. ById(c, id) \in 1..Len(c) /\ c[ById(c, id)].id = id /\ IsFirst(c, ById(c, id))
  BY <1>1, ByIdIsFirst DEF CacheGood
<1>3. c[ById(c, id)].list = dbList[id]
  BY <1>1, <1>2 DEF CacheGood, ObjectGood
<1> QED BY <1>3 DEF CacheInv, RowsGood, Id, c

\* AddFriend.
LEMMA AddFriendKeeps ==
    ASSUME CacheInv, NEW id \in Id, NEW n \in Spelling, AddFriend(id, n)
    PROVE  CacheInv'
<1> DEFINE c == AfterBoth(id, n)
           i == ById(c, id)
           friend == c[ByName(AfterId(cache, id), n)].id
           l == dbList[id] \cup {friend}
<1>1. Known(n) /\ UNCHANGED <<rows, online, left>>
  BY DEF AddFriend
<1>2. c[i].list = dbList[id] /\ dbList \in Seq(SUBSET Nat) /\ id \in 1..Len(dbList)
  BY <1>1, ListOfFirst
<1>3. l \in SUBSET Nat
  BY <1>1, ListOfFirst, BothLookups
<1>4. /\ cache' = [c EXCEPT ![i].list = @ \cup {friend}]
      /\ dbList' = IF friend \in c[i].list THEN dbList ELSE [dbList EXCEPT ![id] = l]
  BY DEF AddFriend, AfterBoth
<1>5. cache' = Listing(c, i, c[i].list \cup {friend})
  BY <1>4 DEF Listing
<1>6. /\ dbList' \in Seq(SUBSET Nat) /\ Len(dbList') = Len(dbList) /\ dbList'[id] = l
      /\ \A k \in 1..Len(dbList) : k # id => dbList'[k] = dbList[k]
  <2> HIDE DEF c, i, friend
  <2> QED BY <1>2, <1>3, <1>4
<1> QED BY <1>1, <1>2, <1>3, <1>5, <1>6, ListKept

\* RemoveFriend.
LEMMA RemoveFriendKeeps ==
    ASSUME CacheInv, NEW id \in Id, NEW n \in Spelling, RemoveFriend(id, n)
    PROVE  CacheInv'
<1> DEFINE c == AfterBoth(id, n)
           i == ById(c, id)
           friend == c[ByName(AfterId(cache, id), n)].id
           l == dbList[id] \ {friend}
<1>1. Known(n) /\ UNCHANGED <<rows, online, left>>
  BY DEF RemoveFriend
<1>2. c[i].list = dbList[id] /\ dbList \in Seq(SUBSET Nat) /\ id \in 1..Len(dbList)
  BY <1>1, ListOfFirst
<1>3. l \in SUBSET Nat
  BY <1>1, ListOfFirst
<1>4. /\ cache' = [c EXCEPT ![i].list = @ \ {friend}]
      /\ dbList' = IF friend \in c[i].list THEN [dbList EXCEPT ![id] = l] ELSE dbList
  BY DEF RemoveFriend, AfterBoth
<1>5. cache' = Listing(c, i, c[i].list \ {friend})
  BY <1>4 DEF Listing
<1>6. /\ dbList' \in Seq(SUBSET Nat) /\ Len(dbList') = Len(dbList) /\ dbList'[id] = l
      /\ \A k \in 1..Len(dbList) : k # id => dbList'[k] = dbList[k]
  <2> HIDE DEF c, i, friend
  <2> QED BY <1>2, <1>3, <1>4
<1> QED BY <1>1, <1>2, <1>3, <1>5, <1>6, ListKept

\* The process ends: the table stays.
LEMMA CrashKeeps ==
    ASSUME CacheInv, Crash
    PROVE  CacheInv'
<1>1. cache' = <<>> /\ online' = <<>> /\ left' = {} /\ UNCHANGED <<rows, dbList>>
  BY DEF Crash
<1>2. CacheGood(rows, dbList, <<>>)
  BY DEF CacheGood
<1>3. OnlineGood(<<>>, <<>>) /\ LeftGood(<<>>, <<>>, {})
  BY DEF OnlineGood, LeftGood
<1> QED BY <1>1, <1>2, <1>3 DEF CacheInv

\* Every step keeps the invariant.
LEMMA StepKeepsCache == CacheInv /\ [Next]_vars => CacheInv'
<1> SUFFICES ASSUME CacheInv, [Next]_vars PROVE CacheInv'
  OBVIOUS
<1>1. CASE \E n \in Spelling : LoginKnown(n) \/ LoginNew(n) \/ GetAnyAvatar(n)
  BY <1>1, LoginKnownKeeps, LoginNewKeeps, GetAnyAvatarKeeps
<1>2. CASE \E id \in Id : Logout(id) \/ SetAvatarAttributes(id)
  BY <1>2, LogoutKeeps, SetAvatarAttributesKeeps
<1>3. CASE \E id \in Id, n \in Spelling : AddFriend(id, n) \/ RemoveFriend(id, n)
  BY <1>3, AddFriendKeeps, RemoveFriendKeeps
<1>4. CASE Crash
  BY <1>4, CrashKeeps
<1>5. CASE UNCHANGED vars
  BY <1>5 DEF vars, CacheInv
<1> QED BY <1>1, <1>2, <1>3, <1>4, <1>5 DEF Next

\* The inductive invariant of the cache.
THEOREM CacheInvariant == Spec => []CacheInv
<1>1. Init => CacheInv
  BY DEF Init, CacheInv, RowsGood, CacheGood, OnlineGood, LeftGood
<1> QED BY <1>1, StepKeepsCache, PTL DEF Spec

(***************************************************************************)
(* The properties                                                          *)
(***************************************************************************)

\* What the cache answers for a name, the table would answer, for any
\* spellings and any collation (GetCachedAvatar by name).
THEOREM CacheAlwaysTransparent == Spec => []CacheTransparent
<1>1. CacheInv => CacheTransparent
  <2> SUFFICES ASSUME CacheInv, NEW n \in Spelling, NamedIn(cache, n) # {}
               PROVE  RowsOf(n) = {cache[FirstOf(NamedIn(cache, n))].id}
    BY DEF CacheTransparent
  <2> DEFINE i == FirstOf(NamedIn(cache, n))
             id == cache[i].id
  <2>1. NamedIn(cache, n) \in SUBSET Nat
    BY DEF NamedIn, CacheInv, CacheGood
  <2>2. i \in 1..Len(cache) /\ cache[i].name = n
    BY <2>1, FirstIsFirst DEF NamedIn, CacheInv, CacheGood
  <2>3. id \in 1..Len(rows) /\ rows[id] = Narrow[n]
    BY <2>2 DEF CacheInv, CacheGood, ObjectGood
  <2> HIDE DEF i, id
  <2>4. \A k \in 1..Len(rows) : Same[rows[k]] = Same[Narrow[n]] <=> k = id
    BY <2>3 DEF CacheInv, RowsGood
  <2>5. RowsOf(n) = {id}
    BY <2>3, <2>4 DEF RowsOf, Id
  <2> QED BY <2>5 DEF i, id
<1> QED BY <1>1, CacheInvariant, PTL

\* The object of an avatar that lookups find has the stored list.
THEOREM FirstObjectAlwaysAgrees == Spec => []FirstObjectAgrees
<1>1. CacheInv => FirstObjectAgrees
  BY DEF CacheInv, CacheGood, ObjectGood, IsFirst, FirstObjectAgrees, Place
<1> QED BY <1>1, CacheInvariant, PTL

\* Who logged out is off the list, but for avatars with two objects
\* (LogoutAvatar).
THEOREM LoggedOutAlwaysLeft == Spec => []LoggedOutLeft
<1>1. CacheInv => LoggedOutLeft
  <2> SUFFICES ASSUME CacheInv, NEW i \in ToSet(online), cache[i].id \in left
               PROVE  \E j \in Place : j # i /\ cache[j].id = cache[i].id
    BY DEF LoggedOutLeft
  <2>1. PICK k \in 1..Len(online) : online[k] = i
    BY DEF ToSet, CacheInv, OnlineGood
  <2> QED BY <2>1 DEF CacheInv, LeftGood, Place
<1> QED BY <1>1, CacheInvariant, PTL

\* No row is ever renamed, by whatever name its object was asked for
\* (UpdateAvatar).
THEOREM NamesAlwaysKept == Spec => NamesKept
<1>1. ASSUME CacheInv, [Next]_vars
      PROVE  [\A id \in Id : rows'[id] = rows[id]]_vars
  <2>1. CASE \E n \in Spelling : LoginNew(n)
    <3>1. PICK n \in Spelling : LoginNew(n)
      BY <2>1
    <3>2. rows' = Append(rows, Narrow[n]) /\ rows \in Seq(Spelling) /\ Narrow[n] \in Spelling
      BY <1>1, <3>1, SpellingAssumption DEF LoginNew, CacheInv, RowsGood
    <3> QED BY <3>2 DEF Id
  <2>2. CASE \E n \in Spelling : LoginKnown(n) \/ GetAnyAvatar(n)
    BY <2>2 DEF LoginKnown, GetAnyAvatar
  <2>3. CASE \E id \in Id : SetAvatarAttributes(id)
    BY <1>1, <2>3, SameNameWritten
  <2>4. CASE \E id \in Id : Logout(id)
    BY <2>4 DEF Logout
  <2>5. CASE \E id \in Id, n \in Spelling : AddFriend(id, n) \/ RemoveFriend(id, n)
    BY <2>5 DEF AddFriend, RemoveFriend
  <2>6. CASE Crash
    BY <2>6 DEF Crash
  <2> QED BY <1>1, <2>1, <2>2, <2>3, <2>4, <2>5, <2>6 DEF Next
<1> QED BY <1>1, CacheInvariant, PTL DEF Spec, NamesKept
=============================================================================
