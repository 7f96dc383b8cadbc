-------------------------- MODULE StatementTextProofs --------------------------
(***************************************************************************)
(* That the server reads the statement the service meant, for every text,  *)
(* every alphabet, every value and every order of binding.                 *)
(*                                                                         *)
(* The argument has two halves.  While the text is normalized, what has    *)
(* been copied stands, item by item, for what has been read: a question    *)
(* mark for the name its number belongs to, any other character for        *)
(* itself; while values are bound, every number has the value of its name. *)
(* And when the text is sent, the server stands between two literals after *)
(* each item, with the items read so far, whatever the literals contain.   *)
(***************************************************************************)
EXTENDS StatementText, FiniteSetTheorems, SequenceTheorems, WellFoundedInduction, TLAPS

(***************************************************************************)
(* Sequences put together                                                  *)
(***************************************************************************)

\* Some first number has what some number has.
LEMMA LeastMember ==
    ASSUME NEW S \in SUBSET Nat, S # {}
    PROVE  \E n \in S : \A j \in S : n <= j
<1> DEFINE T == {1..k : k \in S}
           R == StrictSubsetOrdering(Nat)
<1>1. T \subseteq FiniteSubsetsOf(Nat) /\ T # {}
  <2>1. \A k \in Nat : IsFiniteSet(1..k) /\ 1..k \subseteq Nat
    BY FS_Interval
  <2> QED BY <2>1 DEF FiniteSubsetsOf
<1>2. PICK x \in T : \A y \in T : <<y, x>> \notin R
  BY <1>1, FS_StrictSubsetOrderingWellFounded, WFMin
<1>3. PICK k \in S : x = 1..k
  BY <1>2
<1>4. ASSUME NEW j \in S, j < k PROVE FALSE
  <2>1. j \in Nat /\ k \in Nat /\ k \in 1..k /\ k \notin 1..j
    BY <1>4
  <2>2. 1..j \subseteq 1..k
    BY <1>4, <2>1
  <2>3. 1..j \in SUBSET Nat /\ 1..k \in SUBSET Nat /\ 1..j # 1..k
    BY <2>1
  <2> DEFINE y == 1..j
             z == 1..k
  <2> HIDE DEF y, z
  <2>4. y \in SUBSET Nat /\ z \in SUBSET Nat /\ y \subseteq z /\ y # z
    BY <2>2, <2>3 DEF y, z
  <2>5. <<y, z>> \in R
    BY <2>4 DEF StrictSubsetOrdering
  <2>6. y \in T /\ x = z
    BY <1>3 DEF y, z
  <2> QED BY <1>2, <2>5, <2>6
<1>5. \A j \in S : k <= j
  BY <1>4
<1> QED BY <1>5

\* Induction, for a set of numbers.
LEMMA SetInduction ==
    ASSUME NEW S \in SUBSET Nat, 0 \in S, \A n \in S : n + 1 \in S
    PROVE  S = Nat
<1> SUFFICES ASSUME Nat \ S # {} PROVE FALSE
  OBVIOUS
<1>1. PICK n \in Nat \ S : \A j \in Nat \ S : n <= j
  BY LeastMember
<1>2. n # 0 /\ n - 1 \in Nat
  BY <1>1
<1>3. n - 1 \in S
  BY <1>1, <1>2
<1> QED BY <1>1, <1>2, <1>3

\* The first n of the sequences p, one after the other.
Joined(p) ==
    LET joined[n \in 0..Len(p)] == IF n = 0 THEN <<>> ELSE joined[n - 1] \o p[n]
    IN joined

JoinedNext(p, g, n) == IF n = 0 THEN <<>> ELSE g[n - 1] \o p[n]

\* The recursion of Joined defines a function.
LEMMA JoinedExists ==
    ASSUME NEW p
    PROVE  \A n \in Nat : \E g : g = [k \in 0..n |-> JoinedNext(p, g, k)]
<1> DEFINE P(n) == \E g : g = [k \in 0..n |-> JoinedNext(p, g, k)]
           S == {n \in Nat : P(n)}
<1>1. 0 \in S
  <2> DEFINE g == [k \in 0..0 |-> <<>>]
  <2>1. g = [k \in 0..0 |-> JoinedNext(p, g, k)]
    BY DEF JoinedNext
  <2> QED BY <2>1
<1>2. ASSUME NEW n \in S PROVE n + 1 \in S
  <2>1. PICK g : g = [k \in 0..n |-> JoinedNext(p, g, k)]
    BY <1>2
  <2> DEFINE h == [k \in 0..(n + 1) |-> IF k \in 0..n THEN g[k] ELSE JoinedNext(p, g, n + 1)]
  <2>2. ASSUME NEW k \in 0..(n + 1) PROVE h[k] = JoinedNext(p, h, k)
    <3>1. CASE k \in 0..n
      <4>1. h[k] = JoinedNext(p, g, k)
        BY <2>1, <3>1
      <4>2. k = 0 \/ h[k - 1] = g[k - 1]
        BY <3>1
      <4> QED BY <4>1, <4>2 DEF JoinedNext
    <3>2. CASE k \notin 0..n
      <4>1. k = n + 1 /\ h[k] = JoinedNext(p, g, k)
        BY <2>2, <3>2
      <4>2. h[k - 1] = g[k - 1]
        BY <4>1
      <4> QED BY <4>1, <4>2 DEF JoinedNext
    <3> QED BY <3>1, <3>2
  <2>3. h = [k \in 0..(n + 1) |-> JoinedNext(p, h, k)]
    BY <2>2
  <2>4. P(n + 1)
    <3> HIDE DEF h
    <3> QED BY <2>3
  <2> QED BY <2>4
<1> HIDE DEF P
<1>3. S = Nat
  BY <1>1, <1>2, SetInduction
<1> QED BY <1>3 DEF P

\* One after the other.
LEMMA JoinedSteps ==
    ASSUME NEW p, Len(p) \in Nat
    PROVE  /\ Joined(p)[0] = <<>>
           /\ \A n \in Nat : n + 1 <= Len(p) => Joined(p)[n + 1] = Joined(p)[n] \o p[n + 1]
<1> DEFINE g == CHOOSE g : g = [k \in 0..Len(p) |-> JoinedNext(p, g, k)]
<1>1. g = [k \in 0..Len(p) |-> JoinedNext(p, g, k)]
  BY JoinedExists
<1>2. Joined(p) = g
  BY DEF Joined, JoinedNext
<1> HIDE DEF g
<1>3. \A n \in 0..Len(p) : g[n] = JoinedNext(p, g, n)
  BY <1>1
<1>4. g[0] = <<>>
  BY <1>3 DEF JoinedNext
<1>5. ASSUME NEW n \in Nat, n + 1 <= Len(p) PROVE g[n + 1] = g[n] \o p[n + 1]
  <2> DEFINE k == n + 1
  <2>1. k \in 0..Len(p) /\ k # 0 /\ k - 1 = n
    BY <1>5
  <2> HIDE DEF k
  <2>2. g[k] = g[k - 1] \o p[k]
    BY <1>3, <2>1, Zenon DEF JoinedNext
  <2>3. g[k] = g[n] \o p[k]
    BY <2>1, <2>2, Zenon
  <2> QED BY <2>3 DEF k
<1> QED BY <1>2, <1>4, <1>5

\* Sequences make a sequence.
LEMMA JoinedType ==
    ASSUME NEW S, NEW p \in Seq(Seq(S))
    PROVE  \A n \in 0..Len(p) : Joined(p)[n] \in Seq(S)
<1> DEFINE w == Joined(p)
           P(n) == n <= Len(p) => w[n] \in Seq(S)
           T == {n \in Nat : P(n)}
<1>1. Len(p) \in Nat /\ \A n \in 1..Len(p) : p[n] \in Seq(S)
  OBVIOUS
<1>2. w[0] = <<>> /\ \A n \in Nat : n + 1 <= Len(p) => w[n + 1] = w[n] \o p[n + 1]
  BY <1>1, JoinedSteps
<1> HIDE DEF w
<1>3. 0 \in T
  <2>1. <<>> \in Seq(S)
    OBVIOUS
  <2> QED BY <1>2, <2>1, Zenon
<1>4. ASSUME NEW n \in T PROVE n + 1 \in T
  <2> SUFFICES ASSUME n + 1 <= Len(p) PROVE w[n + 1] \in Seq(S)
    OBVIOUS
  <2> DEFINE a == w[n]
             c == p[n + 1]
  <2>1. n \in Nat /\ n + 1 \in 1..Len(p) /\ a \in Seq(S)
    BY <1>1, <1>4
  <2>2. c \in Seq(S) /\ w[n + 1] = a \o c
    BY <1>1, <1>2, <2>1, Zenon
  <2> HIDE DEF a, c
  <2>3. a \o c \in Seq(S)
    BY <2>1, <2>2
  <2> QED BY <2>2, <2>3, Zenon
<1> HIDE DEF P
<1>5. T = Nat
  BY <1>3, <1>4, SetInduction
<1> QED BY <1>1, <1>5 DEF P, w

\* FlattenSeq puts them one after the other.
LEMMA FlattenIsJoined ==
    ASSUME NEW S, NEW p \in Seq(Seq(S))
    PROVE  FlattenSeq(p) = Joined(p)[Len(p)]
<1> DEFINE w == Joined(p)
           N == Len(p)
           G(g, k) == IF k = 1 THEN p[k] ELSE g[k - 1] \o p[k]
           f == CHOOSE f : f = [k \in 1..N |-> G(f, k)]
<1>1. N \in Nat /\ \A n \in 1..N : p[n] \in Seq(S)
  OBVIOUS
<1>2. w[0] = <<>> /\ \A n \in Nat : n + 1 <= N => w[n + 1] = w[n] \o p[n + 1]
  BY <1>1, JoinedSteps
<1>3. FlattenSeq(p) = IF N = 0 THEN p ELSE f[N]
  BY DEF FlattenSeq
<1> HIDE DEF w
<1>4. CASE N = 0
  <2>1. p = <<>>
    BY <1>4
  <2> QED BY <1>2, <1>3, <1>4, <2>1 DEF w
<1>5. CASE N # 0
  <2> HIDE DEF N
  <2> DEFINE h == [k \in 1..N |-> w[k]]
  <2>1. ASSUME NEW k \in 1..N PROVE h[k] = G(h, k)
    <3> DEFINE n == k - 1
    <3>1. n \in Nat /\ n + 1 <= N /\ n + 1 = k
      BY <1>1
    <3> HIDE DEF n
    <3>2. w[k] = w[n] \o p[k]
      BY <1>2, <3>1
    <3>3. CASE k = 1
      <4>1. n = 0 /\ p[k] \in Seq(S)
        BY <1>1, <3>1, <3>3
      <4> DEFINE c == p[k]
      <4>2. w[k] = <<>> \o c /\ c \in Seq(S)
        BY <1>2, <3>2, <4>1
      <4> HIDE DEF c
      <4>3. <<>> \o c = c
        BY <4>2
      <4> QED BY <3>3, <4>2, <4>3 DEF c
    <3>4. CASE k # 1
      <4>1. n \in 1..N /\ k - 1 = n
        BY <1>1, <3>1, <3>4
      <4>2. h[k - 1] = w[n]
        BY <4>1
      <4>3. h[k] = w[k]
        OBVIOUS
      <4> QED BY <3>2, <3>4, <4>2, <4>3, Zenon
    <3> QED BY <3>3, <3>4
  <2>2. h = [k \in 1..N |-> G(h, k)]
    BY <2>1, Zenon
  <2>3. f = [k \in 1..N |-> G(f, k)]
    <3> HIDE DEF h, G
    <3> QED BY <2>2
  <2> HIDE DEF f, h
  <2>4. \A k \in 1..N : f[k] = G(f, k)
    <3> HIDE DEF G
    <3> QED BY <2>3
  <2> DEFINE P(n) == 1 <= n /\ n <= N => f[n] = w[n]
             T == {n \in Nat : P(n)}
  <2>5. 0 \in T
    OBVIOUS
  <2>6. ASSUME NEW n \in T PROVE n + 1 \in T
    <3> SUFFICES ASSUME n + 1 <= N PROVE f[n + 1] = w[n + 1]
      OBVIOUS
    <3> DEFINE k == n + 1
    <3>1. n \in Nat /\ k \in 1..N /\ k - 1 = n /\ (k # 1 => f[n] = w[n]) /\ (k = 1 => n = 0)
      BY <1>1, <2>6
    <3>2. w[k] = w[n] \o p[k]
      BY <1>2, <3>1
    <3> HIDE DEF k
    <3>3. CASE k = 1
      <4> DEFINE c == p[k]
      <4>1. w[k] = <<>> \o c /\ c \in Seq(S)
        BY <1>1, <1>2, <3>1, <3>2, <3>3
      <4> HIDE DEF c
      <4>2. <<>> \o c = c
        BY <4>1
      <4>3. f[k] = c
        BY <2>4, <3>1, <3>3 DEF c
      <4> QED BY <4>1, <4>2, <4>3 DEF k
    <3>4. CASE k # 1
      <4>1. f[k] = f[k - 1] \o p[k]
        BY <2>4, <3>1, <3>4, Zenon
      <4>2. f[k] = w[k]
        BY <3>1, <3>2, <3>4, <4>1, Zenon
      <4> QED BY <4>2 DEF k
    <3> QED BY <3>3, <3>4
  <2> HIDE DEF P
  <2>7. T = Nat
    BY <2>5, <2>6, SetInduction
  <2>8. N \in Nat /\ 1 <= N
    BY <1>1, <1>5
  <2>9. f[N] = w[N]
    BY <2>7, <2>8 DEF P
  <2> QED BY <1>3, <1>5, <2>9 DEF w, N
<1> QED BY <1>4, <1>5

(***************************************************************************)
(* Reading                                                                 *)
(***************************************************************************)

\* How far the server has come after each character of t.
ReadAfter(s, t) ==
    LET after[n \in 0..Len(t)] ==
            IF n = 0 THEN s ELSE ReadCharacter(after[n - 1], t[n])
    IN after

ReadNext(s, t, g, n) == IF n = 0 THEN s ELSE ReadCharacter(g[n - 1], t[n])

\* The recursion of ReadFrom defines a function.
LEMMA ReadExists ==
    ASSUME NEW s, NEW t
    PROVE  \A n \in Nat : \E g : g = [k \in 0..n |-> ReadNext(s, t, g, k)]
<1> DEFINE P(n) == \E g : g = [k \in 0..n |-> ReadNext(s, t, g, k)]
           S == {n \in Nat : P(n)}
<1>1. 0 \in S
  <2> DEFINE g == [k \in 0..0 |-> s]
  <2>1. g = [k \in 0..0 |-> ReadNext(s, t, g, k)]
    BY DEF ReadNext
  <2> QED BY <2>1
<1>2. ASSUME NEW n \in S PROVE n + 1 \in S
  <2>1. PICK g : g = [k \in 0..n |-> ReadNext(s, t, g, k)]
    BY <1>2
  <2> DEFINE h == [k \in 0..(n + 1) |-> IF k \in 0..n THEN g[k] ELSE ReadNext(s, t, g, n + 1)]
  <2>2. ASSUME NEW k \in 0..(n + 1) PROVE h[k] = ReadNext(s, t, h, k)
    <3>1. CASE k \in 0..n
      <4>1. h[k] = ReadNext(s, t, g, k)
        BY <2>1, <3>1
      <4>2. k = 0 \/ h[k - 1] = g[k - 1]
        BY <3>1
      <4> QED BY <4>1, <4>2 DEF ReadNext
    <3>2. CASE k \notin 0..n
      <4>1. k = n + 1 /\ h[k] = ReadNext(s, t, g, k)
        BY <2>2, <3>2
      <4>2. h[k - 1] = g[k - 1]
        BY <4>1
      <4> QED BY <4>1, <4>2 DEF ReadNext
    <3> QED BY <3>1, <3>2
  <2>3. h = [k \in 0..(n + 1) |-> ReadNext(s, t, h, k)]
    BY <2>2
  <2>4. P(n + 1)
    <3> HIDE DEF h
    <3> QED BY <2>3
  <2> QED BY <2>4
<1> HIDE DEF P
<1>3. S = Nat
  BY <1>1, <1>2, SetInduction
<1> QED BY <1>3 DEF P

\* Character after character.
LEMMA ReadSteps ==
    ASSUME NEW s, NEW t, Len(t) \in Nat
    PROVE  /\ ReadAfter(s, t)[0] = s
           /\ \A n \in Nat : n + 1 <= Len(t) =>
                ReadAfter(s, t)[n + 1] = ReadCharacter(ReadAfter(s, t)[n], t[n + 1])
           /\ ReadFrom(s, t) = ReadAfter(s, t)[Len(t)]
<1> DEFINE g == CHOOSE g : g = [k \in 0..Len(t) |-> ReadNext(s, t, g, k)]
<1>1. g = [k \in 0..Len(t) |-> ReadNext(s, t, g, k)]
  BY ReadExists
<1>2. ReadAfter(s, t) = g /\ ReadFrom(s, t) = g[Len(t)]
  BY DEF ReadAfter, ReadNext, ReadFrom
<1> HIDE DEF g
<1>3. \A n \in 0..Len(t) : g[n] = ReadNext(s, t, g, n)
  BY <1>1
<1>4. g[0] = s
  BY <1>3 DEF ReadNext
<1>5. ASSUME NEW n \in Nat, n + 1 <= Len(t) PROVE g[n + 1] = ReadCharacter(g[n], t[n + 1])
  <2> DEFINE k == n + 1
  <2>1. k \in 0..Len(t) /\ k # 0 /\ k - 1 = n
    BY <1>5
  <2> HIDE DEF k
  <2>2. g[k] = ReadCharacter(g[k - 1], t[k])
    BY <1>3, <2>1, Zenon DEF ReadNext
  <2>3. g[k] = ReadCharacter(g[n], t[k])
    BY <2>1, <2>2, Zenon
  <2> QED BY <2>3 DEF k
<1> QED BY <1>2, <1>4, <1>5

\* Nothing, and one character.
LEMMA ReadShort ==
    ASSUME NEW s, NEW c
    PROVE  ReadFrom(s, <<>>) = s /\ ReadFrom(s, <<c>>) = ReadCharacter(s, c)
<1>1. ReadFrom(s, <<>>) = s
  <2>1. Len(<<>>) = 0
    OBVIOUS
  <2> QED BY <2>1, ReadSteps
<1>2. ReadFrom(s, <<c>>) = ReadCharacter(s, c)
  <2> DEFINE t == <<c>>
             w == ReadAfter(s, t)
  <2>1. Len(t) = 1 /\ t[1] = c
    OBVIOUS
  <2> HIDE DEF t
  <2>2. /\ w[0] = s
        /\ \A n \in Nat : n + 1 <= Len(t) => w[n + 1] = ReadCharacter(w[n], t[n + 1])
        /\ ReadFrom(s, t) = w[Len(t)]
    <3>1. Len(t) \in Nat
      BY <2>1
    <3> QED BY <3>1, ReadSteps, Zenon
  <2> HIDE DEF w
  <2>3. 0 \in Nat /\ 0 + 1 = 1 /\ 0 + 1 <= Len(t)
    BY <2>1
  <2>4. w[1] = ReadCharacter(w[0], t[1])
    BY <2>2, <2>3
  <2> QED BY <2>1, <2>2, <2>4 DEF t
<1> QED BY <1>1, <1>2

\* One text and then another.
LEMMA ReadConcat ==
    ASSUME NEW S, NEW t \in Seq(S), NEW u \in Seq(S), NEW s
    PROVE  ReadFrom(s, t \o u) = ReadFrom(ReadFrom(s, t), u)
<1> DEFINE v == t \o u
           a == ReadAfter(s, v)
           b == ReadAfter(s, t)
           r == ReadFrom(s, t)
           c == ReadAfter(r, u)
           M == Len(t)
           N == Len(u)
<1>1. /\ v \in Seq(S) /\ M \in Nat /\ N \in Nat /\ Len(v) = M + N
      /\ \A n \in 1..M : v[n] = t[n]
      /\ \A n \in 1..N : v[M + n] = u[n]
  OBVIOUS
<1> HIDE DEF v, M, N
<1>2. /\ a[0] = s /\ ReadFrom(s, v) = a[M + N]
      /\ \A n \in Nat : n + 1 <= M + N => a[n + 1] = ReadCharacter(a[n], v[n + 1])
  <2>1. Len(v) \in Nat
    BY <1>1
  <2>2. /\ a[0] = s /\ ReadFrom(s, v) = a[Len(v)]
        /\ \A n \in Nat : n + 1 <= Len(v) => a[n + 1] = ReadCharacter(a[n], v[n + 1])
    <3>1. a[0] = s
      BY <2>1, ReadSteps
    <3>2. ReadFrom(s, v) = a[Len(v)]
      BY <2>1, ReadSteps
    <3>3. \A n \in Nat : n + 1 <= Len(v) => a[n + 1] = ReadCharacter(a[n], v[n + 1])
      BY <2>1, ReadSteps
    <3> QED BY <3>1, <3>2, <3>3
  <2> QED BY <1>1, <2>2
<1>3. /\ b[0] = s /\ r = b[M]
      /\ \A n \in Nat : n + 1 <= M => b[n + 1] = ReadCharacter(b[n], t[n + 1])
  BY <1>1, ReadSteps DEF M
<1>4. /\ c[0] = r /\ ReadFrom(r, u) = c[N]
      /\ \A n \in Nat : n + 1 <= N => c[n + 1] = ReadCharacter(c[n], u[n + 1])
  BY <1>1, ReadSteps DEF N
<1> HIDE DEF a, b, c, r
<1>5. a[M] = b[M]
  <2> DEFINE P(n) == n <= M => a[n] = b[n]
             T == {n \in Nat : P(n)}
  <2>1. 0 \in T
    BY <1>2, <1>3
  <2>2. ASSUME NEW n \in T PROVE n + 1 \in T
    <3> SUFFICES ASSUME n + 1 <= M PROVE a[n + 1] = b[n + 1]
      OBVIOUS
    <3>1. n \in Nat /\ n + 1 <= M + N /\ n + 1 \in 1..M /\ a[n] = b[n]
      BY <1>1, <2>2
    <3>2. a[n + 1] = ReadCharacter(a[n], v[n + 1]) /\ v[n + 1] = t[n + 1]
      BY <1>1, <1>2, <3>1
    <3>3. b[n + 1] = ReadCharacter(b[n], t[n + 1])
      BY <1>3, <3>1
    <3> QED BY <3>1, <3>2, <3>3, Zenon
  <2> HIDE DEF P
  <2>3. T = Nat
    BY <2>1, <2>2, SetInduction
  <2>4. M <= M /\ P(M)
    BY <1>1, <2>3
  <2> QED BY <2>4, Zenon DEF P
<1>6. a[M + N] = c[N]
  <2> DEFINE P(n) == n <= N => a[M + n] = c[n]
             T == {n \in Nat : P(n)}
  <2>1. 0 \in T
    <3>1. M + 0 = M
      BY <1>1
    <3> QED BY <1>3, <1>4, <1>5, <3>1
  <2>2. ASSUME NEW n \in T PROVE n + 1 \in T
    <3> SUFFICES ASSUME n + 1 <= N PROVE a[M + (n + 1)] = c[n + 1]
      OBVIOUS
    <3> DEFINE k == M + n
    <3>1. /\ n \in Nat /\ k \in Nat /\ k + 1 <= M + N /\ n + 1 \in 1..N /\ a[k] = c[n]
          /\ M + (n + 1) = k + 1
      BY <1>1, <2>2
    <3> HIDE DEF k
    <3>2. a[k + 1] = ReadCharacter(a[k], v[k + 1])
      BY <1>2, <3>1
    <3>3. v[k + 1] = u[n + 1]
      BY <1>1, <3>1
    <3>4. c[n + 1] = ReadCharacter(c[n], u[n + 1])
      BY <1>4, <3>1
    <3> QED BY <3>1, <3>2, <3>3, <3>4, Zenon
  <2> HIDE DEF P
  <2>3. T = Nat
    BY <2>1, <2>2, SetInduction
  <2>4. N <= N /\ P(N)
    BY <1>1, <2>3
  <2> QED BY <2>4, Zenon DEF P
<1> QED BY <1>2, <1>4, <1>6 DEF v, r

(***************************************************************************)
(* Literals                                                                *)
(***************************************************************************)

\* Whatever may stand in a text that is sent.
Symbol == Character \cup {"'", "\\", "X", "NULL", "?", "@", "-"} \cup {Hex[n] : n \in 1..16}

\* The steps inside a text.
LEMMA InText ==
    ASSUME NEW p, NEW r, NEW c
    PROVE  /\ ReadCharacter(Reading("text", p, r), "'")
                = Reading("between", <<>>, Append(r, [type |-> "text", value |-> p]))
           /\ ReadCharacter(Reading("text", p, r), "\\") = Reading("escape", p, r)
           /\ c \notin {"'", "\\"} =>
                ReadCharacter(Reading("text", p, r), c) = Reading("text", Append(p, c), r)
           /\ ReadCharacter(Reading("escape", p, r), c) = Reading("text", Append(p, c), r)
<1>1. /\ Reading("text", p, r).mode = "text" /\ Reading("text", p, r).part = p
      /\ Reading("text", p, r).read = r
      /\ Reading("escape", p, r).mode = "escape" /\ Reading("escape", p, r).part = p
      /\ Reading("escape", p, r).read = r
  BY DEF Reading
<1> DEFINE s == Reading("text", p, r)
           e == Reading("escape", p, r)
<1>2. ReadCharacter(s, "'")
          = Reading("between", <<>>, Append(s.read, [type |-> "text", value |-> s.part]))
  <2> HIDE DEF s
  <2> QED BY <1>1 DEF ReadCharacter, s
<1>3. ReadCharacter(s, "\\") = Reading("escape", p, r)
  BY <1>1 DEF ReadCharacter
<1>4. c \notin {"'", "\\"} => ReadCharacter(s, c) = Reading("text", Append(p, c), r)
  BY <1>1 DEF ReadCharacter
<1>5. ReadCharacter(e, c) = Reading("text", Append(p, c), r)
  BY <1>1 DEF ReadCharacter
<1> QED BY <1>1, <1>2, <1>3, <1>4, <1>5

\* The steps around the digits of a blob.
LEMMA InBlob ==
    ASSUME NEW p, NEW r, NEW c
    PROVE  /\ ReadCharacter(Reading("prefix", p, r), c) = Reading("blob", <<>>, r)
           /\ ReadCharacter(Reading("blob", p, r), "'")
                = Reading("between", <<>>, Append(r, [type |-> "blob", value |-> p]))
<1>1. \A m : /\ Reading(m, p, r).mode = m /\ Reading(m, p, r).part = p
             /\ Reading(m, p, r).read = r
  BY DEF Reading
<1>2. ReadCharacter(Reading("prefix", p, r), c) = Reading("blob", <<>>, r)
  BY <1>1 DEF ReadCharacter
<1>3. ReadCharacter(Reading("blob", p, r), "'")
                = Reading("between", <<>>, Append(r, [type |-> "blob", value |-> p]))
  BY <1>1 DEF ReadCharacter
<1> QED BY <1>2, <1>3

\* The two ways to read a number, and what the number is then.
Signs == {"int", "negative"}
Signed(m, n) == IF m = "negative" THEN -n ELSE n

\* Between two literals: r has been read, and if an int was read last, it may
\* go on.
Stands(s, r) ==
    \/ s = Reading("between", <<>>, r)
    \/ \E m \in Signs : \E n \in Nat : \E q :
          s = Reading(m, n, q) /\ r = Append(q, [type |-> "int", value |-> Signed(m, n)])

\* No digit stands twice among the digits, and none is a sign.
LEMMA HexDistinct ==
    /\ \A m \in 1..16, n \in 1..16 : Hex[m] = Hex[n] => m = n
    /\ \A n \in 1..16 : Hex[n] \notin {"'", "\\", "X", "NULL", "?", "@", "-"}
<1>1. \A n \in 1..16 : \/ n = 1 \/ n = 2 \/ n = 3 \/ n = 4 \/ n = 5 \/ n = 6 \/ n = 7 \/ n = 8
                       \/ n = 9 \/ n = 10 \/ n = 11 \/ n = 12 \/ n = 13 \/ n = 14 \/ n = 15
                       \/ n = 16
  OBVIOUS
<1>2. /\ Hex[1] = "0" /\ Hex[2] = "1" /\ Hex[3] = "2" /\ Hex[4] = "3" /\ Hex[5] = "4"
      /\ Hex[6] = "5" /\ Hex[7] = "6" /\ Hex[8] = "7" /\ Hex[9] = "8" /\ Hex[10] = "9"
      /\ Hex[11] = "A" /\ Hex[12] = "B" /\ Hex[13] = "C" /\ Hex[14] = "D" /\ Hex[15] = "E"
      /\ Hex[16] = "F"
  BY DEF Hex
<1>3. \A n \in 1..16 : Hex[n] \notin {"'", "\\", "X", "NULL", "?", "@", "-"}
  BY <1>1, <1>2
<1>4. ASSUME NEW m \in 1..16, NEW n \in 1..16, Hex[m] = Hex[n]
      PROVE  m = n
  <2>1. CASE m = 1  BY <1>1, <1>2, <1>4, <2>1
  <2>2. CASE m = 2  BY <1>1, <1>2, <1>4, <2>2
  <2>3. CASE m = 3  BY <1>1, <1>2, <1>4, <2>3
  <2>4. CASE m = 4  BY <1>1, <1>2, <1>4, <2>4
  <2>5. CASE m = 5  BY <1>1, <1>2, <1>4, <2>5
  <2>6. CASE m = 6  BY <1>1, <1>2, <1>4, <2>6
  <2>7. CASE m = 7  BY <1>1, <1>2, <1>4, <2>7
  <2>8. CASE m = 8  BY <1>1, <1>2, <1>4, <2>8
  <2>9. CASE m = 9  BY <1>1, <1>2, <1>4, <2>9
  <2>10. CASE m = 10  BY <1>1, <1>2, <1>4, <2>10
  <2>11. CASE m = 11  BY <1>1, <1>2, <1>4, <2>11
  <2>12. CASE m = 12  BY <1>1, <1>2, <1>4, <2>12
  <2>13. CASE m = 13  BY <1>1, <1>2, <1>4, <2>13
  <2>14. CASE m = 14  BY <1>1, <1>2, <1>4, <2>14
  <2>15. CASE m = 15  BY <1>1, <1>2, <1>4, <2>15
  <2>16. CASE m = 16  BY <1>1, <1>2, <1>4, <2>16
  <2> QED BY <1>1, <2>1, <2>2, <2>3, <2>4, <2>5, <2>6, <2>7, <2>8, <2>9, <2>10, <2>11, <2>12,
             <2>13, <2>14, <2>15, <2>16
<1> QED BY <1>3, <1>4

\* A digit is worth its place.
LEMMA DigitOfHex ==
    ASSUME NEW n \in Nat, n < 16
    PROVE  DigitOf(Hex[n + 1]) = n
<1> DEFINE c == Hex[n + 1]
           m == CHOOSE j \in 1..16 : Hex[j] = c
<1>1. n + 1 \in 1..16
  OBVIOUS
<1>2. m \in 1..16 /\ Hex[m] = c
  BY <1>1
<1>3. m = n + 1
  <2> HIDE DEF m
  <2> QED BY <1>1, <1>2, HexDistinct
<1>4. DigitOf(c) = m - 1
  BY DEF DigitOf
<1> HIDE DEF m
<1> QED BY <1>3, <1>4

\* The digits of a number are the first ten.
LEMMA DigitOfNumber ==
    ASSUME NEW n \in Nat
    PROVE  n < 10 => Hex[n + 1] \in Digit
<1> SUFFICES ASSUME n < 10 PROVE Hex[n + 1] \in Digit
  OBVIOUS
<1>1. n + 1 \in 1..10
  OBVIOUS
<1> QED BY <1>1 DEF Digit

\* No sign is a digit.
LEMMA SignsAreNoDigits == \A c \in {"'", "\\", "X", "NULL", "?", "@", "-"} : c \notin Digit
<1> SUFFICES ASSUME NEW c \in Digit PROVE c \notin {"'", "\\", "X", "NULL", "?", "@", "-"}
  OBVIOUS
<1>1. PICK n \in 1..10 : c = Hex[n]
  BY DEF Digit
<1>2. n \in 1..16
  OBVIOUS
<1> QED BY <1>1, <1>2, HexDistinct

\* What each first character begins.
LEMMA Begins ==
    ASSUME NEW r
    PROVE  /\ Begin(r, "'") = Reading("text", <<>>, r)
           /\ Begin(r, "X") = Reading("prefix", <<>>, r)
           /\ Begin(r, "NULL") = Reading("between", <<>>, Append(r, Null))
           /\ Begin(r, "-") = Reading("minus", <<>>, r)
           /\ \A n \in Nat : n < 10 => Begin(r, Hex[n + 1]) = Reading("int", n, r)
           /\ \A c : c \notin Special =>
                Begin(r, c)
                  = Reading("between", <<>>, Append(r, [type |-> "character", value |-> c]))
<1>1. Begin(r, "'") = Reading("text", <<>>, r)
  <2>1. "'" \notin Digit /\ "'" \in Special
    BY SignsAreNoDigits DEF Special
  <2> QED BY <2>1 DEF Begin
<1>2. Begin(r, "X") = Reading("prefix", <<>>, r)
  <2>1. "X" \notin Digit /\ "X" \in Special
    BY SignsAreNoDigits DEF Special
  <2> QED BY <2>1 DEF Begin
<1>3. Begin(r, "NULL") = Reading("between", <<>>, Append(r, Null))
  <2>1. "NULL" \notin Digit /\ "NULL" \in Special
    BY SignsAreNoDigits DEF Special
  <2> QED BY <2>1 DEF Begin
<1>4. ASSUME NEW n \in Nat, n < 10
      PROVE  Begin(r, Hex[n + 1]) = Reading("int", n, r)
  <2> DEFINE c == Hex[n + 1]
  <2>1. c \in Digit /\ c \in Special
    BY <1>4, DigitOfNumber DEF Special
  <2>2. c # "'" /\ c # "X" /\ c # "NULL" /\ c # "-"
    BY <2>1, SignsAreNoDigits
  <2>3. DigitOf(c) = n
    BY <1>4, DigitOfHex
  <2> HIDE DEF c
  <2>4. Begin(r, c) = Reading("int", n, r)
    BY <2>1, <2>2, <2>3 DEF Begin
  <2> QED BY <2>4 DEF c
<1>5. ASSUME NEW c, c \notin Special
      PROVE  Begin(r, c)
                = Reading("between", <<>>, Append(r, [type |-> "character", value |-> c]))
  <2>1. c # "'" /\ c # "X" /\ c # "NULL" /\ c # "-" /\ c \notin Digit
    BY <1>5 DEF Special
  <2> QED BY <1>5, <2>1 DEF Begin
<1>6. Begin(r, "-") = Reading("minus", <<>>, r)
  <2>1. "-" \notin Digit /\ "-" \in Special
    BY SignsAreNoDigits DEF Special
  <2> QED BY <2>1 DEF Begin
<1> QED BY <1>1, <1>2, <1>3, <1>4, <1>5, <1>6

\* Between two literals every character begins something.
LEMMA BetweenStep ==
    ASSUME NEW r, NEW c
    PROVE  ReadCharacter(Reading("between", <<>>, r), c) = Begin(r, c)
<1>1. Reading("between", <<>>, r).mode = "between" /\ Reading("between", <<>>, r).read = r
  BY DEF Reading
<1> QED BY <1>1 DEF ReadCharacter

\* An int goes on with a digit.
LEMMA IntGoesOn ==
    ASSUME NEW m \in Signs, NEW n, NEW q, NEW c \in Digit
    PROVE  ReadCharacter(Reading(m, n, q), c) = Reading(m, 10 * n + DigitOf(c), q)
<1> DEFINE s == Reading(m, n, q)
<1>1. /\ s.mode = m /\ s.part = n /\ s.read = q
      /\ m = "int" \/ m = "negative"
  BY DEF Reading, Signs
<1> HIDE DEF s
<1>2. ReadCharacter(s, c) = Reading(s.mode, 10 * s.part + DigitOf(c), s.read)
  BY <1>1 DEF ReadCharacter
<1> QED BY <1>1, <1>2, Zenon DEF s

\* Nothing else belongs to it.
LEMMA IntStep ==
    ASSUME NEW m \in Signs, NEW n, NEW q, NEW c
    PROVE  /\ c \notin Digit => ReadCharacter(Reading(m, n, q), c)
                                  = Begin(Append(q, [type |-> "int", value |-> Signed(m, n)]), c)
           /\ Ended(Reading(m, n, q)) = Append(q, [type |-> "int", value |-> Signed(m, n)])
<1> DEFINE s == Reading(m, n, q)
<1>1. /\ s.mode = m /\ s.part = n /\ s.read = q
      /\ m = "int" \/ m = "negative"
  BY DEF Reading, Signs
<1> HIDE DEF s
<1>2. Ended(s) = Append(q, [type |-> "int", value |-> Signed(m, n)])
  <2>1. CASE m = "int"
    <3>1. Ended(s) = Append(s.read, [type |-> "int", value |-> s.part])
      BY <1>1, <2>1 DEF Ended
    <3>2. Signed(m, n) = n
      BY <2>1 DEF Signed
    <3> QED BY <1>1, <3>1, <3>2, Zenon
  <2>2. CASE m = "negative"
    <3>1. Ended(s) = Append(s.read, [type |-> "int", value |-> -s.part])
      BY <1>1, <2>2 DEF Ended
    <3>2. Signed(m, n) = -n
      BY <2>2 DEF Signed
    <3> QED BY <1>1, <3>1, <3>2, Zenon
  <2> QED BY <1>1, <2>1, <2>2
<1>3. ASSUME c \notin Digit
      PROVE  ReadCharacter(s, c) = Begin(Ended(s), c)
  BY <1>1, <1>3 DEF ReadCharacter
<1> QED BY <1>2, <1>3, Zenon DEF s

\* A digit after a minus sign begins a negative number.
LEMMA MinusStep ==
    ASSUME NEW r, NEW c \in Digit
    PROVE  ReadCharacter(Reading("minus", <<>>, r), c) = Reading("negative", DigitOf(c), r)
<1>1. Reading("minus", <<>>, r).mode = "minus" /\ Reading("minus", <<>>, r).read = r
  BY DEF Reading
<1> QED BY <1>1 DEF ReadCharacter

\* After an int, too, everything but a digit begins something.
LEMMA StandsStep ==
    ASSUME NEW s, NEW r, NEW c, Stands(s, r), c \notin Digit
    PROVE  ReadCharacter(s, c) = Begin(r, c)
<1>1. CASE s = Reading("between", <<>>, r)
  BY <1>1, BetweenStep
<1>2. ASSUME NEW m \in Signs, NEW n \in Nat, NEW q,
             s = Reading(m, n, q), r = Append(q, [type |-> "int", value |-> Signed(m, n)])
      PROVE  ReadCharacter(s, c) = Begin(r, c)
  BY <1>2, IntStep
<1> QED BY <1>1, <1>2 DEF Stands

\* At the end nothing is lost.
LEMMA StandsEnded ==
    ASSUME NEW s, NEW r, Stands(s, r)
    PROVE  Ended(s) = r
<1>1. CASE s = Reading("between", <<>>, r)
  <2>1. s.mode = "between" /\ s.read = r
    BY <1>1 DEF Reading
  <2> QED BY <2>1 DEF Ended
<1>2. ASSUME NEW m \in Signs, NEW n \in Nat, NEW q,
             s = Reading(m, n, q), r = Append(q, [type |-> "int", value |-> Signed(m, n)])
      PROVE  Ended(s) = r
  BY <1>2, IntStep
<1> QED BY <1>1, <1>2 DEF Stands

\* Two characters, one after the other.
LEMMA ReadTwo ==
    ASSUME NEW S, NEW c \in S, NEW d \in S, NEW s
    PROVE  ReadFrom(s, <<c, d>>) = ReadCharacter(ReadCharacter(s, c), d)
<1>1. <<c>> \in Seq(S) /\ <<d>> \in Seq(S) /\ <<c, d>> = <<c>> \o <<d>>
  <2>1. <<c>> \in Seq(S)
    OBVIOUS
  <2>2. <<d>> \in Seq(S)
    OBVIOUS
  <2>3. <<c, d>> = <<c>> \o <<d>>
    <3> DEFINE u == <<c>>
               v == <<d>>
               z == <<c, d>>
    <3>1. /\ u \in Seq(S) /\ Len(u) = 1 /\ u[1] = c
          /\ v \in Seq(S) /\ Len(v) = 1 /\ v[1] = d
      OBVIOUS
    <3>2. z \in Seq(S) /\ Len(z) = 2 /\ z[1] = c /\ z[2] = d
      OBVIOUS
    <3> HIDE DEF u, v, z
    <3>3. u \o v \in Seq(S) /\ Len(u \o v) = 2 /\ (u \o v)[1] = c /\ (u \o v)[2] = d
      <4> DEFINE w == u \o v
      <4>1. /\ w \in Seq(S) /\ Len(w) = Len(u) + Len(v)
            /\ \A n \in 1..Len(u) + Len(v) :
                  w[n] = IF n <= Len(u) THEN u[n] ELSE v[n - Len(u)]
        BY <3>1, ConcatProperties
      <4> HIDE DEF w
      <4>2. Len(w) = 2
        BY <3>1, <4>1
      <4>3. w[1] = c
        BY <3>1, <4>1
      <4>4. w[2] = d
        BY <3>1, <4>1
      <4> QED BY <4>1, <4>2, <4>3, <4>4 DEF w
    <3>4. \A n \in 1..2 : n = 1 \/ n = 2
      OBVIOUS
    <3>5. z = u \o v
      BY <3>2, <3>3, <3>4, SeqEqual
    <3> QED BY <3>5 DEF u, v, z
  <2> QED BY <2>1, <2>2, <2>3
<1>2. ReadFrom(s, <<c>> \o <<d>>) = ReadFrom(ReadFrom(s, <<c>>), <<d>>)
  BY <1>1, ReadConcat
<1>3. ReadFrom(s, <<c>>) = ReadCharacter(s, c)
  BY ReadShort
<1>4. \A z : ReadFrom(z, <<d>>) = ReadCharacter(z, d)
  BY ReadShort
<1> QED BY <1>1, <1>2, <1>3, <1>4, Zenon

\* A prefix grows by one element.
LEMMA Prefix ==
    ASSUME NEW S, NEW t \in Seq(S)
    PROVE  /\ SubSeq(t, 1, 0) = <<>>
           /\ \A n \in Nat : n + 1 <= Len(t) =>
                 SubSeq(t, 1, n + 1) = Append(SubSeq(t, 1, n), t[n + 1])
           /\ \A n \in Nat : n <= Len(t) => SubSeq(t, 1, n) \in Seq(S)
           /\ SubSeq(t, 1, Len(t)) = t
<1>1. SubSeq(t, 1, 0) = <<>>
  BY SubSeqEmpty
<1>2. ASSUME NEW n \in Nat, n <= Len(t) PROVE SubSeq(t, 1, n) \in Seq(S)
  <2>1. \A k \in 1..n : t[k] \in S
    BY <1>2
  <2> QED BY <2>1, SubSeqProperties
<1>3. ASSUME NEW n \in Nat, n + 1 <= Len(t)
      PROVE  SubSeq(t, 1, n + 1) = Append(SubSeq(t, 1, n), t[n + 1])
  <2> DEFINE k == n + 1
             u == SubSeq(t, 1, n)
  <2>1. k \in 1..Len(t) /\ 1 \in 1..Len(t) /\ k - 1 = n /\ t[k] \in S
    BY <1>3
  <2>2. u \in Seq(S)
    BY <1>2, <1>3
  <2>3. SubSeq(t, 1, k) = SubSeq(t, 1, k - 1) \o <<t[k]>>
    <3> HIDE DEF k
    <3> QED BY <2>1, SubSeqRecursiveSecond
  <2>4. Append(u, t[k]) = u \o <<t[k]>>
    <3> HIDE DEF k, u
    <3> QED BY <2>1, <2>2, AppendIsConcat
  <2>5. SubSeq(t, 1, k) = u \o <<t[k]>>
    BY <2>1, <2>3
  <2> QED BY <2>4, <2>5, Zenon
<1>4. SubSeq(t, 1, Len(t)) = t
  BY SubSeqFull
<1> QED BY <1>1, <1>2, <1>3, <1>4

\* Reading sequences, one after the other.
LEMMA ReadJoined ==
    ASSUME NEW S, NEW p \in Seq(Seq(S)), NEW s
    PROVE  /\ ReadFrom(s, Joined(p)[0]) = s
           /\ \A n \in Nat : n + 1 <= Len(p) =>
                 ReadFrom(s, Joined(p)[n + 1]) = ReadFrom(ReadFrom(s, Joined(p)[n]), p[n + 1])
<1>1. Len(p) \in Nat
  OBVIOUS
<1>2. ReadFrom(s, Joined(p)[0]) = s
  BY <1>1, JoinedSteps, ReadShort
<1>3. ASSUME NEW n \in Nat, n + 1 <= Len(p)
      PROVE  ReadFrom(s, Joined(p)[n + 1]) = ReadFrom(ReadFrom(s, Joined(p)[n]), p[n + 1])
  <2> DEFINE t == Joined(p)[n]
             u == p[n + 1]
  <2>1. Joined(p)[n + 1] = t \o u
    BY <1>1, <1>3, JoinedSteps
  <2>2. t \in Seq(S)
    <3>1. n \in 0..Len(p)
      BY <1>1, <1>3
    <3> QED BY <3>1, JoinedType
  <2>3. u \in Seq(S)
    BY <1>3
  <2>4. ReadFrom(s, t \o u) = ReadFrom(ReadFrom(s, t), u)
    <3> HIDE DEF t, u
    <3> QED BY <2>2, <2>3, ReadConcat
  <2> QED BY <2>1, <2>4, Zenon
<1> QED BY <1>2, <1>3

\* An escaped text is read as the text.
LEMMA TextRead ==
    ASSUME NEW text \in Seq(Character), NEW r
    PROVE  /\ EscapeString(text) \in Seq(Symbol)
           /\ ReadFrom(Reading("text", <<>>, r), EscapeString(text)) = Reading("text", text, r)
<1> DEFINE s == Reading("text", <<>>, r)
           p == [n \in DOMAIN text |->
                    IF text[n] \in {"'", "\\"} THEN <<"\\", text[n]>> ELSE <<text[n]>>]
           w == Joined(p)
           N == Len(text)
           P(n) == n <= N => ReadFrom(s, w[n]) = Reading("text", SubSeq(text, 1, n), r)
           T == {n \in Nat : P(n)}
<1>1. DOMAIN text = 1..N /\ N \in Nat /\ \A n \in 1..N : text[n] \in Symbol
  BY DEF Symbol
<1>2. ASSUME NEW n \in 1..N PROVE p[n] \in Seq(Symbol)
  <2>1. "\\" \in Symbol /\ text[n] \in Symbol
    BY <1>1, <1>2 DEF Symbol
  <2>2. <<"\\", text[n]>> \in Seq(Symbol)
    BY <2>1
  <2>3. <<text[n]>> \in Seq(Symbol)
    BY <2>1
  <2>4. p[n] = <<"\\", text[n]>> \/ p[n] = <<text[n]>>
    BY <1>1, <1>2
  <2> QED BY <2>2, <2>3, <2>4, Zenon
<1>3. p \in Seq(Seq(Symbol)) /\ Len(p) = N
  <2>1. p \in [1..N -> Seq(Symbol)]
    BY <1>1, <1>2
  <2> HIDE DEF p
  <2> QED BY <1>1, <2>1
<1>4. EscapeString(text) = w[N]
  <2>1. EscapeString(text) = FlattenSeq(p)
    BY DEF EscapeString
  <2> HIDE DEF p
  <2> QED BY <1>3, <2>1, FlattenIsJoined
<1>5. w[N] \in Seq(Symbol)
  <2>1. N \in 0..Len(p)
    BY <1>1, <1>3
  <2> HIDE DEF p
  <2> QED BY <1>3, <2>1, JoinedType
<1>6. /\ ReadFrom(s, w[0]) = s
      /\ \A n \in Nat : n + 1 <= Len(p) =>
            ReadFrom(s, w[n + 1]) = ReadFrom(ReadFrom(s, w[n]), p[n + 1])
  <2>1. p \in Seq(Seq(Symbol))
    BY <1>3
  <2> HIDE DEF p, s, N, T, P
  <2> QED BY <2>1, ReadJoined, Zenon
<1>7. 0 \in T
  <2>1. ReadFrom(s, w[0]) = s
    BY <1>6, Zenon
  <2>2. SubSeq(text, 1, 0) = <<>>
    BY Prefix
  <2> QED BY <2>1, <2>2
<1>8. ASSUME NEW n \in T PROVE n + 1 \in T
  <2> SUFFICES ASSUME n + 1 <= N
               PROVE  ReadFrom(s, w[n + 1]) = Reading("text", SubSeq(text, 1, n + 1), r)
    BY <1>8
  <2> DEFINE q == SubSeq(text, 1, n)
             c == text[n + 1]
             z == Reading("text", q, r)
  <2>1. n + 1 \in 1..N /\ n \in Nat /\ n <= N
    BY <1>1
  <2>2. ReadFrom(s, w[n]) = z
    BY <1>8, <2>1
  <2>3. ReadFrom(s, w[n + 1]) = ReadFrom(z, p[n + 1])
    <3> HIDE DEF p, s, z
    <3>1. n \in Nat /\ n + 1 <= Len(p)
      BY <1>1, <1>3, <2>1
    <3>2. ReadFrom(s, w[n + 1]) = ReadFrom(ReadFrom(s, w[n]), p[n + 1])
      BY <1>6, <3>1, Zenon
    <3> QED BY <2>2, <3>2, Zenon
  <2>4. SubSeq(text, 1, n + 1) = Append(q, c)
    BY <2>1, Prefix
  <2>5. ReadFrom(z, p[n + 1]) = Reading("text", Append(q, c), r)
    <3>1. CASE c \in {"'", "\\"}
      <4>1. p[n + 1] = <<"\\", c>>
        BY <1>1, <2>1, <3>1
      <4>2. c \in Symbol /\ "\\" \in Symbol
        BY <1>1, <2>1 DEF Symbol
      <4> HIDE DEF p, z, c
      <4>3. ReadFrom(z, <<"\\", c>>) = ReadCharacter(ReadCharacter(z, "\\"), c)
        BY <4>2, ReadTwo
      <4>4. ReadCharacter(z, "\\") = Reading("escape", q, r)
        BY InText DEF z
      <4>5. ReadCharacter(Reading("escape", q, r), c) = Reading("text", Append(q, c), r)
        BY InText
      <4> QED BY <4>1, <4>3, <4>4, <4>5, Zenon
    <3>2. CASE c \notin {"'", "\\"}
      <4>1. p[n + 1] = <<c>>
        BY <1>1, <2>1, <3>2
      <4> HIDE DEF p, z, c
      <4>2. ReadFrom(z, <<c>>) = ReadCharacter(z, c)
        BY ReadShort
      <4>3. ReadCharacter(Reading("text", q, r), c) = Reading("text", Append(q, c), r)
        BY <3>2, InText, Zenon
      <4>4. z = Reading("text", q, r)
        BY DEF z
      <4> QED BY <4>1, <4>2, <4>3, <4>4, Zenon
    <3> QED BY <3>1, <3>2
  <2> QED BY <2>3, <2>4, <2>5, Zenon
<1> HIDE DEF P
<1>9. N \in T
  BY <1>1, <1>7, <1>8, SetInduction
<1>10. N <= N /\ P(N)
  BY <1>1, <1>9
<1>11. ReadFrom(s, w[N]) = Reading("text", SubSeq(text, 1, N), r)
  BY <1>10 DEF P
<1>12. SubSeq(text, 1, N) = text
  BY Prefix
<1> QED BY <1>4, <1>5, <1>11, <1>12, Zenon

\* The bytes a blob may have.
Byte == {b \in Nat : b < 256}

\* The first digit of a byte.
LEMMA HighDigit ==
    ASSUME NEW p, NEW r, NEW c, c # "'"
    PROVE  ReadCharacter(Reading("blob", p, r), c) = Reading("half", Append(p, 16 * DigitOf(c)), r)
<1>1. Reading("blob", p, r).mode = "blob" /\ Reading("blob", p, r).part = p
      /\ Reading("blob", p, r).read = r
  BY DEF Reading
<1> QED BY <1>1 DEF ReadCharacter

\* The second digit of a byte.
LEMMA LowDigit ==
    ASSUME NEW p, NEW r, NEW c
    PROVE  ReadCharacter(Reading("half", p, r), c)
             = Reading("blob", [p EXCEPT ![Len(p)] = @ + DigitOf(c)], r)
<1>1. Reading("half", p, r).mode = "half" /\ Reading("half", p, r).part = p
      /\ Reading("half", p, r).read = r
  BY DEF Reading
<1> QED BY <1>1 DEF ReadCharacter

\* Two digits are one byte.
LEMMA ByteRead ==
    ASSUME NEW q \in Seq(Byte), NEW b \in Byte, NEW r
    PROVE  /\ <<Hex[(b \div 16) + 1], Hex[(b % 16) + 1]>> \in Seq(Symbol)
           /\ ReadFrom(Reading("blob", q, r), <<Hex[(b \div 16) + 1], Hex[(b % 16) + 1]>>)
                = Reading("blob", Append(q, b), r)
<1> DEFINE high == b \div 16
           low == b % 16
           c == Hex[high + 1]
           d == Hex[low + 1]
<1>1. high \in Nat /\ high < 16 /\ low \in Nat /\ low < 16 /\ 16 * high + low = b
  BY DEF Byte
<1> HIDE DEF high, low
<1>2. high + 1 \in 1..16 /\ low + 1 \in 1..16
  BY <1>1
<1>3. c \in Symbol /\ d \in Symbol /\ c # "'"
  BY <1>2, HexDistinct DEF Symbol
<1>4. DigitOf(c) = high /\ DigitOf(d) = low
  BY <1>1, DigitOfHex
<1> HIDE DEF c, d
<1>5. <<c, d>> \in Seq(Symbol)
  BY <1>3
<1>6. ReadFrom(Reading("blob", q, r), <<c, d>>)
         = ReadCharacter(ReadCharacter(Reading("blob", q, r), c), d)
  BY <1>3, ReadTwo
<1> DEFINE h == Append(q, 16 * high)
<1>7. ReadCharacter(Reading("blob", q, r), c) = Reading("half", h, r)
  <2>1. ReadCharacter(Reading("blob", q, r), c) = Reading("half", Append(q, 16 * DigitOf(c)), r)
    BY <1>3, HighDigit
  <2> QED BY <1>4, <2>1, Zenon
<1>8. ReadCharacter(Reading("half", h, r), d)
         = Reading("blob", [h EXCEPT ![Len(h)] = @ + DigitOf(d)], r)
  <2> HIDE DEF h
  <2> QED BY LowDigit
<1>9. [h EXCEPT ![Len(h)] = @ + DigitOf(d)] = Append(q, b)
  <2> DEFINE x == 16 * high
             N == Len(q)
             g == [h EXCEPT ![Len(h)] = @ + DigitOf(d)]
  <2>1. x \in Nat /\ x + low = b /\ q \in Seq(Nat) /\ b \in Nat /\ N \in Nat
    BY <1>1 DEF Byte
  <2> HIDE DEF x
  <2>2. /\ h \in Seq(Nat) /\ Len(h) = N + 1
        /\ \A n \in 1..N : h[n] = q[n]
        /\ h[N + 1] = x
    <3>1. h = Append(q, x)
      BY DEF x
    <3> HIDE DEF h
    <3> QED BY <2>1, <3>1, AppendProperties
  <2> DEFINE y == Append(q, b)
  <2>3. /\ y \in Seq(Nat) /\ Len(y) = N + 1
        /\ \A n \in 1..N : y[n] = q[n]
        /\ y[N + 1] = b
    BY <2>1, AppendProperties
  <2> HIDE DEF h, y, N
  <2>4. g = [h EXCEPT ![N + 1] = b]
    BY <1>4, <2>1, <2>2
  <2> HIDE DEF g
  <2>5. N + 1 \in 1..Len(h)
    BY <2>1, <2>2
  <2>6. /\ g \in Seq(Nat) /\ Len(g) = Len(h)
        /\ \A j \in 1..Len(h) : g[j] = IF j = N + 1 THEN b ELSE h[j]
    BY <2>1, <2>2, <2>4, <2>5, ExceptSeq
  <2>7. \A j \in 1..Len(g) : g[j] = y[j]
    BY <2>1, <2>2, <2>3, <2>6
  <2>8. g = y
    BY <2>2, <2>3, <2>6, <2>7, SeqEqual
  <2> QED BY <2>8 DEF g, y
<1>10. ReadFrom(Reading("blob", q, r), <<c, d>>) = Reading("blob", Append(q, b), r)
  BY <1>6, <1>7, <1>8, <1>9, Zenon
<1> QED BY <1>5, <1>10 DEF c, d, high, low

\* The digits of a blob are read as its bytes.
LEMMA BlobRead ==
    ASSUME NEW bytes \in Seq(Byte), NEW r
    PROVE  /\ BlobLiteral(bytes) \in Seq(Symbol)
           /\ \A s : ReadCharacter(s, "X") = Reading("prefix", <<>>, r) =>
                 ReadFrom(s, BlobLiteral(bytes))
                   = Reading("between", <<>>, Append(r, [type |-> "blob", value |-> bytes]))
<1> DEFINE s == Reading("blob", <<>>, r)
           p == [n \in DOMAIN bytes |->
                    <<Hex[(bytes[n] \div 16) + 1], Hex[(bytes[n] % 16) + 1]>>]
           w == Joined(p)
           N == Len(bytes)
           P(n) == n <= N => ReadFrom(s, w[n]) = Reading("blob", SubSeq(bytes, 1, n), r)
           T == {n \in Nat : P(n)}
<1>1. DOMAIN bytes = 1..N /\ N \in Nat /\ \A n \in 1..N : bytes[n] \in Byte
  OBVIOUS
<1>2. ASSUME NEW n \in 1..N PROVE p[n] \in Seq(Symbol)
  <2> DEFINE b == bytes[n]
  <2>1. b \in Byte
    BY <1>1
  <2>2. <<>> \in Seq(Byte)
    OBVIOUS
  <2>3. p[n] = <<Hex[(b \div 16) + 1], Hex[(b % 16) + 1]>>
    BY <1>1
  <2> HIDE DEF b, p
  <2> QED BY <2>1, <2>2, <2>3, ByteRead
<1>3. p \in Seq(Seq(Symbol)) /\ Len(p) = N
  <2>1. p \in [1..N -> Seq(Symbol)]
    BY <1>1, <1>2
  <2> HIDE DEF p
  <2> QED BY <1>1, <2>1
<1>4. FlattenSeq(p) = w[N]
  <2> HIDE DEF p
  <2> QED BY <1>3, FlattenIsJoined
<1>5. w[N] \in Seq(Symbol)
  <2>1. N \in 0..Len(p)
    BY <1>1, <1>3
  <2> HIDE DEF p
  <2> QED BY <1>3, <2>1, JoinedType
<1>6. /\ ReadFrom(s, w[0]) = s
      /\ \A n \in Nat : n + 1 <= Len(p) =>
            ReadFrom(s, w[n + 1]) = ReadFrom(ReadFrom(s, w[n]), p[n + 1])
  <2>1. p \in Seq(Seq(Symbol))
    BY <1>3
  <2> HIDE DEF p, s, N, T, P
  <2> QED BY <2>1, ReadJoined, Zenon
<1>7. 0 \in T
  <2>1. ReadFrom(s, w[0]) = s
    BY <1>6, Zenon
  <2>2. SubSeq(bytes, 1, 0) = <<>>
    BY Prefix
  <2> QED BY <2>1, <2>2
<1>8. ASSUME NEW n \in T PROVE n + 1 \in T
  <2> SUFFICES ASSUME n + 1 <= N
               PROVE  ReadFrom(s, w[n + 1]) = Reading("blob", SubSeq(bytes, 1, n + 1), r)
    BY <1>8
  <2> DEFINE q == SubSeq(bytes, 1, n)
             b == bytes[n + 1]
             z == Reading("blob", q, r)
  <2>1. n + 1 \in 1..N /\ n \in Nat /\ n <= N
    BY <1>1
  <2>2. ReadFrom(s, w[n]) = z
    BY <1>8, <2>1
  <2>3. ReadFrom(s, w[n + 1]) = ReadFrom(z, p[n + 1])
    <3> HIDE DEF p, s, z
    <3>1. n \in Nat /\ n + 1 <= Len(p)
      BY <1>1, <1>3, <2>1
    <3>2. ReadFrom(s, w[n + 1]) = ReadFrom(ReadFrom(s, w[n]), p[n + 1])
      BY <1>6, <3>1, Zenon
    <3> QED BY <2>2, <3>2, Zenon
  <2>4. SubSeq(bytes, 1, n + 1) = Append(q, b)
    BY <2>1, Prefix
  <2>5. ReadFrom(z, p[n + 1]) = Reading("blob", Append(q, b), r)
    <3>1. q \in Seq(Byte) /\ b \in Byte
      BY <1>1, <2>1, Prefix
    <3>2. p[n + 1] = <<Hex[(b \div 16) + 1], Hex[(b % 16) + 1]>>
      BY <1>1, <2>1
    <3> HIDE DEF p, q, b
    <3> QED BY <3>1, <3>2, ByteRead
  <2> QED BY <2>3, <2>4, <2>5, Zenon
<1> HIDE DEF P
<1>9. N \in T
  BY <1>1, <1>7, <1>8, SetInduction
<1>10. N <= N /\ P(N)
  BY <1>1, <1>9
<1>11. ReadFrom(s, w[N]) = Reading("blob", SubSeq(bytes, 1, N), r)
  BY <1>10 DEF P
<1>12. ReadFrom(s, w[N]) = Reading("blob", bytes, r)
  <2>1. SubSeq(bytes, 1, N) = bytes
    BY Prefix
  <2> QED BY <1>11, <2>1, Zenon
<1> DEFINE d == w[N]
           head == <<"X", "'">>
           last == <<"'">>
<1> HIDE DEF p, w, N
<1>13. /\ head \in Seq(Symbol) /\ last \in Seq(Symbol) /\ d \in Seq(Symbol)
       /\ BlobLiteral(bytes) = head \o d \o last
  <2>1. "X" \in Symbol /\ "'" \in Symbol
    BY DEF Symbol
  <2>2. head \in Seq(Symbol)
    BY <2>1
  <2>3. last \in Seq(Symbol)
    BY <2>1
  <2>4. BlobLiteral(bytes) = head \o d \o last
    BY <1>4 DEF BlobLiteral, p
  <2> QED BY <1>5, <2>2, <2>3, <2>4
<1>14. head \o d \in Seq(Symbol) /\ head \o d \o last \in Seq(Symbol)
  <2> HIDE DEF head, d, last
  <2> QED BY <1>13, ConcatProperties
<1>15. ASSUME NEW z, ReadCharacter(z, "X") = Reading("prefix", <<>>, r)
       PROVE  ReadFrom(z, BlobLiteral(bytes))
                = Reading("between", <<>>, Append(r, [type |-> "blob", value |-> bytes]))
  <2>1. ReadFrom(z, head) = s
    <3>1. ReadFrom(z, <<"X", "'">>) = ReadCharacter(ReadCharacter(z, "X"), "'")
      <4>1. "X" \in Symbol /\ "'" \in Symbol
        BY DEF Symbol
      <4> QED BY <4>1, ReadTwo
    <3>2. ReadCharacter(Reading("prefix", <<>>, r), "'") = Reading("blob", <<>>, r)
      BY InBlob
    <3> QED BY <1>15, <3>1, <3>2, Zenon
  <2>2. ReadFrom(Reading("blob", bytes, r), last)
          = Reading("between", <<>>, Append(r, [type |-> "blob", value |-> bytes]))
    <3>1. ReadFrom(Reading("blob", bytes, r), <<"'">>) = ReadCharacter(Reading("blob", bytes, r), "'")
      BY ReadShort
    <3> QED BY <3>1, InBlob
  <2> HIDE DEF head, last, d
  <2>3. ReadFrom(z, head \o d \o last) = ReadFrom(ReadFrom(z, head \o d), last)
    BY <1>13, <1>14, ReadConcat
  <2>4. ReadFrom(z, head \o d) = ReadFrom(ReadFrom(z, head), d)
    BY <1>13, ReadConcat
  <2>5. ReadFrom(s, d) = Reading("blob", bytes, r)
    BY <1>12 DEF d
  <2> QED BY <1>13, <2>1, <2>2, <2>3, <2>4, <2>5, Zenon
<1> QED BY <1>13, <1>14, <1>15

DecimalNext(g, k) ==
    IF k < 10 THEN <<Hex[k + 1]>> ELSE g[k \div 10] \o <<Hex[(k % 10) + 1]>>

\* A number without its last digit is smaller.
LEMMA LastDigit ==
    ASSUME NEW k \in Nat
    PROVE  /\ k \div 10 \in Nat /\ k % 10 \in Nat /\ k % 10 < 10
           /\ 10 * (k \div 10) + (k % 10) = k
           /\ k >= 10 => k \div 10 < k
OBVIOUS

\* The recursion of Decimal defines a function.
LEMMA DecimalExists == \A n \in Nat : \E g : g = [k \in 0..n |-> DecimalNext(g, k)]
<1> DEFINE P(n) == \E g : g = [k \in 0..n |-> DecimalNext(g, k)]
           S == {n \in Nat : P(n)}
<1>1. 0 \in S
  <2> DEFINE g == [k \in 0..0 |-> <<Hex[k + 1]>>]
  <2>1. g = [k \in 0..0 |-> DecimalNext(g, k)]
    BY DEF DecimalNext
  <2> QED BY <2>1
<1>2. ASSUME NEW n \in S PROVE n + 1 \in S
  <2>1. PICK g : g = [k \in 0..n |-> DecimalNext(g, k)]
    BY <1>2
  <2> DEFINE h == [k \in 0..(n + 1) |-> IF k \in 0..n THEN g[k] ELSE DecimalNext(g, n + 1)]
  <2>2. ASSUME NEW k \in 0..(n + 1) PROVE h[k] = DecimalNext(h, k)
    <3>0. h[k] = DecimalNext(g, k)
      <4>1. CASE k \in 0..n
        BY <2>1, <4>1
      <4>2. CASE k \notin 0..n
        <5>1. k = n + 1
          BY <2>2, <4>2
        <5> QED BY <4>2, <5>1
      <4> QED BY <4>1, <4>2
    <3>1. CASE k < 10
      BY <3>0, <3>1 DEF DecimalNext
    <3>2. CASE ~(k < 10)
      <4> DEFINE m == k \div 10
      <4>1. m \in 0..n
        BY <3>2, LastDigit
      <4>2. h[m] = g[m]
        BY <4>1
      <4> HIDE DEF h, m
      <4>3. DecimalNext(g, k) = g[m] \o <<Hex[(k % 10) + 1]>>
        BY <3>2 DEF DecimalNext, m
      <4>4. DecimalNext(h, k) = h[m] \o <<Hex[(k % 10) + 1]>>
        BY <3>2 DEF DecimalNext, m
      <4> QED BY <3>0, <4>2, <4>3, <4>4, Zenon
    <3> QED BY <3>1, <3>2
  <2>3. h = [k \in 0..(n + 1) |-> DecimalNext(h, k)]
    BY <2>2
  <2>4. P(n + 1)
    <3> HIDE DEF h
    <3> QED BY <2>3
  <2> QED BY <2>4
<1> HIDE DEF P
<1>3. S = Nat
  BY <1>1, <1>2, SetInduction
<1> QED BY <1>3 DEF P

\* The digits of a number are read as the number, and it may go on: where no
\* literal has begun, and after a minus sign.
LEMMA DecimalRead ==
    ASSUME NEW N \in Nat, NEW r, NEW sign \in Signs, NEW s,
           \A d \in Nat : d < 10 => ReadCharacter(s, Hex[d + 1]) = Reading(sign, d, r)
    PROVE  /\ Decimal(N) \in Seq(Symbol)
           /\ ReadFrom(s, Decimal(N)) = Reading(sign, N, r)
<1>0. ASSUME NEW n \in Nat, NEW c \in Digit
      PROVE  ReadCharacter(Reading(sign, n, r), c) = Reading(sign, 10 * n + DigitOf(c), r)
  BY IntGoesOn
<1> DEFINE g == CHOOSE g : g = [k \in 0..N |-> DecimalNext(g, k)]
<1>1. g = [k \in 0..N |-> DecimalNext(g, k)]
  BY DecimalExists
<1>2. Decimal(N) = g[N]
  BY DEF Decimal, DecimalNext
<1> HIDE DEF g
<1>3. \A k \in 0..N : g[k] = DecimalNext(g, k)
  BY <1>1
<1> DEFINE Q(k) == g[k] \in Seq(Symbol) /\ ReadFrom(s, g[k]) = Reading(sign, k, r)
           P(n) == \A k \in 0..N : k < n => Q(k)
           T == {n \in Nat : P(n)}
<1>4. ASSUME NEW d \in Nat, d < 10
      PROVE  Hex[d + 1] \in Symbol /\ Hex[d + 1] \in Digit /\ DigitOf(Hex[d + 1]) = d
  <2>1. d + 1 \in 1..16 /\ d < 16
    BY <1>4
  <2>2. Hex[d + 1] \in Symbol
    BY <2>1 DEF Symbol
  <2> QED BY <1>4, <2>1, <2>2, DigitOfNumber, DigitOfHex
<1>5. ASSUME NEW k \in 0..N, P(k) PROVE Q(k)
  <2>1. CASE k < 10
    <3> DEFINE c == Hex[k + 1]
    <3>1. g[k] = <<c>>
      BY <1>3, <2>1 DEF DecimalNext
    <3>2. ReadCharacter(s, c) = Reading(sign, k, r)
      <4>1. k \in Nat
        OBVIOUS
      <4> QED BY <2>1, <4>1
    <3>3. c \in Symbol
      BY <1>4, <2>1
    <3> HIDE DEF c
    <3>4. <<c>> \in Seq(Symbol)
      BY <3>3
    <3>5. ReadFrom(s, <<c>>) = ReadCharacter(s, c)
      BY ReadShort
    <3> QED BY <3>1, <3>2, <3>4, <3>5, Zenon
  <2>2. CASE ~(k < 10)
    <3> DEFINE m == k \div 10
               d == k % 10
               c == Hex[d + 1]
    <3>1. k \in Nat /\ k <= N
      OBVIOUS
    <3>2. m \in Nat /\ d \in Nat /\ d < 10 /\ 10 * m + d = k /\ m < k
      BY <2>2, <3>1, LastDigit
    <3>3. g[k] = g[m] \o <<c>>
      BY <1>3, <2>2 DEF DecimalNext
    <3> HIDE DEF m, d
    <3>4. Q(m)
      <4>1. m \in 0..N
        BY <3>1, <3>2
      <4> QED BY <1>5, <3>2, <4>1
    <3>5. c \in Symbol /\ c \in Digit /\ DigitOf(c) = d
      BY <1>4, <3>2
    <3> HIDE DEF c
    <3>6. <<c>> \in Seq(Symbol)
      BY <3>5
    <3> DEFINE t == g[m]
               u == <<c>>
    <3>7. t \in Seq(Symbol) /\ u \in Seq(Symbol)
      BY <3>4, <3>6
    <3>8. t \o u \in Seq(Symbol) /\ ReadFrom(s, t \o u) = ReadFrom(ReadFrom(s, t), u)
      <4> HIDE DEF t, u
      <4> QED BY <3>7, ConcatProperties, ReadConcat
    <3>9. ReadFrom(Reading(sign, m, r), u) = ReadCharacter(Reading(sign, m, r), c)
      BY ReadShort
    <3>10. ReadCharacter(Reading(sign, m, r), c) = Reading(sign, 10 * m + DigitOf(c), r)
      BY <1>0, <3>2, <3>5, Zenon
    <3>11. 10 * m + DigitOf(c) = k
      BY <3>2, <3>5
    <3>12. ReadFrom(s, t) = Reading(sign, m, r)
      BY <3>4
    <3> QED BY <3>3, <3>8, <3>9, <3>10, <3>11, <3>12, Zenon
  <2> QED BY <2>1, <2>2
<1> HIDE DEF Q
<1>6. 0 \in T
  OBVIOUS
<1>7. ASSUME NEW n \in T PROVE n + 1 \in T
  <2> SUFFICES ASSUME NEW k \in 0..N, k < n + 1 PROVE Q(k)
    OBVIOUS
  <2>1. CASE k < n
    BY <1>7, <2>1
  <2>2. CASE k = n
    BY <1>5, <1>7, <2>2
  <2> QED BY <2>1, <2>2
<1>8. N + 1 \in T
  <2> HIDE DEF P
  <2>1. T = Nat
    BY <1>6, <1>7, SetInduction
  <2> QED BY <2>1
<1>9. Q(N)
  BY <1>8
<1> QED BY <1>2, <1>9 DEF Q

\* The same with its sign.
LEMMA DecimalsRead ==
    ASSUME NEW n \in Int, NEW r
    PROVE  /\ Decimals(n) \in Seq(Symbol)
           /\ \E m \in Signs : \E k \in Nat :
                 /\ ReadFrom(Reading("between", <<>>, r), Decimals(n)) = Reading(m, k, r)
                 /\ Signed(m, k) = n
<1> DEFINE s == Reading("between", <<>>, r)
<1>1. CASE n < 0
  <2> DEFINE k == -n
             t == Decimal(k)
             u == <<"-">>
             z == Reading("minus", <<>>, r)
  <2>1. k \in Nat /\ -k = n
    BY <1>1
  <2>2. Decimals(n) = u \o t
    BY <1>1 DEF Decimals
  <2> HIDE DEF k
  <2>3. ASSUME NEW d \in Nat, d < 10
        PROVE  ReadCharacter(z, Hex[d + 1]) = Reading("negative", d, r)
    <3>1. Hex[d + 1] \in Digit /\ DigitOf(Hex[d + 1]) = d
      BY <2>3, DigitOfNumber, DigitOfHex
    <3> QED BY <3>1, MinusStep
  <2>4. "negative" \in Signs
    BY DEF Signs
  <2> HIDE DEF z
  <2>5. t \in Seq(Symbol) /\ ReadFrom(z, t) = Reading("negative", k, r)
    BY <2>1, <2>3, <2>4, DecimalRead
  <2>6. u \in Seq(Symbol)
    <3>1. "-" \in Symbol
      BY DEF Symbol
    <3> QED BY <3>1
  <2>7. ReadFrom(s, u) = z
    <3>1. ReadFrom(s, u) = ReadCharacter(s, "-")
      BY ReadShort
    <3>2. ReadCharacter(s, "-") = Begin(r, "-")
      BY BetweenStep
    <3> QED BY <3>1, <3>2, Begins DEF z
  <2> HIDE DEF s, t, u
  <2>8. u \o t \in Seq(Symbol) /\ ReadFrom(s, u \o t) = ReadFrom(ReadFrom(s, u), t)
    BY <2>5, <2>6, ConcatProperties, ReadConcat
  <2>9. ReadFrom(s, Decimals(n)) = Reading("negative", k, r)
    BY <2>2, <2>5, <2>7, <2>8, Zenon
  <2>10. Signed("negative", k) = n
    BY <2>1 DEF Signed
  <2> QED BY <2>1, <2>2, <2>4, <2>8, <2>9, <2>10 DEF s
<1>2. CASE ~(n < 0)
  <2>1. n \in Nat /\ Decimals(n) = Decimal(n) /\ "int" \in Signs /\ Signed("int", n) = n
    BY <1>2 DEF Decimals, Signs, Signed
  <2>2. ASSUME NEW d \in Nat, d < 10
        PROVE  ReadCharacter(s, Hex[d + 1]) = Reading("int", d, r)
    <3>1. Begin(r, Hex[d + 1]) = Reading("int", d, r)
      BY <2>2, Begins
    <3> QED BY <3>1, BetweenStep
  <2> HIDE DEF s
  <2>3. Decimal(n) \in Seq(Symbol) /\ ReadFrom(s, Decimal(n)) = Reading("int", n, r)
    BY <2>1, <2>2, DecimalRead
  <2> QED BY <2>1, <2>3 DEF s
<1> QED BY <1>1, <1>2

\* What is bound.
Bindable == BoundValue \cup {Null}

\* What is written for a value is read as the value, wherever a literal may
\* stand; an int needs something before it that does not go on.
LEMMA ValueRead ==
    ASSUME NEW v \in Bindable, NEW s, NEW r, Stands(s, r),
           s = Reading("between", <<>>, r) \/ v.type # "int"
    PROVE  /\ RenderValue(v) \in Seq(Symbol)
           /\ Stands(ReadFrom(s, RenderValue(v)), Append(r, v))
           /\ v.type # "int" =>
                 ReadFrom(s, RenderValue(v)) = Reading("between", <<>>, Append(r, v))
<1>1. \A c \in {"'", "X", "NULL"} : ReadCharacter(s, c) = Begin(r, c)
  <2>1. \A c \in {"'", "X", "NULL"} : c \notin Digit
    BY SignsAreNoDigits
  <2> QED BY <2>1, StandsStep
<1>2. \/ v \in [type : {"int"}, value : Int]
      \/ v \in [type : {"text"}, value : Seq(Character)]
      \/ v \in [type : {"blob"}, value : Seq(Byte)]
      \/ v = Null
  BY TextAssumption DEF Bindable, Byte
<1>3. CASE v \in [type : {"int"}, value : Int]
  <2>1. /\ v.type = "int" /\ v.value \in Int /\ v = [type |-> "int", value |-> v.value]
    BY <1>3
  <2>2. RenderValue(v) = Decimals(v.value)
    BY <2>1 DEF RenderValue
  <2>3. s = Reading("between", <<>>, r)
    BY <2>1
  <2>4. PICK m \in Signs, n \in Nat :
           /\ RenderValue(v) \in Seq(Symbol)
           /\ ReadFrom(s, RenderValue(v)) = Reading(m, n, r)
           /\ Signed(m, n) = v.value
    BY <2>1, <2>2, <2>3, DecimalsRead
  <2>5. Append(r, v) = Append(r, [type |-> "int", value |-> Signed(m, n)])
    BY <2>1, <2>4, Zenon
  <2>6. Stands(Reading(m, n, r), Append(r, v))
    BY <2>5, Zenon DEF Stands
  <2> QED BY <2>1, <2>4, <2>6
<1>4. CASE v \in [type : {"text"}, value : Seq(Character)]
  <2> DEFINE x == v.value
             e == EscapeString(x)
             q == <<"'">>
  <2>1. v.type = "text" /\ x \in Seq(Character) /\ v = [type |-> "text", value |-> x]
    BY <1>4
  <2>2. RenderValue(v) = q \o e \o q
    BY <2>1 DEF RenderValue
  <2>3. e \in Seq(Symbol) /\ q \in Seq(Symbol)
    <3>1. "'" \in Symbol
      BY DEF Symbol
    <3>2. q \in Seq(Symbol)
      BY <3>1
    <3> QED BY <2>1, <3>2, TextRead
  <2>4. ReadFrom(s, q) = Reading("text", <<>>, r)
    <3>1. ReadFrom(s, q) = ReadCharacter(s, "'")
      BY ReadShort
    <3> QED BY <1>1, <3>1, Begins
  <2>5. ReadFrom(Reading("text", <<>>, r), e) = Reading("text", x, r)
    BY <2>1, TextRead
  <2>6. ReadFrom(Reading("text", x, r), q) = Reading("between", <<>>, Append(r, v))
    <3>1. ReadFrom(Reading("text", x, r), q) = ReadCharacter(Reading("text", x, r), "'")
      BY ReadShort
    <3>2. ReadCharacter(Reading("text", x, r), "'")
            = Reading("between", <<>>, Append(r, [type |-> "text", value |-> x]))
      BY InText
    <3> QED BY <2>1, <3>1, <3>2, Zenon
  <2> HIDE DEF x, e, q
  <2>7. q \o e \in Seq(Symbol) /\ q \o e \o q \in Seq(Symbol)
    BY <2>3, ConcatProperties
  <2>8. /\ ReadFrom(s, q \o e \o q) = ReadFrom(ReadFrom(s, q \o e), q)
        /\ ReadFrom(s, q \o e) = ReadFrom(ReadFrom(s, q), e)
    BY <2>3, <2>7, ReadConcat
  <2>9. ReadFrom(s, RenderValue(v)) = Reading("between", <<>>, Append(r, v))
    BY <2>2, <2>4, <2>5, <2>6, <2>8, Zenon
  <2> QED BY <2>2, <2>7, <2>9 DEF Stands
<1>5. CASE v \in [type : {"blob"}, value : Seq(Byte)]
  <2>1. v.type = "blob" /\ v.value \in Seq(Byte) /\ v = [type |-> "blob", value |-> v.value]
    BY <1>5
  <2>2. RenderValue(v) = BlobLiteral(v.value)
    BY <2>1 DEF RenderValue
  <2>3. ReadCharacter(s, "X") = Reading("prefix", <<>>, r)
    BY <1>1, Begins
  <2>4. RenderValue(v) \in Seq(Symbol)
    BY <2>1, <2>2, BlobRead
  <2>5. ReadFrom(s, RenderValue(v))
          = Reading("between", <<>>, Append(r, [type |-> "blob", value |-> v.value]))
    <3> DEFINE x == v.value
    <3>1. x \in Seq(Byte)
      BY <2>1
    <3> HIDE DEF x
    <3>2. ReadFrom(s, BlobLiteral(x))
            = Reading("between", <<>>, Append(r, [type |-> "blob", value |-> x]))
      BY <2>3, <3>1, BlobRead
    <3> QED BY <2>2, <3>2 DEF x
  <2>6. ReadFrom(s, RenderValue(v)) = Reading("between", <<>>, Append(r, v))
    BY <2>1, <2>5, Zenon
  <2> QED BY <2>4, <2>6 DEF Stands
<1>6. CASE v = Null
  <2>1. RenderValue(v) = <<"NULL">>
    BY <1>6 DEF RenderValue, Null
  <2>2. <<"NULL">> \in Seq(Symbol)
    <3>1. "NULL" \in Symbol
      BY DEF Symbol
    <3> QED BY <3>1
  <2>3. ReadFrom(s, <<"NULL">>) = ReadCharacter(s, "NULL")
    BY ReadShort
  <2>4. ReadCharacter(s, "NULL") = Reading("between", <<>>, Append(r, v))
    BY <1>1, <1>6, Begins
  <2> QED BY <2>1, <2>2, <2>3, <2>4 DEF Stands
<1> QED BY <1>2, <1>3, <1>4, <1>5, <1>6

(***************************************************************************)
(* Names                                                                   *)
(***************************************************************************)

\* A name ends where no character of a name follows.
LEMMA NameEnds ==
    ASSUME NEW S, NEW t \in Seq(S), NEW k \in 1..Len(t)
    PROVE  /\ NameEnd(t, k) \in k..Len(t)
           /\ \A m \in (k + 1)..NameEnd(t, k) : t[m] \in NameCharacter
           /\ NameEnd(t, k) < Len(t) => t[NameEnd(t, k) + 1] \notin NameCharacter
<1> DEFINE N == Len(t)
           E == {j \in k..N : \A m \in (k + 1)..j : t[m] \in NameCharacter}
           D == {n \in Nat : n <= N /\ N - n \in E}
           e == Max(E)
<1>1. N \in Nat /\ k \in Nat /\ k <= N
  OBVIOUS
<1>2. k \in E
  BY <1>1
<1>3. N - k \in D
  BY <1>1, <1>2
<1>4. PICK d \in D : \A n \in D : d <= n
  <2>1. D \in SUBSET Nat /\ D # {}
    BY <1>3
  <2> HIDE DEF D
  <2> QED BY <2>1, LeastMember
<1>5. N - d \in E /\ \A j \in E : N - d >= j
  <2>1. N - d \in E
    BY <1>4
  <2>2. ASSUME NEW j \in E PROVE N - d >= j
    <3>1. j \in Nat /\ j <= N
      BY <1>1
    <3>2. N - (N - j) = j
      BY <1>1, <3>1
    <3>3. N - j \in D
      BY <1>1, <3>1, <3>2
    <3>4. d \in Nat /\ d <= N - j
      BY <1>4, <3>3
    <3> QED BY <1>1, <3>1, <3>4
  <2> QED BY <2>1, <2>2
<1>6. e \in E /\ \A j \in E : e >= j
  <2> HIDE DEF E
  <2> QED BY <1>5 DEF Max
<1>7. NameEnd(t, k) = e
  BY DEF NameEnd
<1> HIDE DEF e
<1>8. e \in k..N /\ \A m \in (k + 1)..e : t[m] \in NameCharacter
  BY <1>6
<1>9. ASSUME e < N, t[e + 1] \in NameCharacter PROVE FALSE
  <2>1. e \in Nat /\ e + 1 \in k..N
    BY <1>1, <1>8, <1>9
  <2>2. ASSUME NEW m \in (k + 1)..(e + 1) PROVE t[m] \in NameCharacter
    <3>1. m = e + 1 \/ m \in (k + 1)..e
      BY <1>1, <2>1
    <3> QED BY <1>8, <1>9, <3>1
  <2>3. e + 1 \in E
    BY <2>1, <2>2
  <2>4. e >= e + 1
    BY <1>6, <2>3
  <2> QED BY <2>1, <2>4
<1> QED BY <1>7, <1>8, <1>9

\* What the constructor takes is the name that stands there.
LEMMA NameTaken ==
    ASSUME NEW S, NEW t \in Seq(S), NEW k \in 1..Len(t), t[k] = "@"
    PROVE  SubSeq(t, k, NameEnd(t, k)) = NameAt(t, k)
<1> DEFINE N == Len(t)
           e == NameEnd(t, k)
           rest == SubSeq(t, k + 1, N)
           L == {j \in DOMAIN rest : \A m \in 1..j : rest[m] \in NameCharacter}
<1>1. N \in Nat /\ k \in Nat /\ 1 <= k /\ k <= N
  OBVIOUS
<1>2. /\ e \in Nat /\ k <= e /\ e <= N
      /\ \A m \in (k + 1)..e : t[m] \in NameCharacter
      /\ e < N => t[e + 1] \notin NameCharacter
  <2>1. e \in k..N
    BY NameEnds
  <2>2. e \in Nat /\ k <= e /\ e <= N
    BY <1>1, <2>1
  <2> QED BY <2>2, NameEnds
<1> HIDE DEF e
<1>3. /\ rest \in Seq(S) /\ Len(rest) = N - k
      /\ \A m \in 1..(N - k) : rest[m] = t[k + m]
  <2> DEFINE a == k + 1
  <2>1. a \in Int /\ N \in Int /\ \A j \in a..N : t[j] \in S
    BY <1>1
  <2>2. /\ SubSeq(t, a, N) \in Seq(S)
        /\ Len(SubSeq(t, a, N)) = IF a <= N THEN N - a + 1 ELSE 0
        /\ \A j \in 1..(N - a + 1) : SubSeq(t, a, N)[j] = t[a + j - 1]
    <3> HIDE DEF a, N
    <3> QED BY <2>1, SubSeqProperties
  <2>3. Len(rest) = N - k
    BY <1>1, <2>2
  <2>4. \A m \in 1..(N - k) : rest[m] = t[k + m]
    <3> TAKE m \in 1..(N - k)
    <3>1. N - a + 1 = N - k /\ a + m - 1 = k + m
      BY <1>1
    <3> QED BY <2>2, <3>1
  <2> QED BY <2>2, <2>3, <2>4
<1> HIDE DEF rest
<1>4. DOMAIN rest = 1..(N - k)
  BY <1>1, <1>3
<1>5. L = 1..(e - k)
  <2>1. ASSUME NEW j \in 1..(e - k) PROVE j \in L
    <3>1. j \in 1..(N - k)
      BY <1>1, <1>2
    <3>2. ASSUME NEW m \in 1..j PROVE rest[m] \in NameCharacter
      <4>1. m \in 1..(N - k) /\ k + m \in (k + 1)..e
        BY <1>1, <1>2, <3>1
      <4> QED BY <1>2, <1>3, <4>1
    <3> QED BY <1>4, <3>1, <3>2
  <2>2. ASSUME NEW j \in L PROVE j \in 1..(e - k)
    <3>1. j \in Nat /\ 1 <= j /\ j <= N - k /\ \A m \in 1..j : rest[m] \in NameCharacter
      BY <1>1, <1>4
    <3>2. ASSUME j > e - k PROVE FALSE
      <4> DEFINE m == e - k + 1
      <4>1. m \in 1..j /\ m \in 1..(N - k) /\ k + m = e + 1 /\ e < N
        BY <1>1, <1>2, <3>1, <3>2
      <4> HIDE DEF m
      <4>2. rest[m] = t[e + 1]
        BY <1>3, <4>1
      <4> QED BY <1>2, <3>1, <4>1, <4>2
    <3> QED BY <1>1, <1>2, <3>1, <3>2
  <2> QED BY <2>1, <2>2
<1>6. Cardinality(L) = e - k
  <2> DEFINE n == e - k
  <2>1. n \in Nat
    BY <1>1, <1>2
  <2>2. L = 1..n
    BY <1>5
  <2> HIDE DEF n, L
  <2>3. Cardinality(1..n) = IF 1 > n THEN 0 ELSE n - 1 + 1
    BY <2>1, FS_Interval
  <2>4. Cardinality(L) = n
    BY <2>1, <2>2, <2>3
  <2> QED BY <2>4 DEF n
<1> DEFINE u == SubSeq(t, k, e)
           x == SubSeq(rest, 1, e - k)
           y == SubSeq(t, k + 1, e)
<1>7. u = <<"@">> \o y
  <2>1. k \in 1..Len(t) /\ e \in k..Len(t)
    BY <1>1, <1>2
  <2> QED BY <2>1, SubSeqRecursiveFirst
<1>8. x = y
  <2> DEFINE n == e - k
             a == k + 1
  <2>1. n \in Nat /\ n <= N - k
    BY <1>1, <1>2
  <2>2. /\ x \in Seq(S) /\ Len(x) = n
        /\ \A m \in 1..n : x[m] = t[k + m]
    <3>1. \A m \in 1..n : rest[m] \in S
      <4> TAKE m \in 1..n
      <4>1. m \in 1..Len(rest)
        BY <1>1, <1>3, <2>1
      <4> QED BY <1>3, <4>1
    <3> HIDE DEF n
    <3>2. /\ SubSeq(rest, 1, n) \in Seq(S)
          /\ Len(SubSeq(rest, 1, n)) = IF 1 <= n THEN n - 1 + 1 ELSE 0
          /\ \A m \in 1..(n - 1 + 1) : SubSeq(rest, 1, n)[m] = rest[1 + m - 1]
      BY <2>1, <3>1, SubSeqProperties
    <3> DEFINE z == SubSeq(rest, 1, n)
    <3> HIDE DEF z
    <3>3. z \in Seq(S) /\ Len(z) = n
      BY <2>1, <3>2 DEF z
    <3>4. ASSUME NEW m \in 1..n PROVE z[m] = t[k + m]
      <4>1. m \in 1..(n - 1 + 1) /\ 1 + m - 1 = m /\ m \in 1..(N - k)
        BY <1>1, <2>1
      <4>2. z[m] = rest[m]
        BY <3>2, <4>1 DEF z
      <4> QED BY <1>3, <4>1, <4>2
    <3> QED BY <3>3, <3>4 DEF z, n
  <2>3. /\ y \in Seq(S) /\ Len(y) = n
        /\ \A m \in 1..n : y[m] = t[k + m]
    <3>1. a \in Int /\ e \in Int /\ \A j \in a..e : t[j] \in S
      BY <1>1, <1>2
    <3>2. a <= e \/ n = 0
      BY <1>1, <1>2
    <3>3. e - a + 1 = n /\ \A j \in 1..n : a + j - 1 = k + j
      BY <1>1, <1>2
    <3> HIDE DEF a, n
    <3>4. /\ SubSeq(t, a, e) \in Seq(S)
          /\ Len(SubSeq(t, a, e)) = IF a <= e THEN e - a + 1 ELSE 0
          /\ \A j \in 1..(e - a + 1) : SubSeq(t, a, e)[j] = t[a + j - 1]
      BY <3>1, SubSeqProperties
    <3> DEFINE z == SubSeq(t, a, e)
    <3> HIDE DEF z
    <3>5. z \in Seq(S)
      BY <3>4 DEF z
    <3>6. Len(z) = n
      <4>1. Len(z) = IF a <= e THEN n ELSE 0
        BY <3>3, <3>4 DEF z
      <4>2. CASE a <= e
        BY <4>1, <4>2
      <4>3. CASE n = 0
        BY <4>1, <4>3
      <4> QED BY <3>2, <4>2, <4>3
    <3>7. \A m \in 1..n : z[m] = t[k + m]
      BY <3>3, <3>4 DEF z
    <3> QED BY <3>5, <3>6, <3>7 DEF z, a
  <2> HIDE DEF x, y, n
  <2> QED BY <2>2, <2>3, SeqEqual
<1>9. NameAt(t, k) = <<"@">> \o SubSeq(rest, 1, Cardinality(L))
  BY DEF NameAt, rest
<1>10. NameAt(t, k) = <<"@">> \o x
  <2> HIDE DEF L
  <2> QED BY <1>6, <1>9
<1> HIDE DEF u, x, y
<1>11. u = NameAt(t, k)
  BY <1>7, <1>8, <1>10
<1> QED BY <1>11 DEF u, e

\* The sign that starts a name stands in no name.
LEMMA SignOutside ==
    ASSUME NEW t, NEW k \in Nat, t[k] = "@"
    PROVE  ~InName(t, k)
<1> SUFFICES ASSUME InName(t, k) PROVE FALSE
  OBVIOUS
<1>1. PICK m \in 1..(k - 1) : t[m] = "@" /\ \A n \in (m + 1)..k : t[n] \in NameCharacter
  BY DEF InName
<1>2. k \in (m + 1)..k
  OBVIOUS
<1> QED BY <1>1, <1>2, TextAssumption

\* After a character outside names comes another, or a name.
LEMMA OutsideGoesOn ==
    ASSUME NEW t, NEW k \in Nat, ~InName(t, k), t[k] # "@"
    PROVE  ~InName(t, k + 1)
<1> SUFFICES ASSUME InName(t, k + 1) PROVE FALSE
  OBVIOUS
<1>1. PICK m \in 1..(k + 1 - 1) :
         t[m] = "@" /\ \A n \in (m + 1)..(k + 1) : t[n] \in NameCharacter
  BY DEF InName
<1>2. m \in 1..(k - 1)
  BY <1>1
<1>3. \A n \in (m + 1)..k : t[n] \in NameCharacter
  <2> TAKE n \in (m + 1)..k
  <2>1. n \in (m + 1)..(k + 1)
    OBVIOUS
  <2> QED BY <1>1, <2>1
<1> QED BY <1>1, <1>2, <1>3 DEF InName

\* The characters of a name, and what follows it.
LEMMA AlongName ==
    ASSUME NEW S, NEW t \in Seq(S), NEW k \in 1..Len(t), t[k] = "@"
    PROVE  /\ \A m \in (k + 1)..NameEnd(t, k) : InName(t, m) /\ t[m] # "@"
           /\ NameEnd(t, k) < Len(t) => ~InName(t, NameEnd(t, k) + 1)
<1> DEFINE N == Len(t)
           e == NameEnd(t, k)
<1>1. N \in Nat /\ k \in Nat /\ 1 <= k /\ k <= N
  OBVIOUS
<1>2. /\ e \in k..N
      /\ \A m \in (k + 1)..e : t[m] \in NameCharacter
      /\ e < N => t[e + 1] \notin NameCharacter
  BY NameEnds
<1> HIDE DEF e
<1>3. ASSUME NEW m \in (k + 1)..e PROVE InName(t, m) /\ t[m] # "@"
  <2>1. k \in 1..(m - 1)
    BY <1>1
  <2>2. \A n \in (k + 1)..m : t[n] \in NameCharacter
    <3> TAKE n \in (k + 1)..m
    <3>1. n \in (k + 1)..e
      BY <1>1, <1>2
    <3> QED BY <1>2, <3>1
  <2>3. t[m] # "@"
    BY <1>2, TextAssumption
  <2> QED BY <2>1, <2>2, <2>3 DEF InName
<1>4. ASSUME e < N, InName(t, e + 1) PROVE FALSE
  <2> DEFINE j == e + 1
  <2>0. InName(t, j)
    BY <1>4
  <2> HIDE DEF j
  <2>1. PICK m \in 1..(j - 1) :
           t[m] = "@" /\ \A n \in (m + 1)..j : t[n] \in NameCharacter
    BY <2>0, Zenon DEF InName
  <2>2. j \in (m + 1)..j /\ j = e + 1
    BY <1>1, <1>2 DEF j
  <2>3. t[j] \in NameCharacter
    BY <2>1, <2>2
  <2> QED BY <1>2, <1>4, <2>2, <2>3
<1> QED BY <1>3, <1>4 DEF e

(***************************************************************************)
(* What stands in a text                                                   *)
(***************************************************************************)

NameItem(name) == [type |-> "name", value |-> name]
CharacterItem(c) == [type |-> "character", value |-> c]

\* What place k of the text contributes.
ItemAt(t, k) ==
    CASE InName(t, k) -> <<>>
      [] t[k] = "@" -> <<NameItem(NameAt(t, k))>>
      [] t[k] # "@" /\ ~InName(t, k) -> <<CharacterItem(t[k])>>

ItemPieces(t) == [k \in DOMAIN t |-> ItemAt(t, k)]

\* The names and the other characters of the first k places.
Items(t) == Joined(ItemPieces(t))

Item(t) == {NameItem(NameAt(t, k)) : k \in {m \in DOMAIN t : t[m] = "@"}}
             \cup {CharacterItem(t[k]) : k \in DOMAIN t}

\* A name is no character.
LEMMA ItemsDiffer ==
    /\ \A x, y : NameItem(x) # CharacterItem(y)
    /\ \A x, y : NameItem(x) = NameItem(y) => x = y
    /\ \A x, y : CharacterItem(x) = CharacterItem(y) => x = y
<1>1. \A x : NameItem(x).type = "name" /\ NameItem(x).value = x
  BY DEF NameItem
<1>2. \A x : CharacterItem(x).type = "character" /\ CharacterItem(x).value = x
  BY DEF CharacterItem
<1>3. \A x, y : NameItem(x) # CharacterItem(y)
  <2> SUFFICES ASSUME NEW x, NEW y, NameItem(x) = CharacterItem(y) PROVE FALSE
    OBVIOUS
  <2>1. NameItem(x).type = CharacterItem(y).type
    OBVIOUS
  <2>2. NameItem(x).type = "name" /\ CharacterItem(y).type = "character"
    BY <1>1, <1>2
  <2> QED BY <2>1, <2>2
<1>4. \A x, y : NameItem(x) = NameItem(y) => x = y
  <2> SUFFICES ASSUME NEW x, NEW y, NameItem(x) = NameItem(y) PROVE x = y
    OBVIOUS
  <2>1. NameItem(x).value = NameItem(y).value
    OBVIOUS
  <2>2. NameItem(x).value = x /\ NameItem(y).value = y
    BY <1>1
  <2> QED BY <2>1, <2>2
<1>5. \A x, y : CharacterItem(x) = CharacterItem(y) => x = y
  <2> SUFFICES ASSUME NEW x, NEW y, CharacterItem(x) = CharacterItem(y) PROVE x = y
    OBVIOUS
  <2>1. CharacterItem(x).value = CharacterItem(y).value
    OBVIOUS
  <2>2. CharacterItem(x).value = x /\ CharacterItem(y).value = y
    BY <1>2
  <2> QED BY <2>1, <2>2
<1> QED BY <1>3, <1>4, <1>5

\* Each place contributes one item or none.
LEMMA ItemCases ==
    ASSUME NEW S, NEW t \in Seq(S), NEW k \in 1..Len(t)
    PROVE  /\ InName(t, k) => ItemAt(t, k) = <<>>
           /\ t[k] = "@" => ItemAt(t, k) = <<NameItem(NameAt(t, k))>>
           /\ t[k] # "@" /\ ~InName(t, k) => ItemAt(t, k) = <<CharacterItem(t[k])>>
           /\ ItemAt(t, k) \in Seq(Item(t))
<1>1. k \in Nat
  OBVIOUS
<1>2. InName(t, k) => t[k] # "@"
  BY <1>1, SignOutside
<1>3. InName(t, k) => ItemAt(t, k) = <<>>
  BY <1>2 DEF ItemAt
<1>4. t[k] = "@" => ItemAt(t, k) = <<NameItem(NameAt(t, k))>>
  BY <1>2 DEF ItemAt
<1>5. t[k] # "@" /\ ~InName(t, k) => ItemAt(t, k) = <<CharacterItem(t[k])>>
  BY DEF ItemAt
<1>6. ItemAt(t, k) \in Seq(Item(t))
  <2>1. CASE InName(t, k)
    <3>1. <<>> \in Seq(Item(t))
      OBVIOUS
    <3> QED BY <1>3, <2>1, <3>1
  <2>2. CASE t[k] = "@"
    <3> DEFINE x == NameItem(NameAt(t, k))
    <3>1. x \in Item(t)
      BY <2>2 DEF Item
    <3> HIDE DEF x
    <3>2. <<x>> \in Seq(Item(t))
      BY <3>1
    <3> QED BY <1>4, <2>2, <3>2 DEF x
  <2>3. CASE t[k] # "@" /\ ~InName(t, k)
    <3> DEFINE x == CharacterItem(t[k])
    <3>1. x \in Item(t)
      BY DEF Item
    <3> HIDE DEF x
    <3>2. <<x>> \in Seq(Item(t))
      BY <3>1
    <3> QED BY <1>5, <2>3, <3>2 DEF x
  <2> QED BY <2>1, <2>2, <2>3
<1> QED BY <1>3, <1>4, <1>5, <1>6

\* The items of a text grow place by place.
LEMMA ItemsGrow ==
    ASSUME NEW S, NEW t \in Seq(S)
    PROVE  /\ ItemPieces(t) \in Seq(Seq(Item(t))) /\ Len(ItemPieces(t)) = Len(t)
           /\ Items(t)[0] = <<>>
           /\ \A n \in 0..Len(t) : Items(t)[n] \in Seq(Item(t))
           /\ \A n \in Nat : n + 1 <= Len(t) =>
                 Items(t)[n + 1] = Items(t)[n] \o ItemAt(t, n + 1)
<1> DEFINE p == ItemPieces(t)
           N == Len(t)
<1>1. N \in Nat /\ DOMAIN t = 1..N
  OBVIOUS
<1>2. p \in [1..N -> Seq(Item(t))] /\ \A k \in 1..N : p[k] = ItemAt(t, k)
  BY <1>1, ItemCases DEF ItemPieces
<1> HIDE DEF p
<1>3. p \in Seq(Seq(Item(t))) /\ Len(p) = N
  BY <1>1, <1>2
<1>4. /\ Joined(p)[0] = <<>>
      /\ \A n \in Nat : n + 1 <= Len(p) => Joined(p)[n + 1] = Joined(p)[n] \o p[n + 1]
  BY <1>1, <1>3, JoinedSteps
<1>5. \A n \in 0..N : Joined(p)[n] \in Seq(Item(t))
  BY <1>3, JoinedType
<1>6. \A n \in Nat : n + 1 <= N => n + 1 \in 1..N
  OBVIOUS
<1>7. \A n \in Nat : n + 1 <= N => Joined(p)[n + 1] = Joined(p)[n] \o ItemAt(t, n + 1)
  <2> TAKE n \in Nat
  <2> HAVE n + 1 <= N
  <2>1. p[n + 1] = ItemAt(t, n + 1)
    BY <1>2, <1>6
  <2>2. Joined(p)[n + 1] = Joined(p)[n] \o p[n + 1]
    BY <1>3, <1>4
  <2> QED BY <2>1, <2>2, Zenon
<1> QED BY <1>3, <1>4, <1>5, <1>7 DEF Items, p

\* How the items grow: not inside a name, else by one.
LEMMA NextItem ==
    ASSUME NEW S, NEW t \in Seq(S), NEW k \in 1..Len(t)
    PROVE  /\ InName(t, k) => Items(t)[k] = Items(t)[k - 1]
           /\ t[k] = "@" => Items(t)[k] = Append(Items(t)[k - 1], NameItem(NameAt(t, k)))
           /\ t[k] # "@" /\ ~InName(t, k) =>
                 Items(t)[k] = Append(Items(t)[k - 1], CharacterItem(t[k]))
<1> DEFINE n == k - 1
           a == Items(t)[n]
           b == ItemAt(t, k)
<1>1. n \in Nat /\ n + 1 = k /\ n \in 0..Len(t) /\ n + 1 <= Len(t)
  OBVIOUS
<1>2. a \in Seq(Item(t)) /\ Items(t)[k] = a \o b
  <2> HIDE DEF n
  <2>1. Items(t)[n + 1] = Items(t)[n] \o ItemAt(t, n + 1)
    BY <1>1, ItemsGrow
  <2>2. Items(t)[n] \in Seq(Item(t))
    BY <1>1, ItemsGrow
  <2> QED BY <1>1, <2>1, <2>2
<1>3. b \in Seq(Item(t))
  BY ItemCases
<1> HIDE DEF a, b
<1>4. CASE InName(t, k)
  <2>1. b = <<>>
    BY <1>4, ItemCases DEF b
  <2>2. a \o <<>> = a
    BY <1>2, ConcatEmptySeq
  <2>3. t[k] # "@"
    BY <1>4, SignOutside
  <2> QED BY <1>2, <1>4, <2>1, <2>2, <2>3 DEF a, n
<1>5. ASSUME NEW x, b = <<x>>
      PROVE  Items(t)[k] = Append(Items(t)[k - 1], x)
  <2>1. x \in Item(t)
    <3>1. b[1] = x /\ Len(b) = 1
      BY <1>5
    <3>2. 1 \in 1..Len(b)
      BY <3>1
    <3>3. b[1] \in Item(t)
      BY <1>3, <3>2, ElementOfSeq
    <3> QED BY <3>1, <3>3
  <2>2. Append(a, x) = a \o <<x>>
    BY <1>2, <2>1, AppendIsConcat
  <2> QED BY <1>2, <1>5, <2>2 DEF a, n
<1>6. CASE t[k] = "@"
  <2>1. b = <<NameItem(NameAt(t, k))>>
    BY <1>6, ItemCases DEF b
  <2>2. ~InName(t, k)
    BY <1>6, SignOutside
  <2> QED BY <1>5, <1>6, <2>1, <2>2
<1>7. CASE t[k] # "@" /\ ~InName(t, k)
  <2>1. b = <<CharacterItem(t[k])>>
    BY <1>7, ItemCases DEF b
  <2> QED BY <1>5, <1>7, <2>1
<1> QED BY <1>4, <1>6, <1>7

\* The rest of a name contributes nothing.
LEMMA ItemsAlongName ==
    ASSUME NEW S, NEW t \in Seq(S), NEW k \in 1..Len(t), t[k] = "@"
    PROVE  Items(t)[NameEnd(t, k)] = Append(Items(t)[k - 1], NameItem(NameAt(t, k)))
<1> DEFINE e == NameEnd(t, k)
           P(n) == k + n <= e => Items(t)[k + n] = Items(t)[k]
           T == {n \in Nat : P(n)}
<1>1. e \in k..Len(t) /\ Len(t) \in Nat /\ k \in Nat
  BY NameEnds
<1>2. \A m \in (k + 1)..e : InName(t, m)
  BY AlongName
<1> HIDE DEF e
<1>3. 0 \in T
  BY <1>1
<1>4. ASSUME NEW n \in T PROVE n + 1 \in T
  <2> SUFFICES ASSUME k + (n + 1) <= e PROVE Items(t)[k + (n + 1)] = Items(t)[k]
    BY <1>4
  <2> DEFINE m == k + (n + 1)
  <2>1. m \in (k + 1)..e /\ m \in 1..Len(t) /\ m - 1 = k + n /\ k + n <= e
    BY <1>1
  <2> HIDE DEF m
  <2>2. Items(t)[m] = Items(t)[m - 1]
    BY <1>2, <2>1, NextItem
  <2>3. Items(t)[m] = Items(t)[k]
    BY <1>4, <2>1, <2>2
  <2> QED BY <2>3 DEF m
<1> HIDE DEF P
<1>5. T = Nat
  BY <1>3, <1>4, SetInduction
<1>6. e - k \in Nat /\ k + (e - k) = e
  BY <1>1
<1>7. e <= e /\ P(e - k)
  BY <1>1, <1>5, <1>6
<1>8. Items(t)[e] = Items(t)[k]
  BY <1>1, <1>6, <1>7 DEF P
<1> QED BY <1>8, NextItem DEF e

(***************************************************************************)
(* The normalized text                                                     *)
(***************************************************************************)

\* The question marks among the first k characters.
Marks(s, k) == Cardinality({m \in 1..k : s[m] = "?"})

\* They are counted one by one.
LEMMA MarksCount ==
    ASSUME NEW s
    PROVE  /\ Marks(s, 0) = 0
           /\ \A k \in Nat : Marks(s, k) \in Nat
           /\ \A k \in Nat :
                 Marks(s, k + 1) = IF s[k + 1] = "?" THEN Marks(s, k) + 1 ELSE Marks(s, k)
<1> DEFINE M(k) == {m \in 1..k : s[m] = "?"}
<1>1. Marks(s, 0) = 0
  <2>1. M(0) = {}
    OBVIOUS
  <2> QED BY <2>1, FS_EmptySet DEF Marks
<1>2. ASSUME NEW k \in Nat PROVE IsFiniteSet(M(k))
  <2>1. IsFiniteSet(1..k)
    BY FS_Interval
  <2>2. M(k) \subseteq 1..k
    OBVIOUS
  <2> QED BY <2>1, <2>2, FS_Subset
<1>3. \A k \in Nat : Marks(s, k) = Cardinality(M(k)) /\ Marks(s, k) \in Nat
  BY <1>2, FS_CardinalityType DEF Marks
<1>4. ASSUME NEW k \in Nat
      PROVE  Marks(s, k + 1) = IF s[k + 1] = "?" THEN Marks(s, k) + 1 ELSE Marks(s, k)
  <2>1. k + 1 \in Nat /\ k + 1 \notin M(k)
    OBVIOUS
  <2>2. CASE s[k + 1] = "?"
    <3>1. M(k + 1) = M(k) \cup {k + 1}
      BY <2>2
    <3> DEFINE A == M(k)
    <3>2. IsFiniteSet(A) /\ k + 1 \notin A
      BY <1>2, <2>1
    <3>3. Marks(s, k) = Cardinality(A) /\ Marks(s, k + 1) = Cardinality(A \cup {k + 1})
      BY <1>3, <2>1, <3>1
    <3> HIDE DEF A
    <3>4. Cardinality(A \cup {k + 1}) = Cardinality(A) + 1
      BY <3>2, FS_AddElement
    <3> QED BY <2>2, <3>3, <3>4
  <2>3. CASE s[k + 1] # "?"
    <3>1. M(k + 1) = M(k)
      BY <2>3
    <3> HIDE DEF M
    <3> QED BY <1>3, <2>1, <2>3, <3>1
  <2> QED BY <2>2, <2>3
<1> QED BY <1>1, <1>3, <1>4

\* A character at the end changes no count before it.
LEMMA MarksOfPrefix ==
    ASSUME NEW S, NEW s \in Seq(S), NEW c \in S
    PROVE  \A k \in 0..Len(s) : Marks(Append(s, c), k) = Marks(s, k)
<1> TAKE k \in 0..Len(s)
<1>1. \A m \in 1..Len(s) : Append(s, c)[m] = s[m]
  BY AppendProperties
<1>2. \A m \in 1..k : m \in 1..Len(s)
  OBVIOUS
<1> DEFINE z == Append(s, c)
<1> HIDE DEF z
<1>3. {m \in 1..k : z[m] = "?"} = {m \in 1..k : s[m] = "?"}
  BY <1>1, <1>2 DEF z
<1> QED BY <1>3 DEF Marks, z

\* A question mark at the end is one more.
LEMMA MarksOneMore ==
    ASSUME NEW S, NEW s \in Seq(S), "?" \in S
    PROVE  Marks(Append(s, "?"), Len(s) + 1) = Marks(s, Len(s)) + 1
<1> DEFINE N == Len(s)
           z == Append(s, "?")
<1>1. N \in Nat /\ N \in 0..N
  OBVIOUS
<1>2. z[N + 1] = "?"
  BY AppendProperties
<1>3. Marks(z, N) = Marks(s, N)
  BY <1>1, MarksOfPrefix
<1> HIDE DEF z, N
<1>4. Marks(z, N + 1) = Marks(z, N) + 1
  BY <1>1, <1>2, MarksCount
<1> QED BY <1>3, <1>4 DEF z, N

\* The normalized text s stands for the items x: a question mark for the name
\* its number belongs to, every other character for itself.
Matches(s, x, bp, nm) ==
    \A n \in 1..Len(s) :
        /\ s[n] = "?" =>
              /\ Marks(s, n) \in 1..Len(bp)
              /\ x[n] = NameItem(nm[bp[Marks(s, n)]])
              /\ n > 1 => s[n - 1] # "?"
        /\ s[n] # "?" => s[n] \notin Special /\ x[n] = CharacterItem(s[n])

\* It does so with one character more.
LEMMA MatchesCharacter ==
    ASSUME NEW S, NEW T, NEW s \in Seq(S), NEW x \in Seq(T), Len(s) = Len(x),
           NEW bp, NEW nm, Matches(s, x, bp, nm),
           NEW c \in S, c \notin Special, CharacterItem(c) \in T
    PROVE  /\ Matches(Append(s, c), Append(x, CharacterItem(c)), bp, nm)
           /\ Marks(Append(s, c), Len(s) + 1) = Marks(s, Len(s))
<1> DEFINE N == Len(s)
           z == Append(s, c)
           y == Append(x, CharacterItem(c))
<1>1. N \in Nat /\ c # "?"
  BY DEF Special
<1>2. /\ z \in Seq(S) /\ Len(z) = N + 1 /\ \A n \in 1..N : z[n] = s[n]
      /\ z[N + 1] = c
  BY AppendProperties
<1>3. /\ \A n \in 1..N : y[n] = x[n]
      /\ y[N + 1] = CharacterItem(c)
  BY AppendProperties
<1>4. \A k \in 0..N : Marks(z, k) = Marks(s, k)
  BY MarksOfPrefix
<1> HIDE DEF z, y, N
<1>5. Marks(z, N + 1) = Marks(s, N)
  <2>1. Marks(z, N + 1) = Marks(z, N)
    BY <1>1, <1>2, MarksCount
  <2>2. N \in 0..N
    BY <1>1
  <2> QED BY <1>4, <2>1, <2>2
<1>6. Matches(z, y, bp, nm)
  <2> SUFFICES ASSUME NEW n \in 1..(N + 1)
               PROVE  /\ z[n] = "?" =>
                            /\ Marks(z, n) \in 1..Len(bp)
                            /\ y[n] = NameItem(nm[bp[Marks(z, n)]])
                            /\ n > 1 => z[n - 1] # "?"
                      /\ z[n] # "?" => z[n] \notin Special /\ y[n] = CharacterItem(z[n])
    BY <1>2 DEF Matches
  <2>1. CASE n \in 1..N
    <3>1. z[n] = s[n] /\ y[n] = x[n] /\ Marks(z, n) = Marks(s, n)
      BY <1>2, <1>3, <1>4, <2>1
    <3>2. n > 1 => z[n - 1] = s[n - 1]
      BY <1>1, <1>2, <2>1
    <3>3. /\ s[n] = "?" =>
                            /\ Marks(s, n) \in 1..Len(bp)
                            /\ x[n] = NameItem(nm[bp[Marks(s, n)]])
                            /\ n > 1 => s[n - 1] # "?"
          /\ s[n] # "?" => s[n] \notin Special /\ x[n] = CharacterItem(s[n])
      BY <2>1, Zenon DEF Matches, N
    <3> QED BY <3>1, <3>2, <3>3
  <2>2. CASE n = N + 1
    BY <1>1, <1>2, <1>3, <2>2
  <2> QED BY <1>1, <2>1, <2>2
<1> QED BY <1>5, <1>6 DEF z, y, N

\* And with one name more, known or new.
LEMMA MatchesName ==
    ASSUME NEW S, NEW T, NEW s \in Seq(S), NEW x \in Seq(T), Len(s) = Len(x), "?" \in S,
           NEW bp \in Seq(Nat), NEW nm, NEW nn, NEW j \in Nat,
           Matches(s, x, bp, nm), Len(bp) = Marks(s, Len(s)),
           Len(s) # 0 => s[Len(s)] # "?",
           \A n \in 1..Len(bp) : nn[bp[n]] = nm[bp[n]],
           NameItem(nn[j]) \in T
    PROVE  Matches(Append(s, "?"), Append(x, NameItem(nn[j])), Append(bp, j), nn)
<1> DEFINE N == Len(s)
           z == Append(s, "?")
           y == Append(x, NameItem(nn[j]))
           bq == Append(bp, j)
           L == Len(bp)
<1>1. N \in Nat /\ L \in Nat
  OBVIOUS
<1>2. /\ z \in Seq(S) /\ Len(z) = N + 1 /\ \A n \in 1..N : z[n] = s[n]
      /\ z[N + 1] = "?"
  BY AppendProperties
<1>3. /\ \A n \in 1..N : y[n] = x[n]
      /\ y[N + 1] = NameItem(nn[j])
  BY AppendProperties
<1>4. \A k \in 0..N : Marks(z, k) = Marks(s, k)
  BY MarksOfPrefix
<1>5. Len(bq) = L + 1 /\ bq[L + 1] = j /\ \A n \in 1..L : bq[n] = bp[n]
  BY AppendProperties
<1> HIDE DEF z, y, bq, L, N
<1>6. Marks(z, N + 1) = L + 1
  <2>1. Marks(z, N + 1) = Marks(s, N) + 1
    BY MarksOneMore DEF z, N
  <2> QED BY <2>1 DEF L, N
<1>7. Matches(z, y, bq, nn)
  <2> SUFFICES ASSUME NEW n \in 1..(N + 1)
               PROVE  /\ z[n] = "?" =>
                            /\ Marks(z, n) \in 1..Len(bq)
                            /\ y[n] = NameItem(nn[bq[Marks(z, n)]])
                            /\ n > 1 => z[n - 1] # "?"
                      /\ z[n] # "?" => z[n] \notin Special /\ y[n] = CharacterItem(z[n])
    BY <1>2 DEF Matches
  <2>1. CASE n \in 1..N
    <3>1. z[n] = s[n] /\ y[n] = x[n] /\ Marks(z, n) = Marks(s, n)
      BY <1>2, <1>3, <1>4, <2>1
    <3>2. n > 1 => z[n - 1] = s[n - 1]
      <4> SUFFICES ASSUME n > 1 PROVE z[n - 1] = s[n - 1]
        OBVIOUS
      <4>1. n - 1 \in 1..N
        BY <1>1, <2>1
      <4> QED BY <1>2, <4>1, Zenon
    <3>3. /\ s[n] = "?" =>
                            /\ Marks(s, n) \in 1..L
                            /\ x[n] = NameItem(nm[bp[Marks(s, n)]])
                            /\ n > 1 => s[n - 1] # "?"
          /\ s[n] # "?" => s[n] \notin Special /\ x[n] = CharacterItem(s[n])
      BY <2>1, Zenon DEF Matches, N, L
    <3>4. CASE s[n] = "?"
      <4> DEFINE m == Marks(s, n)
      <4>1. m \in 1..L /\ x[n] = NameItem(nm[bp[m]])
        BY <3>3, <3>4
      <4> HIDE DEF m
      <4>2. m \in 1..(L + 1) /\ bq[m] = bp[m]
        BY <1>1, <1>5, <4>1
      <4>3. nn[bp[m]] = nm[bp[m]]
        BY <4>1 DEF L
      <4>4. y[n] = NameItem(nn[bq[m]])
        BY <3>1, <4>1, <4>2, <4>3
      <4> QED BY <1>5, <3>1, <3>2, <3>3, <3>4, <4>2, <4>4 DEF m
    <3>5. CASE s[n] # "?"
      BY <3>1, <3>3, <3>5
    <3> QED BY <3>4, <3>5
  <2>2. CASE n = N + 1
    <3>1. z[n] = "?" /\ Marks(z, n) = L + 1 /\ y[n] = NameItem(nn[j])
      BY <1>2, <1>3, <1>6, <2>2
    <3>2. n > 1 => z[n - 1] # "?"
      <4>1. N # 0 => s[N] # "?"
        BY DEF N
      <4>2. n - 1 = N
        BY <1>1, <2>2
      <4>3. n > 1 => N \in 1..N /\ N # 0
        BY <1>1, <2>2
      <4> QED BY <1>2, <4>1, <4>2, <4>3
    <3> QED BY <1>1, <1>5, <3>1, <3>2
  <2> QED BY <1>1, <2>1, <2>2
<1> QED BY <1>7 DEF z, y, bq, L, N

(***************************************************************************)
(* The inductive invariant                                                 *)
(***************************************************************************)

\* The numbering is one to one.
Distinct(nm) == \A m \in 1..Len(nm), n \in 1..Len(nm) : nm[m] = nm[n] => m = n

\* What has been normalized stands for what has been read of the text.
NormalizeInv ==
    /\ sql \in Template
    /\ i \in 1..(Len(sql) + 1)
    /\ i <= Len(sql) => ~InName(sql, i)
    /\ normalized \in Seq(Character \cup {"?"})
    /\ names \in Seq(NamesIn(sql))
    /\ Distinct(names)
    /\ byPosition \in Seq(Nat)
    /\ \A n \in 1..Len(byPosition) : byPosition[n] \in 1..Len(names)
    /\ Len(byPosition) = Marks(normalized, Len(normalized))
    /\ Len(normalized) = Len(Items(sql)[i - 1])
    /\ Matches(normalized, Items(sql)[i - 1], byPosition, names)
    /\ \A k \in 1..(i - 1) :
          sql[k] = "@" => \E n \in 1..Len(names) : names[n] = NameAt(sql, k)

\* Every number has the value that was given its name.
BindInv ==
    /\ i = Len(sql) + 1
    /\ bound \in [1..Len(names) -> Bindable]
    /\ given \in [NamesIn(sql) -> Bindable]
    /\ \A n \in 1..Len(names) : bound[n] = given[names[n]]

TextInv ==
    /\ textPc \in {"idle", "normalize", "bind", "sent"}
    /\ textPc \in {"normalize", "bind"} => NormalizeInv
    /\ textPc = "bind" => BindInv
    /\ textPc = "sent" => ServerReads(sent) = Meant

\* The texts are sequences of characters.
LEMMA TemplateType ==
    ASSUME NEW t \in Template
    PROVE  /\ t \in Seq(Character) /\ Len(t) \in Nat /\ DOMAIN t = 1..Len(t)
           /\ \A k \in 1..Len(t) :
                 /\ t[k] \in Character
                 /\ t[k] = "@" /\ k > 1 => t[k - 1] \notin NameCharacter \cup {"@"}
                 /\ t[k] \in Special => InName(t, k)
<1>1. t \in Seq(Character)
  BY TextAssumption
<1>2. Len(t) \in Nat /\ DOMAIN t = 1..Len(t) /\ \A k \in 1..Len(t) : t[k] \in Character
  BY <1>1
<1> QED BY <1>1, <1>2, TextAssumption

\* Prepare starts with nothing.
LEMMA PrepareInv ==
    ASSUME NEW t \in Template, Prepare(t)
    PROVE  NormalizeInv'
<1>1. /\ sql' = t /\ i' = 1 /\ normalized' = <<>> /\ names' = <<>> /\ byPosition' = <<>>
  BY DEF Prepare
<1>2. t \in Seq(Character) /\ Len(t) \in Nat
  BY TemplateType
<1>3. ~InName(t, 1)
  BY DEF InName
<1>4. Items(t)[0] = <<>>
  BY <1>2, ItemsGrow
<1>5. Marks(<<>>, 0) = 0
  BY MarksCount
<1>6. /\ <<>> \in Seq(Character \cup {"?"}) /\ <<>> \in Seq(NamesIn(t)) /\ <<>> \in Seq(Nat)
      /\ Len(<<>>) = 0
  BY EmptySeq
<1>7. Distinct(<<>>) /\ Matches(<<>>, <<>>, <<>>, <<>>)
  BY <1>6 DEF Distinct, Matches
<1>8. /\ i' \in 1..(Len(sql') + 1) /\ i' - 1 = 0 /\ (i' <= Len(sql') => ~InName(sql', i'))
  BY <1>1, <1>2, <1>3
<1>9. /\ \A n \in 1..Len(byPosition') : byPosition'[n] \in 1..Len(names')
      /\ \A k \in 1..(i' - 1) :
          sql'[k] = "@" => \E n \in 1..Len(names') : names'[n] = NameAt(sql', k)
  BY <1>1, <1>6, <1>8
<1>10. /\ Len(byPosition') = Marks(normalized', Len(normalized'))
       /\ Len(normalized') = Len(Items(sql')[i' - 1])
       /\ Matches(normalized', Items(sql')[i' - 1], byPosition', names')
  BY <1>1, <1>4, <1>5, <1>6, <1>7, <1>8
<1>11. /\ normalized' \in Seq(Character \cup {"?"}) /\ names' \in Seq(NamesIn(sql'))
       /\ Distinct(names') /\ byPosition' \in Seq(Nat) /\ sql' \in Template
  BY <1>1, <1>6, <1>7
<1> QED BY <1>8, <1>9, <1>10, <1>11 DEF NormalizeInv, NamesIn, Distinct

\* A character outside names stands for itself.
LEMMA CopyInv ==
    ASSUME NormalizeInv, CopyCharacter
    PROVE  NormalizeInv'
<1> DEFINE c == sql[i]
           x == Items(sql)[i - 1]
           N == Len(normalized)
           S == Character \cup {"?"}
           T == Item(sql)
<1>1. /\ i <= Len(sql) /\ c # "@"
      /\ normalized' = Append(normalized, c) /\ i' = i + 1
      /\ sql' = sql /\ names' = names /\ byPosition' = byPosition
  BY DEF CopyCharacter
<1>2. /\ sql \in Template /\ sql \in Seq(Character) /\ Len(sql) \in Nat
      /\ i \in 1..Len(sql) /\ i \in Nat /\ i - 1 \in 0..Len(sql)
  BY <1>1, TemplateType DEF NormalizeInv
<1>3. ~InName(sql, i) /\ c \in Character /\ c \notin Special /\ c \in S
  BY <1>1, <1>2, TemplateType DEF NormalizeInv
<1>4. x \in Seq(T) /\ CharacterItem(c) \in T
  <2>1. i \in DOMAIN sql
    BY <1>2
  <2> QED BY <1>2, <2>1, ItemsGrow DEF Item
<1>5. Items(sql)[i] = Append(x, CharacterItem(c))
  BY <1>1, <1>2, <1>3, NextItem
<1>6. normalized \in Seq(S) /\ N = Len(x) /\ Matches(normalized, x, byPosition, names)
  BY DEF NormalizeInv
<1>7. /\ Matches(normalized', Items(sql)[i], byPosition, names)
      /\ Marks(normalized', N + 1) = Marks(normalized, N)
  <2> HIDE DEF S, T, x, c
  <2>1. /\ Matches(Append(normalized, c), Append(x, CharacterItem(c)), byPosition, names)
        /\ Marks(Append(normalized, c), N + 1) = Marks(normalized, N)
    BY <1>3, <1>4, <1>6, MatchesCharacter
  <2> QED BY <1>1, <1>5, <2>1
<1>8. normalized' \in Seq(S) /\ Len(normalized') = N + 1
  <2> HIDE DEF S, c
  <2> QED BY <1>1, <1>3, <1>6, AppendProperties
<1>9. Len(Items(sql)[i]) = N + 1
  <2> HIDE DEF S, T, x, c
  <2> QED BY <1>4, <1>5, <1>6, AppendProperties
<1> HIDE DEF S, T, x, c, N
<1>10. i' - 1 = i /\ i' \in 1..(Len(sql') + 1)
  BY <1>1, <1>2
<1>11. i' <= Len(sql') => ~InName(sql', i')
  BY <1>1, <1>2, <1>3, OutsideGoesOn DEF c
<1>12. /\ Len(byPosition') = Marks(normalized', Len(normalized'))
       /\ Len(normalized') = Len(Items(sql')[i' - 1])
       /\ Matches(normalized', Items(sql')[i' - 1], byPosition', names')
  <2>1. Len(byPosition) = Marks(normalized, N)
    BY DEF NormalizeInv, N
  <2> QED BY <1>1, <1>7, <1>8, <1>9, <1>10, <2>1
<1>13. ASSUME NEW k \in 1..(i' - 1), sql'[k] = "@"
       PROVE  \E n \in 1..Len(names') : names'[n] = NameAt(sql', k)
  <2>1. k \in 1..(i - 1)
    BY <1>1, <1>2, <1>10, <1>13 DEF c
  <2> QED BY <1>1, <1>13, <2>1 DEF NormalizeInv
<1>14. /\ sql' \in Template /\ names' \in Seq(NamesIn(sql'))
       /\ Distinct(names') /\ byPosition' \in Seq(Nat)
       /\ \A n \in 1..Len(byPosition') : byPosition'[n] \in 1..Len(names')
  BY <1>1 DEF NormalizeInv, NamesIn, Distinct
<1> QED BY <1>8, <1>10, <1>11, <1>12, <1>13, <1>14 DEF NormalizeInv, S, NamesIn, Distinct

\* The number of a name finds the name again, and no name has two.
LEMMA NumberFinds ==
    ASSUME NEW S, names \in Seq(S), NEW x \in S, NEW nn,
           nn = IF Contains(names, x) THEN names ELSE Append(names, x)
    PROVE  /\ nn \in Seq(S) /\ Len(nn) \in Nat /\ Len(names) <= Len(nn)
           /\ \A n \in 1..Len(names) : nn[n] = names[n]
           /\ Number(x) \in 1..Len(nn) /\ nn[Number(x)] = x
           /\ Distinct(names) => Distinct(nn)
<1>1. DOMAIN names = 1..Len(names) /\ Len(names) \in Nat
  OBVIOUS
<1>2. CASE Contains(names, x)
  <2>1. \E n \in DOMAIN names : names[n] = x
    BY <1>1, <1>2 DEF Contains
  <2> DEFINE m == CHOOSE n \in DOMAIN names : names[n] = x
  <2>2. m \in DOMAIN names /\ names[m] = x
    BY <2>1
  <2>3. Number(x) = m
    BY <1>2 DEF Number
  <2> HIDE DEF m
  <2> QED BY <1>1, <1>2, <2>2, <2>3
<1>3. CASE ~Contains(names, x)
  <2>1. Number(x) = Len(names) + 1 /\ nn = Append(names, x)
    BY <1>3 DEF Number
  <2>2. /\ nn \in Seq(S) /\ Len(nn) = Len(names) + 1
        /\ \A n \in 1..Len(names) : nn[n] = names[n]
        /\ nn[Len(names) + 1] = x
    BY <2>1, AppendProperties
  <2>3. \A n \in 1..Len(names) : names[n] # x
    BY <1>3 DEF Contains
  <2>4. Distinct(names) => Distinct(nn)
    <3> SUFFICES ASSUME Distinct(names), NEW m \in 1..Len(nn), NEW n \in 1..Len(nn),
                        nn[m] = nn[n]
                 PROVE  m = n
      BY DEF Distinct
    <3>1. /\ m \in 1..Len(names) \/ m = Len(names) + 1
          /\ n \in 1..Len(names) \/ n = Len(names) + 1
      BY <1>1, <2>2
    <3>2. CASE m \in 1..Len(names) /\ n \in 1..Len(names)
      BY <2>2, <3>2 DEF Distinct
    <3> QED BY <2>2, <2>3, <3>1, <3>2
  <2> QED BY <1>1, <2>1, <2>2, <2>4
<1> QED BY <1>2, <1>3

\* A name becomes a question mark with its number.
LEMMA TakeInv ==
    ASSUME NormalizeInv, TakeParameter
    PROVE  NormalizeInv'
<1> DEFINE x == Items(sql)[i - 1]
           N == Len(normalized)
           S == Character \cup {"?"}
           T == Item(sql)
           e == NameEnd(sql, i)
           name == NameAt(sql, i)
           j == Number(name)
<1>1. /\ i <= Len(sql) /\ sql[i] = "@"
      /\ normalized' = Append(normalized, "?") /\ i' = e + 1 /\ sql' = sql
      /\ names' = IF Contains(names, SubSeq(sql, i, e)) THEN names
                                                        ELSE Append(names, SubSeq(sql, i, e))
      /\ byPosition' = Append(byPosition, Number(SubSeq(sql, i, e)))
  BY DEF TakeParameter
<1>2. /\ sql \in Template /\ sql \in Seq(Character) /\ Len(sql) \in Nat
      /\ i \in 1..Len(sql) /\ i \in Nat /\ i - 1 \in 0..Len(sql) /\ DOMAIN sql = 1..Len(sql)
  BY <1>1, TemplateType DEF NormalizeInv
<1>3. SubSeq(sql, i, e) = name
  BY <1>1, <1>2, NameTaken
<1>4. name \in NamesIn(sql) /\ NameItem(name) \in T
  BY <1>1, <1>2 DEF NamesIn, Item
<1>5. x \in Seq(T)
  BY <1>2, ItemsGrow
<1>6. /\ e \in i..Len(sql) /\ Items(sql)[e] = Append(x, NameItem(name))
      /\ \A m \in (i + 1)..e : sql[m] # "@"
      /\ e < Len(sql) => ~InName(sql, e + 1)
  BY <1>1, <1>2, NameEnds, AlongName, ItemsAlongName
<1>7. normalized \in Seq(S) /\ N = Len(x) /\ Matches(normalized, x, byPosition, names)
  BY DEF NormalizeInv
<1> HIDE DEF name, e
<1>8. /\ names' = IF Contains(names, name) THEN names ELSE Append(names, name)
      /\ byPosition' = Append(byPosition, j)
  BY <1>1, <1>3
<1> HIDE DEF j, x, S, T
<1>9. /\ names' \in Seq(NamesIn(sql)) /\ Len(names') \in Nat /\ Len(names) <= Len(names')
      /\ \A n \in 1..Len(names) : names'[n] = names[n]
      /\ j \in 1..Len(names') /\ names'[j] = name
      /\ Distinct(names')
  <2>1. names \in Seq(NamesIn(sql)) /\ Distinct(names)
    BY DEF NormalizeInv
  <2> DEFINE nn == names'
             z == Number(name)
             D == Distinct(nn)
  <2>2. nn = IF Contains(names, name) THEN names ELSE Append(names, name)
    BY <1>8
  <2>3. Distinct(names') = Distinct(nn)
    BY DEF Distinct
  <2> HIDE DEF nn
  <2>4. /\ nn \in Seq(NamesIn(sql)) /\ Len(nn) \in Nat /\ Len(names) <= Len(nn)
        /\ \A n \in 1..Len(names) : nn[n] = names[n]
        /\ z \in 1..Len(nn) /\ nn[z] = name /\ D
    <3> DEFINE R == NamesIn(sql)
    <3>1. names \in Seq(R) /\ name \in R /\ Distinct(names)
      BY <1>4, <2>1
    <3> HIDE DEF R
    <3>2. nn \in Seq(R)
      BY <2>2, <3>1, NumberFinds
    <3>3. Len(nn) \in Nat /\ Len(names) <= Len(nn)
      BY <2>2, <3>1, NumberFinds
    <3>4. \A n \in 1..Len(names) : nn[n] = names[n]
      BY <2>2, <3>1, NumberFinds
    <3>5. z \in 1..Len(nn)
      BY <2>2, <3>1, NumberFinds
    <3>6. nn[z] = name
      BY <2>2, <3>1, NumberFinds
    <3>7. D
      BY <2>2, <3>1, NumberFinds
    <3> QED BY <3>2, <3>3, <3>4, <3>5, <3>6, <3>7 DEF R
  <2> QED BY <2>3, <2>4 DEF nn, j
<1>10. N # 0 => normalized[N] # "?"
  <2> SUFFICES ASSUME N # 0, normalized[N] = "?" PROVE FALSE
    OBVIOUS
  <2>1. N \in 1..N
    BY <1>7
  <2>2. PICK y : x[N] = NameItem(y)
    BY <1>7, <2>1 DEF Matches
  <2>3. i # 1
    <3> SUFFICES ASSUME i = 1 PROVE FALSE
      OBVIOUS
    <3>1. Items(sql)[0] = <<>>
      BY <1>2, ItemsGrow
    <3>2. i - 1 = 0
      OBVIOUS
    <3>3. x = <<>>
      BY <3>1, <3>2 DEF x
    <3> QED BY <1>7, <3>3
  <2> DEFINE k == i - 1
  <2>4. k \in 1..Len(sql) /\ i > 1
    BY <1>2, <2>3
  <2>5. sql[k] \notin NameCharacter /\ sql[k] # "@"
    <3> HIDE DEF k
    <3>1. sql[i] = "@" /\ i > 1 => sql[i - 1] \notin NameCharacter \cup {"@"}
      BY <1>2, TemplateType
    <3> QED BY <1>1, <2>4, <3>1 DEF k
  <2> HIDE DEF k
  <2>6. ~InName(sql, k)
    <3> SUFFICES ASSUME InName(sql, k) PROVE FALSE
      OBVIOUS
    <3>1. PICK m \in 1..(k - 1) : sql[m] = "@" /\ \A n \in (m + 1)..k : sql[n] \in NameCharacter
      BY DEF InName
    <3>2. k \in (m + 1)..k
      BY <2>4
    <3> QED BY <2>5, <3>1, <3>2
  <2>7. x = Append(Items(sql)[k - 1], CharacterItem(sql[k]))
    BY <1>2, <2>4, <2>5, <2>6, NextItem DEF x, k
  <2> DEFINE w == Items(sql)[k - 1]
             f == CharacterItem(sql[k])
  <2>8. w \in Seq(T) /\ f \in T
    <3>1. k - 1 \in 0..Len(sql) /\ k \in DOMAIN sql
      BY <1>2, <2>4
    <3>2. \A n \in 0..Len(sql) : Items(sql)[n] \in Seq(Item(sql))
      BY <1>2, ItemsGrow
    <3>3. w \in Seq(T)
      BY <3>1, <3>2 DEF T
    <3>4. f \in T
      BY <3>1 DEF T, Item
    <3> QED BY <3>3, <3>4
  <2> HIDE DEF w, f
  <2>9. x = Append(w, f)
    BY <2>7 DEF w, f
  <2>10. Len(x) = Len(w) + 1 /\ x[Len(w) + 1] = f /\ Len(w) \in Nat
    BY <2>8, <2>9, AppendProperties
  <2>11. x[N] = f
    BY <1>7, <2>10
  <2> QED BY <2>2, <2>11, ItemsDiffer DEF f
<1>11. /\ Matches(normalized', Items(sql)[e], byPosition', names')
       /\ Marks(normalized', N + 1) = Len(byPosition) + 1
  <2>1. /\ byPosition \in Seq(Nat) /\ Len(byPosition) = Marks(normalized, N)
        /\ \A n \in 1..Len(byPosition) : byPosition[n] \in 1..Len(names)
    BY DEF NormalizeInv
  <2>2. "?" \in S /\ j \in Nat
    BY <1>9 DEF S
  <2> DEFINE nn == names'
  <2>3. \A n \in 1..Len(byPosition) : nn[byPosition[n]] = names[byPosition[n]]
    BY <1>9, <2>1
  <2>4. NameItem(nn[j]) \in T
    BY <1>4, <1>9
  <2>5. nn[j] = name
    BY <1>9
  <2> HIDE DEF nn
  <2>6. /\ Matches(Append(normalized, "?"), Append(x, NameItem(nn[j])), Append(byPosition, j), nn)
        /\ Marks(Append(normalized, "?"), Len(normalized) + 1) = Len(byPosition) + 1
    <3>1. normalized \in Seq(S) /\ Len(normalized) = Len(x)
      BY <1>7
    <3>2. Matches(normalized, x, byPosition, names)
      BY <1>7
    <3>3. Len(normalized) # 0 => normalized[Len(normalized)] # "?"
      BY <1>10
    <3>4. Len(byPosition) = Marks(normalized, Len(normalized)) /\ byPosition \in Seq(Nat)
      BY <2>1
    <3>5. Matches(Append(normalized, "?"), Append(x, NameItem(nn[j])), Append(byPosition, j), nn)
      BY <1>5, <2>2, <2>3, <2>4, <3>1, <3>2, <3>3, <3>4, MatchesName
    <3>6. Marks(Append(normalized, "?"), Len(normalized) + 1) = Len(byPosition) + 1
      BY <2>2, <3>1, <3>4, MarksOneMore
    <3> QED BY <3>5, <3>6
  <2>7. Matches(normalized', Items(sql)[e], byPosition', nn)
    BY <1>1, <1>6, <1>8, <2>5, <2>6
  <2> QED BY <1>1, <2>6, <2>7 DEF nn
<1>12. normalized' \in Seq(S) /\ Len(normalized') = N + 1
  <2>1. "?" \in S
    BY DEF S
  <2> QED BY <1>1, <1>7, <2>1, AppendProperties
<1>13. Len(Items(sql)[e]) = N + 1
  BY <1>4, <1>5, <1>6, <1>7, AppendProperties
<1>14. /\ byPosition' \in Seq(Nat) /\ Len(byPosition') = Len(byPosition) + 1
       /\ \A n \in 1..Len(byPosition') : byPosition'[n] \in 1..Len(names')
  <2>1. /\ byPosition \in Seq(Nat) /\ Len(byPosition) \in Nat /\ j \in Nat
        /\ \A n \in 1..Len(byPosition) : byPosition[n] \in 1..Len(names)
    BY <1>9 DEF NormalizeInv
  <2>2. /\ byPosition' \in Seq(Nat) /\ Len(byPosition') = Len(byPosition) + 1
        /\ \A n \in 1..Len(byPosition) : byPosition'[n] = byPosition[n]
        /\ byPosition'[Len(byPosition) + 1] = j
    BY <1>8, <2>1, AppendProperties
  <2>3. ASSUME NEW n \in 1..Len(byPosition') PROVE byPosition'[n] \in 1..Len(names')
    <3>1. CASE n \in 1..Len(byPosition)
      <4>1. byPosition'[n] \in 1..Len(names)
        BY <2>1, <2>2, <3>1
      <4>2. Len(names) \in Nat
        BY DEF NormalizeInv
      <4> QED BY <1>9, <4>1, <4>2
    <3>2. CASE n = Len(byPosition) + 1
      BY <1>9, <2>2, <3>2
    <3> QED BY <2>1, <2>2, <3>1, <3>2
  <2> QED BY <2>2, <2>3
<1> HIDE DEF N
<1>15. i' - 1 = e /\ i' \in 1..(Len(sql') + 1) /\ (i' <= Len(sql') => ~InName(sql', i'))
  <2>1. e \in Nat /\ i <= e /\ e <= Len(sql)
    BY <1>2, <1>6
  <2> QED BY <1>1, <1>2, <1>6, <2>1
<1>16. /\ Len(byPosition') = Marks(normalized', Len(normalized'))
       /\ Len(normalized') = Len(Items(sql')[i' - 1])
       /\ Matches(normalized', Items(sql')[i' - 1], byPosition', names')
  BY <1>1, <1>11, <1>12, <1>13, <1>14, <1>15
<1>17. ASSUME NEW k \in 1..(i' - 1), sql'[k] = "@"
       PROVE  \E n \in 1..Len(names') : names'[n] = NameAt(sql', k)
  <2>1. CASE k = i
    BY <1>1, <1>9, <2>1 DEF name
  <2>2. CASE k # i
    <3>1. k \in 1..e /\ k \notin (i + 1)..e
      BY <1>1, <1>6, <1>15, <1>17
    <3>2. k \in 1..(i - 1)
      BY <1>2, <1>6, <2>2, <3>1
    <3>3. PICK n \in 1..Len(names) : names[n] = NameAt(sql, k)
      BY <1>1, <1>17, <3>2 DEF NormalizeInv
    <3>4. n \in 1..Len(names') /\ names'[n] = NameAt(sql', k)
      <4>1. Len(names) \in Nat
        BY DEF NormalizeInv
      <4> QED BY <1>1, <1>9, <3>3, <4>1
    <3> QED BY <3>4
  <2> QED BY <2>1, <2>2
<1>18. sql' \in Template /\ names' \in Seq(NamesIn(sql'))
  BY <1>1, <1>2, <1>9
<1> QED BY <1>9, <1>12, <1>14, <1>15, <1>16, <1>17, <1>18 DEF NormalizeInv, S, NamesIn, Distinct

\* When the whole text has been read, every name has a number.
LEMMA EveryNameNumbered ==
    ASSUME NormalizeInv, i = Len(sql) + 1
    PROVE  ToSet(names) = NamesIn(sql) /\ DOMAIN names = 1..Len(names)
<1>1. sql \in Template /\ names \in Seq(NamesIn(sql)) /\ i - 1 = Len(sql)
  BY TemplateType DEF NormalizeInv
<1>2. DOMAIN names = 1..Len(names) /\ DOMAIN sql = 1..Len(sql)
  BY <1>1, TemplateType
<1>3. ToSet(names) \subseteq NamesIn(sql)
  BY <1>1, <1>2 DEF ToSet
<1>4. ASSUME NEW x \in NamesIn(sql) PROVE x \in ToSet(names)
  <2>1. PICK k \in DOMAIN sql : sql[k] = "@" /\ x = NameAt(sql, k)
    BY DEF NamesIn
  <2>2. k \in 1..(i - 1)
    BY <1>1, <1>2
  <2>3. PICK n \in 1..Len(names) : names[n] = NameAt(sql, k)
    BY <2>1, <2>2 DEF NormalizeInv
  <2> QED BY <1>2, <2>1, <2>3 DEF ToSet
<1> QED BY <1>2, <1>3, <1>4

\* At first every number and every name has no value.
LEMMA NormalizedInv ==
    ASSUME NormalizeInv, Normalized
    PROVE  NormalizeInv' /\ BindInv'
<1>1. /\ i > Len(sql)
      /\ bound' = [n \in DOMAIN names |-> Null]
      /\ given' = [x \in NamesIn(sql) |-> Null]
      /\ sql' = sql /\ i' = i /\ normalized' = normalized /\ names' = names
      /\ byPosition' = byPosition
  BY DEF Normalized
<1>2. NormalizeInv'
  BY <1>1 DEF NormalizeInv, NamesIn, Distinct
<1>3. i = Len(sql) + 1 /\ Len(sql) \in Nat
  <2>1. sql \in Template /\ i \in 1..(Len(sql) + 1)
    BY DEF NormalizeInv
  <2>2. Len(sql) \in Nat
    BY <2>1, TemplateType
  <2> QED BY <1>1, <2>1, <2>2
<1>4. /\ DOMAIN names = 1..Len(names)
      /\ \A n \in 1..Len(names) : names[n] \in NamesIn(sql)
  BY DEF NormalizeInv
<1>5. Null \in Bindable
  BY DEF Bindable
<1>6. /\ bound' \in [1..Len(names') -> Bindable]
      /\ given' \in [NamesIn(sql)' -> Bindable]
  <2>1. NamesIn(sql)' = NamesIn(sql)
    BY <1>1 DEF NamesIn
  <2> QED BY <1>1, <1>4, <1>5, <2>1
<1>7. \A n \in 1..Len(names') : bound'[n] = given'[names'[n]]
  BY <1>1, <1>4
<1> QED BY <1>1, <1>2, <1>3, <1>6, <1>7 DEF BindInv

\* A value reaches the number of its name and no other.
LEMMA BindKeeps ==
    ASSUME NormalizeInv, BindInv, NEW x \in NamesIn(sql), NEW v \in BoundValue, Bind(x, v)
    PROVE  NormalizeInv' /\ BindInv'
<1> DEFINE j == Number(x)
           R == NamesIn(sql)
<1>1. /\ Contains(names, x)
      /\ bound' = [bound EXCEPT ![j] = v]
      /\ given' = [given EXCEPT ![x] = v]
      /\ sql' = sql /\ i' = i /\ normalized' = normalized /\ names' = names
      /\ byPosition' = byPosition
  BY DEF Bind
<1>2. NormalizeInv'
  BY <1>1 DEF NormalizeInv, NamesIn, Distinct
<1>3. R' = R
  BY <1>1 DEF NamesIn
<1>4. /\ names \in Seq(R) /\ x \in R /\ Distinct(names)
      /\ i = Len(sql) + 1
      /\ bound \in [1..Len(names) -> Bindable]
      /\ given \in [R -> Bindable]
      /\ \A n \in 1..Len(names) : bound[n] = given[names[n]]
  BY DEF NormalizeInv, BindInv
<1> HIDE DEF R
<1>5. j \in 1..Len(names) /\ names[j] = x
  <2>1. names = IF Contains(names, x) THEN names ELSE Append(names, x)
    BY <1>1
  <2>2. Number(x) \in 1..Len(names)
    BY <1>4, <2>1, NumberFinds
  <2>3. names[Number(x)] = x
    BY <1>4, <2>1, NumberFinds
  <2> QED BY <2>2, <2>3
<1> HIDE DEF j
<1>6. v \in Bindable
  BY DEF Bindable
<1>7. ASSUME NEW n \in 1..Len(names) PROVE bound'[n] = given'[names[n]]
  <2>1. names[n] \in R
    BY <1>4
  <2>2. CASE n = j
    BY <1>1, <1>4, <1>5, <2>1, <2>2
  <2>3. CASE n # j
    <3>1. names[n] # x
      BY <1>4, <1>5, <2>3 DEF Distinct
    <3> QED BY <1>1, <1>4, <2>1, <2>3, <3>1
  <2> QED BY <2>2, <2>3
<1>8. /\ bound' \in [1..Len(names') -> Bindable]
      /\ given' \in [R -> Bindable]
  BY <1>1, <1>4, <1>6
<1>9. BindInv'
  BY <1>1, <1>3, <1>4, <1>7, <1>8 DEF BindInv, R
<1> QED BY <1>2, <1>9

(***************************************************************************)
(* What the server reads                                                   *)
(***************************************************************************)

\* What an item means.
Given(x) == IF x.type = "name" THEN given[x.value] ELSE x

Value == Bindable \cup {CharacterItem(c) : c \in Character}

\* A name means its value, a character itself.
LEMMA GivenIs ==
    /\ \A x : Given(NameItem(x)) = given[x]
    /\ \A c : Given(CharacterItem(c)) = CharacterItem(c)
<1>1. \A x : NameItem(x).type = "name" /\ NameItem(x).value = x
  BY DEF NameItem
<1>2. \A c : CharacterItem(c).type = "character"
  BY DEF CharacterItem
<1>3. ASSUME NEW c PROVE Given(CharacterItem(c)) = CharacterItem(c)
  <2> DEFINE x == CharacterItem(c)
  <2>1. x.type # "name"
    BY <1>2
  <2> HIDE DEF x
  <2>2. Given(x) = x
    BY <2>1 DEF Given
  <2> QED BY <2>2 DEF x
<1>4. ASSUME NEW y PROVE Given(NameItem(y)) = given[y]
  <2> DEFINE x == NameItem(y)
  <2>1. x.type = "name" /\ x.value = y
    BY <1>1
  <2> HIDE DEF x
  <2>2. Given(x) = given[y]
    BY <2>1 DEF Given
  <2> QED BY <2>2 DEF x
<1> QED BY <1>3, <1>4

\* What is meant are the items, with the value of each name for the name.
LEMMA MeantIs ==
    ASSUME NormalizeInv, BindInv
    PROVE  LET x == Items(sql)[Len(sql)] IN
           /\ Meant \in Seq(Value) /\ Len(Meant) = Len(x)
           /\ \A n \in 1..Len(x) : Meant[n] = Given(x[n])
<1> DEFINE L == Len(sql)
           T == Item(sql)
           X(k) == Items(sql)[k]
           p == [k \in DOMAIN sql |->
                    CASE InName(sql, k) -> <<>>
                      [] sql[k] = "@" -> <<given[NameAt(sql, k)]>>
                      [] sql[k] # "@" /\ ~InName(sql, k) ->
                           <<[type |-> "character", value |-> sql[k]]>>]
           y == Joined(p)
           P(k) == k <= L => /\ Len(y[k]) = Len(X(k))
                             /\ \A n \in 1..Len(X(k)) : y[k][n] = Given(X(k)[n])
           U == {k \in Nat : P(k)}
<1>1. /\ sql \in Seq(Character) /\ L \in Nat /\ DOMAIN sql = 1..L
      /\ given \in [NamesIn(sql) -> Bindable]
  BY TemplateType DEF NormalizeInv, BindInv
<1>2. ASSUME NEW k \in 1..L
      PROVE  /\ InName(sql, k) => p[k] = <<>> /\ X(k) = X(k - 1)
             /\ ~InName(sql, k) =>
                   \E z \in T : Given(z) \in Value /\ p[k] = <<Given(z)>> /\ X(k) = Append(X(k - 1), z)
  <2>1. k \in Nat /\ k \in DOMAIN sql
    BY <1>1
  <2>2. CASE InName(sql, k)
    <3>1. p[k] = <<>>
      BY <2>1, <2>2, SignOutside
    <3>2. X(k) = X(k - 1)
      BY <1>1, <2>2, NextItem
    <3> QED BY <2>2, <3>1, <3>2
  <2>3. CASE sql[k] = "@"
    <3> DEFINE z == NameItem(NameAt(sql, k))
    <3>1. ~InName(sql, k)
      BY <2>1, <2>3, SignOutside
    <3>2. p[k] = <<given[NameAt(sql, k)]>>
      BY <2>1, <2>3, <3>1
    <3>3. Given(z) = given[NameAt(sql, k)]
      BY GivenIs
    <3>4. given[NameAt(sql, k)] \in Value
      <4>1. NameAt(sql, k) \in NamesIn(sql)
        BY <2>1, <2>3 DEF NamesIn
      <4> QED BY <1>1, <4>1 DEF Value
    <3>5. z \in T
      BY <2>1, <2>3 DEF Item
    <3>6. X(k) = Append(X(k - 1), z)
      BY <1>1, <2>3, NextItem
    <3> HIDE DEF z, p, X
    <3>7. p[k] = <<Given(z)>>
      BY <3>2, <3>3
    <3> QED BY <3>1, <3>3, <3>4, <3>5, <3>6, <3>7
  <2>4. CASE sql[k] # "@" /\ ~InName(sql, k)
    <3> DEFINE z == CharacterItem(sql[k])
    <3>1. p[k] = <<z>>
      BY <2>1, <2>4 DEF CharacterItem
    <3>2. Given(z) = z
      BY GivenIs
    <3>3. z \in Value
      BY <1>1, <2>1 DEF Value
    <3>4. z \in T
      BY <2>1 DEF Item
    <3>5. X(k) = Append(X(k - 1), z)
      BY <1>1, <2>4, NextItem
    <3> HIDE DEF z, p, X
    <3> QED BY <2>4, <3>1, <3>2, <3>3, <3>4, <3>5
  <2> QED BY <2>2, <2>3, <2>4
<1>3. Meant = FlattenSeq(p)
  BY DEF Meant
<1>4. DOMAIN p = 1..L
  BY <1>1
<1> HIDE DEF p
<1>5. p \in Seq(Seq(Value)) /\ Len(p) = L
  <2>1. ASSUME NEW k \in 1..L PROVE p[k] \in Seq(Value)
    <3>1. CASE InName(sql, k)
      <4>1. <<>> \in Seq(Value)
        OBVIOUS
      <4> QED BY <1>2, <3>1, <4>1
    <3>2. CASE ~InName(sql, k)
      <4>1. PICK z \in T : Given(z) \in Value /\ p[k] = <<Given(z)>>
        BY <1>2, <3>2
      <4> DEFINE g == Given(z)
      <4> HIDE DEF g
      <4>2. g \in Value /\ p[k] = <<g>>
        BY <4>1 DEF g
      <4> QED BY <4>2
    <3> QED BY <3>1, <3>2
  <2>2. p \in [1..L -> Seq(Value)]
    <3>1. p = [k \in 1..L |-> p[k]]
      BY <1>1 DEF p
    <3> QED BY <2>1, <3>1
  <2> QED BY <1>1, <2>2
<1>6. Meant = y[L]
  BY <1>3, <1>5, FlattenIsJoined
<1>7. \A k \in 0..L : y[k] \in Seq(Value)
  BY <1>5, JoinedType
<1>8. /\ y[0] = <<>>
      /\ \A k \in Nat : k + 1 <= L => y[k + 1] = y[k] \o p[k + 1]
  BY <1>1, <1>5, JoinedSteps
<1>9. X(0) = <<>> /\ \A k \in 0..L : X(k) \in Seq(T)
  BY <1>1, ItemsGrow
<1> HIDE DEF y, X, L, T
<1>10. 0 \in U
  BY <1>8, <1>9
<1>11. ASSUME NEW k \in U PROVE k + 1 \in U
  <2> SUFFICES ASSUME k + 1 <= L
               PROVE  /\ Len(y[k + 1]) = Len(X(k + 1))
                      /\ \A n \in 1..Len(X(k + 1)) : y[k + 1][n] = Given(X(k + 1)[n])
    BY <1>11
  <2> DEFINE m == k + 1
             a == y[k]
             b == X(k)
             M == Len(b)
  <2>1. m \in 1..L /\ m - 1 = k /\ k \in 0..L /\ k <= L
    BY <1>1
  <2>2. /\ a \in Seq(Value) /\ b \in Seq(T) /\ y[m] = a \o p[m]
        /\ Len(a) = M /\ \A n \in 1..M : a[n] = Given(b[n])
    BY <1>7, <1>8, <1>9, <1>11, <2>1
  <2>3. X(m - 1) = b
    BY <2>1
  <2> HIDE DEF m, a, b, M
  <2>4. CASE InName(sql, m)
    <3>1. p[m] = <<>> /\ X(m) = b
      BY <1>2, <2>1, <2>3, <2>4
    <3>2. a \o <<>> = a
      BY <2>2, ConcatEmptySeq
    <3>3. y[m] = a
      BY <2>2, <3>1, <3>2
    <3> QED BY <2>2, <3>1, <3>3 DEF m, M
  <2>5. CASE ~InName(sql, m)
    <3>1. PICK z \in T : Given(z) \in Value /\ p[m] = <<Given(z)>> /\ X(m) = Append(b, z)
      BY <1>2, <2>1, <2>3, <2>5
    <3> DEFINE g == Given(z)
               c == y[m]
               d == X(m)
    <3>2. g \in Value /\ c = a \o <<g>> /\ d = Append(b, z)
      BY <2>2, <3>1
    <3>3. a \o <<g>> = Append(a, g)
      <4> HIDE DEF g
      <4> QED BY <2>2, <3>2, AppendIsConcat
    <3>4. c = Append(a, g)
      BY <3>2, <3>3
    <3> HIDE DEF c, d
    <3>5. Len(d) = M + 1 /\ d[M + 1] = z /\ \A n \in 1..M : d[n] = b[n]
      BY <2>2, <3>2, AppendProperties DEF M
    <3>6. Len(c) = M + 1 /\ c[M + 1] = g /\ \A n \in 1..M : c[n] = a[n]
      <4> HIDE DEF g
      <4> QED BY <2>2, <3>2, <3>4, AppendProperties
    <3>7. M \in Nat
      BY <2>2 DEF M
    <3>8. ASSUME NEW n \in 1..(M + 1) PROVE c[n] = Given(d[n])
      <4>1. CASE n \in 1..M
        BY <2>2, <3>5, <3>6, <4>1
      <4>2. CASE n = M + 1
        BY <3>5, <3>6, <4>2
      <4> QED BY <3>7, <4>1, <4>2
    <3> QED BY <3>5, <3>6, <3>8 DEF c, d, m
  <2> QED BY <2>4, <2>5
<1> HIDE DEF P
<1>12. L \in U
  BY <1>1, <1>10, <1>11, SetInduction
<1>13. L <= L /\ P(L) /\ L \in 0..L
  BY <1>1, <1>12
<1>14. /\ Len(y[L]) = Len(X(L))
       /\ \A n \in 1..Len(X(L)) : y[L][n] = Given(X(L)[n])
       /\ y[L] \in Seq(Value)
  BY <1>7, <1>13 DEF P
<1> QED BY <1>6, <1>14 DEF X, L

\* The server reads what was meant.
LEMMA SentIsRead ==
    ASSUME NormalizeInv, BindInv, ExecuteText
    PROVE  ServerReads(sent') = Meant
<1> DEFINE x == Items(sql)[Len(sql)]
           N == Len(normalized)
           p == [k \in DOMAIN normalized |->
                    IF normalized[k] = "?" THEN RenderedAt(k) ELSE <<normalized[k]>>]
           y == Joined(p)
           z == Meant
           b(r) == Reading("between", <<>>, r)
           s == b(<<>>)
           P(n) == n <= N =>
                     /\ Stands(ReadFrom(s, y[n]), SubSeq(z, 1, n))
                     /\ n = 0 \/ normalized[n] # "?" => ReadFrom(s, y[n]) = b(SubSeq(z, 1, n))
           U == {n \in Nat : P(n)}
<1>1. /\ normalized \in Seq(Character \cup {"?"}) /\ N \in Nat /\ DOMAIN normalized = 1..N
      /\ \A n \in 1..N : normalized[n] \in Character \cup {"?"}
  BY DEF NormalizeInv
<1>2. N = Len(x) /\ Matches(normalized, x, byPosition, names)
  <2>1. i - 1 = Len(sql)
    <3>1. i = Len(sql) + 1 /\ Len(sql) \in Nat
      BY TemplateType DEF NormalizeInv, BindInv
    <3> QED BY <3>1
  <2> QED BY <2>1 DEF NormalizeInv
<1>3. z \in Seq(Value) /\ Len(z) = N /\ \A n \in 1..N : z[n] = Given(x[n])
  BY <1>2, MeantIs
<1>4. ASSUME NEW n \in 1..N, normalized[n] = "?"
      PROVE  /\ p[n] = RenderValue(z[n]) /\ z[n] \in Bindable
             /\ n > 1 => normalized[n - 1] # "?"
  <2> DEFINE m == Marks(normalized, n)
             a == byPosition[m]
  <2>1. /\ m \in 1..Len(byPosition)
        /\ x[n] = NameItem(names[a])
        /\ n > 1 => normalized[n - 1] # "?"
    BY <1>2, <1>4, Zenon DEF Matches
  <2>2. p[n] = RenderValue(bound[a])
    <3>1. p[n] = RenderedAt(n)
      BY <1>1, <1>4
    <3>2. QuestionMarks(n) = m
      BY DEF QuestionMarks, Marks
    <3> HIDE DEF p, m
    <3> QED BY <3>1, <3>2 DEF RenderedAt
  <2> HIDE DEF m
  <2>3. a \in 1..Len(names)
    BY <2>1 DEF NormalizeInv
  <2> HIDE DEF a
  <2>4. bound[a] = given[names[a]] /\ bound[a] \in Bindable
    BY <2>3 DEF BindInv
  <2>5. z[n] = given[names[a]]
    BY <1>3, <2>1, GivenIs
  <2> HIDE DEF p, z
  <2> QED BY <2>1, <2>2, <2>4, <2>5
<1>5. ASSUME NEW n \in 1..N, normalized[n] # "?"
      PROVE  /\ p[n] = <<normalized[n]>> /\ normalized[n] \notin Special
             /\ z[n] = CharacterItem(normalized[n])
  <2>1. normalized[n] \notin Special /\ x[n] = CharacterItem(normalized[n])
    BY <1>2, <1>5, Zenon DEF Matches
  <2>2. z[n] = CharacterItem(normalized[n])
    BY <1>3, <2>1, GivenIs
  <2> QED BY <1>1, <1>5, <2>1, <2>2
<1>6. ServerReads(sent') = Ended(ReadFrom(s, FlattenSeq(p)))
  BY DEF ExecuteText, ServerReads
<1>7. DOMAIN p = 1..N /\ p = [k \in 1..N |-> p[k]]
  BY <1>1
<1> HIDE DEF z, x, s, p
<1>8. Stands(b(<<>>), <<>>)
  BY DEF Stands
<1>9. p \in Seq(Seq(Symbol)) /\ Len(p) = N
  <2>1. ASSUME NEW n \in 1..N PROVE p[n] \in Seq(Symbol)
    <3>1. CASE normalized[n] = "?"
      <4>1. p[n] = RenderValue(z[n]) /\ z[n] \in Bindable
        BY <1>4, <3>1
      <4> DEFINE v == z[n]
      <4> HIDE DEF v
      <4>2. v \in Bindable /\ p[n] = RenderValue(v)
        BY <4>1 DEF v
      <4>3. RenderValue(v) \in Seq(Symbol)
        BY <1>8, <4>2, ValueRead
      <4> QED BY <4>2, <4>3
    <3>2. CASE normalized[n] # "?"
      <4> DEFINE c == normalized[n]
      <4>1. c \in Symbol /\ p[n] = <<c>>
        BY <1>1, <1>5, <3>2 DEF Symbol
      <4> HIDE DEF c
      <4>2. <<c>> \in Seq(Symbol)
        BY <4>1
      <4> QED BY <4>1, <4>2
    <3> QED BY <3>1, <3>2
  <2>2. p \in [1..N -> Seq(Symbol)]
    BY <1>7, <2>1
  <2> QED BY <1>1, <2>2
<1>10. FlattenSeq(p) = y[N]
  BY <1>9, FlattenIsJoined
<1>11. /\ ReadFrom(s, y[0]) = s
       /\ \A n \in Nat : n + 1 <= N => ReadFrom(s, y[n + 1]) = ReadFrom(ReadFrom(s, y[n]), p[n + 1])
  <2>1. /\ ReadFrom(s, Joined(p)[0]) = s
        /\ \A n \in Nat : n + 1 <= Len(p) =>
              ReadFrom(s, Joined(p)[n + 1]) = ReadFrom(ReadFrom(s, Joined(p)[n]), p[n + 1])
    BY <1>9, ReadJoined, Zenon
  <2> QED BY <1>9, <2>1, Zenon
<1>12. /\ SubSeq(z, 1, 0) = <<>> /\ SubSeq(z, 1, N) = z
       /\ \A n \in Nat : n + 1 <= N => SubSeq(z, 1, n + 1) = Append(SubSeq(z, 1, n), z[n + 1])
  BY <1>3, Prefix
<1> HIDE DEF y, N
<1>13. 0 \in U
  BY <1>1, <1>8, <1>11, <1>12 DEF s
<1>14. ASSUME NEW n \in U PROVE n + 1 \in U
  <2> DEFINE a == n + 1
             q == ReadFrom(s, y[n])
             f == ReadFrom(s, y[a])
             r == SubSeq(z, 1, n)
             v == z[a]
  <2> SUFFICES ASSUME a <= N
               PROVE  /\ Stands(f, SubSeq(z, 1, a))
                      /\ normalized[a] # "?" => f = b(SubSeq(z, 1, a))
    BY <1>14
  <2>1. a \in 1..N /\ n <= N /\ n \in Nat /\ (n # 0 => a > 1 /\ a - 1 = n)
    BY <1>1
  <2>2. Stands(q, r) /\ (n = 0 \/ normalized[n] # "?" => q = b(r))
    BY <1>14, <2>1
  <2>3. f = ReadFrom(q, p[a]) /\ SubSeq(z, 1, a) = Append(r, v)
    BY <1>11, <1>12, <2>1
  <2> HIDE DEF q, f, r, v, a, b
  <2>4. CASE normalized[a] = "?"
    <3>1. p[a] = RenderValue(v) /\ v \in Bindable
      BY <1>4, <2>1, <2>4 DEF v
    <3>2. n = 0 \/ normalized[n] # "?"
      BY <1>4, <2>1, <2>4
    <3>3. q = b(r)
      BY <2>2, <3>2
    <3>4. Stands(ReadFrom(q, RenderValue(v)), Append(r, v))
      BY <2>2, <3>1, <3>3, ValueRead DEF b
    <3> QED BY <2>3, <2>4, <3>1, <3>4
  <2>5. CASE normalized[a] # "?"
    <3> DEFINE c == normalized[a]
    <3>1. p[a] = <<c>> /\ c \notin Special /\ v = CharacterItem(c)
      BY <1>5, <2>1, <2>5 DEF v
    <3> HIDE DEF c
    <3>2. c \notin Digit
      BY <3>1 DEF Special
    <3>3. ReadFrom(q, <<c>>) = ReadCharacter(q, c)
      BY ReadShort
    <3>4. ReadCharacter(q, c) = Begin(r, c)
      BY <2>2, <3>2, StandsStep
    <3>5. Begin(r, c) = b(Append(r, v))
      <4>1. Begin(r, c) = Reading("between", <<>>, Append(r, [type |-> "character", value |-> c]))
        BY <3>1, Begins
      <4> QED BY <3>1, <4>1, Zenon DEF b, CharacterItem
    <3>6. f = b(Append(r, v))
      BY <2>3, <3>1, <3>3, <3>4, <3>5, Zenon
    <3>7. Stands(f, Append(r, v))
      BY <3>6 DEF Stands, b
    <3> QED BY <2>3, <3>6, <3>7
  <2> QED BY <2>4, <2>5
<1> HIDE DEF P
<1>15. N \in U
  BY <1>1, <1>13, <1>14, SetInduction
<1>16. N <= N /\ P(N)
  BY <1>1, <1>15
<1>17. Stands(ReadFrom(s, y[N]), z)
  BY <1>12, <1>16 DEF P
<1>18. Ended(ReadFrom(s, y[N])) = z
  BY <1>17, StandsEnded
<1> QED BY <1>6, <1>10, <1>18 DEF z

(***************************************************************************)
(* Theorems                                                                *)
(***************************************************************************)

\* The invariant is inductive.
LEMMA TextStep ==
    ASSUME TextInv, [TextNext]_textVars
    PROVE  TextInv'
<1>1. CASE UNCHANGED textVars
  BY <1>1 DEF TextInv, NormalizeInv, BindInv, Distinct, NamesIn, Meant, textVars
<1>2. ASSUME NEW t \in Template, Prepare(t) PROVE TextInv'
  <2>1. NormalizeInv'
    BY <1>2, PrepareInv
  <2>2. textPc' = "normalize"
    BY <1>2 DEF Prepare
  <2> QED BY <2>1, <2>2 DEF TextInv
<1>3. CASE CopyCharacter
  <2>1. textPc = "normalize" /\ textPc' = "normalize"
    BY <1>3 DEF CopyCharacter
  <2>2. NormalizeInv'
    BY <1>3, <2>1, CopyInv DEF TextInv
  <2> QED BY <2>1, <2>2 DEF TextInv
<1>4. CASE TakeParameter
  <2>1. textPc = "normalize" /\ textPc' = "normalize"
    BY <1>4 DEF TakeParameter
  <2>2. NormalizeInv'
    BY <1>4, <2>1, TakeInv DEF TextInv
  <2> QED BY <2>1, <2>2 DEF TextInv
<1>5. CASE Normalized
  <2>1. textPc = "normalize" /\ textPc' = "bind"
    BY <1>5 DEF Normalized
  <2>2. NormalizeInv' /\ BindInv'
    BY <1>5, <2>1, NormalizedInv DEF TextInv
  <2> QED BY <2>1, <2>2 DEF TextInv
<1>6. ASSUME NEW x \in NamesIn(sql), NEW v \in BoundValue, Bind(x, v) PROVE TextInv'
  <2>1. textPc = "bind" /\ textPc' = "bind"
    BY <1>6 DEF Bind
  <2>2. NormalizeInv' /\ BindInv'
    BY <1>6, <2>1, BindKeeps DEF TextInv
  <2> QED BY <2>1, <2>2 DEF TextInv
<1>7. CASE ExecuteText
  <2>1. textPc = "bind" /\ textPc' = "sent" /\ sql' = sql /\ given' = given
    BY <1>7 DEF ExecuteText
  <2>2. ServerReads(sent') = Meant
    BY <1>7, <2>1, SentIsRead DEF TextInv
  <2>3. Meant' = Meant
    BY <2>1 DEF Meant
  <2> QED BY <2>1, <2>2, <2>3 DEF TextInv
<1>8. CASE Destroy
  <2>1. textPc' = "idle"
    BY <1>8 DEF Destroy
  <2> QED BY <2>1 DEF TextInv
<1> QED BY <1>1, <1>2, <1>3, <1>4, <1>5, <1>6, <1>7, <1>8 DEF TextNext

\* What has been normalized stands for what was read, and every number has the
\* value of its name.
THEOREM TextInvariant == TextSpec => []TextInv
<1>1. TextInit => TextInv
  BY DEF TextInit, TextInv
<1>2. TextInv /\ [TextNext]_textVars => TextInv'
  BY TextStep
<1> QED BY <1>1, <1>2, PTL DEF TextSpec

\* The server reads the statement the service meant.
THEOREM ValuesAlwaysArrive == TextSpec => []ValuesArrive
<1>1. TextInv => ValuesArrive
  <2> SUFFICES ASSUME TextInv PROVE ValuesArrive
    OBVIOUS
  <2>1. textPc = "bind" => ToSet(names) = NamesIn(sql)
    BY EveryNameNumbered DEF TextInv, BindInv
  <2> QED BY <2>1 DEF TextInv, ValuesArrive
<1> QED BY <1>1, TextInvariant, PTL
=============================================================================
