----------------------------- MODULE PolicyProofs -----------------------------
(***************************************************************************)
(* The window and the decisions of PolicyEngine, for any clock, any pauses *)
(* between requests, any payloads and any thresholds.                      *)
(***************************************************************************)
EXTENDS Policy, FiniteSetTheorems, SequenceTheorems, WellFoundedInduction, TLAPS

Window == (RateWindowSeconds + 1) * TicksPerSecond

(***************************************************************************)
(* The invariant                                                           *)
(***************************************************************************)

\* Of the evaluations l the first k are gone, all of them outside the window,
\* and q holds the rest.
Pruned(q, l, k, time) ==
    /\ k \in 0..Len(l)
    /\ q = SubSeq(l, k + 1, Len(l))
    /\ \A i \in 1..k : time - l[i] >= Window

\* Times in the order of the clock.
Ordered(l, time) ==
    /\ l \in Seq(Nat)
    /\ \A i \in 1..Len(l) : l[i] <= time
    /\ \A i, j \in 1..Len(l) : i <= j => l[i] <= l[j]

\* Queues drop nothing that is in the window, at any time: what has expired
\* leaves only when the action is evaluated again.
WindowInv ==
    /\ now \in Nat
    /\ last \subseteq ActionType
    /\ log \in [ActionType -> Seq(Nat)]
    /\ recentActions \in [ActionType -> Seq(Nat)]
    /\ \A a \in ActionType :
          /\ Ordered(log[a], now)
          /\ \E k \in Nat : Pruned(recentActions[a], log[a], k, now)
    /\ WindowExact

(***************************************************************************)
(* One queue                                                               *)
(***************************************************************************)

\* Ages cut to seconds exceed the window exactly when the ticks do.
LEMMA ExpiredMeans ==
    ASSUME now \in Nat, NEW t \in Nat, t <= now
    PROVE  Expired(t) <=> now - t >= Window
<1> DEFINE x == now - t
           k == TicksPerSecond
<1>1. x \in Nat /\ k \in Nat \ {0}
  BY PolicyAssumption
<1> HIDE DEF x, k
<1>2. x \div k > 10 <=> x >= 11 * k
  BY <1>1
<1> QED BY <1>2 DEF Expired, SecondsSince, Window, RateWindowSeconds, x, k

\* What has just been appended has not expired.
LEMMA NowInWindow == ASSUME now \in Nat PROVE ~Expired(now)
<1>1. Window \in Nat /\ now - now < Window
  BY PolicyAssumption DEF Window, RateWindowSeconds
<1>2. Expired(now) <=> now - now >= Window
  BY ExpiredMeans
<1> QED BY <1>1, <1>2

\* Some first number has what some number has.
LEMMA LeastMember ==
    ASSUME NEW S \in SUBSET Nat, S # {}
    PROVE  \E n \in S : \A j \in S : n <= j
<1> DEFINE T == {1..i : i \in S}
           R == StrictSubsetOrdering(Nat)
<1>1. T \subseteq FiniteSubsetsOf(Nat) /\ T # {}
  <2>1. \A i \in Nat : IsFiniteSet(1..i) /\ 1..i \subseteq Nat
    BY FS_Interval
  <2> QED BY <2>1 DEF FiniteSubsetsOf
<1>2. PICK x \in T : \A y \in T : <<y, x>> \notin R
  BY <1>1, FS_StrictSubsetOrderingWellFounded, WFMin
<1>3. PICK i \in S : x = 1..i
  BY <1>2
<1>4. ASSUME NEW j \in S, j < i PROVE FALSE
  <2>1. 1..j \subseteq 1..i /\ 1..j # 1..i
    BY <1>4
  <2>2. <<1..j, 1..i>> \in R
    BY <2>1 DEF StrictSubsetOrdering
  <2> QED BY <1>2, <1>3, <2>2
<1> QED BY <1>4

\* What remains of a list when its first k entries are gone.
LEMMA Remains ==
    ASSUME NEW S, NEW l \in Seq(S), NEW k \in 0..Len(l)
    PROVE  /\ SubSeq(l, k + 1, Len(l)) \in Seq(S)
           /\ Len(SubSeq(l, k + 1, Len(l))) = Len(l) - k
           /\ \A i \in 1..(Len(l) - k) : SubSeq(l, k + 1, Len(l))[i] = l[k + i]
<1>1. /\ Len(l) \in Nat /\ k + 1 \in Int /\ Len(l) \in Int
      /\ \A i \in (k + 1)..Len(l) : l[i] \in S
  OBVIOUS
<1>2. /\ SubSeq(l, k + 1, Len(l)) \in Seq(S)
      /\ Len(SubSeq(l, k + 1, Len(l))) =
            IF k + 1 <= Len(l) THEN Len(l) - (k + 1) + 1 ELSE 0
      /\ \A i \in 1..(Len(l) - (k + 1) + 1) : SubSeq(l, k + 1, Len(l))[i] = l[k + 1 + i - 1]
  BY <1>1, SubSeqProperties
<1> QED BY <1>1, <1>2

\* What is appended to the list is appended to what remains.
LEMMA RemainsAppended ==
    ASSUME NEW S, NEW l \in Seq(S), NEW k \in 0..Len(l), NEW e \in S
    PROVE  Append(SubSeq(l, k + 1, Len(l)), e)
             = SubSeq(Append(l, e), k + 1, Len(Append(l, e)))
<1> DEFINE q == SubSeq(l, k + 1, Len(l))
           m == Append(l, e)
           r == SubSeq(m, k + 1, Len(m))
<1>1. /\ q \in Seq(S) /\ Len(q) = Len(l) - k
      /\ \A i \in 1..(Len(l) - k) : q[i] = l[k + i]
  BY Remains
<1>2. /\ m \in Seq(S) /\ Len(m) = Len(l) + 1 /\ m[Len(l) + 1] = e
      /\ \A i \in 1..Len(l) : m[i] = l[i]
  BY AppendProperties
<1>3. k \in 0..Len(m)
  BY <1>2
<1>4. /\ r \in Seq(S) /\ Len(r) = Len(m) - k
      /\ \A i \in 1..(Len(m) - k) : r[i] = m[k + i]
  BY <1>2, <1>3, Remains
<1> HIDE DEF q, m, r
<1>5. /\ Append(q, e) \in Seq(S) /\ Len(Append(q, e)) = Len(q) + 1
      /\ \A i \in 1..Len(q) : Append(q, e)[i] = q[i]
      /\ Append(q, e)[Len(q) + 1] = e
  BY <1>1, AppendProperties
<1>6. \A i \in 1..Len(Append(q, e)) : Append(q, e)[i] = r[i]
  <2> TAKE i \in 1..Len(Append(q, e))
  <2>1. CASE i \in 1..Len(q)
    <3>1. k + i \in 1..Len(l) /\ i \in 1..(Len(l) - k) /\ i \in 1..(Len(m) - k)
      BY <1>1, <1>2, <2>1
    <3> QED BY <1>1, <1>2, <1>4, <1>5, <2>1, <3>1
  <2>2. CASE i = Len(q) + 1
    <3>1. k + i = Len(l) + 1 /\ i \in 1..(Len(m) - k)
      BY <1>1, <1>2, <2>2
    <3> QED BY <1>2, <1>4, <1>5, <2>2, <3>1
  <2>3. i \in 1..Len(q) \/ i = Len(q) + 1
    BY <1>1, <1>5
  <2> QED BY <2>1, <2>2, <2>3
<1>7. Len(Append(q, e)) = Len(r)
  BY <1>1, <1>2, <1>4, <1>5
<1>8. Append(q, e) = r
  BY <1>4, <1>5, <1>6, <1>7, SeqEqual
<1> QED BY <1>8 DEF q, m, r

\* What remains of what remains.
LEMMA RemainsTwice ==
    ASSUME NEW S, NEW l \in Seq(S), NEW k \in 0..Len(l), NEW n \in 1..(Len(l) - k)
    PROVE  SubSeq(SubSeq(l, k + 1, Len(l)), n, Len(SubSeq(l, k + 1, Len(l))))
             = SubSeq(l, k + n, Len(l))
<1>1. /\ k + 1 \in 1..Len(l) /\ Len(l) \in 1..Len(l)
      /\ n \in 1..(Len(l) - (k + 1) + 1) /\ Len(l) - k \in 1..(Len(l) - (k + 1) + 1)
      /\ k + 1 + n - 1 = k + n /\ k + 1 + (Len(l) - k) - 1 = Len(l)
  OBVIOUS
<1>2. SubSeq(SubSeq(l, k + 1, Len(l)), n, Len(l) - k)
        = SubSeq(l, k + 1 + n - 1, k + 1 + (Len(l) - k) - 1)
  BY <1>1, SubSeqOfSubSeq
<1>3. Len(SubSeq(l, k + 1, Len(l))) = Len(l) - k
  BY Remains
<1> QED BY <1>1, <1>2, <1>3

\* The first entry of a queue that has not expired, if there is one.
LEMMA FirstKept ==
    ASSUME NEW q, Len(q) \in Nat, NEW m \in 1..Len(q), ~Expired(q[m])
    PROVE  \E n \in 1..Len(q) : ~Expired(q[n]) /\ \A i \in 1..(n - 1) : Expired(q[i])
<1> DEFINE S == {n \in 1..Len(q) : ~Expired(q[n])}
<1>1. S \in SUBSET Nat /\ S # {}
  OBVIOUS
<1>2. PICK n \in S : \A j \in S : n <= j
  BY <1>1, LeastMember
<1>3. \A i \in 1..(n - 1) : i \in 1..Len(q) /\ ~(n <= i)
  BY <1>2
<1> QED BY <1>2, <1>3

\* The clock goes on and never back.
LEMMA OrderedLater ==
    ASSUME NEW l, NEW t \in Nat, NEW u \in Nat, t <= u, Ordered(l, t)
    PROVE  /\ Ordered(l, u) /\ Ordered(Append(l, u), u)
           /\ \A q, k : Pruned(q, l, k, t) => Pruned(q, l, k, u)
<1> DEFINE L == Append(l, u)
<1>1. l \in Seq(Nat) /\ Len(l) \in Nat /\ \A i \in 1..Len(l) : l[i] \in Nat /\ l[i] <= t
  BY DEF Ordered
<1>2. Ordered(l, u)
  BY <1>1 DEF Ordered
<1>3. /\ L \in Seq(Nat) /\ Len(L) = Len(l) + 1 /\ L[Len(l) + 1] = u
      /\ \A i \in 1..Len(l) : L[i] = l[i]
  BY <1>1, AppendProperties
<1> HIDE DEF L
<1>4. \A i \in 1..Len(L) : L[i] <= u
  <2> TAKE i \in 1..Len(L)
  <2>1. i \in 1..Len(l) \/ i = Len(l) + 1
    BY <1>1, <1>3
  <2>2. CASE i \in 1..Len(l)
    <3>1. L[i] = l[i] /\ l[i] \in Nat /\ l[i] <= t
      BY <1>1, <1>3, <2>2
    <3> QED BY <3>1
  <2>3. CASE i = Len(l) + 1
    BY <1>3, <2>3
  <2> QED BY <2>1, <2>2, <2>3
<1>5. \A i, j \in 1..Len(L) : i <= j => L[i] <= L[j]
  <2> TAKE i, j \in 1..Len(L)
  <2>1. (i \in 1..Len(l) \/ i = Len(l) + 1) /\ (j \in 1..Len(l) \/ j = Len(l) + 1)
    BY <1>1, <1>3
  <2>2. CASE j = Len(l) + 1
    BY <1>3, <1>4, <2>2
  <2>3. CASE j \in 1..Len(l)
    <3>1. i <= j => i \in 1..Len(l)
      BY <1>1, <2>1, <2>3
    <3> QED BY <1>3, <2>3, <3>1 DEF Ordered
  <2> QED BY <2>1, <2>2, <2>3
<1>6. Ordered(L, u)
  BY <1>3, <1>4, <1>5 DEF Ordered
<1>7. ASSUME NEW q, NEW k, Pruned(q, l, k, t) PROVE Pruned(q, l, k, u)
  <2>1. Window \in Nat
    BY PolicyAssumption DEF Window, RateWindowSeconds
  <2>2. k \in 0..Len(l) /\ \A i \in 1..k : i \in 1..Len(l) /\ t - l[i] >= Window
    BY <1>1, <1>7 DEF Pruned
  <2>3. \A i \in 1..k : u - l[i] >= Window
    BY <1>1, <2>1, <2>2
  <2> QED BY <1>7, <2>3 DEF Pruned
<1> QED BY <1>2, <1>6, <1>7 DEF L
\* An evaluation forgets what is outside the window and nothing else.
LEMMA RecentActionsPruned ==
    ASSUME now \in Nat, NEW a, NEW l, NEW k \in Nat,
           Ordered(l, now), Pruned(recentActions[a], l, k, now)
    PROVE  \E m \in 0..Len(Append(l, now)) :
              /\ Pruned(RecentActions(a), Append(l, now), m, now)
              /\ RecentActions(a) \in Seq(Nat)
              /\ \A i \in (m + 1)..Len(Append(l, now)) : now - Append(l, now)[i] < Window
<1> DEFINE L == Append(l, now)
           q == Append(recentActions[a], now)
           Fits(n) == ~Expired(q[n]) /\ \A i \in 1..(n - 1) : Expired(q[i])
           keep == CHOOSE n \in 1..Len(q) : Fits(n)
<1>1. l \in Seq(Nat) /\ Len(l) \in Nat /\ k \in 0..Len(l)
  BY DEF Ordered, Pruned
<1>2. /\ L \in Seq(Nat) /\ Len(L) = Len(l) + 1 /\ L[Len(l) + 1] = now
      /\ \A i \in 1..Len(l) : L[i] = l[i]
  BY <1>1, AppendProperties
<1>3. q = SubSeq(L, k + 1, Len(L))
  BY <1>1, RemainsAppended DEF Pruned
<1>4. k \in 0..Len(L)
  BY <1>1, <1>2
<1>5. /\ Len(q) = Len(L) - k /\ Len(q) \in Nat
      /\ \A i \in 1..Len(q) : q[i] = L[k + i]
  BY <1>2, <1>3, <1>4, Remains
<1>6. RecentActions(a) = SubSeq(q, keep, Len(q))
  BY DEF RecentActions
<1> HIDE DEF L, q
<1>7. keep \in 1..Len(q) /\ Fits(keep)
  <2>1. Len(q) \in 1..Len(q) /\ q[Len(q)] = now
    BY <1>1, <1>2, <1>5
  <2>2. \E n \in 1..Len(q) : Fits(n)
    BY <1>5, <2>1, NowInWindow, FirstKept
  <2> QED BY <2>2
<1> HIDE DEF keep
<1> DEFINE m == k + keep - 1
<1>8. m \in 0..Len(L) /\ k + keep = m + 1 /\ m + 1 <= Len(L)
  BY <1>1, <1>2, <1>5, <1>7
<1>9. RecentActions(a) = SubSeq(L, m + 1, Len(L))
  <2>1. keep \in 1..(Len(L) - k)
    BY <1>5, <1>7
  <2>2. SubSeq(SubSeq(L, k + 1, Len(L)), keep, Len(SubSeq(L, k + 1, Len(L))))
          = SubSeq(L, k + keep, Len(L))
    BY <1>2, <1>4, <2>1, RemainsTwice
  <2> QED BY <1>3, <1>6, <1>8, <2>2
<1>10. RecentActions(a) \in Seq(Nat)
  BY <1>2, <1>8, <1>9, Remains
<1>11. Window \in Nat
  BY PolicyAssumption DEF Window, RateWindowSeconds
<1>12. Ordered(L, now)
  BY OrderedLater DEF L
<1>13. /\ \A i \in 1..Len(L) : L[i] \in Nat /\ L[i] <= now
       /\ \A i, j \in 1..Len(L) : i <= j => L[i] <= L[j]
  BY <1>2, <1>12 DEF Ordered
<1>14. \A i \in 1..m : now - L[i] >= Window
  <2> TAKE i \in 1..m
  <2>1. CASE i <= k
    <3>1. i \in 1..k /\ i \in 1..Len(l)
      BY <1>1, <1>8, <2>1
    <3> QED BY <1>2, <3>1 DEF Pruned
  <2>2. CASE i > k
    <3>1. i - k \in 1..(keep - 1) /\ i - k \in 1..Len(q) /\ k + (i - k) = i /\ i \in 1..Len(L)
      BY <1>1, <1>5, <1>7, <1>8, <2>2
    <3>2. Expired(L[i])
      BY <1>5, <1>7, <3>1
    <3> QED BY <1>13, <3>1, <3>2, ExpiredMeans
  <2>3. i <= k \/ i > k
    BY <1>1, <1>8
  <2> QED BY <2>1, <2>2, <2>3
<1>15. \A i \in (m + 1)..Len(L) : now - L[i] < Window
  <2> TAKE i \in (m + 1)..Len(L)
  <2>1. i \in 1..Len(L) /\ m + 1 \in 1..Len(L) /\ m + 1 <= i
    BY <1>2, <1>8
  <2>2. ~Expired(L[m + 1])
    BY <1>5, <1>7, <1>8
  <2>3. ~(now - L[m + 1] >= Window)
    BY <1>13, <2>1, <2>2, ExpiredMeans
  <2>4. L[m + 1] <= L[i]
    BY <1>13, <2>1
  <2>5. L[m + 1] \in Nat /\ L[i] \in Nat
    BY <1>13, <2>1
  <2> QED BY <1>11, <2>3, <2>4, <2>5
<1>16. Pruned(RecentActions(a), L, m, now)
  BY <1>8, <1>9, <1>14 DEF Pruned
<1> QED BY <1>8, <1>10, <1>15, <1>16 DEF L

(***************************************************************************)
(* Preservation                                                            *)
(***************************************************************************)

\* What an evaluation leaves of its own queue; the others stay.
LEMMA EvaluateKeepsWindow ==
    ASSUME WindowInv, NEW e \in Event, Evaluate(e)
    PROVE  WindowInv'
<1> DEFINE a == e.action
           L == Append(log[a], now)
<1>1. a \in ActionType
  BY DEF Event
<1>2. /\ now \in Nat /\ now' = now /\ last' = {a}
      /\ log \in [ActionType -> Seq(Nat)] /\ recentActions \in [ActionType -> Seq(Nat)]
      /\ log' = [log EXCEPT ![a] = L]
      /\ recentActions' = [recentActions EXCEPT ![a] = RecentActions(a)]
  BY DEF WindowInv, Evaluate
<1>3. PICK k \in Nat : Pruned(recentActions[a], log[a], k, now)
  BY <1>1 DEF WindowInv
<1>4. Ordered(log[a], now) /\ log[a] \in Seq(Nat)
  BY <1>1, <1>2 DEF WindowInv
<1>5. PICK m \in 0..Len(L) :
        /\ Pruned(RecentActions(a), L, m, now)
        /\ RecentActions(a) \in Seq(Nat)
        /\ \A i \in (m + 1)..Len(L) : now - L[i] < Window
  BY <1>2, <1>3, <1>4, RecentActionsPruned
<1>6. Ordered(L, now)
  BY <1>2, <1>4, OrderedLater
<1>7. L \in Seq(Nat) /\ Len(L) \in Nat /\ \A i \in 1..Len(L) : L[i] \in Nat
  BY <1>6 DEF Ordered
<1> HIDE DEF a, L
<1>8. log'[a] = L /\ recentActions'[a] = RecentActions(a)
  BY <1>1, <1>2
<1>9. log' \in [ActionType -> Seq(Nat)] /\ recentActions' \in [ActionType -> Seq(Nat)]
  BY <1>1, <1>2, <1>5, <1>7
<1>10. ASSUME NEW b \in ActionType
       PROVE  Ordered(log'[b], now') /\ \E n \in Nat : Pruned(recentActions'[b], log'[b], n, now')
  <2>1. CASE b = a
    <3>1. m \in Nat
      BY <1>7
    <3> QED BY <1>2, <1>5, <1>6, <1>8, <2>1, <3>1
  <2>2. CASE b # a
    <3>1. log'[b] = log[b] /\ recentActions'[b] = recentActions[b]
      BY <1>2, <2>2
    <3> QED BY <1>2, <3>1 DEF WindowInv
  <2> QED BY <2>1, <2>2
<1>11. WindowExact'
  <2>1. Window \in Nat
    BY PolicyAssumption DEF Window, RateWindowSeconds
  <2>2. \A i \in 1..m : ~(now - L[i] < Window)
    <3> TAKE i \in 1..m
    <3>1. i \in 1..Len(L) /\ now - L[i] >= Window
      BY <1>5, <1>7 DEF Pruned
    <3> QED BY <1>2, <1>7, <2>1, <3>1
  <2>3. \A i \in 1..Len(L) : i > m <=> now - L[i] < Window
    <3> TAKE i \in 1..Len(L)
    <3>1. CASE i > m
      BY <1>5, <1>7, <3>1
    <3>2. CASE i <= m
      BY <1>5, <1>7, <2>2, <3>2
    <3> QED BY <1>5, <1>7, <3>1, <3>2
  <2>4. RecentActions(a) = SubSeq(L, m + 1, Len(L))
    BY <1>5 DEF Pruned
  <2> QED BY <1>2, <1>5, <1>8, <2>3, <2>4 DEF WindowExact, Window
<1>12. last' \subseteq ActionType
  BY <1>1, <1>2
<1> QED BY <1>2, <1>9, <1>10, <1>11, <1>12 DEF WindowInv

\* Time only makes what is gone older.
LEMMA PassKeepsWindow ==
    ASSUME WindowInv, NEW d \in Elapse, Pass(d)
    PROVE  WindowInv'
<1>1. now \in Nat /\ now' \in Nat /\ now <= now'
  BY PolicyAssumption DEF WindowInv, Pass
<1>2. last' = {} /\ log' = log /\ recentActions' = recentActions
  BY DEF Pass
<1>3. ASSUME NEW b \in ActionType
      PROVE  Ordered(log[b], now') /\ \E n \in Nat : Pruned(recentActions[b], log[b], n, now')
  BY <1>1, OrderedLater DEF WindowInv
<1> QED BY <1>1, <1>2, <1>3 DEF WindowInv, WindowExact

(***************************************************************************)
(* Theorems                                                                *)
(***************************************************************************)

\* The inductive invariant of the queues: each holds the end of what was
\* evaluated under its key, and what it lacks is outside the window.
THEOREM WindowInvariant == PolicySpec => []WindowInv
<1>1. PolicyInit => WindowInv
  <2> SUFFICES ASSUME PolicyInit PROVE WindowInv
    OBVIOUS
  <2>1. /\ now = 0 /\ last = {}
        /\ \A a \in ActionType : log[a] = <<>> /\ recentActions[a] = <<>>
    BY DEF PolicyInit
  <2>2. Ordered(<<>>, 0) /\ Pruned(<<>>, <<>>, 0, 0)
    BY DEF Ordered, Pruned
  <2>3. log \in [ActionType -> Seq(Nat)] /\ recentActions \in [ActionType -> Seq(Nat)]
    BY DEF PolicyInit
  <2> QED BY <2>1, <2>2, <2>3 DEF WindowInv, WindowExact
<1>2. WindowInv /\ [PolicyNext]_policyVars => WindowInv'
  <2> SUFFICES ASSUME WindowInv, [PolicyNext]_policyVars PROVE WindowInv'
    OBVIOUS
  <2>1. ASSUME NEW e \in Event, Evaluate(e) PROVE WindowInv'
    BY <2>1, EvaluateKeepsWindow
  <2>2. ASSUME NEW d \in Elapse, Pass(d) PROVE WindowInv'
    BY <2>2, PassKeepsWindow
  <2>3. CASE UNCHANGED policyVars
    BY <2>3 DEF policyVars, WindowInv, WindowExact
  <2> QED BY <2>1, <2>2, <2>3 DEF PolicyNext
<1> QED BY <1>1, <1>2, PTL DEF PolicySpec

\* The count an evaluation decides on is that of the evaluations of its
\* action within the window, itself included (GetRecentActionCount).
THEOREM WindowAlwaysExact == PolicySpec => []WindowExact
<1>1. WindowInv => WindowExact
  BY DEF WindowInv
<1> QED BY <1>1, WindowInvariant, PTL

\* No event a handler passes scores more than a long message without a
\* target, sent more than twenty times (CalculateRiskScore).
LEMMA HighestScore ==
    ASSUME NEW e \in Event, NEW count
    PROVE  CalculateRiskScore(e, count) \in 0..80
<1>1. /\ e.action \in ActionType
      /\ e.action \notin {"MessageSend", "RoomJoin"} => e.payloadSize = 0
  BY DEF Event
<1>2. RateScore(count) \in 0..35
  BY DEF RateScore
<1>3. (IF e.hasTarget THEN 0 ELSE 10) \in 0..10
  OBVIOUS
<1>4. PayloadScore(e.payloadSize) \in 0..20 /\ PayloadScore(0) = 0
  BY DEF PayloadScore
<1>5. ActionScore(e.action) + PayloadScore(e.payloadSize) \in 0..35
  BY <1>1, <1>4 DEF ActionScore, ActionType
<1> QED BY <1>2, <1>3, <1>5 DEF CalculateRiskScore

\* With a block threshold above that, no request is ever decided Block,
\* however often it is repeated; the default is 85 (EvaluatePolicyEvent).
THEOREM AlwaysUnblocked ==
    ASSUME Block > 80
    PROVE  PolicySpec => []NeverBlocked
<1>1. PolicyInit => NeverBlocked
  BY DEF PolicyInit, NeverBlocked
<1>2. NeverBlocked /\ [PolicyNext]_policyVars => NeverBlocked'
  <2> SUFFICES ASSUME NeverBlocked, [PolicyNext]_policyVars PROVE NeverBlocked'
    OBVIOUS
  <2>1. ASSUME NEW e \in Event, Evaluate(e) PROVE NeverBlocked'
    <3> DEFINE score == CalculateRiskScore(e, Len(RecentActions(e.action)))
    <3>1. score \in 0..80 /\ Block \in Nat
      BY HighestScore, PolicyAssumption
    <3>2. decision' = Decide(score)
      BY <2>1 DEF Evaluate
    <3> HIDE DEF score
    <3>3. ~(score >= Block)
      BY <3>1
    <3> QED BY <3>2, <3>3 DEF Decide, NeverBlocked
  <2>2. ASSUME NEW d \in Elapse, Pass(d) PROVE NeverBlocked'
    BY <2>2 DEF Pass, NeverBlocked
  <2>3. CASE UNCHANGED policyVars
    BY <2>3 DEF policyVars, NeverBlocked
  <2> QED BY <2>1, <2>2, <2>3 DEF PolicyNext
<1> QED BY <1>1, <1>2, PTL DEF PolicySpec
===============================================================================
