---------------------------- MODULE StationsProofs ----------------------------
(***************************************************************************)
(* Proofs about Stations, for every list of access points.  What retain    *)
(* leaves of a list is a concatenation over the places of the list: what   *)
(* it has is shown by induction on them, with a set in the place of a      *)
(* predicate.                                                              *)
(***************************************************************************)
EXTENDS Stations, SequenceTheorems, WellFoundedInduction, TLAPS

\* A set of numbers has a least one.
LEMMA Least ==
    ASSUME NEW S \in SUBSET Nat, S # {}
    PROVE  \E k \in S : \A j \in S : k <= j
<1>1. PICK x \in S : \A y \in S : ~ (<<y, x>> \in OpToRel(<, Nat))
  BY NatLessThanWellFounded, WFMin
<1>2. ASSUME NEW j \in S PROVE x <= j
  <2>1. j \in Nat /\ x \in Nat
    OBVIOUS
  <2>2. ~(j < x)
    BY <1>1, <2>1 DEF OpToRel
  <2> QED
    BY <2>1, <2>2
<1> QED
  BY <1>2

LEMMA Induction ==
    ASSUME NEW S, 0 \in S, \A n \in Nat : n \in S => n + 1 \in S
    PROVE  Nat \subseteq S
<1> SUFFICES ASSUME Nat \ S # {} PROVE FALSE
  OBVIOUS
<1>1. PICK x \in Nat \ S : \A y \in Nat \ S : x <= y
  BY Least
<1>2. x # 0 /\ x - 1 \in Nat
  OBVIOUS
<1>3. x - 1 \in S
  BY <1>1, <1>2
<1> QED
  BY <1>2, <1>3

-----------------------------------------------------------------------------
(* filter_map and retain. *)

\* One element, or none, for each place of the list.
Chosen(list, places) == [n \in DOMAIN list |-> IF n \in places THEN <<list[n]>> ELSE <<>>]

Joined(list, places, m, g) ==
    g = [i \in 1..m |-> IF i = 1 THEN Chosen(list, places)[i]
                        ELSE g[i - 1] \o Chosen(list, places)[i]]

\* The list r has the elements of `list` at the places p[1], p[2], ...: those of
\* `places` up to m.
Picks(r, list, places, m, p) ==
    /\ p \in [1..Len(r) -> 1..m]
    /\ \A i \in 1..Len(r) : p[i] \in places /\ r[i] = list[p[i]]
    /\ \A i, j \in 1..Len(r) : i < j => p[i] < p[j]
    /\ \A n \in 1..m : n \in places => \E i \in 1..Len(r) : p[i] = n

\* The recursion of FlattenSeq has a value.
LEMMA JoinedExists ==
    ASSUME NEW list, NEW places
    PROVE  \A m \in Nat : \E g : Joined(list, places, m, g)
<1> DEFINE c == Chosen(list, places)
           S == {m \in Nat : \E g : Joined(list, places, m, g)}
<1>1. 0 \in S
  <2> DEFINE h == [i \in 1..0 |-> <<>>]
  <2>1. Joined(list, places, 0, h)
    BY DEF Joined
  <2> QED
    BY <2>1
<1>2. ASSUME NEW m \in Nat, m \in S PROVE m + 1 \in S
  <2>1. PICK g : Joined(list, places, m, g)
    BY <1>2
  <2> DEFINE F(f, i) == IF i = 1 THEN c[i] ELSE f[i - 1] \o c[i]
             last == F(g, m + 1)
             h == [i \in 1..m + 1 |-> IF i = m + 1 THEN last ELSE g[i]]
  <2> HIDE DEF c, last
  <2>2. h = [i \in 1..m + 1 |-> h[i]]
    OBVIOUS
  <2>3. h[m + 1] = last /\ \A i \in 1..m : h[i] = g[i]
    OBVIOUS
  <2> HIDE DEF h
  <2>4. ASSUME NEW i \in 1..m + 1 PROVE h[i] = F(h, i)
    <3>1. CASE i = m + 1
      <4>1. i # 1 => i - 1 = m /\ m \in 1..m
        BY <3>1
      <4>2. i # 1 => h[i - 1] = g[i - 1]
        BY <2>3, <4>1, Zenon
      <4>3. h[i] = F(g, i)
        BY <2>3, <3>1, Zenon DEF last
      <4> QED
        BY <4>2, <4>3, Zenon
    <3>2. CASE i \in 1..m
      <4>1. g[i] = F(g, i)
        BY <2>1, <3>2 DEF Joined, c
      <4>2. i # 1 => i - 1 \in 1..m
        BY <3>2
      <4> QED
        BY <2>3, <3>2, <4>1, <4>2, Zenon
    <3> QED
      BY <3>1, <3>2
  <2>5. h = [i \in 1..m + 1 |-> F(h, i)]
    <3> HIDE DEF F
    <3> QED
      BY <2>2, <2>4, Zenon
  <2>6. Joined(list, places, m + 1, h)
    BY <2>5, Zenon DEF Joined, c
  <2>7. m + 1 \in Nat
    OBVIOUS
  <2> QED
    BY <2>6, <2>7, Zenon
<1> HIDE DEF S
<1>3. Nat \subseteq S
  BY <1>1, <1>2, Induction
<1> QED
  BY <1>3 DEF S

\* One place more.
LEMMA PicksStep ==
    ASSUME NEW S, NEW list \in Seq(S), NEW places, NEW m \in Nat, m < Len(list),
           NEW r \in Seq(S), NEW p, Picks(r, list, places, m, p)
    PROVE  LET s == r \o Chosen(list, places)[m + 1]
           IN  s \in Seq(S) /\ \E q : Picks(s, list, places, m + 1, q)
<1>1. m + 1 \in DOMAIN list /\ list[m + 1] \in S /\ m + 1 \in 1..m + 1
  OBVIOUS
<1>2. CASE m + 1 \in places
  <2> DEFINE e == list[m + 1]
             s == r \o <<e>>
             q == [i \in 1..Len(r) + 1 |-> IF i = Len(r) + 1 THEN m + 1 ELSE p[i]]
  <2>1. Chosen(list, places)[m + 1] = <<e>>
    BY <1>1, <1>2 DEF Chosen
  <2>2. e \in S
    BY <1>1
  <2> HIDE DEF e
  <2>3. /\ s \in Seq(S) /\ Len(s) = Len(r) + 1 /\ s[Len(r) + 1] = e
        /\ \A i \in 1..Len(r) : s[i] = r[i]
    BY <2>2
  <2> HIDE DEF s
  <2>4. Len(r) \in Nat
    OBVIOUS
  <2>5. /\ p \in [1..Len(r) -> 1..m]
        /\ \A i \in 1..Len(r) : p[i] \in 1..m /\ p[i] \in places /\ r[i] = list[p[i]]
        /\ \A i, j \in 1..Len(r) : i < j => p[i] < p[j]
        /\ \A n \in 1..m : n \in places => \E i \in 1..Len(r) : p[i] = n
    BY DEF Picks
  <2>6. q[Len(r) + 1] = m + 1 /\ \A i \in 1..Len(r) : q[i] = p[i]
    BY <2>4
  <2>7. q \in [1..Len(r) + 1 -> 1..m + 1]
    BY <2>4, <2>5
  <2> HIDE DEF q
  <2>8. \A i \in 1..Len(r) + 1 : i = Len(r) + 1 \/ i \in 1..Len(r)
    BY <2>4
  <2>9. ASSUME NEW i \in 1..Len(r) + 1 PROVE q[i] \in places /\ s[i] = list[q[i]]
    BY <1>2, <2>3, <2>5, <2>6, <2>8 DEF e
  <2>10. ASSUME NEW i \in 1..Len(r) + 1, NEW j \in 1..Len(r) + 1, i < j PROVE q[i] < q[j]
    <3>1. i \in 1..Len(r)
      BY <2>4, <2>10
    <3>2. q[i] = p[i] /\ p[i] \in 1..m
      BY <2>5, <2>6, <3>1
    <3>3. CASE j = Len(r) + 1
      BY <2>6, <3>2, <3>3
    <3>4. CASE j \in 1..Len(r)
      BY <2>5, <2>6, <2>10, <3>1, <3>4
    <3> QED
      BY <2>8, <3>3, <3>4
  <2>11. ASSUME NEW n \in 1..m + 1, n \in places PROVE \E i \in 1..Len(r) + 1 : q[i] = n
    <3>1. CASE n = m + 1
      BY <2>4, <2>6, <3>1
    <3>2. CASE n \in 1..m
      <4>1. PICK i \in 1..Len(r) : p[i] = n
        BY <2>5, <2>11, <3>2
      <4> QED
        BY <2>4, <2>6, <4>1
    <3> QED
      BY <3>1, <3>2
  <2>12. Picks(s, list, places, m + 1, q)
    BY <2>3, <2>7, <2>9, <2>10, <2>11 DEF Picks
  <2> QED
    BY <2>1, <2>3, <2>12 DEF s
<1>3. CASE m + 1 \notin places
  <2>1. Chosen(list, places)[m + 1] = <<>>
    BY <1>1, <1>3 DEF Chosen
  <2>2. r \o <<>> = r
    OBVIOUS
  <2>3. p \in [1..Len(r) -> 1..m + 1]
    BY DEF Picks
  <2>4. \A n \in 1..m + 1 : n \in places => n \in 1..m
    BY <1>3
  <2>5. Picks(r, list, places, m + 1, p)
    BY <2>3, <2>4 DEF Picks
  <2> QED
    BY <2>1, <2>2, <2>5
<1> QED
  BY <1>2, <1>3

\* What is retained is the elements at those places, in the order of the list.
LEMMA Retained ==
    ASSUME NEW S, NEW list \in Seq(S), NEW places
    PROVE  /\ Retain(list, places) \in Seq(S)
           /\ \E p : Picks(Retain(list, places), list, places, Len(list), p)
<1> DEFINE c == Chosen(list, places)
           N == Len(list)
<1>0. N \in Nat /\ DOMAIN list = 1..N
  OBVIOUS
<1>1. DOMAIN c = 1..N
  BY <1>0 DEF Chosen
<1>2. c \in Seq({<<>>} \cup {<<x>> : x \in S})
  BY DEF Chosen
<1>3. Len(c) = N
  BY <1>0, <1>1, <1>2
<1>4. Retain(list, places) = FlattenSeq(c)
  BY DEF Retain, Chosen
<1>5. CASE N = 0
  <2>1. FlattenSeq(c) = c /\ c = <<>>
    BY <1>2, <1>3, <1>5 DEF FlattenSeq
  <2>2. Picks(<<>>, list, places, 0, [i \in 1..0 |-> 0])
    BY DEF Picks
  <2> QED
    BY <1>4, <1>5, <2>1, <2>2
<1>6. CASE N # 0
  <2> DEFINE g == CHOOSE f : Joined(list, places, N, f)
  <2>1. Joined(list, places, N, g)
    BY <1>0, JoinedExists
  <2>2. FlattenSeq(c) = g[N]
    <3> HIDE DEF c
    <3>1. FlattenSeq(c) = (CHOOSE f : f = [i \in 1..N |-> IF i = 1 THEN c[i] ELSE f[i - 1] \o c[i]])[N]
      BY <1>3, <1>6, Zenon DEF FlattenSeq
    <3> QED
      BY <3>1, Zenon DEF Joined, c
  <2> HIDE DEF g
  <2> DEFINE T == {m \in Nat : m + 1 <= N =>
                      /\ g[m + 1] \in Seq(S)
                      /\ \E p : Picks(g[m + 1], list, places, m + 1, p)}
  <2>3. ASSUME NEW i \in 1..N PROVE g[i] = IF i = 1 THEN c[i] ELSE g[i - 1] \o c[i]
    <3> HIDE DEF c
    <3> QED
      BY <2>1 DEF Joined, c
  <2>4. 0 \in T
    <3>1. Picks(<<>>, list, places, 0, [i \in 1..0 |-> 0]) /\ <<>> \in Seq(S) /\ 0 < Len(list)
      BY <1>0, <1>6 DEF Picks
    <3>2. LET s == <<>> \o c[0 + 1]
          IN  s \in Seq(S) /\ \E q : Picks(s, list, places, 0 + 1, q)
      BY <3>1, PicksStep
    <3>3. <<>> \o c[0 + 1] = c[1] /\ 0 + 1 = 1
      BY <1>0, <1>2, <1>6 DEF Chosen
    <3>4. g[1] = c[1]
      BY <1>0, <1>6, <2>3
    <3> QED
      BY <3>2, <3>3, <3>4
  <2>5. ASSUME NEW m \in Nat, m \in T PROVE m + 1 \in T
    <3> SUFFICES ASSUME (m + 1) + 1 <= N
                 PROVE  /\ g[(m + 1) + 1] \in Seq(S)
                        /\ \E p : Picks(g[(m + 1) + 1], list, places, (m + 1) + 1, p)
      OBVIOUS
    <3>1. m + 1 \in Nat /\ m + 1 < N /\ (m + 1) + 1 \in 1..N /\ (m + 1) + 1 # 1
          /\ ((m + 1) + 1) - 1 = m + 1
      BY <1>0
    <3>2. g[m + 1] \in Seq(S)
      BY <2>5, <3>1
    <3>3. PICK p : Picks(g[m + 1], list, places, m + 1, p)
      BY <2>5, <3>1
    <3> HIDE DEF c
    <3>4. g[(m + 1) + 1] = g[m + 1] \o c[(m + 1) + 1]
      BY <2>3, <3>1
    <3>5. LET s == g[m + 1] \o Chosen(list, places)[(m + 1) + 1]
          IN  s \in Seq(S) /\ \E q : Picks(s, list, places, (m + 1) + 1, q)
      BY <3>1, <3>2, <3>3, PicksStep
    <3> QED
      BY <3>4, <3>5 DEF c
  <2> HIDE DEF T
  <2>6. Nat \subseteq T
    BY <2>4, <2>5, Induction
  <2>7. N - 1 \in Nat /\ (N - 1) + 1 = N /\ N <= N
    BY <1>0, <1>6
  <2>8. g[N] \in Seq(S) /\ \E p : Picks(g[N], list, places, N, p)
    BY <2>6, <2>7 DEF T
  <2> QED
    BY <1>4, <2>2, <2>8
<1> QED
  BY <1>5, <1>6

\* What is retained of what is retained.
LEMMA Twice ==
    ASSUME NEW S, NEW list \in Seq(S), NEW A, NEW ssids,
           NEW d \in Seq(S), NEW p, Picks(d, list, A, Len(list), p),
           NEW r \in Seq(S), NEW q, Picks(r, d, With(d, ssids), Len(d), q)
    PROVE  \E u : Picks(r, list, A \cap With(list, ssids), Len(list), u)
<1> DEFINE u == [i \in 1..Len(r) |-> p[q[i]]]
<1>0. Len(list) \in Nat /\ Len(d) \in Nat /\ Len(r) \in Nat
      /\ DOMAIN list = 1..Len(list) /\ DOMAIN d = 1..Len(d)
  OBVIOUS
<1>1. \A i \in 1..Len(d) : p[i] \in 1..Len(list) /\ p[i] \in A /\ d[i] = list[p[i]]
  BY DEF Picks
<1>2. \A i \in 1..Len(r) : q[i] \in 1..Len(d) /\ q[i] \in With(d, ssids) /\ r[i] = d[q[i]]
  BY DEF Picks
<1>3. ASSUME NEW i \in 1..Len(r)
      PROVE  u[i] \in 1..Len(list) /\ u[i] \in A \cap With(list, ssids) /\ r[i] = list[u[i]]
  <2>1. d[q[i]].ssid \in ssids
    BY <1>2 DEF With
  <2> QED
    BY <1>0, <1>1, <1>2, <2>1 DEF With
<1>4. ASSUME NEW i \in 1..Len(r), NEW j \in 1..Len(r), i < j PROVE u[i] < u[j]
  <2>1. q[i] < q[j] /\ q[i] \in 1..Len(d) /\ q[j] \in 1..Len(d)
    BY <1>2, <1>4 DEF Picks
  <2>2. p[q[i]] < p[q[j]]
    BY <2>1 DEF Picks
  <2> QED
    BY <2>2
<1>5. ASSUME NEW n \in 1..Len(list), n \in A \cap With(list, ssids)
      PROVE  \E i \in 1..Len(r) : u[i] = n
  <2>1. PICK k \in 1..Len(d) : p[k] = n
    BY <1>5 DEF Picks
  <2>2. k \in With(d, ssids)
    BY <1>0, <1>1, <1>5, <2>1 DEF With
  <2>3. PICK i \in 1..Len(r) : q[i] = k
    BY <2>2 DEF Picks
  <2> QED
    BY <2>1, <2>3
<1>6. u \in [1..Len(r) -> 1..Len(list)]
  BY <1>3
<1> HIDE DEF u
<1>7. Picks(r, list, A \cap With(list, ssids), Len(list), u)
  BY <1>3, <1>4, <1>5, <1>6 DEF Picks
<1> QED
  BY <1>7

-----------------------------------------------------------------------------
(* sort_by_key and reverse. *)

Keyed == [ssid : Nat, quality : Nat]

\* The keys are in a total order, and equal ones are of equal stations.
LEMMA TotalOrder ==
    /\ \A s \in Keyed : ~Before(s, s)
    /\ \A s, t \in Keyed : Before(s, t) \/ Before(t, s) \/ s = t
    /\ \A s, t, u \in Keyed : Before(s, t) /\ Before(t, u) => Before(s, u)
BY DEF Keyed, Before

\* p puts the first m elements of the list in their order.
Sorts(p, list, m) ==
    /\ p \in [1..m -> 1..m]
    /\ \A i, j \in 1..m : p[i] = p[j] => i = j
    /\ \A n \in 1..m : \E i \in 1..m : p[i] = n
    /\ \A i, j \in 1..m : i < j => ~Before(list[p[j]], list[p[i]])

\* Another element is inserted before the first one that is after it.
LEMMA Insert ==
    ASSUME NEW list \in Seq(Keyed), NEW m \in Nat, m < Len(list), NEW p, Sorts(p, list, m)
    PROVE  \E q : Sorts(q, list, m + 1)
<1> DEFINE e == list[m + 1]
           K == {i \in 1..m + 1 : i = m + 1 \/ Before(e, list[p[i]])}
<1>1. PICK k \in K : \A j \in K : k <= j
  <2>1. m + 1 \in K /\ K \subseteq Nat
    OBVIOUS
  <2> HIDE DEF K
  <2> QED
    BY <2>1, Least
<1> DEFINE q == [i \in 1..m + 1 |-> IF i < k THEN p[i] ELSE IF i = k THEN m + 1 ELSE p[i - 1]]
<1>2. k \in 1..m + 1 /\ m + 1 \in Nat
  OBVIOUS
<1>3. \A i \in 1..m : p[i] \in 1..m
  BY DEF Sorts
<1>4. e \in Keyed /\ \A i \in 1..m : list[p[i]] \in Keyed
  BY <1>3
<1>5. \A i \in 1..m : i < k => ~Before(e, list[p[i]])
  BY <1>1, <1>2
<1>6. k \in 1..m => Before(e, list[p[k]])
  <2>1. k \in 1..m => k # m + 1
    OBVIOUS
  <2> QED
    BY <2>1
<1> HIDE DEF e, K
<1>7. \A i \in 1..m + 1 : \/ i < k /\ i \in 1..m /\ q[i] = p[i]
                          \/ i = k /\ q[i] = m + 1
                          \/ i > k /\ i - 1 \in 1..m /\ q[i] = p[i - 1] /\ i - 1 >= k
  BY <1>2
<1> HIDE DEF q
<1>8. \A i \in 1..m + 1 : q[i] \in 1..m + 1
  <2>1. \A j \in 1..m : p[j] \in 1..m + 1
    BY <1>3
  <2>2. m + 1 \in 1..m + 1
    OBVIOUS
  <2> QED
    BY <1>7, <2>1, <2>2, Zenon
<1>9. ASSUME NEW i \in 1..m + 1, NEW j \in 1..m + 1, i < j
      PROVE  q[i] # q[j] /\ ~Before(list[q[j]], list[q[i]])
  <2>0. \A a, b \in 1..m : a < b => p[a] # p[b] /\ ~Before(list[p[b]], list[p[a]])
    BY DEF Sorts
  <2>1. CASE j < k
    <3>1. i \in 1..m /\ j \in 1..m /\ q[i] = p[i] /\ q[j] = p[j]
      BY <1>2, <1>7, <1>9, <2>1
    <3> QED
      BY <1>9, <2>0, <3>1
  <2>2. CASE j = k
    <3>1. i \in 1..m /\ q[i] = p[i] /\ q[j] = m + 1 /\ i < k
      BY <1>2, <1>7, <1>9, <2>2
    <3>2. p[i] \in 1..m
      BY <1>3, <3>1
    <3> QED
      BY <1>5, <3>1, <3>2 DEF e
  <2>3. CASE j > k /\ i < k
    <3>1. i \in 1..m /\ j - 1 \in 1..m /\ q[i] = p[i] /\ q[j] = p[j - 1] /\ i < j - 1
      BY <1>2, <1>7, <2>3
    <3> QED
      BY <2>0, <3>1
  <2>4. CASE j > k /\ i = k
    <3>1. /\ j - 1 \in 1..m /\ k \in 1..m /\ k <= j - 1
          /\ q[i] = m + 1 /\ q[j] = p[j - 1]
      BY <1>2, <1>7, <2>4
    <3>2. Before(e, list[p[k]])
      BY <1>6, <3>1
    <3>3. ~Before(list[p[j - 1]], list[p[k]])
      <4>1. CASE k = j - 1
        BY <1>4, <3>1, <4>1, TotalOrder
      <4>2. CASE k < j - 1
        BY <2>0, <3>1, <4>2
      <4> QED
        BY <1>2, <3>1, <4>1, <4>2
    <3>4. ~Before(list[p[j - 1]], e)
      BY <1>4, <3>1, <3>2, <3>3, TotalOrder
    <3>5. p[j - 1] # m + 1
      BY <1>3, <3>1
    <3> QED
      BY <3>1, <3>4, <3>5 DEF e
  <2>5. CASE j > k /\ i > k
    <3>1. /\ i - 1 \in 1..m /\ j - 1 \in 1..m /\ i - 1 < j - 1
          /\ q[i] = p[i - 1] /\ q[j] = p[j - 1]
      BY <1>2, <1>7, <1>9, <2>5
    <3> QED
      BY <2>0, <3>1
  <2> QED
    BY <1>2, <2>1, <2>2, <2>3, <2>4, <2>5
<1>10. ASSUME NEW n \in 1..m + 1 PROVE \E i \in 1..m + 1 : q[i] = n
  <2>1. CASE n = m + 1
    BY <1>2, <1>7, <2>1
  <2>2. CASE n \in 1..m
    <3>1. PICK i \in 1..m : p[i] = n
      BY <2>2 DEF Sorts
    <3>2. CASE i < k
      BY <1>2, <1>7, <3>1, <3>2
    <3>3. CASE i >= k
      <4>1. i + 1 \in 1..m + 1 /\ (i + 1) - 1 = i /\ i + 1 > k
        BY <1>2, <3>3
      <4>2. q[i + 1] = p[i]
        BY <1>2, <1>7, <4>1
      <4> QED
        BY <3>1, <4>1, <4>2
    <3> QED
      BY <1>2, <3>2, <3>3
  <2> QED
    BY <2>1, <2>2
<1>11. q = [i \in 1..m + 1 |-> q[i]]
  BY DEF q
<1>12. q \in [1..m + 1 -> 1..m + 1]
  BY <1>8, <1>11
<1>13. \A i, j \in 1..m + 1 : q[i] = q[j] => i = j
  BY <1>2, <1>9
<1> QED
  BY <1>9, <1>10, <1>12, <1>13 DEF Sorts

LEMMA SortsExists ==
    ASSUME NEW list \in Seq(Keyed)
    PROVE  \E p : Sorts(p, list, Len(list))
<1> DEFINE T == {m \in Nat : m <= Len(list) => \E p : Sorts(p, list, m)}
<1>0. Len(list) \in Nat
  OBVIOUS
<1>1. 0 \in T
  <2>1. Sorts([i \in 1..0 |-> 0], list, 0)
    BY DEF Sorts
  <2> QED
    BY <2>1
<1>2. ASSUME NEW m \in Nat, m \in T PROVE m + 1 \in T
  <2> SUFFICES ASSUME m + 1 <= Len(list) PROVE \E p : Sorts(p, list, m + 1)
    OBVIOUS
  <2>1. m < Len(list) /\ m <= Len(list)
    BY <1>0
  <2>2. PICK p : Sorts(p, list, m)
    BY <1>2, <2>1
  <2> QED
    BY <2>1, <2>2, Insert
<1> HIDE DEF T
<1>3. Nat \subseteq T
  BY <1>1, <1>2, Induction
<1> QED
  BY <1>0, <1>3 DEF T

\* sort_by_key rearranges the list, in the order of the keys.
LEMMA SortedByKey ==
    ASSUME NEW list \in Seq(Keyed)
    PROVE  /\ SortByKey(list) \in Rearranged(list)
           /\ Ordered(SortByKey(list))
<1> DEFINE N == Len(list)
<1>0. N \in Nat /\ DOMAIN list = 1..N
  OBVIOUS
<1>1. PICK p : Sorts(p, list, N)
  BY SortsExists
<1> DEFINE s == [n \in DOMAIN list |-> list[p[n]]]
<1>2. p \in Bijection(DOMAIN list, DOMAIN list)
  BY <1>0, <1>1 DEF Sorts, Bijection, Injection, Surjection, IsInjective
<1>3. s \in Rearranged(list)
  BY <1>2 DEF Rearranged
<1>4. Ordered(s)
  <2>1. DOMAIN s = 1..N
    BY <1>0
  <2>2. \A i, j \in 1..N : i < j => ~Before(list[p[j]], list[p[i]])
    BY <1>1 DEF Sorts
  <2> QED
    BY <1>0, <2>1, <2>2 DEF Ordered
<1> HIDE DEF s
<1> QED
  BY <1>3, <1>4 DEF SortByKey

\* So it has the same elements.
LEMMA SameElements ==
    ASSUME NEW S, NEW list \in Seq(S), NEW s \in Rearranged(list)
    PROVE  /\ s \in Seq(S) /\ Len(s) = Len(list)
           /\ \A i \in 1..Len(list) : \E n \in 1..Len(list) : s[i] = list[n]
           /\ \A n \in 1..Len(list) : \E i \in 1..Len(list) : s[i] = list[n]
<1>0. Len(list) \in Nat /\ DOMAIN list = 1..Len(list)
  OBVIOUS
<1>1. PICK p \in Bijection(DOMAIN list, DOMAIN list) : s = [n \in DOMAIN list |-> list[p[n]]]
  BY DEF Rearranged
<1>2. /\ p \in [1..Len(list) -> 1..Len(list)]
      /\ \A n \in 1..Len(list) : \E i \in 1..Len(list) : p[i] = n
  BY <1>0 DEF Bijection, Injection, Surjection
<1>3. s = [n \in 1..Len(list) |-> list[p[n]]] /\ \A n \in 1..Len(list) : list[p[n]] \in S
  <2>1. s = [n \in 1..Len(list) |-> list[p[n]]]
    BY <1>0, <1>1, Zenon
  <2>2. \A n \in 1..Len(list) : p[n] \in 1..Len(list)
    BY <1>2
  <2> QED
    BY <2>1, <2>2
<1>4. s \in Seq(S) /\ Len(s) = Len(list)
  BY <1>0, <1>3
<1> QED
  BY <1>2, <1>3, <1>4

-----------------------------------------------------------------------------
(* get_nearby_stations. *)

Readable == [ssid : Names, quality : Strengths]

\* The list after the reversal.
Reversed(list) == Reverse(SortByKey(Retain(list, With(list, Names))))

\* t has the readable access points of the list, the strongest first.
StrongestFirst(t, list) ==
    /\ t \in Seq(Readable)
    /\ \A i, j \in 1..Len(t) : i < j => ~Before(t[i], t[j])
    /\ \A i \in 1..Len(t) : \E n \in 1..Len(list) : t[i] = list[n] /\ list[n].ssid \in Names
    /\ \A n \in 1..Len(list) : list[n].ssid \in Names => \E i \in 1..Len(t) : t[i] = list[n]

LEMMA ReadableKeyed == Readable \subseteq Keyed
<1>1. Names \subseteq Nat /\ Strengths \subseteq Nat
  BY StationsAssumption
<1>2. ASSUME NEW a \in [ssid : Names, quality : Strengths]
      PROVE  a \in [ssid : Nat, quality : Nat]
  BY <1>1
<1> QED
  BY <1>2 DEF Readable, Keyed

LEMMA ReversedList ==
    ASSUME NEW list \in Seq(AccessPoint)
    PROVE  StrongestFirst(Reversed(list), list)
<1> DEFINE r == Retain(list, With(list, Names))
           s == SortByKey(r)
           t == Reverse(s)
<1>0. Len(list) \in Nat /\ DOMAIN list = 1..Len(list)
  OBVIOUS
<1>1. r \in Seq(AccessPoint) /\ \E p : Picks(r, list, With(list, Names), Len(list), p)
  BY Retained
<1> HIDE DEF r
<1>2. PICK p : Picks(r, list, With(list, Names), Len(list), p)
  BY <1>1
<1>3. \A i \in 1..Len(r) : p[i] \in 1..Len(list) /\ p[i] \in With(list, Names) /\ r[i] = list[p[i]]
  BY <1>2 DEF Picks
<1>4. \A n \in 1..Len(list) : list[n].ssid \in Names => \E i \in 1..Len(r) : r[i] = list[n]
  <2> SUFFICES ASSUME NEW n \in 1..Len(list), list[n].ssid \in Names
               PROVE  \E i \in 1..Len(r) : r[i] = list[n]
    OBVIOUS
  <2>1. n \in With(list, Names)
    BY <1>0 DEF With
  <2>2. PICK i \in 1..Len(r) : p[i] = n
    BY <1>2, <2>1 DEF Picks
  <2> QED
    BY <1>3, <2>2
<1>5. \A i \in 1..Len(r) : list[p[i]].ssid \in Names
  BY <1>3 DEF With
<1>6. r \in Seq(Readable)
  <2>1. \A i \in 1..Len(r) : r[i] \in AccessPoint /\ r[i].ssid \in Names
    BY <1>1, <1>3, <1>5
  <2>2. \A i \in 1..Len(r) : r[i] \in Readable
    BY <2>1 DEF AccessPoint, Ssid, Readable
  <2> QED
    BY <1>1, <2>2
<1>7. r \in Seq(Keyed)
  BY <1>6, ReadableKeyed
<1>8. s \in Rearranged(r) /\ Ordered(s)
  BY <1>7, SortedByKey
<1> HIDE DEF s
<1>9. /\ s \in Seq(Readable) /\ Len(s) = Len(r)
      /\ \A i \in 1..Len(r) : \E n \in 1..Len(r) : s[i] = r[n]
      /\ \A n \in 1..Len(r) : \E i \in 1..Len(r) : s[i] = r[n]
  BY <1>6, <1>8, SameElements
<1>10. Len(s) \in Nat /\ Len(r) \in Nat /\ DOMAIN s = 1..Len(s)
  BY <1>9
<1>11. /\ t \in Seq(Readable) /\ Len(t) = Len(s)
       /\ \A i \in 1..Len(s) : t[i] = s[Len(s) - i + 1] /\ Len(s) - i + 1 \in 1..Len(s)
  <2>1. \A i \in 1..Len(s) : Len(s) - i + 1 \in 1..Len(s)
    BY <1>10
  <2>2. \A i \in 1..Len(s) : s[Len(s) - i + 1] \in Readable
    BY <1>9, <2>1
  <2> QED
    BY <1>10, <2>1, <2>2 DEF Reverse
<1> HIDE DEF t
<1>12. ASSUME NEW i \in 1..Len(t), NEW j \in 1..Len(t), i < j PROVE ~Before(t[i], t[j])
  <2>1. Len(s) - j + 1 < Len(s) - i + 1
    BY <1>10, <1>11, <1>12
  <2>2. /\ Len(s) - i + 1 \in DOMAIN s /\ Len(s) - j + 1 \in DOMAIN s
        /\ t[i] = s[Len(s) - i + 1] /\ t[j] = s[Len(s) - j + 1]
    BY <1>10, <1>11, Zenon
  <2> QED
    BY <1>8, <2>1, <2>2, Zenon DEF Ordered
<1>13. ASSUME NEW i \in 1..Len(t)
       PROVE  \E n \in 1..Len(list) : t[i] = list[n] /\ list[n].ssid \in Names
  <2>1. PICK n \in 1..Len(r) : t[i] = r[n]
    <3>1. t[i] = s[Len(s) - i + 1] /\ Len(s) - i + 1 \in 1..Len(r)
      BY <1>9, <1>11, Zenon
    <3> QED
      BY <1>9, <3>1, Zenon
  <2> QED
    BY <1>3, <1>5, <2>1
<1>14. ASSUME NEW n \in 1..Len(list), list[n].ssid \in Names
       PROVE  \E i \in 1..Len(t) : t[i] = list[n]
  <2>1. PICK k \in 1..Len(r) : r[k] = list[n]
    BY <1>4, <1>14
  <2>2. PICK i \in 1..Len(s) : s[i] = r[k]
    BY <1>9, <2>1
  <2>3. Len(s) - i + 1 \in 1..Len(s) /\ Len(s) - (Len(s) - i + 1) + 1 = i
    BY <1>10
  <2>4. t[Len(s) - i + 1] = s[i]
    BY <1>11, <2>3
  <2> QED
    BY <1>11, <2>1, <2>2, <2>3, <2>4
<1>15. StrongestFirst(t, list)
  BY <1>11, <1>12, <1>13, <1>14 DEF StrongestFirst
<1> QED
  BY <1>15 DEF t, s, r, Reversed

\* The places of that list that the two retain leave.
Left(t) == FirstOfItsName(t) \cap With(t, Names \ {0})

LEMMA NearbyList ==
    ASSUME NEW list \in Seq(AccessPoint)
    PROVE  /\ NearbyStations(list) \in Seq(Readable)
           /\ \E p : Picks(NearbyStations(list), Reversed(list), Left(Reversed(list)),
                          Len(Reversed(list)), p)
<1> DEFINE t == Reversed(list)
           d == Retain(t, FirstOfItsName(t))
           f == Retain(d, With(d, Names \ {0}))
<1>1. t \in Seq(Readable)
  BY ReversedList DEF StrongestFirst
<1>2. f = NearbyStations(list)
  BY DEF NearbyStations, Reversed
<1> HIDE DEF t
<1>3. d \in Seq(Readable) /\ \E p : Picks(d, t, FirstOfItsName(t), Len(t), p)
  BY <1>1, Retained
<1> HIDE DEF d
<1>4. f \in Seq(Readable) /\ \E q : Picks(f, d, With(d, Names \ {0}), Len(d), q)
  BY <1>3, Retained
<1> HIDE DEF f
<1>5. PICK p : Picks(d, t, FirstOfItsName(t), Len(t), p)
  BY <1>3
<1>6. PICK q : Picks(f, d, With(d, Names \ {0}), Len(d), q)
  BY <1>4
<1>7. \E u : Picks(f, t, FirstOfItsName(t) \cap With(t, Names \ {0}), Len(t), u)
  <2> DEFINE A == FirstOfItsName(t)
             B == Names \ {0}
  <2> HIDE DEF A, B
  <2>1. Picks(d, t, A, Len(t), p) /\ Picks(f, d, With(d, B), Len(d), q)
    BY <1>5, <1>6 DEF A, B
  <2>2. \E u : Picks(f, t, A \cap With(t, B), Len(t), u)
    BY <1>1, <1>3, <1>4, <2>1, Twice
  <2> QED
    BY <2>2 DEF A, B
<1> QED
  BY <1>2, <1>4, <1>7 DEF Left, t

-----------------------------------------------------------------------------
(* The theorems. *)

\* The list is made once, of the access points that are there.
Inv ==
    /\ aps \in Seq(AccessPoint)
    /\ made \in BOOLEAN
    /\ stations = IF made THEN NearbyStations(aps) ELSE <<>>

THEOREM Invariant == Spec => []Inv
<1>1. Init => Inv
  <2> SUFFICES ASSUME Init PROVE Inv
    OBVIOUS
  <2>1. PICK n \in 0..MaxAps : aps \in [1..n -> AccessPoint]
    BY DEF Init
  <2>2. n \in Nat
    BY StationsAssumption
  <2>3. aps \in Seq(AccessPoint)
    BY <2>1, <2>2
  <2> QED
    BY <2>3 DEF Init, Inv
<1>2. Inv /\ [Next]_vars => Inv'
  <2>1. ASSUME Inv, GetNearbyStations PROVE Inv'
    <3>1. aps' = aps /\ made' = TRUE /\ stations' = NearbyStations(aps')
      BY <2>1, Zenon DEF GetNearbyStations
    <3> QED
      BY <2>1, <3>1, Zenon DEF Inv
  <2>2. ASSUME Inv, UNCHANGED vars PROVE Inv'
    <3>1. aps' = aps /\ made' = made /\ stations' = stations
      BY <2>2 DEF vars
    <3> QED
      BY <2>2, <3>1, Zenon DEF Inv
  <2> QED
    BY <2>1, <2>2 DEF Next
<1> QED
  BY <1>1, <1>2, PTL DEF Spec

\* Every station listed has a name that can be shown.
THEOREM TypeCorrect == Spec => []TypeOK
<1>1. Inv => TypeOK
  <2> SUFFICES ASSUME Inv, made
               PROVE  \A n \in DOMAIN stations :
                         stations[n] \in [ssid : Names \ {0}, quality : Strengths]
    BY DEF Inv, TypeOK
  <2> DEFINE t == Reversed(aps)
  <2>1. aps \in Seq(AccessPoint) /\ stations = NearbyStations(aps)
    BY DEF Inv
  <2>2. stations \in Seq(Readable) /\ \E p : Picks(stations, t, Left(t), Len(t), p)
    BY <2>1, NearbyList
  <2> HIDE DEF t
  <2>3. PICK p : Picks(stations, t, Left(t), Len(t), p)
    BY <2>2
  <2> TAKE n \in DOMAIN stations
  <2>4. n \in 1..Len(stations) /\ stations[n] \in Readable
    BY <2>2
  <2>5. p[n] \in Left(t) /\ stations[n] = t[p[n]]
    BY <2>3, <2>4 DEF Picks
  <2>6. stations[n].ssid \in Names \ {0}
    BY <2>5 DEF Left, With
  <2> QED
    BY <2>4, <2>6 DEF Readable
<1> QED
  BY <1>1, Invariant, PTL

\* The first of its name, of a list with the strongest first, is the strongest.
LEMMA FirstIsStrongest ==
    ASSUME NEW t \in Seq(Readable),
           \A i, j \in 1..Len(t) : i < j => ~Before(t[i], t[j]),
           NEW n \in 1..Len(t), n \in FirstOfItsName(t),
           NEW k \in 1..Len(t), t[k].ssid = t[n].ssid
    PROVE  t[k].quality <= t[n].quality
<1>0. Len(t) \in Nat /\ t[n] \in Readable /\ t[k] \in Readable
  OBVIOUS
<1>1. t[n].quality \in Nat /\ t[k].quality \in Nat
  BY <1>0, ReadableKeyed DEF Keyed
<1>2. ~(k < n)
  <2>1. k < n => k \in 1..n - 1
    BY <1>0
  <2> QED
    BY <2>1 DEF FirstOfItsName
<1>3. CASE k = n
  BY <1>1, <1>3
<1>4. CASE n < k
  <2>1. ~Before(t[n], t[k])
    BY <1>4
  <2> QED
    BY <1>1, <2>1 DEF Before
<1> QED
  BY <1>0, <1>2, <1>3, <1>4

\* Whatever the access points, the list has each name that can be shown once, at
\* its best strength, and the strongest first.
THEOREM StrongestOfEachNameHolds == Spec => []StrongestOfEachName
<1>1. Inv => StrongestOfEachName
  <2> SUFFICES ASSUME Inv, made PROVE StrongestOfEachName
    BY DEF StrongestOfEachName
  <2> DEFINE t == Reversed(aps)
             shown == {a \in ToSet(aps) : a.ssid \notin {0, Unreadable}}
             best == {a \in shown : \A b \in shown : b.ssid = a.ssid => b.quality <= a.quality}
  <2>1. aps \in Seq(AccessPoint) /\ stations = NearbyStations(aps)
    BY DEF Inv
  <2>2. StrongestFirst(t, aps)
    BY <2>1, ReversedList
  <2>3. stations \in Seq(Readable) /\ \E p : Picks(stations, t, Left(t), Len(t), p)
    BY <2>1, NearbyList
  <2> HIDE DEF t
  <2>4. PICK p : Picks(stations, t, Left(t), Len(t), p)
    BY <2>3
  <2>5. /\ t \in Seq(Readable) /\ Len(t) \in Nat /\ DOMAIN t = 1..Len(t)
        /\ Len(stations) \in Nat /\ DOMAIN stations = 1..Len(stations)
        /\ \A n \in 1..Len(t) : t[n] \in Readable
    BY <2>2, <2>3 DEF StrongestFirst
  <2>6. \A i \in 1..Len(stations) :
           p[i] \in 1..Len(t) /\ p[i] \in Left(t) /\ stations[i] = t[p[i]]
    BY <2>4 DEF Picks
  <2>7. \A n \in 1..Len(t) : t[n].ssid # 0 => t[n] \in shown
    <3> SUFFICES ASSUME NEW n \in 1..Len(t), t[n].ssid # 0 PROVE t[n] \in shown
      OBVIOUS
    <3>1. PICK m \in 1..Len(aps) : t[n] = aps[m] /\ aps[m].ssid \in Names
      BY <2>2 DEF StrongestFirst
    <3>2. t[n] \in ToSet(aps) /\ t[n].ssid # Unreadable
      BY <2>1, <3>1, StationsAssumption DEF ToSet
    <3> QED
      BY <3>2
  <2>8. \A a \in shown : a.ssid # 0 /\ \E n \in 1..Len(t) : t[n] = a
    <3> SUFFICES ASSUME NEW a \in shown PROVE a.ssid # 0 /\ \E n \in 1..Len(t) : t[n] = a
      OBVIOUS
    <3>1. PICK m \in 1..Len(aps) : a = aps[m]
      BY <2>1 DEF ToSet
    <3>2. aps[m] \in AccessPoint
      BY <2>1, <3>1
    <3>3. aps[m].ssid \in Names
      BY <3>1, <3>2 DEF AccessPoint, Ssid
    <3> QED
      BY <2>2, <3>1, <3>3 DEF StrongestFirst
  <2> HIDE DEF shown
  <2>9. ASSUME NEW i \in 1..Len(stations) PROVE stations[i] \in best
    <3>1. /\ p[i] \in 1..Len(t) /\ stations[i] = t[p[i]]
          /\ p[i] \in FirstOfItsName(t) /\ t[p[i]].ssid # 0
      BY <2>6 DEF Left, With
    <3>2. ASSUME NEW b \in shown, b.ssid = t[p[i]].ssid PROVE b.quality <= t[p[i]].quality
      <4>1. PICK k \in 1..Len(t) : t[k] = b
        BY <2>8
      <4> QED
        BY <2>2, <3>1, <3>2, <4>1, FirstIsStrongest DEF StrongestFirst
    <3> QED
      BY <2>7, <3>1, <3>2
  <2>10. ASSUME NEW a \in best PROVE \E i \in 1..Len(stations) : stations[i] = a
    <3>1. a \in shown
      OBVIOUS
    <3>2. a.ssid # 0 /\ \E n \in 1..Len(t) : t[n] = a
      BY <2>8, <3>1
    <3> DEFINE K == {k \in 1..Len(t) : t[k].ssid = a.ssid}
    <3>3. PICK n \in K : \A k \in K : n <= k
      <4>1. K \in SUBSET Nat /\ K # {}
        BY <3>2
      <4> HIDE DEF K
      <4> QED
        BY <4>1, Least
    <3>4. n \in 1..Len(t) /\ t[n].ssid = a.ssid
      OBVIOUS
    <3>5. ASSUME NEW k \in 1..n - 1 PROVE t[k].ssid # t[n].ssid
      <4>1. k \in 1..Len(t) /\ ~(n <= k)
        BY <2>5, <3>4
      <4> QED
        BY <3>3, <3>4, <4>1
    <3> HIDE DEF K
    <3>6. n \in FirstOfItsName(t)
      BY <2>5, <3>4, <3>5 DEF FirstOfItsName
    <3>7. t[n] \in shown
      BY <2>7, <3>2, <3>4
    <3>8. t[n].quality <= a.quality
      BY <3>4, <3>7
    <3>9. a.quality <= t[n].quality
      BY <2>2, <3>2, <3>4, <3>6, FirstIsStrongest DEF StrongestFirst
    <3>10. a \in Readable /\ t[n] \in Readable
      BY <2>5, <3>2, <3>4
    <3>11. a.quality \in Nat /\ t[n].quality \in Nat
      BY <3>10, ReadableKeyed DEF Keyed
    <3>12. a.quality = t[n].quality
      BY <3>8, <3>9, <3>11
    <3>13. a = t[n]
      BY <3>4, <3>10, <3>12 DEF Readable
    <3>14. n \in Left(t)
      <4>1. t[n].ssid \in Names \ {0}
        BY <3>2, <3>4, <3>10 DEF Readable
      <4> QED
        BY <2>5, <3>4, <3>6, <4>1 DEF Left, With
    <3>15. PICK i \in 1..Len(stations) : p[i] = n
      BY <2>4, <3>4, <3>14 DEF Picks
    <3> QED
      BY <2>6, <3>13, <3>15
  <2>11. ToSet(stations) = best
    <3> HIDE DEF best
    <3> QED
      BY <2>5, <2>9, <2>10 DEF ToSet
  <2>12. ASSUME NEW i \in 1..Len(stations), NEW j \in 1..Len(stations), i < j
         PROVE  Before(stations[j], stations[i])
    <3>1. p[i] < p[j]
      BY <2>4, <2>12 DEF Picks
    <3>2. /\ p[i] \in 1..Len(t) /\ p[j] \in 1..Len(t) /\ p[j] \in FirstOfItsName(t)
          /\ stations[i] = t[p[i]] /\ stations[j] = t[p[j]]
      BY <2>6 DEF Left
    <3>3. ~Before(t[p[i]], t[p[j]])
      BY <2>2, <3>1, <3>2 DEF StrongestFirst
    <3>4. p[i] \in 1..p[j] - 1
      BY <2>5, <3>1, <3>2
    <3>5. t[p[i]] # t[p[j]]
      BY <3>2, <3>4 DEF FirstOfItsName
    <3>6. t[p[i]] \in Keyed /\ t[p[j]] \in Keyed
      BY <2>5, <3>2, ReadableKeyed
    <3> QED
      BY <3>2, <3>3, <3>5, <3>6, TotalOrder
  <2> QED
    BY <2>5, <2>11, <2>12 DEF StrongestOfEachName, shown
<1> QED
  BY <1>1, Invariant, PTL
==============================================================================
