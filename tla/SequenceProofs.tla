--------------------------- MODULE SequenceProofs ---------------------------
(***************************************************************************)
(* Lemmas about sequences: what they become when an element is added, replaced *)
(* or taken, what is picked of them, and what the turns of a recursive function *)
(* come to.                                                                *)
(***************************************************************************)
EXTENDS Places, SequencesExt, FiniteSetTheorems, SequenceTheorems, WellFoundedInduction,
        TLAPS

-----------------------------------------------------------------------------
(* Elements.                                                               *)

\* A sequence one element longer.
LEMMA Longer ==
  ASSUME NEW S, NEW s \in Seq(S), NEW e \in S, NEW t, t = Append(s, e)
  PROVE  /\ t \in Seq(S) /\ Len(t) = Len(s) + 1
         /\ DOMAIN t = DOMAIN s \cup {Len(s) + 1} /\ t[Len(s) + 1] = e
         /\ \A i \in DOMAIN s : t[i] = s[i]
<1>1. Len(s) \in Nat /\ DOMAIN s = 1..Len(s)
  OBVIOUS
<1>2. /\ t \in Seq(S) /\ Len(t) = Len(s) + 1 /\ t[Len(s) + 1] = e
      /\ \A i \in 1..Len(s) : t[i] = s[i]
  BY AppendProperties
<1>3. DOMAIN t = 1..Len(t)
  BY <1>2
<1>4. 1..Len(s) + 1 = 1..Len(s) \cup {Len(s) + 1}
  BY <1>1
<1> QED BY <1>1, <1>2, <1>3, <1>4

\* A sequence with one element replaced.
LEMMA Replaced ==
  ASSUME NEW S, NEW s \in Seq(S), NEW i \in DOMAIN s, NEW e \in S, NEW t, t = [s EXCEPT ![i] = e]
  PROVE  /\ t \in Seq(S) /\ Len(t) = Len(s) /\ DOMAIN t = DOMAIN s /\ t[i] = e
         /\ \A j \in DOMAIN s : j # i => t[j] = s[j]
  BY ExceptSeq

\* A sequence without its first element.
LEMMA Shorter ==
  ASSUME NEW S, NEW s \in Seq(S), s # <<>>
  PROVE  /\ Tail(s) \in Seq(S) /\ Len(Tail(s)) = Len(s) - 1
         /\ Len(s) > 1 => Tail(s) # <<>>
<1>1. Tail(s) \in Seq(S) /\ Len(Tail(s)) = Len(s) - 1 /\ Len(s) \in Nat
  BY HeadTailProperties
<1>2. ASSUME Len(s) > 1 PROVE Tail(s) # <<>>
  <2>1. Len(Tail(s)) # 0
    BY ONLY <1>1, <1>2, SMTT(90)
  <2> QED BY ONLY <1>1, <2>1, EmptySeq
<1> QED BY <1>1, <1>2
\* A sequence has its first element and what comes after it.
LEMMA HeadAndRest ==
  ASSUME NEW S, NEW s \in Seq(S), s # <<>>
  PROVE  ToSet(s) = {Head(s)} \cup ToSet(Tail(s)) /\ (~ (Len(s) > 1) => ToSet(s) = {Head(s)})
<1>1. PICK t, n : t = Tail(s) /\ n = Len(s)
  OBVIOUS
<1>2. /\ n \in Nat /\ n >= 1 /\ DOMAIN s = 1..n /\ Head(s) = s[1]
      /\ DOMAIN t = 1..(n - 1) /\ \A i \in 1..(n - 1) : t[i] = s[i + 1]
  BY <1>1, HeadTailProperties
<1>3. ASSUME NEW i \in DOMAIN s PROVE s[i] = Head(s) \/ (i - 1 \in DOMAIN t /\ s[i] = t[i - 1])
  <2>1. CASE i = 1
    BY <1>2, <2>1
  <2>2. CASE i # 1
    <3>1. i - 1 \in 1..(n - 1) /\ (i - 1) + 1 = i
      BY <1>2, <2>2
    <3> QED BY <1>2, <3>1
  <2> QED BY <2>1, <2>2
<1>4. ASSUME NEW i \in DOMAIN t PROVE i + 1 \in DOMAIN s /\ t[i] = s[i + 1]
  BY <1>2
<1>5. {s[i] : i \in DOMAIN s} = {Head(s)} \cup {t[i] : i \in DOMAIN t}
  <2>1. 1 \in DOMAIN s
    BY <1>2
  <2> QED BY <1>2, <1>3, <1>4, <2>1
<1>6. ASSUME ~ (n > 1) PROVE {s[i] : i \in DOMAIN s} = {Head(s)}
  <2>1. DOMAIN s = {1}
    BY <1>2, <1>6
  <2>2. {s[i] : i \in {1}} = {s[1]}
    OBVIOUS
  <2> QED BY ONLY <1>2, <2>1, <2>2
<1>7. ToSet(s) = {s[i] : i \in DOMAIN s} /\ ToSet(t) = {t[i] : i \in DOMAIN t}
  BY DEF ToSet
<1> QED BY ONLY <1>1, <1>5, <1>6, <1>7

-----------------------------------------------------------------------------
(* Places.                                                                 *)

\* The places of a sequence are finitely many, and so are those it picks.
LEMMA FinitePlaces ==
  ASSUME NEW len \in Nat, NEW places \in SUBSET (1..len)
  PROVE  IsFiniteSet(places) /\ Cardinality(places) \in Nat
<1>1. 1 \in Int /\ len \in Int
  OBVIOUS
<1>2. IsFiniteSet(1..len)
  BY ONLY <1>1, FS_Interval
<1>3. IsFiniteSet(places)
  BY ONLY <1>2, places \in SUBSET (1..len), FS_Subset
<1> QED BY ONLY <1>3, FS_CardinalityType

\* As many places as there are, one after the other: none is left out.
LEMMA NthGives ==
  ASSUME NEW len \in Nat, NEW places \in SUBSET (1..len), NEW size, size = Cardinality(places)
  PROVE  /\ size \in Nat
         /\ \A j \in 1..size : Nth(places, j) \in places
         /\ \A i, j \in 1..size : i < j => Nth(places, i) < Nth(places, j)
         /\ \A n \in places : \E j \in 1..size : Nth(places, j) = n
<1> DEFINE UpTo(n) == {m \in places : m <= n}
           rank == [n \in places |-> Cardinality(UpTo(n))]
<1>0. IsFiniteSet(places) /\ size \in Nat /\ \A n \in places : n \in Int
  <2>1. \A n \in 1..len : n \in Int
    OBVIOUS
  <2>2. IsFiniteSet(places) /\ Cardinality(places) \in Nat
    BY ONLY len \in Nat, places \in SUBSET (1..len), FinitePlaces
  <2> QED BY <2>1, <2>2
<1>1. \A n \in places : IsFiniteSet(UpTo(n)) /\ Cardinality(UpTo(n)) \in Nat
  <2> SUFFICES ASSUME NEW n \in places PROVE IsFiniteSet(UpTo(n)) /\ Cardinality(UpTo(n)) \in Nat
    OBVIOUS
  <2>1. UpTo(n) \in SUBSET (1..len)
    OBVIOUS
  <2> QED BY ONLY <2>1, len \in Nat, FinitePlaces
<1>2. ASSUME NEW n \in places, NEW m \in places, n < m
      PROVE  Cardinality(UpTo(n)) + 1 <= Cardinality(UpTo(m))
  <2>1. m \notin UpTo(n)
    BY <1>0, <1>2
  <2>2. UpTo(n) \cup {m} \in SUBSET UpTo(m)
    <3>1. n \in Int /\ m \in Int /\ m <= m
      BY <1>0
    <3>2. \A x \in Int : x <= n => x <= m
      BY ONLY <1>2, <3>1
    <3> QED BY <1>0, <3>1, <3>2
  <2>3. Cardinality(UpTo(n) \cup {m}) = Cardinality(UpTo(n)) + 1
    <3>1. IsFiniteSet(UpTo(n))
      BY <1>1
    <3>2. Cardinality(UpTo(n) \cup {m}) =
            IF m \in UpTo(n) THEN Cardinality(UpTo(n)) ELSE Cardinality(UpTo(n)) + 1
      BY ONLY <3>1, FS_AddElement
    <3> QED BY ONLY <2>1, <3>2
  <2>4. IsFiniteSet(UpTo(m))
    BY <1>1
  <2>5. Cardinality(UpTo(n) \cup {m}) <= Cardinality(UpTo(m))
    BY ONLY <2>2, <2>4, FS_Subset
  <2> QED BY ONLY <2>3, <2>5
<1>3. \A n \in places : Cardinality(UpTo(n)) \in 1..size
  <2> SUFFICES ASSUME NEW n \in places PROVE Cardinality(UpTo(n)) \in 1..size
    OBVIOUS
  <2>1. UpTo(n) \in SUBSET places
    OBVIOUS
  <2>2. Cardinality(UpTo(n)) <= Cardinality(places)
    BY ONLY <1>0, <2>1, FS_Subset
  <2>3. n \in UpTo(n)
    BY <1>0
  <2>4. Cardinality(UpTo(n)) # 0
    <3>1. IsFiniteSet(UpTo(n)) /\ UpTo(n) # {}
      BY <1>1, <2>3
    <3> QED BY ONLY <3>1, FS_EmptySet
  <2>5. Cardinality(UpTo(n)) \in Nat
    BY <1>1
  <2> QED BY ONLY <1>0, <2>2, <2>4, <2>5, size = Cardinality(places)
<1>4. \A n, m \in places : rank[n] = rank[m] => n = m
  <2> SUFFICES ASSUME NEW n \in places, NEW m \in places, rank[n] = rank[m] PROVE n = m
    OBVIOUS
  <2>1. rank[n] = Cardinality(UpTo(n)) /\ rank[m] = Cardinality(UpTo(m))
    OBVIOUS
  <2>2. Cardinality(UpTo(n)) \in Nat /\ Cardinality(UpTo(n)) = Cardinality(UpTo(m))
    BY <1>1, <2>1
  <2>3. n < m => Cardinality(UpTo(n)) + 1 <= Cardinality(UpTo(m))
    BY ONLY <1>2, n \in places, m \in places
  <2>4. m < n => Cardinality(UpTo(m)) + 1 <= Cardinality(UpTo(n))
    BY ONLY <1>2, n \in places, m \in places
  <2> HIDE DEF UpTo
  <2>5. ~ (n < m) /\ ~ (m < n)
    BY ONLY <2>2, <2>3, <2>4
  <2>6. n \in Int /\ m \in Int
    BY <1>0
  <2> QED BY ONLY <2>5, <2>6
<1>5. rank \in [places -> 1..size] /\ \A n \in places : rank[n] = Cardinality(UpTo(n))
  BY <1>3
<1> HIDE DEF rank
<1>6. rank \in Injection(places, 1..size)
  <2>1. DOMAIN rank = places
    BY ONLY <1>5
  <2> QED BY ONLY <1>4, <1>5, <2>1, Zenon DEF Injection, IsInjective
<1>7. IsFiniteSet(1..size) /\ Cardinality(1..size) = size
  <2>1. 1 \in Int /\ size \in Int
    BY <1>0
  <2>2. IsFiniteSet(1..size) /\ Cardinality(1..size) = IF 1 > size THEN 0 ELSE size - 1 + 1
    BY ONLY <2>1, FS_Interval
  <2> QED BY <1>0, <2>2
<1>8. rank \in Surjection(places, 1..size)
  <2>1. Cardinality(places) = Cardinality(1..size) <=> rank \in Surjection(places, 1..size)
    BY ONLY <1>6, <1>7, FS_Injection
  <2> QED BY <1>7, <2>1
<1>9. \A j \in 1..size : \E n \in places : rank[n] = j
  BY <1>8 DEF Surjection
<1>10. \A j \in 1..size : Nth(places, j) \in places /\ rank[Nth(places, j)] = j
  <2> SUFFICES ASSUME NEW j \in 1..size PROVE Nth(places, j) \in places /\ rank[Nth(places, j)] = j
    OBVIOUS
  <2>1. \E n \in places : Cardinality(UpTo(n)) = j
    BY <1>5, <1>9
  <2>2. Nth(places, j) \in places /\ Cardinality(UpTo(Nth(places, j))) = j
    BY ONLY <2>1 DEF Nth
  <2> QED BY <1>5, <2>2
<1>11. ASSUME NEW i \in 1..size, NEW j \in 1..size, i < j PROVE Nth(places, i) < Nth(places, j)
  <2>1. PICK n \in places, m \in places : n = Nth(places, i) /\ m = Nth(places, j)
    BY <1>10
  <2>2. Cardinality(UpTo(n)) = i /\ Cardinality(UpTo(m)) = j
    BY <1>5, <1>10, <2>1
  <2> HIDE DEF UpTo
  <2>3. n # m
    BY <1>11, <2>2
  <2>4. ~ (m < n)
    <3>1. m < n => Cardinality(UpTo(m)) + 1 <= Cardinality(UpTo(n))
      BY <1>2
    <3> QED BY <1>11, <2>2, <3>1
  <2>5. n \in Int /\ m \in Int
    BY <1>0
  <2>6. n < m
    BY ONLY <2>3, <2>4, <2>5
  <2> QED BY <2>1, <2>6
<1>12. ASSUME NEW n \in places PROVE \E j \in 1..size : Nth(places, j) = n
  <2>1. rank[n] \in 1..size
    BY <1>5
  <2>2. Nth(places, rank[n]) \in places /\ rank[Nth(places, rank[n])] = rank[n]
    BY <1>10, <2>1
  <2>3. Nth(places, rank[n]) = n
    BY <1>4, <2>2
  <2> QED BY <2>1, <2>3
<1> QED BY <1>0, <1>10, <1>11, <1>12

\* What is picked from a sequence is a sequence of elements at those places, each of them.
LEMMA PickedGives ==
  ASSUME NEW S, NEW s \in Seq(S), NEW places \in SUBSET DOMAIN s, NEW t, t = Picked(s, places)
  PROVE  /\ t \in Seq(S) /\ Cardinality(places) \in Nat /\ Len(t) = Cardinality(places)
         /\ DOMAIN t = 1..Cardinality(places)
         /\ \A j \in DOMAIN t : Nth(places, j) \in places /\ t[j] = s[Nth(places, j)]
         /\ \A i, j \in DOMAIN t : i < j => Nth(places, i) < Nth(places, j)
         /\ \A n \in places : \E j \in DOMAIN t : Nth(places, j) = n
<1>1. PICK len \in Nat : len = Len(s) /\ DOMAIN s = 1..len
  OBVIOUS
<1>2. PICK size : size = Cardinality(places)
  OBVIOUS
<1>3. /\ size \in Nat /\ \A j \in 1..size : Nth(places, j) \in places
      /\ \A i, j \in 1..size : i < j => Nth(places, i) < Nth(places, j)
      /\ \A n \in places : \E j \in 1..size : Nth(places, j) = n
  <2>1. places \in SUBSET (1..len)
    BY <1>1
  <2> QED BY ONLY <1>2, <2>1, len \in Nat, NthGives
<1>4. t = [j \in 1..size |-> s[Nth(places, j)]]
  BY <1>2 DEF Picked
<1>5. \A j \in 1..size : s[Nth(places, j)] \in S
  BY <1>1, <1>3
<1>6. t \in [1..size -> S] /\ DOMAIN t = 1..size /\ \A j \in 1..size : t[j] = s[Nth(places, j)]
  BY ONLY <1>4, <1>5
<1>7. t \in Seq(S) /\ Len(t) = size
  BY ONLY <1>3, <1>6
<1> QED BY <1>2, <1>3, <1>6, <1>7

-----------------------------------------------------------------------------
(* Induction.                                                              *)

\* A set of natural numbers has a least one.
LEMMA Smallest ==
  ASSUME NEW T, T \subseteq Nat, T # {}
  PROVE  \E n \in T : \A m \in T : n <= m
<1>1. PICK R : R = {ss \in Nat \X Nat : ss[1] < ss[2]}
  OBVIOUS
<1>2. IsWellFoundedOn(R, Nat)
  BY <1>1, NatLessThanWellFounded DEF OpToRel
<1>3. PICK n \in T : \A m \in T : ~ (<<m, n>> \in R)
  BY <1>2, WFMin
<1>4. ASSUME NEW m \in T PROVE n <= m
  <2>1. m \in Nat /\ n \in Nat
    OBVIOUS
  <2>2. ~ (m < n)
    BY <1>1, <1>3, <2>1
  <2> QED BY <2>1, <2>2
<1> QED BY <1>4

\* What holds at first and is kept by every turn holds after each.
LEMMA Throughout ==
  ASSUME NEW N \in Nat, NEW f, NEW T, <<f[0], 0>> \in T,
         \A n \in 1..N : <<f[n - 1], n - 1>> \in T => <<f[n], n>> \in T
  PROVE  \A n \in 0..N : <<f[n], n>> \in T
<1>1. PICK U : U = {n \in 0..N : <<f[n], n>> \notin T}
  OBVIOUS
<1>2. SUFFICES ASSUME U # {} PROVE FALSE
  BY <1>1
<1>3. U \subseteq Nat
  BY <1>1
<1>4. PICK n \in U : \A m \in U : n <= m
  BY ONLY <1>2, <1>3, Smallest
<1>5. n \in 0..N /\ <<f[n], n>> \notin T
  BY <1>1
<1>6. n # 0
  BY <1>5
<1>7. n \in 1..N /\ n - 1 \in 0..N /\ ~ (n <= n - 1)
  BY <1>5, <1>6
<1>8. n - 1 \notin U
  BY <1>4, <1>7
<1>9. <<f[n - 1], n - 1>> \in T
  BY <1>1, <1>7, <1>8
<1> QED BY <1>5, <1>7, <1>9

\* The values of a function defined by what each turn makes of the one before.
Follows(f, N, a, g) == f[0] = a /\ \A n \in 1..N : f[n] = g[<<f[n - 1], n>>]

\* There is such a function, and its values are where every turn stays.
LEMMA Iteration ==
  ASSUME NEW N \in Nat, NEW S, NEW a \in S, NEW g, \A n \in 1..N : \A s \in S : g[<<s, n>>] \in S
  PROVE  \E f \in [0..N -> S] : Follows(f, N, a, g)
<1>1. PICK T : T = {k \in 0..N : ~ \E f \in [0..k -> S] : Follows(f, k, a, g)}
  OBVIOUS
<1>2. CASE T = {}
  BY <1>1, <1>2
<1>3. CASE T # {}
  <2>0. T \subseteq Nat
    BY <1>1
  <2>1. PICK k \in T : \A m \in T : k <= m
    BY ONLY <1>3, <2>0, Smallest
  <2>2. k \in 0..N
    BY <1>1
  <2>3. CASE k = 0
    <3>1. PICK f : f = [n \in 0..0 |-> a]
      OBVIOUS
    <3>2. f \in [0..0 -> S] /\ Follows(f, 0, a, g)
      BY <3>1 DEF Follows
    <3> QED BY <1>1, <2>3, <3>2
  <2>4. CASE k # 0
    <3>1. k - 1 \in 0..N /\ k - 1 \notin T
      BY <2>1, <2>2, <2>4
    <3>2. PICK f \in [0..(k - 1) -> S] : Follows(f, k - 1, a, g)
      BY <1>1, <3>1
    <3>3. PICK h : h = [n \in 0..k |-> IF n = k THEN g[<<f[k - 1], k>>] ELSE f[n]]
      OBVIOUS
    <3>4. f[k - 1] \in S /\ k \in 1..N
      BY <2>2, <2>4
    <3>5. h \in [0..k -> S]
      BY <2>2, <3>3, <3>4
    <3>6. Follows(h, k, a, g)
      <4>1. h[0] = a
        BY <2>2, <2>4, <3>2, <3>3 DEF Follows
      <4>2. ASSUME NEW n \in 1..k PROVE h[n] = g[<<h[n - 1], n>>]
        <5>1. CASE n = k
          BY <2>2, <2>4, <3>3, <5>1, SMTT(90)
        <5>2. CASE n # k
          <6>1. n \in 1..(k - 1) /\ n \in 0..k /\ n - 1 \in 0..k /\ n - 1 # k
            BY <2>2, <5>2
          <6>2. h[n] = f[n] /\ h[n - 1] = f[n - 1]
            BY <3>3, <5>2, <6>1
          <6> QED BY <3>2, <6>1, <6>2 DEF Follows
        <5> QED BY <5>1, <5>2
      <4> QED BY <4>1, <4>2 DEF Follows
    <3> QED BY <1>1, <3>5, <3>6
  <2> QED BY <2>3, <2>4
<1> QED BY <1>2, <1>3

\* A finite set has finitely many values of a function.
LEMMA FiniteImage ==
  ASSUME NEW S, IsFiniteSet(S), NEW f
  PROVE  IsFiniteSet({f[x] : x \in S}) /\ Cardinality({f[x] : x \in S}) \in Nat
<1> DEFINE T == {f[x] : x \in S}
           g == [x \in S |-> f[x]]
<1>1. g \in Surjection(S, T)
  BY DEF Surjection
<1>2. IsFiniteSet(T)
  BY <1>1, FS_Surjection
<1> QED BY <1>2, FS_CardinalityType
=============================================================================
