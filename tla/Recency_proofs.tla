--------------------------- MODULE Recency_proofs ---------------------------
(***************************************************************************)
(* What the recency order of a bounded cache keeps: its keys are distinct, *)
(* a popped key is the only one that leaves, eviction drops the oldest     *)
(* keys and never the newest.  Used by the proofs about the three caches.  *)
(***************************************************************************)
EXTENDS Recency, SequenceTheorems, FiniteSetTheorems, TLAPS

\* The part of the order after its first m keys.
LEMMA SuffixFacts ==
    ASSUME NEW S, NEW s \in Seq(S), NEW m \in Nat, m <= Len(s)
    PROVE  /\ SubSeq(s, m + 1, Len(s)) \in Seq(S)
           /\ Len(SubSeq(s, m + 1, Len(s))) = Len(s) - m
           /\ \A k \in 1..(Len(s) - m) : SubSeq(s, m + 1, Len(s))[k] = s[m + k]
  <1> DEFINE n == Len(s)
             a == m + 1
             y == SubSeq(s, a, n)
  <1>1. n \in Nat /\ m <= n /\ a = m + 1 /\ \A i \in 1..n : s[i] \in S
    OBVIOUS
  <1>2. \A i \in a..n : s[i] \in S
    BY <1>1
  <1>3. a \in Int /\ n \in Int
    BY <1>1
  <1> HIDE DEF n, a
  <1>4. /\ y \in Seq(S)
        /\ Len(y) = IF a <= n THEN n - a + 1 ELSE 0
        /\ \A i \in 1..(n - a + 1) : y[i] = s[a + i - 1]
    BY <1>2, <1>3, SubSeqProperties
  <1> HIDE DEF y
  <1>5. Len(y) = n - m
    BY <1>1, <1>4
  <1>6. ASSUME NEW k \in 1..(n - m) PROVE y[k] = s[m + k]
    <2>1. k \in 1..(n - a + 1) /\ a + k - 1 = m + k
      BY <1>1
    <2> QED BY <1>4, <2>1
  <1> QED BY <1>4, <1>5, <1>6 DEF n, a, y

\* pop removes the key and nothing else, and shortens the order if the key was there.
LEMMA PoppedFacts ==
    ASSUME NEW S, NEW s \in Seq(S), IsInjective(s), NEW u
    PROVE  /\ Popped(s, u) \in Seq(S)
           /\ IsInjective(Popped(s, u))
           /\ ToSet(Popped(s, u)) = ToSet(s) \ {u}
           /\ Len(Popped(s, u)) <= Len(s)
           /\ u \in ToSet(s) => Len(Popped(s, u)) + 1 = Len(s)
  <1>d. DOMAIN s = 1..Len(s) /\ Len(s) \in Nat
    OBVIOUS
  <1>1. CASE Contains(s, u)
    <2> DEFINE i == CHOOSE j \in 1..Len(s) : s[j] = u
               x == SubSeq(s, 1, i - 1)
               y == SubSeq(s, i + 1, Len(s))
               p == x \o y
    <2>1. i \in 1..Len(s) /\ s[i] = u
      BY <1>1 DEF Contains
    <2>2. Popped(s, u) = p
      BY <1>1 DEF Popped, RemoveAt
    <2> HIDE DEF i
    <2>3. x \in Seq(S) /\ Len(x) = i - 1 /\ \A k \in 1..(i - 1) : x[k] = s[k]
      BY <1>d, <2>1, SubSeqProperties
    <2>4. y \in Seq(S) /\ Len(y) = Len(s) - i /\ \A k \in 1..(Len(s) - i) : y[k] = s[i + k]
      <3>1. i \in Nat /\ i <= Len(s)
        BY <1>d, <2>1
      <3> QED BY <3>1, SuffixFacts
    <2> HIDE DEF x, y
    <2>5. /\ p \in Seq(S) /\ Len(p) = Len(s) - 1 /\ DOMAIN p = 1..(Len(s) - 1)
          /\ \A k \in 1..(Len(s) - 1) : p[k] = IF k < i THEN s[k] ELSE s[k + 1]
      <3>1. p \in Seq(S) /\ Len(p) = Len(x) + Len(y)
        <4>1. x \in Seq(S) /\ y \in Seq(S)
          BY <2>3, <2>4
        <4> QED BY <4>1, ConcatProperties
      <3>2. Len(p) = Len(s) - 1 /\ DOMAIN p = 1..(Len(s) - 1)
        <4>1. (i - 1) + (Len(s) - i) = Len(s) - 1
          BY <1>d, <2>1
        <4>2. Len(p) = Len(s) - 1
          BY <2>3, <2>4, <3>1, <4>1
        <4> QED BY <3>1, <4>2
      <3>3. ASSUME NEW k \in 1..(Len(s) - 1) PROVE p[k] = IF k < i THEN s[k] ELSE s[k + 1]
        <4>1. CASE k < i
          <5>1. k \in 1..(i - 1)
            BY <1>d, <2>1, <4>1
          <5>2. p[k] = x[k]
            BY <2>3, <2>4, <5>1
          <5> QED BY <2>3, <4>1, <5>1, <5>2
        <4>2. CASE ~(k < i)
          <5>1. k - (i - 1) \in 1..(Len(s) - i) /\ i + (k - (i - 1)) = k + 1 /\ k > i - 1
            BY <1>d, <2>1, <4>2
          <5>2. p[k] = y[k - Len(x)]
            <6>1. k \in 1..(Len(x) + Len(y)) /\ ~(k <= Len(x))
              BY <1>d, <2>1, <2>3, <2>4, <4>2
            <6> QED BY <2>3, <2>4, <6>1
          <5>3. y[k - Len(x)] = s[i + (k - (i - 1))]
            BY <2>3, <2>4, <5>1
          <5> QED BY <4>2, <5>1, <5>2, <5>3
        <4> QED BY <4>1, <4>2
      <3> QED BY <3>1, <3>2, <3>3
    <2> HIDE DEF p
    <2>6. IsInjective(p)
      <3> SUFFICES ASSUME NEW k \in 1..(Len(s) - 1), NEW l \in 1..(Len(s) - 1), p[k] = p[l]
                   PROVE  k = l
        BY <2>5 DEF IsInjective
      <3> DEFINE at(z) == IF z < i THEN z ELSE z + 1
      <3>1. at(k) \in 1..Len(s) /\ at(l) \in 1..Len(s) /\ p[k] = s[at(k)] /\ p[l] = s[at(l)]
        BY <1>d, <2>1, <2>5
      <3>2. at(k) = at(l)
        BY <1>d, <3>1 DEF IsInjective
      <3> QED BY <2>1, <3>2
    <2>7. ToSet(p) = ToSet(s) \ {u}
      <3>1. ASSUME NEW k \in 1..(Len(s) - 1) PROVE p[k] \in ToSet(s) \ {u}
        <4>1. PICK j \in 1..Len(s) : j # i /\ p[k] = s[j]
          BY <1>d, <2>1, <2>5
        <4> QED BY <1>d, <2>1, <4>1 DEF IsInjective, ToSet
      <3>2. ASSUME NEW j \in 1..Len(s), s[j] # u PROVE s[j] \in ToSet(p)
        <4>1. CASE j < i
          <5>1. j \in 1..(Len(s) - 1) /\ p[j] = s[j]
            BY <1>d, <2>1, <2>5, <4>1
          <5> QED BY <2>5, <5>1 DEF ToSet
        <4>2. CASE ~(j < i)
          <5>1. j # i
            BY <2>1, <3>2
          <5>2. j - 1 \in 1..(Len(s) - 1) /\ ~(j - 1 < i) /\ j - 1 + 1 = j
            BY <1>d, <2>1, <4>2, <5>1
          <5>3. p[j - 1] = s[j]
            BY <2>5, <5>2
          <5> QED BY <2>5, <5>2, <5>3 DEF ToSet
        <4> QED BY <4>1, <4>2
      <3>3. ToSet(p) \subseteq ToSet(s) \ {u}
        BY <2>5, <3>1 DEF ToSet
      <3>4. ToSet(s) \ {u} \subseteq ToSet(p)
        BY <1>d, <3>2 DEF ToSet
      <3> QED BY <3>3, <3>4
    <2> QED BY <1>d, <2>2, <2>5, <2>6, <2>7
  <1>2. CASE ~Contains(s, u)
    BY <1>2 DEF Popped, Contains, ToSet
  <1> QED BY <1>1, <1>2

\* A key that is not in the order becomes its newest one.
LEMMA AppendFacts ==
    ASSUME NEW S, NEW s \in Seq(S), IsInjective(s), NEW u \in S, u \notin ToSet(s)
    PROVE  /\ Append(s, u) \in Seq(S)
           /\ IsInjective(Append(s, u))
           /\ ToSet(Append(s, u)) = ToSet(s) \cup {u}
           /\ Len(Append(s, u)) = Len(s) + 1
           /\ Append(s, u)[Len(Append(s, u))] = u
  <1> DEFINE a == Append(s, u)
  <1>1. /\ a \in Seq(S) /\ Len(a) = Len(s) + 1 /\ DOMAIN a = 1..(Len(s) + 1)
        /\ DOMAIN s = 1..Len(s) /\ Len(s) \in Nat
        /\ a[Len(s) + 1] = u /\ \A i \in 1..Len(s) : a[i] = s[i]
    OBVIOUS
  <1>2. \A i \in 1..(Len(s) + 1) : i = Len(s) + 1 \/ i \in 1..Len(s)
    BY <1>1
  <1> HIDE DEF a
  <1>3. IsInjective(a)
    <2>1. \A i \in 1..Len(s) : s[i] # u
      BY <1>1 DEF ToSet
    <2> QED BY <1>1, <1>2, <2>1 DEF IsInjective
  <1>4. ToSet(a) = ToSet(s) \cup {u}
    <2>1. ToSet(a) \subseteq ToSet(s) \cup {u}
      BY <1>1, <1>2 DEF ToSet
    <2>2. ToSet(s) \subseteq ToSet(a)
      <3>1. ASSUME NEW i \in 1..Len(s) PROVE s[i] \in ToSet(a)
        <4>1. i \in 1..(Len(s) + 1) /\ a[i] = s[i]
          BY <1>1
        <4> QED BY <1>1, <4>1 DEF ToSet
      <3> QED BY <1>1, <3>1 DEF ToSet
    <2>3. u \in ToSet(a)
      <3>1. Len(s) + 1 \in 1..(Len(s) + 1)
        BY <1>1
      <3> QED BY <1>1, <3>1 DEF ToSet
    <2> QED BY <2>1, <2>2, <2>3
  <1> QED BY <1>1, <1>3, <1>4 DEF a

\* Eviction keeps distinct keys of the order, at most n, the newest among them.
LEMMA NewestFacts ==
    ASSUME NEW S, NEW s \in Seq(S), IsInjective(s), NEW n \in Nat
    PROVE  /\ Newest(s, n) \in Seq(S)
           /\ IsInjective(Newest(s, n))
           /\ ToSet(Newest(s, n)) \subseteq ToSet(s)
           /\ Len(Newest(s, n)) <= n
           /\ n > 0 /\ Len(s) > 0 => s[Len(s)] \in ToSet(Newest(s, n))
  <1>d. DOMAIN s = 1..Len(s) /\ Len(s) \in Nat
    OBVIOUS
  <1>1. CASE Len(s) > n
    <2> DEFINE m == Len(s) - n
               q == SubSeq(s, m + 1, Len(s))
    <2>1. m \in Nat /\ m <= Len(s) /\ Len(s) - m = n /\ Newest(s, n) = q
      BY <1>1, <1>d DEF Newest
    <2> HIDE DEF m
    <2>2. /\ q \in Seq(S) /\ Len(q) = n /\ DOMAIN q = 1..n
          /\ \A i \in 1..n : q[i] = s[m + i] /\ m + i \in 1..Len(s)
      <3>1. \A i \in 1..n : m + i \in 1..Len(s)
        BY <2>1
      <3>3. q \in Seq(S) /\ Len(q) = n /\ \A i \in 1..n : q[i] = s[m + i]
        BY <2>1, SuffixFacts
      <3> QED BY <3>1, <3>3
    <2> HIDE DEF q
    <2>3. IsInjective(q)
      <3> SUFFICES ASSUME NEW i \in 1..n, NEW j \in 1..n, q[i] = q[j] PROVE i = j
        BY <2>2 DEF IsInjective
      <3>1. m + i = m + j
        BY <1>d, <2>2 DEF IsInjective
      <3> QED BY <2>1, <3>1
    <2>4. ToSet(q) \subseteq ToSet(s)
      BY <1>d, <2>2 DEF ToSet
    <2>5. n > 0 => s[Len(s)] \in ToSet(q)
      <3> SUFFICES ASSUME n > 0 PROVE s[Len(s)] \in ToSet(q)
        OBVIOUS
      <3>1. n \in 1..n
        OBVIOUS
      <3>2. q[n] = s[Len(s)]
        BY <2>1, <2>2, <3>1
      <3> QED BY <2>2, <3>1, <3>2 DEF ToSet
    <2> QED BY <2>1, <2>2, <2>3, <2>4, <2>5
  <1>2. CASE ~(Len(s) > n)
    <2>1. Newest(s, n) = s
      BY <1>2 DEF Newest
    <2>2. Len(s) > 0 => s[Len(s)] \in ToSet(s)
      BY <1>d DEF ToSet
    <2> QED BY <1>2, <1>d, <2>1, <2>2
  <1> QED BY <1>1, <1>2

\* A use of u makes it the newest key and keeps the others.
LEMMA TouchFacts ==
    ASSUME NEW S, NEW s \in Seq(S), IsInjective(s), NEW u \in S
    PROVE  LET t == Append(Popped(s, u), u) IN
           /\ t \in Seq(S)
           /\ IsInjective(t)
           /\ ToSet(t) = ToSet(s) \cup {u}
           /\ u \in ToSet(s) => Len(t) = Len(s)
           /\ Len(t) > 0 /\ t[Len(t)] = u
  <1> DEFINE p == Popped(s, u)
  <1>1. /\ p \in Seq(S) /\ IsInjective(p) /\ ToSet(p) = ToSet(s) \ {u}
        /\ u \in ToSet(s) => Len(p) + 1 = Len(s)
    BY PoppedFacts
  <1> HIDE DEF p
  <1>2. u \notin ToSet(p) /\ Len(p) \in Nat
    BY <1>1
  <1>3. /\ Append(p, u) \in Seq(S)
        /\ IsInjective(Append(p, u))
        /\ ToSet(Append(p, u)) = ToSet(p) \cup {u}
        /\ Len(Append(p, u)) = Len(p) + 1
        /\ Append(p, u)[Len(Append(p, u))] = u
    BY <1>1, <1>2, AppendFacts
  <1>4. Len(Append(p, u)) > 0 /\ (u \in ToSet(s) => Len(Append(p, u)) = Len(s))
    BY <1>1, <1>2, <1>3
  <1>5. ToSet(Append(p, u)) = ToSet(s) \cup {u}
    BY <1>1, <1>3
  <1> QED BY <1>3, <1>4, <1>5 DEF p

\* Dropping what is above the bound leaves as many records as the bound.
LEMMA PruneFacts ==
    ASSUME NEW M, IsFiniteSet(M), NEW n \in Nat, NEW V \in SUBSET M,
           Cardinality(V) = Cardinality(M) - n
    PROVE  IsFiniteSet(M \ V) /\ Cardinality(M \ V) = n
  <1>1. M \cap V = V
    OBVIOUS
  <1>2. IsFiniteSet(M \ V) /\ Cardinality(M \ V) = Cardinality(M) - Cardinality(V)
    BY <1>1, FS_Difference, SMTT(30)
  <1>3. Cardinality(M) \in Nat
    BY FS_CardinalityType
  <1> QED BY <1>2, <1>3
=============================================================================
