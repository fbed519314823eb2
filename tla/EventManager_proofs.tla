-------------------------- MODULE EventManager_proofs --------------------------
(***************************************************************************)
(* What is proved of the operators and the steps that the event manager is *)
(* made of: what is kept of a list, what a batch becomes, and that the     *)
(* steps keep the types.  EventDelivery_proofs and TitusAgent_proofs rest  *)
(* on it.                                                                  *)
(***************************************************************************)
EXTENDS EventManager, FiniteSetTheorems, TLAPS

-----------------------------------------------------------------------------
(* Select is the sequence along any enumeration of the positions that are  *)
(* kept.                                                                   *)

\* Positions increase with their rank, and every rank is that of a position.
LEMMA Ranks ==
    ASSUME NEW I \in SUBSET Nat, IsFiniteSet(I)
    PROVE  /\ Cardinality(I) \in Nat
           /\ \A i \in I : Rank(I, i) \in 1 .. Cardinality(I)
           /\ \A i, j \in I : i < j => Rank(I, i) < Rank(I, j)
           /\ \A k \in 1 .. Cardinality(I) : \E i \in I : Rank(I, i) = k
  <1> DEFINE n == Cardinality(I)
             Upto(i) == {j \in I : j <= i}
  <1>1. n \in Nat
    BY FS_CardinalityType
  <1>2. ASSUME NEW i \in I
        PROVE  /\ IsFiniteSet(Upto(i)) /\ Rank(I, i) = Cardinality(Upto(i))
               /\ Rank(I, i) \in 1 .. n
    <2>1. Upto(i) \in SUBSET I /\ i \in Upto(i)
      OBVIOUS
    <2>2. IsFiniteSet(Upto(i)) /\ Cardinality(Upto(i)) <= n
      BY <2>1, FS_Subset
    <2>3. Cardinality(Upto(i)) \in Nat /\ Cardinality(Upto(i)) # 0
      BY <2>1, <2>2, FS_CardinalityType, FS_EmptySet
    <2>4. Rank(I, i) = Cardinality(Upto(i))
      BY DEF Rank
    <2> QED
      BY <1>1, <2>2, <2>3, <2>4
  <1>3. ASSUME NEW i \in I, NEW j \in I, i < j
        PROVE  Rank(I, i) < Rank(I, j)
    <2>0. i \in Nat /\ j \in Nat /\ \A l \in I : l \in Nat
      OBVIOUS
    <2>4. \A l \in I : l <= i => l <= j
      BY <1>3, <2>0
    <2>5. j <= j /\ ~(j <= i)
      BY <1>3, <2>0
    <2>1. Upto(i) \in SUBSET Upto(j) /\ j \in Upto(j) /\ j \notin Upto(i)
      BY <2>4, <2>5
    <2>2. /\ IsFiniteSet(Upto(j))
          /\ Rank(I, i) = Cardinality(Upto(i)) /\ Rank(I, j) = Cardinality(Upto(j))
          /\ Rank(I, i) \in Nat /\ Rank(I, j) \in Nat
      BY <1>1, <1>2
    <2>3. Cardinality(Upto(i)) <= Cardinality(Upto(j)) /\ Cardinality(Upto(i)) # Cardinality(Upto(j))
      BY <2>1, <2>2, FS_Subset
    <2> QED
      BY <2>2, <2>3
  <1>4. \A k \in 1 .. n : \E i \in I : Rank(I, i) = k
    <2> DEFINE r == [i \in I |-> Rank(I, i)]
    <2>1. r \in [I -> 1 .. n]
      BY <1>2
    <2>2. \A i, j \in I : r[i] = r[j] => i = j
      <3>1. \A i, j \in I : i < j \/ j < i \/ i = j
        OBVIOUS
      <3>2. \A i \in I : Rank(I, i) \in Nat
        <4>1. \A i \in I : Rank(I, i) \in 1 .. n
          BY <1>2
        <4> HIDE DEF n
        <4> QED
          BY <1>1, <4>1
      <3> QED
        BY <1>3, <3>1, <3>2
    <2>3. r \in Injection(I, 1 .. n)
      BY <2>1, <2>2 DEF Injection, IsInjective
    <2>4. IsFiniteSet(1 .. n) /\ Cardinality(1 .. n) = n
      BY <1>1, FS_Interval
    <2>5. r \in Surjection(I, 1 .. n)
      BY <2>3, <2>4, FS_Injection
    <2> QED
      BY <2>5 DEF Surjection
  <1> QED
    BY <1>1, <1>2, <1>3, <1>4

\* f goes through the elements of I from the first to the last.
Enumerates(f, n, I) ==
    /\ f \in [1 .. n -> I]
    /\ \A j, k \in 1 .. n : j < k => f[j] < f[k]
    /\ \A i \in I : \E k \in 1 .. n : f[k] = i

\* The k-th element of an enumeration has the rank k.
LEMMA EnumerationRanks ==
    ASSUME NEW I \in SUBSET Nat, IsFiniteSet(I), NEW n \in Nat, NEW f, Enumerates(f, n, I)
    PROVE  /\ n = Cardinality(I)
           /\ \A k \in 1 .. n : Rank(I, f[k]) = k
  <1> USE DEF Enumerates
  <1>1. ASSUME NEW k \in 0 .. n
        PROVE  Cardinality({f[j] : j \in 1 .. k}) = k
    <2> DEFINE T == {f[j] : j \in 1 .. k}
               g == [j \in 1 .. k |-> f[j]]
    <2>1. g \in [1 .. k -> T] /\ \A i \in T : \E j \in 1 .. k : g[j] = i
      OBVIOUS
    <2>2. \A i, j \in 1 .. k : g[i] = g[j] => i = j
      <3>1. \A i, j \in 1 .. k : i \in 1 .. n /\ j \in 1 .. n
        OBVIOUS
      <3>2. \A i \in 1 .. k : f[i] \in Nat
        <4>1. \A i \in 1 .. n : f[i] \in I
          OBVIOUS
        <4> QED
          BY <3>1, <4>1
      <3>3. \A i, j \in 1 .. k : i < j => f[i] < f[j]
        BY <3>1
      <3>4. \A i, j \in 1 .. k : i < j \/ j < i \/ i = j
        OBVIOUS
      <3> QED
        BY <3>2, <3>3, <3>4
    <2>3. g \in Bijection(1 .. k, T)
      BY <2>1, <2>2 DEF Bijection, Injection, Surjection, IsInjective
    <2>4. k \in Nat
      OBVIOUS
    <2>5. ExistsBijection(1 .. k, T)
      BY <2>3 DEF ExistsBijection
    <2> QED
      BY <2>4, <2>5, FS_CountingElements
  <1>2. n = Cardinality(I)
    <2>1. {f[j] : j \in 1 .. n} = I
      OBVIOUS
    <2> QED
      BY <1>1, <2>1
  <1>3. ASSUME NEW k \in 1 .. n
        PROVE  Rank(I, f[k]) = k
    <2>1. {i \in I : i <= f[k]} = {f[j] : j \in 1 .. k}
      <3>1. ASSUME NEW i \in I, i <= f[k]
            PROVE  \E j \in 1 .. k : f[j] = i
        <4>1. PICK j \in 1 .. n : f[j] = i
          OBVIOUS
        <4>2. j <= k
          <5>1. k < j => f[k] < f[j]
            OBVIOUS
          <5>2. f[k] \in Nat /\ f[j] \in Nat
            OBVIOUS
          <5> QED
            BY <3>1, <4>1, <5>1, <5>2
        <4> QED
          BY <4>1, <4>2
      <3>2. ASSUME NEW j \in 1 .. k
            PROVE  f[j] \in I /\ f[j] <= f[k]
        <4>1. j \in 1 .. n /\ (j < k \/ j = k)
          OBVIOUS
        <4>2. f[j] \in I /\ f[k] \in I /\ f[j] \in Nat /\ f[k] \in Nat
          BY <4>1
        <4>3. j < k => f[j] < f[k]
          BY <4>1
        <4> QED
          BY <4>1, <4>2, <4>3
      <3> QED
        BY <3>1, <3>2
    <2> QED
      BY <1>1, <2>1 DEF Rank
  <1> QED
    BY <1>2, <1>3

-----------------------------------------------------------------------------
(* Select is the sequence along any enumeration of the positions *)

\* The positions of what is selected are finitely many numbers.
LEMMA PositionsType ==
    ASSUME NEW U, NEW s \in Seq(U), NEW S
    PROVE  /\ Positions(s, S) \in SUBSET Nat
           /\ Positions(s, S) \subseteq 1 .. Len(s)
           /\ IsFiniteSet(Positions(s, S))
  <1>1. Positions(s, S) \in SUBSET (1 .. Len(s)) /\ Len(s) \in Nat
    BY DEF Positions
  <1>2. IsFiniteSet(1 .. Len(s))
    BY <1>1, FS_Interval
  <1>3. IsFiniteSet(Positions(s, S))
    BY <1>1, <1>2, FS_Subset
  <1> QED
    BY <1>1, <1>3

\* Whatever lists the positions in increasing order gives what Select gives.
LEMMA SelectAlong ==
    ASSUME NEW U, NEW s \in Seq(U), NEW S, NEW n \in Nat, NEW f,
           Enumerates(f, n, Positions(s, S))
    PROVE  Select(s, S) = [k \in 1 .. n |-> s[f[k]]]
  <1> DEFINE I == Positions(s, S)
  <1>1. /\ I \in SUBSET Nat /\ IsFiniteSet(I) /\ n = Cardinality(I)
        /\ \A k \in 1 .. n : Rank(I, f[k]) = k
        /\ \A i, j \in I : i < j => Rank(I, i) < Rank(I, j)
        /\ \A i \in I : Rank(I, i) \in 1 .. n
    BY PositionsType, EnumerationRanks, Ranks
  <1>2. ASSUME NEW k \in 1 .. n
        PROVE  (CHOOSE i \in I : Rank(I, i) = k) = f[k]
    <2>1. f[k] \in I /\ Rank(I, f[k]) = k
      BY <1>1 DEF Enumerates
    <2>2. \A i \in I : Rank(I, i) = k => i = f[k]
      <3>1. \A i \in I : i \in Nat /\ (i < f[k] \/ f[k] < i \/ i = f[k])
        BY <1>1, <2>1
      <3> QED
        BY <1>1, <2>1, <3>1
    <2> QED
      BY <2>1, <2>2
  <1>3. Select(s, S) = [k \in 1 .. n |-> s[CHOOSE i \in I : Rank(I, i) = k]]
    BY <1>1 DEF Select
  <1> QED
    BY <1>2, <1>3

\* There is such an enumeration.
LEMMA SelectEnumerates ==
    ASSUME NEW U, NEW s \in Seq(U), NEW S
    PROVE  \E n \in Nat : \E f : Enumerates(f, n, Positions(s, S))
  <1> DEFINE I == Positions(s, S)
             n == Cardinality(I)
             f == [k \in 1 .. n |-> CHOOSE i \in I : Rank(I, i) = k]
  <1>1. /\ I \in SUBSET Nat /\ IsFiniteSet(I) /\ n \in Nat
        /\ \A i \in I : Rank(I, i) \in 1 .. n
        /\ \A i, j \in I : i < j => Rank(I, i) < Rank(I, j)
        /\ \A k \in 1 .. n : \E i \in I : Rank(I, i) = k
    BY PositionsType, Ranks
  <1>2. \A k \in 1 .. n : f[k] \in I /\ Rank(I, f[k]) = k
    BY <1>1
  <1>6. f \in [1 .. n -> I]
    BY <1>2
  <1> HIDE DEF I, n, f
  <1>3. ASSUME NEW j \in 1 .. n, NEW k \in 1 .. n, j < k
        PROVE  f[j] < f[k]
    <2>1. /\ f[j] \in I /\ f[k] \in I /\ Rank(I, f[j]) = j /\ Rank(I, f[k]) = k
          /\ j \in Nat /\ k \in Nat
      BY <1>1, <1>2
    <2>2. f[j] \in Nat /\ f[k] \in Nat
      BY <1>1, <2>1
    <2>4. f[k] # f[j]
      BY <1>3, <2>1
    <2>5. f[k] < f[j] => Rank(I, f[k]) < Rank(I, f[j])
      BY <1>1, <2>1
    <2>3. f[k] # f[j] /\ ~(f[k] < f[j])
      BY <1>3, <2>1, <2>4, <2>5
    <2> QED
      BY <2>2, <2>3
  <1>4. \A i, j \in I : Rank(I, i) = Rank(I, j) => i = j
    <2>1. \A i, j \in I : i \in Nat /\ j \in Nat /\ (i < j \/ j < i \/ i = j)
      BY <1>1
    <2>2. \A i \in I : Rank(I, i) \in Nat
      BY <1>1
    <2> QED
      BY <1>1, <2>1, <2>2
  <1>5. \A i \in I : \E k \in 1 .. n : f[k] = i
    BY <1>1, <1>2, <1>4
  <1>7. Enumerates(f, n, I)
    BY <1>3, <1>5, <1>6 DEF Enumerates
  <1> QED
    BY <1>1, <1>7 DEF I

-----------------------------------------------------------------------------
(* What follows for its elements *)

\* Select keeps what is in S, and nothing else.
LEMMA SelectElements ==
    ASSUME NEW U, NEW s \in Seq(U), NEW S
    PROVE  /\ Select(s, S) \in Seq(U)
           /\ Select(s, S) \in Seq(S)
           /\ \A e : (\E k \in DOMAIN Select(s, S) : Select(s, S)[k] = e)
                        <=> e \in S /\ \E i \in DOMAIN s : s[i] = e
  <1>0. PICK n \in Nat : \E f : Enumerates(f, n, Positions(s, S))
    BY SelectEnumerates
  <1>1. PICK f : Enumerates(f, n, Positions(s, S))
    BY <1>0
  <1>2. Select(s, S) = [k \in 1 .. n |-> s[f[k]]]
    BY <1>1, SelectAlong
  <1>3. \A k \in 1 .. n : f[k] \in DOMAIN s /\ s[f[k]] \in S
    BY <1>1 DEF Enumerates, Positions
  <1>4. \A i \in DOMAIN s : s[i] \in S => \E k \in 1 .. n : f[k] = i
    BY <1>1 DEF Enumerates, Positions
  <1>5. \A i \in DOMAIN s : s[i] \in U
    OBVIOUS
  <1>6. Select(s, S) \in Seq(U) /\ Select(s, S) \in Seq(S)
    BY <1>2, <1>3, <1>5
  <1>7. ASSUME NEW e, NEW k \in DOMAIN Select(s, S), Select(s, S)[k] = e
        PROVE  e \in S /\ \E i \in DOMAIN s : s[i] = e
    BY <1>2, <1>3, <1>7
  <1>8. ASSUME NEW e \in S, NEW i \in DOMAIN s, s[i] = e
        PROVE  \E k \in DOMAIN Select(s, S) : Select(s, S)[k] = e
    <2>1. PICK k \in 1 .. n : f[k] = i
      BY <1>4, <1>8
    <2> QED
      BY <1>2, <1>8, <2>1
  <1> QED
    BY <1>6, <1>7, <1>8

\* Nothing is selected of nothing.
LEMMA SelectEmpty ==
    ASSUME NEW S
    PROVE  Select(<<>>, S) = <<>>
  <1>1. Positions(<<>>, S) = {}
    BY DEF Positions
  <1>2. Cardinality({}) = 0
    BY FS_EmptySet
  <1> QED
    BY <1>1, <1>2 DEF Select

\* Of one element, it is kept or not.
LEMMA SelectOne ==
    ASSUME NEW U, NEW e \in U, NEW S
    PROVE  Select(<<e>>, S) = IF e \in S THEN <<e>> ELSE <<>>
  <1>1. <<e>> \in Seq(U) /\ DOMAIN <<e>> = {1}
    OBVIOUS
  <1>2. CASE e \in S
    <2> DEFINE f == [k \in 1 .. 1 |-> 1]
    <2>1. Positions(<<e>>, S) = {1}
      BY <1>1, <1>2 DEF Positions
    <2>2. Enumerates(f, 1, Positions(<<e>>, S))
      BY <2>1 DEF Enumerates
    <2>3. f[1] = 1
      OBVIOUS
    <2> HIDE DEF f
    <2>6. <<e>> \in Seq(U) /\ 1 \in Nat
      OBVIOUS
    <2>4. Select(<<e>>, S) = [k \in 1 .. 1 |-> <<e>>[f[k]]]
      <3>1. PICK q \in Seq(U), n \in Nat : q = <<e>> /\ n = 1
        BY <2>6
      <3>2. PICK a : a = f
        OBVIOUS
      <3>3. Enumerates(a, n, Positions(q, S))
        BY <2>2, <3>1, <3>2
      <3>4. Select(q, S) = [k \in 1 .. n |-> q[a[k]]]
        BY <3>3, SelectAlong
      <3> QED
        BY <3>1, <3>2, <3>4
    <2>5. [k \in 1 .. 1 |-> <<e>>[f[k]]] = <<e>>
      <3>1. \A k \in 1 .. 1 : k = 1
        OBVIOUS
      <3>2. [k \in 1 .. 1 |-> <<e>>[f[k]]] = [k \in 1 .. 1 |-> e]
        BY <2>3, <3>1
      <3> QED
        BY <3>2
    <2> QED
      BY <1>2, <2>4, <2>5
  <1>3. CASE e \notin S
    <2> DEFINE I == Positions(<<e>>, S)
    <2>1. I = {}
      BY <1>1, <1>3 DEF Positions
    <2>2. Cardinality({}) = 0
      BY FS_EmptySet
    <2>3. Select(<<e>>, S) = [k \in 1 .. 0 |-> <<e>>[CHOOSE i \in I : Rank(I, i) = k]]
      BY <2>1, <2>2 DEF Select
    <2>4. Select(<<e>>, S) = <<>>
      BY <2>3
    <2> QED
      BY <1>3, <2>4
  <1> QED
    BY <1>2, <1>3

\* Two lists joined, as a function: the first one as far as it goes, and the
\* second one from there on.
LEMMA JoinAsFunction ==
    ASSUME NEW U, NEW x \in Seq(U), NEW y \in Seq(U)
    PROVE  x \o y = [k \in 1 .. Len(x) + Len(y) |->
                       IF k <= Len(x) THEN x[k] ELSE y[k - Len(x)]]
  <1>1. x \o y \in Seq(U) /\ Len(x \o y) = Len(x) + Len(y)
    OBVIOUS
  <1>2. \A k \in 1 .. Len(x) + Len(y) :
          (x \o y)[k] = IF k <= Len(x) THEN x[k] ELSE y[k - Len(x)]
    OBVIOUS
  <1>3. PICK q \in Seq(U) : q = x \o y
    BY <1>1, Zenon
  <1>4. q = [k \in DOMAIN q |-> q[k]]
    OBVIOUS
  <1>5. DOMAIN q = 1 .. Len(q)
    OBVIOUS
  <1>6. DOMAIN q = 1 .. Len(x) + Len(y)
    BY <1>1, <1>3, <1>5, Zenon
  <1> QED
    BY <1>2, <1>3, <1>4, <1>6, Zenon

\* What is kept of two lists, one after the other, is what is kept of each.
LEMMA SelectConcat ==
    ASSUME NEW U, NEW s \in Seq(U), NEW t \in Seq(U), NEW S
    PROVE  Select(s \o t, S) = Select(s, S) \o Select(t, S)
  <1>m. PICK m \in Nat : \E f : Enumerates(f, m, Positions(s, S))
    BY SelectEnumerates
  <1>1. PICK f : Enumerates(f, m, Positions(s, S))
    BY <1>m
  <1>n. PICK n \in Nat : \E g : Enumerates(g, n, Positions(t, S))
    BY SelectEnumerates
  <1>2. PICK g : Enumerates(g, n, Positions(t, S))
    BY <1>n
  <1> DEFINE l == Len(s)
             h == [k \in 1 .. m + n |-> IF k <= m THEN f[k] ELSE l + g[k - m]]
  <1>3. /\ s \o t \in Seq(U) /\ l \in Nat /\ Len(t) \in Nat
        /\ DOMAIN s = 1 .. l /\ DOMAIN t = 1 .. Len(t) /\ DOMAIN (s \o t) = 1 .. l + Len(t)
        /\ \A i \in 1 .. l : (s \o t)[i] = s[i]
        /\ \A i \in 1 .. Len(t) : (s \o t)[l + i] = t[i]
    OBVIOUS
  <1> HIDE DEF l
  <1>4. /\ \A i \in Positions(s, S) : i \in 1 .. l
        /\ \A i \in Positions(t, S) : i \in 1 .. Len(t)
    BY <1>3 DEF Positions
  <1>5. /\ \A k \in 1 .. m : f[k] \in Positions(s, S)
        /\ \A k \in 1 .. n : g[k] \in Positions(t, S)
        /\ \A j, k \in 1 .. m : j < k => f[j] < f[k]
        /\ \A j, k \in 1 .. n : j < k => g[j] < g[k]
        /\ \A i \in Positions(s, S) : \E k \in 1 .. m : f[k] = i
        /\ \A i \in Positions(t, S) : \E k \in 1 .. n : g[k] = i
    BY <1>1, <1>2 DEF Enumerates
  <1>6. ASSUME NEW k \in 1 .. m + n
        PROVE  /\ k <= m => k \in 1 .. m /\ h[k] = f[k] /\ h[k] \in 1 .. l
               /\ ~(k <= m) => k - m \in 1 .. n /\ h[k] = l + g[k - m] /\ g[k - m] \in 1 .. Len(t)
    <2>1. k <= m => k \in 1 .. m
      OBVIOUS
    <2>2. ~(k <= m) => k - m \in 1 .. n
      OBVIOUS
    <2> QED
      BY <1>4, <1>5, <2>1, <2>2
  <1>7. \A k \in 1 .. m + n : h[k] \in Positions(s \o t, S)
    <2> SUFFICES ASSUME NEW k \in 1 .. m + n PROVE h[k] \in Positions(s \o t, S)
      OBVIOUS
    <2>1. CASE k <= m
      <3>1. f[k] \in Positions(s, S) /\ h[k] = f[k] /\ h[k] \in 1 .. l
        BY <1>5, <1>6, <2>1
      <3> HIDE DEF h
      <3>2. h[k] \in 1 .. l + Len(t)
        BY <1>3, <3>1
      <3> QED
        BY <1>3, <3>1, <3>2 DEF Positions
    <2>2. CASE ~(k <= m)
      <3>1. /\ g[k - m] \in Positions(t, S) /\ h[k] = l + g[k - m]
            /\ g[k - m] \in 1 .. Len(t)
        BY <1>5, <1>6, <2>2
      <3> HIDE DEF h
      <3>2. /\ l \in Nat /\ Len(t) \in Nat /\ DOMAIN (s \o t) = 1 .. l + Len(t)
            /\ \A i \in 1 .. Len(t) : (s \o t)[l + i] = t[i]
        BY <1>3
      <3>3. h[k] \in DOMAIN (s \o t)
        BY <3>1, <3>2
      <3>4. (s \o t)[h[k]] = t[g[k - m]]
        BY <3>1, <3>2
      <3>5. t[g[k - m]] \in S
        BY <3>1 DEF Positions
      <3> QED
        BY <3>3, <3>4, <3>5 DEF Positions
    <2> QED
      BY <2>1, <2>2
  <1>8. ASSUME NEW j \in 1 .. m + n, NEW k \in 1 .. m + n, j < k
        PROVE  h[j] < h[k]
    <2>0. j \in Nat /\ k \in Nat /\ j \in Int /\ k \in Int
      OBVIOUS
    <2>1. CASE k <= m
      <3>1. j <= m
        BY <1>8, <2>0, <2>1
      <3>2. h[j] = f[j] /\ h[k] = f[k] /\ j \in 1 .. m /\ k \in 1 .. m
        BY <1>6, <2>1, <3>1
      <3> HIDE DEF h
      <3> QED
        BY <1>5, <1>8, <3>2
    <2>2. CASE j <= m /\ ~(k <= m)
      <3>1. h[j] \in 1 .. l /\ h[k] = l + g[k - m] /\ g[k - m] \in 1 .. Len(t)
        BY <1>6, <2>2
      <3> HIDE DEF h
      <3> QED
        BY <1>3, <3>1
    <2>3. CASE ~(j <= m)
      <3>1. ~(k <= m)
        BY <1>8, <2>0, <2>3
      <3>2. /\ h[j] = l + g[j - m] /\ h[k] = l + g[k - m]
            /\ j - m \in 1 .. n /\ k - m \in 1 .. n
            /\ g[j - m] \in 1 .. Len(t) /\ g[k - m] \in 1 .. Len(t)
        BY <1>6, <2>3, <3>1
      <3> HIDE DEF h
      <3>3. j - m < k - m
        BY <1>8, <2>0
      <3>4. g[j - m] < g[k - m]
        BY <1>5, <3>2, <3>3
      <3> QED
        BY <1>3, <3>2, <3>4
    <2> QED
      BY <2>1, <2>2, <2>3
  <1>9. ASSUME NEW i \in Positions(s \o t, S)
        PROVE  \E k \in 1 .. m + n : h[k] = i
    <2>1. i \in 1 .. l + Len(t) /\ (s \o t)[i] \in S
      BY <1>3 DEF Positions
    <2>2. CASE i <= l
      <3>1. i \in Positions(s, S)
        BY <1>3, <2>1, <2>2 DEF Positions
      <3>2. PICK k \in 1 .. m : f[k] = i
        BY <1>5, <3>1
      <3>3. k \in 1 .. m + n /\ k <= m
        OBVIOUS
      <3> QED
        BY <1>6, <3>2, <3>3
    <2>3. CASE ~(i <= l)
      <3>1. i - l \in 1 .. Len(t) /\ l + (i - l) = i
        BY <1>3, <2>1, <2>3
      <3>2. i - l \in Positions(t, S)
        BY <1>3, <2>1, <3>1 DEF Positions
      <3>3. PICK k \in 1 .. n : g[k] = i - l
        BY <1>5, <3>2
      <3>4. m + k \in 1 .. m + n /\ ~(m + k <= m) /\ (m + k) - m = k
        OBVIOUS
      <3>5. h[m + k] = l + g[k]
        BY <1>6, <3>4
      <3> QED
        BY <3>1, <3>3, <3>4, <3>5
    <2> QED
      BY <2>2, <2>3
  <1>10. h \in [1 .. m + n -> Positions(s \o t, S)]
    BY <1>7
  <1>11. Enumerates(h, m + n, Positions(s \o t, S))
    <2> HIDE DEF h
    <2> QED
      BY <1>8, <1>9, <1>10 DEF Enumerates
  <1>12. /\ Select(s \o t, S) = [k \in 1 .. m + n |-> (s \o t)[h[k]]]
         /\ Select(s, S) = [k \in 1 .. m |-> s[f[k]]]
         /\ Select(t, S) = [k \in 1 .. n |-> t[g[k]]]
    <2> HIDE DEF h
    <2>0. s \o t \in Seq(U)
      OBVIOUS
    <2>1. m + n \in Nat
      OBVIOUS
    <2>2. Select(s \o t, S) = [k \in 1 .. m + n |-> (s \o t)[h[k]]]
      <3>1. PICK q \in Seq(U), p \in Nat : q = s \o t /\ p = m + n
        BY <2>0, <2>1
      <3>2. PICK a : a = h
        OBVIOUS
      <3>3. Enumerates(a, p, Positions(q, S))
        BY <1>11, <3>1, <3>2
      <3>4. Select(q, S) = [k \in 1 .. p |-> q[a[k]]]
        BY <3>3, SelectAlong
      <3> QED
        BY <3>1, <3>2, <3>4
    <2>3. Select(s, S) = [k \in 1 .. m |-> s[f[k]]]
      BY <1>1, SelectAlong
    <2>4. Select(t, S) = [k \in 1 .. n |-> t[g[k]]]
      BY <1>2, SelectAlong
    <2> QED
      BY <2>2, <2>3, <2>4
  <1>13. ASSUME NEW k \in 1 .. m + n
         PROVE  (s \o t)[h[k]] = IF k <= m THEN s[f[k]] ELSE t[g[k - m]]
    <2>1. CASE k <= m
      BY <1>3, <1>6, <2>1
    <2>2. CASE ~(k <= m)
      BY <1>3, <1>6, <2>2
    <2> QED
      BY <2>1, <2>2
  <1>14. /\ Select(s, S) \in Seq(U) /\ Len(Select(s, S)) = m
         /\ Select(t, S) \in Seq(U) /\ Len(Select(t, S)) = n
    <2> HIDE DEF h
    <2>1. Select(s, S) \in Seq(U) /\ Select(t, S) \in Seq(U)
      BY SelectElements
    <2>2. DOMAIN Select(s, S) = 1 .. m
      BY <1>12
    <2>3. DOMAIN Select(t, S) = 1 .. n
      BY <1>12
    <2>4. Len(Select(s, S)) = m
      BY <2>1, <2>2
    <2>5. Len(Select(t, S)) = n
      BY <2>1, <2>3
    <2> QED
      BY <2>1, <2>4, <2>5
  <1>15. Select(s, S) \o Select(t, S)
           = [k \in 1 .. m + n |-> IF k <= m THEN s[f[k]] ELSE t[g[k - m]]]
    <2>1. \A k \in 1 .. m + n : k <= m => k \in 1 .. m
      OBVIOUS
    <2>2. \A k \in 1 .. m + n : ~(k <= m) => k - m \in 1 .. n
      OBVIOUS
    <2> HIDE DEF h
    <2>3. PICK x \in Seq(U), y \in Seq(U) : x = Select(s, S) /\ y = Select(t, S)
      BY <1>14
    <2>4. Len(x) = m /\ Len(y) = n
      BY <1>14, <2>3
    <2>5. \A k \in 1 .. m : x[k] = s[f[k]]
      BY <1>12, <2>3
    <2>6. \A k \in 1 .. n : y[k] = t[g[k]]
      BY <1>12, <2>3
    <2>7. \A k \in 1 .. m + n : (IF k <= m THEN x[k] ELSE y[k - m])
                                = (IF k <= m THEN s[f[k]] ELSE t[g[k - m]])
      BY <2>1, <2>2, <2>5, <2>6
    <2>8. x \o y = [k \in 1 .. Len(x) + Len(y) |->
                      IF k <= Len(x) THEN x[k] ELSE y[k - Len(x)]]
      BY JoinAsFunction
    <2>9. x \o y = [k \in 1 .. m + n |-> IF k <= m THEN x[k] ELSE y[k - m]]
      BY <2>4, <2>8, Zenon
    <2>10. x \o y = [k \in 1 .. m + n |-> IF k <= m THEN s[f[k]] ELSE t[g[k - m]]]
      BY <2>7, <2>9, Zenon
    <2> QED
      BY <2>3, <2>10, Zenon
  <1> HIDE DEF h
  <1> QED
    BY <1>12, <1>13, <1>15

-----------------------------------------------------------------------------
(* Lists of events *)

Event(action, c) == [action |-> action, name |-> c]

IsIn(e, events) == \E i \in DOMAIN events : events[i] = e

\* Behind every e of the list there is an f.
Followed(e, f, events) ==
    \A i \in DOMAIN events :
        events[i] = e => \E j \in DOMAIN events : j > i /\ events[j] = f

\* An appended element is in the list, behind the others.
LEMMA Appended ==
    ASSUME NEW U, NEW s \in Seq(U), NEW x \in U
    PROVE  /\ Append(s, x) \in Seq(U)
           /\ \A e : IsIn(e, Append(s, x)) <=> IsIn(e, s) \/ e = x
           /\ \A e, f : x # e /\ Followed(e, f, s) => Followed(e, f, Append(s, x))
           /\ \A e : x # e => Followed(e, x, Append(s, x))
  <1> DEFINE n == Len(s)
             t == Append(s, x)
  <1>1. /\ t \in Seq(U) /\ n \in Nat /\ DOMAIN s = 1 .. n /\ DOMAIN t = 1 .. n + 1
        /\ \A i \in 1 .. n : t[i] = s[i]
        /\ t[n + 1] = x
    OBVIOUS
  <1> HIDE DEF n, t
  <1>2. \A i \in 1 .. n + 1 : i \in 1 .. n \/ i = n + 1
    BY <1>1
  <1>3. \A i \in 1 .. n : i \in 1 .. n + 1 /\ n + 1 > i
    BY <1>1
  <1>4. n + 1 \in 1 .. n + 1
    BY <1>1
  <1>5. ASSUME NEW e
        PROVE  IsIn(e, t) <=> IsIn(e, s) \/ e = x
    BY <1>1, <1>2, <1>3, <1>4 DEF IsIn
  <1>6. ASSUME NEW e, NEW f, x # e, Followed(e, f, s)
        PROVE  Followed(e, f, t)
    <2> SUFFICES ASSUME NEW i \in 1 .. n + 1, t[i] = e
                 PROVE  \E j \in 1 .. n + 1 : j > i /\ t[j] = f
      BY <1>1 DEF Followed
    <2>1. i \in 1 .. n /\ s[i] = e
      BY <1>1, <1>2, <1>6
    <2>2. PICK j \in 1 .. n : j > i /\ s[j] = f
      BY <1>1, <1>6, <2>1 DEF Followed
    <2> QED
      BY <1>1, <1>3, <2>2
  <1>7. ASSUME NEW e, x # e
        PROVE  Followed(e, x, t)
    <2> SUFFICES ASSUME NEW i \in 1 .. n + 1, t[i] = e
                 PROVE  \E j \in 1 .. n + 1 : j > i /\ t[j] = x
      BY <1>1 DEF Followed
    <2>1. i \in 1 .. n
      BY <1>1, <1>2, <1>7
    <2> QED
      BY <1>1, <1>3, <1>4, <2>1
  <1> QED
    BY <1>1, <1>5, <1>6, <1>7 DEF t

\* What follows the first element of a list is in the rest of it.
LEMMA RestOfList ==
    ASSUME NEW U, NEW s \in Seq(U), s # <<>>
    PROVE  /\ Tail(s) \in Seq(U) /\ Head(s) \in U /\ s[1] = Head(s)
           /\ \A e : IsIn(e, s) <=> e = Head(s) \/ IsIn(e, Tail(s))
           /\ \A e, f : Followed(e, f, s) =>
                            /\ Followed(e, f, Tail(s))
                            /\ Head(s) = e => IsIn(f, Tail(s))
           /\ \A i \in DOMAIN Tail(s) :
                  i \in Nat /\ i + 1 \in DOMAIN s /\ Tail(s)[i] = s[i + 1] /\ i + 1 # 1
  <1> DEFINE n == Len(s)
             t == Tail(s)
             h == Head(s)
  <1>1. /\ t \in Seq(U) /\ h \in U /\ n \in Nat /\ n # 0
        /\ DOMAIN s = 1 .. n /\ DOMAIN t = 1 .. n - 1
        /\ \A i \in 1 .. n - 1 : t[i] = s[i + 1]
        /\ s[1] = h
    OBVIOUS
  <1> HIDE DEF n, t, h
  <1>2. \A i \in 1 .. n : i # 1 => i - 1 \in 1 .. n - 1 /\ (i - 1) + 1 = i
    BY <1>1
  <1>3. \A i \in 1 .. n - 1 : i \in Nat /\ i + 1 \in 1 .. n /\ i + 1 # 1
    BY <1>1
  <1>4. 1 \in 1 .. n
    BY <1>1
  <1>5. ASSUME NEW e
        PROVE  IsIn(e, s) <=> e = h \/ IsIn(e, t)
    <2>1. ASSUME NEW i \in 1 .. n, s[i] = e, e # h
          PROVE  \E k \in 1 .. n - 1 : t[k] = e
      <3>1. i # 1
        BY <1>1, <2>1
      <3>2. i - 1 \in 1 .. n - 1 /\ t[i - 1] = s[i]
        BY <1>1, <1>2, <3>1
      <3> QED
        BY <2>1, <3>2
    <2>2. ASSUME NEW i \in 1 .. n - 1, t[i] = e
          PROVE  \E k \in 1 .. n : s[k] = e
      BY <1>1, <1>3, <2>2
    <2>3. e = h => \E k \in 1 .. n : s[k] = e
      BY <1>1, <1>4
    <2> QED
      BY <1>1, <2>1, <2>2, <2>3 DEF IsIn
  <1>6. ASSUME NEW e, NEW f, Followed(e, f, s)
        PROVE  Followed(e, f, t)
    <2> SUFFICES ASSUME NEW i \in 1 .. n - 1, t[i] = e
                 PROVE  \E j \in 1 .. n - 1 : j > i /\ t[j] = f
      BY <1>1 DEF Followed
    <2>1. i + 1 \in 1 .. n /\ s[i + 1] = e
      BY <1>1, <1>3
    <2>2. PICK j \in 1 .. n : j > i + 1 /\ s[j] = f
      BY <1>1, <1>6, <2>1 DEF Followed
    <2>3. j - 1 \in 1 .. n - 1 /\ (j - 1) + 1 = j /\ j - 1 > i
      BY <1>1, <2>2
    <2>4. t[j - 1] = f
      BY <1>1, <2>2, <2>3
    <2> QED
      BY <2>3, <2>4
  <1>7. ASSUME NEW e, NEW f, Followed(e, f, s), h = e
        PROVE  IsIn(f, t)
    <2>1. PICK j \in 1 .. n : j > 1 /\ s[j] = f
      BY <1>1, <1>4, <1>7 DEF Followed
    <2>2. j - 1 \in 1 .. n - 1 /\ (j - 1) + 1 = j
      BY <1>1, <2>1
    <2>3. t[j - 1] = f
      BY <1>1, <2>1, <2>2
    <2> QED
      BY <1>1, <2>2, <2>3 DEF IsIn
  <1>8. \A i \in DOMAIN t : i \in Nat /\ i + 1 \in DOMAIN s /\ t[i] = s[i + 1] /\ i + 1 # 1
    BY <1>1, <1>3
  <1> QED
    BY <1>1, <1>5, <1>6, <1>7, <1>8 DEF t, h

\* One list after the other has what both have.
LEMMA Joined ==
    ASSUME NEW U, NEW s \in Seq(U), NEW t \in Seq(U)
    PROVE  /\ s \o t \in Seq(U)
           /\ \A e : IsIn(e, s \o t) <=> IsIn(e, s) \/ IsIn(e, t)
  <1> DEFINE n == Len(s)
             m == Len(t)
             q == s \o t
  <1>1. /\ q \in Seq(U) /\ n \in Nat /\ m \in Nat
        /\ DOMAIN s = 1 .. n /\ DOMAIN t = 1 .. m /\ DOMAIN q = 1 .. n + m
        /\ \A i \in 1 .. n : q[i] = s[i]
        /\ \A i \in 1 .. m : q[n + i] = t[i]
    OBVIOUS
  <1> HIDE DEF n, m, q
  <1>2. ASSUME NEW e, NEW i \in 1 .. n + m, q[i] = e
        PROVE  (\E k \in 1 .. n : s[k] = e) \/ (\E k \in 1 .. m : t[k] = e)
    <2>1. CASE i <= n
      <3>1. i \in 1 .. n
        BY <1>1, <2>1
      <3> QED
        BY <1>1, <1>2, <3>1
    <2>2. CASE ~(i <= n)
      <3>1. i - n \in 1 .. m /\ n + (i - n) = i
        BY <1>1, <2>2
      <3>2. t[i - n] = e
        BY <1>1, <1>2, <3>1
      <3> QED
        BY <3>1, <3>2
    <2> QED
      BY <2>1, <2>2
  <1>3. \A i \in 1 .. n : i \in 1 .. n + m
    BY <1>1
  <1>4. \A i \in 1 .. m : n + i \in 1 .. n + m
    BY <1>1
  <1>5. ASSUME NEW e
        PROVE  IsIn(e, q) <=> IsIn(e, s) \/ IsIn(e, t)
    BY <1>1, <1>2, <1>3, <1>4 DEF IsIn
  <1> QED
    BY <1>1, <1>5 DEF q

-----------------------------------------------------------------------------
(* Batches *)

\* The names of the events with an action are those of the containers that have
\* such an event.
LEMMA NamesOfEvents ==
    ASSUME NEW es \in Seq(TitusEvents), NEW action \in {"start", "die"}
    PROVE  /\ NamesOf(es, action) \in Seq(Titus)
           /\ \A c \in Titus :
                  (\E i \in DOMAIN NamesOf(es, action) : NamesOf(es, action)[i] = c)
                      <=> IsIn(Event(action, c), es)
  <1> DEFINE S == [action : {action}, name : Containers]
             q == Select(es, S)
             names == [i \in DOMAIN q |-> q[i].name]
  <1>1. /\ q \in Seq(TitusEvents) /\ q \in Seq(S)
        /\ \A e : (\E k \in DOMAIN q : q[k] = e) <=> e \in S /\ \E i \in DOMAIN es : es[i] = e
    <2> HIDE DEF S
    <2> QED
      BY SelectElements
  <1>2. NamesOf(es, action) = names
    BY DEF NamesOf
  <1> HIDE DEF q
  <1>3. \A i \in DOMAIN q : q[i] \in TitusEvents /\ q[i] \in S
    BY <1>1
  <1>4. \A i \in DOMAIN q : q[i].name \in Titus /\ q[i] = Event(action, q[i].name)
    BY <1>3 DEF TitusEvents, Event
  <1>5. names \in Seq(Titus)
    <2>1. PICK n \in Nat : DOMAIN q = 1 .. n
      BY <1>1
    <2> QED
      BY <1>4, <2>1
  <1>6. ASSUME NEW c \in Titus
        PROVE  (\E i \in DOMAIN q : q[i].name = c) <=> IsIn(Event(action, c), es)
    <2>1. Event(action, c) \in S /\ Event(action, c).name = c
      BY TitusContainers DEF Event
    <2>2. (\E i \in DOMAIN q : q[i].name = c) <=> (\E i \in DOMAIN q : q[i] = Event(action, c))
      BY <1>4, <2>1
    <2> QED
      BY <1>1, <2>1, <2>2 DEF IsIn
  <1> QED
    BY <1>2, <1>5, <1>6

\* Of a queue, what concerns containers is a list of their events.
LEMMA ContainerEventsType ==
    ASSUME NEW b \in Seq(QueuedEvents)
    PROVE  /\ ContainerEventsOf(b) \in Seq(TitusEvents)
           /\ InternalEventsOf(b) \in Seq(PeriodicEvents)
           /\ \A e \in TitusEvents : IsIn(e, ContainerEventsOf(b)) <=> IsIn(e, b)
  <1> DEFINE q == ContainerEventsOf(b)
  <1>1. /\ q \in Seq(QueuedEvents) /\ q \in Seq(ContainerEvents)
        /\ \A e : (\E k \in DOMAIN q : q[k] = e)
                     <=> e \in ContainerEvents /\ \E i \in DOMAIN b : b[i] = e
    BY SelectElements DEF ContainerEventsOf
  <1>2. InternalEventsOf(b) \in Seq(PeriodicEvents)
    BY SelectElements DEF InternalEventsOf
  <1> HIDE DEF q
  <1>3. \A e \in QueuedEvents : e \in ContainerEvents => e \in TitusEvents
    BY InternalActions
       DEF QueuedEvents, ContainerEvents, TitusEvents, PeriodicEvents, InternalEvent
  <1>4. q \in Seq(TitusEvents)
    <2>1. PICK n \in Nat : DOMAIN q = 1 .. n
      BY <1>1
    <2>2. \A k \in 1 .. n : q[k] \in TitusEvents
      BY <1>1, <1>3, <2>1
    <2>3. q = [k \in 1 .. n |-> q[k]]
      BY <1>1, <2>1
    <2> QED
      BY <2>2, <2>3
  <1>5. \A e \in TitusEvents : e \in ContainerEvents
    BY TitusContainers DEF TitusEvents, ContainerEvents
  <1>6. \A e \in TitusEvents : IsIn(e, q) <=> IsIn(e, b)
    BY <1>1, <1>5 DEF IsIn
  <1> QED
    BY <1>2, <1>4, <1>6 DEF q

BatchOf(b) == ContainerBatch(ContainerEventsOf(b))

BatchEvents == [action : {"container_batch"}, starts : Seq(Titus), dies : Seq(Titus)]

\* The batch event has the containers whose events are in the batch.
LEMMA BatchOfEvents ==
    ASSUME NEW b \in Seq(QueuedEvents)
    PROVE  /\ BatchOf(b) \in BatchEvents
           /\ \A c \in Titus :
                  /\ (\E i \in DOMAIN BatchOf(b).starts : BatchOf(b).starts[i] = c)
                         <=> IsIn(Event("start", c), b)
                  /\ (\E i \in DOMAIN BatchOf(b).dies : BatchOf(b).dies[i] = c)
                         <=> IsIn(Event("die", c), b)
  <1> DEFINE es == ContainerEventsOf(b)
             ns == NamesOf(es, "start")
             nd == NamesOf(es, "die")
  <1>1. es \in Seq(TitusEvents) /\ \A e \in TitusEvents : IsIn(e, es) <=> IsIn(e, b)
    BY ContainerEventsType
  <1>2. \A c \in Titus : Event("start", c) \in TitusEvents /\ Event("die", c) \in TitusEvents
    BY DEF Event, TitusEvents
  <1> HIDE DEF es
  <1>3. /\ ns \in Seq(Titus)
        /\ \A c \in Titus : (\E i \in DOMAIN ns : ns[i] = c) <=> IsIn(Event("start", c), es)
    BY <1>1, NamesOfEvents
  <1>4. /\ nd \in Seq(Titus)
        /\ \A c \in Titus : (\E i \in DOMAIN nd : nd[i] = c) <=> IsIn(Event("die", c), es)
    BY <1>1, NamesOfEvents
  <1> HIDE DEF ns, nd
  <1>5. BatchOf(b) = [action |-> "container_batch", starts |-> ns, dies |-> nd]
    BY DEF BatchOf, ContainerBatch, es, ns, nd
  <1>6. BatchOf(b) \in BatchEvents /\ BatchOf(b).starts = ns /\ BatchOf(b).dies = nd
    BY <1>3, <1>4, <1>5 DEF BatchEvents
  <1> QED
    BY <1>1, <1>2, <1>3, <1>4, <1>6

\* What is to be handled of a batch: its batch event first, if it has container
\* events, then periodic events only.
LEMMA EventsToHandleOfBatch ==
    ASSUME NEW b \in Seq(QueuedEvents)
    PROVE  /\ EventsToHandle(b) \in Seq(HandledEvents)
           /\ \A i \in DOMAIN EventsToHandle(b) :
                  EventsToHandle(b)[i].action = "container_batch" =>
                      i = 1 /\ EventsToHandle(b)[i] = BatchOf(b) /\ ContainerEventsOf(b) # <<>>
           /\ ContainerEventsOf(b) # <<>> =>
                  EventsToHandle(b) # <<>> /\ Head(EventsToHandle(b)) = BatchOf(b)
           /\ \A e \in TitusEvents :
                  IsIn(e, b) => /\ EventsToHandle(b) # <<>>
                                /\ Head(EventsToHandle(b)) = BatchOf(b)
  <1> DEFINE es == ContainerEventsOf(b)
             ps == InternalEventsOf(b)
             B == BatchOf(b)
  <1>1. /\ es \in Seq(TitusEvents) /\ ps \in Seq(PeriodicEvents) /\ B \in BatchEvents
        /\ \A e \in TitusEvents : IsIn(e, es) <=> IsIn(e, b)
    BY ContainerEventsType, BatchOfEvents
  <1>2. EventsToHandle(b) = (IF es # <<>> THEN <<B>> ELSE <<>>) \o ps
    BY DEF EventsToHandle, BatchOf
  <1> HIDE DEF es, ps, B
  <1>3. /\ B \in HandledEvents
        /\ \A p \in PeriodicEvents : p \in HandledEvents /\ p.action # "container_batch"
    BY <1>1, InternalActions DEF BatchEvents, HandledEvents, PeriodicEvents, InternalEvent
  <1>4. ps \in Seq(HandledEvents)
    <2>1. PICK n \in Nat : DOMAIN ps = 1 .. n
      BY <1>1
    <2>2. \A k \in 1 .. n : ps[k] \in HandledEvents
      BY <1>1, <1>3, <2>1
    <2>3. ps = [k \in 1 .. n |-> ps[k]]
      BY <1>1, <2>1
    <2> QED
      BY <2>2, <2>3
  <1>5. \A i \in DOMAIN ps : ps[i].action # "container_batch"
    BY <1>1, <1>3
  <1>6. CASE es # <<>>
    <2> DEFINE t == <<B>> \o ps
    <2>1. EventsToHandle(b) = t
      BY <1>2, <1>6
    <2>2. /\ t \in Seq(HandledEvents) /\ t # <<>> /\ Head(t) = B /\ t[1] = B
          /\ \A i \in DOMAIN t : i # 1 => i - 1 \in DOMAIN ps /\ t[i] = ps[i - 1]
      BY <1>3, <1>4
    <2> HIDE DEF t
    <2>3. \A i \in DOMAIN t : t[i].action = "container_batch" => i = 1 /\ t[i] = B
      BY <1>5, <2>2
    <2> QED
      BY <1>6, <2>1, <2>2, <2>3 DEF B, es
  <1>7. CASE es = <<>>
    <2>1. EventsToHandle(b) = <<>> \o ps
      BY <1>2, <1>7
    <2>2. <<>> \o ps = ps
      BY <1>4
    <2>3. \A e : ~IsIn(e, es)
      BY <1>7 DEF IsIn
    <2> QED
      BY <1>1, <1>4, <1>5, <1>7, <2>1, <2>2, <2>3 DEF es
  <1> QED
    BY <1>6, <1>7 DEF B

-----------------------------------------------------------------------------
(* Types *)

\* A step of docker keeps its types.
LEMMA DockerType ==
    ASSUME DockerTypeOK, DockerStep
    PROVE  DockerTypeOK'
  <1> USE DEF DockerTypeOK, Lives
  <1>1. ASSUME NEW c \in Containers, NEW action \in {"start", "die", "other"}, Send(action, c)
        PROVE  stream' \in Seq(DockerEvents)
    <2>1. [action |-> action, name |-> c] \in DockerEvents
      BY DEF DockerEvents
    <2>2. Append(stream, [action |-> action, name |-> c]) \in Seq(DockerEvents)
      BY <2>1
    <2> QED
      BY <1>1, <2>2, Zenon DEF Send
  <1>2. ASSUME NEW c \in Containers, ContainerStarts(c)
        PROVE  DockerTypeOK'
    BY <1>1, <1>2 DEF ContainerStarts
  <1>3. ASSUME NEW c \in Containers, ContainerDies(c)
        PROVE  DockerTypeOK'
    BY <1>1, <1>3 DEF ContainerDies
  <1>4. ASSUME NEW c \in Containers, OtherHappens(c)
        PROVE  DockerTypeOK'
    BY <1>1, <1>4 DEF OtherHappens
  <1>5. CASE StreamBreaks
    <2>1. subscribed' \in BOOLEAN
      BY <1>5, Zenon DEF StreamBreaks
    <2>2. breaks' \in Nat
      BY <1>5 DEF StreamBreaks
    <2> QED
      BY <1>5, <2>1, <2>2 DEF StreamBreaks
  <1> QED
    BY <1>2, <1>3, <1>4, <1>5 DEF DockerStep

\* So do the steps of the threads and of the timer.
LEMMA ManagerType ==
    ASSUME DockerTypeOK, ManagerTypeOK,
           \/ PullerStep
           \/ TakeFirst \/ TakeRest \/ HandlerBegins \/ FinishBatch
           \/ \E a \in InternalEvents : Tick(a)
    PROVE  DockerTypeOK' /\ ManagerTypeOK'
  <1> USE DEF ManagerTypeOK
  <1>1. CASE Pull
    <2>1. /\ Tail(stream) \in Seq(DockerEvents) /\ Head(stream) \in DockerEvents
      BY <1>1 DEF DockerTypeOK, Pull
    <2>2. ShouldHandle(Head(stream)) => Head(stream) \in QueuedEvents
      BY <2>1 DEF ShouldHandle, IsContainerEvent, DockerEvents, QueuedEvents, TitusEvents
    <2>3. queue' \in Seq(QueuedEvents)
      <3>1. Head(stream) \in QueuedEvents => Append(queue, Head(stream)) \in Seq(QueuedEvents)
        OBVIOUS
      <3> QED
        BY <1>1, <2>2, <3>1, Zenon DEF Pull
    <2> QED
      BY <1>1, <2>1, <2>3 DEF DockerTypeOK, Pull
  <1>2. CASE PullRaises \/ PullerEnds
    <2>1. /\ <<>> \in Seq(DockerEvents)
          /\ breaks' \in Nat
          /\ UNCHANGED <<container, stopped, queue, proc, batch, todo>>
          /\ stream' = <<>> /\ puller' = "ended"
      BY <1>2 DEF DockerTypeOK, PullRaises, PullerEnds
    <2>2. subscribed' \in BOOLEAN
      BY <1>2, Zenon DEF DockerTypeOK, PullRaises, PullerEnds
    <2> QED
      BY <2>1, <2>2 DEF DockerTypeOK
  <1>3. CASE TakeFirst
    BY <1>3 DEF DockerTypeOK, TakeFirst, dockerVars
  <1>4. CASE TakeRest
    <2>1. batch' \in Seq(QueuedEvents) /\ todo' = EventsToHandle(batch')
      BY <1>4 DEF TakeRest
    <2>2. todo' \in Seq(HandledEvents)
      BY <2>1, EventsToHandleOfBatch
    <2> QED
      BY <1>4, <2>1, <2>2 DEF DockerTypeOK, TakeRest, dockerVars
  <1>5. CASE HandlerBegins
    BY <1>5 DEF DockerTypeOK, HandlerBegins, dockerVars
  <1>6. CASE FinishBatch
    BY <1>6 DEF DockerTypeOK, FinishBatch, dockerVars
  <1>7. ASSUME NEW a \in InternalEvents, Tick(a)
        PROVE  DockerTypeOK' /\ ManagerTypeOK'
    <2>1. InternalEvent(a) \in QueuedEvents
      BY DEF QueuedEvents, PeriodicEvents
    <2>2. Append(queue, InternalEvent(a)) \in Seq(QueuedEvents)
      BY <2>1
    <2> QED
      BY <1>7, <2>2 DEF DockerTypeOK, Tick, dockerVars
  <1> QED
    BY <1>1, <1>2, <1>3, <1>4, <1>5, <1>6, <1>7 DEF PullerStep

\* So does the end of a handler.
LEMMA HandlerEndsType ==
    ASSUME ManagerTypeOK, HandlerEnds
    PROVE  ManagerTypeOK'
  <1>1. Tail(todo) \in Seq(HandledEvents)
    BY DEF ManagerTypeOK, HandlerEnds
  <1> QED
    BY <1>1 DEF ManagerTypeOK, HandlerEnds

=============================================================================
