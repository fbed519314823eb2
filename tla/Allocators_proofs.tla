--------------------------- MODULE Allocators_proofs ---------------------------
(***************************************************************************)
(* Proofs about the allocators, for every shape of CPU, every number of    *)
(* threads requested and every pair of a primary and a secondary one; and  *)
(* about the ids of threads they go by, to the remote allocator and back.  *)
(***************************************************************************)
EXTENDS Allocators, RemoteIndexing, FiniteSetTheorems, WellFoundedInduction, TLAPS

-----------------------------------------------------------------------------
(* Numbers *)

\* The smaller of two numbers.
LEMMA MinOfTwo ==
    ASSUME NEW a \in Nat, NEW b \in Nat
    PROVE  Min({a, b}) = IF a <= b THEN a ELSE b
  <1>1. \E x \in {a, b} : \A y \in {a, b} : x <= y
    OBVIOUS
  <1> QED
    BY <1>1 DEF Min

\* Every set of natural numbers has a smallest one.
LEMMA Smallest ==
    ASSUME NEW T \in SUBSET Nat, T # {}
    PROVE  \E x \in T : \A y \in T : x <= y
  <1>1. PICK x \in T : \A y \in T : ~ (<<y, x>> \in OpToRel(<, Nat))
    BY NatLessThanWellFounded, WFMin
  <1>2. \A y \in T : ~ (y < x)
    BY <1>1 DEF OpToRel
  <1>3. \A y \in T : y \in Nat /\ x \in Nat
    OBVIOUS
  <1> QED
    BY <1>2, <1>3

\* Of sizes that are bounded one is the largest, and Largest is its first index.
LEMMA LargestIs ==
    ASSUME NEW I \in SUBSET Nat, I # {}, NEW N \in Nat, NEW size \in [I -> 0 .. N]
    PROVE  /\ Largest(size) \in I
           /\ \A j \in I : size[j] <= size[Largest(size)]
  <1> DEFINE T == {n \in Nat : \E i \in I : size[i] + n = N}
  <1>1. \A i \in I : size[i] \in Nat /\ N - size[i] \in Nat /\ size[i] + (N - size[i]) = N
    OBVIOUS
  <1>2. T \in SUBSET Nat /\ T # {}
    BY <1>1
  <1>3. PICK m \in T : \A n \in T : m <= n
    BY <1>2, Smallest
  <1>4. \A j \in I : size[j] <= N - m
    <2> TAKE j \in I
    <2>1. N - size[j] \in T
      BY <1>1
    <2>2. m \in Nat /\ m <= N - size[j] /\ size[j] \in Nat
      BY <1>1, <1>2, <1>3, <2>1
    <2> QED
      BY <2>2
  <1> DEFINE J == {i \in I : size[i] = N - m}
  <1>5. J \in SUBSET Nat /\ J # {}
    <2>1. PICK i \in I : size[i] + m = N
      BY <1>3
    <2>2. size[i] = N - m
      BY <1>1, <2>1
    <2> QED
      BY <2>2
  <1>6. PICK i \in J : \A j \in J : i <= j
    BY <1>5, Smallest
  <1>7. \A j \in I : size[j] < size[i] \/ (size[j] = size[i] /\ i <= j)
    <2> TAKE j \in I
    <2>1. size[j] <= N - m /\ size[i] = N - m /\ size[j] \in Nat /\ size[i] \in Nat
      BY <1>1, <1>4, <1>6
    <2>2. size[j] = N - m => i <= j
      BY <1>6
    <2> HIDE DEF J
    <2> QED
      BY <2>1, <2>2
  <1> HIDE DEF T, J
  <1>8. /\ Largest(size) \in I
        /\ \A j \in I : \/ size[j] < size[Largest(size)]
                        \/ size[j] = size[Largest(size)] /\ Largest(size) <= j
    <2>1. i \in DOMAIN size /\ DOMAIN size = I
      BY <1>6 DEF J
    <2> QED
      BY <1>7, <2>1 DEF Largest
  <1>9. PICK l \in I : l = Largest(size)
    BY <1>8
  <1>10. \A j \in I : size[j] <= size[l]
    BY <1>1, <1>8, <1>9
  <1> QED
    BY <1>9, <1>10

\* Multiples grow by at least what is multiplied.
LEMMA Multiples ==
    ASSUME NEW m \in Nat, NEW a \in Nat, NEW e \in Nat, a < e
    PROVE  a * m + m <= e * m
  <1>1. PICK k \in Nat : e = a + 1 + k
    <2>1. e - a - 1 \in Nat /\ e = a + 1 + (e - a - 1)
      OBVIOUS
    <2> QED
      BY <2>1
  <1>2. e * m = a * m + m + k * m
    BY <1>1
  <1>3. k * m \in Nat /\ a * m \in Nat
    OBVIOUS
  <1> QED
    BY <1>2, <1>3

\* A number has one quotient and one remainder.
LEMMA Digits ==
    ASSUME NEW m \in Nat, NEW a \in Nat, NEW e \in Nat,
           NEW b \in 0 .. m - 1, NEW f \in 0 .. m - 1, a * m + b = e * m + f
    PROVE  a = e /\ b = f
  <1>1. a * m \in Nat /\ e * m \in Nat
    OBVIOUS
  <1>2. ~ (a < e)
    <2> SUFFICES ASSUME a < e PROVE FALSE
      OBVIOUS
    <2>1. a * m + m <= e * m
      BY Multiples
    <2> QED
      BY <1>1, <2>1
  <1>3. ~ (e < a)
    <2> SUFFICES ASSUME e < a PROVE FALSE
      OBVIOUS
    <2>1. e * m + m <= a * m
      BY Multiples
    <2> QED
      BY <1>1, <2>1
  <1>4. a = e
    BY <1>2, <1>3
  <1> QED
    BY <1>1, <1>4

\* A number is made of its quotient and its remainder.
LEMMA Division ==
    ASSUME NEW m \in Nat \ {0}, NEW a \in Nat
    PROVE  /\ a \div m \in Nat
           /\ a % m \in 0 .. m - 1
           /\ a = (a \div m) * m + (a % m)
  OBVIOUS

\* The quotient of a number below a multiple.
LEMMA SmallQuotient ==
    ASSUME NEW m \in Nat \ {0}, NEW k \in Nat, NEW a \in 0 .. k * m - 1
    PROVE  a \div m \in 0 .. k - 1
  <1>0. k * m \in Nat /\ a \in Nat
    OBVIOUS
  <1>1. PICK q \in Nat, r \in 0 .. m - 1 : q = a \div m /\ a = q * m + r
    BY <1>0, Division
  <1>2. q < k
    <2> SUFFICES ASSUME k <= q PROVE FALSE
      BY <1>1
    <2>1. k * m <= q * m
      <3>1. CASE k = q
        BY <3>1
      <3>2. CASE k < q
        <4>1. k * m + m <= q * m
          BY <3>2, <1>1, Multiples
        <4>2. q * m \in Nat
          BY <1>1
        <4> QED
          BY <4>1, <4>2, <1>0
      <3> QED
        BY <3>1, <3>2, <1>1
    <2>2. q * m \in Nat
      BY <1>1
    <2> QED
      BY <1>0, <1>1, <2>1, <2>2
  <1> QED
    BY <1>1, <1>2

\* And a number made of a quotient and a remainder has these.
LEMMA QuotientOf ==
    ASSUME NEW m \in Nat \ {0}, NEW q \in Nat, NEW r \in 0 .. m - 1
    PROVE  /\ q * m + r \in Nat
           /\ (q * m + r) \div m = q
           /\ (q * m + r) % m = r
  <1>1. PICK a \in Nat : a = q * m + r
    <2>1. q * m \in Nat
      OBVIOUS
    <2> QED
      BY <2>1
  <1>2. a \div m \in Nat /\ a % m \in 0 .. m - 1 /\ a = (a \div m) * m + (a % m)
    BY Division
  <1>3. PICK x \in Nat, y \in 0 .. m - 1 : x = a \div m /\ y = a % m
    BY <1>2
  <1>4. x * m + y = q * m + r
    BY <1>1, <1>2, <1>3
  <1>5. x = q /\ y = r
    BY <1>4, Digits
  <1> QED
    BY <1>1, <1>3, <1>5

\* A digit below k in front of one below m makes a number below k * m.
LEMMA TwoDigits ==
    ASSUME NEW k \in Nat, NEW m \in Nat, NEW a \in 0 .. k - 1, NEW b \in 0 .. m - 1
    PROVE  a * m + b \in 0 .. k * m - 1
  <1>1. a * m + m <= k * m
    BY Multiples
  <1>2. a * m \in Nat /\ k * m \in Nat
    OBVIOUS
  <1> QED
    BY <1>1, <1>2

\* And such a number has two such digits, its quotient and its remainder.
LEMMA Divided ==
    ASSUME NEW m \in Nat \ {0}, NEW k \in Nat, NEW a \in 0 .. k * m - 1
    PROVE  \E q \in 0 .. k - 1 : \E r \in 0 .. m - 1 :
              q = a \div m /\ r = a % m /\ a = q * m + r
  <1>1. a \in Nat
    OBVIOUS
  <1>2. PICK q \in 0 .. k - 1 : q = a \div m
    BY SmallQuotient
  <1>3. PICK r \in 0 .. m - 1 : r = a % m /\ a = q * m + r
    BY <1>1, <1>2, Division
  <1> QED
    BY <1>2, <1>3

-----------------------------------------------------------------------------
(* Threads, cores and packages *)

\* No two places of a CPU have the same thread id.
LEMMA ThreadIdsDiffer ==
    ASSUME NEW d \in CpuShapes,
           NEW p \in PackageIds(d), NEW c \in CoreIds(d), NEW r \in Rows(d),
           NEW q \in PackageIds(d), NEW e \in CoreIds(d), NEW s \in Rows(d),
           ThreadId(d, p, c, r) = ThreadId(d, q, e, s)
    PROVE  p = q /\ c = e /\ r = s
  <1> DEFINE P == d.packages
             C == d.cores
  <1>1. /\ P \in Nat /\ C \in Nat
        /\ p \in 0 .. P - 1 /\ q \in 0 .. P - 1 /\ c \in 0 .. C - 1 /\ e \in 0 .. C - 1
        /\ p \in Nat /\ q \in Nat /\ r \in Nat /\ s \in Nat /\ c \in Nat /\ e \in Nat
        /\ r * P * C + p * C + c = s * P * C + q * C + e
    BY DEF CpuShapes, PackageIds, CoreIds, Rows, ThreadId
  <1> HIDE DEF P, C
  <1>2. (r * P + p) * C + c = (s * P + q) * C + e
    BY <1>1
  <1>3. r * P + p \in Nat /\ s * P + q \in Nat
    BY <1>1
  <1>4. r * P + p = s * P + q /\ c = e
    <2>1. PICK x \in Nat, y \in Nat : x = r * P + p /\ y = s * P + q
      BY <1>3
    <2>2. x * C + c = y * C + e
      BY <1>2, <2>1
    <2>3. x = y /\ c = e
      BY <1>1, <2>2, Digits
    <2> QED
      BY <2>1, <2>3
  <1>5. r = s /\ p = q
    BY <1>1, <1>4, Digits
  <1> QED
    BY <1>4, <1>5

\* The threads of a CPU are finitely many numbers, those of its cores; a core
\* has as many of them as any other, and shares none with it.
LEMMA Cores ==
    ASSUME NEW d \in CpuShapes
    PROVE  /\ IsFiniteSet(ThreadIds(d)) /\ ThreadIds(d) # {} /\ ThreadIds(d) \subseteq Nat
           /\ \A p \in PackageIds(d), k \in CoreIds(d) :
                 /\ CoreThreads(d, p, k) \in SUBSET ThreadIds(d)
                 /\ Cardinality(CoreThreads(d, p, k)) = d.threads
           /\ \A p, q \in PackageIds(d), k, e \in CoreIds(d) :
                 (p # q \/ k # e) => CoreThreads(d, p, k) \cap CoreThreads(d, q, e) = {}
  <1>1. /\ d.packages \in Nat /\ d.cores \in Nat /\ d.threads \in Nat
        /\ 0 \in PackageIds(d) /\ 0 \in CoreIds(d) /\ 0 \in Rows(d)
        /\ PackageIds(d) \subseteq Nat /\ CoreIds(d) \subseteq Nat /\ Rows(d) \subseteq Nat
        /\ IsFiniteSet(PackageIds(d)) /\ IsFiniteSet(CoreIds(d)) /\ IsFiniteSet(Rows(d))
        /\ Cardinality(Rows(d)) = d.threads
    <2>1. d.packages \in Nat \ {0} /\ d.cores \in Nat \ {0} /\ d.threads \in Nat \ {0}
      BY DEF CpuShapes
    <2>2. /\ d.packages - 1 \in Int /\ d.cores - 1 \in Int /\ d.threads - 1 \in Int
          /\ ~ (0 > d.threads - 1)
          /\ d.threads - 1 - 0 + 1 = d.threads
      BY <2>1
    <2>3. /\ IsFiniteSet(0 .. d.packages - 1) /\ IsFiniteSet(0 .. d.cores - 1)
          /\ IsFiniteSet(0 .. d.threads - 1) /\ Cardinality(0 .. d.threads - 1) = d.threads
      <3>1. \A b \in Int : /\ IsFiniteSet(0 .. b)
                           /\ ~ (0 > b) => Cardinality(0 .. b) = b - 0 + 1
        BY FS_Interval
      <3> QED
        BY <2>2, <3>1
    <2> QED
      BY <2>1, <2>3 DEF PackageIds, CoreIds, Rows
  <1>2. \A p \in PackageIds(d), k \in CoreIds(d), r \in Rows(d) :
           ThreadId(d, p, k, r) \in Nat /\ ThreadId(d, p, k, r) \in ThreadIds(d)
    BY <1>1 DEF ThreadId, ThreadIds
  <1>3. IsFiniteSet(ThreadIds(d))
    <2> DEFINE S == (PackageIds(d) \X CoreIds(d)) \X Rows(d)
               f == [x \in S |-> ThreadId(d, x[1][1], x[1][2], x[2])]
    <2>1. IsFiniteSet(PackageIds(d) \X CoreIds(d))
      BY <1>1, FS_Product
    <2>2. IsFiniteSet(S)
      BY <1>1, <2>1, FS_Product
    <2>3. f \in [S -> ThreadIds(d)]
      BY <1>2
    <2>4. \A t \in ThreadIds(d) : \E x \in S : f[x] = t
      <3> TAKE t \in ThreadIds(d)
      <3>1. PICK p \in PackageIds(d), k \in CoreIds(d), r \in Rows(d) : t = ThreadId(d, p, k, r)
        BY DEF ThreadIds
      <3>2. <<<<p, k>>, r>> \in S
        OBVIOUS
      <3>3. f[<<<<p, k>>, r>>] = ThreadId(d, p, k, r)
        BY <3>2
      <3> QED
        BY <3>1, <3>2, <3>3
    <2>5. f \in Surjection(S, ThreadIds(d))
      BY <2>3, <2>4 DEF Surjection
    <2> HIDE DEF S, f
    <2> QED
      BY <2>2, <2>5, FS_Surjection
  <1>4. ASSUME NEW p \in PackageIds(d), NEW k \in CoreIds(d)
        PROVE  /\ CoreThreads(d, p, k) \in SUBSET ThreadIds(d)
               /\ Cardinality(CoreThreads(d, p, k)) = d.threads
    <2> DEFINE f == [r \in Rows(d) |-> ThreadId(d, p, k, r)]
    <2>1. CoreThreads(d, p, k) \in SUBSET ThreadIds(d)
      BY <1>2 DEF CoreThreads
    <2>2. f \in [Rows(d) -> CoreThreads(d, p, k)]
          /\ \A t \in CoreThreads(d, p, k) : \E r \in Rows(d) : f[r] = t
      BY DEF CoreThreads
    <2>3. \A r, s \in Rows(d) : f[r] = f[s] => r = s
      BY ThreadIdsDiffer
    <2>4. f \in Bijection(Rows(d), CoreThreads(d, p, k))
      BY <2>2, <2>3 DEF Bijection, Injection, Surjection, IsInjective
    <2>5. ExistsBijection(Rows(d), CoreThreads(d, p, k))
      BY <2>4 DEF ExistsBijection
    <2>6. Cardinality(CoreThreads(d, p, k)) = Cardinality(Rows(d))
      BY <1>1, <2>5, FS_Bijection
    <2> QED
      BY <1>1, <2>1, <2>6
  <1>5. \A p, q \in PackageIds(d), k, e \in CoreIds(d) :
           (p # q \/ k # e) => CoreThreads(d, p, k) \cap CoreThreads(d, q, e) = {}
    BY ThreadIdsDiffer DEF CoreThreads
  <1>6. ThreadIds(d) \subseteq Nat
    BY <1>2 DEF ThreadIds
  <1>7. ThreadIds(d) # {}
    BY <1>1, <1>2
  <1> QED
    BY <1>3, <1>4, <1>5, <1>6, <1>7

\* The dimensions of a CPU.
Sizes(d, P, C, T) ==
    /\ P \in Nat \ {0} /\ C \in Nat \ {0} /\ T \in Nat \ {0}
    /\ PackageIds(d) = 0 .. P - 1 /\ CoreIds(d) = 0 .. C - 1 /\ Rows(d) = 0 .. T - 1
    /\ d.packages = P /\ d.cores = C /\ d.threads = T
    /\ ThreadCount(d) = P * C * T
    /\ ThreadCount(d) \in Nat

\* Every CPU has dimensions.
LEMMA HasSizes ==
    ASSUME NEW d \in CpuShapes
    PROVE  Sizes(d, d.packages, d.cores, d.threads)
  <1>1. PICK P \in Nat \ {0}, C \in Nat \ {0}, T \in Nat \ {0} :
          P = d.packages /\ C = d.cores /\ T = d.threads
    BY DEF CpuShapes
  <1>2. P * C * T \in Nat
    OBVIOUS
  <1> QED
    BY <1>1, <1>2 DEF Sizes, PackageIds, CoreIds, Rows, ThreadCount

\* The ids of threads are the numbers from 0 up, without a gap.
LEMMA IdsHaveNoGap ==
    ASSUME NEW d \in CpuShapes
    PROVE  ThreadIds(d) = 0 .. ThreadCount(d) - 1
  <1>1. PICK P \in Nat \ {0}, C \in Nat \ {0}, T \in Nat \ {0} : Sizes(d, P, C, T)
    BY HasSizes DEF Sizes
  <1>2. (T * P) * C = ThreadCount(d) /\ T * P \in Nat
    BY <1>1 DEF Sizes
  <1>3. \A p, c, r : ThreadId(d, p, c, r) = r * P * C + p * C + c
    BY <1>1 DEF Sizes, ThreadId
  <1>4. ASSUME NEW p \in 0 .. P - 1, NEW c \in 0 .. C - 1, NEW r \in 0 .. T - 1
        PROVE  /\ (r * P + p) * C + c = ThreadId(d, p, c, r)
               /\ ThreadId(d, p, c, r) \in 0 .. ThreadCount(d) - 1
    <2>1. PICK x \in 0 .. T * P - 1 : x = r * P + p
      BY TwoDigits
    <2>2. x * C + c \in 0 .. (T * P) * C - 1
      BY <1>2, <2>1, TwoDigits
    <2>3. (r * P + p) * C + c = r * P * C + p * C + c
      OBVIOUS
    <2> QED
      BY <1>2, <1>3, <2>1, <2>2, <2>3
  <1>5. ASSUME NEW n \in 0 .. ThreadCount(d) - 1
        PROVE  \E p \in 0 .. P - 1, c \in 0 .. C - 1, r \in 0 .. T - 1 :
                  n = ThreadId(d, p, c, r)
    <2>1. PICK k \in Nat : k = T * P /\ n \in 0 .. k * C - 1
      BY <1>2
    <2>2. PICK x \in 0 .. k - 1, c \in 0 .. C - 1  :
            x = n \div C /\ c = n % C /\ n = x * C + c
      BY <2>1, Divided
    <2>3. x \in 0 .. T * P - 1
      BY <2>1
    <2>4. PICK r \in 0 .. T - 1, p \in 0 .. P - 1  :
            r = x \div P /\ p = x % P /\ x = r * P + p
      BY <2>3, Divided
    <2>5. n = (r * P + p) * C + c
      BY <2>2, <2>4
    <2>6. n = ThreadId(d, p, c, r)
      BY <1>4, <2>5
    <2> QED
      BY <2>6
  <1>6. ThreadIds(d) =
          {ThreadId(d, p, c, r) : p \in 0 .. P - 1, c \in 0 .. C - 1, r \in 0 .. T - 1}
    BY <1>1 DEF Sizes, ThreadIds
  <1>7. \A n \in ThreadIds(d) : n \in 0 .. ThreadCount(d) - 1
    BY <1>4, <1>6
  <1>8. \A n \in 0 .. ThreadCount(d) - 1 : n \in ThreadIds(d)
    BY <1>5, <1>6
  <1> QED
    BY <1>7, <1>8

\* A thread is one of a core when its id is made of the core's place.
LEMMA OnCore ==
    ASSUME NEW d \in CpuShapes, NEW p \in PackageIds(d), NEW c \in CoreIds(d),
           NEW q \in PackageIds(d), NEW e \in CoreIds(d), NEW s \in Rows(d)
    PROVE  ThreadId(d, q, e, s) \in CoreThreads(d, p, c) <=> p = q /\ c = e
  BY ThreadIdsDiffer DEF CoreThreads

\* The natural index i stands for the thread of row i % T of the core that is the
\* (i \div T)-th of all cores, of C in a package.
LEMMA NaturalPlace ==
    ASSUME NEW d \in CpuShapes, NEW i \in 0 .. ThreadCount(d) - 1,
           NEW x, x = i \div d.threads
    PROVE  /\ x \in 0 .. d.packages * d.cores - 1
           /\ x \div d.cores \in PackageIds(d)
           /\ x % d.cores \in CoreIds(d)
           /\ i % d.threads \in Rows(d)
           /\ Natural2Original(d)[i] =
                ThreadId(d, x \div d.cores, x % d.cores, i % d.threads)
  <1>1. PICK P \in Nat \ {0}, C \in Nat \ {0}, T \in Nat \ {0} :
          Sizes(d, P, C, T) /\ P = d.packages /\ C = d.cores /\ T = d.threads
    BY HasSizes DEF Sizes
  <1>2. i \in Nat /\ i \in 0 .. (P * C) * T - 1 /\ P * C \in Nat /\ C * T \in Nat \ {0}
    BY <1>1 DEF Sizes
  <1>3. PICK r \in 0 .. T - 1 : r = i % T /\ x \in 0 .. P * C - 1 /\ i = x * T + r
    <2>1. PICK k \in Nat : k = P * C /\ i \in 0 .. k * T - 1
      BY <1>2
    <2>2. PICK y \in 0 .. k - 1, r \in 0 .. T - 1 : y = i \div T /\ r = i % T /\ i = y * T + r
      BY <2>1, Divided
    <2> QED
      BY <1>1, <2>1, <2>2
  <1>5. PICK q \in 0 .. P - 1, c \in 0 .. C - 1 : q = x \div C /\ c = x % C /\ x = q * C + c
    BY <1>3, Divided
  <1>6. PICK y \in 0 .. C * T - 1 : y = c * T + r
    BY TwoDigits
  <1>7. i = q * (C * T) + y
    <2>1. i = (q * C + c) * T + r
      BY <1>3, <1>5
    <2>2. (q * C + c) * T + r = q * (C * T) + (c * T + r)
      OBVIOUS
    <2> QED
      BY <1>6, <2>1, <2>2
  <1>8. i \div (C * T) = q
    <2>1. PICK m \in Nat \ {0} : m = C * T
      BY <1>2
    <2>2. (q * m + y) \div m = q
      BY <1>6, <2>1, QuotientOf
    <2> QED
      BY <1>7, <2>1, <2>2
  <1>9. Natural2Original(d)[i] =
          ThreadId(d, i \div (d.cores * d.threads), (i \div d.threads) % d.cores, i % d.threads)
    BY DEF Natural2Original
  <1> QED
    BY <1>1, <1>3, <1>5, <1>8, <1>9 DEF Sizes

\* Every thread has a natural index.
LEMMA NaturalIsOnto ==
    ASSUME NEW d \in CpuShapes, NEW n \in ThreadIds(d)
    PROVE  \E i \in 0 .. ThreadCount(d) - 1 : Natural2Original(d)[i] = n
  <1>1. PICK P \in Nat \ {0}, C \in Nat \ {0}, T \in Nat \ {0} :
          Sizes(d, P, C, T) /\ P = d.packages /\ C = d.cores /\ T = d.threads
    BY HasSizes DEF Sizes
  <1>2. PICK p \in 0 .. P - 1, c \in 0 .. C - 1, r \in 0 .. T - 1 : n = ThreadId(d, p, c, r)
    BY <1>1 DEF Sizes, ThreadIds
  <1>3. PICK x \in 0 .. P * C - 1 : x = p * C + c
    BY TwoDigits
  <1>4. x \in Nat /\ P * C \in Nat
    OBVIOUS
  <1>5. PICK i \in 0 .. (P * C) * T - 1 : i = x * T + r
    BY <1>4, TwoDigits
  <1>6. i \in 0 .. ThreadCount(d) - 1
    BY <1>1, <1>5 DEF Sizes
  <1>7. i \div T = x /\ i % T = r
    BY <1>4, <1>5, QuotientOf
  <1>8. x \div C = p /\ x % C = c
    BY <1>3, QuotientOf
  <1>9. Natural2Original(d)[i] = ThreadId(d, p, c, r)
    BY <1>1, <1>6, <1>7, <1>8, NaturalPlace
  <1> QED
    BY <1>2, <1>6, <1>9

\* The indexes of a core are T numbers in a row, which the service takes for one.
LEMMA SameCore ==
    ASSUME NEW d \in CpuShapes,
           NEW i \in 0 .. ThreadCount(d) - 1, NEW j \in 0 .. ThreadCount(d) - 1,
           i \div d.threads = j \div d.threads,
           NEW p \in PackageIds(d), NEW c \in CoreIds(d)
    PROVE  Natural2Original(d)[i] \in CoreThreads(d, p, c)
              <=> Natural2Original(d)[j] \in CoreThreads(d, p, c)
  <1>1. PICK x : x = i \div d.threads /\ x = j \div d.threads
    OBVIOUS
  <1>2. /\ x \div d.cores \in PackageIds(d) /\ x % d.cores \in CoreIds(d)
        /\ i % d.threads \in Rows(d) /\ j % d.threads \in Rows(d)
        /\ Natural2Original(d)[i] =
             ThreadId(d, x \div d.cores, x % d.cores, i % d.threads)
        /\ Natural2Original(d)[j] =
             ThreadId(d, x \div d.cores, x % d.cores, j % d.threads)
    BY <1>1, NaturalPlace
  <1> QED
    BY <1>2, OnCore

-----------------------------------------------------------------------------
(* The machine, and workloads on its threads *)

\* What is assumed of a machine.
LEMMA MachineFacts ==
    ASSUME machine \in Machines
    PROVE  /\ ThisShape \in CpuShapes
           /\ ThreadCountOf \in [Containers -> Nat]
           /\ machine.primary \in AllocatorNames /\ machine.secondary \in AllocatorNames
           /\ IsFiniteSet(Threads) /\ Threads # {} /\ Threads \subseteq Nat
           /\ Cardinality(Threads) \in Nat /\ Cardinality(Threads) # 0
  <1>1. ThisShape \in CpuShapes
    BY MachinesAreConfigured DEF ThisShape
  <1>2. IsFiniteSet(Threads) /\ Threads # {} /\ Threads \subseteq Nat
    BY <1>1, Cores DEF Threads
  <1>3. Cardinality(Threads) \in Nat /\ Cardinality(Threads) # 0
    BY <1>2, FS_CardinalityType, FS_EmptySet
  <1> QED
    BY <1>1, <1>2, <1>3, MachinesAreConfigured DEF ThreadCountOf

\* The machine is the same in the next state.
LEMMA SameMachine ==
    ASSUME machine' = machine
    PROVE  /\ ThisShape' = ThisShape /\ ThreadCountOf' = ThreadCountOf
           /\ Threads' = Threads /\ Cpus' = Cpus /\ EmptyCpu' = EmptyCpu
           /\ Requests' = Requests
  BY DEF ThisShape, ThreadCountOf, Threads, Cpus, EmptyCpu, Requests

\* A workload is on the CPU when it has a thread there.
LEMMA OnTheCpu ==
    ASSUME NEW c, NEW w
    PROVE  /\ w \in WorkloadsOn(c) <=> CpusetOf(c, w) # {}
           /\ CpusetOf(c, w) \in SUBSET Threads
  BY DEF WorkloadsOn, CpusetOf

\* Claiming threads gives them to the workload, and to no other.
LEMMA ClaimIs ==
    ASSUME NEW c \in Cpus, NEW w \in Containers, NEW ts
    PROVE  /\ Claim(c, w, ts) \in Cpus
           /\ CpusetOf(Claim(c, w, ts), w) = CpusetOf(c, w) \cup (ts \cap Threads)
           /\ \A v : v # w => CpusetOf(Claim(c, w, ts), v) = CpusetOf(c, v)
           /\ EmptyThreads(Claim(c, w, ts)) = EmptyThreads(c) \ ts
           /\ WorkloadsOn(Claim(c, w, ts)) \subseteq WorkloadsOn(c) \cup {w}
           /\ \A t \in Threads : t \notin ts => Claim(c, w, ts)[t] = c[t]
  BY DEF Claim, Cpus, CpusetOf, EmptyThreads, WorkloadsOn

\* Only the kept workloads stay, on the threads they have.
LEMMA KeepIs ==
    ASSUME NEW c \in Cpus, NEW ws
    PROVE  /\ Keep(c, ws) \in Cpus
           /\ \A w \in ws : CpusetOf(Keep(c, ws), w) = CpusetOf(c, w)
           /\ WorkloadsOn(Keep(c, ws)) \subseteq ws
  BY DEF Keep, Cpus, CpusetOf, WorkloadsOn

\* An empty CPU has no workload.
LEMMA EmptyCpuIs ==
    /\ EmptyCpu \in Cpus
    /\ WorkloadsOn(EmptyCpu) = {}
    /\ \A w : CpusetOf(EmptyCpu, w) = {}
  BY DEF EmptyCpu, Cpus, WorkloadsOn, CpusetOf

\* The first n threads of a set are not more than n.
LEMMA FirstThreadsAre ==
    ASSUME NEW ts \in SUBSET Nat, IsFiniteSet(ts), NEW n \in Nat
    PROVE  /\ FirstThreads(ts, n) \in SUBSET ts
           /\ IsFiniteSet(FirstThreads(ts, n))
           /\ Cardinality(FirstThreads(ts, n)) \in 0 .. n
  <1> DEFINE Below(t) == {u \in ts : u < t}
             F == FirstThreads(ts, n)
             f == [t \in F |-> Cardinality(Below(t))]
  <1>1. \A t \in ts : IsFiniteSet(Below(t)) /\ Cardinality(Below(t)) \in Nat
    <2> TAKE t \in ts
    <2>1. Below(t) \in SUBSET ts
      OBVIOUS
    <2>2. IsFiniteSet(Below(t))
      BY <2>1, FS_Subset
    <2> QED
      BY <2>2, FS_CardinalityType
  <1>2. F \in SUBSET ts /\ \A t \in F : Cardinality(Below(t)) < n
    BY DEF FirstThreads
  <1>3. ASSUME NEW t \in ts, NEW u \in ts, t < u
        PROVE  Cardinality(Below(t)) # Cardinality(Below(u))
    <2>1. t \in Below(u) /\ t \notin Below(t)
      BY <1>3
    <2>2. Below(t) \in SUBSET Below(u)
      <3>1. \A x \in ts : x \in Nat
        OBVIOUS
      <3>2. \A x \in ts : x < t => x < u
        BY <1>3, <3>1
      <3> QED
        BY <3>2
    <2>3. Cardinality(Below(t)) = Cardinality(Below(u)) => Below(t) = Below(u)
      BY <1>1, <2>2, FS_Subset
    <2> QED
      BY <2>1, <2>3
  <1>4. \A t, u \in F : f[t] = f[u] => t = u
    <2>1. \A t, u \in F : t \in ts /\ u \in ts /\ (t < u \/ u < t \/ t = u)
      <3>1. \A t, u \in ts : t < u \/ u < t \/ t = u
        OBVIOUS
      <3> HIDE DEF F
      <3> QED
        BY <1>2, <3>1
    <2> HIDE DEF F
    <2>2. \A t \in F : f[t] = Cardinality(Below(t))
      OBVIOUS
    <2> HIDE DEF f, Below
    <2> QED
      BY <1>3, <2>1, <2>2
  <1>5. f \in [F -> 0 .. n - 1]
    <2>1. \A t \in F : Cardinality(Below(t)) \in 0 .. n - 1
      <3> TAKE t \in F
      <3>1. Cardinality(Below(t)) \in Nat /\ Cardinality(Below(t)) < n
        BY <1>1, <1>2
      <3> HIDE DEF Below
      <3> QED
        BY <3>1
    <2> HIDE DEF F, Below
    <2> QED
      BY <2>1
  <1>6. IsFiniteSet(0 .. n - 1) /\ Cardinality(0 .. n - 1) = n
    <2>1. \A b \in Int : /\ IsFiniteSet(0 .. b)
                         /\ Cardinality(0 .. b) = IF 0 > b THEN 0 ELSE b - 0 + 1
      BY FS_Interval
    <2>2. n - 1 \in Int
      OBVIOUS
    <2> QED
      BY <2>1, <2>2
  <1>7. f \in Injection(F, 0 .. n - 1)
    BY <1>4, <1>5 DEF Injection, IsInjective
  <1> HIDE DEF f
  <1>8. IsFiniteSet(F) /\ Cardinality(F) <= n
    BY <1>6, <1>7, FS_Injection
  <1>9. Cardinality(F) \in Nat
    BY <1>8, FS_CardinalityType
  <1> QED
    BY <1>2, <1>8, <1>9

\* The threads the naive allocator assigns: as many as are requested, or all, and
\* claimed ones only together with all the empty ones.
LEMMA AssignedThreads ==
    ASSUME machine \in Machines, NEW c, NEW n \in Nat, NEW ts \in AssignThreads(c, n)
    PROVE  /\ ts \in SUBSET Threads
           /\ Cardinality(ts) = Min({n, Cardinality(Threads)})
           /\ ts \subseteq EmptyThreads(c) \/ EmptyThreads(c) \subseteq ts
  <1> DEFINE E == EmptyThreads(c)
             D == Threads \ E
  <1>1. /\ IsFiniteSet(Threads) /\ Cardinality(Threads) \in Nat
        /\ E \in SUBSET Threads /\ D \in SUBSET Threads
        /\ E \cap D = {} /\ E \cup D = Threads
    BY MachineFacts DEF EmptyThreads
  <1>2. /\ IsFiniteSet(E) /\ IsFiniteSet(D)
        /\ Cardinality(E) \in Nat /\ Cardinality(D) \in Nat
    BY <1>1, FS_Subset, FS_CardinalityType
  <1>3. Cardinality(Threads) = Cardinality(E) + Cardinality(D)
    <2>1. Cardinality(E \cup D) = Cardinality(E) + Cardinality(D) - Cardinality(E \cap D)
      BY <1>2, FS_Union
    <2>2. Cardinality(E \cap D) = 0
      BY <1>1, FS_EmptySet
    <2>3. Cardinality(Threads) = Cardinality(E) + Cardinality(D) - 0
      BY <1>1, <2>1, <2>2
    <2> HIDE DEF E, D
    <2> QED
      BY <1>2, <2>3
  <1>4. \/ /\ n - Cardinality(E) <= 0 /\ ts \in SUBSET E /\ Cardinality(ts) = n
        \/ /\ ~ (n - Cardinality(E) <= 0)
           /\ \E s \in SUBSET D :
                /\ Cardinality(s) = Min({n - Cardinality(E), Cardinality(D)})
                /\ ts = E \cup s
    BY DEF AssignThreads
  <1> HIDE DEF E, D
  <1>5. CASE n - Cardinality(E) <= 0 /\ ts \in SUBSET E /\ Cardinality(ts) = n
    <2>1. n <= Cardinality(Threads)
      BY <1>2, <1>3, <1>5
    <2>2. Min({n, Cardinality(Threads)}) = n
      BY <1>1, <2>1, MinOfTwo
    <2> QED
      BY <1>1, <1>5, <2>2 DEF E
  <1>6. ASSUME ~ (n - Cardinality(E) <= 0), NEW s \in SUBSET D,
               Cardinality(s) = Min({n - Cardinality(E), Cardinality(D)}),
               ts = E \cup s
        PROVE  Cardinality(ts) = Min({n, Cardinality(Threads)})
    <2>1. PICK m \in Nat : m = n - Cardinality(E)
      BY <1>2, <1>6
    <2>2. Cardinality(s) = IF m <= Cardinality(D) THEN m ELSE Cardinality(D)
      BY <1>2, <1>6, <2>1, MinOfTwo
    <2>3. E \cap s = {} /\ IsFiniteSet(s)
      BY <1>1, <1>2, FS_Subset
    <2>4. Cardinality(ts) = Cardinality(E) + Cardinality(s)
      <3>1. Cardinality(E \cup s) = Cardinality(E) + Cardinality(s) - Cardinality(E \cap s)
        BY <1>2, <2>3, FS_Union
      <3>2. Cardinality(E \cap s) = 0 /\ Cardinality(s) \in Nat
        BY <2>3, FS_EmptySet, FS_CardinalityType
      <3> QED
        BY <1>2, <1>6, <3>1, <3>2
    <2>5. Min({n, Cardinality(Threads)})
             = IF n <= Cardinality(Threads) THEN n ELSE Cardinality(Threads)
      BY <1>1, MinOfTwo
    <2>6. n = m + Cardinality(E)
      BY <1>2, <2>1
    <2> QED
      BY <1>2, <1>3, <2>2, <2>4, <2>5, <2>6
  <1> QED
    BY <1>1, <1>4, <1>5, <1>6 DEF E


-----------------------------------------------------------------------------
(* Where the greedy allocator looks *)

\* The packages and cores are numbered from zero.
LEMMA PlacesAreNumbers ==
    ASSUME machine \in Machines
    PROVE  /\ PackageIds(ThisShape) \in SUBSET Nat /\ PackageIds(ThisShape) # {}
           /\ CoreIds(ThisShape) \in SUBSET Nat /\ CoreIds(ThisShape) # {}
           /\ -1 \notin PackageIds(ThisShape)
           /\ \A p \in PackageIds(ThisShape) :
                /\ PackageThreads(ThisShape, p) \in SUBSET Threads
                /\ \A k \in CoreIds(ThisShape) :
                     /\ CoreThreads(ThisShape, p, k) \in SUBSET Threads
                     /\ CoreThreads(ThisShape, p, k) \subseteq PackageThreads(ThisShape, p)
           /\ \A p, q \in PackageIds(ThisShape) :
                p # q => PackageThreads(ThisShape, p) \cap PackageThreads(ThisShape, q) = {}
  <1>1. ThisShape \in CpuShapes
    BY MachineFacts
  <1>2. \A p \in PackageIds(ThisShape), k \in CoreIds(ThisShape) :
           CoreThreads(ThisShape, p, k) \in SUBSET Threads
    BY <1>1, Cores DEF Threads
  <1>3. \A p, q \in PackageIds(ThisShape), k, e \in CoreIds(ThisShape) :
           p # q => CoreThreads(ThisShape, p, k) \cap CoreThreads(ThisShape, q, e) = {}
    BY <1>1, Cores
  <1>4. /\ PackageIds(ThisShape) \in SUBSET Nat /\ PackageIds(ThisShape) # {}
        /\ CoreIds(ThisShape) \in SUBSET Nat /\ CoreIds(ThisShape) # {}
        /\ -1 \notin PackageIds(ThisShape)
    <2>1. ThisShape.packages \in Nat \ {0} /\ ThisShape.cores \in Nat \ {0}
      BY <1>1 DEF CpuShapes
    <2>2. 0 \in 0 .. ThisShape.packages - 1 /\ 0 \in 0 .. ThisShape.cores - 1
      BY <2>1
    <2> QED
      BY <2>1, <2>2 DEF PackageIds, CoreIds
  <1>5. \A p \in PackageIds(ThisShape) : PackageThreads(ThisShape, p) \in SUBSET Threads
    BY <1>2 DEF PackageThreads
  <1>6. \A p \in PackageIds(ThisShape), k \in CoreIds(ThisShape) :
           CoreThreads(ThisShape, p, k) \subseteq PackageThreads(ThisShape, p)
    BY DEF PackageThreads
  <1>7. \A p, q \in PackageIds(ThisShape) :
           p # q => PackageThreads(ThisShape, p) \cap PackageThreads(ThisShape, q) = {}
    BY <1>3 DEF PackageThreads
  <1> QED
    BY <1>2, <1>4, <1>5, <1>6, <1>7

\* How many of some threads are empty is a number, which grows with the threads.
LEMMA EmptyIsANumber ==
    ASSUME machine \in Machines, NEW c
    PROVE  /\ \A ts : EmptyOf(c, ts) \in 0 .. Cardinality(Threads)
           /\ \A ts : EmptyOf(c, ts) = 0 <=> ts \cap EmptyThreads(c) = {}
           /\ \A ts, us : ts \subseteq us => EmptyOf(c, ts) <= EmptyOf(c, us)
  <1>1. IsFiniteSet(Threads) /\ Cardinality(Threads) \in Nat
    BY MachineFacts
  <1>2. \A ts : /\ IsFiniteSet(ts \cap EmptyThreads(c))
                /\ Cardinality(ts \cap EmptyThreads(c)) <= Cardinality(Threads)
                /\ Cardinality(ts \cap EmptyThreads(c)) \in Nat
    <2> TAKE ts
    <2>1. ts \cap EmptyThreads(c) \in SUBSET Threads
      BY DEF EmptyThreads
    <2>2. IsFiniteSet(ts \cap EmptyThreads(c))
      BY <1>1, <2>1, FS_Subset
    <2> QED
      BY <1>1, <2>1, <2>2, FS_Subset, FS_CardinalityType
  <1>3. \A ts : EmptyOf(c, ts) \in 0 .. Cardinality(Threads)
    BY <1>1, <1>2 DEF EmptyOf
  <1>4. \A ts : EmptyOf(c, ts) = 0 <=> ts \cap EmptyThreads(c) = {}
    BY <1>2, FS_EmptySet DEF EmptyOf
  <1>5. ASSUME NEW ts, NEW us, ts \subseteq us
        PROVE  EmptyOf(c, ts) <= EmptyOf(c, us)
    <2>1. ts \cap EmptyThreads(c) \in SUBSET (us \cap EmptyThreads(c))
      BY <1>5
    <2> QED
      BY <1>2, <2>1, FS_Subset DEF EmptyOf
  <1> QED
    BY <1>3, <1>4, <1>5

\* The emptiest package and core have at least as many empty threads as any other.
LEMMA Emptiest ==
    ASSUME machine \in Machines, NEW c
    PROVE  /\ EmptiestPackage(c) \in PackageIds(ThisShape)
           /\ \A p \in PackageIds(ThisShape) :
                EmptyOf(c, PackageThreads(ThisShape, p))
                    <= EmptyOf(c, PackageThreads(ThisShape, EmptiestPackage(c)))
           /\ \A p : /\ EmptiestCore(c, p) \in CoreIds(ThisShape)
                     /\ \A k \in CoreIds(ThisShape) :
                          EmptyOf(c, CoreThreads(ThisShape, p, k))
                            <= EmptyOf(c, CoreThreads(ThisShape, p, EmptiestCore(c, p)))
  <1> DEFINE N == Cardinality(Threads)
             P == PackageIds(ThisShape)
             K == CoreIds(ThisShape)
             size == [p \in P |-> EmptyOf(c, PackageThreads(ThisShape, p))]
             csize(p) == [k \in K |-> EmptyOf(c, CoreThreads(ThisShape, p, k))]
  <1>1. N \in Nat /\ P \in SUBSET Nat /\ P # {} /\ K \in SUBSET Nat /\ K # {}
    BY MachineFacts, PlacesAreNumbers
  <1>2. size \in [P -> 0 .. N]
    BY EmptyIsANumber
  <1>3. \A p : csize(p) \in [K -> 0 .. N]
    BY EmptyIsANumber
  <1>4. EmptiestPackage(c) = Largest(size) /\ \A p : EmptiestCore(c, p) = Largest(csize(p))
    BY DEF EmptiestPackage, EmptiestCore
  <1>5. /\ \A p \in P : size[p] = EmptyOf(c, PackageThreads(ThisShape, p))
        /\ \A p : \A k \in K : csize(p)[k] = EmptyOf(c, CoreThreads(ThisShape, p, k))
    OBVIOUS
  <1> HIDE DEF N, P, K, size, csize
  <1>6. Largest(size) \in P /\ \A p \in P : size[p] <= size[Largest(size)]
    BY <1>1, <1>2, LargestIs
  <1>7. \A p : Largest(csize(p)) \in K /\ \A k \in K : csize(p)[k] <= csize(p)[Largest(csize(p))]
    <2> TAKE p
    <2>1. PICK f \in [K -> 0 .. N] : f = csize(p)
      BY <1>3
    <2>2. Largest(f) \in K /\ \A k \in K : f[k] <= f[Largest(f)]
      BY <1>1, LargestIs
    <2> QED
      BY <2>1, <2>2
  <1> QED
    BY <1>4, <1>5, <1>6, <1>7 DEF P, K

\* The threads that are claimed next are empty ones of the emptiest core of the
\* package that is being filled, or of the emptiest one when that has none left.
LEMMA ClaimedNext ==
    ASSUME machine \in Machines, req \in Requests,
           NEW core, NEW ts,
           core = CoreThreads(ThisShape, CurrentPackage, EmptiestCore(req.cpu, CurrentPackage)),
           ts = FirstThreads(core \cap EmptyThreads(req.cpu), req.left)
    PROVE  /\ CurrentPackage \in PackageIds(ThisShape)
           /\ EmptiestCore(req.cpu, CurrentPackage) \in CoreIds(ThisShape)
           /\ core \in SUBSET PackageThreads(ThisShape, CurrentPackage)
           /\ core \in SUBSET Threads
           /\ ts \in SUBSET (core \cap EmptyThreads(req.cpu))
           /\ IsFiniteSet(ts) /\ Cardinality(ts) \in 0 .. req.left
           /\ \/ CurrentPackage = req.package
              \/ /\ req.package # -1
                       => EmptyOf(req.cpu, PackageThreads(ThisShape, req.package)) = 0
                 /\ \A p \in PackageIds(ThisShape) :
                      EmptyOf(req.cpu, PackageThreads(ThisShape, p))
                        <= EmptyOf(req.cpu, PackageThreads(ThisShape, CurrentPackage))
  <1>1. req.package \in {-1} \cup PackageIds(ThisShape) /\ req.left \in Nat
    BY DEF Requests
  <1>2. /\ CurrentPackage \in PackageIds(ThisShape)
        /\ \/ CurrentPackage = req.package
           \/ /\ req.package # -1
                    => EmptyOf(req.cpu, PackageThreads(ThisShape, req.package)) = 0
              /\ \A p \in PackageIds(ThisShape) :
                   EmptyOf(req.cpu, PackageThreads(ThisShape, p))
                     <= EmptyOf(req.cpu, PackageThreads(ThisShape, CurrentPackage))
    <2>1. EmptyOf(req.cpu, PackageThreads(ThisShape, req.package)) \in Nat
      BY MachineFacts, EmptyIsANumber
    <2>2. CASE req.package # -1 /\ EmptyOf(req.cpu, PackageThreads(ThisShape, req.package)) > 0
      BY <1>1, <2>2 DEF CurrentPackage
    <2>3. CASE req.package = -1 \/ ~ (EmptyOf(req.cpu, PackageThreads(ThisShape, req.package)) > 0)
      <3>1. CurrentPackage = EmptiestPackage(req.cpu)
        BY <2>3 DEF CurrentPackage
      <3>2. ~ (EmptyOf(req.cpu, PackageThreads(ThisShape, req.package)) > 0)
               => EmptyOf(req.cpu, PackageThreads(ThisShape, req.package)) = 0
        BY <2>1
      <3> QED
        BY <2>3, <3>1, <3>2, Emptiest
    <2> QED
      BY <2>2, <2>3
  <1>3. EmptiestCore(req.cpu, CurrentPackage) \in CoreIds(ThisShape)
    BY Emptiest
  <1>4. /\ core \in SUBSET PackageThreads(ThisShape, CurrentPackage)
        /\ core \in SUBSET Threads
    BY <1>2, <1>3, PlacesAreNumbers
  <1>5. /\ core \cap EmptyThreads(req.cpu) \in SUBSET Nat
        /\ IsFiniteSet(core \cap EmptyThreads(req.cpu))
    BY <1>4, MachineFacts, FS_Subset
  <1>6. /\ ts \in SUBSET (core \cap EmptyThreads(req.cpu))
        /\ IsFiniteSet(ts) /\ Cardinality(ts) \in 0 .. req.left
    BY <1>1, <1>5, FirstThreadsAre
  <1> QED
    BY <1>2, <1>3, <1>4, <1>6


-----------------------------------------------------------------------------
(* Types *)

\* A request begins with nothing done.
LEMMA NoRequestType ==
    ASSUME machine \in Machines
    PROVE  /\ NoRequest \in Requests
           /\ NoRequest.cpu = EmptyCpu /\ NoRequest.workloads = {} /\ NoRequest.second = FALSE
           /\ NoRequest.alloc = machine.primary
           /\ NoRequest.todo = {} /\ NoRequest.current = {}
  BY MachineFacts, EmptyCpuIs DEF NoRequest, Requests

\* The workload manager starts with an empty CPU.
LEMMA InitType == Init => TypeOK
  <1> SUFFICES ASSUME Init PROVE TypeOK
    OBVIOUS
  <1>1. machine \in Machines
    BY DEF Init
  <1> QED
    BY <1>1, NoRequestType, EmptyCpuIs DEF Init, TypeOK

\* The allocator at work is the primary or the secondary one, and the workloads it
\* has not come to, or is not done with, are of the request.
RequestOK(r) ==
    /\ r \in Requests
    /\ r.alloc = IF r.second THEN machine.secondary ELSE machine.primary
    /\ r.todo \cup r.current \subseteq r.workloads
    /\ r.todo \cap r.current = {}

\* The steps of the naive allocator.
LEMMA NaiveType ==
    ASSUME TypeOK, NaiveBegins \/ NaiveAssigns, req.current = {}
    PROVE  RequestOK(req')
  <1>1. machine \in Machines /\ req \in Requests /\ RequestOK(req)
    BY DEF TypeOK, RequestOK
  <1>2. CASE NaiveBegins
    <2> DEFINE kept == Keep(req.cpu, req.workloads)
    <2>1. req' = [req EXCEPT !.cpu = kept, !.todo = req.workloads \ WorkloadsOn(kept)]
      BY <1>2 DEF NaiveBegins
    <2>2. kept \in Cpus
      BY <1>1, KeepIs DEF Requests
    <2> HIDE DEF kept
    <2> QED
      BY <1>1, <2>1, <2>2 DEF RequestOK, Requests
  <1>3. CASE NaiveAssigns
    <2>1. PICK w, ts :
             /\ w \in req.todo
             /\ req' = [req EXCEPT !.cpu = Claim(@, w, ts), !.todo = @ \ {w}]
      BY <1>3 DEF NaiveAssigns
    <2>2. w \in Containers /\ req.cpu \in Cpus
      BY <1>1, <2>1 DEF RequestOK, Requests
    <2>3. Claim(req.cpu, w, ts) \in Cpus
      BY <2>2, ClaimIs
    <2> QED
      BY <1>1, <2>1, <2>3 DEF RequestOK, Requests
  <1> QED
    BY <1>2, <1>3

\* Those of the greedy one: it never claims more threads than are left to find.
LEMMA GreedyType ==
    ASSUME TypeOK, GreedyBegins \/ GreedyTakes \/ GreedyClaims,
           GreedyBegins => req.current = {}
    PROVE  RequestOK(req')
  <1>1. /\ machine \in Machines /\ req \in Requests /\ RequestOK(req)
        /\ ThreadCountOf \in [Containers -> Nat]
    BY MachineFacts DEF TypeOK, RequestOK
  <1>2. CASE GreedyBegins
    BY <1>1, <1>2, EmptyCpuIs DEF GreedyBegins, RequestOK, Requests
  <1>3. CASE GreedyTakes
    <2>1. PICK w, current :
             /\ w \in req.todo
             /\ current \in {{}, {w}}
             /\ req' = [req EXCEPT !.todo = @ \ {w}, !.left = ThreadCountOf[w], !.package = -1,
                                   !.current = current]
      BY <1>3 DEF GreedyTakes
    <2>2. w \in req.workloads /\ w \in Containers /\ ThreadCountOf[w] \in Nat
      BY <1>1, <2>1 DEF RequestOK, Requests
    <2> QED
      BY <1>1, <2>1, <2>2 DEF RequestOK, Requests
  <1>4. CASE GreedyClaims
    <2>1. PICK w, core, ts, left :
             /\ w \in req.current
             /\ core = CoreThreads(ThisShape, CurrentPackage,
                                   EmptiestCore(req.cpu, CurrentPackage))
             /\ ts = FirstThreads(core \cap EmptyThreads(req.cpu), req.left)
             /\ left = req.left - Cardinality(ts)
             /\ req' = [req EXCEPT !.cpu = Claim(@, w, ts), !.left = left,
                          !.package = CurrentPackage, !.current = IF left = 0 THEN {} ELSE @]
      BY <1>4 DEF GreedyClaims
    <2>2. w \in Containers /\ req.cpu \in Cpus /\ req.left \in Nat
      BY <1>1, <2>1 DEF Requests
    <2>3. Cardinality(ts) \in 0 .. req.left /\ CurrentPackage \in PackageIds(ThisShape)
      BY <1>1, <2>1, ClaimedNext
    <2>4. Claim(req.cpu, w, ts) \in Cpus /\ left \in Nat
      BY <2>1, <2>2, <2>3, ClaimIs
    <2> QED
      BY <1>1, <2>1, <2>3, <2>4 DEF RequestOK, Requests
  <1> QED
    BY <1>2, <1>3, <1>4

\* One workload at a time is being given threads, by the greedy allocator, and
\* some are left to find; outside an allocator nothing is left to do.
RequestInv ==
    /\ req.current # {} =>
         /\ req.alloc = "greedy"
         /\ \E w \in req.current : req.current = {w} /\ req.left \in 1 .. ThreadCountOf[w]
    /\ pc # "assigning" => req.todo = {} /\ req.current = {}

\* Every step keeps the types and this.
LEMMA RequestNext == TypeOK /\ RequestInv /\ [Next]_vars => TypeOK' /\ RequestInv'
  <1> SUFFICES ASSUME TypeOK, RequestInv, [Next]_vars PROVE TypeOK' /\ RequestInv'
    OBVIOUS
  <1>1. machine' = machine
    BY DEF Next, Ask, QueueTooDeep, Noop, Remote, RemoteFails, NaiveBegins, NaiveAssigns,
           GreedyBegins, GreedyTakes, GreedyClaims, GreedyRaises, Raise, Answer, vars
  <1>2. machine \in Machines /\ RequestOK(req) /\ cpu \in Cpus /\ workloads \in SUBSET Containers
        /\ pc \in {"idle", "asked", "assigning"}
    BY DEF TypeOK, RequestOK
  <1>3. ASSUME RequestOK(req'), cpu' \in Cpus, workloads' \in SUBSET Containers,
               pc' \in {"idle", "asked", "assigning"}
        PROVE  TypeOK'
    BY <1>1, <1>2, <1>3, SameMachine DEF TypeOK, RequestOK
  <1>4. ThreadCountOf' = ThreadCountOf /\ ThreadCountOf \in [Containers -> Nat]
    BY <1>1, <1>2, SameMachine, MachineFacts
  <1>5. CASE Ask
    <2>1. PICK removes \in SUBSET Containers, adds \in SUBSET Containers :
             req' = [NoRequest EXCEPT !.cpu = cpu, !.workloads = (workloads \ removes) \cup adds]
      BY <1>5 DEF Ask
    <2>2. RequestOK(req') /\ req'.todo = {} /\ req'.current = {}
      BY <1>2, <2>1, NoRequestType DEF RequestOK, Requests
    <2> QED
      BY <1>2, <1>3, <1>5, <2>2 DEF Ask, RequestInv
  <1>6. CASE Raise
    <2>1. CASE req.second
      <3>1. pc' = "idle" /\ req' = NoRequest /\ UNCHANGED <<cpu, workloads>>
        BY <1>6, <2>1, Zenon DEF Raise
      <3>2. RequestOK(req') /\ req'.todo = {} /\ req'.current = {}
        BY <1>2, <3>1, NoRequestType DEF RequestOK
      <3> QED
        BY <1>2, <1>3, <3>1, <3>2 DEF RequestInv
    <2>2. CASE ~req.second
      <3>1. pc' = "asked" /\ req' = FallBack /\ UNCHANGED <<cpu, workloads>>
        BY <1>6, <2>2, Zenon DEF Raise
      <3>2. machine.secondary \in AllocatorNames
        BY <1>2, MachineFacts
      <3>3. RequestOK(req') /\ req'.todo = {} /\ req'.current = {}
        BY <1>2, <3>1, <3>2 DEF RequestOK, FallBack, Requests
      <3> QED
        BY <1>2, <1>3, <3>1, <3>3 DEF RequestInv
    <2> QED
      BY <2>1, <2>2
  <1>7. CASE Answer
    <2>1. RequestOK(req') /\ req'.todo = {} /\ req'.current = {}
      BY <1>2, <1>7, NoRequestType DEF Answer, RequestOK
    <2> QED
      BY <1>2, <1>3, <1>7, <2>1 DEF Answer, RequestInv, RequestOK, Requests
  <1>8. CASE Noop
    BY <1>2, <1>3, <1>4, <1>8 DEF Noop, Asked, RequestInv
  <1>9. CASE Remote
    <2>1. PICK cpuset \in [req.workloads -> (SUBSET Threads) \ {{}}] :
             req' = [req EXCEPT !.cpu =
                        [t \in Threads |-> {w \in DOMAIN cpuset : t \in cpuset[w]}]]
      BY <1>9 DEF Remote
    <2>2. [t \in Threads |-> {w \in DOMAIN cpuset : t \in cpuset[w]}] \in Cpus
      <3>1. DOMAIN cpuset \subseteq Containers
        BY <1>2 DEF RequestOK, Requests
      <3> QED
        BY <3>1 DEF Cpus
    <2>3. RequestOK(req') /\ req'.todo = req.todo /\ req'.current = req.current
      BY <1>2, <2>1, <2>2 DEF RequestOK, Requests
    <2> QED
      BY <1>2, <1>3, <1>9, <2>3 DEF Remote, Asked, RequestInv
  <1>10. CASE NaiveBegins \/ NaiveAssigns
    <2>1. /\ req.alloc = "naive" /\ pc' = "assigning" /\ UNCHANGED <<cpu, workloads>>
      BY <1>10 DEF NaiveBegins, NaiveAssigns, Asked, Assigning
    <2>2. req.current = {}
      BY <2>1 DEF RequestInv
    <2>3. RequestOK(req')
      BY <1>10, <2>2, NaiveType
    <2>4. req'.current = {}
      BY <1>2, <1>10, <2>2 DEF NaiveBegins, NaiveAssigns, RequestOK, Requests
    <2> QED
      BY <1>2, <1>3, <2>1, <2>3, <2>4 DEF RequestInv
  <1>11. CASE GreedyBegins \/ GreedyTakes \/ GreedyClaims
    <2>1. /\ req.alloc = "greedy" /\ pc' = "assigning" /\ UNCHANGED <<cpu, workloads>>
          /\ GreedyBegins => req.current = {}
      BY <1>11 DEF GreedyBegins, GreedyTakes, GreedyClaims, Asked, Assigning, RequestInv
    <2>2. RequestOK(req')
      BY <1>11, <2>1, GreedyType
    <2>3. TypeOK'
      BY <1>2, <1>3, <2>1, <2>2
    <2>4. /\ req'.alloc = "greedy"
          /\ req'.current # {} =>
               \E w \in req'.current : req'.current = {w} /\ req'.left \in 1 .. ThreadCountOf[w]
      <3>1. CASE GreedyBegins
        BY <1>2, <2>1, <3>1 DEF GreedyBegins, RequestOK, Requests
      <3>2. CASE GreedyTakes
        <4>1. PICK w \in req.todo :
                 req' = [req EXCEPT !.todo = @ \ {w}, !.left = ThreadCountOf[w], !.package = -1,
                                    !.current = IF ThreadCountOf[w] = 0 THEN {} ELSE {w}]
          BY <3>2 DEF GreedyTakes
        <4>2. ThreadCountOf[w] \in Nat
          BY <1>2, <1>4, <4>1 DEF RequestOK, Requests
        <4>3. /\ req'.alloc = "greedy" /\ req'.left = ThreadCountOf[w]
              /\ req'.current = IF ThreadCountOf[w] = 0 THEN {} ELSE {w}
          BY <1>2, <2>1, <4>1 DEF RequestOK, Requests
        <4> QED
          BY <4>2, <4>3
      <3>3. CASE GreedyClaims
        <4>1. PICK w, core, ts, left :
                 /\ w \in req.current
                 /\ core = CoreThreads(ThisShape, CurrentPackage,
                                       EmptiestCore(req.cpu, CurrentPackage))
                 /\ ts = FirstThreads(core \cap EmptyThreads(req.cpu), req.left)
                 /\ left = req.left - Cardinality(ts)
                 /\ req' = [req EXCEPT !.cpu = Claim(@, w, ts), !.left = left,
                              !.package = CurrentPackage, !.current = IF left = 0 THEN {} ELSE @]
          BY <3>3 DEF GreedyClaims
        <4>2. /\ req'.alloc = "greedy" /\ req'.left = left
              /\ req'.current = IF left = 0 THEN {} ELSE req.current
          BY <1>2, <2>1, <4>1 DEF RequestOK, Requests
        <4>3. req.current = {w} /\ req.left \in 1 .. ThreadCountOf[w] /\ ThreadCountOf[w] \in Nat
          BY <1>2, <1>4, <4>1 DEF RequestInv, RequestOK, Requests
        <4>4. Cardinality(ts) \in 0 .. req.left
          <5>1. req \in Requests
            BY <1>2 DEF RequestOK
          <5> QED
            BY <1>2, <4>1, <5>1, ClaimedNext
        <4>5. left # 0 => left \in 1 .. ThreadCountOf[w]
          BY <4>1, <4>3, <4>4
        <4> QED
          BY <4>2, <4>3, <4>5
      <3> QED
        BY <1>11, <3>1, <3>2, <3>3
    <2> QED
      BY <1>4, <2>1, <2>3, <2>4 DEF RequestInv
  <1>12. CASE UNCHANGED vars
    BY <1>2, <1>3, <1>4, <1>12 DEF vars, RequestInv
  <1> QED
    BY <1>5, <1>6, <1>7, <1>8, <1>9, <1>10, <1>11, <1>12
       DEF Next, QueueTooDeep, RemoteFails, GreedyRaises

\* Nothing is left to do before the first request.
LEMMA RequestInit == Init => RequestInv
  <1> SUFFICES ASSUME Init PROVE RequestInv
    OBVIOUS
  <1>1. machine \in Machines /\ req = NoRequest
    BY DEF Init
  <1> QED
    BY <1>1, NoRequestType DEF RequestInv

\* Whatever the machine and the requests, the threads left to find never become
\* negative, the package that is filled is one of the CPU, and a workload is either
\* still to come or being given threads.
THEOREM TypeCorrect == Spec => []TypeOK
  <1> QED
    BY InitType, RequestInit, RequestNext, PTL DEF Spec


-----------------------------------------------------------------------------
(* What the steps do *)

\* Which threads a workload has depends on the CPU alone.
LEMMA Primed ==
    ASSUME machine' = machine
    PROVE  /\ \A w : CpusetOf(req.cpu, w)' = CpusetOf(req'.cpu, w)
           /\ \A w : CpusetOf(cpu, w)' = CpusetOf(cpu', w)
           /\ WorkloadsOn(req.cpu)' = WorkloadsOn(req'.cpu)
           /\ WorkloadsOn(cpu)' = WorkloadsOn(cpu')
           /\ EmptyThreads(req.cpu)' = EmptyThreads(req'.cpu)
           /\ ThreadCountOf' = ThreadCountOf /\ Threads' = Threads /\ ThisShape' = ThisShape
  <1>1. Threads' = Threads /\ ThreadCountOf' = ThreadCountOf /\ ThisShape' = ThisShape
    BY SameMachine
  <1> QED
    BY <1>1 DEF CpusetOf, WorkloadsOn, EmptyThreads

\* The request has the CPU of the workload manager.
LEMMA AskIs ==
    ASSUME TypeOK, Ask
    PROVE  /\ pc = "idle" /\ pc' = "asked" /\ req'.cpu = cpu
           /\ req'.alloc = machine.primary /\ req'.second = FALSE
           /\ UNCHANGED <<machine, cpu, workloads>>
  <1>1. machine \in Machines
    BY DEF TypeOK
  <1>2. PICK removes \in SUBSET Containers, adds \in SUBSET Containers :
           req' = [NoRequest EXCEPT !.cpu = cpu, !.workloads = (workloads \ removes) \cup adds]
    BY DEF Ask
  <1> QED
    BY <1>1, <1>2, NoRequestType DEF Ask, Requests

\* The secondary allocator is given the request as the primary one left it.
LEMMA RaiseIs ==
    ASSUME TypeOK, Raise
    PROVE  /\ UNCHANGED <<machine, cpu, workloads>>
           /\ pc' \in {"idle", "asked"}
           /\ pc' = "asked" => /\ ~ req.second /\ req'.second /\ req'.cpu = req.cpu
                               /\ req'.workloads = req.workloads
                               /\ req'.alloc = machine.secondary
  <1>1. req \in Requests
    BY DEF TypeOK
  <1>2. CASE req.second
    <2>1. pc' = "idle"
      BY <1>2, Zenon DEF Raise
    <2> QED
      BY <2>1 DEF Raise
  <1>3. CASE ~ req.second
    <2>1. pc' = "asked" /\ req' = FallBack
      BY <1>3, Zenon DEF Raise
    <2>2. req'.second = TRUE
      BY <1>1, <2>1 DEF FallBack, Requests
    <2> QED
      BY <1>1, <1>3, <2>1, <2>2 DEF FallBack, Requests, Raise
  <1> QED
    BY <1>2, <1>3

\* The answer has the CPU that was made, and nothing was left to do.
LEMMA AnswerIs ==
    ASSUME Answer
    PROVE  /\ pc = "assigning" /\ pc' = "idle" /\ machine' = machine
           /\ cpu' = req.cpu /\ workloads' = req.workloads
           /\ req.todo = {} /\ req.current = {}
  BY DEF Answer

\* The service gives threads to every workload of the request.
LEMMA RemoteIs ==
    ASSUME TypeOK, Remote
    PROVE  /\ pc' = "assigning" /\ req'.alloc = "remote" /\ req'.workloads = req.workloads
           /\ UNCHANGED <<machine, cpu, workloads>>
           /\ WorkloadsOn(req'.cpu) \subseteq req.workloads
           /\ \A w \in req.workloads : CpusetOf(req'.cpu, w) # {}
  <1>1. req \in Requests
    BY DEF TypeOK
  <1>2. PICK cpuset \in [req.workloads -> (SUBSET Threads) \ {{}}] :
           req' = [req EXCEPT !.cpu =
                      [t \in Threads |-> {w \in DOMAIN cpuset : t \in cpuset[w]}]]
    BY DEF Remote
  <1>3. /\ req'.cpu = [t \in Threads |-> {w \in req.workloads : t \in cpuset[w]}]
        /\ req'.alloc = req.alloc /\ req'.workloads = req.workloads
    BY <1>1, <1>2 DEF Requests
  <1>4. WorkloadsOn(req'.cpu) \subseteq req.workloads
    BY <1>3 DEF WorkloadsOn
  <1>5. \A w \in req.workloads : CpusetOf(req'.cpu, w) # {}
    <2> TAKE w \in req.workloads
    <2>1. cpuset[w] # {} /\ cpuset[w] \in SUBSET Threads
      OBVIOUS
    <2> QED
      BY <1>3, <2>1 DEF CpusetOf
  <1> QED
    BY <1>3, <1>4, <1>5 DEF Remote, Asked

\* The naive allocator begins by freeing the threads of removed workloads.
LEMMA NaiveBeginsIs ==
    ASSUME TypeOK, NaiveBegins
    PROVE  /\ pc = "asked" /\ pc' = "assigning" /\ req.alloc = "naive" /\ req'.alloc = "naive"
           /\ UNCHANGED <<machine, cpu, workloads>>
           /\ req'.workloads = req.workloads /\ req'.current = req.current
           /\ req'.todo = req.workloads \ WorkloadsOn(req'.cpu)
           /\ WorkloadsOn(req'.cpu) \subseteq req.workloads
           /\ \A w \in req.workloads : CpusetOf(req'.cpu, w) = CpusetOf(req.cpu, w)
  <1> DEFINE kept == Keep(req.cpu, req.workloads)
  <1>1. req \in Requests
    BY DEF TypeOK
  <1>2. req' = [req EXCEPT !.cpu = kept, !.todo = req.workloads \ WorkloadsOn(kept)]
    BY DEF NaiveBegins
  <1>3. /\ req'.cpu = kept /\ req'.todo = req.workloads \ WorkloadsOn(kept)
        /\ req'.workloads = req.workloads /\ req'.alloc = req.alloc /\ req'.current = req.current
    BY <1>1, <1>2 DEF Requests
  <1>4. /\ \A w \in req.workloads : CpusetOf(kept, w) = CpusetOf(req.cpu, w)
        /\ WorkloadsOn(kept) \subseteq req.workloads
    BY <1>1, KeepIs DEF Requests
  <1> QED
    BY <1>3, <1>4 DEF NaiveBegins, Asked

\* It claims threads for one workload at a time.
LEMMA NaiveAssignsIs ==
    ASSUME TypeOK, NaiveAssigns
    PROVE  /\ pc = "assigning" /\ pc' = "assigning"
           /\ req.alloc = "naive" /\ req'.alloc = "naive"
           /\ UNCHANGED <<machine, cpu, workloads>>
           /\ req'.workloads = req.workloads /\ req'.current = req.current
           /\ \E w \in req.todo : \E ts \in AssignThreads(req.cpu, ThreadCountOf[w]) :
                /\ req'.todo = req.todo \ {w}
                /\ w \in Containers /\ w \in req.workloads /\ ThreadCountOf[w] \in Nat
                /\ req'.cpu = Claim(req.cpu, w, ts)
  <1>1. machine \in Machines /\ req \in Requests /\ req.todo \subseteq req.workloads
    BY DEF TypeOK
  <1>2. PICK w, ts :
           /\ w \in req.todo
           /\ ts \in AssignThreads(req.cpu, ThreadCountOf[w])
           /\ req' = [req EXCEPT !.cpu = Claim(@, w, ts), !.todo = @ \ {w}]
    BY DEF NaiveAssigns
  <1>3. /\ req'.cpu = Claim(req.cpu, w, ts) /\ req'.todo = req.todo \ {w}
        /\ req'.workloads = req.workloads /\ req'.alloc = req.alloc /\ req'.current = req.current
    BY <1>1, <1>2 DEF Requests
  <1>4. w \in Containers /\ w \in req.workloads /\ ThreadCountOf[w] \in Nat
    BY <1>1, <1>2, MachineFacts DEF Requests
  <1> QED
    BY <1>3, <1>4 DEF NaiveAssigns, Assigning

\* The greedy allocator begins with an empty CPU.
LEMMA GreedyBeginsIs ==
    ASSUME TypeOK, GreedyBegins
    PROVE  /\ pc = "asked" /\ pc' = "assigning" /\ req.alloc = "greedy" /\ req'.alloc = "greedy"
           /\ UNCHANGED <<machine, cpu, workloads>>
           /\ req'.workloads = req.workloads /\ req'.current = req.current
           /\ req'.todo = req.workloads /\ req'.cpu = EmptyCpu
  BY DEF GreedyBegins, Asked, TypeOK, Requests

\* It takes a workload.
LEMMA GreedyTakesIs ==
    ASSUME TypeOK, GreedyTakes
    PROVE  /\ pc = "assigning" /\ pc' = "assigning"
           /\ req.alloc = "greedy" /\ req'.alloc = "greedy"
           /\ UNCHANGED <<machine, cpu, workloads>>
           /\ req'.workloads = req.workloads /\ req'.cpu = req.cpu /\ req.current = {}
           /\ \E w \in req.todo :
                /\ w \in Containers /\ ThreadCountOf[w] \in Nat
                /\ req'.todo = req.todo \ {w}
                /\ req'.left = ThreadCountOf[w] /\ req'.package = -1
                /\ ThreadCountOf[w] = 0 => req'.current = {}
                /\ ThreadCountOf[w] # 0 => req'.current = {w}
  <1>1. machine \in Machines /\ req \in Requests
    BY DEF TypeOK
  <1>2. PICK w, current :
           /\ w \in req.todo
           /\ current = IF ThreadCountOf[w] = 0 THEN {} ELSE {w}
           /\ req' = [req EXCEPT !.todo = @ \ {w}, !.left = ThreadCountOf[w], !.package = -1,
                                 !.current = current]
    BY DEF GreedyTakes
  <1>3. w \in Containers /\ ThreadCountOf[w] \in Nat
    BY <1>1, <1>2, MachineFacts DEF Requests
  <1>4. /\ req'.todo = req.todo \ {w} /\ req'.left = ThreadCountOf[w] /\ req'.package = -1
        /\ req'.current = current
        /\ req'.workloads = req.workloads /\ req'.cpu = req.cpu /\ req'.alloc = req.alloc
    BY <1>1, <1>2 DEF Requests
  <1> QED
    BY <1>2, <1>3, <1>4 DEF GreedyTakes, Assigning

\* It claims empty threads for it, on one core, as many as are left to find.
LEMMA GreedyClaimsIs ==
    ASSUME TypeOK, RequestInv, GreedyClaims
    PROVE  /\ pc = "assigning" /\ pc' = "assigning"
           /\ req.alloc = "greedy" /\ req'.alloc = "greedy"
           /\ UNCHANGED <<machine, cpu, workloads>>
           /\ req'.workloads = req.workloads /\ req'.todo = req.todo
           /\ req'.package = CurrentPackage
           /\ \E w, core, ts :
                /\ w \in Containers
                /\ req.current = {w} /\ w \notin req.todo
                /\ req.left \in 1 .. ThreadCountOf[w] /\ ThreadCountOf[w] \in Nat
                /\ core = CoreThreads(ThisShape, CurrentPackage,
                                      EmptiestCore(req.cpu, CurrentPackage))
                /\ ts = FirstThreads(core \cap EmptyThreads(req.cpu), req.left)
                /\ req'.cpu = Claim(req.cpu, w, ts)
                /\ Cardinality(ts) \in 0 .. req.left
                /\ req'.left = req.left - Cardinality(ts)
                /\ req'.left = 0 => req'.current = {}
                /\ req'.left # 0 => req'.current = {w}
  <1>1. /\ machine \in Machines /\ req \in Requests /\ req.todo \cap req.current = {}
    BY DEF TypeOK
  <1>7. PICK w, core, ts, left :
           /\ w \in req.current
           /\ core = CoreThreads(ThisShape, CurrentPackage,
                                 EmptiestCore(req.cpu, CurrentPackage))
           /\ ts = FirstThreads(core \cap EmptyThreads(req.cpu), req.left)
           /\ left = req.left - Cardinality(ts)
           /\ req' = [req EXCEPT !.cpu = Claim(@, w, ts), !.left = left,
                        !.package = CurrentPackage, !.current = IF left = 0 THEN {} ELSE @]
    BY DEF GreedyClaims
  <1>2. PICK current :
           /\ core = CoreThreads(ThisShape, CurrentPackage,
                                 EmptiestCore(req.cpu, CurrentPackage))
           /\ ts = FirstThreads(core \cap EmptyThreads(req.cpu), req.left)
           /\ left = req.left - Cardinality(ts)
           /\ current = IF left = 0 THEN {} ELSE req.current
           /\ req' = [req EXCEPT !.cpu = Claim(@, w, ts), !.left = left,
                        !.package = CurrentPackage, !.current = current]
    BY <1>7
  <1>3. /\ w \in Containers /\ req.current = {w} /\ w \notin req.todo
        /\ req.left \in 1 .. ThreadCountOf[w] /\ ThreadCountOf[w] \in Nat
    BY <1>1, <1>7, MachineFacts DEF RequestInv, Requests
  <1>4. Cardinality(ts) \in 0 .. req.left
    BY <1>1, <1>2, ClaimedNext
  <1>5. /\ req'.cpu = Claim(req.cpu, w, ts) /\ req'.left = left
        /\ req'.package = CurrentPackage /\ req'.current = current
        /\ req'.workloads = req.workloads /\ req'.todo = req.todo /\ req'.alloc = req.alloc
    BY <1>1, <1>2 DEF Requests
  <1>6. /\ left = 0 => current = {}
        /\ left # 0 => current = {w}
    BY <1>2, <1>3
  <1> QED
    BY <1>2, <1>3, <1>4, <1>5, <1>6 DEF GreedyClaims, Assigning



\* No step changes the machine.
LEMMA MachineStays == ASSUME [Next]_vars PROVE machine' = machine
  BY DEF Next, Ask, QueueTooDeep, Noop, Remote, RemoteFails, NaiveBegins, NaiveAssigns,
         GreedyBegins, GreedyTakes, GreedyClaims, GreedyRaises, Raise, Answer, vars

\* The steps: an allocator raises when it is asked, or the greedy one half-way.
LEMMA Steps ==
    ASSUME [Next]_vars
    PROVE  \/ Ask \/ Answer \/ Noop \/ Remote \/ NaiveBegins \/ NaiveAssigns
           \/ GreedyBegins \/ GreedyTakes \/ GreedyClaims
           \/ Raise /\ (pc = "asked" \/ req.alloc = "greedy")
           \/ UNCHANGED vars
  BY DEF Next, QueueTooDeep, RemoteFails, GreedyRaises, Asked, Assigning


-----------------------------------------------------------------------------
(* LayoutIsOfTheWorkloads *)

\* Every workload on a CPU is one of some workloads, and each of them that
\* requests threads and is not still to be placed is on it.
Proper(c, ws, todo) ==
    /\ WorkloadsOn(c) \subseteq ws
    /\ \A w \in ws \ todo : ThreadCountOf[w] > 0 => CpusetOf(c, w) # {}

\* It holds of the CPU at all times, and of the one an allocator works on but for
\* the workloads it has not come to the end of.
LayoutInv ==
    "noop" \notin {machine.primary, machine.secondary} =>
        /\ Proper(cpu, workloads, {})
        /\ pc = "assigning" => Proper(req.cpu, req.workloads, req.todo \cup req.current)

\* In the next state it is about the next CPU and workloads.
LEMMA LayoutPrimed ==
    ASSUME machine' = machine,
           "noop" \notin {machine.primary, machine.secondary} =>
              /\ Proper(cpu', workloads', {})
              /\ pc' = "assigning" =>
                    Proper(req'.cpu, req'.workloads, req'.todo \cup req'.current)
    PROVE  LayoutInv'
  <1>1. Threads' = Threads /\ ThreadCountOf' = ThreadCountOf
    BY SameMachine
  <1> QED
    BY <1>1 DEF LayoutInv, Proper, CpusetOf, WorkloadsOn

\* Giving a workload some threads puts it on the CPU, and takes no other off it.
LEMMA ClaimIsProper ==
    ASSUME NEW c \in Cpus, NEW ws, NEW todo, NEW w \in ws, w \in Containers, NEW ts,
           Proper(c, ws, todo), ThreadCountOf[w] > 0 => ts \cap Threads # {}
    PROVE  Proper(Claim(c, w, ts), ws, todo \ {w})
  <1>1. WorkloadsOn(Claim(c, w, ts)) \subseteq ws
    BY ClaimIs DEF Proper
  <1>2. ASSUME NEW v \in ws \ (todo \ {w}), ThreadCountOf[v] > 0
        PROVE  CpusetOf(Claim(c, w, ts), v) # {}
    <2>1. CASE v = w
      BY <1>2, <2>1, ClaimIs
    <2>2. CASE v # w
      BY <1>2, <2>2, ClaimIs DEF Proper
    <2> QED
      BY <2>1, <2>2
  <1> QED
    BY <1>1, <1>2 DEF Proper

\* The CPU and the one an allocator works on stay so, whichever allocators but the
\* no-op one are there, and wherever the primary one raises.
LEMMA LayoutNext == TypeOK /\ RequestInv /\ LayoutInv /\ [Next]_vars => LayoutInv'
  <1> SUFFICES ASSUME TypeOK, RequestInv, LayoutInv, [Next]_vars,
                      "noop" \notin {machine.primary, machine.secondary}
               PROVE  /\ Proper(cpu', workloads', {})
                      /\ pc' = "assigning" =>
                            Proper(req'.cpu, req'.workloads, req'.todo \cup req'.current)
    BY MachineStays, LayoutPrimed
  <1>1. /\ machine \in Machines /\ req \in Requests /\ req.alloc # "noop"
        /\ Proper(cpu, workloads, {})
        /\ pc = "assigning" => Proper(req.cpu, req.workloads, req.todo \cup req.current)
    BY DEF TypeOK, LayoutInv
  <1>2. CASE Ask
    BY <1>1, <1>2, AskIs
  <1>3. CASE Raise
    BY <1>1, <1>3, RaiseIs
  <1>4. CASE Answer
    BY <1>1, <1>4, AnswerIs
  <1>5. CASE Noop
    BY <1>1, <1>5 DEF Noop, Asked
  <1>6. CASE Remote
    BY <1>1, <1>6, RemoteIs DEF Proper
  <1>7. CASE NaiveBegins
    <2>1. /\ req'.todo = req.workloads \ WorkloadsOn(req'.cpu)
          /\ WorkloadsOn(req'.cpu) \subseteq req.workloads
          /\ UNCHANGED <<cpu, workloads>> /\ req'.workloads = req.workloads
      BY <1>7, NaiveBeginsIs
    <2>2. \A w : w \in WorkloadsOn(req'.cpu) <=> CpusetOf(req'.cpu, w) # {}
      BY OnTheCpu
    <2> QED
      BY <1>1, <2>1, <2>2 DEF Proper
  <1>8. CASE NaiveAssigns
    <2>1. /\ pc = "assigning" /\ UNCHANGED <<cpu, workloads>>
          /\ req'.workloads = req.workloads /\ req'.current = req.current
      BY <1>8, NaiveAssignsIs
    <2>2. PICK w, ts :
             /\ w \in req.todo
             /\ ts \in AssignThreads(req.cpu, ThreadCountOf[w])
             /\ req'.todo = req.todo \ {w}
             /\ w \in Containers /\ w \in req.workloads /\ ThreadCountOf[w] \in Nat
             /\ req'.cpu = Claim(req.cpu, w, ts)
      BY <1>8, NaiveAssignsIs
    <2>3. PICK n \in Nat : n = ThreadCountOf[w]
      BY <2>2
    <2>4. ts \in SUBSET Threads /\ Cardinality(ts) = Min({n, Cardinality(Threads)})
      <3>1. ts \in AssignThreads(req.cpu, n)
        BY <2>2, <2>3
      <3> QED
        BY <1>1, <3>1, AssignedThreads
    <2>5. n > 0 => ts \cap Threads # {}
      <3>1. Cardinality(Threads) \in Nat /\ Cardinality(Threads) # 0
        BY <1>1, MachineFacts
      <3>2. n > 0 => Min({n, Cardinality(Threads)}) > 0
        BY <3>1, MinOfTwo
      <3>3. Cardinality({}) = 0
        BY FS_EmptySet
      <3> QED
        BY <2>4, <3>2, <3>3
    <2>6. Proper(req'.cpu, req.workloads, (req.todo \cup req.current) \ {w})
      <3>1. req.cpu \in Cpus
        BY <1>1 DEF Requests
      <3>2. ThreadCountOf[w] > 0 => ts \cap Threads # {}
        BY <2>3, <2>5
      <3> QED
        BY <1>1, <2>1, <2>2, <3>1, <3>2, ClaimIsProper
    <2> QED
      BY <1>1, <2>1, <2>2, <2>6 DEF Proper
  <1>9. CASE GreedyBegins
    BY <1>1, <1>9, GreedyBeginsIs, EmptyCpuIs DEF Proper
  <1>10. CASE GreedyTakes
    <2>1. /\ pc = "assigning" /\ UNCHANGED <<cpu, workloads>>
          /\ req'.workloads = req.workloads /\ req'.cpu = req.cpu /\ req.current = {}
      BY <1>10, GreedyTakesIs
    <2>2. PICK w \in req.todo :
             /\ req'.todo = req.todo \ {w} /\ ThreadCountOf[w] \in Nat
             /\ ThreadCountOf[w] = 0 => req'.current = {}
             /\ ThreadCountOf[w] # 0 => req'.current = {w}
      BY <1>10, GreedyTakesIs
    <2> QED
      BY <1>1, <2>1, <2>2 DEF Proper
  <1>11. CASE GreedyClaims
    <2>1. /\ pc = "assigning" /\ UNCHANGED <<cpu, workloads>>
          /\ req'.workloads = req.workloads /\ req'.todo = req.todo
      BY <1>11, GreedyClaimsIs
    <2>2. PICK w, core, ts :
             /\ w \in Containers
             /\ req.current = {w} /\ req.left \in 1 .. ThreadCountOf[w]
             /\ ThreadCountOf[w] \in Nat
             /\ core = CoreThreads(ThisShape, CurrentPackage,
                                   EmptiestCore(req.cpu, CurrentPackage))
             /\ ts = FirstThreads(core \cap EmptyThreads(req.cpu), req.left)
             /\ req'.cpu = Claim(req.cpu, w, ts)
             /\ Cardinality(ts) \in 0 .. req.left
             /\ req'.left = req.left - Cardinality(ts)
             /\ req'.left = 0 => req'.current = {}
             /\ req'.left # 0 => req'.current = {w}
      BY <1>11, GreedyClaimsIs
    <2>3. w \in req.workloads /\ req.cpu \in Cpus
      BY <2>2 DEF TypeOK, Requests
    <2>4. ts \in SUBSET Threads
      BY <1>1, <2>2, ClaimedNext
    <2>5. CASE req'.left = 0
      <3>1. ts \cap Threads # {}
        <4>1. Cardinality(ts) # 0
          BY <2>2, <2>5
        <4> QED
          BY <2>4, <4>1, FS_EmptySet
      <3>2. Proper(req'.cpu, req.workloads, (req.todo \cup req.current) \ {w})
        <4>1. PICK todo : todo = req.todo \cup req.current
          OBVIOUS
        <4>2. Proper(req.cpu, req.workloads, todo)
          BY <1>1, <2>1, <4>1
        <4>3. Proper(Claim(req.cpu, w, ts), req.workloads, todo \ {w})
          BY <2>2, <2>3, <3>1, <4>2, ClaimIsProper
        <4> QED
          BY <2>2, <4>1, <4>3
      <3> QED
        BY <1>1, <2>1, <2>2, <2>5, <3>2 DEF Proper
    <2>6. CASE req'.left # 0
      <3>1. /\ WorkloadsOn(req'.cpu) \subseteq WorkloadsOn(req.cpu) \cup {w}
            /\ \A v : v # w => CpusetOf(req'.cpu, v) = CpusetOf(req.cpu, v)
        BY <2>2, <2>3, ClaimIs
      <3> QED
        BY <1>1, <2>1, <2>2, <2>3, <2>6, <3>1 DEF Proper
    <2> QED
      BY <2>5, <2>6
  <1>12. CASE UNCHANGED vars
    BY <1>1, <1>12 DEF vars
  <1> QED
    BY <1>2, <1>3, <1>4, <1>5, <1>6, <1>7, <1>8, <1>9, <1>10, <1>11, <1>12, Steps

\* Nothing is on the CPU at first, and there is no workload.
LEMMA LayoutInit == Init => LayoutInv
  BY EmptyCpuIs DEF Init, LayoutInv, Proper

\* Whichever allocators are combined, whatever they are asked and however the
\* primary one fails, what the workload manager keeps is a layout of its workloads.
THEOREM LayoutFollowsWorkloads == Spec => []LayoutIsOfTheWorkloads
  <1>1. LayoutInv => LayoutIsOfTheWorkloads
    BY DEF LayoutInv, LayoutIsOfTheWorkloads, Proper
  <1> QED
    BY <1>1, InitType, RequestInit, RequestNext, LayoutInit, LayoutNext, PTL DEF Spec



-----------------------------------------------------------------------------
(* StayersAreNotMoved *)

\* The request has the CPU of the workload manager as long as no greedy primary
\* allocator has worked on it, and in the hands of the naive one workloads that
\* stay have the threads they have there, and are not to be assigned again.
StayersInv ==
    machine.primary # "greedy" =>
        /\ pc = "asked" => req.cpu = cpu
        /\ pc = "assigning" /\ req.alloc = "naive" =>
              \A w \in workloads \cap req.workloads :
                 CpusetOf(cpu, w) # {} =>
                    /\ CpusetOf(req.cpu, w) = CpusetOf(cpu, w)
                    /\ w \notin req.todo

\* Every step keeps it.
LEMMA StayersNext == TypeOK /\ StayersInv /\ [Next]_vars => StayersInv'
  <1> SUFFICES ASSUME TypeOK, StayersInv, [Next]_vars, machine.primary # "greedy"
               PROVE  /\ pc' = "asked" => req'.cpu = cpu'
                      /\ pc' = "assigning" /\ req'.alloc = "naive" =>
                            \A w \in workloads' \cap req'.workloads :
                               CpusetOf(cpu', w) # {} =>
                                  /\ CpusetOf(req'.cpu, w) = CpusetOf(cpu', w)
                                  /\ w \notin req'.todo
    BY MachineStays, Primed DEF StayersInv
  <1>1. /\ req \in Requests /\ machine.primary # "greedy"
        /\ req.alloc = IF req.second THEN machine.secondary ELSE machine.primary
        /\ pc = "asked" => req.cpu = cpu
        /\ pc = "assigning" /\ req.alloc = "naive" =>
              \A w \in workloads \cap req.workloads :
                 CpusetOf(cpu, w) # {} =>
                    /\ CpusetOf(req.cpu, w) = CpusetOf(cpu, w)
                    /\ w \notin req.todo
    BY DEF TypeOK, StayersInv
  <1>2. CASE Ask
    BY <1>2, AskIs
  <1>3. CASE Raise /\ (pc = "asked" \/ req.alloc = "greedy")
    BY <1>1, <1>3, RaiseIs
  <1>4. CASE Answer
    BY <1>4, AnswerIs
  <1>5. CASE Noop
    BY <1>5 DEF Noop, Asked
  <1>6. CASE Remote
    BY <1>6, RemoteIs
  <1>7. CASE NaiveBegins
    BY <1>1, <1>7, NaiveBeginsIs, OnTheCpu
  <1>8. CASE NaiveAssigns
    <2>1. /\ pc = "assigning" /\ pc' = "assigning" /\ req.alloc = "naive"
          /\ UNCHANGED <<cpu, workloads>> /\ req'.workloads = req.workloads
      BY <1>8, NaiveAssignsIs
    <2>2. PICK v, ts :
             /\ v \in req.todo
             /\ req'.todo = req.todo \ {v} /\ v \in Containers
             /\ req'.cpu = Claim(req.cpu, v, ts)
      BY <1>8, NaiveAssignsIs
    <2>3. \A w : w # v => CpusetOf(req'.cpu, w) = CpusetOf(req.cpu, w)
      BY <1>1, <2>2, ClaimIs DEF Requests
    <2> QED
      BY <1>1, <2>1, <2>2, <2>3
  <1>9. CASE GreedyBegins \/ GreedyTakes \/ GreedyClaims
    <2>1. pc' = "assigning" /\ req'.alloc = "greedy"
      <3>1. CASE GreedyClaims
        BY <3>1 DEF GreedyClaims, Assigning, TypeOK, Requests
      <3> QED
        BY <1>9, <3>1, GreedyBeginsIs, GreedyTakesIs
    <2> QED
      BY <2>1
  <1>10. CASE UNCHANGED vars
    BY <1>1, <1>10 DEF vars
  <1> QED
    BY <1>2, <1>3, <1>4, <1>5, <1>6, <1>7, <1>8, <1>9, <1>10, Steps

\* At first nothing is asked.
LEMMA StayersInit == Init => StayersInv
  BY DEF Init, StayersInv

\* However often the primary allocator fails, falling back to the naive allocator
\* moves no workload that stays, unless the primary one is the greedy one.
THEOREM FallingBackMovesNothing == Spec => []StayersAreNotMoved
  <1>1. StayersInv => StayersAreNotMoved
    BY DEF StayersInv, StayersAreNotMoved
  <1> QED
    BY <1>1, InitType, RequestInit, RequestNext, StayersInit, StayersNext, PTL DEF Spec


-----------------------------------------------------------------------------
(* SharesWhenFull *)

\* A thread that has a workload is given another one only when no thread is left
\* empty by it.
LEMMA SharesNext ==
    ASSUME TypeOK, [Next]_vars, Assigning("naive"), req.todo # {},
           NEW t \in Threads, req.cpu[t] # {}, req'.cpu[t] # req.cpu[t]
    PROVE  EmptyThreads(req'.cpu) = {}
  <1>1. machine \in Machines /\ req.cpu \in Cpus
    BY DEF TypeOK, Requests
  <1>2. NaiveAssigns
    <2>1. ~ UNCHANGED vars
      BY DEF vars
    <2> QED
      BY <2>1, Steps DEF Assigning, Ask, Answer, Noop, Remote, NaiveBegins, GreedyBegins,
                         GreedyTakes, GreedyClaims, Asked
  <1>3. PICK w, ts :
           /\ w \in req.todo
           /\ ts \in AssignThreads(req.cpu, ThreadCountOf[w])
           /\ w \in Containers /\ ThreadCountOf[w] \in Nat
           /\ req'.cpu = Claim(req.cpu, w, ts)
    BY <1>2, NaiveAssignsIs
  <1>4. PICK n \in Nat : n = ThreadCountOf[w]
    BY <1>3
  <1>5. ts \subseteq EmptyThreads(req.cpu) \/ EmptyThreads(req.cpu) \subseteq ts
    <2>1. ts \in AssignThreads(req.cpu, n)
      BY <1>3, <1>4
    <2> QED
      BY <1>1, <2>1, AssignedThreads
  <1>6. /\ t \in ts
        /\ EmptyThreads(req'.cpu) = EmptyThreads(req.cpu) \ ts
    BY <1>1, <1>3, ClaimIs
  <1>7. t \notin EmptyThreads(req.cpu)
    BY DEF EmptyThreads
  <1> QED
    BY <1>5, <1>6, <1>7

\* The naive allocator lets no thread stay empty when it gives one away twice.
THEOREM EmptyThreadsGoFirst == Spec => SharesWhenFull
  <1>1. TypeOK /\ [Next]_vars =>
          [Assigning("naive") /\ req.todo # {} =>
             \A t \in Threads :
                req.cpu[t] # {} /\ req'.cpu[t] # req.cpu[t] => EmptyThreads(req'.cpu) = {}]_vars
    BY SharesNext
  <1> QED
    BY <1>1, TypeCorrect, PTL DEF Spec, SharesWhenFull


-----------------------------------------------------------------------------
(* ThreadsAsRequested *)

\* A workload has the threads it requests, or all.
HasItsThreads(c, w) ==
    Cardinality(CpusetOf(c, w)) = Min({ThreadCountOf[w], Cardinality(Threads)})

\* Where there is the naive allocator only, workloads have the threads they request
\* on the CPU at all times, and on the one it works on but for those that are to be
\* assigned, which have none.
NaiveInv ==
    {machine.primary, machine.secondary} = {"naive"} =>
        /\ \A w \in workloads : HasItsThreads(cpu, w)
        /\ pc = "assigning" =>
             /\ \A w \in req.todo : CpusetOf(req.cpu, w) = {}
             /\ \A w \in req.workloads \ req.todo : HasItsThreads(req.cpu, w)

\* In the next state it is about the next CPU and workloads.
LEMMA NaivePrimed ==
    ASSUME machine' = machine,
           {machine.primary, machine.secondary} = {"naive"} =>
              /\ \A w \in workloads' : HasItsThreads(cpu', w)
              /\ pc' = "assigning" =>
                   /\ \A w \in req'.todo : CpusetOf(req'.cpu, w) = {}
                   /\ \A w \in req'.workloads \ req'.todo : HasItsThreads(req'.cpu, w)
    PROVE  NaiveInv'
  <1>1. Threads' = Threads /\ ThreadCountOf' = ThreadCountOf
    BY SameMachine
  <1>2. /\ \A w : HasItsThreads(cpu, w)' <=> HasItsThreads(cpu', w)
        /\ \A w : HasItsThreads(req.cpu, w)' <=> HasItsThreads(req'.cpu, w)
        /\ \A w : CpusetOf(req.cpu, w)' = CpusetOf(req'.cpu, w)
    BY <1>1, Primed DEF HasItsThreads
  <1> QED
    BY <1>2 DEF NaiveInv

\* Every step keeps it.
LEMMA NaiveNext ==
    TypeOK /\ LayoutInv /\ StayersInv /\ NaiveInv /\ [Next]_vars => NaiveInv'
  <1> SUFFICES ASSUME TypeOK, LayoutInv, StayersInv, NaiveInv, [Next]_vars,
                      {machine.primary, machine.secondary} = {"naive"}
               PROVE  /\ \A w \in workloads' : HasItsThreads(cpu', w)
                      /\ pc' = "assigning" =>
                           /\ \A w \in req'.todo : CpusetOf(req'.cpu, w) = {}
                           /\ \A w \in req'.workloads \ req'.todo : HasItsThreads(req'.cpu, w)
    BY MachineStays, NaivePrimed
  <1>1. /\ machine \in Machines /\ req \in Requests /\ req.alloc = "naive"
        /\ \A w \in workloads : HasItsThreads(cpu, w)
        /\ pc = "assigning" =>
             /\ \A w \in req.todo : CpusetOf(req.cpu, w) = {}
             /\ \A w \in req.workloads \ req.todo : HasItsThreads(req.cpu, w)
    BY DEF TypeOK, NaiveInv
  <1>2. CASE Ask
    BY <1>1, <1>2, AskIs
  <1>3. CASE Raise
    BY <1>1, <1>3, RaiseIs
  <1>4. CASE Answer
    BY <1>1, <1>4, AnswerIs
  <1>5. CASE Noop \/ Remote \/ GreedyBegins \/ GreedyTakes \/ GreedyClaims
    BY <1>1, <1>5 DEF Noop, Remote, GreedyBegins, GreedyTakes, GreedyClaims, Asked, Assigning
  <1>6. CASE NaiveBegins
    <2>1. /\ pc = "asked" /\ UNCHANGED <<cpu, workloads>>
          /\ req'.workloads = req.workloads
          /\ req'.todo = req.workloads \ WorkloadsOn(req'.cpu)
          /\ \A w \in req.workloads : CpusetOf(req'.cpu, w) = CpusetOf(req.cpu, w)
      BY <1>6, NaiveBeginsIs
    <2>2. req.cpu = cpu /\ WorkloadsOn(cpu) \subseteq workloads
      BY <2>1 DEF StayersInv, LayoutInv, Proper
    <2>3. \A w \in req'.todo : CpusetOf(req'.cpu, w) = {}
      BY <2>1, OnTheCpu
    <2>4. ASSUME NEW w \in req'.workloads \ req'.todo
          PROVE  HasItsThreads(req'.cpu, w)
      <3>1. CpusetOf(req'.cpu, w) = CpusetOf(cpu, w) /\ w \in WorkloadsOn(req'.cpu)
        BY <2>1, <2>2, <2>4
      <3>2. w \in workloads
        BY <2>2, <3>1, OnTheCpu
      <3> QED
        BY <1>1, <3>1, <3>2 DEF HasItsThreads
    <2> QED
      BY <1>1, <2>1, <2>3, <2>4
  <1>7. CASE NaiveAssigns
    <2>1. /\ pc = "assigning" /\ UNCHANGED <<cpu, workloads>> /\ req'.workloads = req.workloads
      BY <1>7, NaiveAssignsIs
    <2>2. PICK v, ts :
             /\ v \in req.todo
             /\ ts \in AssignThreads(req.cpu, ThreadCountOf[v])
             /\ req'.todo = req.todo \ {v}
             /\ v \in Containers /\ ThreadCountOf[v] \in Nat
             /\ req'.cpu = Claim(req.cpu, v, ts)
      BY <1>7, NaiveAssignsIs
    <2>3. PICK n \in Nat : n = ThreadCountOf[v]
      BY <2>2
    <2>4. ts \in SUBSET Threads /\ Cardinality(ts) = Min({n, Cardinality(Threads)})
      <3>1. ts \in AssignThreads(req.cpu, n)
        BY <2>2, <2>3
      <3> QED
        BY <1>1, <3>1, AssignedThreads
    <2>5. /\ CpusetOf(req'.cpu, v) = CpusetOf(req.cpu, v) \cup (ts \cap Threads)
          /\ \A w : w # v => CpusetOf(req'.cpu, w) = CpusetOf(req.cpu, w)
      BY <1>1, <2>2, ClaimIs DEF Requests
    <2>6. CpusetOf(req'.cpu, v) = ts
      BY <1>1, <2>1, <2>2, <2>4, <2>5
    <2>7. HasItsThreads(req'.cpu, v)
      BY <2>3, <2>4, <2>6 DEF HasItsThreads
    <2>8. \A w \in req'.todo : CpusetOf(req'.cpu, w) = {}
      BY <1>1, <2>1, <2>2, <2>5
    <2>9. ASSUME NEW w \in req'.workloads \ req'.todo, w # v
          PROVE  HasItsThreads(req'.cpu, w)
      <3>1. HasItsThreads(req.cpu, w) /\ CpusetOf(req'.cpu, w) = CpusetOf(req.cpu, w)
        BY <1>1, <2>1, <2>2, <2>5, <2>9
      <3> QED
        BY <3>1 DEF HasItsThreads
    <2> QED
      BY <1>1, <2>1, <2>7, <2>8, <2>9
  <1>8. CASE UNCHANGED vars
    BY <1>1, <1>8 DEF vars
  <1> QED
    BY <1>2, <1>3, <1>4, <1>5, <1>6, <1>7, <1>8, Steps

\* At first there is no workload.
LEMMA NaiveInit == Init => NaiveInv
  BY DEF Init, NaiveInv

\* Whatever is added and removed, the naive allocator on its own gives workloads
\* exactly as many threads as they request, up to all the CPU has.
THEOREM NaiveGivesWhatIsRequested == Spec => []ThreadsAsRequested
  <1>1. NaiveInv => ThreadsAsRequested
    BY DEF NaiveInv, ThreadsAsRequested, HasItsThreads
  <1> QED
    BY <1>1, InitType, RequestInit, RequestNext, LayoutInit, LayoutNext,
       StayersInit, StayersNext, NaiveInit, NaiveNext, PTL DEF Spec



-----------------------------------------------------------------------------
(* CrossesOnlyIfItFitsNowhere *)

\* The threads of a package that are empty or the workload's own.
RoomFor(c, w, p) == {t \in PackageThreads(ThisShape, p) : c[t] = {} \/ w \in c[t]}

FitsNowhere(c, w) ==
    \A p \in PackageIds(ThisShape) : Cardinality(RoomFor(c, w, p)) < ThreadCountOf[w]

OnOnePackage(c, w) ==
    \E p \in PackageIds(ThisShape) : CpusetOf(c, w) \subseteq PackageThreads(ThisShape, p)

\* While the greedy allocator works, workloads it has not come to have no thread, and
\* each is on one package or fits into none.  The one it finds threads for has those
\* that are not left to find, and either fits nowhere, or has none yet, or has them
\* all on the package that is being filled, where there is most room for it.
CrossInv ==
    pc = "assigning" /\ req.alloc = "greedy" =>
        /\ \A w \in req.todo : CpusetOf(req.cpu, w) = {}
        /\ \A w \in Containers : OnOnePackage(req.cpu, w) \/ FitsNowhere(req.cpu, w)
        /\ \A w \in req.current :
             /\ Cardinality(CpusetOf(req.cpu, w)) + req.left = ThreadCountOf[w]
             /\ \/ FitsNowhere(req.cpu, w)
                \/ req.package = -1 /\ CpusetOf(req.cpu, w) = {}
                \/ /\ req.package # -1
                   /\ CpusetOf(req.cpu, w) \subseteq PackageThreads(ThisShape, req.package)
                   /\ \A p \in PackageIds(ThisShape) :
                        Cardinality(RoomFor(req.cpu, w, p))
                            <= Cardinality(RoomFor(req.cpu, w, req.package))

\* In the next state it is about the next request.
LEMMA CrossPrimed ==
    ASSUME machine' = machine,
           pc' = "assigning" /\ req'.alloc = "greedy" =>
              /\ \A w \in req'.todo : CpusetOf(req'.cpu, w) = {}
              /\ \A w \in Containers : OnOnePackage(req'.cpu, w) \/ FitsNowhere(req'.cpu, w)
              /\ \A w \in req'.current :
                   /\ Cardinality(CpusetOf(req'.cpu, w)) + req'.left = ThreadCountOf[w]
                   /\ \/ FitsNowhere(req'.cpu, w)
                      \/ req'.package = -1 /\ CpusetOf(req'.cpu, w) = {}
                      \/ /\ req'.package # -1
                         /\ CpusetOf(req'.cpu, w)
                              \subseteq PackageThreads(ThisShape, req'.package)
                         /\ \A p \in PackageIds(ThisShape) :
                              Cardinality(RoomFor(req'.cpu, w, p))
                                  <= Cardinality(RoomFor(req'.cpu, w, req'.package))
    PROVE  CrossInv'
  <1>1. ThisShape' = ThisShape /\ ThreadCountOf' = ThreadCountOf
    BY SameMachine
  <1>2. \A w : CpusetOf(req.cpu, w)' = CpusetOf(req'.cpu, w)
    BY Primed
  <1>3. /\ \A w, p : RoomFor(req.cpu, w, p)' = RoomFor(req'.cpu, w, p)
        /\ \A w : RoomFor(req.cpu, w, req.package)' = RoomFor(req'.cpu, w, req'.package)
    BY <1>1 DEF RoomFor
  <1>4. /\ \A w : FitsNowhere(req.cpu, w)' <=> FitsNowhere(req'.cpu, w)
        /\ \A w : OnOnePackage(req.cpu, w)' <=> OnOnePackage(req'.cpu, w)
    BY <1>1, <1>2, <1>3 DEF FitsNowhere, OnOnePackage
  <1> QED
    BY <1>1, <1>2, <1>3, <1>4 DEF CrossInv

\* Room is a finite number of threads: the empty ones of the package and the
\* workload's own.
LEMMA RoomIs ==
    ASSUME machine \in Machines, NEW c, NEW w, NEW p \in PackageIds(ThisShape)
    PROVE  /\ IsFiniteSet(RoomFor(c, w, p)) /\ Cardinality(RoomFor(c, w, p)) \in Nat
           /\ RoomFor(c, w, p) = (PackageThreads(ThisShape, p) \cap EmptyThreads(c))
                                    \cup (PackageThreads(ThisShape, p) \cap CpusetOf(c, w))
           /\ Cardinality(RoomFor(c, w, p))
                = EmptyOf(c, PackageThreads(ThisShape, p))
                    + Cardinality(ThreadsWithWorkload(c, PackageThreads(ThisShape, p), w))
  <1> DEFINE P == PackageThreads(ThisShape, p)
             E == P \cap EmptyThreads(c)
             O == ThreadsWithWorkload(c, P, w)
  <1>1. P \in SUBSET Threads /\ IsFiniteSet(Threads)
    BY PlacesAreNumbers, MachineFacts
  <1>2. O = P \cap CpusetOf(c, w)
    BY <1>1 DEF ThreadsWithWorkload, CpusetOf
  <1>3. RoomFor(c, w, p) = E \cup O
    BY <1>1 DEF RoomFor, EmptyThreads, ThreadsWithWorkload
  <1>4. E \cap O = {}
    BY DEF EmptyThreads, ThreadsWithWorkload
  <1>5. E \in SUBSET Threads /\ O \in SUBSET Threads
    BY <1>1, <1>2
  <1>6. EmptyOf(c, P) = Cardinality(E)
    BY DEF EmptyOf
  <1> HIDE DEF E, O
  <1>7. IsFiniteSet(E) /\ IsFiniteSet(O) /\ Cardinality(E) \in Nat /\ Cardinality(O) \in Nat
    BY <1>1, <1>5, FS_Subset, FS_CardinalityType
  <1>8. Cardinality(E \cup O) = Cardinality(E) + Cardinality(O)
    <2>1. Cardinality(E \cup O) = Cardinality(E) + Cardinality(O) - Cardinality(E \cap O)
      BY <1>7, FS_Union
    <2> QED
      BY <1>4, <1>7, <2>1, FS_EmptySet
  <1>9. IsFiniteSet(E \cup O) /\ Cardinality(E \cup O) \in Nat
    <2>1. E \cup O \in SUBSET Threads
      BY <1>5
    <2> QED
      BY <1>1, <2>1, FS_Subset, FS_CardinalityType
  <1> QED
    BY <1>2, <1>3, <1>6, <1>8, <1>9 DEF E, O

\* Claiming empty threads for a workload leaves it the room it has, and takes room
\* from others.
LEMMA RoomAfter ==
    ASSUME machine \in Machines, NEW c \in Cpus, NEW w \in Containers,
           NEW ts \in SUBSET EmptyThreads(c), NEW p \in PackageIds(ThisShape)
    PROVE  /\ RoomFor(Claim(c, w, ts), w, p) = RoomFor(c, w, p)
           /\ \A v : Cardinality(RoomFor(Claim(c, w, ts), v, p)) \in Nat
           /\ \A v : v # w => Cardinality(RoomFor(Claim(c, w, ts), v, p))
                                 <= Cardinality(RoomFor(c, v, p))
  <1> DEFINE d == Claim(c, w, ts)
  <1>1. PackageThreads(ThisShape, p) \in SUBSET Threads
    BY PlacesAreNumbers
  <1>2. \A t \in Threads : d[t] = IF t \in ts THEN c[t] \cup {w} ELSE c[t]
    BY DEF Claim
  <1>3. \A t \in ts : c[t] = {}
    BY DEF EmptyThreads
  <1> HIDE DEF d
  <1>4. RoomFor(d, w, p) = RoomFor(c, w, p)
    BY <1>1, <1>2, <1>3 DEF RoomFor
  <1>5. \A v : v # w => RoomFor(d, v, p) \in SUBSET RoomFor(c, v, p)
    BY <1>1, <1>2, <1>3 DEF RoomFor
  <1>6. \A v : Cardinality(RoomFor(d, v, p)) \in Nat
    BY RoomIs
  <1>7. ASSUME NEW v, v # w
        PROVE  Cardinality(RoomFor(d, v, p)) <= Cardinality(RoomFor(c, v, p))
    <2>1. IsFiniteSet(RoomFor(c, v, p))
      BY RoomIs
    <2> QED
      BY <1>5, <1>7, <2>1, FS_Subset
  <1> QED
    BY <1>4, <1>6, <1>7 DEF d

\* So a workload that fits nowhere fits nowhere after that.
LEMMA FitsNowhereAfter ==
    ASSUME machine \in Machines, NEW c \in Cpus, NEW w \in Containers,
           NEW ts \in SUBSET EmptyThreads(c), NEW v \in Containers, FitsNowhere(c, v)
    PROVE  FitsNowhere(Claim(c, w, ts), v)
  <1>1. ThreadCountOf[v] \in Nat
    BY MachineFacts
  <1>2. ASSUME NEW p \in PackageIds(ThisShape)
        PROVE  Cardinality(RoomFor(Claim(c, w, ts), v, p)) < ThreadCountOf[v]
    <2>1. Cardinality(RoomFor(c, v, p)) < ThreadCountOf[v] /\ Cardinality(RoomFor(c, v, p)) \in Nat
      BY RoomIs DEF FitsNowhere
    <2>2. Cardinality(RoomFor(Claim(c, w, ts), v, p)) \in Nat
      BY RoomAfter
    <2>3. Cardinality(RoomFor(Claim(c, w, ts), v, p)) <= Cardinality(RoomFor(c, v, p))
      <3>1. CASE v = w
        BY <2>1, <3>1, RoomAfter
      <3>2. CASE v # w
        BY <3>2, RoomAfter
      <3> QED
        BY <3>1, <3>2
    <2> QED
      BY <1>1, <2>1, <2>2, <2>3
  <1> QED
    BY <1>2 DEF FitsNowhere


\* Empty threads of a package are claimed for the workload that is given threads: its
\* own threads become more by as many as are no longer left to find, and it fits
\* nowhere, or stays on the package where there is most room for it.
LEMMA CrossClaim ==
    ASSUME TypeOK, RequestInv, CrossInv, GreedyClaims,
           NEW w \in Containers, NEW core, NEW ts,
           req.current = {w}, req.left \in 1 .. ThreadCountOf[w], ThreadCountOf[w] \in Nat,
           core = CoreThreads(ThisShape, CurrentPackage, EmptiestCore(req.cpu, CurrentPackage)),
           ts = FirstThreads(core \cap EmptyThreads(req.cpu), req.left),
           NEW c, c = Claim(req.cpu, w, ts)
    PROVE  /\ Cardinality(CpusetOf(c, w)) + (req.left - Cardinality(ts)) = ThreadCountOf[w]
           /\ CurrentPackage \in PackageIds(ThisShape)
           /\ \/ FitsNowhere(c, w)
              \/ /\ CpusetOf(c, w) \subseteq PackageThreads(ThisShape, CurrentPackage)
                 /\ \A p \in PackageIds(ThisShape) :
                      Cardinality(RoomFor(c, w, p))
                          <= Cardinality(RoomFor(c, w, CurrentPackage))
  <1> DEFINE Q == CurrentPackage
             P == req.package
  <1>1. /\ machine \in Machines /\ req \in Requests /\ req.cpu \in Cpus
        /\ P \in {-1} \cup PackageIds(ThisShape) /\ req.left \in Nat /\ req.left > 0
        /\ pc = "assigning" /\ req.alloc = "greedy"
    BY DEF TypeOK, Requests, GreedyClaims, Assigning
  <1>2. /\ Cardinality(CpusetOf(req.cpu, w)) + req.left = ThreadCountOf[w]
        /\ \/ FitsNowhere(req.cpu, w)
           \/ P = -1 /\ CpusetOf(req.cpu, w) = {}
           \/ /\ P # -1
              /\ CpusetOf(req.cpu, w) \subseteq PackageThreads(ThisShape, P)
              /\ \A p \in PackageIds(ThisShape) :
                   Cardinality(RoomFor(req.cpu, w, p)) <= Cardinality(RoomFor(req.cpu, w, P))
    BY <1>1 DEF CrossInv
  <1>3. /\ Q \in PackageIds(ThisShape)
        /\ core \in SUBSET PackageThreads(ThisShape, Q) /\ core \in SUBSET Threads
        /\ ts \in SUBSET (core \cap EmptyThreads(req.cpu))
        /\ IsFiniteSet(ts) /\ Cardinality(ts) \in 0 .. req.left
        /\ \/ Q = P
           \/ /\ P # -1 => EmptyOf(req.cpu, PackageThreads(ThisShape, P)) = 0
              /\ \A p \in PackageIds(ThisShape) :
                   EmptyOf(req.cpu, PackageThreads(ThisShape, p))
                      <= EmptyOf(req.cpu, PackageThreads(ThisShape, Q))
    BY <1>1, ClaimedNext
  <1>4. /\ ts \in SUBSET EmptyThreads(req.cpu) /\ ts \in SUBSET Threads
        /\ ts \subseteq PackageThreads(ThisShape, Q)
    BY <1>3
  <1>5. CpusetOf(c, w) = CpusetOf(req.cpu, w) \cup ts
    <2>1. ts \cap Threads = ts
      BY <1>4
    <2>2. CpusetOf(c, w) = CpusetOf(req.cpu, w) \cup (ts \cap Threads)
      BY <1>1, ClaimIs
    <2> QED
      BY <2>1, <2>2
  <1>6. \A p \in PackageIds(ThisShape) : RoomFor(c, w, p) = RoomFor(req.cpu, w, p)
    BY <1>1, <1>4, RoomAfter
  <1> HIDE DEF Q, P
  <1>7. Cardinality(CpusetOf(c, w)) + (req.left - Cardinality(ts)) = ThreadCountOf[w]
    <2>1. CpusetOf(req.cpu, w) \in SUBSET Threads /\ IsFiniteSet(Threads)
      BY <1>1, OnTheCpu, MachineFacts
    <2>2. IsFiniteSet(CpusetOf(req.cpu, w)) /\ Cardinality(CpusetOf(req.cpu, w)) \in Nat
      BY <2>1, FS_Subset, FS_CardinalityType
    <2>3. CpusetOf(req.cpu, w) \cap ts = {}
      BY <1>4 DEF CpusetOf, EmptyThreads
    <2>4. Cardinality(CpusetOf(c, w)) = Cardinality(CpusetOf(req.cpu, w)) + Cardinality(ts)
      <3>1. PICK o : o = CpusetOf(req.cpu, w)
        OBVIOUS
      <3>2. IsFiniteSet(o) /\ o \cap ts = {} /\ Cardinality(o) \in Nat
        BY <2>2, <2>3, <3>1
      <3>3. Cardinality(o \cup ts) = Cardinality(o) + Cardinality(ts) - Cardinality(o \cap ts)
        BY <1>3, <3>2, FS_Union
      <3>4. Cardinality(o \cup ts) = Cardinality(o) + Cardinality(ts)
        <4>1. Cardinality(o \cap ts) = 0 /\ Cardinality(ts) \in Nat
          BY <1>3, <3>2, FS_EmptySet, FS_CardinalityType
        <4> QED
          BY <3>2, <3>3, <4>1
      <3> QED
        BY <1>5, <3>1, <3>4
    <2> QED
      BY <1>1, <1>2, <1>3, <2>2, <2>4
  <1>8. CASE FitsNowhere(req.cpu, w)
    <2>1. FitsNowhere(c, w)
      BY <1>6, <1>8 DEF FitsNowhere
    <2> QED
      BY <1>3, <1>7, <2>1 DEF Q
  <1>9. CASE P = -1 /\ CpusetOf(req.cpu, w) = {}
    <2>1. CpusetOf(c, w) \subseteq PackageThreads(ThisShape, Q)
      BY <1>4, <1>5, <1>9
    <2>2. \A p \in PackageIds(ThisShape) :
             EmptyOf(req.cpu, PackageThreads(ThisShape, p))
                <= EmptyOf(req.cpu, PackageThreads(ThisShape, Q))
      BY <1>1, <1>3, <1>9, PlacesAreNumbers
    <2>3. \A p \in PackageIds(ThisShape) :
             Cardinality(RoomFor(c, w, p)) = EmptyOf(req.cpu, PackageThreads(ThisShape, p))
      <3> TAKE p \in PackageIds(ThisShape)
      <3>1. RoomFor(req.cpu, w, p) = PackageThreads(ThisShape, p) \cap EmptyThreads(req.cpu)
        BY <1>1, <1>9, RoomIs
      <3> QED
        BY <1>6, <3>1 DEF EmptyOf
    <2> QED
      BY <1>3, <1>7, <2>1, <2>2, <2>3 DEF Q
  <1>10. CASE /\ P # -1
              /\ CpusetOf(req.cpu, w) \subseteq PackageThreads(ThisShape, P)
              /\ \A p \in PackageIds(ThisShape) :
                   Cardinality(RoomFor(req.cpu, w, p)) <= Cardinality(RoomFor(req.cpu, w, P))
    <2>1. P \in PackageIds(ThisShape)
      BY <1>1, <1>10
    <2>2. CASE Q = P
      <3>1. CpusetOf(c, w) \subseteq PackageThreads(ThisShape, Q)
        BY <1>4, <1>5, <1>10, <2>2
      <3>2. \A p \in PackageIds(ThisShape) :
               Cardinality(RoomFor(c, w, p)) <= Cardinality(RoomFor(c, w, Q))
        BY <1>6, <1>10, <2>1, <2>2
      <3> QED
        BY <1>3, <1>7, <3>1, <3>2 DEF Q
    <2>3. CASE Q # P
      <3>1. PackageThreads(ThisShape, P) \cap EmptyThreads(req.cpu) = {}
        BY <1>1, <1>3, <1>10, <2>3, EmptyIsANumber
      <3>2. RoomFor(req.cpu, w, P) = CpusetOf(req.cpu, w)
        <4>1. RoomFor(req.cpu, w, P)
                = (PackageThreads(ThisShape, P) \cap EmptyThreads(req.cpu))
                    \cup (PackageThreads(ThisShape, P) \cap CpusetOf(req.cpu, w))
          BY <1>1, <2>1, RoomIs
        <4>2. CpusetOf(req.cpu, w) \subseteq PackageThreads(ThisShape, P)
          BY <1>10
        <4> QED
          BY <3>1, <4>1, <4>2
      <3>3. Cardinality(RoomFor(req.cpu, w, P)) < ThreadCountOf[w]
        <4>1. Cardinality(RoomFor(req.cpu, w, P)) \in Nat
          BY <1>1, <2>1, RoomIs
        <4> QED
          BY <1>1, <1>2, <3>2, <4>1
      <3>4. FitsNowhere(c, w)
        <4>1. \A p \in PackageIds(ThisShape) : Cardinality(RoomFor(req.cpu, w, p)) \in Nat
          BY <1>1, RoomIs
        <4> QED
          BY <1>6, <1>10, <2>1, <3>3, <4>1 DEF FitsNowhere
      <3> QED
        BY <1>3, <1>7, <3>4 DEF Q
    <2> QED
      BY <2>2, <2>3
  <1> QED
    BY <1>2, <1>8, <1>9, <1>10

\* Every step keeps it.
LEMMA CrossNext == TypeOK /\ RequestInv /\ CrossInv /\ [Next]_vars => CrossInv'
  <1> SUFFICES ASSUME TypeOK, RequestInv, CrossInv, [Next]_vars,
                      pc' = "assigning", req'.alloc = "greedy"
               PROVE  /\ \A w \in req'.todo : CpusetOf(req'.cpu, w) = {}
                      /\ \A w \in Containers :
                            OnOnePackage(req'.cpu, w) \/ FitsNowhere(req'.cpu, w)
                      /\ \A w \in req'.current :
                           /\ Cardinality(CpusetOf(req'.cpu, w)) + req'.left = ThreadCountOf[w]
                           /\ \/ FitsNowhere(req'.cpu, w)
                              \/ req'.package = -1 /\ CpusetOf(req'.cpu, w) = {}
                              \/ /\ req'.package # -1
                                 /\ CpusetOf(req'.cpu, w)
                                      \subseteq PackageThreads(ThisShape, req'.package)
                                 /\ \A p \in PackageIds(ThisShape) :
                                      Cardinality(RoomFor(req'.cpu, w, p))
                                         <= Cardinality(RoomFor(req'.cpu, w, req'.package))
    BY MachineStays, CrossPrimed
  <1>1. /\ machine \in Machines /\ req \in Requests /\ req.cpu \in Cpus
        /\ req.todo \cap req.current = {} /\ req.todo \in SUBSET Containers
        /\ ThreadCountOf \in [Containers -> Nat]
    BY MachineFacts DEF TypeOK, Requests
  <1>2. PICK p0 \in PackageIds(ThisShape) : TRUE
    BY <1>1, PlacesAreNumbers
  <1>3. pc = "assigning" /\ req.alloc = "greedy" =>
          /\ \A w \in req.todo : CpusetOf(req.cpu, w) = {}
          /\ \A w \in Containers : OnOnePackage(req.cpu, w) \/ FitsNowhere(req.cpu, w)
    BY DEF CrossInv
  <1>4. CASE GreedyBegins
    <2>1. req'.cpu = EmptyCpu /\ req'.current = {}
      BY <1>4, GreedyBeginsIs DEF RequestInv
    <2>2. \A w : CpusetOf(req'.cpu, w) = {}
      BY <2>1, EmptyCpuIs
    <2>3. \A w : OnOnePackage(req'.cpu, w)
      BY <1>2, <2>2 DEF OnOnePackage
    <2> QED
      BY <2>1, <2>2, <2>3
  <1>5. CASE GreedyTakes
    <2>1. /\ pc = "assigning" /\ req.alloc = "greedy" /\ req'.cpu = req.cpu
      BY <1>5, GreedyTakesIs
    <2>2. PICK w \in req.todo :
             /\ w \in Containers /\ ThreadCountOf[w] \in Nat
             /\ req'.todo = req.todo \ {w}
             /\ req'.left = ThreadCountOf[w] /\ req'.package = -1
             /\ req'.current \subseteq {w}
      BY <1>5, GreedyTakesIs
    <2>3. CpusetOf(req'.cpu, w) = {}
      BY <1>3, <2>1
    <2>4. Cardinality(CpusetOf(req'.cpu, w)) + req'.left = ThreadCountOf[w]
      BY <2>2, <2>3, FS_EmptySet
    <2> QED
      BY <1>3, <2>1, <2>2, <2>3, <2>4
  <1>6. CASE GreedyClaims
    <2>1. /\ pc = "assigning" /\ req.alloc = "greedy"
          /\ req'.todo = req.todo /\ req'.package = CurrentPackage
      BY <1>6, GreedyClaimsIs
    <2>2. PICK w, core, ts :
             /\ w \in Containers
             /\ req.current = {w} /\ w \notin req.todo
             /\ req.left \in 1 .. ThreadCountOf[w] /\ ThreadCountOf[w] \in Nat
             /\ core = CoreThreads(ThisShape, CurrentPackage,
                                   EmptiestCore(req.cpu, CurrentPackage))
             /\ ts = FirstThreads(core \cap EmptyThreads(req.cpu), req.left)
             /\ req'.cpu = Claim(req.cpu, w, ts)
             /\ req'.left = req.left - Cardinality(ts)
             /\ req'.current \subseteq {w}
      BY <1>6, GreedyClaimsIs
    <2>3. ts \in SUBSET EmptyThreads(req.cpu)
      BY <1>1, <2>2, ClaimedNext
    <2>4. \A v : v # w => CpusetOf(req'.cpu, v) = CpusetOf(req.cpu, v)
      BY <1>1, <2>2, ClaimIs
    <2>5. /\ Cardinality(CpusetOf(req'.cpu, w)) + req'.left = ThreadCountOf[w]
          /\ CurrentPackage \in PackageIds(ThisShape)
          /\ \/ FitsNowhere(req'.cpu, w)
             \/ /\ CpusetOf(req'.cpu, w) \subseteq PackageThreads(ThisShape, CurrentPackage)
                /\ \A p \in PackageIds(ThisShape) :
                     Cardinality(RoomFor(req'.cpu, w, p))
                         <= Cardinality(RoomFor(req'.cpu, w, CurrentPackage))
      <3>1. PICK c : c = req'.cpu
        OBVIOUS
      <3>2. c = Claim(req.cpu, w, ts)
        BY <2>2, <3>1
      <3>3. /\ Cardinality(CpusetOf(c, w)) + (req.left - Cardinality(ts)) = ThreadCountOf[w]
            /\ CurrentPackage \in PackageIds(ThisShape)
            /\ \/ FitsNowhere(c, w)
               \/ /\ CpusetOf(c, w) \subseteq PackageThreads(ThisShape, CurrentPackage)
                  /\ \A p \in PackageIds(ThisShape) :
                       Cardinality(RoomFor(c, w, p))
                           <= Cardinality(RoomFor(c, w, CurrentPackage))
        BY <1>6, <2>2, <3>2, CrossClaim
      <3> QED
        BY <2>2, <3>1, <3>3
    <2>6. \A v \in req'.todo : CpusetOf(req'.cpu, v) = {}
      BY <1>3, <2>1, <2>2, <2>4
    <2>7. ASSUME NEW v \in Containers
          PROVE  OnOnePackage(req'.cpu, v) \/ FitsNowhere(req'.cpu, v)
      <3>1. CASE v = w
        BY <2>5, <3>1 DEF OnOnePackage
      <3>2. CASE v # w
        <4>1. CpusetOf(req'.cpu, v) = CpusetOf(req.cpu, v)
          BY <2>4, <3>2
        <4>2. OnOnePackage(req.cpu, v) => OnOnePackage(req'.cpu, v)
          BY <4>1 DEF OnOnePackage
        <4>3. FitsNowhere(req.cpu, v) => FitsNowhere(req'.cpu, v)
          <5>1. FitsNowhere(req.cpu, v) => FitsNowhere(Claim(req.cpu, w, ts), v)
            BY <1>1, <2>2, <2>3, <2>7, FitsNowhereAfter
          <5> QED
            BY <2>2, <5>1
        <4> QED
          BY <1>3, <2>1, <2>7, <4>2, <4>3
      <3> QED
        BY <3>1, <3>2
    <2>8. CurrentPackage # -1
      BY <1>1, <2>5, PlacesAreNumbers
    <2> QED
      BY <2>1, <2>2, <2>5, <2>6, <2>7, <2>8
  <1>7. CASE UNCHANGED vars
    <2>1. pc' = pc /\ req' = req
      BY <1>7 DEF vars
    <2> QED
      BY <2>1 DEF CrossInv
  <1>8. CASE Ask \/ Answer \/ Noop \/ Remote \/ NaiveBegins \/ NaiveAssigns \/ Raise
    <2>1. CASE Ask \/ Answer \/ Raise
      BY <2>1, AskIs, AnswerIs, RaiseIs
    <2>2. CASE Noop
      BY <2>2 DEF Noop, Asked
    <2>3. CASE Remote \/ NaiveBegins \/ NaiveAssigns
      BY <2>3, RemoteIs, NaiveBeginsIs, NaiveAssignsIs
    <2> QED
      BY <1>8, <2>1, <2>2, <2>3
  <1> QED
    BY <1>4, <1>5, <1>6, <1>7, <1>8, Steps

\* At first no allocator works.
LEMMA CrossInit == Init => CrossInv
  BY DEF Init, CrossInv

\* A workload is on several packages only where it is not on one of them, and so
\* when none had enough empty threads for it.
LEMMA CrossImplies == TypeOK /\ CrossInv => CrossesOnlyIfItFitsNowhere
  <1> SUFFICES ASSUME TypeOK, CrossInv, pc = "assigning", req.alloc = "greedy",
                      NEW w \in CrossPackageViolations(ThisShape, req.cpu),
                      NEW p \in PackageIds(ThisShape)
               PROVE  EmptyOf(req.cpu, PackageThreads(ThisShape, p))
                        + Cardinality(ThreadsWithWorkload(req.cpu,
                                                          PackageThreads(ThisShape, p), w))
                        < ThreadCountOf[w]
    BY DEF CrossesOnlyIfItFitsNowhere
  <1>1. machine \in Machines /\ req.cpu \in Cpus
    BY DEF TypeOK, Requests
  <1>2. /\ w \in UNION {req.cpu[t] : t \in Threads}
        /\ Cardinality(PackagesWithWorkload(ThisShape, req.cpu, w)) > 1
    BY DEF CrossPackageViolations, Threads
  <1>3. w \in Containers
    BY <1>1, <1>2 DEF Cpus
  <1>4. ~ OnOnePackage(req.cpu, w)
    <2> SUFFICES ASSUME NEW q \in PackageIds(ThisShape),
                        CpusetOf(req.cpu, w) \subseteq PackageThreads(ThisShape, q)
                 PROVE  FALSE
      BY DEF OnOnePackage
    <2>1. ASSUME NEW r \in PackagesWithWorkload(ThisShape, req.cpu, w)
          PROVE  r = q
      <3>1. r \in PackageIds(ThisShape)
        BY DEF PackagesWithWorkload
      <3>2. PICK t \in PackageThreads(ThisShape, r) : w \in req.cpu[t]
        BY DEF PackagesWithWorkload, ThreadsWithWorkload
      <3>3. t \in Threads
        BY <1>1, <3>1, PlacesAreNumbers
      <3>4. t \in PackageThreads(ThisShape, q)
        BY <3>2, <3>3 DEF CpusetOf
      <3> QED
        BY <1>1, <3>1, <3>4, PlacesAreNumbers
    <2>2. PackagesWithWorkload(ThisShape, req.cpu, w) \in SUBSET {q}
      BY <2>1
    <2>3. PackagesWithWorkload(ThisShape, req.cpu, w) = {}
            \/ PackagesWithWorkload(ThisShape, req.cpu, w) = {q}
      BY <2>2
    <2>4. Cardinality({q}) = 1 /\ Cardinality({}) = 0
      BY FS_Singleton, FS_EmptySet
    <2> QED
      BY <1>2, <2>3, <2>4
  <1>5. Cardinality(RoomFor(req.cpu, w, p)) < ThreadCountOf[w]
    BY <1>3, <1>4 DEF CrossInv, FitsNowhere
  <1> QED
    BY <1>1, <1>5, RoomIs

\* On every shape of CPU the greedy allocator spreads a workload over packages only
\* when it fits into none.
THEOREM GreedyFillsPackages == Spec => []CrossesOnlyIfItFitsNowhere
  <1> QED
    BY InitType, RequestInit, RequestNext, CrossInit, CrossNext, CrossImplies, PTL DEF Spec


-----------------------------------------------------------------------------
(* SharesCoresWhenNoneIsEmpty *)

\* No core of the package is empty.
NoCoreIsEmpty(c, p) ==
    \A k \in CoreIds(ThisShape) :
        EmptyOf(c, CoreThreads(ThisShape, p, k)) < Cardinality(CoreThreads(ThisShape, p, k))

\* The property, of any CPU.
SharedInv ==
    pc = "assigning" /\ req.alloc = "greedy" =>
        \A key \in SharedCoreViolations(ThisShape, req.cpu) : NoCoreIsEmpty(req.cpu, key[1])

\* It is the property.
LEMMA SharedIs == SharedInv <=> SharesCoresWhenNoneIsEmpty
  BY DEF SharedInv, SharesCoresWhenNoneIsEmpty, NoCoreIsEmpty

\* In the next state it is about the next request.
LEMMA SharedPrimed ==
    ASSUME machine' = machine,
           pc' = "assigning" /\ req'.alloc = "greedy" =>
              \A key \in SharedCoreViolations(ThisShape, req'.cpu) :
                 NoCoreIsEmpty(req'.cpu, key[1])
    PROVE  SharedInv'
  <1>1. ThisShape' = ThisShape /\ Threads' = Threads
    BY SameMachine
  <1>2. SharedCoreViolations(ThisShape, req.cpu)' = SharedCoreViolations(ThisShape, req'.cpu)
    BY <1>1
  <1>3. \A ts : EmptyOf(req.cpu, ts)' = EmptyOf(req'.cpu, ts)
    BY <1>1 DEF EmptyOf, EmptyThreads
  <1>4. \A p : NoCoreIsEmpty(req.cpu, p)' <=> NoCoreIsEmpty(req'.cpu, p)
    BY <1>1, <1>3 DEF NoCoreIsEmpty
  <1> QED
    BY <1>2, <1>4 DEF SharedInv

\* Claiming threads makes no core empty.
LEMMA NoCoreIsEmptyAfter ==
    ASSUME machine \in Machines, NEW c \in Cpus, NEW w \in Containers,
           NEW ts, NEW p \in PackageIds(ThisShape), NoCoreIsEmpty(c, p)
    PROVE  NoCoreIsEmpty(Claim(c, w, ts), p)
  <1> DEFINE d == Claim(c, w, ts)
  <1>1. EmptyThreads(d) = EmptyThreads(c) \ ts
    BY ClaimIs
  <1> HIDE DEF d
  <1>2. ASSUME NEW k \in CoreIds(ThisShape)
        PROVE  EmptyOf(d, CoreThreads(ThisShape, p, k))
                  < Cardinality(CoreThreads(ThisShape, p, k))
    <2>1. PICK core : core = CoreThreads(ThisShape, p, k)
      OBVIOUS
    <2>2. EmptyOf(c, core) < Cardinality(core)
      BY <2>1 DEF NoCoreIsEmpty
    <2>3. core \in SUBSET Threads /\ IsFiniteSet(Threads)
      BY <2>1, PlacesAreNumbers, MachineFacts
    <2>4. core \cap EmptyThreads(d) \in SUBSET (core \cap EmptyThreads(c))
      BY <1>1
    <2>5. IsFiniteSet(core \cap EmptyThreads(c)) /\ IsFiniteSet(core)
      BY <2>3, FS_Subset
    <2>6. EmptyOf(d, core) <= EmptyOf(c, core)
      BY <2>4, <2>5, FS_Subset DEF EmptyOf
    <2>7. EmptyOf(d, core) \in Nat /\ EmptyOf(c, core) \in Nat /\ Cardinality(core) \in Nat
      <3>1. Cardinality(Threads) \in Nat
        BY MachineFacts
      <3>2. EmptyOf(d, core) \in Nat /\ EmptyOf(c, core) \in Nat
        <4>1. \A us : EmptyOf(d, us) \in 0 .. Cardinality(Threads)
          BY EmptyIsANumber
        <4>2. \A us : EmptyOf(c, us) \in 0 .. Cardinality(Threads)
          BY EmptyIsANumber
        <4> QED
          BY <3>1, <4>1, <4>2
      <3> QED
        BY <2>5, <3>2, FS_CardinalityType
    <2> QED
      BY <2>1, <2>2, <2>6, <2>7
  <1> QED
    BY <1>2 DEF NoCoreIsEmpty, d

\* A core that is claimed from and was not empty is the emptiest of its package, so
\* that none of them was.
LEMMA EmptiestIsTaken ==
    ASSUME machine \in Machines, NEW c, NEW p \in PackageIds(ThisShape),
           NEW t \in CoreThreads(ThisShape, p, EmptiestCore(c, p)), c[t] # {}
    PROVE  NoCoreIsEmpty(c, p)
  <1>1. PICK core : core = CoreThreads(ThisShape, p, EmptiestCore(c, p))
    OBVIOUS
  <1>2. EmptiestCore(c, p) \in CoreIds(ThisShape)
    BY Emptiest
  <1>3. PICK n : n = ThisShape.threads
    OBVIOUS
  <1>4. \A k \in CoreIds(ThisShape) : Cardinality(CoreThreads(ThisShape, p, k)) = n
    BY <1>3, MachineFacts, Cores
  <1>5. core \in SUBSET Threads /\ IsFiniteSet(core) /\ Cardinality(core) = n
    BY <1>1, <1>2, <1>4, PlacesAreNumbers, MachineFacts, FS_Subset
  <1>6. Cardinality(core) \in Nat
    BY <1>5, FS_CardinalityType
  <1>7. EmptyOf(c, core) < n
    <2>1. /\ core \cap EmptyThreads(c) \in SUBSET core
          /\ core \cap EmptyThreads(c) # core
      BY <1>1 DEF EmptyThreads
    <2>2. Cardinality(core \cap EmptyThreads(c)) < Cardinality(core)
      <3>1. /\ Cardinality(core \cap EmptyThreads(c)) <= Cardinality(core)
            /\ Cardinality(core \cap EmptyThreads(c)) = Cardinality(core)
                 => core \cap EmptyThreads(c) = core
        BY <1>5, <2>1, FS_Subset
      <3>2. Cardinality(core \cap EmptyThreads(c)) \in Nat
        BY <1>5, <2>1, FS_Subset, FS_CardinalityType
      <3> QED
        BY <1>6, <2>1, <3>1, <3>2
    <2> QED
      BY <1>5, <2>2 DEF EmptyOf
  <1>8. ASSUME NEW k \in CoreIds(ThisShape)
        PROVE  EmptyOf(c, CoreThreads(ThisShape, p, k))
                  < Cardinality(CoreThreads(ThisShape, p, k))
    <2>1. EmptyOf(c, CoreThreads(ThisShape, p, k)) <= EmptyOf(c, core)
      BY <1>1, Emptiest
    <2>2. /\ EmptyOf(c, CoreThreads(ThisShape, p, k)) \in Int
          /\ EmptyOf(c, core) \in Int /\ n \in Int
      BY <1>5, <1>6, MachineFacts, EmptyIsANumber
    <2> QED
      BY <1>4, <1>7, <2>1, <2>2
  <1> QED
    BY <1>8 DEF NoCoreIsEmpty

\* Every step keeps it.
LEMMA SharedNext == TypeOK /\ RequestInv /\ SharedInv /\ [Next]_vars => SharedInv'
  <1> SUFFICES ASSUME TypeOK, RequestInv, SharedInv, [Next]_vars,
                      pc' = "assigning", req'.alloc = "greedy",
                      NEW key \in SharedCoreViolations(ThisShape, req'.cpu)
               PROVE  NoCoreIsEmpty(req'.cpu, key[1])
    BY MachineStays, SharedPrimed
  <1>1. machine \in Machines /\ req \in Requests /\ req.cpu \in Cpus
    BY DEF TypeOK, Requests
  <1>2. PICK p \in PackageIds(ThisShape), k \in CoreIds(ThisShape) : key = <<p, k>>
    BY DEF SharedCoreViolations
  <1>3. PICK core : core = CoreThreads(ThisShape, p, k)
    OBVIOUS
  <1>4. Cardinality(UNION {req'.cpu[t] : t \in core}) > 1 /\ key[1] = p /\ core \in SUBSET Threads
    BY <1>1, <1>2, <1>3, PlacesAreNumbers DEF SharedCoreViolations
  <1>5. ASSUME \A t \in core : req'.cpu[t] = req.cpu[t], pc = "assigning", req.alloc = "greedy"
        PROVE  NoCoreIsEmpty(req.cpu, p)
    <2>1. {req'.cpu[t] : t \in core} = {req.cpu[t] : t \in core}
      BY <1>5
    <2>2. key \in SharedCoreViolations(ThisShape, req.cpu)
      BY <1>2, <1>3, <1>4, <2>1 DEF SharedCoreViolations
    <2> QED
      BY <1>4, <1>5, <2>2 DEF SharedInv
  <1>6. CASE GreedyBegins
    <2>1. \A t \in core : req'.cpu[t] = {}
      BY <1>4, <1>6, GreedyBeginsIs DEF EmptyCpu
    <2>2. UNION {req'.cpu[t] : t \in core} = {}
      BY <2>1
    <2>3. Cardinality({}) = 0
      BY FS_EmptySet
    <2>4. Cardinality(UNION {req'.cpu[t] : t \in core}) = 0
      BY <2>2, <2>3
    <2> QED
      BY <1>4, <2>4
  <1>7. CASE GreedyTakes
    <2>1. pc = "assigning" /\ req.alloc = "greedy" /\ req'.cpu = req.cpu
      BY <1>7, GreedyTakesIs
    <2> QED
      BY <1>4, <1>5, <2>1
  <1>8. CASE GreedyClaims
    <2>1. pc = "assigning" /\ req.alloc = "greedy"
      BY <1>8, GreedyClaimsIs
    <2>2. PICK w, c, ts :
             /\ w \in Containers
             /\ c = CoreThreads(ThisShape, CurrentPackage,
                                EmptiestCore(req.cpu, CurrentPackage))
             /\ ts = FirstThreads(c \cap EmptyThreads(req.cpu), req.left)
             /\ req'.cpu = Claim(req.cpu, w, ts)
      BY <1>8, GreedyClaimsIs
    <2>3. /\ CurrentPackage \in PackageIds(ThisShape)
          /\ EmptiestCore(req.cpu, CurrentPackage) \in CoreIds(ThisShape)
          /\ c \in SUBSET Threads
          /\ ts \in SUBSET (c \cap EmptyThreads(req.cpu))
      BY <1>1, <2>2, ClaimedNext
    <2>4. \A t \in Threads : req'.cpu[t] = IF t \in ts THEN req.cpu[t] \cup {w} ELSE req.cpu[t]
      BY <2>2 DEF Claim
    <2>5. NoCoreIsEmpty(req.cpu, p)
      <3>1. CASE p = CurrentPackage /\ k = EmptiestCore(req.cpu, CurrentPackage)
        <4>1. core = c
          BY <1>3, <2>2, <3>1
        <4>2. CASE \E t \in core : req.cpu[t] # {}
          <5>1. PICK t \in core : req.cpu[t] # {}
            BY <4>2
          <5>2. t \in CoreThreads(ThisShape, p, EmptiestCore(req.cpu, p))
            BY <1>3, <3>1, <5>1
          <5> QED
            BY <1>1, <5>1, <5>2, EmptiestIsTaken
        <4>3. CASE \A t \in core : req.cpu[t] = {}
          <5>1. \A t \in core : req'.cpu[t] \in SUBSET {w}
            BY <1>4, <2>4, <4>3
          <5>2. PICK on : on = UNION {req'.cpu[t] : t \in core}
            OBVIOUS
          <5>3. on = {} \/ on = {w}
            BY <5>1, <5>2
          <5>4. Cardinality({}) = 0 /\ Cardinality({w}) = 1
            BY FS_EmptySet, FS_Singleton
          <5>5. Cardinality(on) > 1
            BY <1>4, <5>2
          <5> QED
            BY <5>3, <5>4, <5>5
        <4> QED
          BY <4>2, <4>3
      <3>2. CASE ~ (p = CurrentPackage /\ k = EmptiestCore(req.cpu, CurrentPackage))
        <4>1. core \cap c = {}
          BY <1>1, <1>3, <2>2, <2>3, <3>2, MachineFacts, Cores
        <4>2. \A t \in core : req'.cpu[t] = req.cpu[t]
          BY <1>4, <2>3, <2>4, <4>1
        <4> QED
          BY <1>5, <2>1, <4>2
      <3> QED
        BY <3>1, <3>2
    <2> QED
      BY <1>1, <1>4, <2>2, <2>5, NoCoreIsEmptyAfter
  <1>9. CASE UNCHANGED vars
    <2>1. pc' = pc /\ req' = req
      BY <1>9 DEF vars
    <2> QED
      BY <1>4, <1>5, <2>1
  <1>10. CASE Ask \/ Answer \/ Noop \/ Remote \/ NaiveBegins \/ NaiveAssigns \/ Raise
    <2>1. CASE Ask \/ Answer \/ Raise
      BY <2>1, AskIs, AnswerIs, RaiseIs
    <2>2. CASE Noop
      BY <2>2 DEF Noop, Asked
    <2>3. CASE Remote \/ NaiveBegins \/ NaiveAssigns
      BY <2>3, RemoteIs, NaiveBeginsIs, NaiveAssignsIs
    <2> QED
      BY <1>10, <2>1, <2>2, <2>3
  <1> QED
    BY <1>6, <1>7, <1>8, <1>9, <1>10, Steps

\* At first no allocator works.
LEMMA SharedInit == Init => SharedInv
  BY DEF Init, SharedInv

\* On every shape of CPU the greedy allocator has workloads share a core only when no
\* core of that package is empty.
THEOREM GreedySharesLast == Spec => []SharesCoresWhenNoneIsEmpty
  <1> QED
    BY InitType, RequestInit, RequestNext, SharedInit, SharedNext, SharedIs, PTL DEF Spec

-----------------------------------------------------------------------------
(* The ids of a workload's threads, to the remote service and back *)

\* The thread the workload has is one of the CPU, and the index on its way, if any,
\* stands for a thread of the same core.
IndexingInv ==
    /\ shape \in Shapes
    /\ id \in ThreadIds(shape)
    /\ index # None =>
         /\ index \in 0 .. ThreadCount(shape) - 1
         /\ \A p \in PackageIds(shape), c \in CoreIds(shape) :
              id \in CoreThreads(shape, p, c)
                  <=> Natural2Original(shape)[index] \in CoreThreads(shape, p, c)

\* No index is on its way at first.
LEMMA IndexingInvInit == IndexingInit => IndexingInv
  BY DEF IndexingInit, IndexingInv

\* The threads are numbered from 0, so that the invariant says what the types are.
LEMMA IndexingInvType == IndexingInv => IndexingTypeOK /\ shape \in CpuShapes
  <1> SUFFICES ASSUME IndexingInv PROVE IndexingTypeOK /\ shape \in CpuShapes
    OBVIOUS
  <1>1. shape \in CpuShapes
    BY ShapesOfCpus DEF IndexingInv
  <1>2. ThreadIds(shape) = 0 .. ThreadCount(shape) - 1
    BY <1>1, IdsHaveNoGap
  <1> QED
    BY <1>1, <1>2 DEF IndexingInv, IndexingTypeOK

\* The natural index of a thread stands for it.
LEMMA OriginalIsNatural ==
    ASSUME NEW d \in CpuShapes, NEW n \in ThreadIds(d), NEW i, i = Original2Natural(d)[n]
    PROVE  i \in 0 .. ThreadCount(d) - 1 /\ Natural2Original(d)[i] = n
  <1>1. \E j \in 0 .. ThreadCount(d) - 1 : Natural2Original(d)[j] = n
    BY NaturalIsOnto
  <1>2. i = CHOOSE j \in 0 .. ThreadCount(d) - 1 : Natural2Original(d)[j] = n
    BY DEF Original2Natural
  <1> QED
    BY <1>1, <1>2

\* The service answers with an index of the core it was asked about.
LEMMA RespondIsOnCore ==
    ASSUME IndexingInv, Respond
    PROVE  IndexingInv'
  <1>1. /\ shape \in CpuShapes /\ index \in 0 .. ThreadCount(shape) - 1
        /\ UNCHANGED <<shape, id>>
        /\ index' = (index - (index % shape.threads)) + ((index + 1) % shape.threads)
    BY IndexingInvType DEF IndexingInv, Respond
  <1>2. PICK P \in Nat \ {0}, C \in Nat \ {0}, T \in Nat \ {0} :
          Sizes(shape, P, C, T) /\ P = shape.packages /\ C = shape.cores /\ T = shape.threads
    BY <1>1, HasSizes DEF Sizes
  <1>3. PICK k \in Nat : k = P * C /\ ThreadCount(shape) = k * T
    BY <1>2 DEF Sizes
  <1>4. PICK x \in 0 .. k - 1, r \in 0 .. T - 1 :
          x = index \div T /\ r = index % T /\ index = x * T + r
    <2>1. PICK i \in 0 .. k * T - 1 : i = index
      BY <1>1, <1>3
    <2>2. \E x \in 0 .. k - 1 : \E r \in 0 .. T - 1 :
             x = i \div T /\ r = i % T /\ i = x * T + r
      BY Divided
    <2> QED
      BY <2>1, <2>2
  <1>5. index + 1 \in Nat
    BY <1>1, <1>2 DEF Sizes
  <1>6. PICK s \in 0 .. T - 1 : s = (index + 1) % T
    BY <1>5, Division
  <1>7. index' = x * T + s
    <2>1. x * T \in Nat
      OBVIOUS
    <2>2. index' = (index - r) + s
      BY <1>1, <1>2, <1>4, <1>6
    <2> QED
      BY <1>4, <2>1, <2>2
  <1>8. index' \in 0 .. k * T - 1
    BY <1>7, TwoDigits
  <1>9. index' \div T = x
    <2>1. x \in Nat
      OBVIOUS
    <2> QED
      BY <1>7, <2>1, QuotientOf
  <1>10. PICK j \in 0 .. ThreadCount(shape) - 1 : j = index'
    BY <1>3, <1>8
  <1>11. ASSUME NEW p \in PackageIds(shape), NEW c \in CoreIds(shape)
         PROVE  Natural2Original(shape)[index] \in CoreThreads(shape, p, c)
                   <=> Natural2Original(shape)[j] \in CoreThreads(shape, p, c)
    <2>1. index \div shape.threads = j \div shape.threads
      BY <1>2, <1>4, <1>9, <1>10
    <2> QED
      BY <1>1, <2>1, SameCore
  <1>12. index # None
    BY DEF Respond
  <1> QED
    BY <1>1, <1>10, <1>11, <1>12 DEF IndexingInv

\* Every step keeps the invariant, and the workload on its core.
LEMMA IndexingInvNext ==
    IndexingInv /\ [IndexingNext]_indexingVars =>
        /\ IndexingInv'
        /\ \A p \in PackageIds(shape), c \in CoreIds(shape) :
             id \in CoreThreads(shape, p, c) <=> id' \in CoreThreads(shape, p, c)
  <1> SUFFICES ASSUME IndexingInv, [IndexingNext]_indexingVars
               PROVE  /\ IndexingInv'
                      /\ \A p \in PackageIds(shape), c \in CoreIds(shape) :
                           id \in CoreThreads(shape, p, c) <=> id' \in CoreThreads(shape, p, c)
    OBVIOUS
  <1>1. shape \in CpuShapes
    BY IndexingInvType
  <1>2. CASE BuildRequest
    <2>1. /\ UNCHANGED <<shape, id>> /\ id \in ThreadIds(shape)
          /\ index' = Original2Natural(shape)[id]
      BY <1>2 DEF BuildRequest, IndexingInv
    <2>2. PICK i : i = index'
      OBVIOUS
    <2>3. i \in 0 .. ThreadCount(shape) - 1 /\ Natural2Original(shape)[i] = id
      BY <1>1, <2>1, <2>2, OriginalIsNatural
    <2> QED
      BY <2>1, <2>2, <2>3 DEF IndexingInv
  <1>3. CASE Respond
    BY <1>3, RespondIsOnCore DEF Respond
  <1>4. CASE Deserialize
    <2>1. /\ index # None /\ index' = None /\ shape' = shape
          /\ id' = Natural2Original(shape)[index]
          /\ index \in 0 .. ThreadCount(shape) - 1
      BY <1>4 DEF Deserialize, IndexingInv
    <2>2. id' \in ThreadIds(shape)
      <3>1. PICK x : x = index \div shape.threads
        OBVIOUS
      <3>2. /\ x \div shape.cores \in PackageIds(shape)
            /\ x % shape.cores \in CoreIds(shape)
            /\ index % shape.threads \in Rows(shape)
            /\ id' = ThreadId(shape, x \div shape.cores, x % shape.cores, index % shape.threads)
        BY <1>1, <2>1, <3>1, NaturalPlace
      <3> QED
        BY <3>2 DEF ThreadIds
    <2> QED
      BY <2>1, <2>2 DEF IndexingInv
  <1>5. CASE UNCHANGED indexingVars
    BY <1>5 DEF indexingVars, IndexingInv
  <1> QED
    BY <1>2, <1>3, <1>4, <1>5 DEF IndexingNext

\* The invariant holds at every moment.
LEMMA IndexingInvariant == IndexingSpec => []IndexingInv
  BY IndexingInvInit, IndexingInvNext, PTL DEF IndexingSpec

\* On every shape of CPU, what is sent to the service and what comes back are
\* numbers of threads (remote/allocator.py:61, remote/allocator.py:109).
THEOREM IndexingTypeCorrect == IndexingSpec => []IndexingTypeOK
  BY IndexingInvariant, IndexingInvType, PTL

\* On every shape of CPU the threads of get_cpu have the ids from 0 up, and no two
\* cores have one in common (config.py:43).
THEOREM ThreadsHaveOneId == IndexingSpec => []IdsAreDistinct
  <1>1. IndexingInv => IdsAreDistinct
    <2> SUFFICES ASSUME IndexingInv PROVE IdsAreDistinct
      OBVIOUS
    <2>1. shape \in CpuShapes
      BY IndexingInvType
    <2>2. ThreadIds(shape) = 0 .. ThreadCount(shape) - 1
      BY <2>1, IdsHaveNoGap
    <2>3. \A p, q \in PackageIds(shape), c, e \in CoreIds(shape) :
            (p # q \/ c # e) => CoreThreads(shape, p, c) \cap CoreThreads(shape, q, e) = {}
      BY <2>1, Cores
    <2> QED
      BY <2>2, <2>3 DEF IdsAreDistinct
  <1> QED
    BY <1>1, IndexingInvariant, PTL

\* On every shape of CPU the translation to natural indexes and back keeps a workload
\* on its core, also when the service moves it there (remote/allocator.py:44).
THEOREM IndexesKeepCores == IndexingSpec => StaysOnItsCore
  <1>1. IndexingInv /\ [IndexingNext]_indexingVars =>
          [\A p \in PackageIds(shape), c \in CoreIds(shape) :
             id \in CoreThreads(shape, p, c)
                 <=> id' \in CoreThreads(shape, p, c)]_indexingVars
    BY IndexingInvNext
  <1> QED
    BY <1>1, IndexingInvariant, PTL DEF IndexingSpec, StaysOnItsCore

=============================================================================
