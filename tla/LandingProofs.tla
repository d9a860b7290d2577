--------------------------- MODULE LandingProofs ---------------------------
(***************************************************************************)
(* Proofs about the landing page: the sums and the places in line it shows *)
(* (Queue.tla), whatever transactions wait, and its live layer and ribbon  *)
(* of blocks (Dashboard.tla), for any chain, branches and times.           *)
(***************************************************************************)
EXTENDS Dashboard, Queue, FiniteSetTheorems, FunctionTheorems, TLAPS

-----------------------------------------------------------------------------
(* Least and greatest elements, which every choice below depends on *)

\* A non-empty set of natural numbers has a least element.
LEMMA LeastExists ==
    ASSUME NEW S \in SUBSET Nat, S # {}
    PROVE  \E x \in S : \A y \in S : x <= y
<1>1. PICK x \in S : \A y \in S : <<y, x>> \notin OpToRel(<, Nat)
  BY WFMin, NatLessThanWellFounded
<1>2. ASSUME NEW y \in S
      PROVE  x <= y
  <2>1. <<y, x>> \in Nat \X Nat /\ ~(y < x)
    BY <1>1 DEF OpToRel
  <2> QED
    BY <2>1
<1> QED
  BY <1>2

\* A non-empty finite set of them has a greatest one: the element with the fewest above it.
LEMMA FiniteGreatest ==
    ASSUME NEW S \in SUBSET Nat, S # {}, IsFiniteSet(S)
    PROVE  \E x \in S : \A y \in S : x >= y
<1> DEFINE Above(x) == {y \in S : y > x}
           counts == {Cardinality(Above(x)) : x \in S}
<1>1. \A x \in S : IsFiniteSet(Above(x)) /\ Cardinality(Above(x)) \in Nat
  <2> TAKE x \in S
  <2>1. Above(x) \in SUBSET S
    OBVIOUS
  <2> HIDE DEF Above
  <2> QED
    BY <2>1, FS_Subset, FS_CardinalityType
<1>2. PICK n \in counts : \A m \in counts : n <= m
  <2>1. counts \in SUBSET Nat /\ counts # {}
    BY <1>1
  <2> HIDE DEF counts
  <2> QED
    BY <2>1, LeastExists
<1>3. PICK x \in S : \A y \in S : Cardinality(Above(x)) <= Cardinality(Above(y))
  BY <1>2
<1>4. ASSUME NEW y \in S, y > x
      PROVE  FALSE
  <2>1. Above(y) \subseteq Above(x) /\ y \in Above(x) /\ y \notin Above(y)
    <3>1. \A z \in S : z \in Nat /\ x \in Nat /\ y \in Nat
      OBVIOUS
    <3>2. \A z \in S : z > y => z > x
      BY <1>4, <3>1
    <3>3. ~(y > y)
      BY <3>1
    <3> QED
      BY <1>4, <3>2, <3>3
  <2>2. /\ IsFiniteSet(Above(x))
        /\ Cardinality(Above(x)) \in Nat /\ Cardinality(Above(y)) \in Nat
        /\ Cardinality(Above(x)) <= Cardinality(Above(y))
    BY <1>1, <1>3
  <2> HIDE DEF Above
  <2>3. /\ Cardinality(Above(y)) <= Cardinality(Above(x))
        /\ Cardinality(Above(x)) = Cardinality(Above(y))
              => Above(x) = Above(y)
    BY <2>1, <2>2, FS_Subset
  <2> QED
    BY <2>1, <2>2, <2>3
<1> QED
  BY <1>4

-----------------------------------------------------------------------------
(* Sums *)

\* A finite sum is a natural number.
LEMMA UnitsFinite ==
    ASSUME NEW S, IsFiniteSet(S), NEW f, \A x \in S : f[x] \in Nat
    PROVE  IsFiniteSet(UNION {{x} \X (1 .. f[x]) : x \in S})
<1> DEFINE P == {{x} \X (1 .. f[x]) : x \in S}
           g == [x \in S |-> {x} \X (1 .. f[x])]
<1>1. g \in Surjection(S, P)
  BY Fun_IsSurj, Zenon
<1>2. IsFiniteSet(P)
  BY <1>1, FS_Surjection
<1>3. ASSUME NEW x \in S
      PROVE  IsFiniteSet({x} \X (1 .. f[x]))
  <2>1. IsFiniteSet({x})
    BY FS_Singleton, Zenon
  <2>2. f[x] \in Int /\ 1 \in Int
    OBVIOUS
  <2>3. IsFiniteSet(1 .. f[x])
    BY <2>2, FS_Interval, Zenon
  <2> QED
    BY <2>1, <2>3, FS_Product, Zenon
<1>4. \A T \in P : IsFiniteSet(T)
  BY <1>3, Zenon
<1> QED
  BY <1>2, <1>4, FS_UNION

LEMMA TotalType ==
    ASSUME NEW S, IsFiniteSet(S), NEW f, \A x \in S : f[x] \in Nat
    PROVE  Total(f, S) \in Nat
BY UnitsFinite, FS_CardinalityType DEF Total

\* The sum over two sets with nothing in common
LEMMA TotalOfTwo ==
    ASSUME NEW S, IsFiniteSet(S), NEW T, IsFiniteSet(T), S \cap T = {},
           NEW f, \A x \in S \cup T : f[x] \in Nat
    PROVE  Total(f, S \cup T) = Total(f, S) + Total(f, T)
<1> DEFINE A == UNION {{x} \X (1 .. f[x]) : x \in S}
           B == UNION {{x} \X (1 .. f[x]) : x \in T}
           C == UNION {{x} \X (1 .. f[x]) : x \in S \cup T}
<1>1. IsFiniteSet(A) /\ IsFiniteSet(B)
  BY UnitsFinite
<1>2. C = A \cup B
  BY Zenon
<1>3. A \cap B = {}
  OBVIOUS
<1>4. Total(f, S) = Cardinality(A) /\ Total(f, T) = Cardinality(B)
      /\ Total(f, S \cup T) = Cardinality(C)
  BY DEF Total
<1> HIDE DEF A, B, C
<1>5. Cardinality(A) \in Nat /\ Cardinality(B) \in Nat
  BY <1>1, FS_CardinalityType
<1>6. Cardinality(A \cup B) = Cardinality(A) + Cardinality(B)
  <2>1. Cardinality(A \cup B)
            = Cardinality(A) + Cardinality(B) - Cardinality(A \cap B)
    BY <1>1, FS_Union, Zenon
  <2>2. Cardinality(A \cap B) = 0
    BY <1>3, FS_EmptySet
  <2> QED
    BY <1>5, <2>1, <2>2
<1> QED
  BY <1>2, <1>4, <1>6

\* Functions that agree on a set have the same sum over it.
LEMMA TotalEqual ==
    ASSUME NEW S, NEW f, NEW g, \A x \in S : f[x] = g[x]
    PROVE  Total(f, S) = Total(g, S)
<1>1. {{x} \X (1 .. f[x]) : x \in S} = {{x} \X (1 .. g[x]) : x \in S}
  BY Zenon
<1> QED
  BY <1>1, Zenon DEF Total

LEMMA TotalOfNone == \A f : Total(f, {}) = 0
<1>1. \A f : UNION {{x} \X (1 .. f[x]) : x \in {}} = {}
  BY Zenon
<1> QED
  BY <1>1, FS_EmptySet, Zenon DEF Total

LEMMA TotalOfOne ==
    ASSUME NEW x, NEW f, f[x] \in Nat
    PROVE  Total(f, {x}) = f[x]
<1>1. UNION {{y} \X (1 .. f[y]) : y \in {x}} = {x} \X (1 .. f[x])
  BY Zenon
<1>2. IsFiniteSet({x}) /\ Cardinality({x}) = 1
  BY FS_Singleton, Zenon
<1>3. f[x] \in Int /\ 1 \in Int
  OBVIOUS
<1>4. IsFiniteSet(1 .. f[x]) /\ Cardinality(1 .. f[x]) = f[x]
  <2>1. /\ IsFiniteSet(1 .. f[x])
        /\ Cardinality(1 .. f[x]) = IF 1 > f[x] THEN 0 ELSE f[x] - 1 + 1
    BY <1>3, FS_Interval, Zenon
  <2> QED
    BY <2>1
<1>5. Cardinality({x} \X (1 .. f[x]))
          = Cardinality({x}) * Cardinality(1 .. f[x])
  BY <1>2, <1>4, FS_Product, Zenon
<1>6. Cardinality({x} \X (1 .. f[x])) = f[x]
  BY <1>2, <1>4, <1>5
<1> QED
  BY <1>1, <1>6, Zenon DEF Total

\* A sum over fewer elements is no greater.
LEMMA TotalGrows ==
    ASSUME NEW T, IsFiniteSet(T), NEW S \in SUBSET T,
           NEW f, \A x \in T : f[x] \in Nat
    PROVE  Total(f, S) <= Total(f, T)
<1>1. IsFiniteSet(S) /\ IsFiniteSet(T \ S)
  BY FS_Subset, FS_Difference, Zenon
<1>2. S \cup (T \ S) = T /\ S \cap (T \ S) = {}
  OBVIOUS
<1>3. Total(f, T) = Total(f, S) + Total(f, T \ S)
  <2>1. \A x \in S \cup (T \ S) : f[x] \in Nat
    BY <1>2
  <2> QED
    BY <1>1, <1>2, <2>1, TotalOfTwo, Zenon
<1>4. Total(f, S) \in Nat /\ Total(f, T \ S) \in Nat
  BY <1>1, TotalType
<1> QED
  BY <1>3, <1>4

TotalsByClass(f, S, class, n) ==
    [i \in 1 .. n |-> Total(f, {x \in S : class[x] = i})]

\* Adding up by classes adds up everything, by induction on their number.
LEMMA TotalByClass ==
    ASSUME NEW S, IsFiniteSet(S), NEW f, \A x \in S : f[x] \in Nat,
           NEW class \in [S -> Nat \ {0}],
           NEW n \in Nat
    PROVE  Total(TotalsByClass(f, S, class, n), 1 .. n)
               = Total(f, {x \in S : class[x] <= n})
<1> DEFINE Class(i) == {x \in S : class[x] = i}
           UpTo(k) == {x \in S : class[x] <= k}
           of(k) == [i \in 1 .. k |-> Total(f, Class(i))]
           Holds(k) == Total(of(k), 1 .. k) = Total(f, UpTo(k))
<1>1. Holds(0)
  <2>1. 1 .. 0 = {} /\ UpTo(0) = {}
    OBVIOUS
  <2> QED
    BY <2>1, TotalOfNone
<1>2. ASSUME NEW k \in Nat, Holds(k)
      PROVE  Holds(k + 1)
  <2>1. /\ IsFiniteSet(UpTo(k)) /\ \A x \in UpTo(k) : f[x] \in Nat
        /\ \A i \in Nat : IsFiniteSet(Class(i))
    BY FS_Subset
  <2>2. \A i \in Nat : Total(f, Class(i)) \in Nat
    <3> TAKE i \in Nat
    <3>1. \A x \in Class(i) : f[x] \in Nat
      OBVIOUS
    <3> QED
      BY <2>1, <3>1, TotalType, Zenon
  <2>3. Total(f, UpTo(k + 1)) = Total(f, UpTo(k)) + Total(f, Class(k + 1))
    <3>1. UpTo(k + 1) = UpTo(k) \cup Class(k + 1)
      OBVIOUS
    <3>2. UpTo(k) \cap Class(k + 1) = {}
      OBVIOUS
    <3>3. \A x \in UpTo(k) \cup Class(k + 1) : f[x] \in Nat
      OBVIOUS
    <3>4. IsFiniteSet(UpTo(k)) /\ IsFiniteSet(Class(k + 1))
      BY <2>1
    <3> HIDE DEF UpTo, Class
    <3> QED
      BY <3>1, <3>2, <3>3, <3>4, TotalOfTwo
  <2>4. 1 .. k + 1 = (1 .. k) \cup {k + 1} /\ (1 .. k) \cap {k + 1} = {}
    OBVIOUS
  <2>5. \A i \in (1 .. k) \cup {k + 1} : of(k + 1)[i] \in Nat
    BY <2>2
  <2>6. Total(of(k + 1), 1 .. k + 1)
            = Total(of(k + 1), 1 .. k) + Total(of(k + 1), {k + 1})
    <3>1. IsFiniteSet(1 .. k) /\ IsFiniteSet({k + 1})
      <4>1. 1 \in Int /\ k \in Int
        OBVIOUS
      <4> QED
        BY <4>1, FS_Interval, FS_Singleton, Zenon
    <3> HIDE DEF of
    <3> QED
      BY <2>4, <2>5, <3>1, TotalOfTwo
  <2>7. Total(of(k + 1), 1 .. k) = Total(of(k), 1 .. k)
    <3>1. \A i \in 1 .. k : of(k + 1)[i] = of(k)[i]
      OBVIOUS
    <3> QED
      BY <3>1, TotalEqual
  <2>8. Total(of(k + 1), {k + 1}) = Total(f, Class(k + 1))
    <3>1. of(k + 1)[k + 1] = Total(f, Class(k + 1))
      OBVIOUS
    <3>2. of(k + 1)[k + 1] \in Nat
      BY <2>5
    <3> QED
      BY <3>1, <3>2, TotalOfOne
  <2> QED
    BY <1>2, <2>3, <2>6, <2>7, <2>8
<1>3. Holds(n)
  <2> SUFFICES ASSUME ~Holds(n)
               PROVE  FALSE
    OBVIOUS
  <2> DEFINE Fails == {k \in Nat : ~Holds(k)}
  <2>1. PICK k \in Fails : \A j \in Fails : k <= j
    <3>1. Fails # {} /\ Fails \in SUBSET Nat
      OBVIOUS
    <3> HIDE DEF Fails
    <3> QED
      BY <3>1, LeastExists
  <2>2. k \in Nat /\ ~Holds(k) /\ k # 0
    BY <1>1, <2>1
  <2>3. k - 1 \in Nat /\ k - 1 + 1 = k /\ ~(k <= k - 1)
    BY <2>2
  <2>4. Holds(k - 1)
    <3>1. k - 1 \notin Fails
      <4> HIDE DEF Fails
      <4> QED
        BY <2>1, <2>3
    <3> HIDE DEF Holds
    <3> QED
      BY <2>3, <3>1
  <2> HIDE DEF Holds
  <2> QED
    BY <1>2, <2>2, <2>3, <2>4
<1> QED
  BY <1>3, Zenon DEF TotalsByClass

-----------------------------------------------------------------------------
(* The line *)

\* The snapshot is a finite map to rates and sizes.
LineInv ==
    /\ IsFiniteSet(Waiting)
    /\ \A t \in Waiting : /\ entries[t].rate \in Nat
                          /\ entries[t].size \in Nat \ {0}

LEMMA LineInvariant == QueueSpec => []LineInv
<1>1. EmptyLine => LineInv
  <2> SUFFICES ASSUME EmptyLine
               PROVE  LineInv
    OBVIOUS
  <2>1. Waiting = {}
    BY Zenon DEF EmptyLine, Waiting
  <2> QED
    BY <2>1, FS_EmptySet DEF LineInv
<1>2. LineInv /\ [Change]_entries => LineInv'
  <2> SUFFICES ASSUME LineInv, [Change]_entries
               PROVE  LineInv'
    OBVIOUS
  <2>1. ASSUME NEW t \in Tx, Join(t)
        PROVE  LineInv'
    <3>1. PICK r \in Rate, s \in Size :
              entries' = [u \in Waiting \cup {t} |->
                  IF u = t THEN [rate |-> r, size |-> s] ELSE entries[u]]
      BY <2>1 DEF Join
    <3>2. Waiting' = Waiting \cup {t}
      BY <3>1 DEF Waiting
    <3>3. IsFiniteSet(Waiting')
      BY <3>2, FS_AddElement DEF LineInv
    <3>4. r \in Nat /\ s \in Nat \ {0}
      BY QueueAssumption DEF QueueAssumption
    <3>5. ASSUME NEW u \in Waiting'
          PROVE  entries'[u].rate \in Nat /\ entries'[u].size \in Nat \ {0}
      <4>1. CASE u = t
        BY <3>1, <3>2, <3>4, <4>1
      <4>2. CASE u # t
        BY <3>1, <3>2, <4>2 DEF LineInv
      <4> QED
        BY <4>1, <4>2
    <3> QED
      BY <3>3, <3>5 DEF LineInv
  <2>2. ASSUME NEW t \in Tx, Leave(t)
        PROVE  LineInv'
    <3>1. entries' = [u \in Waiting \ {t} |-> entries[u]]
      BY <2>2 DEF Leave
    <3>2. Waiting' = Waiting \ {t}
      BY <3>1 DEF Waiting
    <3>3. IsFiniteSet(Waiting')
      BY <3>2, FS_RemoveElement DEF LineInv
    <3> QED
      BY <3>1, <3>2, <3>3 DEF LineInv
  <2>3. CASE UNCHANGED entries
    BY <2>3 DEF LineInv, Waiting
  <2> QED
    BY <2>1, <2>2, <2>3 DEF Change
<1> QED
  BY <1>1, <1>2, PTL DEF QueueSpec

\* Vbytes counts: it is a number, adds up over what has nothing in common,
\* and a larger set has no fewer.
Sizes == [t \in Waiting |-> entries[t].size]

LEMMA VbytesIsTotal ==
    ASSUME LineInv, NEW T \in SUBSET Waiting
    PROVE  /\ IsFiniteSet(T)
           /\ \A t \in T : Sizes[t] \in Nat
           /\ Vbytes(T) = Total(Sizes, T)
           /\ Vbytes(T) \in Nat
<1>1. IsFiniteSet(T)
  BY FS_Subset DEF LineInv
<1>2. \A t \in T : Sizes[t] \in Nat
  BY DEF Sizes, LineInv
<1>3. \A t \in T : [u \in T |-> entries[u].size][t] = Sizes[t]
  BY DEF Sizes
<1>4. Vbytes(T) = Total(Sizes, T)
  BY <1>3, TotalEqual, Zenon DEF Vbytes
<1> QED
  BY <1>1, <1>2, <1>4, TotalType

LEMMA VbytesGrows ==
    ASSUME LineInv, NEW T \in SUBSET Waiting, NEW S \in SUBSET T
    PROVE  Vbytes(S) <= Vbytes(T)
<1>1. S \in SUBSET Waiting
  OBVIOUS
<1>2. Total(Sizes, S) <= Total(Sizes, T)
  BY VbytesIsTotal, TotalGrows
<1> QED
  BY <1>1, <1>2, VbytesIsTotal

\* A transaction adds its size, which is not nothing.
LEMMA VbytesOfOneMore ==
    ASSUME LineInv, NEW T \in SUBSET Waiting, NEW t \in Waiting \ T
    PROVE  Vbytes(T) < Vbytes(T \cup {t})
<1>1. T \cup {t} \in SUBSET Waiting /\ {t} \in SUBSET Waiting
      /\ T \cap {t} = {}
  OBVIOUS
<1>2. Total(Sizes, T \cup {t}) = Total(Sizes, T) + Total(Sizes, {t})
  BY <1>1, VbytesIsTotal, TotalOfTwo
<1>3. Sizes[t] \in Nat \ {0}
  BY DEF Sizes, LineInv
<1>4. Total(Sizes, {t}) = Sizes[t]
  BY <1>3, TotalOfOne
<1>5. /\ Vbytes(T) \in Nat /\ Vbytes(T) = Total(Sizes, T)
      /\ Vbytes(T \cup {t}) = Total(Sizes, T \cup {t})
  BY <1>1, VbytesIsTotal
<1> QED
  BY <1>2, <1>3, <1>4, <1>5

-----------------------------------------------------------------------------
(* The bands *)

\* Facts about products and quotients of natural numbers
LEMMA ProductGrows ==
    ASSUME NEW a \in Nat, NEW b \in Nat, NEW c \in Nat, b <= c
    PROVE  a * b <= a * c
<1>1. PICK d \in Nat : c = b + d
  <2>1. c - b \in Nat /\ c = b + (c - b)
    OBVIOUS
  <2> QED
    BY <2>1
<1>2. a * c = a * b + a * d /\ a * d \in Nat /\ a * b \in Nat
  BY <1>1
<1> QED
  BY <1>2

LEMMA QuotientIs ==
    ASSUME NEW a \in Nat, NEW b \in Nat \ {0}
    PROVE  /\ a \div b \in Nat
           /\ b * (a \div b) <= a
           /\ a < b * (a \div b) + b
OBVIOUS

LEMMA QuotientGrows ==
    ASSUME NEW a \in Nat, NEW c \in Nat, NEW b \in Nat \ {0}, a <= c
    PROVE  a \div b <= c \div b
<1> DEFINE p == a \div b
           q == c \div b
<1>1. p \in Nat /\ q \in Nat /\ b * p <= a /\ c < b * q + b
  BY QuotientIs
<1> HIDE DEF p, q
<1>2. ASSUME q < p
      PROVE  FALSE
  <2>1. b * (q + 1) <= b * p
    BY <1>1, <1>2, ProductGrows
  <2>2. b * (q + 1) = b * q + b /\ b * q \in Nat /\ b * p \in Nat
    BY <1>1
  <2> QED
    BY <1>1, <2>1, <2>2
<1>3. p <= q
  BY <1>1, <1>2
<1> QED
  BY <1>3 DEF p, q

LEMMA QuotientOfProduct ==
    ASSUME NEW a \in Nat \ {0}, NEW b \in Nat
    PROVE  (a * b) \div a = b
<1> DEFINE q == (a * b) \div a
<1>1. a * b \in Nat
  OBVIOUS
<1>2. q \in Nat /\ a * q <= a * b /\ a * b < a * q + a
  BY <1>1, QuotientIs
<1> HIDE DEF q
<1>3. ~(b < q)
  <2> SUFFICES ASSUME b < q
               PROVE  FALSE
    OBVIOUS
  <2>1. a * (b + 1) <= a * q
    BY <1>2, ProductGrows
  <2> QED
    BY <1>1, <1>2, <2>1
<1>4. ~(q < b)
  <2> SUFFICES ASSUME q < b
               PROVE  FALSE
    OBVIOUS
  <2>1. a * (q + 1) <= a * b
    BY <1>2, ProductGrows
  <2> QED
    BY <1>1, <1>2, <2>1
<1>5. q = b
  BY <1>2, <1>3, <1>4
<1> QED
  BY <1>5 DEF q

LEMMA LastIs == Last \in Nat \ {0} /\ \A i \in 1 .. Last : BandMins[i] \in Nat
BY QueueAssumption DEF QueueAssumption, Last

\* The band the page puts a rate in: the first whose minimum it reaches.
LEMMA BandIndexIs ==
    ASSUME NEW rate \in Nat
    PROVE  /\ BandIndex(rate) \in 1 .. Last
           /\ \A i \in 1 .. BandIndex(rate) - 1 : rate < Unit * BandMins[i]
           /\ BandIndex(rate) < Last
                 => Unit * BandMins[BandIndex(rate)] <= rate
<1> DEFINE S == {i \in 1 .. Last - 1 : rate >= Unit * BandMins[i]} \cup {Last}
<1>1. S \in SUBSET Nat /\ S \subseteq 1 .. Last /\ S # {}
  BY LastIs
<1>2. BandIndex(rate) \in S /\ \A i \in S : BandIndex(rate) <= i
  <2>1. \E i \in S : \A j \in S : i <= j
    BY <1>1, LeastExists
  <2> HIDE DEF S
  <2>2. Min(S) \in S /\ \A i \in S : Min(S) <= i
    BY <2>1 DEF Min
  <2> QED
    BY <2>2 DEF BandIndex, S
<1>3. ASSUME NEW i \in 1 .. BandIndex(rate) - 1
      PROVE  rate < Unit * BandMins[i]
  <2>1. i \in 1 .. Last - 1 /\ i \notin S
    BY <1>1, <1>2, LastIs
  <2>2. BandMins[i] \in Nat /\ Unit \in Nat
    BY <2>1, LastIs, QueueAssumption DEF QueueAssumption
  <2>3. Unit * BandMins[i] \in Nat
    BY <2>2
  <2> QED
    BY <2>1, <2>3
<1> QED
  BY <1>1, <1>2, <1>3, LastIs

\* The server's walk and the page's search put a rate in the same band.
LEMMA BandsAgree ==
    ASSUME NEW rate \in Nat
    PROVE  ServerBand(rate) = BandIndex(rate)
<1> DEFINE k == BandIndex(rate)
<1>1. k \in 1 .. Last
  BY BandIndexIs
<1>2. {i \in 1 .. Last - 1 : rate < Unit * BandMins[i]} = 1 .. k - 1
  <2>1. ASSUME NEW i \in 1 .. Last - 1, k <= i
        PROVE  ~(rate < Unit * BandMins[i])
    <3>1. Unit \in Nat /\ BandMins[i] \in Nat /\ BandMins[k] \in Nat
      BY <1>1, LastIs, QueueAssumption DEF QueueAssumption
    <3>2. BandMins[i] <= BandMins[k]
      BY <1>1, <2>1, <3>1, LastIs, QueueAssumption DEF QueueAssumption, Last
    <3>3. Unit * BandMins[i] <= Unit * BandMins[k]
      BY <3>1, <3>2, ProductGrows
    <3>4. Unit * BandMins[k] <= rate
      BY <1>1, <2>1, BandIndexIs, LastIs
    <3> QED
      BY <3>1, <3>3, <3>4
  <2>2. \A i \in 1 .. k - 1 : i \in 1 .. Last - 1 /\ rate < Unit * BandMins[i]
    BY <1>1, LastIs, BandIndexIs
  <2> HIDE DEF k
  <2> QED
    BY <1>1, <2>1, <2>2, LastIs
<1>3. Cardinality(1 .. k - 1) = k - 1
  <2>1. 1 \in Int /\ k - 1 \in Int
    BY <1>1
  <2>2. Cardinality(1 .. k - 1) = IF 1 > k - 1 THEN 0 ELSE (k - 1) - 1 + 1
    BY <2>1, FS_Interval, Zenon
  <2> QED
    BY <1>1, <2>2
<1>4. ServerBand(rate) = 1 + Cardinality(1 .. k - 1)
  BY <1>2, Zenon DEF ServerBand
<1> QED
  BY <1>1, <1>3, <1>4

\* A rate in a band further to the front is higher, and a higher rate is in
\* no band further back.
LEMMA BandOrder ==
    ASSUME NEW r \in Nat, NEW s \in Nat
    PROVE  /\ BandIndex(s) < BandIndex(r) => r < s
           /\ r <= s => BandIndex(s) <= BandIndex(r)
<1>1. /\ BandIndex(r) \in 1 .. Last /\ BandIndex(s) \in 1 .. Last
      /\ Last \in Nat
  BY BandIndexIs, LastIs
<1>2. BandIndex(s) < BandIndex(r) => r < s
  <2> SUFFICES ASSUME BandIndex(s) < BandIndex(r)
               PROVE  r < s
    OBVIOUS
  <2> DEFINE low == Unit * BandMins[BandIndex(s)]
  <2>1. low <= s /\ r < low
    BY <1>1, BandIndexIs
  <2>2. low \in Nat
    BY <1>1, LastIs, QueueAssumption DEF QueueAssumption
  <2> HIDE DEF low
  <2> QED
    BY <2>1, <2>2
<1>3. r <= s => BandIndex(s) <= BandIndex(r)
  <2> SUFFICES ASSUME r <= s, BandIndex(r) < BandIndex(s)
               PROVE  FALSE
    BY <1>1
  <2> DEFINE low == Unit * BandMins[BandIndex(r)]
  <2>1. low <= r /\ s < low
    BY <1>1, BandIndexIs
  <2>2. low \in Nat
    BY <1>1, LastIs, QueueAssumption DEF QueueAssumption
  <2> HIDE DEF low
  <2> QED
    BY <2>1, <2>2
<1> QED
  BY <1>2, <1>3

\* What the page adds up in front of a band is what waits there.
InFront(k) == {t \in Waiting : BandIndex(entries[t].rate) < k}

LEMMA FrontIsVbytes ==
    ASSUME LineInv, NEW k \in Nat \ {0}
    PROVE  FrontVbytes(k) = Vbytes(InFront(k))
<1> DEFINE class == [t \in Waiting |-> BandIndex(entries[t].rate)]
           Class(i) == {t \in Waiting : class[t] = i}
           of == TotalsByClass(Sizes, Waiting, class, k - 1)
           UpTo == {t \in Waiting : class[t] <= k - 1}
<1>1. \A t \in Waiting : BandIndex(entries[t].rate) \in Nat \ {0}
  BY BandIndexIs, LastIs DEF LineInv
<1>2. class \in [Waiting -> Nat \ {0}]
  BY <1>1
<1>3. IsFiniteSet(Waiting) /\ \A t \in Waiting : Sizes[t] \in Nat
  BY DEF LineInv, Sizes
<1>4. Total(of, 1 .. k - 1) = Total(Sizes, UpTo)
  <2>1. k - 1 \in Nat
    OBVIOUS
  <2> HIDE DEF class
  <2>2. Total(of, 1 .. k - 1)
            = Total(Sizes, {t \in Waiting : class[t] <= k - 1})
    BY <1>2, <1>3, <2>1, TotalByClass
  <2> QED
    BY <2>2
<1>5. ASSUME NEW i \in 1 .. k - 1
      PROVE  BandVbytes(i) = of[i]
  <2>1. {t \in Waiting : ServerBand(entries[t].rate) = i} = Class(i)
    BY BandsAgree DEF LineInv
  <2>2. Class(i) \in SUBSET Waiting
    OBVIOUS
  <2>3. Vbytes(Class(i)) = Total(Sizes, Class(i))
    BY <2>2, VbytesIsTotal
  <2> QED
    BY <2>1, <2>3 DEF BandVbytes, TotalsByClass
<1>6. FrontVbytes(k) = Total(of, 1 .. k - 1)
  <2>1. \A i \in 1 .. k - 1 : [j \in 1 .. k - 1 |-> BandVbytes(j)][i] = of[i]
    BY <1>5
  <2> HIDE DEF of
  <2> QED
    BY <2>1, TotalEqual, Zenon DEF FrontVbytes
<1>7. UpTo = InFront(k)
  BY <1>1 DEF InFront
<1>8. Vbytes(UpTo) = Total(Sizes, UpTo)
  BY VbytesIsTotal
<1> QED
  BY <1>4, <1>6, <1>7, <1>8

-----------------------------------------------------------------------------
(* Blocks to wait *)

LEMMA ParametersAre ==
    /\ VbytesPerBlock \in Nat \ {0} /\ Unit \in Nat \ {0}
    /\ Interval \in Nat \ {0} /\ Rate \subseteq Nat
BY QueueAssumption DEF QueueAssumption

LEMMA TotalVbytesIs ==
    ASSUME LineInv
    PROVE  /\ TotalVbytes \in Nat
           /\ \A T \in SUBSET Waiting : /\ Vbytes(T) \in Nat
                                         /\ Vbytes(T) <= TotalVbytes
<1>1. TotalVbytes \in Nat
  BY VbytesIsTotal DEF TotalVbytes
<1>2. ASSUME NEW T \in SUBSET Waiting
      PROVE  Vbytes(T) \in Nat /\ Vbytes(T) <= TotalVbytes
  BY VbytesIsTotal, VbytesGrows DEF TotalVbytes
<1> QED
  BY <1>1, <1>2

\* The chip's blocks: the page gets the block size back from the fraction.
LEMMA BandEtaIs ==
    ASSUME LineInv, NEW rate \in Nat
    PROVE  /\ InFront(BandIndex(rate)) \in SUBSET Waiting
           /\ BandEtaBlocks(rate) =
                 IF TotalVbytes <= VbytesPerBlock THEN 1
                 ELSE Vbytes(InFront(BandIndex(rate))) \div VbytesPerBlock + 1
<1>1. TotalVbytes \in Nat /\ VbytesPerBlock \in Nat \ {0}
  BY TotalVbytesIs, ParametersAre
<1>2. FrontVbytes(BandIndex(rate)) = Vbytes(InFront(BandIndex(rate)))
  BY BandIndexIs, LastIs, FrontIsVbytes
<1>3. CASE TotalVbytes <= VbytesPerBlock
  BY <1>3 DEF BandEtaBlocks, CutoffFraction, InFront
<1>4. CASE ~(TotalVbytes <= VbytesPerBlock)
  <2>1. CutoffFraction[1] = VbytesPerBlock /\ CutoffFraction[2] = TotalVbytes
    BY <1>4 DEF CutoffFraction
  <2>2. (TotalVbytes * VbytesPerBlock) \div TotalVbytes = VbytesPerBlock
    BY <1>1, <1>4, QuotientOfProduct
  <2>3. ~(VbytesPerBlock >= TotalVbytes)
    BY <1>1, <1>4
  <2> QED
    BY <1>2, <1>4, <2>1, <2>2, <2>3 DEF BandEtaBlocks, InFront
<1> QED
  BY <1>3, <1>4

\* Every rate down to which the line fills a block is at most the rate the
\* server announces.
LEMMA NextBlockRateIs ==
    ASSUME LineInv, NEW r \in {entries[t].rate : t \in Waiting},
           Vbytes({t \in Waiting : entries[t].rate >= r}) >= VbytesPerBlock
    PROVE  NextBlockRate \in Nat /\ r <= NextBlockRate
<1> DEFINE rates == {entries[t].rate : t \in Waiting}
           full == {q \in rates :
                      Vbytes({t \in Waiting : entries[t].rate >= q})
                          >= VbytesPerBlock}
           g == [t \in Waiting |-> entries[t].rate]
<1>1. full \in SUBSET Nat /\ r \in full /\ Waiting # {}
  BY DEF LineInv
<1>2. IsFiniteSet(full)
  <2>1. g \in Surjection(Waiting, rates)
    BY Fun_IsSurj, Zenon
  <2>2. IsFiniteSet(rates)
    BY <2>1, FS_Surjection DEF LineInv
  <2> QED
    BY <2>2, FS_Subset
<1>3. \E x \in full : \A y \in full : x >= y
  <2> HIDE DEF full
  <2> QED
    BY <1>1, <1>2, FiniteGreatest
<1>4. NextBlockRate = Max(full)
  BY <1>1, Zenon DEF NextBlockRate
<1>5. Max(full) \in full /\ \A y \in full : Max(full) >= y
  <2> HIDE DEF full
  <2> QED
    BY <1>3 DEF Max
<1> HIDE DEF full
<1> QED
  BY <1>1, <1>4, <1>5

LEMMA AdviceStep ==
    ASSUME LineInv
    PROVE  AdviceIsNextBlock
<1> SUFFICES ASSUME NEW r \in Rate, r >= Unit * Threshold
             PROVE  BandEtaBlocks(r) = 1
  BY DEF AdviceIsNextBlock
<1> DEFINE ahead == InFront(BandIndex(r))
<1>1. /\ r \in Nat /\ VbytesPerBlock \in Nat \ {0} /\ Unit \in Nat \ {0}
      /\ TotalVbytes \in Nat
  BY ParametersAre, TotalVbytesIs
<1>2. ahead \in SUBSET Waiting /\ Vbytes(ahead) \in Nat
  BY <1>1, BandEtaIs, TotalVbytesIs
<1>3. CASE TotalVbytes <= VbytesPerBlock \/ Vbytes(ahead) < VbytesPerBlock
  <2>1. Vbytes(ahead) < VbytesPerBlock => Vbytes(ahead) \div VbytesPerBlock = 0
    BY <1>1, <1>2
  <2> QED
    BY <1>1, <1>3, <2>1, BandEtaIs
<1>4. CASE Vbytes(ahead) >= VbytesPerBlock
  <2>1. ahead # {}
    <3>1. Vbytes({}) = 0
      BY TotalOfNone, Zenon DEF Vbytes
    <3> QED
      BY <1>1, <1>4, <3>1
  <2>2. PICK u \in ahead : \A t \in ahead : entries[u].rate <= entries[t].rate
    <3> DEFINE rates == {entries[t].rate : t \in ahead}
    <3>1. rates \in SUBSET Nat /\ rates # {}
      BY <1>2, <2>1 DEF LineInv
    <3>2. \E x \in rates : \A y \in rates : x <= y
      <4> HIDE DEF rates
      <4> QED
        BY <3>1, LeastExists
    <3> QED
      BY <3>2
  <2> DEFINE q == entries[u].rate
             above == {t \in Waiting : entries[t].rate >= q}
  <2>3. q \in Nat /\ r < q
    <3>1. q \in Nat /\ BandIndex(q) < BandIndex(r)
      BY <1>2 DEF LineInv, InFront
    <3> QED
      BY <1>1, <3>1, BandOrder
  <2>4. ahead \in SUBSET above /\ above \in SUBSET Waiting
    BY <1>2, <2>2 DEF LineInv
  <2>5. Vbytes(above) >= VbytesPerBlock
    <3>1. Vbytes(ahead) <= Vbytes(above) /\ Vbytes(above) \in Nat
      BY <2>4, VbytesGrows, TotalVbytesIs
    <3> QED
      BY <1>1, <1>2, <1>4, <3>1
  <2>6. NextBlockRate \in Nat /\ q <= NextBlockRate
    BY <1>2, <2>5, NextBlockRateIs
  <2>7. NextBlockRate <= Unit * Threshold /\ Unit * Threshold \in Nat
    <3> DEFINE rounded == (NextBlockRate + Unit - 1) \div Unit
    <3>1. NextBlockRate + Unit - 1 \in Nat
      BY <1>1, <2>6
    <3>2. rounded \in Nat /\ NextBlockRate + Unit - 1 < Unit * rounded + Unit
      BY <1>1, <3>1, QuotientIs
    <3>3. Threshold \in Nat /\ rounded <= Threshold
      <4>1. \E x \in {1, rounded} : \A y \in {1, rounded} : x >= y
        BY <3>2
      <4> HIDE DEF rounded
      <4> QED
        BY <3>2, <4>1 DEF Threshold, Max, rounded
    <3> HIDE DEF rounded
    <3>4. Unit * rounded <= Unit * Threshold
      BY <1>1, <3>2, <3>3, ProductGrows
    <3>5. Unit * rounded \in Nat /\ Unit * Threshold \in Nat
      BY <1>1, <3>2, <3>3
    <3> QED
      BY <1>1, <2>6, <3>2, <3>4, <3>5
  <2>8. Unit * Threshold <= r
    OBVIOUS
  <2> HIDE DEF q
  <2> QED
    BY <1>1, <2>3, <2>6, <2>7, <2>8
<1> QED
  BY <1>1, <1>2, <1>3, <1>4

\* A transaction that pays the rate the page advises is labelled "next block"
\* when it joins the line, for every line, every choice of bands in
\* descending order and every size of block.
THEOREM LandingAdvice == QueueSpec => []AdviceIsNextBlock
BY LineInvariant, AdviceStep, PTL

-----------------------------------------------------------------------------
(* Places in line *)

\* What is ahead of a transaction is what pays more: all that waits in front
\* of its band, nothing behind it, and not the transaction itself.
PayMore(t) == {u \in Waiting : entries[u].rate > entries[t].rate}

LEMMA AheadIs ==
    ASSUME LineInv, NEW t \in Waiting
    PROVE  /\ VbytesAhead(t) = Vbytes(PayMore(t)) /\ VbytesAhead(t) \in Nat
           /\ VbytesAhead(t) < TotalVbytes
<1>1. PayMore(t) \in SUBSET Waiting /\ t \in Waiting \ PayMore(t)
  BY DEF PayMore, LineInv
<1>2. {u \in Waiting \ {t} : entries[u].rate > entries[t].rate} = PayMore(t)
  BY DEF PayMore, LineInv
<1>3. Vbytes(PayMore(t)) < Vbytes(PayMore(t) \cup {t})
  BY <1>1, VbytesOfOneMore
<1>4. PayMore(t) \cup {t} \in SUBSET Waiting
  BY <1>1
<1>5. /\ Vbytes(PayMore(t)) \in Nat /\ Vbytes(PayMore(t) \cup {t}) \in Nat
      /\ Vbytes(PayMore(t) \cup {t}) <= TotalVbytes
      /\ TotalVbytes \in Nat
  BY <1>1, <1>4, TotalVbytesIs
<1>6. VbytesAhead(t) = Vbytes(PayMore(t))
  BY <1>2, Zenon DEF VbytesAhead
<1> QED
  BY <1>3, <1>5, <1>6

\* The transaction's place lies in the segment of its band.
LEMMA PlaceInSegment ==
    ASSUME LineInv, NEW t \in Waiting
    PROVE  LET k == BandIndex(entries[t].rate)
           IN  /\ FrontVbytes(k) \in Nat /\ BandVbytes(k) \in Nat
               /\ FrontVbytes(k) = Vbytes(InFront(k))
               /\ FrontVbytes(k) <= VbytesAhead(t)
               /\ VbytesAhead(t) < FrontVbytes(k) + BandVbytes(k)
<1> DEFINE k == BandIndex(entries[t].rate)
           Band == {u \in Waiting : BandIndex(entries[u].rate) = k}
           Within == InFront(k) \cup Band
<1>1. /\ \A u \in Waiting : /\ entries[u].rate \in Nat
                            /\ BandIndex(entries[u].rate) \in Nat
      /\ k \in Nat \ {0}
  BY BandIndexIs, LastIs DEF LineInv
<1>2. /\ InFront(k) \in SUBSET Waiting /\ Band \in SUBSET Waiting
      /\ Within \in SUBSET Waiting /\ InFront(k) \cap Band = {}
  BY <1>1 DEF InFront
<1>3. FrontVbytes(k) = Vbytes(InFront(k))
  BY <1>1, FrontIsVbytes
<1>4. BandVbytes(k) = Vbytes(Band)
  <2>1. {u \in Waiting : ServerBand(entries[u].rate) = k} = Band
    BY <1>1, BandsAgree
  <2> QED
    BY <2>1, Zenon DEF BandVbytes
<1>5. Vbytes(Within) = Vbytes(InFront(k)) + Vbytes(Band)
  <2>1. \A u \in InFront(k) \cup Band : Sizes[u] \in Nat
    BY <1>2, VbytesIsTotal
  <2>2. IsFiniteSet(InFront(k)) /\ IsFiniteSet(Band)
    BY <1>2, VbytesIsTotal
  <2> HIDE DEF k, Band
  <2>3. Total(Sizes, Within) = Total(Sizes, InFront(k)) + Total(Sizes, Band)
    BY <1>2, <2>1, <2>2, TotalOfTwo
  <2> QED
    BY <1>2, <2>3, VbytesIsTotal
<1>6. InFront(k) \in SUBSET PayMore(t) /\ PayMore(t) \in SUBSET Waiting
  <2>1. ASSUME NEW u \in InFront(k)
        PROVE  u \in PayMore(t)
    <3>1. u \in Waiting /\ BandIndex(entries[u].rate) < k
      BY DEF InFront
    <3>2. entries[t].rate < entries[u].rate
      BY <1>1, <3>1, BandOrder
    <3> QED
      BY <1>1, <3>1, <3>2 DEF PayMore
  <2> QED
    BY <2>1 DEF PayMore
<1>7. PayMore(t) \cup {t} \in SUBSET Within /\ t \in Waiting \ PayMore(t)
  <2>1. ASSUME NEW u \in PayMore(t)
        PROVE  u \in Within
    <3>1. u \in Waiting /\ entries[t].rate <= entries[u].rate
      BY <1>1 DEF PayMore
    <3>2. BandIndex(entries[u].rate) <= k
      BY <1>1, <3>1, BandOrder
    <3> QED
      BY <1>1, <3>1, <3>2 DEF InFront
  <2> QED
    BY <1>1, <2>1 DEF PayMore
<1> HIDE DEF k, Band, Within
<1>8. /\ Vbytes(InFront(k)) <= Vbytes(PayMore(t))
      /\ Vbytes(PayMore(t)) < Vbytes(PayMore(t) \cup {t})
      /\ Vbytes(PayMore(t) \cup {t}) <= Vbytes(Within)
  BY <1>2, <1>6, <1>7, VbytesGrows, VbytesOfOneMore
<1>9. PayMore(t) \cup {t} \in SUBSET Waiting
  BY <1>6
<1>10. /\ Vbytes(InFront(k)) \in Nat /\ Vbytes(Band) \in Nat
       /\ Vbytes(PayMore(t)) \in Nat /\ Vbytes(PayMore(t) \cup {t}) \in Nat
  BY <1>2, <1>6, <1>9, VbytesIsTotal
<1>11. /\ FrontVbytes(k) \in Nat /\ BandVbytes(k) \in Nat
       /\ FrontVbytes(k) <= VbytesAhead(t)
       /\ VbytesAhead(t) < FrontVbytes(k) + BandVbytes(k)
  BY <1>3, <1>4, <1>5, <1>8, <1>10, AheadIs
<1> QED
  BY <1>3, <1>11, Zenon DEF k

\* A longer wait is never worded as a shorter span of the same unit.
LEMMA RoundGrows ==
    ASSUME NEW a \in Nat, NEW c \in Nat, a <= c, NEW b \in Nat \ {0}
    PROVE  Round(a, b) \in Nat /\ Round(a, b) <= Round(c, b)
<1>1. 2 * a + b \in Nat /\ 2 * c + b \in Nat /\ 2 * b \in Nat \ {0}
      /\ 2 * a + b <= 2 * c + b
  OBVIOUS
<1> QED
  BY <1>1, QuotientGrows, QuotientIs DEF Round

LEMMA SpansGrow ==
    ASSUME NEW s \in Nat, NEW w \in Nat, s <= w,
           FormatEtaShort(s).unit = FormatEta(w).unit
    PROVE  FormatEtaShort(s).n <= FormatEta(w).n
<1>1. CASE s < 90
  <2>1. FormatEtaShort(s) = Span(1, "minutes")
    BY <1>1 DEF FormatEtaShort
  <2>2. CASE w < 90
    BY <2>1, <2>2 DEF FormatEta, Span
  <2>3. CASE w >= 90 /\ w < 5400
    <3>1. Round(90, 60) = 2
      BY DEF Round
    <3>2. 2 <= Round(w, 60)
      BY <2>3, <3>1, RoundGrows
    <3>3. Round(w, 60) \in Nat
      BY RoundGrows
    <3> QED
      BY <2>1, <2>3, <3>2, <3>3 DEF FormatEta, Span
  <2>4. CASE w >= 5400
    BY <2>1, <2>4 DEF FormatEta, Span
  <2> QED
    BY <2>2, <2>3, <2>4
<1>2. CASE s >= 90 /\ s < 5400
  <2>1. FormatEtaShort(s) = Span(Round(s, 60), "minutes") /\ w >= 90
    BY <1>2 DEF FormatEtaShort
  <2>2. CASE w < 5400
    <3>1. FormatEta(w) = Span(Round(w, 60), "minutes")
      BY <2>1, <2>2 DEF FormatEta
    <3>2. Round(s, 60) <= Round(w, 60)
      BY RoundGrows
    <3> QED
      BY <2>1, <3>1, <3>2 DEF Span
  <2>3. CASE w >= 5400
    BY <2>1, <2>3 DEF FormatEta, Span
  <2> QED
    BY <2>2, <2>3
<1>3. CASE s >= 5400
  <2>1. FormatEtaShort(s) = Span(Round(s, 3600), "hours") /\ w >= 5400
    BY <1>3 DEF FormatEtaShort
  <2>2. CASE w < 172800
    <3>1. FormatEta(w) = Span(Round(w, 3600), "hours")
      BY <2>1, <2>2 DEF FormatEta
    <3>2. Round(s, 3600) <= Round(w, 3600)
      BY DEF Round
    <3> QED
      BY <2>1, <3>1, <3>2 DEF Span
  <2>3. CASE w >= 172800
    BY <2>1, <2>3 DEF FormatEta, Span
  <2> QED
    BY <2>2, <2>3
<1> QED
  BY <1>1, <1>2, <1>3

\* The caption's "whole line clears in" is at least the time to the place of
\* any transaction, in tenths of a block.
LEMMA ClearIs ==
    ASSUME LineInv, NEW t \in Waiting
    PROVE  10 * EtaBlocks(t) <= ClearTenths + 10
<1> DEFINE V == VbytesPerBlock
           W == TotalVbytes
           A == VbytesAhead(t)
           tenths == Round(10 * CutoffFraction[2], CutoffFraction[1])
<1>1. /\ V \in Nat \ {0} /\ W \in Nat /\ A \in Nat /\ A < W
  BY ParametersAre, TotalVbytesIs, AheadIs
<1>2. /\ A \div V \in Nat /\ V * (A \div V) <= A
      /\ EtaBlocks(t) = A \div V + 1
  BY <1>1, QuotientIs DEF EtaBlocks
<1>3. tenths \in Nat
  <2>1. /\ 10 * CutoffFraction[2] \in Nat
        /\ CutoffFraction[1] \in Nat \ {0}
    BY <1>1 DEF CutoffFraction
  <2> QED
    BY <2>1, RoundGrows
<1>4. ClearTenths \in Nat /\ 10 <= ClearTenths /\ tenths <= ClearTenths
  <2>1. \E x \in {10, tenths} : \A y \in {10, tenths} : x >= y
    BY <1>3
  <2>2. ClearTenths = Max({10, tenths})
    BY DEF ClearTenths
  <2> HIDE DEF tenths
  <2> QED
    BY <1>3, <2>1, <2>2 DEF Max
<1>5. CASE W <= V
  <2>1. A \div V = 0
    BY <1>1, <1>5
  <2> QED
    BY <1>2, <1>4, <2>1
<1>6. CASE V < W
  <2> DEFINE q == A \div V
  <2>1. tenths = (2 * (10 * W) + V) \div (2 * V)
    BY <1>1, <1>6 DEF CutoffFraction, Round
  <2>2. ((2 * V) * (10 * q)) \div (2 * V) = 10 * q
    BY <1>1, <1>2, QuotientOfProduct
  <2>3. (2 * V) * (10 * q) <= 2 * (10 * W) + V
    <3>1. (2 * V) * (10 * q) = 20 * (V * q) /\ V * q \in Nat
      BY <1>1, <1>2
    <3> QED
      BY <1>1, <1>2, <3>1
  <2>4. 10 * q <= tenths
    <3>1. /\ (2 * V) * (10 * q) \in Nat /\ 2 * (10 * W) + V \in Nat
          /\ 2 * V \in Nat \ {0}
      BY <1>1, <1>2
    <3> HIDE DEF q, tenths
    <3> QED
      BY <2>1, <2>2, <2>3, <3>1, QuotientGrows
  <2> QED
    BY <1>2, <1>3, <1>4, <2>4
<1> QED
  BY <1>1, <1>5, <1>6

LEMMA PlacesStep ==
    ASSUME LineInv
    PROVE  PlacesAgree
<1> SUFFICES ASSUME NEW t \in Waiting
             PROVE  LET rate    == entries[t].rate
                        chip    == EtaChip(rate)
                        place   == PlaceInLine(t)
                        segment == QueueSegments[BandIndex(rate)]
                    IN  /\ BandEtaBlocks(rate) <= EtaBlocks(t)
                        /\ chip.unit = place.eta.unit => chip.n <= place.eta.n
                        /\ \A u \in Waiting :
                               rate <= entries[u].rate
                                 => EtaBlocks(u) <= EtaBlocks(t)
                        /\ 10 * EtaBlocks(t) <= ClearTenths + 10
                        /\ EtaBlocks(t) = 1
                             <=> Less(place.you, Marker(CutoffFraction))
                        /\ ~ Less(place.you, <<segment[1], TotalVbytes>>)
                        /\ Less(place.you, <<segment[2], TotalVbytes>>)
                        /\ place.nextInLine => place.you[1] = 0
  BY Zenon DEF PlacesAgree
<1> DEFINE V == VbytesPerBlock
           W == TotalVbytes
           A == VbytesAhead(t)
           rate == entries[t].rate
           k == BandIndex(rate)
           place == PlaceInLine(t)
<1>1. /\ V \in Nat \ {0} /\ W \in Nat /\ A \in Nat /\ A < W
      /\ Interval \in Nat \ {0} /\ rate \in Nat
      /\ A = Vbytes(PayMore(t))
  BY ParametersAre, TotalVbytesIs, AheadIs DEF LineInv
<1>2. /\ FrontVbytes(k) \in Nat /\ BandVbytes(k) \in Nat
      /\ FrontVbytes(k) = Vbytes(InFront(k))
      /\ FrontVbytes(k) <= A
      /\ A < FrontVbytes(k) + BandVbytes(k)
  BY PlaceInSegment
<1>3. A \div V \in Nat /\ EtaBlocks(t) = A \div V + 1
  BY <1>1, QuotientIs DEF EtaBlocks
<1>4. /\ BandEtaBlocks(rate) \in Nat \ {0}
      /\ BandEtaBlocks(rate) <= EtaBlocks(t)
  <2>1. /\ FrontVbytes(k) \div V \in Nat
        /\ FrontVbytes(k) \div V <= A \div V
    BY <1>1, <1>2, QuotientIs, QuotientGrows
  <2>2. BandEtaBlocks(rate) = IF W <= V THEN 1 ELSE FrontVbytes(k) \div V + 1
    BY <1>1, <1>2, BandEtaIs
  <2> QED
    BY <1>3, <2>1, <2>2
<1>5. ASSUME EtaChip(rate).unit = place.eta.unit
      PROVE  EtaChip(rate).n <= place.eta.n
  <2> DEFINE s == BandEtaBlocks(rate) * Interval
             w == EtaBlocks(t) * Interval
  <2>1. s \in Nat /\ w \in Nat /\ s <= w
    <3>1. Interval * BandEtaBlocks(rate) <= Interval * EtaBlocks(t)
      BY <1>1, <1>3, <1>4, ProductGrows
    <3> QED
      BY <1>1, <1>3, <1>4, <3>1
  <2>2. place.eta = FormatEta(w)
    BY DEF PlaceInLine, EtaSeconds
  <2> HIDE DEF s, w
  <2>3. BandEtaBlocks(rate) # 1
    <3>1. FormatEta(w).unit # "block"
      BY <2>1 DEF FormatEta, Span
    <3>2. BandEtaBlocks(rate) = 1 => EtaChip(rate).unit = "block"
      BY DEF EtaChip, Span
    <3> QED
      BY <1>5, <2>2, <3>1, <3>2
  <2>4. EtaChip(rate) = FormatEtaShort(s)
    BY <2>3 DEF EtaChip, s
  <2> QED
    BY <1>5, <2>1, <2>2, <2>4, SpansGrow
<1>6. ASSUME NEW u \in Waiting, rate <= entries[u].rate
      PROVE  EtaBlocks(u) <= EtaBlocks(t)
  <2>1. PayMore(u) \in SUBSET PayMore(t) /\ PayMore(t) \in SUBSET Waiting
    BY <1>6 DEF PayMore, LineInv
  <2>2. /\ VbytesAhead(u) \in Nat /\ VbytesAhead(u) = Vbytes(PayMore(u))
        /\ Vbytes(PayMore(u)) <= Vbytes(PayMore(t))
    BY <2>1, AheadIs, VbytesGrows
  <2>3. VbytesAhead(u) \div V <= A \div V /\ VbytesAhead(u) \div V \in Nat
    BY <1>1, <2>2, QuotientGrows, QuotientIs
  <2> QED
    BY <1>3, <2>3 DEF EtaBlocks
<1>7. place.you = <<A, W>>
  BY <1>1 DEF PlaceInLine, Marker, QueueVbytesFraction
<1>8. EtaBlocks(t) = 1 <=> Less(place.you, Marker(CutoffFraction))
  <2>1. EtaBlocks(t) = 1 <=> A < V
    <3>1. A \div V = 0 => A < V
      BY <1>1, QuotientIs
    <3>2. A < V => A \div V = 0
      BY <1>1
    <3> QED
      BY <1>3, <3>1, <3>2
  <2>2. CASE W <= V
    <3>1. Marker(CutoffFraction) = <<1, 1>>
      BY <2>2 DEF Marker, CutoffFraction
    <3> QED
      BY <1>1, <1>7, <2>1, <2>2, <3>1 DEF Less
  <2>3. CASE V < W
    <3>1. Marker(CutoffFraction) = <<V, W>>
      BY <1>1, <2>3 DEF Marker, CutoffFraction
    <3>2. A * W < V * W <=> A < V
      BY <1>1
    <3> QED
      BY <1>7, <2>1, <3>1, <3>2 DEF Less
  <2> QED
    BY <1>1, <2>2, <2>3
<1>9. QueueSegments[k] = <<FrontVbytes(k), FrontVbytes(k) + BandVbytes(k)>>
  BY <1>1, BandIndexIs DEF QueueSegments
<1>10. ~Less(place.you, <<FrontVbytes(k), W>>)
  <2>1. W * FrontVbytes(k) <= W * A
    BY <1>1, <1>2, ProductGrows
  <2> QED
    BY <1>1, <1>2, <1>7, <2>1 DEF Less
<1>11. Less(place.you, <<FrontVbytes(k) + BandVbytes(k), W>>)
  <2> DEFINE E == FrontVbytes(k) + BandVbytes(k)
  <2>1. E \in Nat /\ A + 1 <= E /\ A + 1 \in Nat
    BY <1>1, <1>2
  <2> HIDE DEF E
  <2>2. W * (A + 1) <= W * E
    BY <1>1, <2>1, ProductGrows
  <2>3. A * W < E * W
    BY <1>1, <2>1, <2>2
  <2> QED
    BY <1>7, <2>3 DEF Less, E
<1>12. ASSUME place.nextInLine
       PROVE  place.you[1] = 0
  <2>1. PayMore(t) = {}
    BY <1>1, <1>12 DEF PlaceInLine, PayMore, LineInv
  <2>2. Vbytes({}) = 0
    BY TotalOfNone, Zenon DEF Vbytes
  <2> QED
    BY <1>1, <1>7, <2>1, <2>2
<1> HIDE DEF V, W, A, place, k
<1> QED
  BY <1>4, <1>5, <1>6, <1>8, <1>9, <1>10, <1>11, <1>12, ClearIs
     DEF place, k, W

\* The page of a waiting transaction agrees with the chip it was opened from,
\* with the caption and with its own bar, for every line, every choice of
\* bands, every block size and every block interval.
THEOREM LandingPlaces == QueueSpec => []PlacesAgree
BY LineInvariant, PlacesStep, PTL

-----------------------------------------------------------------------------
(* The live layer *)

\* Pushes travel over a connection; timeouts are what they seem to be.
LayerInv ==
    /\ LiveLayerSound
    /\ ~open => inbox = {}
    /\ flight \in Nat \cup {None}
    /\ \A t \in flashTimers : t = [of |-> t.of, left |-> t.left]

\* A block that arrives starts its flash with one timeout, and a flight
\* unless the height announced is the one already flying.
LEMMA BlockArrivesSound ==
    ASSUME LayerInv, open, open' = open, NEW b, BlockArrives(b)
    PROVE  LayerInv'
<1>1. FlightTime \in Nat /\ FlightTime # None
  BY DashboardAssumption DEF DashboardAssumption
<1>2. minedFlash' = b /\ mempool' = mempool
      /\ flashTimers' = {[of |-> b, left |-> FlashTime]}
  BY DEF BlockArrives
<1>3. minedFlash' # None /\ flying' # None => flight' # None
  BY <1>1 DEF BlockArrives, Fly, LayerInv, LiveLayerSound
<1>4. flight' \in Nat \cup {None}
  BY <1>1 DEF BlockArrives, Fly, LayerInv
<1>5. \A t \in flashTimers' :
          t.of = b /\ t = [of |-> t.of, left |-> t.left]
  BY <1>2
<1> QED
  BY <1>2, <1>3, <1>4, <1>5 DEF LayerInv, LiveLayerSound

\* Time passing keeps every timeout, with the block it is of.
LEMMA TickSound ==
    ASSUME LayerInv, Tick
    PROVE  LayerInv'
<1>1. UNCHANGED <<open, inbox, mempool, minedFlash, flying>>
  BY DEF Tick, linkVars, dataVars
<1>2. flight' \in Nat \cup {None} /\ (flight # None => flight' # None)
  <2>1. CASE flight = None
    BY <2>1 DEF Tick
  <2>2. CASE flight # None
    <3>1. flight \in Nat /\ flight # 0 /\ flight' = flight - 1
      BY <2>2 DEF Tick, Due, LayerInv
    <3>2. flight' \in Nat
      BY <3>1
    <3> QED
      BY <3>2, DashboardAssumption DEF DashboardAssumption
  <2> QED
    BY <2>1, <2>2
<1>3. \A t \in flashTimers' : \E u \in flashTimers :
          t = [of |-> u.of, left |-> u.left - 1]
  BY DEF Tick, LayerInv
<1>4. \A t \in flashTimers' : /\ t = [of |-> t.of, left |-> t.left]
                             /\ minedFlash \in {None, t.of}
  BY <1>3 DEF LayerInv, LiveLayerSound
<1>5. flashTimers # {} => flashTimers' # {}
  BY DEF Tick
<1> QED
  BY <1>1, <1>2, <1>4, <1>5 DEF LayerInv, LiveLayerSound

LEMMA LayerStep ==
    ASSUME LayerInv, [Next]_vars
    PROVE  LayerInv'
<1>1. ASSUME UNCHANGED <<open, mempool, minedFlash, flashTimers, flying,
                         flight>>,
             inbox' = {} \/ open
      PROVE  LayerInv'
  BY <1>1 DEF LayerInv, LiveLayerSound
<1>2. CASE BlockConnected \/ Refresh \/ PushStats
  BY <1>1, <1>2 DEF BlockConnected, Refresh, PushStats, Push, LayerInv,
     linkVars, dataVars, timerVars
<1>3. CASE MempoolArrives
  BY <1>3 DEF MempoolArrives, LayerInv, LiveLayerSound, linkVars, timerVars
<1>4. ASSUME NEW type, Receive(type)
      PROVE  LayerInv'
  <2>1. PICK m \in inbox : Arrives(m)
    BY <1>4 DEF Receive, InFlight
  <2>2. open /\ open' = open
    BY <2>1 DEF LayerInv, Arrives
  <2> QED
    BY <1>1, <2>1, <2>2, BlockArrivesSound
       DEF Arrives, ApplyStats, timerVars
<1>5. CASE Poll \/ LoadReads
  BY <1>1, <1>5 DEF Poll, LoadReads, LayerInv, dataVars, timerVars
<1>6. ASSUME NEW l \in loads, LoadReturns(l) \/ LoadFails(l)
      PROVE  LayerInv'
  BY <1>1, <1>6
     DEF LoadReturns, LoadFails, ApplyStats, LayerInv, timerVars
<1>7. CASE Opens
  BY <1>7 DEF Opens, LayerInv, LiveLayerSound, dataVars, timerVars
<1>8. CASE Closes
  BY <1>8 DEF Closes, LayerInv, LiveLayerSound
<1>9. CASE FlightEnds
  BY <1>9 DEF FlightEnds, LayerInv, LiveLayerSound, linkVars, dataVars
<1>10. CASE FlashEnds
  BY <1>10 DEF FlashEnds, LayerInv, LiveLayerSound, linkVars
<1>11. CASE UNCHANGED vars
  BY <1>1, <1>11 DEF vars, linkVars, dataVars, timerVars, LayerInv
<1> QED
  BY <1>2, <1>3, <1>4, <1>5, <1>6, <1>7, <1>8, <1>9, <1>10, <1>11, TickSound
     DEF Next, Loaded

\* No live payload outlives its connection, a flash on the page has a timeout
\* of its own and no other ends it, and while it is up a flight has the
\* timeout that ends it.
THEOREM DashboardLiveLayer ==
    Spec => []LiveLayerSound
<1>1. Init => LayerInv
  BY DEF Init, LayerInv, LiveLayerSound
<1>2. LayerInv => LiveLayerSound
  BY DEF LayerInv
<1> QED
  BY <1>1, <1>2, LayerStep, PTL DEF Spec

-----------------------------------------------------------------------------
(* The ribbon *)

\* What is shown, pushed or answered is a finite set of blocks.
IsRibbon(B) == IsFiniteSet(B) /\ \A b \in B : b.height \in Nat

RibbonInv ==
    /\ chain \in Seq(Branch)
    /\ cached # None => IsRibbon(cached.window)
    /\ \A m \in inbox : /\ m.type = "stats" => IsRibbon(m.stats.window)
                        /\ m.type = "block" => m.block.height \in Nat
    /\ \A l \in loads : l # Asked => IsRibbon(l.window)
    /\ IsRibbon(blocks)

\* Newest chooses what its name says.
LEMMA NewestIs ==
    ASSUME NEW B, IsRibbon(B), B # {}
    PROVE  /\ Newest(B) \in Nat
           /\ \E b \in B : b.height = Newest(B)
           /\ \A b \in B : b.height <= Newest(B)
<1> DEFINE heights == {b.height : b \in B}
           g == [b \in B |-> b.height]
<1>1. heights \in SUBSET Nat /\ heights # {}
  BY DEF IsRibbon
<1>2. IsFiniteSet(heights)
  <2>1. g \in Surjection(B, heights)
    BY Fun_IsSurj, Zenon
  <2> QED
    BY <2>1, FS_Surjection DEF IsRibbon
<1>3. \E h \in heights : \A b \in B : b.height <= h
  <2>1. \E h \in heights : \A i \in heights : h >= i
    <3> HIDE DEF heights
    <3> QED
      BY <1>1, <1>2, FiniteGreatest
  <2>2. PICK h \in heights : \A i \in heights : h >= i
    BY <2>1
  <2>3. ASSUME NEW b \in B
        PROVE  b.height <= h
    <3>1. b.height \in heights
      OBVIOUS
    <3>2. h >= b.height /\ h \in Nat /\ b.height \in Nat
      BY <1>1, <2>2, <3>1
    <3> QED
      BY <3>2
  <2> QED
    BY <2>3
<1>4. Newest(B) \in heights /\ \A b \in B : b.height <= Newest(B)
  BY <1>3, Zenon DEF Newest
<1> QED
  BY <1>1, <1>4

\* Merging keeps a block at least as high as any of either side.
LEMMA MergeKeepsNewest ==
    ASSUME NEW P, IsRibbon(P), NEW F, IsRibbon(F)
    PROVE  /\ IsRibbon(Merge(P, F))
           /\ F # {} => /\ Merge(P, F) # {}
                        /\ Newest(Merge(P, F)) >= Newest(F)
<1> DEFINE all == P \cup {b \in F : \A p \in P : p.height # b.height}
           Higher(b) == {c \in all : c.height > b.height}
<1>1. IsRibbon(all)
  <2>1. IsFiniteSet({b \in F : \A p \in P : p.height # b.height})
    BY FS_Subset DEF IsRibbon
  <2> QED
    BY <2>1, FS_Union DEF IsRibbon
<1>2. Merge(P, F) = {b \in all : Cardinality(Higher(b)) < RibbonMax}
  BY DEF Merge
<1> HIDE DEF all
<1>3. IsRibbon(Merge(P, F))
  BY <1>1, <1>2, FS_Subset DEF IsRibbon
<1>4. ASSUME F # {}
      PROVE  Merge(P, F) # {} /\ Newest(Merge(P, F)) >= Newest(F)
  <2>1. all # {}
    BY <1>4 DEF all
  <2>2. PICK top \in all : \A b \in all : b.height <= top.height
    BY <1>1, <2>1, NewestIs
  <2>3. Higher(top) = {}
    BY <1>1, <2>2 DEF IsRibbon
  <2>4. Cardinality(Higher(top)) < RibbonMax
    BY <2>3, FS_EmptySet, DashboardAssumption DEF DashboardAssumption
  <2>5. top \in Merge(P, F)
    BY <1>2, <2>4
  <2>6. PICK old \in F : old.height = Newest(F)
    BY <1>4, NewestIs
  <2>7. \E b \in all : b.height = old.height
    BY DEF all
  <2>8. old.height <= top.height
    BY <2>2, <2>7
  <2>9. top.height <= Newest(Merge(P, F)) /\ Newest(Merge(P, F)) \in Nat
    BY <1>3, <2>5, NewestIs
  <2>10. top.height \in Nat /\ old.height \in Nat
    BY <1>1 DEF IsRibbon
  <2> QED
    BY <2>5, <2>6, <2>8, <2>9, <2>10
<1> QED
  BY <1>3, <1>4

LEMMA WindowIsRibbon ==
    ASSUME NEW c \in Seq(Branch)
    PROVE  IsRibbon(Window(c))
<1> DEFINE H == {i \in 1 .. Len(c) : i + RibbonMax > Len(c)}
           g == [h \in H |-> BlockAt(c, h)]
<1>1. Len(c) \in Nat /\ 1 \in Int /\ Len(c) \in Int
  OBVIOUS
<1>2. IsFiniteSet(1 .. Len(c))
  BY <1>1, FS_Interval, Zenon
<1>3. IsFiniteSet(H)
  BY <1>2, FS_Subset
<1>4. g \in Surjection(H, Window(c))
  BY Fun_IsSurj, Zenon DEF Window
<1>5. IsFiniteSet(Window(c))
  BY <1>3, <1>4, FS_Surjection
<1>6. \A b \in Window(c) : b.height \in Nat
  BY <1>1 DEF Window, BlockAt
<1> QED
  BY <1>5, <1>6 DEF IsRibbon

LEMMA RibbonInit == Init => RibbonInv
<1> SUFFICES ASSUME Init
             PROVE  RibbonInv
  OBVIOUS
<1>1. (CHOOSE b \in Branch : TRUE) \in Branch
  BY DashboardAssumption DEF DashboardAssumption
<1>2. chain \in Seq(Branch)
  BY <1>1 DEF Init
<1>3. IsRibbon({})
  BY FS_EmptySet DEF IsRibbon
<1> QED
  BY <1>2, <1>3 DEF Init, RibbonInv

\* The two payloads that reach the ribbon keep its newest block.
LEMMA ApplyStatsKeeps ==
    ASSUME RibbonInv, NEW s, IsRibbon(s.window), ApplyStats(s)
    PROVE  /\ IsRibbon(blocks')
           /\ blocks # {} => Newest(blocks') >= Newest(blocks)
BY MergeKeepsNewest DEF ApplyStats, RibbonInv

LEMMA BlockArrivesKeeps ==
    ASSUME RibbonInv, NEW b, b.height \in Nat, BlockArrives(b)
    PROVE  /\ IsRibbon(blocks')
           /\ blocks # {} => Newest(blocks') >= Newest(blocks)
<1>1. IsRibbon({b})
  BY FS_Singleton DEF IsRibbon
<1> QED
  BY <1>1, MergeKeepsNewest DEF BlockArrives, RibbonInv

\* A step that leaves the ribbon alone keeps its newest block.
LEMMA RibbonUntouched ==
    ASSUME RibbonInv, UNCHANGED blocks
    PROVE  /\ IsRibbon(blocks')
           /\ blocks # {} => Newest(blocks') >= Newest(blocks)
BY NewestIs DEF RibbonInv

LEMMA RibbonStep ==
    ASSUME RibbonInv, [Next]_vars
    PROVE  /\ RibbonInv'
           /\ blocks # {} => Newest(blocks') >= Newest(blocks)
<1>1. CASE BlockConnected
  <2>1. UNCHANGED <<cached, open, loads, blocks>>
    BY <1>1 DEF BlockConnected, dataVars
  <2>2. PICK b \in Branch, base \in {Len(chain), Len(chain) - 1} :
          /\ base > 0
          /\ chain' = SubSeq(chain, 1, base)
                         \o [i \in 1 .. Len(chain) - base + 1 |-> b]
          /\ \E H \in SUBSET (base + 1 .. Len(chain')) :
              Push({[type |-> "block", block |-> BlockAt(chain', h)] : h \in H})
    BY <1>1 DEF BlockConnected
  <2>3. base \in 1 .. Len(chain) /\ Len(chain) - base + 1 \in Nat
    <3>1. Len(chain) \in Nat
      BY DEF RibbonInv
    <3>2. base = Len(chain) \/ base = Len(chain) - 1
      BY <2>2
    <3>3. base > 0
      BY <2>2
    <3> QED
      BY <3>1, <3>2, <3>3
  <2>4. chain' \in Seq(Branch)
    <3>1. SubSeq(chain, 1, base) \in Seq(Branch)
      BY <2>3 DEF RibbonInv
    <3>2. [i \in 1 .. Len(chain) - base + 1 |-> b] \in Seq(Branch)
      BY <2>3
    <3> QED
      BY <2>2, <3>1, <3>2
  <2>5. PICK H \in SUBSET (base + 1 .. Len(chain')) :
            Push({[type |-> "block", block |-> BlockAt(chain', h)] : h \in H})
    BY <2>2
  <2>6. \A h \in H : h \in Nat
    BY <2>3, <2>4
  <2>7. \A m \in inbox' :
           m \in inbox \/ (m.type = "block" /\ m.block.height \in Nat)
    <3>1. SUFFICES ASSUME NEW m \in inbox', m \notin inbox
                   PROVE  m.type = "block" /\ m.block.height \in Nat
      OBVIOUS
    <3>2. PICK h \in H : m = [type |-> "block", block |-> BlockAt(chain', h)]
      BY <2>5, <3>1 DEF Push
    <3>3. m.type = "block" /\ m.block = BlockAt(chain', h)
      BY <3>2
    <3>4. m.block.height = h
      BY <3>3 DEF BlockAt
    <3> QED
      BY <2>6, <3>3, <3>4
  <2> QED
    BY <2>1, <2>4, <2>7, RibbonUntouched DEF RibbonInv
<1>2. CASE Refresh
  <2>1. UNCHANGED <<chain, inbox, loads, blocks>>
    BY <1>2 DEF Refresh, linkVars, dataVars
  <2>2. IsRibbon(cached'.window)
    <3>1. IsRibbon(Window(chain))
      BY WindowIsRibbon DEF RibbonInv
    <3>2. PICK W \in SUBSET Window(chain) :
             cached' = [height |-> Len(chain), window |-> W]
      <4>1. CASE cached' = [height |-> Len(chain), window |-> Window(chain)]
        BY <4>1
      <4>2. ASSUME NEW h,
                   cached' = [height |-> Len(chain),
                              window |-> {b \in Window(chain) : b.height > h}]
            PROVE  \E W \in SUBSET Window(chain) :
                       cached' = [height |-> Len(chain), window |-> W]
        BY <4>2
      <4> QED
        BY <1>2, <4>1, <4>2 DEF Refresh
    <3>3. cached'.window = W
      BY <3>2
    <3>4. IsRibbon(W)
      BY <3>1, FS_Subset DEF IsRibbon
    <3> QED
      BY <3>3, <3>4
  <2> QED
    BY <2>1, <2>2, RibbonUntouched DEF RibbonInv
<1>3. CASE PushStats
  <2>1. UNCHANGED <<chain, cached, loads, blocks>>
    BY <1>3 DEF PushStats, serverVars, dataVars
  <2>2. \A m \in inbox' :
           m \in inbox \/ (m.type = "stats" /\ m.stats = cached)
    BY <1>3 DEF PushStats, Push
  <2>3. cached # None
    BY <1>3 DEF PushStats
  <2> QED
    BY <2>1, <2>2, <2>3, RibbonUntouched DEF RibbonInv
<1>4. CASE MempoolArrives \/ Poll \/ Opens
  <2>1. UNCHANGED <<chain, cached, inbox, blocks>>
    BY <1>4 DEF MempoolArrives, Poll, Opens, serverVars, linkVars, dataVars
  <2>2. \A l \in loads' : l \in loads \/ l = Asked
    BY <1>4 DEF MempoolArrives, Poll, Opens, linkVars
  <2> QED
    BY <2>1, <2>2, RibbonUntouched DEF RibbonInv
<1>5. ASSUME NEW type, Receive(type)
      PROVE  /\ RibbonInv'
             /\ blocks # {} => Newest(blocks') >= Newest(blocks)
  <2>1. PICK m \in inbox : Arrives(m)
    BY <1>5 DEF Receive, InFlight
  <2>2. UNCHANGED <<chain, cached, loads>> /\ inbox' \subseteq inbox
    BY <2>1 DEF Arrives, serverVars
  <2>3. \/ m.type = "stats" /\ ApplyStats(m.stats)
        \/ m.type = "block" /\ BlockArrives(m.block)
    BY <2>1 DEF Arrives
  <2>4. /\ IsRibbon(blocks')
        /\ blocks # {} => Newest(blocks') >= Newest(blocks)
    BY <2>3, ApplyStatsKeeps, BlockArrivesKeeps DEF RibbonInv
  <2> QED
    BY <2>2, <2>4 DEF RibbonInv
<1>6. CASE LoadReads
  <2>1. UNCHANGED <<chain, cached, inbox, blocks>>
    BY <1>6 DEF LoadReads, serverVars, dataVars
  <2>2. cached # None /\ \A l \in loads' : l \in loads \/ l = cached
    BY <1>6 DEF LoadReads
  <2> QED
    BY <2>1, <2>2, RibbonUntouched DEF RibbonInv
<1>7. ASSUME NEW s \in loads, LoadReturns(s)
      PROVE  /\ RibbonInv'
             /\ blocks # {} => Newest(blocks') >= Newest(blocks)
  <2>1. UNCHANGED <<chain, cached, inbox>> /\ loads' \subseteq loads
    BY <1>7 DEF LoadReturns, serverVars
  <2>2. IsRibbon(s.window) /\ ApplyStats(s)
    BY <1>7 DEF LoadReturns, RibbonInv
  <2> QED
    BY <2>1, <2>2, ApplyStatsKeeps DEF RibbonInv
<1>8. ASSUME NEW l \in loads, LoadFails(l)
      PROVE  /\ RibbonInv'
             /\ blocks # {} => Newest(blocks') >= Newest(blocks)
  <2>1. UNCHANGED <<chain, cached, inbox, blocks>> /\ loads' \subseteq loads
    BY <1>8 DEF LoadFails, serverVars
  <2> QED
    BY <2>1, RibbonUntouched DEF RibbonInv
<1>9. CASE Closes
  <2>1. UNCHANGED <<chain, cached, loads, blocks>> /\ inbox' = {}
    BY <1>9 DEF Closes, serverVars
  <2> QED
    BY <2>1, RibbonUntouched DEF RibbonInv
<1>10. CASE Tick \/ FlightEnds \/ FlashEnds \/ UNCHANGED vars
  <2>1. UNCHANGED <<chain, cached, inbox, loads, blocks>>
    BY <1>10 DEF Tick, FlightEnds, FlashEnds, vars, serverVars, linkVars,
       dataVars
  <2> QED
    BY <2>1, RibbonUntouched DEF RibbonInv
<1> QED
  BY <1>1, <1>2, <1>3, <1>4, <1>5, <1>6, <1>7, <1>8, <1>9, <1>10
     DEF Next, Loaded

\* The ribbon never loses the newest block to an older payload, whatever
\* overtakes what, for any chain, reorganisation and length of the ribbon.
THEOREM DashboardNewestStays == Spec => NewestStays
<1>1. RibbonInv /\ [Next]_vars => RibbonInv'
  BY RibbonStep
<1>2. RibbonInv /\ [Next]_vars
        => [blocks # {} => Newest(blocks') >= Newest(blocks)]_vars
  BY RibbonStep
<1> QED
  BY RibbonInit, <1>1, <1>2, PTL DEF Spec, NewestStays
============================================================================
