-------------------------- MODULE InductionLemmas --------------------------
(***************************************************************************)
(* Facts about natural numbers, sequences and finite sets that the proofs  *)
(* of several components share, in a form the provers can apply: induction *)
(* over a set of numbers, or over the subsets of a finite set, rather than *)
(* over a predicate.                                                       *)
(***************************************************************************)
EXTENDS Integers, Sequences, FiniteSets, FiniteSetsExt, Functions, FiniteSetTheorems, WellFoundedInduction, TLAPS

\* A sequence is a function on 1 .. Len(s).
LEMMA SeqLength ==
  ASSUME NEW S, NEW s \in Seq(S)
  PROVE  Len(s) \in Nat /\ DOMAIN s = 1 .. Len(s) /\ s \in [1 .. Len(s) -> S]
  OBVIOUS

\* A function on 1 .. n is a sequence of its values.
LEMMA SeqOfValues ==
  ASSUME NEW S, NEW n \in Nat, NEW f \in [1 .. n -> S]
  PROVE  f \in Seq(S) /\ Len(f) = n
  OBVIOUS

\* The elements of a sequence that has grown by one.
LEMMA SeqAppended ==
  ASSUME NEW S, NEW s \in Seq(S), NEW x \in S
  PROVE  /\ Append(s, x) \in Seq(S) /\ Len(Append(s, x)) = Len(s) + 1 /\ Append(s, x) # <<>>
         /\ \A i \in 1 .. Len(s) : Append(s, x)[i] = s[i]
         /\ Append(s, x)[Len(s) + 1] = x
  OBVIOUS

\* The elements of a sequence whose head was taken.
LEMMA SeqPopped ==
  ASSUME NEW S, NEW s \in Seq(S), s # <<>>
  PROVE  /\ Len(s) \in Nat \ {0} /\ Head(s) \in S
         /\ Tail(s) \in Seq(S) /\ Len(Tail(s)) = Len(s) - 1
         /\ \A i \in 1 .. Len(Tail(s)) : Tail(s)[i] = s[i + 1]
  OBVIOUS

\* The elements of m .. n of a sequence.
LEMMA SeqPart ==
  ASSUME NEW S, NEW s \in Seq(S), NEW m \in 1 .. Len(s) + 1, NEW n \in m - 1 .. Len(s)
  PROVE  /\ SubSeq(s, m, n) \in Seq(S) /\ Len(SubSeq(s, m, n)) = n - m + 1
         /\ \A i \in 1 .. n - m + 1 : SubSeq(s, m, n)[i] = s[m + i - 1]
  OBVIOUS

\* The elements of a concatenation.
LEMMA SeqJoined ==
  ASSUME NEW S, NEW s \in Seq(S), NEW t \in Seq(S)
  PROVE  /\ s \o t \in Seq(S) /\ Len(s \o t) = Len(s) + Len(t)
         /\ \A i \in 1 .. Len(s) + Len(t) :
                (s \o t)[i] = IF i <= Len(s) THEN s[i] ELSE t[i - Len(s)]
  OBVIOUS

\* A set of natural numbers has a smallest element.
LEMMA NatMin ==
  ASSUME NEW T \in SUBSET Nat, T # {}
  PROVE  \E n \in T : \A m \in T : n <= m
  <1> DEFINE R == OpToRel(<, Nat)
  <1>1. IsWellFoundedOn(R, Nat)
    BY NatLessThanWellFounded
  <1>2. \A m, n \in Nat : <<m, n>> \in R <=> m < n
    BY DEF OpToRel
  <1>3. \E n \in T : \A m \in T : <<m, n>> \notin R
    <2> HIDE DEF R
    <2> QED BY <1>1, WFMin
  <1>4. PICK n \in T : \A m \in T : <<m, n>> \notin R
    BY <1>3
  <1>5. \A m \in T : ~(m < n)
    <2> HIDE DEF R
    <2> QED BY <1>2, <1>4
  <1> QED
    BY <1>5

\* Induction: a set that holds 0 and the successor of each of its members.
LEMMA NatIsInductive ==
  ASSUME NEW S, 0 \in S, \A n \in Nat : n \in S => n + 1 \in S
  PROVE  Nat \subseteq S
  <1> SUFFICES ASSUME ~(Nat \subseteq S) PROVE FALSE
    OBVIOUS
  <1> DEFINE T == {n \in Nat : n \notin S}
  <1>1. PICK n \in T : \A m \in T : n <= m
    BY NatMin
  <1>2. n # 0 /\ n - 1 \in Nat /\ n - 1 \notin T
    BY <1>1
  <1> QED
    BY <1>1, <1>2

\* A set of numbers with an upper bound has a largest element.
LEMMA BoundedMax ==
  ASSUME NEW b \in Nat, NEW T \in SUBSET (0..b), T # {}
  PROVE  \E n \in T : \A m \in T : n >= m
  <1> DEFINE U == {b - m : m \in T}
  <1>0. U \subseteq Nat /\ U # {}
    <2>1. \A m \in T : b - m \in Nat
      OBVIOUS
    <2>2. PICK m \in T : TRUE
      OBVIOUS
    <2> QED
      BY <2>1, <2>2
  <1>1. PICK u \in U : \A v \in U : u <= v
    <2> HIDE DEF U
    <2> QED BY <1>0, NatMin
  <1>2. PICK n \in T : u = b - n
    BY <1>1
  <1>3. \A m \in T : b - n <= b - m
    BY <1>1, <1>2
  <1> QED
    BY <1>2, <1>3

\* A sequence of numbers whose neighbours are in order is sorted.
LEMMA NeighboursInOrder ==
  ASSUME NEW a \in Nat, NEW b \in Nat, NEW e, \A i \in a .. b : e[i] \in Int,
         \A i \in a + 1 .. b : e[i - 1] <= e[i],
         NEW i \in a .. b, NEW j \in a .. b, i <= j
  PROVE  e[i] <= e[j]
  <1> DEFINE G == {k \in Nat : i + k <= b => e[i] <= e[i + k]}
  <1>1. 0 \in G
    OBVIOUS
  <1>2. ASSUME NEW k \in Nat, k \in G PROVE k + 1 \in G
    <2> SUFFICES ASSUME i + (k + 1) <= b PROVE e[i] <= e[i + (k + 1)]
      OBVIOUS
    <2> DEFINE x == i + k
    <2>1. e[i] <= e[x] /\ x \in a .. b /\ x + 1 \in a + 1 .. b /\ (x + 1) - 1 = x
      BY <1>2
    <2>2. {e[i], e[x], e[x + 1]} \subseteq Int /\ e[x] <= e[x + 1]
      <3>1. x + 1 \in a .. b
        BY <2>1
      <3> HIDE DEF x
      <3> QED BY <2>1, <3>1
    <2>3. i + (k + 1) = x + 1
      OBVIOUS
    <2> HIDE DEF x
    <2> QED BY <2>1, <2>2, <2>3
  <1>3. Nat \subseteq G
    <2> HIDE DEF G
    <2> QED BY <1>1, <1>2, NatIsInductive
  <1>4. j - i \in Nat /\ i + (j - i) = j
    OBVIOUS
  <1> QED BY <1>3, <1>4

\* What Min and Max choose.
LEMMA MinFacts ==
  ASSUME NEW T \in SUBSET Nat, T # {}
  PROVE  Min(T) \in T /\ \A m \in T : Min(T) <= m
  BY NatMin DEF Min

LEMMA MinOfTwo ==
  ASSUME NEW a \in Nat, NEW b \in Nat
  PROVE  /\ Min({a, b}) \in Nat /\ Min({a, b}) <= a /\ Min({a, b}) <= b
         /\ Min({a, b}) = a \/ Min({a, b}) = b
  <1> DEFINE T == {a, b}
  <1>1. T \in SUBSET Nat /\ T # {} /\ a \in T /\ b \in T
    OBVIOUS
  <1> HIDE DEF T
  <1>2. Min(T) \in T /\ Min(T) <= a /\ Min(T) <= b
    BY <1>1, MinFacts
  <1> QED BY <1>2 DEF T

LEMMA MaxFacts ==
  ASSUME NEW b \in Nat, NEW T \in SUBSET (0..b), T # {}
  PROVE  Max(T) \in T /\ \A m \in T : Max(T) >= m
  BY BoundedMax DEF Max

\* Induction over the subsets of a finite set.
LEMMA FiniteIsInductive ==
  ASSUME NEW S, IsFiniteSet(S), NEW C, {} \in C,
         \A T \in SUBSET S : \A x \in S \ T : T \in C => T \cup {x} \in C
  PROVE  S \in C
  <1> DEFINE G == {n \in Nat : \A T \in SUBSET S : Cardinality(T) = n => T \in C}
  <1>1. \A T \in SUBSET S : IsFiniteSet(T) /\ Cardinality(T) \in Nat
    BY FS_Subset, FS_CardinalityType
  <1>2. 0 \in G
    BY <1>1, FS_EmptySet
  <1>3. ASSUME NEW n \in Nat, n \in G PROVE n + 1 \in G
    <2> SUFFICES ASSUME NEW T \in SUBSET S, Cardinality(T) = n + 1 PROVE T \in C
      OBVIOUS
    <2>1. PICK x \in T : TRUE
      <3>1. T # {}
        BY <1>1, FS_EmptySet
      <3> QED
        BY <3>1
    <2>2. T \ {x} \in SUBSET S /\ Cardinality(T \ {x}) = Cardinality(T) - 1
      BY <1>1, FS_RemoveElement
    <2>5. Cardinality(T \ {x}) = n
      BY <2>2
    <2>3. T \ {x} \in C
      BY <1>3, <2>2, <2>5
    <2>4. (T \ {x}) \cup {x} \in C /\ (T \ {x}) \cup {x} = T
      BY <2>2, <2>3
    <2> QED
      BY <2>4
  <1> HIDE DEF G
  <1>4. Nat \subseteq G
    BY <1>2, <1>3, NatIsInductive
  <1> QED
    BY <1>1, <1>4 DEF G

-----------------------------------------------------------------------------
(* Arithmetic modulo n.                                                     *)

LEMMA DivMod ==
  ASSUME NEW a \in Nat, NEW n \in Nat, n > 0
  PROVE  a \div n \in Int /\ a - n * (a \div n) = a % n
  OBVIOUS

LEMMA Division ==
  ASSUME NEW a \in Nat, NEW n \in Nat, n > 0
  PROVE  /\ a \div n \in Nat /\ n * (a \div n) \in Nat
         /\ a % n \in 0 .. n - 1 /\ a - (a % n) = n * (a \div n)
  <1>1. a \div n \in Nat
    OBVIOUS
  <1>2. n * (a \div n) \in Nat
    BY <1>1
  <1>3. a % n \in 0 .. n - 1
    OBVIOUS
  <1>4. a - (a % n) = n * (a \div n)
    OBVIOUS
  <1> QED BY <1>1, <1>2, <1>3, <1>4

LEMMA SmallMultiple ==
  ASSUME NEW n \in Nat, NEW k \in Int, -n < n * k, n * k < n
  PROVE  n * k = 0
  <1>1. CASE k = 0
    BY <1>1
  <1>2. CASE k >= 1
    <2>1. n * k >= n
      BY <1>2
    <2> QED BY <2>1
  <1>3. CASE k <= -1
    <2>1. n * k <= -n
      BY <1>3
    <2> QED BY <2>1
  <1> QED
    BY <1>1, <1>2, <1>3

\* Fewer than n consecutive numbers differ modulo n.
LEMMA ModInjective ==
  ASSUME NEW n \in Nat, n > 0, NEW a \in Nat, NEW p \in 0..(n - 1), NEW q \in 0..(n - 1),
         (a + p) % n = (a + q) % n
  PROVE  p = q
  <1>0. a + p \in Nat /\ a + q \in Nat
    OBVIOUS
  <1>1. \A b \in Nat : \E z \in Int : b - n * z = b % n
    BY DivMod
  <1>2. PICK x \in Int : (a + p) - n * x = (a + p) % n
    BY <1>0, <1>1, ZenonT(20)
  <1>3. PICK y \in Int : (a + q) - n * y = (a + q) % n
    BY <1>0, <1>1, ZenonT(20)
  <1>4. n * (x - y) = n * x - n * y
    OBVIOUS
  <1>5. n * (x - y) = p - q
    <2>1. n * x \in Int /\ n * y \in Int
      OBVIOUS
    <2>2. (a + p) - n * x = (a + q) - n * y
      BY <1>2, <1>3
    <2> QED BY <1>4, <2>1, <2>2
  <1>6. n * (x - y) = 0
    <2>1. x - y \in Int /\ -n < n * (x - y) /\ n * (x - y) < n
      BY <1>5
    <2> QED BY <2>1, SmallMultiple
  <1> QED
    BY <1>5, <1>6
-----------------------------------------------------------------------------
(* Sums over finite sets.                                                   *)

Pick(s) == CHOOSE x \in s : TRUE

\* The function that SumFunctionOnSet(f, S) iterates, as an equation on the
\* sets D.
Sums(h, f, D) == h = [s \in D |-> IF s = {} THEN 0 ELSE f[Pick(s)] + h[s \ {Pick(s)}]]
SumsOf(h, f, S) == Sums(h, f, SUBSET S)

LEMMA SumUnfolds ==
  ASSUME NEW f, NEW S
  PROVE  SumFunctionOnSet(f, S) = (CHOOSE h : SumsOf(h, f, S))[S]
  BY DEF SumFunctionOnSet, FoldFunctionOnSet, MapThenFoldSet, SumsOf, Sums, Pick

\* There is such a function on the subsets of a finite set.
LEMMA SumsExists ==
  ASSUME NEW f, NEW S, IsFiniteSet(S)
  PROVE  \E h : SumsOf(h, f, S)
  <1> DEFINE Sub(n) == {s \in SUBSET S : Cardinality(s) <= n}
             G == {n \in Nat : \E h : Sums(h, f, Sub(n))}
  <1>1. \A s \in SUBSET S : IsFiniteSet(s) /\ Cardinality(s) \in Nat
    BY FS_Subset, FS_CardinalityType
  <1>2. \A s \in SUBSET S : s # {} =>
          /\ Pick(s) \in s /\ s \ {Pick(s)} \in SUBSET S
          /\ Cardinality(s \ {Pick(s)}) = Cardinality(s) - 1
    BY <1>1, FS_RemoveElement DEF Pick
  <1>3. 0 \in G
    <2> DEFINE h == [s \in Sub(0) |-> 0]
    <2>1. \A s \in Sub(0) : s = {}
      BY <1>1, FS_EmptySet
    <2>2. Sums(h, f, Sub(0))
      BY <2>1 DEF Sums
    <2> QED
      BY <2>2
  <1>4. ASSUME NEW n \in Nat, n \in G PROVE n + 1 \in G
    <2>1. PICK h : Sums(h, f, Sub(n))
      BY <1>4
    <2> DEFINE k == [s \in Sub(n + 1) |-> IF s = {} THEN 0 ELSE f[Pick(s)] + h[s \ {Pick(s)}]]
    <2>2. Sub(n) \subseteq Sub(n + 1)
      BY <1>1
    <2>3. \A s \in Sub(n + 1) : s # {} => s \ {Pick(s)} \in Sub(n)
      BY <1>1, <1>2
    <2> HIDE DEF Sub
    <2>4. \A s \in Sub(n) : k[s] = h[s]
      BY <2>1, <2>2 DEF Sums
    <2>5. \A s \in Sub(n + 1) :
            k[s] = IF s = {} THEN 0 ELSE f[Pick(s)] + k[s \ {Pick(s)}]
      BY <2>3, <2>4
    <2>6. Sums(k, f, Sub(n + 1))
      BY <2>5 DEF Sums
    <2> QED
      BY <2>6
  <1>5. Nat \subseteq G
    <2> HIDE DEF G
    <2> QED BY <1>3, <1>4, NatIsInductive
  <1>6. Sub(Cardinality(S)) = SUBSET S
    BY <1>1, FS_Subset
  <1> QED
    <2>1. Cardinality(S) \in G
      BY <1>1, <1>5
    <2> QED
      BY <1>6, <2>1 DEF SumsOf

\* All such functions agree.
LEMMA SumsAgree ==
  ASSUME NEW f, NEW S, IsFiniteSet(S), NEW h, SumsOf(h, f, S),
         NEW T \in SUBSET S, NEW k, SumsOf(k, f, T)
  PROVE  k[T] = h[T]
  <1> DEFINE G == {n \in Nat : \A s \in SUBSET T : Cardinality(s) = n => k[s] = h[s]}
  <1>1. \A s \in SUBSET T : s \in SUBSET S /\ IsFiniteSet(s) /\ Cardinality(s) \in Nat
    BY FS_Subset, FS_CardinalityType
  <1>2. \A s \in SUBSET T : s # {} =>
          /\ Pick(s) \in s /\ s \ {Pick(s)} \in SUBSET T
          /\ Cardinality(s \ {Pick(s)}) = Cardinality(s) - 1
    BY <1>1, FS_RemoveElement DEF Pick
  <1>0. \A s \in SUBSET T : s # {} => Cardinality(s) # 0
    BY <1>1, FS_EmptySet
  <1>5. k[{}] = h[{}]
    <2>1. k[{}] = 0
      BY DEF SumsOf, Sums
    <2>2. h[{}] = 0
      BY DEF SumsOf, Sums
    <2> QED
      BY <2>1, <2>2
  <1>3. 0 \in G
    BY <1>0, <1>5
  <1>4. ASSUME NEW n \in Nat, n \in G PROVE n + 1 \in G
    <2> SUFFICES ASSUME NEW s \in SUBSET T, Cardinality(s) = n + 1 PROVE k[s] = h[s]
      OBVIOUS
    <2>1. s # {}
      BY FS_EmptySet
    <2>2. k[s \ {Pick(s)}] = h[s \ {Pick(s)}]
      BY <1>2, <1>4, <2>1
    <2>3. k[s] = f[Pick(s)] + k[s \ {Pick(s)}]
      BY <2>1 DEF SumsOf, Sums
    <2>4. h[s] = f[Pick(s)] + h[s \ {Pick(s)}]
      BY <1>1, <2>1 DEF SumsOf, Sums
    <2> QED
      BY <2>2, <2>3, <2>4
  <1>6. Nat \subseteq G
    <2> HIDE DEF G
    <2> QED BY <1>3, <1>4, NatIsInductive
  <1> QED
    BY <1>1, <1>6

\* The recursive equation of a sum.
LEMMA SumStep ==
  ASSUME NEW f, NEW S, IsFiniteSet(S)
  PROVE  /\ SumFunctionOnSet(f, {}) = 0
         /\ S # {} => SumFunctionOnSet(f, S) = f[Pick(S)] + SumFunctionOnSet(f, S \ {Pick(S)})
  <1> DEFINE The(T) == CHOOSE h : SumsOf(h, f, T)
  <1>1. \A T \in SUBSET S : IsFiniteSet(T) /\ SumsOf(The(T), f, T)
    BY SumsExists, FS_Subset
  <1> HIDE DEF The
  <1>2. \A T \in SUBSET S : SumFunctionOnSet(f, T) = The(T)[T]
    BY SumUnfolds DEF The
  <1>3. \A T \in SUBSET S : The(T)[T] = The(S)[T]
    <2> SUFFICES ASSUME NEW T \in SUBSET S PROVE The(T)[T] = The(S)[T]
      OBVIOUS
    <2>1. SumsOf(The(T), f, T) /\ SumsOf(The(S), f, S)
      BY <1>1
    <2>2. PICK h : h = The(S)
      OBVIOUS
    <2>3. PICK k : k = The(T)
      OBVIOUS
    <2>5. SumsOf(k, f, T) /\ SumsOf(h, f, S)
      BY <2>1, <2>2, <2>3
    <2>4. k[T] = h[T]
      BY <2>5, SumsAgree
    <2> QED
      BY <2>2, <2>3, <2>4
  <1>4. The(S)[{}] = 0 /\ (S # {} => The(S)[S] = f[Pick(S)] + The(S)[S \ {Pick(S)}])
    BY <1>1 DEF SumsOf, Sums
  <1> QED
    BY <1>2, <1>3, <1>4

LEMMA SumType ==
  ASSUME NEW f, NEW S, IsFiniteSet(S), \A x \in S : f[x] \in Int
  PROVE  SumFunctionOnSet(f, S) \in Int
  <1> DEFINE G == {n \in Nat : \A s \in SUBSET S : Cardinality(s) = n => SumFunctionOnSet(f, s) \in Int}
  <1>1. \A s \in SUBSET S : IsFiniteSet(s) /\ Cardinality(s) \in Nat
    BY FS_Subset, FS_CardinalityType
  <1>2. 0 \in G
    <2>1. \A s \in SUBSET S : Cardinality(s) = 0 => s = {}
      BY <1>1, FS_EmptySet
    <2>2. SumFunctionOnSet(f, {}) = 0
      BY SumStep
    <2> QED
      BY <2>1, <2>2
  <1>3. ASSUME NEW n \in Nat, n \in G PROVE n + 1 \in G
    <2> SUFFICES ASSUME NEW s \in SUBSET S, Cardinality(s) = n + 1
                 PROVE  SumFunctionOnSet(f, s) \in Int
      OBVIOUS
    <2>1. s # {} /\ IsFiniteSet(s)
      BY <1>1, FS_EmptySet
    <2>2. Pick(s) \in s
      BY <2>1 DEF Pick
    <2>6. Cardinality(s \ {Pick(s)}) = Cardinality(s) - 1
      BY <2>1, <2>2, FS_RemoveElement
    <2>3. Cardinality(s \ {Pick(s)}) = n /\ s \ {Pick(s)} \in SUBSET S
      BY <2>6
    <2>4. SumFunctionOnSet(f, s \ {Pick(s)}) \in Int
      BY <1>3, <2>3
    <2>5. SumFunctionOnSet(f, s) = f[Pick(s)] + SumFunctionOnSet(f, s \ {Pick(s)})
      BY <2>1, SumStep
    <2> QED
      BY <2>2, <2>4, <2>5
  <1>4. Nat \subseteq G
    <2> HIDE DEF G
    <2> QED BY <1>2, <1>3, NatIsInductive
  <1> QED
    BY <1>1, <1>4

\* Any element of the set may be taken out of the sum.
LEMMA SumRemove ==
  ASSUME NEW f, NEW S, IsFiniteSet(S), \A x \in S : f[x] \in Int, NEW x \in S
  PROVE  SumFunctionOnSet(f, S) = f[x] + SumFunctionOnSet(f, S \ {x})
  <1> DEFINE Sum(s) == SumFunctionOnSet(f, s)
             G == {n \in Nat : \A s \in SUBSET S : Cardinality(s) = n =>
                                  \A y \in s : Sum(s) = f[y] + Sum(s \ {y})}
  <1>1. \A s \in SUBSET S : IsFiniteSet(s) /\ Cardinality(s) \in Nat /\ Sum(s) \in Int
    <2> SUFFICES ASSUME NEW s \in SUBSET S
                 PROVE  IsFiniteSet(s) /\ Cardinality(s) \in Nat /\ Sum(s) \in Int
      OBVIOUS
    <2>1. IsFiniteSet(s) /\ Cardinality(s) \in Nat
      BY FS_Subset, FS_CardinalityType
    <2> QED
      BY <2>1, SumType
  <1>2. \A s \in SUBSET S : s # {} => Pick(s) \in s /\ Sum(s) = f[Pick(s)] + Sum(s \ {Pick(s)})
    BY <1>1, SumStep DEF Pick
  <1>3. \A s \in SUBSET S : \A y \in s : Cardinality(s \ {y}) = Cardinality(s) - 1
    BY <1>1, FS_RemoveElement
  <1> HIDE DEF Sum
  <1>4. 0 \in G
    <2>1. \A s \in SUBSET S : Cardinality(s) = 0 => s = {}
      BY <1>1, FS_EmptySet
    <2> QED
      BY <2>1
  <1>5. ASSUME NEW n \in Nat, n \in G PROVE n + 1 \in G
    <2> SUFFICES ASSUME NEW s \in SUBSET S, Cardinality(s) = n + 1, NEW y \in s
                 PROVE  Sum(s) = f[y] + Sum(s \ {y})
      OBVIOUS
    <2> DEFINE p == Pick(s)
    <2>1. p \in s /\ Sum(s) = f[p] + Sum(s \ {p})
      BY <1>2
    <2> HIDE DEF p
    <2>2. CASE p = y
      BY <2>1, <2>2
    <2>3. CASE p # y
      <3>1. /\ s \ {p} \in SUBSET S /\ Cardinality(s \ {p}) = n /\ y \in s \ {p}
            /\ s \ {y} \in SUBSET S /\ Cardinality(s \ {y}) = n /\ p \in s \ {y}
        BY <1>3, <2>1, <2>3
      <3>2. Sum(s \ {p}) = f[y] + Sum((s \ {p}) \ {y})
        BY <1>5, <3>1
      <3>3. Sum(s \ {y}) = f[p] + Sum((s \ {y}) \ {p})
        BY <1>5, <3>1
      <3>4. (s \ {p}) \ {y} = (s \ {y}) \ {p} /\ (s \ {p}) \ {y} \in SUBSET S
        OBVIOUS
      <3>5. f[p] \in Int /\ f[y] \in Int /\ Sum((s \ {p}) \ {y}) \in Int
        BY <1>1, <2>1, <3>4
      <3>6. PICK a, b, c : a = Sum((s \ {p}) \ {y}) /\ b = f[p] /\ c = f[y]
        OBVIOUS
      <3>7. Sum(s) = b + (c + a) /\ Sum(s \ {y}) = b + a
        BY <2>1, <3>2, <3>3, <3>4, <3>6
      <3>8. b + (c + a) = c + (b + a)
        BY <3>5, <3>6
      <3> QED
        BY <3>6, <3>7, <3>8
    <2> QED
      BY <2>2, <2>3
  <1>6. Nat \subseteq G
    <2> HIDE DEF G
    <2> QED BY <1>4, <1>5, NatIsInductive
  <1>7. Sum(S) = f[x] + Sum(S \ {x})
    BY <1>1, <1>6
  <1> QED
    BY <1>7 DEF Sum

LEMMA SumAdd ==
  ASSUME NEW f, NEW S, IsFiniteSet(S), NEW x, x \notin S, \A y \in S \cup {x} : f[y] \in Int
  PROVE  SumFunctionOnSet(f, S \cup {x}) = f[x] + SumFunctionOnSet(f, S)
  <1>1. IsFiniteSet(S \cup {x}) /\ (S \cup {x}) \ {x} = S
    BY FS_AddElement
  <1> QED
    BY <1>1, SumRemove

\* Functions that agree on a set have the same sum over it.
LEMMA SumEqual ==
  ASSUME NEW f, NEW g, NEW S, IsFiniteSet(S), \A x \in S : f[x] \in Int /\ g[x] = f[x]
  PROVE  SumFunctionOnSet(g, S) = SumFunctionOnSet(f, S)
  <1> DEFINE C == {T \in SUBSET S : SumFunctionOnSet(g, T) = SumFunctionOnSet(f, T)}
  <1>1. {} \in C
    <2>1. SumFunctionOnSet(g, {}) = 0 /\ SumFunctionOnSet(f, {}) = 0
      BY SumStep
    <2> QED
      BY <2>1
  <1>2. ASSUME NEW T \in SUBSET S, NEW x \in S \ T, T \in C PROVE T \cup {x} \in C
    <2>1. IsFiniteSet(T)
      BY FS_Subset
    <2>2. SumFunctionOnSet(f, T \cup {x}) = f[x] + SumFunctionOnSet(f, T)
      BY <2>1, SumAdd
    <2>3. SumFunctionOnSet(g, T \cup {x}) = g[x] + SumFunctionOnSet(g, T)
      BY <2>1, SumAdd
    <2> QED
      BY <1>2, <2>2, <2>3
  <1>3. S \in C
    <2> HIDE DEF C
    <2> QED BY <1>1, <1>2, FiniteIsInductive
  <1> QED
    BY <1>3

\* A sum of natural numbers is one, and grows with the set.
LEMMA SumSubset ==
  ASSUME NEW f, NEW S, IsFiniteSet(S), \A x \in S : f[x] \in Nat, NEW T \in SUBSET S
  PROVE  /\ SumFunctionOnSet(f, T) \in Nat /\ SumFunctionOnSet(f, S) \in Nat
         /\ SumFunctionOnSet(f, T) <= SumFunctionOnSet(f, S)
  <1> DEFINE Sum(s) == SumFunctionOnSet(f, s)
             B == {D \in SUBSET S : Sum(D) \in Nat}
             A == {D \in SUBSET (S \ T) : Sum(T) <= Sum(T \cup D)}
  <1>1. \A D \in SUBSET S : IsFiniteSet(D) /\ Sum(D) \in Int
    <2> SUFFICES ASSUME NEW D \in SUBSET S PROVE IsFiniteSet(D) /\ Sum(D) \in Int
      OBVIOUS
    <2>1. IsFiniteSet(D)
      BY FS_Subset
    <2> QED
      BY <2>1, SumType
  <1>2. \A D \in SUBSET S : \A x \in S \ D : Sum(D \cup {x}) = f[x] + Sum(D)
    <2> SUFFICES ASSUME NEW D \in SUBSET S, NEW x \in S \ D PROVE Sum(D \cup {x}) = f[x] + Sum(D)
      OBVIOUS
    <2> QED
      BY <1>1, SumAdd
  <1>3. Sum({}) = 0
    BY SumStep
  <1> HIDE DEF Sum
  <1>4. \A D \in SUBSET S : Sum(D) \in Nat
    <2> SUFFICES ASSUME NEW D \in SUBSET S PROVE Sum(D) \in Nat
      OBVIOUS
    <2>1. {} \in B
      BY <1>3
    <2>2. \A E \in SUBSET D : \A x \in D \ E : E \in B => E \cup {x} \in B
      BY <1>2
    <2> HIDE DEF B
    <2>3. D \in B
      BY <1>1, <2>1, <2>2, FiniteIsInductive
    <2> QED
      BY <2>3 DEF B
  <1>5. S \ T \in A
    <2>1. {} \in A
      <3>1. T \cup {} = T
        OBVIOUS
      <3> QED
        BY <1>4, <3>1
    <2>2. ASSUME NEW D \in SUBSET (S \ T), NEW x \in (S \ T) \ D, D \in A PROVE D \cup {x} \in A
      <3>1. /\ T \cup (D \cup {x}) = (T \cup D) \cup {x} /\ T \cup D \in SUBSET S
            /\ x \in S \ (T \cup D)
        OBVIOUS
      <3>2. Sum(T \cup (D \cup {x})) = f[x] + Sum(T \cup D)
        BY <1>2, <3>1
      <3>3. Sum(T) \in Nat /\ Sum(T \cup D) \in Nat /\ Sum(T) <= Sum(T \cup D) /\ f[x] \in Nat
        BY <1>4, <2>2, <3>1
      <3>4. Sum(T) <= Sum(T \cup (D \cup {x}))
        BY <3>2, <3>3
      <3> QED
        BY <3>4
    <2>3. IsFiniteSet(S \ T)
      BY <1>1
    <2> HIDE DEF A
    <2> QED
      BY <2>1, <2>2, <2>3, FiniteIsInductive
  <1>6. T \cup (S \ T) = S
    OBVIOUS
  <1>7. Sum(T) \in Nat /\ Sum(S) \in Nat /\ Sum(T) <= Sum(S)
    BY <1>4, <1>5, <1>6
  <1> QED
    BY <1>7 DEF Sum

\* Changing one summand changes the sum by as much.
LEMMA SumUpdate ==
  ASSUME NEW f, NEW g, NEW S, IsFiniteSet(S), NEW x \in S,
         \A y \in S : f[y] \in Int /\ g[y] \in Int,
         \A y \in S \ {x} : g[y] = f[y]
  PROVE  SumFunctionOnSet(g, S) = SumFunctionOnSet(f, S) - f[x] + g[x]
  <1>1. IsFiniteSet(S \ {x})
    BY FS_RemoveElement
  <1>2. SumFunctionOnSet(g, S \ {x}) = SumFunctionOnSet(f, S \ {x})
    BY <1>1, SumEqual
  <1>3. SumFunctionOnSet(f, S \ {x}) \in Int
    BY <1>1, SumType
  <1>4. /\ SumFunctionOnSet(f, S) = f[x] + SumFunctionOnSet(f, S \ {x})
        /\ SumFunctionOnSet(g, S) = g[x] + SumFunctionOnSet(g, S \ {x})
    BY SumRemove
  <1> QED
    BY <1>2, <1>3, <1>4

-----------------------------------------------------------------------------
(* The rank of a number in a finite set.                                    *)

RankIn(U, c) == Cardinality({d \in U : d <= c})

LEMMA RankFacts ==
  ASSUME NEW U \in SUBSET Nat, IsFiniteSet(U)
  PROVE  /\ \A c \in U : RankIn(U, c) \in 1 .. Cardinality(U)
         /\ \A c, d \in U : c < d => RankIn(U, c) < RankIn(U, d)
         /\ \A i \in 1 .. Cardinality(U) : \E c \in U : RankIn(U, c) = i
  <1> DEFINE Low(c) == {d \in U : d <= c}
             f == [c \in U |-> RankIn(U, c)]
             n == Cardinality(U)
  <1>0. n \in Nat
    BY FS_CardinalityType
  <1>1. ASSUME NEW c PROVE IsFiniteSet(Low(c)) /\ RankIn(U, c) \in Nat /\ RankIn(U, c) <= n
    <2>1. Low(c) \in SUBSET U
      OBVIOUS
    <2> HIDE DEF Low
    <2>2. IsFiniteSet(Low(c)) /\ Cardinality(Low(c)) <= n /\ Cardinality(Low(c)) \in Nat
      BY <2>1, FS_Subset, FS_CardinalityType
    <2> QED BY <2>2 DEF RankIn, Low
  <1>2. ASSUME NEW c \in U PROVE RankIn(U, c) # 0
    <2>1. c \in Low(c)
      OBVIOUS
    <2> HIDE DEF Low
    <2>2. Cardinality(Low(c)) # 0
      BY <1>1, <2>1, FS_EmptySet
    <2> QED BY <2>2 DEF RankIn, Low
  <1>3. ASSUME NEW c \in U, NEW d \in U, c < d PROVE RankIn(U, c) < RankIn(U, d)
    <2>0. \A x \in U : x <= c => x <= d
      BY <1>3
    <2>1. Low(c) \in SUBSET Low(d) /\ Low(c) # Low(d)
      <3>1. d \in Low(d) /\ d \notin Low(c)
        BY <1>3
      <3> QED BY <2>0, <3>1
    <2> HIDE DEF Low
    <2>2. Cardinality(Low(c)) <= Cardinality(Low(d)) /\ Cardinality(Low(c)) # Cardinality(Low(d))
      BY <1>1, <2>1, FS_Subset
    <2>3. RankIn(U, c) <= RankIn(U, d) /\ RankIn(U, c) # RankIn(U, d)
      BY <2>2 DEF RankIn, Low
    <2> QED BY <1>1, <2>3
  <1>4. \A c \in U : RankIn(U, c) \in 1 .. n
    <2> TAKE c \in U
    <2>1. RankIn(U, c) \in Nat /\ RankIn(U, c) <= n /\ RankIn(U, c) # 0
      BY <1>1, <1>2
    <2> QED BY <1>0, <2>1
  <1>5. f \in Injection(U, 1 .. n)
    <2>1. f \in [U -> 1 .. n]
      BY <1>4
    <2>2. ASSUME NEW c \in U, NEW d \in U, f[c] = f[d] PROVE c = d
      <3>1. {RankIn(U, c), RankIn(U, d)} \subseteq Nat /\ RankIn(U, c) = RankIn(U, d)
        BY <1>1, <2>2
      <3>2. ~(c < d) /\ ~(d < c)
        BY <1>3, <3>1
      <3> QED BY <3>2
    <2> HIDE DEF f
    <2>3. DOMAIN f = U
      BY <2>1
    <2> QED BY <2>1, <2>2, <2>3 DEF Injection, IsInjective
  <1>6. IsFiniteSet(1 .. n) /\ Cardinality(1 .. n) = n
    BY <1>0, FS_Interval
  <1>7. f \in Surjection(U, 1 .. n)
    <2> HIDE DEF f
    <2> QED BY <1>5, <1>6, FS_Injection
  <1>8. \A i \in 1 .. n : \E c \in U : RankIn(U, c) = i
    BY <1>7 DEF Surjection
  <1> QED BY <1>3, <1>4, <1>8

=============================================================================
