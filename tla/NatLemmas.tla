------------------------------ MODULE NatLemmas ------------------------------
(***************************************************************************)
(* Facts about natural numbers, recursion and the sizes of sets that the   *)
(* other proofs cite.  Induction is that of a set of natural numbers, which*)
(* has no operator for a parameter.                                        *)
(***************************************************************************)
EXTENDS Integers, Sequences, FiniteSets, FiniteSetTheorems, FunctionTheorems,
        WellFoundedInduction, TLAPS

\* A set of natural numbers that is not empty has a least element.
LEMMA NatMinimum ==
  ASSUME NEW T \in SUBSET Nat, T # {}
  PROVE  \E x \in T : \A y \in T : x <= y
<1>1. PICK x \in T : \A y \in T : <<y, x>> \notin OpToRel(<, Nat)
  BY NatLessThanWellFounded, WFMin
<1>2. \A y \in T : ~(y < x)
  BY <1>1 DEF OpToRel
<1> QED BY <1>2

\* Induction on the natural numbers, for a set.
LEMMA NatSetInduction ==
  ASSUME NEW T \in SUBSET Nat, 0 \in T, \A n \in T : n + 1 \in T
  PROVE  T = Nat
<1> SUFFICES ASSUME Nat \ T # {} PROVE FALSE
  OBVIOUS
<1>1. PICK x \in Nat \ T : \A y \in Nat \ T : x <= y
  BY NatMinimum
<1>2. x - 1 \in T
  BY <1>1
<1> QED BY <1>1, <1>2

\* f is the sequence base, G[1][base], G[2][G[1][base]], ... up to n.
Iterates(f, n, S, base, G) ==
  /\ f \in [0..n -> S]
  /\ f[0] = base /\ \A i \in 1..n : f[i] = G[i][f[i - 1]]

\* Such a sequence exists: what a function defined by recursion on its
\* argument computes.
LEMMA RecursiveFunction ==
  ASSUME NEW n \in Nat, NEW S, NEW base \in S, NEW G \in [1..n -> [S -> S]]
  PROVE  \E f : Iterates(f, n, S, base, G)
<1> DEFINE Upto(m) ==
             \E f \in [0..m -> S] : f[0] = base /\ \A i \in 1..m : f[i] = G[i][f[i - 1]]
           T == {m \in Nat : m <= n => Upto(m)}
<1>1. 0 \in T
  <2> DEFINE f == [i \in 0..0 |-> base]
  <2>1. f \in [0..0 -> S] /\ f[0] = base /\ \A i \in 1..0 : f[i] = G[i][f[i - 1]]
    OBVIOUS
  <2> HIDE DEF f
  <2>2. Upto(0)
    BY <2>1
  <2> QED BY <2>2
<1>2. ASSUME NEW m \in T PROVE m + 1 \in T
  <2> SUFFICES ASSUME m + 1 <= n PROVE Upto(m + 1)
    <3> HIDE DEF Upto
    <3> QED OBVIOUS
  <2>1. PICK f \in [0..m -> S] : f[0] = base /\ \A i \in 1..m : f[i] = G[i][f[i - 1]]
    BY <1>2
  <2> DEFINE g == [i \in 0..(m + 1) |-> IF i <= m THEN f[i] ELSE G[m + 1][f[m]]]
  <2>2. G[m + 1][f[m]] \in S
    BY <2>1
  <2>3. g \in [0..(m + 1) -> S] /\ g[0] = base
    BY <2>1, <2>2
  <2>4. \A i \in 1..(m + 1) : g[i] = G[i][g[i - 1]]
    BY <2>1
  <2> HIDE DEF g
  <2> QED BY <2>3, <2>4
<1> HIDE DEF Upto
<1>3. T = Nat
  BY <1>1, <1>2, NatSetInduction
<1>4. Upto(n)
  BY <1>3
<1> QED BY <1>4 DEF Upto, Iterates

\* A function that takes every value once is a bijection.
LEMMA OneToOne ==
  ASSUME NEW S, NEW T, NEW f \in [S -> T],
         \A a, b \in S : f[a] = f[b] => a = b, \A t \in T : \E a \in S : f[a] = t
  PROVE  ExistsBijection(S, T)
<1>1. f \in Bijection(S, T)
  BY Fun_IsBij
<1> QED BY <1>1, Fun_ExistsBij

\* S is a finite set of n elements.
HasSize(S, n) == IsFiniteSet(S) /\ Cardinality(S) = n

\* A set whose elements are listed by 1..n, each once, has n elements.
LEMMA Counted ==
  ASSUME NEW n \in Nat, NEW S, NEW f \in [1..n -> S],
         \A a, b \in 1..n : f[a] = f[b] => a = b, \A t \in S : \E a \in 1..n : f[a] = t
  PROVE  HasSize(S, n)
<1>1. ExistsBijection(1..n, S)
  BY OneToOne
<1> QED BY <1>1, FS_NatBijection, FS_CountingElements DEF HasSize

\* The recursion by which a finite set is counted.
SizeOf(S) ==
  LET size[T \in SUBSET S] == IF T = {} THEN 0 ELSE 1 + size[T \ {CHOOSE x : x \in T}]
  IN  size[S]

\* That recursion counts the elements.
LEMMA SizeByRecursion ==
  ASSUME NEW S, NEW n, HasSize(S, n)
  PROVE  SizeOf(S) = n
BY DEF HasSize, Cardinality, SizeOf

\* The empty set has no elements.
LEMMA SizeOfNone == HasSize({}, 0)
BY FS_EmptySet DEF HasSize

\* A set has one size, a natural number.
LEMMA SizeIsNat ==
  ASSUME NEW S, NEW n, HasSize(S, n)
  PROVE  n \in Nat /\ \A m : HasSize(S, m) => m = n
BY FS_CardinalityType DEF HasSize

\* A new element makes the set larger by one.
LEMMA SizeOfMore ==
  ASSUME NEW S, NEW n, HasSize(S, n), NEW T, NEW x, x \notin S, T = S \cup {x}
  PROVE  HasSize(T, n + 1)
BY FS_AddElement DEF HasSize

\* Without one of its elements the set is smaller by one.
LEMMA SizeOfLess ==
  ASSUME NEW S, NEW T, NEW n, HasSize(T, n), NEW x, x \notin S, T = S \cup {x}
  PROVE  HasSize(S, n - 1) /\ n - 1 \in Nat
<1>1. IsFiniteSet(S)
  BY FS_Subset DEF HasSize
<1>2. HasSize(S, Cardinality(S)) /\ Cardinality(S) \in Nat
  BY <1>1, FS_CardinalityType DEF HasSize
<1>3. HasSize(T, Cardinality(S) + 1)
  BY <1>2, SizeOfMore
<1>4. n = Cardinality(S) + 1
  BY <1>3, SizeIsNat
<1> QED BY <1>2, <1>4

\* 2^n doubles from one n to the next.
LEMMA PowersOfTwo ==
  /\ 2^0 = 1
  /\ \A n \in Nat : 2^n \in Nat /\ 2^(n + 1) = 2 * 2^n
<1>1. 2^0 = 1
  <2>1. Cardinality(SUBSET {}) = 2^0
    BY FS_SUBSET, FS_EmptySet
  <2>2. SUBSET {} = {{}}
    OBVIOUS
  <2> QED BY <2>1, <2>2, FS_Singleton
<1>2. ASSUME NEW n \in Nat PROVE 2^n \in Nat /\ 2^(n + 1) = 2 * 2^n
  <2> DEFINE S == 1..n
             T == S \cup {0}
             P == SUBSET S
             B == {{}, {0}}
  <2>1. IsFiniteSet(S) /\ Cardinality(S) = n
    BY FS_Interval
  <2>0. 0 \notin S
    OBVIOUS
  <2> HIDE DEF S
  <2>2. IsFiniteSet(T) /\ Cardinality(T) = n + 1
    BY <2>0, <2>1, FS_AddElement
  <2>3. IsFiniteSet(P) /\ Cardinality(P) = 2^n /\ Cardinality(SUBSET T) = 2^(n + 1)
    BY <2>1, <2>2, FS_SUBSET
  <2>4. 2^n \in Nat
    BY <2>3, FS_CardinalityType
  <2>5. IsFiniteSet(B) /\ Cardinality(B) = 2
    <3>1. B = {{}} \cup {{0}}
      OBVIOUS
    <3>2. IsFiniteSet({{}}) /\ Cardinality({{}}) = 1 /\ {0} \notin {{}}
      BY FS_Singleton
    <3>3. IsFiniteSet({{}} \cup {{0}}) /\ Cardinality({{}} \cup {{0}}) = 1 + 1
      BY <3>2, FS_AddElement
    <3> HIDE DEF B
    <3> QED BY <3>1, <3>3
  <2>6. IsFiniteSet(P \X B) /\ Cardinality(P \X B) = 2 * 2^n
    <3> HIDE DEF P, B
    <3>1. IsFiniteSet(P \X B) /\ Cardinality(P \X B) = Cardinality(P) * Cardinality(B)
      BY <2>3, <2>5, FS_Product
    <3> QED BY <2>3, <2>4, <2>5, <3>1
  <2> DEFINE f == [x \in P \X B |-> x[1] \cup x[2]]
  <2>7. f \in [P \X B -> SUBSET T]
    OBVIOUS
  <2>8. ASSUME NEW x \in P \X B, NEW y \in P \X B, f[x] = f[y] PROVE x = y
    <3>1. x[1] \cup x[2] = y[1] \cup y[2]
      BY <2>8
    <3>2. 0 \notin x[1] /\ 0 \notin y[1] /\ x[2] \in B /\ y[2] \in B
      BY <2>0
    <3>3. x[2] = y[2] /\ x[1] = y[1]
      BY <3>1, <3>2
    <3> QED BY <3>3
  <2>9. ASSUME NEW t \in SUBSET T PROVE \E x \in P \X B : f[x] = t
    <3>1. t \ {0} \in P /\ t \cap {0} \in B /\ (t \ {0}) \cup (t \cap {0}) = t
      OBVIOUS
    <3>2. <<t \ {0}, t \cap {0}>> \in P \X B /\ f[<<t \ {0}, t \cap {0}>>] = t
      BY <3>1
    <3> QED BY <3>2
  <2>10. ExistsBijection(P \X B, SUBSET T)
    <3> HIDE DEF f, P, B, T
    <3> QED BY <2>7, <2>8, <2>9, OneToOne
  <2> QED BY <2>3, <2>4, <2>6, <2>10, FS_Bijection
<1> QED BY <1>1, <1>2

\* A larger exponent gives a larger power.
LEMMA PowersGrow == \A m, n \in Nat : m <= n => 2^m <= 2^n /\ 2^m >= 1
<1> DEFINE T == {d \in Nat : \A m \in Nat : 2^m <= 2^(m + d)}
<1>1. 0 \in T
  <2>1. ASSUME NEW m \in Nat PROVE 2^m <= 2^(m + 0)
    <3>1. m + 0 = m /\ 2^m \in Nat
      BY PowersOfTwo
    <3> QED BY <3>1
  <2> QED BY <2>1
<1>2. ASSUME NEW d \in T PROVE d + 1 \in T
  <2>1. ASSUME NEW m \in Nat PROVE 2^m <= 2^(m + (d + 1))
    <3> DEFINE k == m + d
    <3>1. k \in Nat /\ m + (d + 1) = k + 1
      OBVIOUS
    <3>2. 2^m <= 2^k
      OBVIOUS
    <3> HIDE DEF k
    <3>3. 2^k \in Nat /\ 2^(k + 1) = 2 * 2^k /\ 2^m \in Nat
      BY <3>1, PowersOfTwo
    <3>4. 2^m <= 2^(k + 1)
      BY <3>2, <3>3
    <3> QED BY <3>1, <3>4
  <2> QED BY <2>1
<1> HIDE DEF T
<1>3. T = Nat
  BY <1>1, <1>2, NatSetInduction DEF T
<1>4. ASSUME NEW m \in Nat, NEW n \in Nat, m <= n PROVE 2^m <= 2^n
  <2>1. n - m \in T /\ m + (n - m) = n
    BY <1>3, <1>4
  <2>2. \A k \in Nat : 2^k <= 2^(k + (n - m))
    BY <2>1 DEF T
  <2>3. 2^m <= 2^(m + (n - m))
    BY <2>2
  <2> QED BY <2>1, <2>3
<1>5. ASSUME NEW m \in Nat PROVE 2^m >= 1
  <2>1. 0 \in Nat /\ 0 <= m
    OBVIOUS
  <2>2. 2^0 <= 2^m
    BY <1>4, <2>1
  <2> QED BY <2>2, PowersOfTwo
<1> QED BY <1>4, <1>5
=============================================================================
