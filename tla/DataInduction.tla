-------------------------- MODULE DataInduction --------------------------
(***************************************************************************)
(* Induction and recursion over data, for the proofs: over the natural     *)
(* numbers, over the subsets of a finite set, the recursive functions that *)
(* the models and the community modules define, and sums.                  *)
(*                                                                         *)
(* Induction is stated for the SET of the values that have a property,     *)
(* which the provers can instantiate, where a property would be an         *)
(* operator, which they cannot.                                            *)
(***************************************************************************)
EXTENDS Integers, FiniteSetTheorems, WellFoundedInduction, TLAPS

\* Induction over the natural numbers, for the set of those that have a property.
LEMMA SetInduction ==
    ASSUME NEW Z, 0 \in Z, \A n \in Nat : n \in Z => n + 1 \in Z
    PROVE  Nat \subseteq Z
<1> SUFFICES ASSUME Nat \ Z # {} PROVE FALSE
  OBVIOUS
<1> DEFINE R == OpToRel(<, Nat)
           T == Nat \ Z
<1>1. IsWellFoundedOn(R, Nat)
  BY NatLessThanWellFounded
<1> HIDE DEF R
<1>2. PICK x \in T : \A y \in T : ~(<<y, x>> \in R)
  BY <1>1, WFMin
<1>3. x # 0 /\ x - 1 \in Nat
  BY <1>2
<1>4. x - 1 \in Z
  <2>1. <<x - 1, x>> \in R
    BY <1>3 DEF R, OpToRel
  <2>2. QED
    BY <1>2, <1>3, <2>1
<1>5. x \in Z
  BY <1>3, <1>4
<1>6. QED
  BY <1>2, <1>5

\* Induction over the subsets of a finite set, for the set of those that have
\* a property.
LEMMA SubsetInduction ==
    ASSUME NEW S, IsFiniteSet(S), NEW Z,
           \A T \in SUBSET S : (\A x \in T : T \ {x} \in Z) => T \in Z
    PROVE  SUBSET S \subseteq Z
<1> DEFINE N == {n \in Nat : \A T \in SUBSET S : Cardinality(T) = n => T \in Z}
<1>1. \A T \in SUBSET S : IsFiniteSet(T) /\ Cardinality(T) \in Nat
  BY FS_Subset, FS_CardinalityType
<1>2. 0 \in N
  <2>1. ASSUME NEW T \in SUBSET S, Cardinality(T) = 0 PROVE T \in Z
    <3>1. T = {}
      BY <1>1, <2>1, FS_EmptySet
    <3> QED
      BY <3>1
  <2> QED
    BY <2>1
<1>3. ASSUME NEW n \in Nat, n \in N PROVE n + 1 \in N
  <2>1. ASSUME NEW T \in SUBSET S, Cardinality(T) = n + 1, NEW x \in T
        PROVE  T \ {x} \in Z
    <3>1. Cardinality(T \ {x}) = n
      BY <1>1, <2>1, FS_RemoveElement
    <3> QED
      BY <1>3, <3>1
  <2> QED
    BY <2>1
<1> HIDE DEF N
<1>4. Nat \subseteq N
  BY <1>2, <1>3, SetInduction
<1> QED
  BY <1>1, <1>4 DEF N

\* A set of natural numbers that is not empty has a least one.
LEMMA LeastNat ==
    ASSUME NEW T \in SUBSET Nat, T # {}
    PROVE  \E x \in T : \A y \in T : x <= y
<1> DEFINE R == OpToRel(<, Nat)
<1>1. IsWellFoundedOn(R, Nat)
  BY NatLessThanWellFounded
<1> HIDE DEF R
<1>2. PICK x \in T : \A y \in T : ~(<<y, x>> \in R)
  BY <1>1, WFMin
<1>3. \A y \in T : ~(y < x)
  BY <1>2 DEF R, OpToRel
<1> QED
  BY <1>2, <1>3

\* A set of indices that has all below each of its members is the first ones.
LEMMA FirstIndices ==
    ASSUME NEW n \in Nat, NEW D \in SUBSET (1 .. n), \A i \in D : 1 .. i \subseteq D
    PROVE  Cardinality(D) \in 0 .. n /\ D = 1 .. Cardinality(D)
<1> DEFINE c == Cardinality(D)
<1>1. IsFiniteSet(1 .. n) /\ Cardinality(1 .. n) = n
  BY FS_Interval
<1>2. IsFiniteSet(D) /\ c <= n
  BY <1>1, FS_Subset
<1>3. c \in Nat
  BY <1>2, FS_CardinalityType
<1>4. ASSUME NEW i \in D PROVE i \in 1 .. c
  <2>1. i \in 1 .. n /\ Cardinality(1 .. i) = i
    BY FS_Interval
  <2>2. Cardinality(1 .. i) <= c
    BY <1>2, FS_Subset
  <2>3. QED
    BY <1>3, <2>1, <2>2
<1>5. IsFiniteSet(1 .. c) /\ Cardinality(1 .. c) = c
  <2> HIDE DEF c
  <2>1. QED
    BY <1>3, FS_Interval
<1>6. D \in SUBSET (1 .. c)
  BY <1>4
<1>7. D = 1 .. c
  BY <1>5, <1>6, FS_Subset
<1>8. QED
  BY <1>2, <1>3, <1>7

\* g is the recursive function on 0 .. m with this base and the step F, which
\* takes the argument and the value before.
Recurs(g, m, base, F) == g[0] = base /\ \A i \in 1 .. m : g[i] = F[<<i, g[i - 1]>>]

\* Such a function exists.
LEMMA SegmentRecursion ==
    ASSUME NEW D, NEW base \in D, NEW m \in Nat, NEW F \in [(1 .. m) \X D -> D]
    PROVE  \E g \in [0 .. m -> D] : Recurs(g, m, base, F)
<1> DEFINE Good(n, g) == g[0] = base /\ \A i \in 1 .. n : g[i] = F[<<i, g[i - 1]>>]
           Z == {n \in Nat : n <= m => \E g \in [0 .. n -> D] : Good(n, g)}
<1>1. 0 \in Z
  <2> DEFINE g == [i \in 0 .. 0 |-> base]
  <2>1. g \in [0 .. 0 -> D] /\ Good(0, g)
    OBVIOUS
  <2> QED
    BY <2>1
<1>2. ASSUME NEW n \in Nat, n \in Z PROVE n + 1 \in Z
  <2> SUFFICES ASSUME n + 1 <= m
               PROVE  \E g \in [0 .. n + 1 -> D] : Good(n + 1, g)
    OBVIOUS
  <2>1. n <= m /\ n + 1 \in 1 .. m /\ n \in 0 .. n
    OBVIOUS
  <2>2. PICK f \in [0 .. n -> D] : Good(n, f)
    BY <1>2, <2>1
  <2> DEFINE v == F[<<n + 1, f[n]>>]
             g == [i \in 0 .. n + 1 |-> IF i = n + 1 THEN v ELSE f[i]]
  <2>3. v \in D
    <3>1. f[n] \in D
      BY <2>1, <2>2
    <3> QED
      BY <2>1, <3>1
  <2>4. f[n] \in D
    BY <2>1, <2>2
  <2> HIDE DEF v
  <2>5. \A i \in 0 .. n + 1 : i # n + 1 => i \in 0 .. n
    OBVIOUS
  <2>6. g \in [0 .. n + 1 -> D]
    BY <2>2, <2>3, <2>5
  <2>7. g[0] = base
    BY <2>2
  <2>8. ASSUME NEW i \in 1 .. n + 1 PROVE g[i] = F[<<i, g[i - 1]>>]
    <3>1. CASE i = n + 1
      <4>1. i - 1 = n /\ n \in 0 .. n + 1 /\ n # n + 1
        BY <3>1
      <4>2. g[i] = v /\ g[i - 1] = f[n]
        BY <3>1, <4>1
      <4> QED
        BY <3>1, <4>2 DEF v
    <3>2. CASE i # n + 1
      <4>1. i \in 1 .. n /\ i - 1 \in 0 .. n
        BY <3>2
      <4>2. g[i] = f[i] /\ g[i - 1] = f[i - 1]
        BY <3>2, <4>1
      <4> QED
        BY <2>2, <4>1, <4>2
    <3> QED
      BY <3>1, <3>2
  <2> HIDE DEF g
  <2> QED
    BY <2>6, <2>7, <2>8
<1> HIDE DEF Z
<1>3. Nat \subseteq Z
  BY <1>1, <1>2, SetInduction
<1>4. m \in Z /\ m <= m
  BY <1>3
<1>5. \E g \in [0 .. m -> D] : Good(m, g)
  BY <1>4 DEF Z
<1> QED
  BY <1>5 DEF Recurs

---------------------------------------------------------------------------
(* The sum of a finite set.                                                *)

Any(T) == CHOOSE h \in T : TRUE

\* g is the sum of c over each of the subsets of S.
Sums(c, S, g) ==
    g = [T \in SUBSET S |-> IF T = {} THEN 0 ELSE c[Any(T)] + g[T \ {Any(T)}]]

SumOf(c, S) == (CHOOSE g : Sums(c, S, g))[S]

(* The element that a sum takes first is one of the set.                   *)
LEMMA AnyIn ==
    ASSUME NEW T, T # {}
    PROVE  Any(T) \in T
BY DEF Any

\* The recursion determines the sums ...
LEMMA SumsAgree ==
    ASSUME NEW c, NEW S, IsFiniteSet(S), NEW f, Sums(c, S, f),
           NEW T \in SUBSET S, NEW g, Sums(c, T, g)
    PROVE  f[T] = g[T]
<1> DEFINE Z == {U \in SUBSET T : f[U] = g[U]}
<1>1. ASSUME NEW U \in SUBSET T, \A x \in U : U \ {x} \in Z PROVE U \in Z
  <2>1. CASE U = {}
    BY <2>1 DEF Sums
  <2>2. CASE U # {}
    <3>1. f[U \ {Any(U)}] = g[U \ {Any(U)}]
      BY <1>1, <2>2, AnyIn
    <3>2. f[U] = c[Any(U)] + f[U \ {Any(U)}]
      BY <2>2 DEF Sums
    <3>3. g[U] = c[Any(U)] + g[U \ {Any(U)}]
      BY <2>2 DEF Sums
    <3> QED
      BY <3>1, <3>2, <3>3
  <2> QED
    BY <2>1, <2>2
<1>2. IsFiniteSet(T)
  BY FS_Subset
<1> HIDE DEF Z
<1>3. SUBSET T \subseteq Z
  BY <1>1, <1>2, SubsetInduction
<1> QED
  BY <1>3 DEF Z

\* ... so a sum over S is the sum of each of its subsets ...
LEMMA SumAt ==
    ASSUME NEW c, NEW S, IsFiniteSet(S), NEW f, Sums(c, S, f), NEW T \in SUBSET S
    PROVE  SumOf(c, T) = f[T]
<1> DEFINE r == [U \in SUBSET T |-> f[U]]
<1>1. Sums(c, T, r)
  <2>1. \A U \in SUBSET T :
          f[U] = IF U = {} THEN 0 ELSE c[Any(U)] + f[U \ {Any(U)}]
    BY DEF Sums
  <2>2. \A U \in SUBSET T :
          r[U] = IF U = {} THEN 0 ELSE c[Any(U)] + r[U \ {Any(U)}]
    BY <2>1
  <2> QED
    BY <2>2 DEF Sums
<1> HIDE DEF r
<1>2. Sums(c, T, CHOOSE g : Sums(c, T, g))
  BY <1>1, Zenon
<1> QED
  BY <1>2, SumsAgree DEF SumOf

\* ... and they exist, so SumOf follows the recursion.
LEMMA SumsExist ==
    ASSUME NEW c, NEW S, IsFiniteSet(S)
    PROVE  \E g : Sums(c, S, g)
<1> DEFINE Z == {T \in SUBSET S : \E g : Sums(c, T, g)}
           W(U) == IF U = {} THEN 0 ELSE c[Any(U)] + SumOf(c, U \ {Any(U)})
<1>0. \A T \in SUBSET S : IsFiniteSet(T)
  BY FS_Subset
<1>1. ASSUME NEW T \in SUBSET S, NEW g, Sums(c, T, g) PROVE SumOf(c, T) = W(T)
  <2>1. SumOf(c, T) = g[T]
    BY <1>0, <1>1, SumAt
  <2>2. CASE T = {}
    BY <1>1, <2>1, <2>2 DEF Sums
  <2>3. CASE T # {}
    <3>1. g[T] = c[Any(T)] + g[T \ {Any(T)}]
      BY <1>1, <2>3 DEF Sums
    <3>2. T \ {Any(T)} \in SUBSET T
      OBVIOUS
    <3>3. SumOf(c, T \ {Any(T)}) = g[T \ {Any(T)}]
      BY <1>0, <1>1, <3>2, SumAt
    <3> QED
      BY <2>1, <2>3, <3>1, <3>3
  <2> QED
    BY <2>2, <2>3
<1>2. ASSUME NEW T \in SUBSET S, \A x \in T : T \ {x} \in Z PROVE T \in Z
  <2> DEFINE G == [U \in SUBSET T |-> W(U)]
  <2>1. ASSUME NEW U \in SUBSET T, U # {} PROVE SumOf(c, U \ {Any(U)}) = W(U \ {Any(U)})
    <3> DEFINE x == Any(U)
    <3>1. x \in T /\ T \ {x} \in Z
      BY <1>2, <2>1, AnyIn
    <3> HIDE DEF x, W
    <3>2. PICK g : Sums(c, T \ {x}, g)
      BY <3>1
    <3>3. \A V \in SUBSET (T \ {x}) : \E f : Sums(c, V, f)
      <4> TAKE V \in SUBSET (T \ {x})
      <4> DEFINE r == [Q \in SUBSET V |-> g[Q]]
      <4>1. \A Q \in SUBSET V :
              g[Q] = IF Q = {} THEN 0 ELSE c[Any(Q)] + g[Q \ {Any(Q)}]
        BY <3>2 DEF Sums
      <4>2. \A Q \in SUBSET V :
              r[Q] = IF Q = {} THEN 0 ELSE c[Any(Q)] + r[Q \ {Any(Q)}]
        BY <4>1
      <4>3. Sums(c, V, r)
        BY <4>2 DEF Sums
      <4> QED
        BY <4>3
    <3>4. U \ {x} \in SUBSET (T \ {x}) /\ U \ {x} \in SUBSET S
      OBVIOUS
    <3>5. PICK f : Sums(c, U \ {x}, f)
      BY <3>3, <3>4
    <3> QED
      BY <1>1, <3>4, <3>5 DEF x
  <2>2. \A U \in SUBSET T : U # {} => G[U \ {Any(U)}] = SumOf(c, U \ {Any(U)})
    BY <2>1
  <2>3. \A U \in SUBSET T :
          G[U] = IF U = {} THEN 0 ELSE c[Any(U)] + G[U \ {Any(U)}]
    BY <2>2
  <2>4. Sums(c, T, G)
    BY <2>3 DEF Sums
  <2> QED
    BY <2>4
<1> HIDE DEF Z
<1>3. SUBSET S \subseteq Z
  BY <1>2, SubsetInduction
<1> QED
  BY <1>3 DEF Z

(* A sum takes any element first and goes on with the others.              *)
LEMMA SumRecursion ==
    ASSUME NEW c, NEW S, IsFiniteSet(S)
    PROVE  SumOf(c, S) = IF S = {} THEN 0 ELSE c[Any(S)] + SumOf(c, S \ {Any(S)})
<1>1. PICK g : Sums(c, S, g)
  BY SumsExist
<1>2. SumOf(c, S) = g[S] /\ SumOf(c, S \ {Any(S)}) = g[S \ {Any(S)}]
  BY <1>1, SumAt
<1> QED
  BY <1>1, <1>2 DEF Sums

\* A sum of natural numbers is one, and the same for all functions that agree
\* on the set.
LEMMA SumIsNat ==
    ASSUME NEW c, NEW S, IsFiniteSet(S), \A h \in S : c[h] \in Nat
    PROVE  SumOf(c, S) \in Nat
<1> DEFINE Z == {T \in SUBSET S : SumOf(c, T) \in Nat}
<1>1. ASSUME NEW T \in SUBSET S, \A x \in T : T \ {x} \in Z PROVE T \in Z
  <2>1. SumOf(c, T) = IF T = {} THEN 0 ELSE c[Any(T)] + SumOf(c, T \ {Any(T)})
    BY FS_Subset, SumRecursion
  <2> QED
    BY <1>1, <2>1, AnyIn
<1> HIDE DEF Z
<1>2. SUBSET S \subseteq Z
  BY <1>1, SubsetInduction
<1> QED
  BY <1>2 DEF Z

(* A sum depends only on the values at the elements of its set.            *)
LEMMA SumDepends ==
    ASSUME NEW c, NEW d, NEW S, IsFiniteSet(S), \A h \in S : c[h] = d[h]
    PROVE  SumOf(c, S) = SumOf(d, S)
<1> DEFINE Z == {T \in SUBSET S : SumOf(c, T) = SumOf(d, T)}
<1>1. ASSUME NEW T \in SUBSET S, \A x \in T : T \ {x} \in Z PROVE T \in Z
  <2>1. /\ SumOf(c, T) = IF T = {} THEN 0 ELSE c[Any(T)] + SumOf(c, T \ {Any(T)})
        /\ SumOf(d, T) = IF T = {} THEN 0 ELSE d[Any(T)] + SumOf(d, T \ {Any(T)})
    BY FS_Subset, SumRecursion
  <2> QED
    BY <1>1, <2>1, AnyIn
<1> HIDE DEF Z
<1>2. SUBSET S \subseteq Z
  BY <1>1, SubsetInduction
<1> QED
  BY <1>2 DEF Z

\* The order of the sum does not matter: any element may be taken out.
LEMMA SumRemove ==
    ASSUME NEW c, NEW S, IsFiniteSet(S), \A h \in S : c[h] \in Nat, NEW x \in S
    PROVE  SumOf(c, S) = c[x] + SumOf(c, S \ {x})
<1> DEFINE Z == {T \in SUBSET S : \A y \in T : SumOf(c, T) = c[y] + SumOf(c, T \ {y})}
<1>1. ASSUME NEW T \in SUBSET S, \A y \in T : T \ {y} \in Z PROVE T \in Z
  <2>0. ASSUME NEW y \in T PROVE SumOf(c, T) = c[y] + SumOf(c, T \ {y})
    <3> DEFINE h == Any(T)
    <3>1. h \in T /\ SumOf(c, T) = c[h] + SumOf(c, T \ {h})
      BY FS_Subset, SumRecursion, AnyIn
    <3> HIDE DEF h
    <3>2. CASE h = y
      BY <3>1, <3>2
    <3>3. CASE h # y
      <4>1. SumOf(c, T \ {h}) = c[y] + SumOf(c, (T \ {h}) \ {y})
        BY <1>1, <3>1, <3>3
      <4>2. SumOf(c, T \ {y}) = c[h] + SumOf(c, (T \ {y}) \ {h})
        BY <1>1, <3>1, <3>3
      <4>3. (T \ {y}) \ {h} = (T \ {h}) \ {y}
        OBVIOUS
      <4>4. SumOf(c, (T \ {h}) \ {y}) \in Nat
        <5>1. IsFiniteSet((T \ {h}) \ {y}) /\ \A z \in (T \ {h}) \ {y} : c[z] \in Nat
          BY FS_Subset
        <5> QED
          BY <5>1, SumIsNat
      <4>5. c[y] \in Nat /\ c[h] \in Nat
        BY <3>1
      <4> QED
        BY <3>1, <4>1, <4>2, <4>3, <4>4, <4>5
    <3> QED
      BY <3>2, <3>3
  <2> QED
    BY <2>0
<1> HIDE DEF Z
<1>2. SUBSET S \subseteq Z
  BY <1>1, SubsetInduction
<1> QED
  BY <1>2 DEF Z

\* A sum of no greater numbers is no greater.
LEMMA SumMonotone ==
    ASSUME NEW c, NEW d, NEW S, IsFiniteSet(S),
           \A h \in S : c[h] \in Nat /\ d[h] \in Nat /\ c[h] <= d[h]
    PROVE  SumOf(c, S) <= SumOf(d, S)
<1> DEFINE Z == {T \in SUBSET S : SumOf(c, T) <= SumOf(d, T)}
<1>1. ASSUME NEW T \in SUBSET S, \A x \in T : T \ {x} \in Z PROVE T \in Z
  <2>1. /\ SumOf(c, T) = IF T = {} THEN 0 ELSE c[Any(T)] + SumOf(c, T \ {Any(T)})
        /\ SumOf(d, T) = IF T = {} THEN 0 ELSE d[Any(T)] + SumOf(d, T \ {Any(T)})
    BY FS_Subset, SumRecursion
  <2>2. \A x \in T : SumOf(c, T \ {x}) \in Nat /\ SumOf(d, T \ {x}) \in Nat
    BY FS_Subset, SumIsNat
  <2> QED
    BY <1>1, <2>1, <2>2, AnyIn
<1> HIDE DEF Z
<1>2. SUBSET S \subseteq Z
  BY <1>1, SubsetInduction
<1> QED
  BY <1>2 DEF Z

===========================================================================
