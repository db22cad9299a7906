------------------------------ MODULE SumTheorems ------------------------------
(***************************************************************************)
(* Facts about sums over finite sets, SumFunctionOnSet and SumFunction of  *)
(* Functions.tla, and the induction principles they rest on, stated with a *)
(* set in the place of a predicate.                                        *)
(***************************************************************************)
EXTENDS Functions, TLAPS, FiniteSetTheorems

\* A set of numbers that is not empty has a least one.
LEMMA LeastNumber ==
  ASSUME NEW S \in SUBSET Nat, S # {}
  PROVE  \E n \in S : \A m \in S : n <= m
<1> DEFINE Less == OpToRel(<, Nat)
<1>1. \A m, n \in Nat : <<m, n>> \in Less <=> m < n
  BY DEF OpToRel
<1>2. IsWellFoundedOn(Less, Nat)
  BY NatLessThanWellFounded
<1> HIDE DEF Less
<1>3. PICK n \in S : \A m \in S : ~(<<m, n>> \in Less)
  BY <1>2, WFMin
<1>4. \A m \in S : m \in Nat /\ n \in Nat /\ ~(m < n)
  BY <1>1, <1>3
<1> QED BY <1>4

\* A set with 0 and the successor of every number in it has every number.
LEMMA NatSetInduction ==
  ASSUME NEW P, 0 \in P, \A n \in Nat : n \in P => n + 1 \in P
  PROVE  \A n \in Nat : n \in P
<1> SUFFICES ASSUME Nat \ P # {} PROVE FALSE
  OBVIOUS
<1>1. PICK n \in Nat \ P : \A m \in Nat \ P : n <= m
  BY LeastNumber
<1>2. n # 0 /\ n - 1 \in Nat /\ ~(n <= n - 1)
  BY <1>1
<1>3. n - 1 \in P
  BY <1>1, <1>2
<1> QED BY <1>1, <1>2, <1>3

\* A set P of subsets has a finite set if it has {} and every subset that is in
\* it whichever of its elements is taken out.
LEMMA FiniteSetInduction ==
  ASSUME NEW S, IsFiniteSet(S), NEW P, {} \in P,
         \A T \in SUBSET S : T # {} /\ (\A x \in T : T \ {x} \in P) => T \in P
  PROVE  S \in P
<1> DEFINE N == {n \in Nat : \A T \in SUBSET S : Cardinality(T) = n => T \in P}
<1>1. \A T \in SUBSET S : IsFiniteSet(T) /\ Cardinality(T) \in Nat
  BY FS_Subset, FS_CardinalityType
<1>2. 0 \in N
  BY <1>1, FS_EmptySet
<1>3. ASSUME NEW n \in Nat, n \in N PROVE n + 1 \in N
  <2> SUFFICES ASSUME NEW T \in SUBSET S, Cardinality(T) = n + 1 PROVE T \in P
    OBVIOUS
  <2> HIDE DEF N
  <2>1. T # {}
    <3>1. Cardinality({}) = 0 /\ n + 1 # 0
      BY FS_EmptySet
    <3> QED BY <3>1
  <2>2. ASSUME NEW x \in T PROVE Cardinality(T \ {x}) = n
    <3>1. IsFiniteSet(T)
      BY <1>1
    <3>2. Cardinality(T \ {x}) = Cardinality(T) - 1
      BY <2>2, <3>1, FS_RemoveElement
    <3> QED BY <3>2
  <2>3. \A x \in T : T \ {x} \in P
    BY <1>3, <2>2 DEF N
  <2> QED BY <2>1, <2>3
<1>4. \A n \in Nat : n \in N
  <2> HIDE DEF N
  <2> QED BY <1>2, <1>3, NatSetInduction
<1> QED BY <1>1, <1>4

-----------------------------------------------------------------------------
\* The fold beneath a sum takes the elements of a set in an order of its own.
\* Unfolds says that h is the recursive function of that fold.
Pick(s) == CHOOSE x \in s : TRUE
Unfolds(h, f, S) ==
  h = [s \in SUBSET S |-> IF s = {} THEN 0 ELSE f[Pick(s)] + h[s \ {Pick(s)}]]

LEMMA PickIsMember == \A s : s # {} => Pick(s) \in s
BY DEF Pick

\* There is such a function: up to any size by induction.
LEMMA UnfoldsExists ==
  ASSUME NEW S, IsFiniteSet(S), NEW f
  PROVE  \E h : Unfolds(h, f, S)
<1> DEFINE step(h, s) == IF s = {} THEN 0 ELSE f[Pick(s)] + h[s \ {Pick(s)}]
           Upto(n) == \E h : /\ DOMAIN h = SUBSET S /\ h = [s \in SUBSET S |-> h[s]]
                             /\ \A s \in SUBSET S : Cardinality(s) <= n => h[s] = step(h, s)
           N == {n \in Nat : Upto(n)}
<1>1. \A s \in SUBSET S : IsFiniteSet(s) /\ Cardinality(s) \in Nat
  BY FS_Subset, FS_CardinalityType
<1>2. Upto(0)
  <2> DEFINE h == [s \in SUBSET S |-> 0]
  <2>1. ASSUME NEW s \in SUBSET S, Cardinality(s) <= 0 PROVE s = {}
    <3>1. Cardinality(s) = 0
      BY <1>1, <2>1
    <3> QED BY <1>1, <3>1, FS_EmptySet
  <2>2. \A s \in SUBSET S : Cardinality(s) <= 0 => h[s] = step(h, s)
    BY <2>1
  <2> QED BY <2>2
<1>3. ASSUME NEW n \in Nat, Upto(n) PROVE Upto(n + 1)
  <2>1. PICK h : /\ DOMAIN h = SUBSET S
                 /\ \A s \in SUBSET S : Cardinality(s) <= n => h[s] = step(h, s)
    BY <1>3
  <2> DEFINE g == [s \in SUBSET S |-> step(h, s)]
  <2>2. ASSUME NEW s \in SUBSET S, Cardinality(s) <= n + 1 PROVE g[s] = step(g, s)
    <3>1. CASE s = {}
      BY <3>1
    <3>2. CASE s # {}
      <4> DEFINE r == s \ {Pick(s)}
      <4>1. Pick(s) \in s
        BY <3>2, PickIsMember
      <4>2. r \in SUBSET S /\ Cardinality(r) <= n
        BY <1>1, <2>2, <4>1, FS_RemoveElement
      <4>3. h[r] = g[r]
        BY <2>1, <4>2
      <4> QED BY <3>2, <4>3
    <3> QED BY <3>1, <3>2
  <2> QED BY <2>2
<1>4. \A n \in Nat : n \in N
  <2> HIDE DEF Upto
  <2>1. 0 \in N /\ \A n \in Nat : n \in N => n + 1 \in N
    BY <1>2, <1>3
  <2> HIDE DEF N
  <2> QED BY <2>1, NatSetInduction
<1>5. Upto(Cardinality(S))
  BY <1>1, <1>4
<1>6. PICK h : /\ DOMAIN h = SUBSET S /\ h = [s \in SUBSET S |-> h[s]]
               /\ \A s \in SUBSET S : Cardinality(s) <= Cardinality(S) => h[s] = step(h, s)
  BY <1>5
<1>7. \A s \in SUBSET S : Cardinality(s) <= Cardinality(S)
  BY FS_Subset
<1> QED BY <1>6, <1>7 DEF Unfolds

\* Two of them agree wherever what they add up does.
LEMMA UnfoldsAgree ==
  ASSUME NEW S, NEW h, NEW f, Unfolds(h, f, S), NEW T, NEW g, NEW e, Unfolds(g, e, T),
         NEW U, IsFiniteSet(U), U \subseteq S, U \subseteq T, \A x \in U : f[x] = e[x]
  PROVE  h[U] = g[U]
<1> DEFINE N == {n \in Nat : \A s \in SUBSET U : Cardinality(s) = n => h[s] = g[s]}
<1>1. \A s \in SUBSET U : IsFiniteSet(s) /\ Cardinality(s) \in Nat
  BY FS_Subset, FS_CardinalityType
<1>2. \A s \in SUBSET U :
        /\ h[s] = IF s = {} THEN 0 ELSE f[Pick(s)] + h[s \ {Pick(s)}]
        /\ g[s] = IF s = {} THEN 0 ELSE e[Pick(s)] + g[s \ {Pick(s)}]
  BY DEF Unfolds
<1>3. 0 \in N
  BY <1>1, <1>2, FS_EmptySet
<1>4. ASSUME NEW n \in Nat, n \in N PROVE n + 1 \in N
  <2> SUFFICES ASSUME NEW s \in SUBSET U, Cardinality(s) = n + 1 PROVE h[s] = g[s]
    OBVIOUS
  <2> HIDE DEF N
  <2>1. s # {}
    <3>1. Cardinality({}) = 0 /\ n + 1 # 0
      BY FS_EmptySet
    <3> QED BY <3>1
  <2>2. Pick(s) \in s
    BY <2>1, PickIsMember
  <2>3. Cardinality(s \ {Pick(s)}) = n
    <3>1. IsFiniteSet(s)
      BY <1>1
    <3>2. Cardinality(s \ {Pick(s)}) = Cardinality(s) - 1
      BY <2>2, <3>1, FS_RemoveElement
    <3> QED BY <3>2
  <2>4. h[s \ {Pick(s)}] = g[s \ {Pick(s)}]
    BY <1>4, <2>3 DEF N
  <2> QED BY <1>2, <2>1, <2>2, <2>4
<1>5. \A n \in Nat : n \in N
  <2> HIDE DEF N
  <2> QED BY <1>3, <1>4, NatSetInduction
<1> QED BY <1>1, <1>5

LEMMA SumUnfolds ==
  ASSUME NEW S, NEW f, IsFiniteSet(S)
  PROVE  \E h : Unfolds(h, f, S) /\ SumFunctionOnSet(f, S) = h[S]
<1> DEFINE h == CHOOSE g : Unfolds(g, f, S)
<1>1. Unfolds(h, f, S)
  BY UnfoldsExists
<1>2. SumFunctionOnSet(f, S) = h[S]
  BY DEF SumFunctionOnSet, FoldFunctionOnSet, MapThenFoldSet, Unfolds, Pick
<1> QED BY <1>1, <1>2

-----------------------------------------------------------------------------
LEMMA SumOfNone == ASSUME NEW f PROVE SumFunctionOnSet(f, {}) = 0
<1>1. PICK h : Unfolds(h, f, {}) /\ SumFunctionOnSet(f, {}) = h[{}]
  BY SumUnfolds, FS_EmptySet
<1> QED BY <1>1 DEF Unfolds

\* A sum depends on the values at the elements of the set.
LEMMA SumAgrees ==
  ASSUME NEW S, IsFiniteSet(S), NEW f, NEW g, \A x \in S : f[x] = g[x]
  PROVE  SumFunctionOnSet(f, S) = SumFunctionOnSet(g, S)
<1>1. PICK h : Unfolds(h, f, S) /\ SumFunctionOnSet(f, S) = h[S]
  BY SumUnfolds
<1>2. PICK k : Unfolds(k, g, S) /\ SumFunctionOnSet(g, S) = k[S]
  BY SumUnfolds
<1> QED BY <1>1, <1>2, UnfoldsAgree

LEMMA SumPicks ==
  ASSUME NEW S, IsFiniteSet(S), S # {}, NEW f
  PROVE  SumFunctionOnSet(f, S) = f[Pick(S)] + SumFunctionOnSet(f, S \ {Pick(S)})
<1> DEFINE R == S \ {Pick(S)}
<1>1. PICK h : Unfolds(h, f, S) /\ SumFunctionOnSet(f, S) = h[S]
  BY SumUnfolds
<1>2. IsFiniteSet(R)
  BY FS_RemoveElement
<1>3. PICK k : Unfolds(k, f, R) /\ SumFunctionOnSet(f, R) = k[R]
  BY <1>2, SumUnfolds
<1>4. h[R] = k[R]
  BY <1>1, <1>2, <1>3, UnfoldsAgree
<1>5. h[S] = f[Pick(S)] + h[R]
  BY <1>1 DEF Unfolds
<1> QED BY <1>1, <1>3, <1>4, <1>5

LEMMA SumIsInt ==
  ASSUME NEW S, IsFiniteSet(S), NEW f, \A x \in S : f[x] \in Int
  PROVE  SumFunctionOnSet(f, S) \in Int
<1> DEFINE P == {T \in SUBSET S : SumFunctionOnSet(f, T) \in Int}
<1>1. {} \in P
  BY SumOfNone
<1>2. ASSUME NEW T \in SUBSET S, T # {}, \A x \in T : T \ {x} \in P PROVE T \in P
  <2>1. Pick(T) \in T /\ IsFiniteSet(T)
    BY <1>2, PickIsMember, FS_Subset
  <2>2. SumFunctionOnSet(f, T) = f[Pick(T)] + SumFunctionOnSet(f, T \ {Pick(T)})
    BY <1>2, <2>1, SumPicks
  <2> QED BY <1>2, <2>1, <2>2
<1>3. S \in P
  <2> HIDE DEF P
  <2> QED BY <1>1, <1>2, FiniteSetInduction
<1> QED BY <1>3

\* Any element may be taken out of a sum.
LEMMA SumRemove ==
  ASSUME NEW S, IsFiniteSet(S), NEW f, \A x \in S : f[x] \in Int, NEW y \in S
  PROVE  SumFunctionOnSet(f, S) = f[y] + SumFunctionOnSet(f, S \ {y})
<1> DEFINE Sum(T) == SumFunctionOnSet(f, T)
           P == {T \in SUBSET S : \A x \in T : Sum(T) = f[x] + Sum(T \ {x})}
<1>1. \A T \in SUBSET S : IsFiniteSet(T) /\ Sum(T) \in Int
  BY FS_Subset, SumIsInt
<1>2. ASSUME NEW T \in SUBSET S, T # {}, \A x \in T : T \ {x} \in P PROVE T \in P
  <2> DEFINE z == Pick(T)
  <2>1. z \in T /\ Sum(T) = f[z] + Sum(T \ {z})
    BY <1>1, <1>2, PickIsMember, SumPicks
  <2> HIDE DEF z
  <2> SUFFICES ASSUME NEW x \in T, x # z PROVE Sum(T) = f[x] + Sum(T \ {x})
    BY <2>1
  <2>2. Sum(T \ {z}) = f[x] + Sum((T \ {z}) \ {x})
    BY <1>2, <2>1
  <2>3. Sum(T \ {x}) = f[z] + Sum((T \ {x}) \ {z})
    BY <1>2, <2>1
  <2> DEFINE r == (T \ {z}) \ {x}
  <2>4. (T \ {x}) \ {z} = r
    OBVIOUS
  <2>5. Sum(r) \in Int /\ f[x] \in Int /\ f[z] \in Int
    BY <1>1, <2>1
  <2>6. Sum(T \ {x}) = f[z] + Sum(r)
    BY <2>3, <2>4
  <2> HIDE DEF Sum, P, r
  <2> QED BY <2>1, <2>2, <2>5, <2>6 DEF r
<1>3. S \in P
  <2>1. {} \in P
    OBVIOUS
  <2> HIDE DEF P
  <2> QED BY <1>2, <2>1, FiniteSetInduction
<1> QED BY <1>3

\* What one more element adds to a sum, and what a changed value changes.
LEMMA SumAdd ==
  ASSUME NEW S, IsFiniteSet(S), NEW y, y \notin S, NEW f, \A x \in S \cup {y} : f[x] \in Int
  PROVE  SumFunctionOnSet(f, S \cup {y}) = SumFunctionOnSet(f, S) + f[y]
<1> DEFINE T == S \cup {y}
<1>1. IsFiniteSet(T) /\ y \in T /\ T \ {y} = S
  BY FS_AddElement
<1>2. \A x \in T : f[x] \in Int
  OBVIOUS
<1> HIDE DEF T
<1>3. SumFunctionOnSet(f, T) = f[y] + SumFunctionOnSet(f, S)
  BY <1>1, <1>2, SumRemove
<1>4. SumFunctionOnSet(f, S) \in Int /\ f[y] \in Int
  BY SumIsInt
<1> QED BY <1>3, <1>4 DEF T

LEMMA SumChange ==
  ASSUME NEW S, IsFiniteSet(S), NEW y \in S, NEW f, NEW g,
         \A x \in S : f[x] \in Int, \A x \in S : x # y => g[x] = f[x], g[y] \in Int
  PROVE  SumFunctionOnSet(g, S) = SumFunctionOnSet(f, S) + g[y] - f[y]
<1>1. SumFunctionOnSet(f, S) = f[y] + SumFunctionOnSet(f, S \ {y})
  BY SumRemove
<1>2. \A x \in S : g[x] \in Int
  OBVIOUS
<1>3. SumFunctionOnSet(g, S) = g[y] + SumFunctionOnSet(g, S \ {y})
  BY <1>2, SumRemove
<1>4. IsFiniteSet(S \ {y})
  BY FS_RemoveElement
<1>5. SumFunctionOnSet(g, S \ {y}) = SumFunctionOnSet(f, S \ {y})
  BY <1>4, SumAgrees
<1>6. SumFunctionOnSet(f, S \ {y}) \in Int
  BY <1>4, SumIsInt
<1> QED BY <1>1, <1>3, <1>5, <1>6

LEMMA SumIsNat ==
  ASSUME NEW S, IsFiniteSet(S), NEW f, \A x \in S : f[x] \in Nat
  PROVE  SumFunctionOnSet(f, S) \in Nat
<1> DEFINE P == {T \in SUBSET S : SumFunctionOnSet(f, T) \in Nat}
<1>1. {} \in P
  BY SumOfNone
<1>2. ASSUME NEW T \in SUBSET S, T # {}, \A x \in T : T \ {x} \in P PROVE T \in P
  <2>1. Pick(T) \in T /\ IsFiniteSet(T)
    BY <1>2, PickIsMember, FS_Subset
  <2>2. SumFunctionOnSet(f, T) = f[Pick(T)] + SumFunctionOnSet(f, T \ {Pick(T)})
    BY <1>2, <2>1, SumPicks
  <2> QED BY <1>2, <2>1, <2>2
<1>3. S \in P
  <2> HIDE DEF P
  <2> QED BY <1>1, <1>2, FiniteSetInduction
<1> QED BY <1>3

\* Sums of pointwise sums, and of pointwise smaller values.
LEMMA SumPlus ==
  ASSUME NEW S, IsFiniteSet(S), NEW f, NEW g, NEW h,
         \A x \in S : f[x] \in Int /\ g[x] \in Int /\ h[x] = f[x] + g[x]
  PROVE  SumFunctionOnSet(h, S) = SumFunctionOnSet(f, S) + SumFunctionOnSet(g, S)
<1> DEFINE Sum(e, T) == SumFunctionOnSet(e, T)
           P == {T \in SUBSET S : Sum(h, T) = Sum(f, T) + Sum(g, T)}
<1>1. {} \in P
  BY SumOfNone
<1>2. ASSUME NEW T \in SUBSET S, T # {}, \A x \in T : T \ {x} \in P PROVE T \in P
  <2>1. PICK x \in T : TRUE
    BY <1>2
  <2> DEFINE R == T \ {x}
  <2>2. IsFiniteSet(T) /\ IsFiniteSet(R)
    BY FS_Subset, FS_RemoveElement
  <2>3. \A y \in T : f[y] \in Int /\ g[y] \in Int /\ h[y] \in Int
    OBVIOUS
  <2>4. /\ Sum(h, T) = h[x] + Sum(h, R) /\ Sum(f, T) = f[x] + Sum(f, R)
        /\ Sum(g, T) = g[x] + Sum(g, R)
    BY <2>2, <2>3, SumRemove
  <2>5. Sum(f, R) \in Int /\ Sum(g, R) \in Int
    BY <2>2, <2>3, SumIsInt
  <2>6. Sum(h, R) = Sum(f, R) + Sum(g, R)
    BY <1>2
  <2>7. f[x] \in Int /\ g[x] \in Int /\ h[x] = f[x] + g[x]
    OBVIOUS
  <2> HIDE DEF R, Sum
  <2> QED BY <2>4, <2>5, <2>6, <2>7
<1>3. S \in P
  <2> HIDE DEF P
  <2> QED BY <1>1, <1>2, FiniteSetInduction
<1> QED BY <1>3

LEMMA SumBounded ==
  ASSUME NEW S, IsFiniteSet(S), NEW f, NEW g,
         \A x \in S : f[x] \in Int /\ g[x] \in Int /\ f[x] <= g[x]
  PROVE  SumFunctionOnSet(f, S) <= SumFunctionOnSet(g, S)
<1> DEFINE h == [x \in S |-> g[x] - f[x]]
<1>1. \A x \in S : f[x] \in Int /\ h[x] \in Int /\ h[x] \in Nat /\ g[x] = f[x] + h[x]
  OBVIOUS
<1> HIDE DEF h
<1>2. SumFunctionOnSet(g, S) = SumFunctionOnSet(f, S) + SumFunctionOnSet(h, S)
  BY <1>1, SumPlus
<1>3. SumFunctionOnSet(h, S) \in Nat
  BY <1>1, SumIsNat
<1>4. SumFunctionOnSet(f, S) \in Int
  BY <1>1, SumIsInt
<1> QED BY <1>2, <1>3, <1>4

LEMMA SumOfZeros ==
  ASSUME NEW S, IsFiniteSet(S), NEW f, \A x \in S : f[x] = 0
  PROVE  SumFunctionOnSet(f, S) = 0
<1>1. \A x \in S : f[x] \in Int /\ f[x] = f[x] + f[x]
  OBVIOUS
<1> DEFINE s == SumFunctionOnSet(f, S)
<1>2. s = s + s
  BY <1>1, SumPlus
<1>3. s \in Int
  BY <1>1, SumIsInt
<1>4. \A i \in Int : i = i + i => i = 0
  OBVIOUS
<1> HIDE DEF s
<1>5. s = 0
  BY ONLY <1>2, <1>3, <1>4
<1> QED BY <1>5 DEF s

\* The sum of the negatives is the negative of the sum.
LEMMA SumNegated ==
  ASSUME NEW S, IsFiniteSet(S), NEW f, NEW g, \A x \in S : f[x] \in Int /\ g[x] = -f[x]
  PROVE  SumFunctionOnSet(g, S) = -SumFunctionOnSet(f, S)
<1> DEFINE z == [x \in S |-> 0]
<1>1. \A x \in S : f[x] \in Int /\ g[x] \in Int /\ z[x] = f[x] + g[x]
  OBVIOUS
<1>2. \A x \in S : z[x] = 0
  OBVIOUS
<1> HIDE DEF z
<1>3. SumFunctionOnSet(z, S) = SumFunctionOnSet(f, S) + SumFunctionOnSet(g, S)
  BY <1>1, SumPlus
<1>4. SumFunctionOnSet(z, S) = 0
  BY <1>2, SumOfZeros
<1>5. SumFunctionOnSet(f, S) \in Int /\ SumFunctionOnSet(g, S) \in Int
  BY <1>1, SumIsInt
<1> QED BY <1>3, <1>4, <1>5

\* A sum over two sets that share nothing; a part of a sum of naturals.
LEMMA SumOfUnion ==
  ASSUME NEW S, IsFiniteSet(S), NEW T, IsFiniteSet(T), S \cap T = {},
         NEW f, \A x \in S \cup T : f[x] \in Int
  PROVE  SumFunctionOnSet(f, S \cup T) = SumFunctionOnSet(f, S) + SumFunctionOnSet(f, T)
<1> DEFINE P == {U \in SUBSET S : SumFunctionOnSet(f, U \cup T)
                                    = SumFunctionOnSet(f, U) + SumFunctionOnSet(f, T)}
<1>1. {} \in P
  <2>1. {} \cup T = T /\ SumFunctionOnSet(f, T) \in Int
    BY SumIsInt
  <2> QED BY <2>1, SumOfNone
<1>2. ASSUME NEW U \in SUBSET S, U # {}, \A x \in U : U \ {x} \in P PROVE U \in P
  <2>1. PICK x \in U : TRUE
    BY <1>2
  <2> DEFINE R == U \ {x}
             V == U \cup T
  <2>2. IsFiniteSet(U) /\ IsFiniteSet(R) /\ IsFiniteSet(V) /\ V \ {x} = R \cup T
    <3>1. IsFiniteSet(U)
      BY FS_Subset
    <3>2. IsFiniteSet(R)
      BY <3>1, FS_RemoveElement
    <3>3. IsFiniteSet(V)
      BY <3>1, FS_Union
    <3>4. V \ {x} = R \cup T
      OBVIOUS
    <3> QED BY <3>1, <3>2, <3>3, <3>4
  <2>3. \A y \in V : f[y] \in Int
    OBVIOUS
  <2>4. x \in V
    OBVIOUS
  <2>5. SumFunctionOnSet(f, R \cup T) = SumFunctionOnSet(f, R) + SumFunctionOnSet(f, T)
    BY <1>2
  <2>6. SumFunctionOnSet(f, U) = f[x] + SumFunctionOnSet(f, R)
    BY <2>2, <2>3, SumRemove
  <2>7. SumFunctionOnSet(f, R) \in Int /\ SumFunctionOnSet(f, T) \in Int /\ f[x] \in Int
    BY <2>2, <2>3, SumIsInt
  <2> HIDE DEF R, V
  <2>8. SumFunctionOnSet(f, V) = f[x] + SumFunctionOnSet(f, R \cup T)
    BY <2>2, <2>3, <2>4, SumRemove
  <2>9. SumFunctionOnSet(f, V) = SumFunctionOnSet(f, U) + SumFunctionOnSet(f, T)
    BY <2>5, <2>6, <2>7, <2>8
  <2> QED BY <2>9 DEF V
<1>3. S \in P
  <2> HIDE DEF P
  <2> QED BY <1>1, <1>2, FiniteSetInduction
<1> QED BY <1>3

LEMMA SumOfPart ==
  ASSUME NEW T, IsFiniteSet(T), NEW S \in SUBSET T, NEW f, \A x \in T : f[x] \in Nat
  PROVE  SumFunctionOnSet(f, S) <= SumFunctionOnSet(f, T)
<1> DEFINE R == T \ S
<1>1. IsFiniteSet(S) /\ IsFiniteSet(R) /\ S \cap R = {} /\ S \cup R = T
  BY FS_Subset, FS_Difference
<1>2. /\ \A x \in S \cup R : f[x] \in Int
      /\ \A x \in S : f[x] \in Nat
      /\ \A x \in R : f[x] \in Nat
  OBVIOUS
<1> HIDE DEF R
<1>3. SumFunctionOnSet(f, T) = SumFunctionOnSet(f, S) + SumFunctionOnSet(f, R)
  BY <1>1, <1>2, SumOfUnion
<1>4. SumFunctionOnSet(f, S) \in Nat /\ SumFunctionOnSet(f, R) \in Nat
  BY <1>1, <1>2, SumIsNat
<1> QED BY <1>3, <1>4

\* A table adds up to the same by rows and by columns.
LEMMA SumSwap ==
  ASSUME NEW S, IsFiniteSet(S), NEW A, IsFiniteSet(A), NEW f,
         \A x \in S, a \in A : f[x][a] \in Int
  PROVE  SumFunctionOnSet([x \in S |-> SumFunctionOnSet(f[x], A)], S)
           = SumFunctionOnSet([a \in A |-> SumFunctionOnSet([x \in S |-> f[x][a]], S)], A)
<1> DEFINE row == [x \in S |-> SumFunctionOnSet(f[x], A)]
           col(a) == [x \in S |-> f[x][a]]
           cols(T) == [a \in A |-> SumFunctionOnSet(col(a), T)]
           P == {T \in SUBSET S : SumFunctionOnSet(row, T) = SumFunctionOnSet(cols(T), A)}
<1>1. {} \in P
  <2>1. \A a \in A : cols({})[a] = 0
    BY SumOfNone
  <2>2. SumFunctionOnSet(cols({}), A) = 0
    <3> HIDE DEF cols
    <3> QED BY <2>1, SumOfZeros
  <2> HIDE DEF row, cols
  <2> QED BY <2>2, SumOfNone
<1>2. \A x \in S : row[x] \in Int
  BY SumIsInt
<1>3. ASSUME NEW T \in SUBSET S, T # {}, \A x \in T : T \ {x} \in P PROVE T \in P
  <2>1. PICK x \in T : TRUE
    BY <1>3
  <2> DEFINE R == T \ {x}
  <2>2. IsFiniteSet(T) /\ IsFiniteSet(R)
    BY FS_Subset, FS_RemoveElement
  <2>3. SumFunctionOnSet(row, T) = row[x] + SumFunctionOnSet(row, R)
    <3> HIDE DEF row
    <3> QED BY <1>2, <2>2, SumRemove
  <2>4. ASSUME NEW a \in A
        PROVE  f[x][a] \in Int /\ cols(R)[a] \in Int /\ cols(T)[a] = f[x][a] + cols(R)[a]
    <3>1. \A y \in T : col(a)[y] \in Int
      OBVIOUS
    <3>2. col(a)[x] = f[x][a]
      OBVIOUS
    <3> HIDE DEF col
    <3>3. SumFunctionOnSet(col(a), T) = col(a)[x] + SumFunctionOnSet(col(a), R)
      BY <2>2, <3>1, SumRemove
    <3>4. SumFunctionOnSet(col(a), R) \in Int
      BY <2>2, <3>1, SumIsInt
    <3> QED BY <3>1, <3>2, <3>3, <3>4
  <2>5. SumFunctionOnSet(cols(T), A) = SumFunctionOnSet(f[x], A) + SumFunctionOnSet(cols(R), A)
    <3> HIDE DEF cols
    <3> QED BY <2>4, SumPlus
  <2>6. SumFunctionOnSet(row, R) = SumFunctionOnSet(cols(R), A)
    BY <1>3
  <2> HIDE DEF cols
  <2> QED BY <2>3, <2>5, <2>6
<1>4. S \in P
  <2> HIDE DEF P
  <2> QED BY <1>1, <1>3, FiniteSetInduction
<1>5. SumFunctionOnSet(row, S) = SumFunctionOnSet(cols(S), A)
  BY <1>4
<1> QED BY <1>5

\* Parts that a key tells apart add up to the whole.
LEMMA SumByKey ==
  ASSUME NEW S, IsFiniteSet(S), NEW A, IsFiniteSet(A), NEW f, \A x \in S : f[x] \in Int,
         NEW key, \A x \in S : key[x] \in A
  PROVE  SumFunctionOnSet([a \in A |-> SumFunctionOnSet(f, {x \in S : key[x] = a})], A)
           = SumFunctionOnSet(f, S)
<1> DEFINE part(T, a) == {x \in T : key[x] = a}
           parts(T) == [a \in A |-> SumFunctionOnSet(f, part(T, a))]
           P == {T \in SUBSET S : SumFunctionOnSet(parts(T), A) = SumFunctionOnSet(f, T)}
<1>1. {} \in P
  <2>1. \A a \in A : part({}, a) = {}
    OBVIOUS
  <2>2. \A a \in A : parts({})[a] = 0
    BY <2>1, SumOfNone
  <2>3. SumFunctionOnSet(parts({}), A) = 0
    <3> HIDE DEF parts
    <3> QED BY <2>2, SumOfZeros
  <2> HIDE DEF parts
  <2> QED BY <2>3, SumOfNone
<1>2. ASSUME NEW T \in SUBSET S, NEW a \in A
      PROVE  IsFiniteSet(part(T, a)) /\ parts(T)[a] \in Int
  <2>1. IsFiniteSet(part(T, a)) /\ \A x \in part(T, a) : f[x] \in Int
    BY FS_Subset
  <2> HIDE DEF part
  <2> QED BY <2>1, SumIsInt
<1>3. ASSUME NEW T \in SUBSET S, T # {}, \A x \in T : T \ {x} \in P PROVE T \in P
  <2>1. PICK x \in T : TRUE
    BY <1>3
  <2> DEFINE R == T \ {x}
             b == key[x]
  <2>2. IsFiniteSet(T) /\ IsFiniteSet(R) /\ b \in A
    BY FS_Subset, FS_RemoveElement
  <2>3. ASSUME NEW a \in A, a # b PROVE parts(T)[a] = parts(R)[a]
    <3>1. part(T, a) = part(R, a)
      BY <2>3
    <3> HIDE DEF part
    <3> QED BY <3>1
  <2>4. parts(T)[b] = parts(R)[b] + f[x]
    <3>1. /\ x \in part(T, b) /\ part(T, b) \ {x} = part(R, b)
          /\ \A y \in part(T, b) : f[y] \in Int
      OBVIOUS
    <3>2. IsFiniteSet(part(T, b))
      BY <1>2, <2>2
    <3>3. SumFunctionOnSet(f, part(T, b)) = f[x] + SumFunctionOnSet(f, part(R, b))
      <4> HIDE DEF part, R, b
      <4> QED BY <3>1, <3>2, SumRemove
    <3>4. parts(R)[b] \in Int /\ f[x] \in Int
      BY <1>2, <2>2
    <3> HIDE DEF part
    <3> QED BY <2>2, <3>3, <3>4
  <2>5. \A a \in A : parts(R)[a] \in Int /\ parts(T)[a] \in Int
    BY <1>2
  <2>6. SumFunctionOnSet(f, T) = f[x] + SumFunctionOnSet(f, R)
    BY <2>2, SumRemove
  <2>7. SumFunctionOnSet(parts(R), A) = SumFunctionOnSet(f, R)
    BY <1>3
  <2>8. SumFunctionOnSet(f, R) \in Int /\ f[x] \in Int
    BY <2>2, SumIsInt
  <2> HIDE DEF parts, R, b
  <2>9. SumFunctionOnSet(parts(T), A)
          = SumFunctionOnSet(parts(R), A) + parts(T)[b] - parts(R)[b]
    BY <2>2, <2>3, <2>5, SumChange
  <2> QED BY <2>2, <2>4, <2>5, <2>6, <2>7, <2>8, <2>9
<1>4. S \in P
  <2> HIDE DEF P
  <2> QED BY <1>1, <1>3, FiniteSetInduction
<1>5. SumFunctionOnSet(parts(S), A) = SumFunctionOnSet(f, S)
  BY <1>4
<1> QED BY <1>5

\* A sum stays what it is when its members get other names.
Renames(h, S, T) ==
  /\ \A x \in S : h[x] \in T
  /\ \A x, y \in S : h[x] = h[y] => x = y
  /\ \A a \in T : \E x \in S : h[x] = a

LEMMA SumRenamed ==
  ASSUME NEW S, IsFiniteSet(S), NEW T, NEW h, Renames(h, S, T),
         NEW f, NEW g, \A x \in S : f[x] \in Int /\ g[h[x]] = f[x]
  PROVE  SumFunctionOnSet(g, T) = SumFunctionOnSet(f, S)
<1> DEFINE key == [x \in S |-> h[x]]
           part == [a \in T |-> {x \in S : key[x] = a}]
           parts == [a \in T |-> SumFunctionOnSet(f, {x \in S : key[x] = a})]
<1>1. key \in Surjection(S, T)
  BY DEF Renames, Surjection
<1>2. \A x \in S : key[x] = h[x] /\ key[x] \in T
  BY DEF Renames
<1>3. \A a \in T : parts[a] = SumFunctionOnSet(f, part[a])
  OBVIOUS
<1>4. \A a \in T : \E x \in S : part[a] = {x} /\ h[x] = a
  BY <1>2 DEF Renames
<1>5. IsFiniteSet(T)
  <2> HIDE DEF key
  <2> QED BY <1>1, FS_Surjection
<1> HIDE DEF key
<1>6. SumFunctionOnSet(parts, T) = SumFunctionOnSet(f, S)
  BY <1>2, <1>5, SumByKey
<1> HIDE DEF part, parts
<1>7. \A a \in T : parts[a] = g[a] /\ g[a] \in Int
  <2> SUFFICES ASSUME NEW a \in T PROVE parts[a] = g[a] /\ g[a] \in Int
    OBVIOUS
  <2>1. PICK x \in S : part[a] = {x} /\ h[x] = a
    BY <1>4
  <2>2. IsFiniteSet({}) /\ x \notin {} /\ {} \cup {x} = {x}
    BY FS_EmptySet
  <2>3. f[x] \in Int /\ g[a] = f[x]
    BY <2>1
  <2>4. SumFunctionOnSet(f, {x}) = SumFunctionOnSet(f, {}) + f[x]
    <3>1. \A y \in {} \cup {x} : f[y] \in Int
      BY <2>3
    <3>2. SumFunctionOnSet(f, {} \cup {x}) = SumFunctionOnSet(f, {}) + f[x]
      BY <2>2, <3>1, SumAdd
    <3> QED BY <2>2, <3>2
  <2>5. parts[a] = SumFunctionOnSet(f, {x})
    BY <1>3, <2>1
  <2>6. SumFunctionOnSet(f, {}) = 0
    BY SumOfNone
  <2>7. parts[a] = 0 + f[x]
    BY <2>4, <2>5, <2>6
  <2> QED BY <2>3, <2>7
<1>8. SumFunctionOnSet(parts, T) = SumFunctionOnSet(g, T)
  BY <1>5, <1>7, SumAgrees
<1> QED BY <1>6, <1>8

-----------------------------------------------------------------------------
\* B[e] is what comes before e in a strict total order on S.
Orders(B, S) ==
  /\ \A e \in S : B[e] \in SUBSET (S \ {e})
  /\ \A e, f \in S : f \in B[e] => B[f] \in SUBSET B[e]
  /\ \A e, f \in S : e # f => e \in B[f] \/ f \in B[e]

\* How much comes before a member tells its position: no two have the same,
\* every position is taken, and an earlier one comes before a later one.
LEMMA RankIsPosition ==
  ASSUME NEW S, IsFiniteSet(S), NEW B, Orders(B, S)
  PROVE  /\ Cardinality(S) \in Nat
         /\ \A e \in S : Cardinality(B[e]) \in 0 .. Cardinality(S) - 1
         /\ \A e, f \in S : Cardinality(B[e]) < Cardinality(B[f]) <=> e \in B[f]
         /\ \A e, f \in S : Cardinality(B[e]) = Cardinality(B[f]) => e = f
         /\ \A k \in 1 .. Cardinality(S) : \E e \in S : Cardinality(B[e]) = k - 1
<1> DEFINE n == Cardinality(S)
           place == [e \in S |-> Cardinality(B[e])]
<1>1. n \in Nat
  BY FS_CardinalityType
<1>2. ASSUME NEW e \in S
      PROVE  IsFiniteSet(B[e]) /\ Cardinality(B[e]) \in 0 .. n - 1
  <2>1. B[e] \in SUBSET (S \ {e})
    BY DEF Orders
  <2>2. IsFiniteSet(S \ {e}) /\ Cardinality(S \ {e}) = n - 1
    BY FS_RemoveElement
  <2>3. IsFiniteSet(B[e]) /\ Cardinality(B[e]) <= n - 1
    BY <2>1, <2>2, FS_Subset
  <2> HIDE DEF n
  <2> QED BY <1>1, <2>3, FS_CardinalityType
<1>3. ASSUME NEW e \in S, NEW f \in S, e \in B[f]
      PROVE  Cardinality(B[e]) < Cardinality(B[f])
  <2>1. B[e] \in SUBSET B[f] /\ B[e] # B[f]
    BY <1>3 DEF Orders
  <2>2. Cardinality(B[e]) <= Cardinality(B[f]) /\ Cardinality(B[e]) # Cardinality(B[f])
    BY <1>2, <2>1, FS_Subset
  <2> HIDE DEF n
  <2> QED BY <1>1, <1>2, <2>2
<1>4. \A e, f \in S : e = f \/ e \in B[f] \/ f \in B[e]
  BY DEF Orders
<1> HIDE DEF n
<1>5. ASSUME NEW e \in S, NEW f \in S
      PROVE  /\ Cardinality(B[e]) < Cardinality(B[f]) <=> e \in B[f]
             /\ Cardinality(B[e]) = Cardinality(B[f]) => e = f
  <2>1. Cardinality(B[e]) \in 0 .. n - 1 /\ Cardinality(B[f]) \in 0 .. n - 1
    BY <1>2
  <2>2. e \in B[f] => Cardinality(B[e]) < Cardinality(B[f])
    BY <1>3
  <2>3. f \in B[e] => Cardinality(B[f]) < Cardinality(B[e])
    BY <1>3
  <2>4. e = f => Cardinality(B[e]) = Cardinality(B[f])
    OBVIOUS
  <2> QED BY <1>1, <1>4, <2>1, <2>2, <2>3, <2>4
<1>6. \A e \in S : place[e] = Cardinality(B[e])
  OBVIOUS
<1>7. place \in [S -> 0 .. n - 1]
  BY <1>2
<1> HIDE DEF place
<1>8. place \in Injection(S, 0 .. n - 1)
  BY <1>5, <1>6, <1>7 DEF Injection, IsInjective
<1>9. IsFiniteSet(0 .. n - 1) /\ Cardinality(0 .. n - 1) = n
  BY <1>1, FS_Interval
<1>10. place \in Surjection(S, 0 .. n - 1)
  BY <1>8, <1>9, FS_Injection DEF n
<1>11. \A k \in 1 .. n : \E e \in S : Cardinality(B[e]) = k - 1
  BY <1>1, <1>6, <1>10 DEF Surjection
<1> QED BY <1>1, <1>2, <1>5, <1>11 DEF n
=============================================================================
