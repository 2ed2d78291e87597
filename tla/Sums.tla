-------------------------------- MODULE Sums --------------------------------
(***************************************************************************)
(* Facts about SumFunctionOnSet, the sum of a function over a finite set   *)
(* of the community modules, for the proofs about balances, journal lines  *)
(* and counted requests.  A statement is proved for every subset of a      *)
(* finite set by collecting the subsets it holds for: the library's        *)
(* induction takes an operator, a set of subsets needs none.               *)
(***************************************************************************)
EXTENDS Functions, FiniteSetTheorems, TLAPS, WellFoundedInduction

-----------------------------------------------------------------------------
(* Induction, over a set of the numbers or subsets a statement holds for.  *)

LEMMA NaturalsByInduction ==
    ASSUME NEW T, 0 \in T, \A n \in Nat : n \in T => n + 1 \in T
    PROVE  Nat \subseteq T
<1> DEFINE U == Nat \ T
           R == OpToRel(<, Nat)
<1>1. SUFFICES ASSUME U # {} PROVE FALSE
  OBVIOUS
<1>2. IsWellFoundedOn(R, Nat)
  BY NatLessThanWellFounded
<1>3. \A m, n \in Nat : m < n => <<m, n>> \in R
  BY DEF OpToRel
<1> HIDE DEF R
<1>4. PICK n \in U : \A m \in U : ~ (<<m, n>> \in R)
  <2>1. U \subseteq Nat
    OBVIOUS
  <2> HIDE DEF U
  <2> QED BY <1>1, <1>2, <2>1, WFMin
<1>5. n \in Nat /\ n # 0
  OBVIOUS
<1>6. n - 1 \in Nat /\ n - 1 < n /\ (n - 1) + 1 = n
  BY <1>5
<1>7. n - 1 \in T
  BY <1>3, <1>4, <1>5, <1>6
<1> QED BY <1>6, <1>7

LEMMA SubsetsByInduction ==
    ASSUME NEW S, IsFiniteSet(S), NEW T,
           \A s \in SUBSET S : (\A x \in s : s \ {x} \in T) => s \in T
    PROVE  SUBSET S \subseteq T
<1> DEFINE N == {n \in Nat : \A s \in SUBSET S : Cardinality(s) = n => s \in T}
<1>1. \A s \in SUBSET S : IsFiniteSet(s) /\ Cardinality(s) \in Nat
  BY FS_Subset, FS_CardinalityType
<1>2. 0 \in N
  BY <1>1, FS_EmptySet
<1>3. ASSUME NEW n \in Nat, n \in N PROVE n + 1 \in N
  <2> SUFFICES ASSUME NEW s \in SUBSET S, Cardinality(s) = n + 1 PROVE s \in T
    OBVIOUS
  <2>1. ASSUME NEW x \in s PROVE s \ {x} \in T
    <3>1. Cardinality(s \ {x}) = n
      BY <1>1, <2>1, FS_RemoveElement
    <3> QED BY <3>1, <1>3
  <2> QED BY <2>1
<1>4. Nat \subseteq N
  <2> HIDE DEF N
  <2> QED BY <1>2, <1>3, NaturalsByInduction
<1> QED BY <1>1, <1>4

-----------------------------------------------------------------------------
(* The recursive function behind a sum exists, and is the only one.        *)

\* The element a sum takes out first.
AnyOf(s) == CHOOSE x \in s : TRUE

\* g holds the sums of f over the subsets of S.
Adds(g, f, S) ==
    g = [s \in SUBSET S |-> IF s = {} THEN 0 ELSE f[AnyOf(s)] + g[s \ {AnyOf(s)}]]

LEMMA AddsExists ==
    ASSUME NEW f, NEW S, IsFiniteSet(S)
    PROVE  \E g : Adds(g, f, S)
<1> DEFINE Small(n) == {s \in SUBSET S : Cardinality(s) <= n}
           Sized(g, n) == [s \in Small(n) |->
                             IF s = {} THEN 0 ELSE f[AnyOf(s)] + g[s \ {AnyOf(s)}]]
           N == {n \in Nat : \E g : g = Sized(g, n)}
<1>1. \A s \in SUBSET S : IsFiniteSet(s) /\ Cardinality(s) \in Nat
  BY FS_Subset, FS_CardinalityType
<1>a. \A s \in SUBSET S : s # {} => AnyOf(s) \in s
  BY DEF AnyOf
<1>2. 0 \in N
  <2> DEFINE g == [s \in Small(0) |-> 0]
  <2>1. \A s \in Small(0) : s = {}
    BY <1>1, FS_EmptySet
  <2>2. g = Sized(g, 0)
    BY <2>1
  <2> QED BY <2>2
<1>3. ASSUME NEW n \in Nat, n \in N PROVE n + 1 \in N
  <2>1. PICK g : g = Sized(g, n)
    BY <1>3
  <2> DEFINE h == Sized(g, n + 1)
  <2>2. ASSUME NEW s \in Small(n + 1), s # {} PROVE s \ {AnyOf(s)} \in Small(n) \cap Small(n + 1)
    BY <1>1, <1>a, <2>2, FS_RemoveElement
  <2>3. ASSUME NEW s \in Small(n) PROVE h[s] = g[s]
    <3>1. s \in Small(n + 1)
      BY <1>1
    <3>2. h[s] = IF s = {} THEN 0 ELSE f[AnyOf(s)] + g[s \ {AnyOf(s)}]
      BY <3>1
    <3>3. g[s] = IF s = {} THEN 0 ELSE f[AnyOf(s)] + g[s \ {AnyOf(s)}]
      <4> HIDE DEF h, Small
      <4> QED BY <2>1
    <3> QED BY <3>2, <3>3
  <2>4. h = Sized(h, n + 1)
    <3>1. \A s \in Small(n + 1) : s # {} => h[s \ {AnyOf(s)}] = g[s \ {AnyOf(s)}]
      <4> HIDE DEF h, Small
      <4> QED BY <2>2, <2>3
    <3>2. \A s \in Small(n + 1) :
             h[s] = IF s = {} THEN 0 ELSE f[AnyOf(s)] + h[s \ {AnyOf(s)}]
      <4>1. \A s \in Small(n + 1) :
               h[s] = IF s = {} THEN 0 ELSE f[AnyOf(s)] + g[s \ {AnyOf(s)}]
        <5> HIDE DEF Small
        <5> QED OBVIOUS
      <4> HIDE DEF h, Small
      <4> QED BY <3>1, <4>1
    <3>3. h = [s \in Small(n + 1) |-> h[s]]
      <4> HIDE DEF Small
      <4> QED OBVIOUS
    <3> HIDE DEF h, Small
    <3> QED BY <3>2, <3>3
  <2>5. \E k : k = Sized(k, n + 1)
    <3> HIDE DEF h, Sized
    <3> QED BY <2>4
  <2> HIDE DEF Sized
  <2> QED BY <2>5
<1>4. Nat \subseteq N
  <2> HIDE DEF N
  <2> QED BY <1>2, <1>3, NaturalsByInduction
<1>5. Small(Cardinality(S)) = SUBSET S
  BY FS_Subset, FS_CardinalityType
<1>6. PICK g : g = Sized(g, Cardinality(S))
  <2> HIDE DEF Small, Sized
  <2> QED BY <1>1, <1>4
<1> QED BY <1>5, <1>6 DEF Adds

LEMMA AddsSame ==
    ASSUME NEW f, NEW S, IsFiniteSet(S), NEW h, Adds(h, f, S),
           NEW R, IsFiniteSet(R), NEW g, Adds(g, f, R), NEW s \in SUBSET S, s \in SUBSET R
    PROVE  g[s] = h[s]
<1> DEFINE T == {t \in SUBSET s : g[t] = h[t]}
<1>1. IsFiniteSet(s)
  BY FS_Subset
<1>2. ASSUME NEW t \in SUBSET s, \A x \in t : t \ {x} \in T PROVE t \in T
  <2>1. g[t] = IF t = {} THEN 0 ELSE f[AnyOf(t)] + g[t \ {AnyOf(t)}]
    BY DEF Adds
  <2>2. h[t] = IF t = {} THEN 0 ELSE f[AnyOf(t)] + h[t \ {AnyOf(t)}]
    BY DEF Adds
  <2>3. t # {} => AnyOf(t) \in t
    BY DEF AnyOf
  <2> QED BY <1>2, <2>1, <2>2, <2>3
<1>3. SUBSET s \subseteq T
  <2> HIDE DEF T
  <2> QED BY <1>1, <1>2, SubsetsByInduction
<1> QED BY <1>3

-----------------------------------------------------------------------------
(* Sums.                                                                   *)

\* A sum is the value of that function.
LEMMA SumAdds ==
    ASSUME NEW f, NEW S, IsFiniteSet(S)
    PROVE  \E g : Adds(g, f, S) /\ SumFunctionOnSet(f, S) = g[S]
<1> DEFINE g == CHOOSE h : Adds(h, f, S)
<1>1. Adds(g, f, S)
  BY AddsExists
<1>2. SumFunctionOnSet(f, S) = g[S]
  BY DEF SumFunctionOnSet, FoldFunctionOnSet, MapThenFoldSet, Adds, AnyOf
<1> HIDE DEF g
<1> QED BY <1>1, <1>2

\* Nothing adds up to zero.
LEMMA SumEmpty == ASSUME NEW f PROVE SumFunctionOnSet(f, {}) = 0
<1>1. PICK g : Adds(g, f, {}) /\ SumFunctionOnSet(f, {}) = g[{}]
  BY SumAdds, FS_EmptySet
<1> QED BY <1>1 DEF Adds

\* One element more.
LEMMA SumStep ==
    ASSUME NEW f, NEW S, IsFiniteSet(S), S # {}
    PROVE  /\ AnyOf(S) \in S
           /\ SumFunctionOnSet(f, S) = f[AnyOf(S)] + SumFunctionOnSet(f, S \ {AnyOf(S)})
<1> DEFINE R == S \ {AnyOf(S)}
<1>1. AnyOf(S) \in S
  BY DEF AnyOf
<1>2. IsFiniteSet(R)
  BY FS_Subset
<1>3. PICK g : Adds(g, f, S) /\ SumFunctionOnSet(f, S) = g[S]
  BY SumAdds
<1>4. PICK h : Adds(h, f, R) /\ SumFunctionOnSet(f, R) = h[R]
  <2> HIDE DEF R
  <2> QED BY <1>2, SumAdds
<1>5. g[S] = f[AnyOf(S)] + g[R]
  BY <1>3 DEF Adds
<1>6. g[R] = h[R]
  <2>1. R \in SUBSET S /\ R \in SUBSET R
    OBVIOUS
  <2> HIDE DEF R
  <2> QED BY <1>2, <1>3, <1>4, <2>1, AddsSame
<1> QED BY <1>1, <1>3, <1>4, <1>5, <1>6

\* Only the values on the set count.
LEMMA SumSame ==
    ASSUME NEW f, NEW g, NEW S, IsFiniteSet(S), \A x \in S : f[x] = g[x]
    PROVE  SumFunctionOnSet(f, S) = SumFunctionOnSet(g, S)
<1> DEFINE T == {s \in SUBSET S : SumFunctionOnSet(f, s) = SumFunctionOnSet(g, s)}
<1>1. ASSUME NEW s \in SUBSET S, \A x \in s : s \ {x} \in T PROVE s \in T
  <2>1. IsFiniteSet(s)
    BY FS_Subset
  <2>2. CASE s = {}
    BY <2>2, SumEmpty
  <2>3. CASE s # {}
    <3> DEFINE a == AnyOf(s)
    <3>1. a \in s /\ SumFunctionOnSet(f, s) = f[a] + SumFunctionOnSet(f, s \ {a})
      BY <2>1, <2>3, SumStep
    <3>2. SumFunctionOnSet(g, s) = g[a] + SumFunctionOnSet(g, s \ {a})
      BY <2>1, <2>3, SumStep
    <3> HIDE DEF a
    <3> QED BY <1>1, <3>1, <3>2
  <2> QED BY <2>2, <2>3
<1>2. SUBSET S \subseteq T
  <2> HIDE DEF T
  <2> QED BY <1>1, SubsetsByInduction
<1> QED BY <1>2

\* Integers add up to an integer.
LEMMA SumInt ==
    ASSUME NEW f, NEW S, IsFiniteSet(S), \A x \in S : f[x] \in Int
    PROVE  SumFunctionOnSet(f, S) \in Int
<1> DEFINE T == {s \in SUBSET S : SumFunctionOnSet(f, s) \in Int}
<1>1. ASSUME NEW s \in SUBSET S, \A x \in s : s \ {x} \in T PROVE s \in T
  <2>1. IsFiniteSet(s)
    BY FS_Subset
  <2>2. CASE s = {}
    BY <2>2, SumEmpty
  <2>3. CASE s # {}
    <3> DEFINE a == AnyOf(s)
    <3>1. a \in s /\ SumFunctionOnSet(f, s) = f[a] + SumFunctionOnSet(f, s \ {a})
      BY <2>1, <2>3, SumStep
    <3> HIDE DEF a
    <3> QED BY <1>1, <3>1
  <2> QED BY <2>2, <2>3
<1>2. SUBSET S \subseteq T
  <2> HIDE DEF T
  <2> QED BY <1>1, SubsetsByInduction
<1> QED BY <1>2

\* Any element may be taken out first.
LEMMA SumRemove ==
    ASSUME NEW f, NEW S, IsFiniteSet(S), \A x \in S : f[x] \in Int, NEW y \in S
    PROVE  SumFunctionOnSet(f, S) = f[y] + SumFunctionOnSet(f, S \ {y})
<1> DEFINE T == {s \in SUBSET S : \A x \in s :
                    SumFunctionOnSet(f, s) = f[x] + SumFunctionOnSet(f, s \ {x})}
<1>1. ASSUME NEW s \in SUBSET S, \A x \in s : s \ {x} \in T PROVE s \in T
  <2> SUFFICES ASSUME NEW x \in s
               PROVE  SumFunctionOnSet(f, s) = f[x] + SumFunctionOnSet(f, s \ {x})
    OBVIOUS
  <2> DEFINE a == AnyOf(s)
  <2>1. IsFiniteSet(s)
    BY FS_Subset
  <2>2. a \in s /\ SumFunctionOnSet(f, s) = f[a] + SumFunctionOnSet(f, s \ {a})
    BY <2>1, SumStep
  <2>3. CASE x = a
    BY <2>2, <2>3
  <2>4. CASE x # a
    <3> HIDE DEF a
    <3>1. SumFunctionOnSet(f, s \ {a}) = f[x] + SumFunctionOnSet(f, (s \ {a}) \ {x})
      BY <1>1, <2>2, <2>4
    <3>2. SumFunctionOnSet(f, s \ {x}) = f[a] + SumFunctionOnSet(f, (s \ {x}) \ {a})
      BY <1>1, <2>2, <2>4
    <3>3. (s \ {a}) \ {x} = (s \ {x}) \ {a}
      OBVIOUS
    <3>4. SumFunctionOnSet(f, (s \ {a}) \ {x}) \in Int
      <4>1. IsFiniteSet((s \ {a}) \ {x})
        BY <2>1, FS_Subset
      <4>2. \A z \in (s \ {a}) \ {x} : f[z] \in Int
        OBVIOUS
      <4> QED BY <4>1, <4>2, SumInt
    <3>5. f[x] \in Int /\ f[a] \in Int
      BY <2>2
    <3> DEFINE rest == SumFunctionOnSet(f, (s \ {a}) \ {x})
    <3>6. SumFunctionOnSet(f, s) = f[a] + (f[x] + rest)
      BY <2>2, <3>1
    <3>7. SumFunctionOnSet(f, s \ {x}) = f[a] + rest
      BY <3>2, <3>3
    <3>8. rest \in Int
      BY <3>4
    <3> HIDE DEF rest
    <3>9. f[a] + (f[x] + rest) = f[x] + (f[a] + rest)
      BY <3>5, <3>8
    <3> QED BY <3>6, <3>7, <3>9
  <2> QED BY <2>3, <2>4
<1>2. SUBSET S \subseteq T
  <2> HIDE DEF T
  <2> QED BY <1>1, SubsetsByInduction
<1> QED BY <1>2

LEMMA SumAddElement ==
    ASSUME NEW f, NEW S, IsFiniteSet(S), \A x \in S : f[x] \in Int,
           NEW y, y \notin S, f[y] \in Int
    PROVE  SumFunctionOnSet(f, S \cup {y}) = f[y] + SumFunctionOnSet(f, S)
<1> DEFINE R == S \cup {y}
<1>1. IsFiniteSet(R)
  BY FS_AddElement
<1>2. (\A x \in R : f[x] \in Int) /\ y \in R /\ R \ {y} = S
  OBVIOUS
<1> HIDE DEF R
<1> QED BY <1>1, <1>2, SumRemove DEF R

\* Zeros add up to zero.
LEMMA SumZero ==
    ASSUME NEW f, NEW S, IsFiniteSet(S), \A x \in S : f[x] = 0
    PROVE  SumFunctionOnSet(f, S) = 0
<1> DEFINE T == {s \in SUBSET S : SumFunctionOnSet(f, s) = 0}
<1>1. ASSUME NEW s \in SUBSET S, \A x \in s : s \ {x} \in T PROVE s \in T
  <2>1. IsFiniteSet(s)
    BY FS_Subset
  <2>2. CASE s = {}
    BY <2>2, SumEmpty
  <2>3. CASE s # {}
    <3> DEFINE a == AnyOf(s)
    <3>1. a \in s /\ SumFunctionOnSet(f, s) = f[a] + SumFunctionOnSet(f, s \ {a})
      BY <2>1, <2>3, SumStep
    <3> HIDE DEF a
    <3> QED BY <1>1, <3>1
  <2> QED BY <2>2, <2>3
<1>2. SUBSET S \subseteq T
  <2> HIDE DEF T
  <2> QED BY <1>1, SubsetsByInduction
<1> QED BY <1>2

LEMMA AddTwice ==
    ASSUME NEW a \in Int, NEW b \in Int, NEW c \in Int, NEW d \in Int
    PROVE  (a + b) + (c + d) = (a + c) + (b + d)
OBVIOUS

\* Sums of sums and of differences.
LEMMA SumPlus ==
    ASSUME NEW f, NEW g, NEW h, NEW S, IsFiniteSet(S),
           \A x \in S : f[x] \in Int /\ g[x] \in Int /\ h[x] = f[x] + g[x]
    PROVE  SumFunctionOnSet(h, S) = SumFunctionOnSet(f, S) + SumFunctionOnSet(g, S)
<1> DEFINE T == {s \in SUBSET S : SumFunctionOnSet(h, s)
                                     = SumFunctionOnSet(f, s) + SumFunctionOnSet(g, s)}
<1>1. ASSUME NEW s \in SUBSET S, \A x \in s : s \ {x} \in T PROVE s \in T
  <2>1. IsFiniteSet(s)
    BY FS_Subset
  <2>2. CASE s = {}
    BY <2>2, SumEmpty
  <2>3. CASE s # {}
    <3> DEFINE a == AnyOf(s)
               F == SumFunctionOnSet(f, s \ {a})
               G == SumFunctionOnSet(g, s \ {a})
    <3>1. a \in s /\ SumFunctionOnSet(h, s) = h[a] + SumFunctionOnSet(h, s \ {a})
      BY <2>1, <2>3, SumStep
    <3>2. SumFunctionOnSet(f, s) = f[a] + F /\ SumFunctionOnSet(g, s) = g[a] + G
      BY <2>1, <2>3, SumStep
    <3>3. IsFiniteSet(s \ {a})
      BY <2>1, FS_Subset
    <3>4. F \in Int /\ G \in Int
      <4> HIDE DEF a
      <4> QED BY <3>1, <3>3, SumInt
    <3>5. SumFunctionOnSet(h, s \ {a}) = F + G
      <4> HIDE DEF a
      <4> QED BY <1>1, <3>1
    <3>6. a \in S
      BY <3>1
    <3> HIDE DEF a, F, G
    <3>7. f[a] \in Int /\ g[a] \in Int /\ h[a] = f[a] + g[a]
      BY <3>6
    <3>8. (f[a] + g[a]) + (F + G) = (f[a] + F) + (g[a] + G)
      BY <3>4, <3>7, AddTwice
    <3> QED BY <3>1, <3>2, <3>5, <3>7, <3>8
  <2> QED BY <2>2, <2>3
<1>2. SUBSET S \subseteq T
  <2> HIDE DEF T
  <2> QED BY <1>1, SubsetsByInduction
<1> QED BY <1>2

LEMMA SumMinus ==
    ASSUME NEW f, NEW g, NEW h, NEW S, IsFiniteSet(S),
           \A x \in S : f[x] \in Int /\ g[x] \in Int /\ h[x] = f[x] - g[x]
    PROVE  SumFunctionOnSet(h, S) = SumFunctionOnSet(f, S) - SumFunctionOnSet(g, S)
<1>1. \A x \in S : h[x] \in Int /\ g[x] \in Int /\ f[x] = h[x] + g[x]
  OBVIOUS
<1>2. SumFunctionOnSet(f, S) = SumFunctionOnSet(h, S) + SumFunctionOnSet(g, S)
  BY <1>1, SumPlus
<1>3. SumFunctionOnSet(h, S) \in Int /\ SumFunctionOnSet(g, S) \in Int
  BY <1>1, SumInt
<1> QED BY <1>2, <1>3

\* At most one element counts.
LEMMA SumAtPoint ==
    ASSUME NEW f, NEW S, IsFiniteSet(S), NEW y \in S, f[y] \in Int,
           \A x \in S : x # y => f[x] = 0
    PROVE  SumFunctionOnSet(f, S) = f[y]
<1>1. \A x \in S : f[x] \in Int
  OBVIOUS
<1>2. SumFunctionOnSet(f, S) = f[y] + SumFunctionOnSet(f, S \ {y})
  BY <1>1, SumRemove
<1>3. IsFiniteSet(S \ {y})
  BY FS_Subset
<1>4. SumFunctionOnSet(f, S \ {y}) = 0
  <2>1. \A x \in S \ {y} : f[x] = 0
    OBVIOUS
  <2> DEFINE R == S \ {y}
  <2> HIDE DEF R
  <2> QED BY <1>3, <2>1, SumZero DEF R
<1> QED BY <1>2, <1>4

\* Over two sets that have nothing in common.
LEMMA SumUnion ==
    ASSUME NEW f, NEW A, NEW B, IsFiniteSet(A), IsFiniteSet(B), A \cap B = {},
           \A x \in A \cup B : f[x] \in Int
    PROVE  SumFunctionOnSet(f, A \cup B) = SumFunctionOnSet(f, A) + SumFunctionOnSet(f, B)
<1> DEFINE F == SumFunctionOnSet(f, A)
           T == {b \in SUBSET B : SumFunctionOnSet(f, A \cup b) = F + SumFunctionOnSet(f, b)}
<1>1. F \in Int
  BY SumInt
<1> HIDE DEF F
<1>2. ASSUME NEW b \in SUBSET B, \A x \in b : b \ {x} \in T PROVE b \in T
  <2>1. IsFiniteSet(b)
    BY FS_Subset
  <2>2. CASE b = {}
    <3>1. A \cup b = A
      BY <2>2
    <3> QED BY <1>1, <2>2, <3>1, SumEmpty DEF F
  <2>3. CASE b # {}
    <3> PICK x \in b : TRUE
      BY <2>3
    <3> DEFINE R == A \cup b
               G == SumFunctionOnSet(f, b \ {x})
    <3>1. IsFiniteSet(R) /\ x \in R /\ \A z \in R : f[z] \in Int
      BY <2>1, FS_Union
    <3>2. R \ {x} = A \cup (b \ {x})
      OBVIOUS
    <3>3. SumFunctionOnSet(f, R) = f[x] + SumFunctionOnSet(f, R \ {x})
      <4> HIDE DEF R
      <4> QED BY <3>1, SumRemove
    <3>4. SumFunctionOnSet(f, R \ {x}) = F + G
      BY <1>2, <3>2
    <3>5. SumFunctionOnSet(f, b) = f[x] + G
      <4>1. \A z \in b : f[z] \in Int
        OBVIOUS
      <4> QED BY <2>1, <4>1, SumRemove
    <3>6. G \in Int
      <4>1. IsFiniteSet(b \ {x}) /\ \A z \in b \ {x} : f[z] \in Int
        BY <2>1, FS_Subset
      <4> QED BY <4>1, SumInt
    <3>7. f[x] \in Int
      OBVIOUS
    <3> HIDE DEF G
    <3>8. f[x] + (F + G) = F + (f[x] + G)
      BY <1>1, <3>6, <3>7
    <3>9. SumFunctionOnSet(f, R) = F + SumFunctionOnSet(f, b)
      <4> HIDE DEF R
      <4> QED BY <3>3, <3>4, <3>5, <3>8
    <3> QED BY <3>9
  <2> QED BY <2>2, <2>3
<1>3. SUBSET B \subseteq T
  <2> HIDE DEF T
  <2> QED BY <1>2, SubsetsByInduction
<1> QED BY <1>3 DEF F

\* Elements that count nothing may be left out.
LEMMA SumSupport ==
    ASSUME NEW f, NEW S, IsFiniteSet(S), NEW R \in SUBSET S,
           \A x \in S : f[x] \in Int, \A x \in S \ R : f[x] = 0
    PROVE  SumFunctionOnSet(f, S) = SumFunctionOnSet(f, R)
<1> DEFINE Q == S \ R
<1>1. IsFiniteSet(R) /\ IsFiniteSet(Q)
  BY FS_Subset
<1>2. R \cap Q = {} /\ R \cup Q = S /\ \A x \in R \cup Q : f[x] \in Int
  OBVIOUS
<1>3. \A x \in Q : f[x] = 0
  OBVIOUS
<1> HIDE DEF Q
<1>4. SumFunctionOnSet(f, R \cup Q) = SumFunctionOnSet(f, R) + SumFunctionOnSet(f, Q)
  BY <1>1, <1>2, SumUnion
<1>5. SumFunctionOnSet(f, Q) = 0
  BY <1>1, <1>3, SumZero
<1>6. SumFunctionOnSet(f, R) \in Int
  BY <1>1, <1>2, SumInt
<1> QED BY <1>2, <1>4, <1>5, <1>6

\* Larger values have a larger sum.
LEMMA SumAtMost ==
    ASSUME NEW f, NEW g, NEW S, IsFiniteSet(S),
           \A x \in S : f[x] \in Int /\ g[x] \in Int /\ f[x] <= g[x]
    PROVE  SumFunctionOnSet(f, S) <= SumFunctionOnSet(g, S)
<1> DEFINE T == {s \in SUBSET S : SumFunctionOnSet(f, s) <= SumFunctionOnSet(g, s)}
<1>1. ASSUME NEW s \in SUBSET S, \A x \in s : s \ {x} \in T PROVE s \in T
  <2>1. IsFiniteSet(s)
    BY FS_Subset
  <2>2. CASE s = {}
    BY <2>2, SumEmpty
  <2>3. CASE s # {}
    <3> DEFINE a == AnyOf(s)
               F == SumFunctionOnSet(f, s \ {a})
               G == SumFunctionOnSet(g, s \ {a})
    <3>1. a \in s /\ SumFunctionOnSet(f, s) = f[a] + F
      BY <2>1, <2>3, SumStep
    <3>2. SumFunctionOnSet(g, s) = g[a] + G
      BY <2>1, <2>3, SumStep
    <3>3. IsFiniteSet(s \ {a})
      BY <2>1, FS_Subset
    <3>4. F \in Int /\ G \in Int /\ F <= G
      <4>1. s \ {a} \in T
        <5> HIDE DEF a, T
        <5> QED BY <1>1, <3>1
      <4> HIDE DEF a
      <4> QED BY <3>1, <3>3, <4>1, SumInt
    <3>5. a \in S
      BY <3>1
    <3> HIDE DEF a, F, G
    <3>6. f[a] \in Int /\ g[a] \in Int /\ f[a] <= g[a]
      BY <3>5
    <3> QED BY <3>1, <3>2, <3>4, <3>6
  <2> QED BY <2>2, <2>3
<1>2. SUBSET S \subseteq T
  <2> HIDE DEF T
  <2> QED BY <1>1, SubsetsByInduction
<1> QED BY <1>2

LEMMA SumNat ==
    ASSUME NEW f, NEW S, IsFiniteSet(S), \A x \in S : f[x] \in Nat
    PROVE  SumFunctionOnSet(f, S) \in Nat
<1> DEFINE z == [x \in S |-> 0]
<1>1. SumFunctionOnSet(z, S) = 0
  BY SumZero
<1>2. \A x \in S : z[x] \in Int /\ f[x] \in Int /\ z[x] <= f[x]
  OBVIOUS
<1>3. SumFunctionOnSet(f, S) \in Int
  BY SumInt
<1> HIDE DEF z
<1>4. SumFunctionOnSet(z, S) <= SumFunctionOnSet(f, S)
  BY <1>2, SumAtMost
<1> QED BY <1>1, <1>3, <1>4

\* The members of S with this key.
Part(S, key, k) == {x \in S : key[x] = k}

\* The sum of the sums of every part is the sum of the whole.
LEMMA SumByKey ==
    ASSUME NEW f, NEW S, IsFiniteSet(S), \A x \in S : f[x] \in Int,
           NEW key, NEW K, IsFiniteSet(K), \A x \in S : key[x] \in K,
           NEW F, \A k \in K : F[k] = SumFunctionOnSet(f, Part(S, key, k))
    PROVE  SumFunctionOnSet(F, K) = SumFunctionOnSet(f, S)
<1> DEFINE Of(s) == [k \in K |-> SumFunctionOnSet(f, {x \in s : key[x] = k})]
           T == {s \in SUBSET S : SumFunctionOnSet(Of(s), K) = SumFunctionOnSet(f, s)}
<1>1. ASSUME NEW s \in SUBSET S, \A x \in s : s \ {x} \in T PROVE s \in T
  <2>1. IsFiniteSet(s)
    BY FS_Subset
  <2>2. CASE s = {}
    <3>1. \A k \in K : {x \in s : key[x] = k} = {}
      BY <2>2
    <3>2. \A k \in K : Of(s)[k] = 0
      BY <3>1, SumEmpty
    <3>3. SumFunctionOnSet(Of(s), K) = 0
      <4> HIDE DEF Of
      <4> QED BY <3>2, SumZero
    <3> QED BY <2>2, <3>3, SumEmpty
  <2>3. CASE s # {}
    <3> PICK y \in s : TRUE
      BY <2>3
    <3> DEFINE r == s \ {y}
               d == [k \in K |-> IF k = key[y] THEN f[y] ELSE 0]
               Old == Of(r)
               Now == Of(s)
    <3>1. IsFiniteSet(r) /\ (\A x \in r : f[x] \in Int) /\ f[y] \in Int /\ key[y] \in K
      BY <2>1, FS_Subset
    <3>2. SumFunctionOnSet(d, K) = f[y]
      <4>1. d[key[y]] = f[y] /\ \A k \in K : k # key[y] => d[k] = 0
        BY <3>1
      <4> HIDE DEF d
      <4> QED BY <3>1, <4>1, SumAtPoint
    <3>3. ASSUME NEW k \in K PROVE Old[k] \in Int /\ d[k] \in Int /\ Now[k] = Old[k] + d[k]
      <4> DEFINE A == {x \in r : key[x] = k}
                 B == {x \in s : key[x] = k}
      <4>1. Old[k] = SumFunctionOnSet(f, A) /\ Now[k] = SumFunctionOnSet(f, B)
        OBVIOUS
      <4>2. IsFiniteSet(A) /\ IsFiniteSet(B)
        BY <2>1, <3>1, FS_Subset
      <4>3. (\A x \in A : f[x] \in Int) /\ (\A x \in B : f[x] \in Int)
        OBVIOUS
      <4>4. Old[k] \in Int /\ d[k] \in Int
        <5>1. SumFunctionOnSet(f, A) \in Int
          <6> HIDE DEF A
          <6> QED BY <4>2, <4>3, SumInt
        <5> QED BY <3>1, <4>1, <5>1
      <4>5. CASE key[y] = k
        <5>1. y \in B /\ B \ {y} = A
          BY <4>5
        <5>2. SumFunctionOnSet(f, B) = f[y] + SumFunctionOnSet(f, B \ {y})
          <6> HIDE DEF B
          <6> QED BY <4>2, <4>3, <5>1, SumRemove
        <5>3. d[k] = f[y]
          BY <4>5
        <5>4. Now[k] = f[y] + Old[k]
          <6> HIDE DEF A, B, Old, Now
          <6> QED BY <4>1, <5>1, <5>2
        <5> HIDE DEF A, B, Old, Now, d
        <5> QED BY <4>4, <5>3, <5>4
      <4>6. CASE key[y] # k
        <5>1. \A x \in s : x \in A <=> x \in B
          BY <4>6
        <5>2. A \subseteq s /\ B \subseteq s /\ d[k] = 0
          BY <4>6
        <5>3. A = B
          <6> HIDE DEF A, B
          <6> QED BY <5>1, <5>2
        <5>4. Now[k] = Old[k]
          <6> HIDE DEF A, B, Old, Now
          <6> QED BY <4>1, <5>3
        <5> HIDE DEF A, B, Old, Now, d
        <5> QED BY <4>4, <5>2, <5>4
      <4> QED BY <4>4, <4>5, <4>6
    <3>4. SumFunctionOnSet(Now, K) = SumFunctionOnSet(Old, K) + SumFunctionOnSet(d, K)
      <4> HIDE DEF Now, Old, d
      <4> QED BY <3>3, SumPlus
    <3>5. SumFunctionOnSet(Old, K) = SumFunctionOnSet(f, r)
      BY <1>1
    <3>6. SumFunctionOnSet(f, s) = f[y] + SumFunctionOnSet(f, r)
      <4>1. \A x \in s : f[x] \in Int
        OBVIOUS
      <4> QED BY <2>1, <4>1, SumRemove
    <3>7. SumFunctionOnSet(f, r) \in Int
      <4> HIDE DEF r
      <4> QED BY <3>1, SumInt
    <3>8. SumFunctionOnSet(Now, K) = SumFunctionOnSet(f, s)
      <4> HIDE DEF Now, Old, d, r
      <4> QED BY <3>1, <3>2, <3>4, <3>5, <3>6, <3>7
    <3> QED BY <3>8
  <2> QED BY <2>2, <2>3
<1>2. SUBSET S \subseteq T
  <2> HIDE DEF T
  <2> QED BY <1>1, SubsetsByInduction
<1>3. SumFunctionOnSet(Of(S), K) = SumFunctionOnSet(f, S)
  BY <1>2
<1>4. \A k \in K : F[k] = Of(S)[k]
  BY DEF Part
<1> HIDE DEF Of
<1> QED BY <1>3, <1>4, SumSame

=============================================================================
