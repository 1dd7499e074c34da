------------------------------ MODULE SumProofs ------------------------------
(***************************************************************************)
(* Proofs about Sums, and the two inductions that they and other modules   *)
(* use: over the subsets of a finite set and over an interval.  The sum is *)
(* a recursive function on the subsets of a finite set; the first part     *)
(* shows that there is exactly one such function.                          *)
(***************************************************************************)
EXTENDS Sums, FiniteSetTheorems, NaturalsInduction, TLAPS

(***************************************************************************)
(* Induction.                                                              *)
(***************************************************************************)

\* A set of subsets of S that has every set whose smaller subsets it has is all
\* of them.
LEMMA SubsetInduction ==
  ASSUME NEW S, IsFiniteSet(S), NEW Good \in SUBSET (SUBSET S),
         {} \in Good,
         \A T \in SUBSET S : T # {} /\ (\A U \in SUBSET T : U # T => U \in Good) => T \in Good
  PROVE  Good = SUBSET S
<1>1. SUFFICES ASSUME (SUBSET S) \ Good # {} PROVE FALSE
  OBVIOUS
<1>2. IsWellFoundedOn(StrictSubsetOrdering(S), SUBSET S)
  BY FS_StrictSubsetOrderingWellFounded, FS_FiniteSubsetsOfFinite
<1>3. PICK T \in (SUBSET S) \ Good : \A U \in (SUBSET S) \ Good : <<U, T>> \notin StrictSubsetOrdering(S)
  <2> DEFINE Bad == (SUBSET S) \ Good
  <2>1. Bad \subseteq SUBSET S /\ Bad # {}
    BY <1>1
  <2> HIDE DEF Bad
  <2>2. \E T \in Bad : \A U \in Bad : <<U, T>> \notin StrictSubsetOrdering(S)
    BY <1>2, <2>1, WFMin
  <2> QED
    BY <2>2 DEF Bad
<1>4. \A U \in SUBSET T : U # T => U \in Good
  BY <1>3 DEF StrictSubsetOrdering
<1> QED
  BY <1>3, <1>4

\* A set of numbers that has 0 and, with every number, the next one up to n.
LEMMA IntervalInduction ==
  ASSUME NEW n \in Nat, NEW Good \in SUBSET (0 .. n), 0 \in Good,
         \A k \in 0 .. n - 1 : k \in Good => k + 1 \in Good
  PROVE  Good = 0 .. n
<1> DEFINE Bad == (0 .. n) \ Good
<1>1. SUFFICES ASSUME Bad # {} PROVE FALSE
  OBVIOUS
<1>2. Bad \subseteq Nat
  OBVIOUS
<1>3. PICK k \in Bad : \A j \in Bad : <<j, k>> \notin OpToRel(<, Nat)
  <2> HIDE DEF Bad
  <2> QED
    BY <1>1, <1>2, NatLessThanWellFounded, WFMin
<1>4. \A j \in Bad : ~(j < k)
  BY <1>2, <1>3 DEF OpToRel
<1>5. k \in 1 .. n /\ k - 1 \in 0 .. n - 1 /\ k - 1 \notin Bad
  BY <1>4
<1>6. k - 1 \in Good /\ (k - 1) + 1 = k
  BY <1>5
<1>7. k \in Good
  BY <1>5, <1>6
<1> QED
  BY <1>7

(***************************************************************************)
(* The recursive function behind Total.                                    *)
(***************************************************************************)

\* The choice of the next element to add.
AnyOf(s) == CHOOSE x \in s : TRUE

\* It is one of the elements.
LEMMA AnyOfIsIn == \A s : s # {} => AnyOf(s) \in s
BY DEF AnyOf

\* g is the function that adds up f over each subset of S.
IsSums(f, S, g) ==
  g = [s \in SUBSET S |-> IF s = {} THEN 0 ELSE f[AnyOf(s)] + g[s \ {AnyOf(s)}]]

SumsOf(f, S) == CHOOSE g : IsSums(f, S, g)

\* Total is its value at the whole domain.
LEMMA TotalUnfolded ==
  ASSUME NEW f
  PROVE  Total(f) = SumsOf(f, DOMAIN f)[DOMAIN f]
BY Zenon DEF Total, MapThenSumSet, MapThenFoldSet, SumsOf, IsSums, AnyOf

\* Two such functions agree wherever both are defined.
LEMMA SumsAgree ==
  ASSUME NEW f, NEW S, IsFiniteSet(S), NEW T \in SUBSET S,
         NEW g, NEW h, IsSums(f, S, g), IsSums(f, T, h)
  PROVE  \A U \in SUBSET T : g[U] = h[U]
<1> DEFINE Good == {U \in SUBSET T : g[U] = h[U]}
<1>1. IsFiniteSet(T)
  BY FS_Subset
<1>2. {} \in Good
  BY DEF IsSums
<1>3. ASSUME NEW U \in SUBSET T, U # {}, \A V \in SUBSET U : V # U => V \in Good
      PROVE  U \in Good
  <2>1. AnyOf(U) \in U
    BY <1>3, AnyOfIsIn
  <2>2. U \ {AnyOf(U)} \in Good
    BY <1>3, <2>1
  <2> QED
    BY <1>3, <2>2 DEF IsSums
<1> HIDE DEF Good
<1>4. Good = SUBSET T
  <2>1. Good \in SUBSET (SUBSET T)
    BY DEF Good
  <2> QED
    BY <1>1, <1>2, <1>3, <2>1, SubsetInduction
<1> QED
  BY <1>4 DEF Good

\* There is one.
LEMMA SumsExist ==
  ASSUME NEW f, NEW S, IsFiniteSet(S)
  PROVE  \E g : IsSums(f, S, g)
<1> DEFINE Good == {T \in SUBSET S : \E g : IsSums(f, T, g)}
<1>1. {} \in Good
  <2> DEFINE g == [s \in SUBSET {} |-> 0]
  <2>1. IsSums(f, {}, g)
    BY DEF IsSums
  <2> QED
    BY <2>1
<1>2. ASSUME NEW T \in SUBSET S, T # {}, \A U \in SUBSET T : U # T => U \in Good
      PROVE  T \in Good
  <2> DEFINE Less(s) == s \ {AnyOf(s)}
             g == [s \in SUBSET T |-> IF s = {} THEN 0 ELSE f[AnyOf(s)] + SumsOf(f, Less(s))[Less(s)]]
  <2>1. ASSUME NEW U \in SUBSET T, U # T
        PROVE  IsSums(f, U, SumsOf(f, U)) /\ IsFiniteSet(U)
    BY <1>2, <2>1, FS_Subset DEF SumsOf
  <2>2. ASSUME NEW s \in SUBSET T, s # {}
        PROVE  Less(s) \in SUBSET s /\ Less(s) # s /\ Less(s) # T
    BY <2>2, AnyOfIsIn
  <2>3. ASSUME NEW s \in SUBSET T, s # T
        PROVE  g[s] = SumsOf(f, s)[s]
    <3>1. IsSums(f, s, SumsOf(f, s)) /\ IsFiniteSet(s)
      BY <2>1, <2>3
    <3>2. CASE s = {}
      BY <3>1, <3>2 DEF IsSums
    <3>3. CASE s # {}
      <4>1. IsSums(f, Less(s), SumsOf(f, Less(s))) /\ Less(s) \in SUBSET s
        BY <2>1, <2>2, <3>3
      <4> HIDE DEF Less
      <4>2. SumsOf(f, s)[Less(s)] = SumsOf(f, Less(s))[Less(s)]
        BY <3>1, <4>1, SumsAgree
      <4>3. SumsOf(f, s)[s] = f[AnyOf(s)] + SumsOf(f, s)[Less(s)]
        BY <3>1, <3>3 DEF IsSums, Less
      <4> QED
        BY <3>3, <4>2, <4>3
    <3> QED
      BY <3>2, <3>3
  <2>4. IsSums(f, T, g)
    <3>1. \A s \in SUBSET T : s # {} => g[Less(s)] = SumsOf(f, Less(s))[Less(s)]
      BY <2>2, <2>3
    <3> HIDE DEF Less
    <3>2. g = [s \in SUBSET T |-> IF s = {} THEN 0 ELSE f[AnyOf(s)] + g[Less(s)]]
      BY <3>1
    <3> HIDE DEF g
    <3> QED
      BY <3>2 DEF IsSums, Less
  <2> QED
    BY <2>4
<1> HIDE DEF Good
<1>3. Good = SUBSET S
  <2>1. Good \in SUBSET (SUBSET S)
    BY DEF Good
  <2> QED
    BY <1>1, <1>2, <2>1, SubsetInduction
<1> QED
  BY <1>3 DEF Good

(***************************************************************************)
(* The sum of f over a part of its domain.                                 *)
(***************************************************************************)

Part(f, T) == SumsOf(f, T)[T]

\* No elements add up to 0.
LEMMA PartEmpty == \A f : Part(f, {}) = 0
<1> SUFFICES ASSUME NEW f PROVE Part(f, {}) = 0
  OBVIOUS
<1>1. IsSums(f, {}, SumsOf(f, {}))
  BY FS_EmptySet, SumsExist DEF SumsOf
<1> QED
  BY <1>1 DEF IsSums, Part

\* The recursion: the chosen element is added to the rest.
LEMMA PartStep ==
  ASSUME NEW f, NEW T, IsFiniteSet(T), T # {}
  PROVE  Part(f, T) = f[AnyOf(T)] + Part(f, T \ {AnyOf(T)})
<1> DEFINE U == T \ {AnyOf(T)}
<1>1. U \in SUBSET T /\ IsFiniteSet(U)
  BY FS_Subset
<1>2. IsSums(f, T, SumsOf(f, T)) /\ IsSums(f, U, SumsOf(f, U))
  BY <1>1, SumsExist DEF SumsOf
<1>3. SumsOf(f, T)[T] = f[AnyOf(T)] + SumsOf(f, T)[U]
  BY <1>2 DEF IsSums
<1> HIDE DEF U
<1>4. SumsOf(f, T)[U] = SumsOf(f, U)[U]
  BY <1>1, <1>2, SumsAgree
<1> QED
  BY <1>3, <1>4 DEF Part, U

\* A sum of integers is an integer.
LEMMA PartType ==
  ASSUME NEW f, NEW S, IsFiniteSet(S), \A x \in S : f[x] \in Int
  PROVE  \A T \in SUBSET S : Part(f, T) \in Int
<1> DEFINE Good == {T \in SUBSET S : Part(f, T) \in Int}
<1>1. {} \in Good
  BY PartEmpty
<1>2. ASSUME NEW T \in SUBSET S, T # {}, \A U \in SUBSET T : U # T => U \in Good
      PROVE  T \in Good
  <2>1. AnyOf(T) \in T /\ IsFiniteSet(T)
    BY <1>2, AnyOfIsIn, FS_Subset
  <2>2. T \ {AnyOf(T)} \in Good
    BY <1>2, <2>1
  <2> QED
    BY <1>2, <2>1, <2>2, PartStep
<1>3. Good \in SUBSET (SUBSET S)
  OBVIOUS
<1> HIDE DEF Good
<1>4. Good = SUBSET S
  BY <1>1, <1>2, <1>3, SubsetInduction
<1> QED
  BY <1>4 DEF Good

\* Functions that agree on a set add up to the same there.
LEMMA PartSame ==
  ASSUME NEW f, NEW g, NEW S, IsFiniteSet(S), \A x \in S : f[x] = g[x]
  PROVE  \A T \in SUBSET S : Part(f, T) = Part(g, T)
<1> DEFINE Good == {T \in SUBSET S : Part(f, T) = Part(g, T)}
<1>1. {} \in Good
  BY PartEmpty
<1>2. ASSUME NEW T \in SUBSET S, T # {}, \A U \in SUBSET T : U # T => U \in Good
      PROVE  T \in Good
  <2>1. AnyOf(T) \in T /\ IsFiniteSet(T)
    BY <1>2, AnyOfIsIn, FS_Subset
  <2>2. T \ {AnyOf(T)} \in Good
    BY <1>2, <2>1
  <2> QED
    BY <1>2, <2>1, <2>2, PartStep
<1>3. Good \in SUBSET (SUBSET S)
  OBVIOUS
<1> HIDE DEF Good
<1>4. Good = SUBSET S
  BY <1>1, <1>2, <1>3, SubsetInduction
<1> QED
  BY <1>4 DEF Good

\* Any element may be taken out first.
LEMMA PartOne ==
  ASSUME NEW f, NEW S, IsFiniteSet(S), \A x \in S : f[x] \in Int
  PROVE  \A T \in SUBSET S : \A x \in T : Part(f, T) = f[x] + Part(f, T \ {x})
<1> DEFINE Good == {T \in SUBSET S : \A x \in T : Part(f, T) = f[x] + Part(f, T \ {x})}
<1>1. {} \in Good
  OBVIOUS
<1>2. ASSUME NEW T \in SUBSET S, T # {}, \A U \in SUBSET T : U # T => U \in Good
      PROVE  T \in Good
  <2> DEFINE a == AnyOf(T)
  <2>1. a \in T /\ IsFiniteSet(T)
    BY <1>2, AnyOfIsIn, FS_Subset
  <2>2. Part(f, T) = f[a] + Part(f, T \ {a})
    BY <1>2, <2>1, PartStep
  <2> HIDE DEF a
  <2>3. ASSUME NEW x \in T, x # a
        PROVE  Part(f, T) = f[x] + Part(f, T \ {x})
    <3> DEFINE rest == Part(f, (T \ {x}) \ {a})
    <3>1. T \ {a} \in Good /\ x \in T \ {a} /\ T \ {x} \in Good /\ a \in T \ {x}
      BY <1>2, <2>1, <2>3
    <3>2. (T \ {a}) \ {x} = (T \ {x}) \ {a} /\ (T \ {x}) \ {a} \in SUBSET S
      OBVIOUS
    <3>3. Part(f, T \ {a}) = f[x] + rest /\ Part(f, T \ {x}) = f[a] + rest
      BY <3>1, <3>2
    <3>4. rest \in Int /\ f[x] \in Int /\ f[a] \in Int
      BY <2>1, <3>2, PartType
    <3> HIDE DEF rest
    <3> QED
      BY <2>2, <3>3, <3>4
  <2> QED
    BY <2>2, <2>3
<1>3. Good \in SUBSET (SUBSET S)
  OBVIOUS
<1> HIDE DEF Good
<1>4. Good = SUBSET S
  BY <1>1, <1>2, <1>3, SubsetInduction
<1> QED
  BY <1>4 DEF Good

\* Where every term is at most the other's, so is the sum.
LEMMA PartOrder ==
  ASSUME NEW f, NEW g, NEW S, IsFiniteSet(S),
         \A x \in S : f[x] \in Int /\ g[x] \in Int /\ f[x] <= g[x]
  PROVE  \A T \in SUBSET S : Part(f, T) <= Part(g, T)
<1> DEFINE Good == {T \in SUBSET S : Part(f, T) <= Part(g, T)}
<1>1. {} \in Good
  BY PartEmpty
<1>2. ASSUME NEW T \in SUBSET S, T # {}, \A U \in SUBSET T : U # T => U \in Good
      PROVE  T \in Good
  <2> DEFINE a == AnyOf(T)
  <2>1. a \in T /\ IsFiniteSet(T)
    BY <1>2, AnyOfIsIn, FS_Subset
  <2>2. Part(f, T) = f[a] + Part(f, T \ {a}) /\ Part(g, T) = g[a] + Part(g, T \ {a})
    BY <1>2, <2>1, PartStep
  <2> HIDE DEF a
  <2>3. T \ {a} \in Good /\ T \ {a} \in SUBSET S
    BY <1>2, <2>1
  <2>4. Part(f, T \ {a}) \in Int /\ Part(g, T \ {a}) \in Int
    BY <2>3, PartType
  <2> QED
    BY <2>1, <2>2, <2>3, <2>4
<1>3. Good \in SUBSET (SUBSET S)
  OBVIOUS
<1> HIDE DEF Good
<1>4. Good = SUBSET S
  BY <1>1, <1>2, <1>3, SubsetInduction
<1> QED
  BY <1>4 DEF Good

\* The sum of sums is the sum of the two.
LEMMA PartPlus ==
  ASSUME NEW f, NEW g, NEW h, NEW S, IsFiniteSet(S),
         \A x \in S : f[x] \in Int /\ g[x] \in Int /\ h[x] = f[x] + g[x]
  PROVE  \A T \in SUBSET S : Part(h, T) = Part(f, T) + Part(g, T)
<1> DEFINE Good == {T \in SUBSET S : Part(h, T) = Part(f, T) + Part(g, T)}
<1>1. {} \in Good
  BY PartEmpty
<1>2. ASSUME NEW T \in SUBSET S, T # {}, \A U \in SUBSET T : U # T => U \in Good
      PROVE  T \in Good
  <2> DEFINE a == AnyOf(T)
  <2>1. a \in T /\ IsFiniteSet(T)
    BY <1>2, AnyOfIsIn, FS_Subset
  <2>2. /\ Part(f, T) = f[a] + Part(f, T \ {a}) /\ Part(g, T) = g[a] + Part(g, T \ {a})
        /\ Part(h, T) = h[a] + Part(h, T \ {a})
    BY <1>2, <2>1, PartStep
  <2> HIDE DEF a
  <2>3. T \ {a} \in Good /\ T \ {a} \in SUBSET S
    BY <1>2, <2>1
  <2>4. Part(f, T \ {a}) \in Int /\ Part(g, T \ {a}) \in Int
    BY <2>3, PartType
  <2> QED
    BY <2>1, <2>2, <2>3, <2>4
<1>3. Good \in SUBSET (SUBSET S)
  OBVIOUS
<1> HIDE DEF Good
<1>4. Good = SUBSET S
  BY <1>1, <1>2, <1>3, SubsetInduction
<1> QED
  BY <1>4 DEF Good

(***************************************************************************)
(* The facts the other modules cite, for functions on a finite set.        *)
(***************************************************************************)

\* Total is the sum over the whole domain.
LEMMA TotalIsPart == ASSUME NEW f PROVE Total(f) = Part(f, DOMAIN f)
BY TotalUnfolded DEF Part

\* A total of integers is an integer.
LEMMA TotalType ==
  ASSUME NEW S, IsFiniteSet(S), NEW f \in [S -> Int]
  PROVE  Total(f) \in Int
BY TotalIsPart, PartType

\* Where every term is at most the other's, so is the total.
LEMMA TotalOrder ==
  ASSUME NEW S, IsFiniteSet(S), NEW f \in [S -> Int], NEW g \in [S -> Int],
         \A x \in S : f[x] <= g[x]
  PROVE  Total(f) <= Total(g)
BY TotalIsPart, PartOrder

\* Adding two functions term by term adds their totals.
LEMMA TotalPlus ==
  ASSUME NEW S, IsFiniteSet(S), NEW f \in [S -> Int], NEW g \in [S -> Int]
  PROVE  Total([x \in S |-> f[x] + g[x]]) = Total(f) + Total(g)
<1> DEFINE h == [x \in S |-> f[x] + g[x]]
<1>1. DOMAIN f = S /\ DOMAIN g = S /\ DOMAIN h = S
  OBVIOUS
<1>2. \A x \in S : f[x] \in Int /\ g[x] \in Int /\ h[x] = f[x] + g[x]
  OBVIOUS
<1> HIDE DEF h
<1>3. Part(h, S) = Part(f, S) + Part(g, S)
  BY <1>2, PartPlus
<1> QED
  BY <1>1, <1>3, TotalIsPart DEF h

LEMMA Doubled == \A n \in Int : n = n + n => n = 0
OBVIOUS

\* The total of nothing but zeros.
LEMMA TotalZero ==
  ASSUME NEW S, IsFiniteSet(S)
  PROVE  Total([x \in S |-> 0]) = 0
<1> DEFINE z == [x \in S |-> 0]
<1>1. z \in [S -> Int] /\ [x \in S |-> z[x] + z[x]] = z
  OBVIOUS
<1> HIDE DEF z
<1>2. Total(z) \in Int /\ Total(z) = Total(z) + Total(z)
  BY <1>1, TotalType, TotalPlus
<1>3. Total(z) = 0
  BY <1>2, Doubled, Zenon
<1> QED
  BY <1>3, Zenon DEF z

\* A total of natural numbers is one.
LEMMA TotalNat ==
  ASSUME NEW S, IsFiniteSet(S), NEW f \in [S -> Nat]
  PROVE  Total(f) \in Nat
<1> DEFINE z == [x \in S |-> 0]
<1>1. z \in [S -> Int] /\ f \in [S -> Int] /\ \A x \in S : z[x] <= f[x]
  OBVIOUS
<1>2. Total(z) = 0
  BY TotalZero
<1> HIDE DEF z
<1>3. Total(z) <= Total(f) /\ Total(f) \in Int
  BY <1>1, TotalOrder, TotalType
<1> QED
  BY <1>2, <1>3

\* A function that is 0 but at one point.
At(S, x, k) == [y \in S |-> IF y = x THEN k ELSE 0]

\* Its total is the value there.
LEMMA TotalAt ==
  ASSUME NEW S, IsFiniteSet(S), NEW x \in S, NEW k \in Int
  PROVE  At(S, x, k) \in [S -> Int] /\ Total(At(S, x, k)) = k
<1> DEFINE f == At(S, x, k)
           z == [y \in S |-> 0]
<1>1. f \in [S -> Int] /\ f[x] = k /\ \A y \in S \ {x} : f[y] = z[y]
  BY DEF At
<1>2. IsFiniteSet(S \ {x}) /\ S \ {x} \in SUBSET S /\ S \in SUBSET S
  BY FS_Subset
<1>3. z \in [S -> Int] /\ z[x] = 0 /\ Total(z) = 0
  BY TotalZero
<1> HIDE DEF f, z
<1>4. Part(f, S \ {x}) = Part(z, S \ {x})
  BY <1>1, <1>2, PartSame
<1>5. Part(f, S) = f[x] + Part(f, S \ {x}) /\ Part(z, S) = z[x] + Part(z, S \ {x})
  BY <1>1, <1>2, <1>3, PartOne
<1>6. Part(z, S \ {x}) \in Int
  BY <1>2, <1>3, PartType
<1> QED
  BY <1>1, <1>3, <1>4, <1>5, <1>6, TotalIsPart DEF f

\* Two functions that differ at one point.
LEMMA TotalUpdate ==
  ASSUME NEW S, IsFiniteSet(S), NEW f \in [S -> Int], NEW g \in [S -> Int], NEW x \in S,
         \A y \in S \ {x} : g[y] = f[y]
  PROVE  Total(g) = Total(f) - f[x] + g[x]
<1>1. IsFiniteSet(S \ {x}) /\ S \ {x} \in SUBSET S /\ S \in SUBSET S
  BY FS_Subset
<1>2. Part(f, S \ {x}) = Part(g, S \ {x})
  BY <1>1, PartSame
<1>3. Part(f, S) = f[x] + Part(f, S \ {x}) /\ Part(g, S) = g[x] + Part(g, S \ {x})
  BY <1>1, PartOne
<1>4. Part(f, S \ {x}) \in Int /\ f[x] \in Int /\ g[x] \in Int
  BY <1>1, PartType
<1>5. Total(f) = Part(f, S) /\ Total(g) = Part(g, S)
  BY TotalIsPart
<1> QED
  BY <1>2, <1>3, <1>4, <1>5

\* A new point joins the domain.
LEMMA TotalNew ==
  ASSUME NEW S, IsFiniteSet(S), NEW x, x \notin S,
         NEW f \in [S -> Int], NEW g \in [S \cup {x} -> Int], \A y \in S : g[y] = f[y]
  PROVE  Total(g) = Total(f) + g[x]
<1>1. /\ IsFiniteSet(S \cup {x}) /\ S \in SUBSET (S \cup {x}) /\ S \in SUBSET S
      /\ (S \cup {x}) \ {x} = S /\ S \cup {x} \in SUBSET (S \cup {x})
  BY FS_AddElement
<1>2. Part(g, S \cup {x}) = g[x] + Part(g, S)
  <2> DEFINE U == S \cup {x}
  <2>1. IsFiniteSet(U) /\ U \in SUBSET U /\ x \in U /\ U \ {x} = S /\ \A y \in U : g[y] \in Int
    BY <1>1
  <2> HIDE DEF U
  <2>2. Part(g, U) = g[x] + Part(g, U \ {x})
    BY <2>1, PartOne
  <2> QED
    BY <2>1, <2>2 DEF U
<1>3. Part(g, S) = Part(f, S)
  BY PartSame
<1>4. Part(g, S) \in Int /\ g[x] \in Int
  BY <1>1, PartType
<1>5. Total(f) = Part(f, S) /\ Total(g) = Part(g, S \cup {x})
  BY TotalIsPart
<1> QED
  BY <1>1, <1>2, <1>3, <1>4, <1>5

\* One term, and any two, are at most the whole when no term is negative.
LEMMA TotalBounds ==
  ASSUME NEW S, IsFiniteSet(S), NEW f \in [S -> Nat]
  PROVE  /\ \A x \in S : f[x] <= Total(f)
         /\ \A x, y \in S : x # y => f[x] + f[y] <= Total(f)
<1> DEFINE Less(x) == [f EXCEPT ![x] = 0]
<1>1. f \in [S -> Int] /\ Total(f) \in Nat
  BY TotalNat
<1>2. ASSUME NEW x \in S
      PROVE  Total(f) = Total(Less(x)) + f[x] /\ Less(x) \in [S -> Nat] /\ Total(Less(x)) \in Nat
  <2> DEFINE g == Less(x)
  <2>1. g \in [S -> Nat] /\ g \in [S -> Int] /\ g[x] = 0 /\ \A y \in S \ {x} : g[y] = f[y]
    OBVIOUS
  <2> HIDE DEF g
  <2>2. Total(g) \in Nat /\ Total(g) = Total(f) - f[x] + g[x]
    BY <1>1, <2>1, TotalNat, TotalUpdate
  <2> QED
    BY <1>1, <2>1, <2>2 DEF g
<1>3. \A x \in S : f[x] <= Total(f)
  <2> SUFFICES ASSUME NEW x \in S PROVE f[x] <= Total(f)
    OBVIOUS
  <2> HIDE DEF Less
  <2> QED
    BY <1>1, <1>2
<1>4. ASSUME NEW x \in S, NEW y \in S, x # y
      PROVE  f[x] + f[y] <= Total(f)
  <2> DEFINE g == Less(x)
             h == [g EXCEPT ![y] = 0]
  <2>1. g \in [S -> Nat] /\ g \in [S -> Int] /\ g[y] = f[y]
    BY <1>4
  <2>2. Total(f) = Total(g) + f[x] /\ Total(g) \in Nat
    BY <1>2
  <2> HIDE DEF g
  <2>3. h \in [S -> Nat] /\ h \in [S -> Int] /\ h[y] = 0 /\ \A z \in S \ {y} : h[z] = g[z]
    BY <2>1
  <2> HIDE DEF h
  <2>4. Total(h) \in Nat /\ Total(h) = Total(g) - g[y] + h[y]
    BY <2>1, <2>3, TotalNat, TotalUpdate
  <2> QED
    BY <2>1, <2>2, <2>3, <2>4
<1> QED
  BY <1>3, <1>4

\* A list with one term more in front of it.
LEMMA TotalShift ==
  ASSUME NEW n \in Nat, NEW f \in [1 .. n -> Int], NEW g \in [1 .. n + 1 -> Int],
         \A i \in 1 .. n : g[i + 1] = f[i]
  PROVE  Total(g) = g[1] + Total(f)
<1> DEFINE F == 1 .. n
           G == 1 .. n + 1
           Good == {k \in 0 .. n : Part(f, 1 .. k) = Part(g, 2 .. k + 1)}
<1>1. /\ IsFiniteSet(F) /\ IsFiniteSet(G)
      /\ (\A y \in F : f[y] \in Int) /\ (\A y \in G : g[y] \in Int)
  BY FS_Interval
<1>2. /\ \A T \in SUBSET F : \A x \in T : Part(f, T) = f[x] + Part(f, T \ {x})
      /\ \A T \in SUBSET G : \A x \in T : Part(g, T) = g[x] + Part(g, T \ {x})
  <2> HIDE DEF F, G, Good
  <2>1. \A T \in SUBSET F : \A x \in T : Part(f, T) = f[x] + Part(f, T \ {x})
    BY <1>1, PartOne
  <2>2. \A T \in SUBSET G : \A x \in T : Part(g, T) = g[x] + Part(g, T \ {x})
    BY <1>1, PartOne
  <2> QED
    BY <2>1, <2>2
<1>3. 0 \in Good
  <2>1. 1 .. 0 = {} /\ 2 .. 0 + 1 = {}
    OBVIOUS
  <2> QED
    BY <2>1, PartEmpty
<1>4. ASSUME NEW k \in 0 .. n - 1, k \in Good PROVE k + 1 \in Good
  <2> DEFINE T == 1 .. k + 1
             U == 2 .. (k + 1) + 1
             x == k + 1
             y == k + 2
  <2>1. T \in SUBSET F /\ U \in SUBSET G /\ x \in T /\ y \in U
    OBVIOUS
  <2>2. T \ {x} = 1 .. k /\ U \ {y} = 2 .. k + 1
    OBVIOUS
  <2>3. x \in 1 .. n /\ g[y] = f[x]
    <3>1. x \in 1 .. n /\ x + 1 = y
      OBVIOUS
    <3> QED
      BY <3>1
  <2>4. Part(f, 1 .. k) = Part(g, 2 .. k + 1)
    BY <1>4
  <2>5. Part(f, T) = f[x] + Part(f, T \ {x}) /\ Part(g, U) = g[y] + Part(g, U \ {y})
    <3> HIDE DEF F, G, Good, T, U, x, y
    <3> QED
      BY <1>2, <2>1
  <2>6. Part(f, T) = Part(g, U)
    <3> HIDE DEF F, G, Good, T, U, x, y
    <3> QED
      BY <2>2, <2>3, <2>4, <2>5
  <2>7. k + 1 \in 0 .. n
    OBVIOUS
  <2> QED
    BY <2>6, <2>7
<1>5. Part(f, F) = Part(g, 2 .. n + 1)
  <2>1. Good \in SUBSET (0 .. n)
    OBVIOUS
  <2>2. Good = 0 .. n
    <3> HIDE DEF Good
    <3> QED
      BY <1>3, <1>4, <2>1, IntervalInduction
  <2>3. n \in Good
    BY <2>2
  <2> QED
    BY <2>3
<1>6. G \in SUBSET G /\ 1 \in G /\ G \ {1} = 2 .. n + 1 /\ DOMAIN f = F /\ DOMAIN g = G
  OBVIOUS
<1> HIDE DEF F, G, Good
<1>7. Part(g, G) = g[1] + Part(g, 2 .. n + 1)
  <2>1. Part(g, G) = g[1] + Part(g, G \ {1})
    BY <1>2, <1>6
  <2> QED
    BY <1>6, <2>1
<1>8. Total(f) = Part(f, F) /\ Total(g) = Part(g, G)
  BY <1>6, TotalIsPart
<1> QED
  BY <1>5, <1>7, <1>8
=============================================================================
