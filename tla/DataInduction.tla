--------------------------- MODULE DataInduction ---------------------------
(***************************************************************************)
(* Induction over data, stated without an operator parameter: a set of     *)
(* counterexamples that is not empty has a least member.  From it, what    *)
(* the recursive functions of the models compute: the sum of a function    *)
(* over a finite set, the greatest member of a finite set of numbers.      *)
(***************************************************************************)
EXTENDS Integers, FiniteSets, Functions, FiniteSetTheorems,
        WellFoundedInduction, TLAPS

\* Among finite sets there is one of which no other one is a proper subset.
LEMMA MinimalFiniteSet ==
  ASSUME NEW S, NEW T, T \subseteq FiniteSubsetsOf(S), T # {}
  PROVE  \E x \in T : \A y \in T : ~(y \subseteq x /\ y # x)
<1>1. IsWellFoundedOn(StrictSubsetOrdering(S), FiniteSubsetsOf(S))
  BY FS_StrictSubsetOrderingWellFounded
<1>2. \E x \in T : \A y \in T : ~ (<<y, x>> \in StrictSubsetOrdering(S))
  BY <1>1, WFMin
<1> QED
  BY <1>2 DEF StrictSubsetOrdering, FiniteSubsetsOf

\* The same among the subsets of one finite set.
LEMMA MinimalSubset ==
  ASSUME NEW S, IsFiniteSet(S), NEW T, T \subseteq SUBSET S, T # {}
  PROVE  \E x \in T : \A y \in T : ~(y \subseteq x /\ y # x)
<1>1. T \subseteq FiniteSubsetsOf(S)
  BY FS_FiniteSubsetsOfFinite
<1> QED
  BY <1>1, MinimalFiniteSet

\* A set of naturals that is not empty has a least member.
LEMMA LeastNumber ==
  ASSUME NEW T, T \subseteq Nat, T # {}
  PROVE  \E x \in T : \A y \in T : x <= y
<1> DEFINE U == {0 .. n : n \in T}
<1>1. \A n \in Nat : IsFiniteSet(0 .. n)
  BY FS_Interval
<1>2. \A n \in T : 0 .. n \in FiniteSubsetsOf(Nat)
  BY <1>1 DEF FiniteSubsetsOf
<1>3. U \subseteq FiniteSubsetsOf(Nat) /\ U # {}
  BY <1>2
<1> HIDE DEF U
<1>4. PICK x \in U : \A y \in U : ~(y \subseteq x /\ y # x)
  BY <1>3, MinimalFiniteSet
<1>5. PICK n \in T : x = 0 .. n
  BY DEF U
<1>6. ASSUME NEW m \in T, m < n PROVE FALSE
  <2>1. 0 .. m \in U
    BY DEF U
  <2>2. 0 .. m \subseteq 0 .. n /\ n \in 0 .. n /\ n \notin 0 .. m
    BY <1>6
  <2> QED
    BY <2>1, <2>2, <1>4, <1>5
<1> QED
  BY <1>6

\* A set of naturals with an upper bound has a greatest member.
LEMMA GreatestNumber ==
  ASSUME NEW T, T \subseteq Nat, T # {}, NEW b \in Nat, \A y \in T : y <= b
  PROVE  \E x \in T : \A y \in T : y <= x
<1> DEFINE U == {b - n : n \in T}
<1>1. U \subseteq Nat /\ U # {}
  <2>1. \A n \in T : b - n \in Nat
    OBVIOUS
  <2> QED
    BY <2>1
<1> HIDE DEF U
<1>2. PICK x \in U : \A y \in U : x <= y
  BY <1>1, LeastNumber
<1>3. PICK n \in T : x = b - n
  BY DEF U
<1>4. ASSUME NEW m \in T PROVE m <= n
  <2>1. b - m \in U
    BY DEF U
  <2> QED
    BY <2>1, <1>2, <1>3
<1> QED
  BY <1>4

-----------------------------------------------------------------------------
(* Sums *)

\* The element SumFunctionOnSet takes next, and the function it evaluates.
Pick(s) == CHOOSE x \in s : TRUE
SumStep(f, g, s) == IF s = {} THEN 0 ELSE f[Pick(s)] + g[s \ {Pick(s)}]
IsSum(g, f, S) == g = [s \in SUBSET S |-> SumStep(f, g, s)]
SumOf(f, S) == CHOOSE g : IsSum(g, f, S)

LEMMA SumUnfolds ==
  ASSUME NEW f, NEW S
  PROVE  SumFunctionOnSet(f, S) = SumOf(f, S)[S]
BY DEF SumFunctionOnSet, FoldFunctionOnSet, MapThenFoldSet, SumOf, IsSum,
       SumStep, Pick

LEMMA PickIn ==
  ASSUME NEW s, s # {}
  PROVE  Pick(s) \in s
BY DEF Pick

\* A sum over a set is one over each of its subsets, and there is only one.
LEMMA SumCoherent ==
  ASSUME NEW S, IsFiniteSet(S), NEW f, NEW g, IsSum(g, f, S),
         NEW D \in SUBSET S, NEW h, IsSum(h, f, D)
  PROVE  \A s \in SUBSET D : g[s] = h[s]
<1> DEFINE T == {s \in SUBSET D : g[s] # h[s]}
<1>1. SUFFICES ASSUME T # {} PROVE FALSE
  OBVIOUS
<1>2. IsFiniteSet(D)
  BY FS_Subset
<1>3. PICK s \in T : \A y \in T : ~(y \subseteq s /\ y # s)
  <2>1. T \subseteq SUBSET D
    OBVIOUS
  <2> HIDE DEF T
  <2> QED
    BY <1>1, <1>2, <2>1, MinimalSubset
<1>4. g[s] = SumStep(f, g, s) /\ h[s] = SumStep(f, h, s)
  BY DEF IsSum
<1>5. s # {}
  BY <1>4 DEF SumStep
<1>6. Pick(s) \in s
  BY <1>5, PickIn
<1>7. s \ {Pick(s)} \notin T
  BY <1>3, <1>6
<1>8. g[s \ {Pick(s)}] = h[s \ {Pick(s)}]
  BY <1>7
<1> QED
  BY <1>4, <1>5, <1>8 DEF SumStep

\* There is one.
LEMMA SumExists ==
  ASSUME NEW S, IsFiniteSet(S), NEW f
  PROVE  IsSum(SumOf(f, S), f, S)
<1> DEFINE T == {D \in SUBSET S : \A g : ~IsSum(g, f, D)}
<1>1. SUFFICES ASSUME T # {} PROVE FALSE
  <2>1. S \notin T
    BY <1>1
  <2>2. \E g : IsSum(g, f, S)
    BY <2>1
  <2> QED
    BY <2>2 DEF SumOf
<1>2. PICK D \in T : \A y \in T : ~(y \subseteq D /\ y # D)
  <2>1. T \subseteq SUBSET S
    OBVIOUS
  <2> HIDE DEF T
  <2> QED
    BY <1>1, <2>1, MinimalSubset
<1> DEFINE V(s) == SumOf(f, s)[s]
           g == [s \in SUBSET D |-> IF s = {} THEN 0
                                    ELSE f[Pick(s)] + V(s \ {Pick(s)})]
<1>3. ASSUME NEW s \in SUBSET D, s # D PROVE IsSum(SumOf(f, s), f, s)
  <2>1. s \notin T
    BY <1>2, <1>3
  <2>2. \E h : IsSum(h, f, s)
    BY <2>1
  <2> QED
    BY <2>2 DEF SumOf
<1>4. ASSUME NEW s \in SUBSET D, s # {}
      PROVE  g[s \ {Pick(s)}] = V(s \ {Pick(s)})
  <2> DEFINE t == s \ {Pick(s)}
  <2>1. t \in SUBSET D /\ t # D
    BY <1>4, PickIn
  <2> HIDE DEF t
  <2>2. IsSum(SumOf(f, t), f, t)
    BY <1>3, <2>1
  <2>3. V(t) = SumStep(f, SumOf(f, t), t)
    BY <2>2 DEF IsSum
  <2>4. ASSUME t = {} PROVE g[t] = V(t)
    <3>1. V(t) = 0
      BY <2>3, <2>4 DEF SumStep
    <3> QED
      BY <2>1, <2>4, <3>1
  <2>5. ASSUME t # {} PROVE g[t] = V(t)
    <3> DEFINE u == t \ {Pick(t)}
    <3>1. u \in SUBSET t /\ u \in SUBSET D /\ u # D
      BY <2>1, <2>5, PickIn
    <3>2. V(t) = f[Pick(t)] + SumOf(f, t)[u]
      BY <2>3, <2>5 DEF SumStep
    <3>3. g[t] = f[Pick(t)] + V(u)
      BY <2>1, <2>5
    <3> HIDE DEF u
    <3>4. IsSum(SumOf(f, u), f, u)
      BY <1>3, <3>1
    <3>5. IsFiniteSet(t)
      BY <2>1, FS_Subset
    <3>6. SumOf(f, t)[u] = V(u)
      <4> HIDE DEF T
      <4>1. u \in SUBSET u
        OBVIOUS
      <4> QED
        BY <2>2, <3>1, <3>4, <3>5, <4>1, SumCoherent
    <3> HIDE DEF g, V
    <3> QED
      BY <3>2, <3>3, <3>6
  <2>6. g[t] = V(t)
    BY <2>4, <2>5
  <2> QED
    BY <2>6 DEF t
<1>5. IsSum(g, f, D)
  <2>1. ASSUME NEW s \in SUBSET D PROVE g[s] = SumStep(f, g, s)
    BY <1>4 DEF SumStep
  <2> HIDE DEF V
  <2>2. g = [s \in SUBSET D |-> g[s]]
    OBVIOUS
  <2> HIDE DEF g
  <2> QED
    BY <2>1, <2>2 DEF IsSum
<1> QED
  BY <1>5

\* The sum over a set is the element picked plus the sum over the others.
LEMMA SumRecursion ==
  ASSUME NEW S, IsFiniteSet(S), NEW f
  PROVE  /\ S = {} => SumFunctionOnSet(f, S) = 0
         /\ S # {} => SumFunctionOnSet(f, S) =
                        f[Pick(S)] + SumFunctionOnSet(f, S \ {Pick(S)})
<1> DEFINE t == S \ {Pick(S)}
<1>1. t \in SUBSET S /\ t \in SUBSET t
  OBVIOUS
<1>2. IsSum(SumOf(f, S), f, S)
  BY SumExists
<1>3. SumFunctionOnSet(f, S) = SumStep(f, SumOf(f, S), S)
  BY <1>2, SumUnfolds DEF IsSum
<1>4. S # {} => SumFunctionOnSet(f, S) = f[Pick(S)] + SumOf(f, S)[t]
  BY <1>3 DEF SumStep
<1>5. S = {} => SumFunctionOnSet(f, S) = 0
  BY <1>3 DEF SumStep
<1> HIDE DEF t
<1>6. IsFiniteSet(t)
  BY <1>1, FS_Subset
<1>7. IsSum(SumOf(f, t), f, t)
  BY <1>6, SumExists
<1>8. SumOf(f, S)[t] = SumOf(f, t)[t]
  BY <1>1, <1>2, <1>7, SumCoherent
<1>9. SumFunctionOnSet(f, t) = SumOf(f, t)[t]
  BY SumUnfolds
<1> QED
  BY <1>4, <1>5, <1>8, <1>9 DEF t

\* A sum of integers is an integer.
LEMMA SumInteger ==
  ASSUME NEW S, IsFiniteSet(S), NEW f, \A x \in S : f[x] \in Int
  PROVE  SumFunctionOnSet(f, S) \in Int
<1> DEFINE T == {D \in SUBSET S : SumFunctionOnSet(f, D) \notin Int}
<1>1. SUFFICES ASSUME T # {} PROVE FALSE
  OBVIOUS
<1>2. PICK D \in T : \A y \in T : ~(y \subseteq D /\ y # D)
  <2>1. T \subseteq SUBSET S
    OBVIOUS
  <2> HIDE DEF T
  <2> QED
    BY <1>1, <2>1, MinimalSubset
<1>3. D \in SUBSET S /\ SumFunctionOnSet(f, D) \notin Int
  BY <1>2
<1>4. IsFiniteSet(D)
  BY <1>3, FS_Subset
<1>5. D # {}
  <2>1. D = {} => SumFunctionOnSet(f, D) = 0
    BY <1>4, SumRecursion
  <2>2. 0 \in Int
    OBVIOUS
  <2> QED
    BY <2>1, <2>2, <1>3
<1> DEFINE t == D \ {Pick(D)}
<1>6. SumFunctionOnSet(f, D) = f[Pick(D)] + SumFunctionOnSet(f, t)
  BY <1>4, <1>5, SumRecursion
<1>7. Pick(D) \in S /\ t \in SUBSET S /\ t # D
  BY <1>3, <1>5, PickIn
<1>8. SumFunctionOnSet(f, t) \in Int
  BY <1>2, <1>7
<1> HIDE DEF t
<1> QED
  BY <1>3, <1>6, <1>7, <1>8

\* It does not matter which element is taken first.
LEMMA SumSplit ==
  ASSUME NEW S, IsFiniteSet(S), NEW f, \A x \in S : f[x] \in Int, NEW x \in S
  PROVE  SumFunctionOnSet(f, S) = f[x] + SumFunctionOnSet(f, S \ {x})
<1> DEFINE Splits(D) == \A z \in D : SumFunctionOnSet(f, D) =
                                       f[z] + SumFunctionOnSet(f, D \ {z})
           T == {D \in SUBSET S : ~Splits(D)}
<1>1. SUFFICES ASSUME T # {} PROVE FALSE
  OBVIOUS
<1>2. PICK D \in T : \A y \in T : ~(y \subseteq D /\ y # D)
  <2>1. T \subseteq SUBSET S
    OBVIOUS
  <2> HIDE DEF T
  <2> QED
    BY <1>1, <2>1, MinimalSubset
<1>3. D \in SUBSET S /\ ~Splits(D)
  BY <1>2
<1>4. PICK z \in D : SumFunctionOnSet(f, D) # f[z] + SumFunctionOnSet(f, D \ {z})
  BY <1>3
<1>5. IsFiniteSet(D) /\ IsFiniteSet(D \ {z}) /\ IsFiniteSet(D \ {Pick(D)})
      /\ IsFiniteSet(D \ {z, Pick(D)})
  BY <1>3, FS_Subset
<1> DEFINE p == Pick(D)
<1>6. p \in D /\ p # z
  <2>1. p \in D
    BY PickIn
  <2>2. SumFunctionOnSet(f, D) = f[p] + SumFunctionOnSet(f, D \ {p})
    BY <1>5, <2>1, SumRecursion
  <2> QED
    BY <2>1, <2>2, <1>4
<1>7. Splits(D \ {p}) /\ Splits(D \ {z})
  BY <1>2, <1>3, <1>6
<1>8. SumFunctionOnSet(f, D) = f[p] + SumFunctionOnSet(f, D \ {p})
  BY <1>5, <1>6, SumRecursion
<1>9. SumFunctionOnSet(f, D \ {p}) = f[z] + SumFunctionOnSet(f, D \ {p, z})
  <2>1. (D \ {p}) \ {z} = D \ {p, z}
    OBVIOUS
  <2> QED
    BY <1>6, <1>7, <2>1
<1>10. SumFunctionOnSet(f, D \ {z}) = f[p] + SumFunctionOnSet(f, D \ {p, z})
  <2>1. (D \ {z}) \ {p} = D \ {p, z}
    OBVIOUS
  <2> QED
    BY <1>6, <1>7, <2>1
<1>11. f[p] \in Int /\ f[z] \in Int /\ SumFunctionOnSet(f, D \ {p, z}) \in Int
  <2>1. \A y \in D \ {p, z} : f[y] \in Int
    BY <1>3
  <2>2. SumFunctionOnSet(f, D \ {p, z}) \in Int
    BY <1>5, <2>1, SumInteger
  <2> QED
    BY <2>2, <1>3, <1>6
<1> HIDE DEF p, Splits, T
<1> QED
  BY <1>4, <1>8, <1>9, <1>10, <1>11

\* A sum depends on the values at its indices only.
LEMMA SumCongruent ==
  ASSUME NEW S, IsFiniteSet(S), NEW f, NEW h, \A x \in S : f[x] = h[x]
  PROVE  SumFunctionOnSet(f, S) = SumFunctionOnSet(h, S)
<1> DEFINE T == {D \in SUBSET S : SumFunctionOnSet(f, D) # SumFunctionOnSet(h, D)}
<1>1. SUFFICES ASSUME T # {} PROVE FALSE
  OBVIOUS
<1>2. PICK D \in T : \A y \in T : ~(y \subseteq D /\ y # D)
  <2>1. T \subseteq SUBSET S
    OBVIOUS
  <2> HIDE DEF T
  <2> QED
    BY <1>1, <2>1, MinimalSubset
<1>3. D \in SUBSET S /\ SumFunctionOnSet(f, D) # SumFunctionOnSet(h, D)
  BY <1>2
<1>4. IsFiniteSet(D)
  BY <1>3, FS_Subset
<1>5. D # {}
  BY <1>3, <1>4, SumRecursion
<1> DEFINE t == D \ {Pick(D)}
<1>6. /\ SumFunctionOnSet(f, D) = f[Pick(D)] + SumFunctionOnSet(f, t)
      /\ SumFunctionOnSet(h, D) = h[Pick(D)] + SumFunctionOnSet(h, t)
  BY <1>4, <1>5, SumRecursion
<1>7. Pick(D) \in S /\ t \in SUBSET S /\ t # D /\ t \subseteq D
  BY <1>3, <1>5, PickIn
<1>8. SumFunctionOnSet(f, t) = SumFunctionOnSet(h, t)
  BY <1>2, <1>7
<1> HIDE DEF t
<1> QED
  BY <1>3, <1>6, <1>7, <1>8

\* One value changed.
LEMMA SumUpdate ==
  ASSUME NEW S, IsFiniteSet(S), NEW f, NEW h, NEW x \in S,
         \A y \in S : f[y] \in Int, h[x] \in Int,
         \A y \in S : y # x => h[y] = f[y]
  PROVE  SumFunctionOnSet(h, S) = SumFunctionOnSet(f, S) - f[x] + h[x]
<1> DEFINE t == S \ {x}
<1>1. \A y \in S : h[y] \in Int
  OBVIOUS
<1>2. /\ SumFunctionOnSet(f, S) = f[x] + SumFunctionOnSet(f, t)
      /\ SumFunctionOnSet(h, S) = h[x] + SumFunctionOnSet(h, t)
  BY <1>1, SumSplit
<1>3. IsFiniteSet(t)
  BY FS_Subset
<1>4. \A y \in t : f[y] = h[y]
  OBVIOUS
<1>5. \A y \in t : f[y] \in Int
  OBVIOUS
<1> HIDE DEF t
<1>6. SumFunctionOnSet(f, t) = SumFunctionOnSet(h, t)
  BY <1>3, <1>4, SumCongruent
<1>7. SumFunctionOnSet(f, t) \in Int
  BY <1>3, <1>5, SumInteger
<1> QED
  BY <1>2, <1>6, <1>7

\* One index added.
LEMMA SumExtend ==
  ASSUME NEW S, IsFiniteSet(S), NEW f, NEW h, NEW x, x \notin S,
         \A y \in S : f[y] \in Int, h[x] \in Int,
         \A y \in S : h[y] = f[y]
  PROVE  SumFunctionOnSet(h, S \cup {x}) = SumFunctionOnSet(f, S) + h[x]
<1> DEFINE t == S \cup {x}
<1>1. (\A y \in t : h[y] \in Int) /\ x \in t /\ t \ {x} = S
  OBVIOUS
<1>2. IsFiniteSet(t)
  BY FS_AddElement
<1> HIDE DEF t
<1>3. SumFunctionOnSet(h, t) = h[x] + SumFunctionOnSet(h, S)
  BY <1>1, <1>2, SumSplit
<1>4. SumFunctionOnSet(f, S) = SumFunctionOnSet(h, S)
  BY SumCongruent
<1>5. SumFunctionOnSet(f, S) \in Int
  BY SumInteger
<1> QED
  BY <1>3, <1>4, <1>5 DEF t

\* Sums over sets that share no index add up.
LEMMA SumDisjoint ==
  ASSUME NEW S, IsFiniteSet(S), NEW U, IsFiniteSet(U), S \cap U = {},
         NEW f, \A y \in S \cup U : f[y] \in Int
  PROVE  SumFunctionOnSet(f, S \cup U) =
           SumFunctionOnSet(f, S) + SumFunctionOnSet(f, U)
<1> DEFINE Adds(D) == SumFunctionOnSet(f, S \cup D) =
                        SumFunctionOnSet(f, S) + SumFunctionOnSet(f, D)
           T == {D \in SUBSET U : ~Adds(D)}
<1>1. SUFFICES ASSUME T # {} PROVE FALSE
  OBVIOUS
<1>2. PICK D \in T : \A y \in T : ~(y \subseteq D /\ y # D)
  <2>1. T \subseteq SUBSET U
    OBVIOUS
  <2> HIDE DEF T
  <2> QED
    BY <1>1, <2>1, MinimalSubset
<1>3. D \in SUBSET U /\ ~Adds(D)
  BY <1>2
<1>4. IsFiniteSet(D) /\ SumFunctionOnSet(f, S) \in Int
  BY <1>3, FS_Subset, SumInteger
<1>5. D # {}
  <2>1. SumFunctionOnSet(f, {}) = 0
    BY FS_EmptySet, SumRecursion
  <2>2. S \cup {} = S
    OBVIOUS
  <2>3. ASSUME D = {} PROVE SumFunctionOnSet(f, S \cup D) =
                              SumFunctionOnSet(f, S) + SumFunctionOnSet(f, D)
    BY <1>4, <2>1, <2>2, <2>3
  <2> QED
    BY <1>3, <2>3
<1>6. PICK x : x \in D
  BY <1>5
<1> DEFINE t == D \ {x}
<1>7. Adds(t)
  BY <1>2, <1>3, <1>6
<1>8. SumFunctionOnSet(f, D) = f[x] + SumFunctionOnSet(f, t)
  BY <1>3, <1>4, <1>6, SumSplit
<1>9. SumFunctionOnSet(f, S \cup D) = f[x] + SumFunctionOnSet(f, S \cup t)
  <2>1. IsFiniteSet(S \cup D)
    BY <1>4, FS_Union
  <2>2. (S \cup D) \ {x} = S \cup t
    BY <1>3, <1>6
  <2>3. \A y \in S \cup D : f[y] \in Int
    BY <1>3
  <2> QED
    BY <1>6, <2>1, <2>2, <2>3, SumSplit
<1>10. SumFunctionOnSet(f, t) \in Int /\ f[x] \in Int
  <2>1. IsFiniteSet(t) /\ \A y \in t : f[y] \in Int
    BY <1>3, <1>4, FS_Subset
  <2> QED
    BY <2>1, <1>3, <1>6, SumInteger
<1>11. /\ SumFunctionOnSet(f, S \cup t) = SumFunctionOnSet(f, S) + SumFunctionOnSet(f, t)
       /\ SumFunctionOnSet(f, S \cup D) # SumFunctionOnSet(f, S) + SumFunctionOnSet(f, D)
  BY <1>3, <1>7
<1> HIDE DEF t, Adds, T
<1> QED
  BY <1>4, <1>8, <1>9, <1>10, <1>11
=============================================================================
