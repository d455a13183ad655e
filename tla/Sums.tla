------------------------------- MODULE Sums -------------------------------
(***************************************************************************)
(* Sums of integers over finite sets, as the models write them: the fold   *)
(* of + over a function's values.  The lemmas say what the fold does when  *)
(* an element comes, goes or changes, in whatever order it is computed.    *)
(* They rest on minimal counterexamples, not on an induction rule.         *)
(***************************************************************************)
EXTENDS Functions, FiniteSetTheorems, TLAPS

SumOver(f, S) == FoldFunctionOnSet(+, 0, f, S)

\* The recursive function inside the fold: g[T] is the sum over T \subseteq S.
Pick(T) == CHOOSE x \in T : TRUE
IsFoldOf(g, f, S) ==
    g = [T \in SUBSET S |-> IF T = {} THEN 0 ELSE f[Pick(T)] + g[T \ {Pick(T)}]]

LEMMA SumIsFold ==
  ASSUME NEW f, NEW S
  PROVE  SumOver(f, S) = (CHOOSE g : IsFoldOf(g, f, S))[S]
BY DEF SumOver, FoldFunctionOnSet, MapThenFoldSet, IsFoldOf, Pick

-----------------------------------------------------------------------------
\* The function exists and is unique.

\* A set of subsets of a finite set that is not empty has a smallest member.
LEMMA SmallestSubset ==
  ASSUME NEW S, IsFiniteSet(S), NEW Bad \in SUBSET (SUBSET S), Bad # {}
  PROVE  \E T \in Bad : \A U \in SUBSET T : U # T => U \notin Bad
<1> DEFINE R == StrictSubsetOrdering(S)
<1>1. IsWellFoundedOn(R, SUBSET S)
  BY FS_StrictSubsetOrderingWellFounded, FS_FiniteSubsetsOfFinite
<1>2. PICK T \in Bad : \A U \in Bad : <<U, T>> \notin R
  BY <1>1, WFMin
<1>3. ASSUME NEW U \in SUBSET T, U # T, U \in Bad PROVE FALSE
  BY <1>2, <1>3 DEF StrictSubsetOrdering
<1> QED BY <1>3

LEMMA FoldUnique ==
  ASSUME NEW f, NEW S, IsFiniteSet(S), NEW g, NEW h,
         IsFoldOf(g, f, S), IsFoldOf(h, f, S)
  PROVE  g = h
<1> DEFINE Bad == {T \in SUBSET S : g[T] # h[T]}
<1>1. ASSUME Bad # {} PROVE FALSE
  <2>1. PICK T \in Bad : \A U \in SUBSET T : U # T => U \notin Bad
    <3> HIDE DEF Bad
    <3>1. Bad \in SUBSET (SUBSET S)
      BY DEF Bad
    <3> QED BY <1>1, <3>1, SmallestSubset
  <2>2. T # {}
    BY DEF IsFoldOf
  <2>3. Pick(T) \in T
    BY <2>2 DEF Pick
  <2>4. g[T \ {Pick(T)}] = h[T \ {Pick(T)}]
    BY <2>1, <2>3
  <2> QED BY <2>2, <2>4 DEF IsFoldOf
<1>2. \A T \in SUBSET S : g[T] = h[T]
  BY <1>1
<1> QED BY <1>2 DEF IsFoldOf

LEMMA FoldTells ==
  ASSUME NEW f, NEW S, IsFiniteSet(S), NEW g, IsFoldOf(g, f, S), NEW T \in SUBSET S
  PROVE  g[T] = SumOver(f, T)
<1> DEFINE h == [U \in SUBSET T |-> g[U]]
<1>1. IsFoldOf(h, f, T)
  <2>1. ASSUME NEW U \in SUBSET T
        PROVE  h[U] = IF U = {} THEN 0 ELSE f[Pick(U)] + h[U \ {Pick(U)}]
    <3>1. U \in SUBSET S /\ U \ {Pick(U)} \in SUBSET T
      OBVIOUS
    <3>2. g[U] = IF U = {} THEN 0 ELSE f[Pick(U)] + g[U \ {Pick(U)}]
      BY <3>1 DEF IsFoldOf
    <3> QED BY <3>1, <3>2
  <2> QED BY <2>1 DEF IsFoldOf
<1>2. IsFiniteSet(T)
  BY FS_Subset
<1> HIDE DEF h
<1>3. IsFoldOf(CHOOSE k : IsFoldOf(k, f, T), f, T)
  BY <1>1
<1>4. h = CHOOSE k : IsFoldOf(k, f, T)
  BY <1>1, <1>2, <1>3, FoldUnique
<1> QED BY <1>4, SumIsFold DEF h

LEMMA FoldExists ==
  ASSUME NEW f, NEW S, IsFiniteSet(S)
  PROVE  \E g : IsFoldOf(g, f, S)
<1> DEFINE Bad == {T \in SUBSET S : ~ \E g : IsFoldOf(g, f, T)}
<1> SUFFICES Bad = {}
  OBVIOUS
<1>1. ASSUME Bad # {} PROVE FALSE
  <2>1. PICK T \in Bad : \A U \in SUBSET T : U # T => U \notin Bad
    <3> HIDE DEF Bad
    <3>1. Bad \in SUBSET (SUBSET S)
      BY DEF Bad
    <3> QED BY <1>1, <3>1, SmallestSubset
  <2> DEFINE g == [U \in SUBSET T |-> IF U = {} THEN 0
                                      ELSE f[Pick(U)] + SumOver(f, U \ {Pick(U)})]
  <2>2. ASSUME NEW U \in SUBSET T, U # T PROVE g[U] = SumOver(f, U)
    <3>1. IsFiniteSet(U) /\ U \in SUBSET S
      BY FS_Subset
    <3>2. PICK h : IsFoldOf(h, f, U)
      BY <2>1, <2>2, <3>1
    <3>3. h[U] = SumOver(f, U) /\ h[U \ {Pick(U)}] = SumOver(f, U \ {Pick(U)})
      <4>1. U \in SUBSET U /\ U \ {Pick(U)} \in SUBSET U
        OBVIOUS
      <4>2. \A V \in SUBSET U : h[V] = SumOver(f, V)
        BY <3>1, <3>2, FoldTells
      <4> QED BY <4>1, <4>2
    <3>4. h[U] = IF U = {} THEN 0 ELSE f[Pick(U)] + h[U \ {Pick(U)}]
      BY <3>2 DEF IsFoldOf
    <3> QED BY <3>3, <3>4
  <2>3. ASSUME NEW U \in SUBSET T
        PROVE  g[U] = IF U = {} THEN 0 ELSE f[Pick(U)] + g[U \ {Pick(U)}]
    <3>1. CASE U = {}
      BY <3>1
    <3>2. CASE U # {}
      <4>1. Pick(U) \in U
        BY <3>2 DEF Pick
      <4>2. U \ {Pick(U)} \in SUBSET T /\ U \ {Pick(U)} # T
        BY <4>1
      <4>3. g[U \ {Pick(U)}] = SumOver(f, U \ {Pick(U)})
        BY <2>2, <4>2
      <4> QED BY <3>2, <4>3
    <3> QED BY <3>1, <3>2
  <2> HIDE DEF g
  <2>4. IsFoldOf(g, f, T)
    <3>1. g = [U \in SUBSET T |-> g[U]]
      BY DEF g
    <3> QED BY <2>3, <3>1 DEF IsFoldOf
  <2> QED BY <2>4
<1> QED BY <1>1

-----------------------------------------------------------------------------
\* What the sum is.

LEMMA SumOfNone ==
  ASSUME NEW f
  PROVE  SumOver(f, {}) = 0
<1>1. PICK g : IsFoldOf(g, f, {})
  BY FoldExists, FS_EmptySet
<1>2. g[{}] = SumOver(f, {})
  BY <1>1, FoldTells, FS_EmptySet
<1> QED BY <1>1, <1>2 DEF IsFoldOf

\* One step of the fold.
LEMMA SumStep ==
  ASSUME NEW f, NEW S, IsFiniteSet(S), S # {}
  PROVE  Pick(S) \in S /\ SumOver(f, S) = f[Pick(S)] + SumOver(f, S \ {Pick(S)})
<1>1. PICK g : IsFoldOf(g, f, S)
  BY FoldExists
<1>2. g[S] = SumOver(f, S) /\ g[S \ {Pick(S)}] = SumOver(f, S \ {Pick(S)})
  BY <1>1, FoldTells
<1>3. g[S] = f[Pick(S)] + g[S \ {Pick(S)}]
  BY <1>1 DEF IsFoldOf
<1> QED BY <1>2, <1>3 DEF Pick

LEMMA SumType ==
  ASSUME NEW f, NEW S, IsFiniteSet(S), \A x \in S : f[x] \in Int
  PROVE  SumOver(f, S) \in Int
<1> DEFINE Bad == {T \in SUBSET S : SumOver(f, T) \notin Int}
<1>1. ASSUME Bad # {} PROVE FALSE
  <2>1. PICK T \in Bad : \A U \in SUBSET T : U # T => U \notin Bad
    <3> HIDE DEF Bad
    <3>1. Bad \in SUBSET (SUBSET S)
      BY DEF Bad
    <3> QED BY <1>1, <3>1, SmallestSubset
  <2>2. T # {} /\ IsFiniteSet(T)
    <3>1. SumOver(f, {}) \in Int
      BY SumOfNone
    <3> QED BY <3>1, FS_Subset
  <2>3. Pick(T) \in T /\ SumOver(f, T) = f[Pick(T)] + SumOver(f, T \ {Pick(T)})
    BY <2>2, SumStep
  <2>4. SumOver(f, T \ {Pick(T)}) \in Int
    BY <2>1, <2>3
  <2> QED BY <2>3, <2>4
<1> QED BY <1>1

\* Any element may be taken out first.
LEMMA SumTakeOut ==
  ASSUME NEW f, NEW S, IsFiniteSet(S), \A x \in S : f[x] \in Int, NEW x \in S
  PROVE  SumOver(f, S) = f[x] + SumOver(f, S \ {x})
<1> DEFINE Bad == {T \in SUBSET S : \E y \in T : SumOver(f, T) # f[y] + SumOver(f, T \ {y})}
<1>1. ASSUME Bad # {} PROVE FALSE
  <2>1. PICK T \in Bad : \A U \in SUBSET T : U # T => U \notin Bad
    <3> HIDE DEF Bad
    <3>1. Bad \in SUBSET (SUBSET S)
      BY DEF Bad
    <3> QED BY <1>1, <3>1, SmallestSubset
  <2>2. PICK y \in T : SumOver(f, T) # f[y] + SumOver(f, T \ {y})
    OBVIOUS
  <2> DEFINE z == Pick(T)
  <2>3. /\ IsFiniteSet(T) /\ IsFiniteSet(T \ {y, z})
        /\ \A v \in T : f[v] \in Int
    BY FS_Subset, T \in SUBSET S, T \ {y, z} \in SUBSET S
  <2>4. z \in T /\ SumOver(f, T) = f[z] + SumOver(f, T \ {z})
    BY <2>2, <2>3, SumStep
  <2> HIDE DEF z
  <2>5. z # y
    BY <2>2, <2>4
  <2>6. SumOver(f, T \ {z}) = f[y] + SumOver(f, T \ {y, z})
    <3>1. T \ {z} \in SUBSET T /\ T \ {z} # T /\ y \in T \ {z}
          /\ (T \ {z}) \ {y} = T \ {y, z} /\ T \ {z} \in SUBSET S
      BY <2>4, <2>5
    <3> QED BY ZenonT(40), <2>1, <3>1
  <2>7. SumOver(f, T \ {y}) = f[z] + SumOver(f, T \ {y, z})
    <3>1. T \ {y} \in SUBSET T /\ T \ {y} # T /\ z \in T \ {y}
          /\ (T \ {y}) \ {z} = T \ {y, z} /\ T \ {y} \in SUBSET S
      BY <2>4, <2>5
    <3> QED BY ZenonT(40), <2>1, <3>1
  <2>8. SumOver(f, T \ {y, z}) \in Int /\ f[y] \in Int /\ f[z] \in Int
    BY <2>3, <2>4, SumType
  <2> QED BY <2>2, <2>4, <2>6, <2>7, <2>8
<1> QED BY <1>1

LEMMA SumAdd ==
  ASSUME NEW f, NEW S, IsFiniteSet(S), NEW x, x \notin S, \A y \in S \cup {x} : f[y] \in Int
  PROVE  SumOver(f, S \cup {x}) = f[x] + SumOver(f, S)
<1>1. IsFiniteSet(S \cup {x}) /\ (S \cup {x}) \ {x} = S
  BY FS_AddElement
<1>2. SumOver(f, S \cup {x}) = f[x] + SumOver(f, (S \cup {x}) \ {x})
  BY <1>1, SumTakeOut
<1> QED BY <1>1, <1>2

\* Functions that agree on the set have one sum.
LEMMA SumSame ==
  ASSUME NEW f, NEW g, NEW S, IsFiniteSet(S), \A x \in S : f[x] = g[x]
  PROVE  SumOver(f, S) = SumOver(g, S)
<1> DEFINE Bad == {T \in SUBSET S : SumOver(f, T) # SumOver(g, T)}
<1>1. ASSUME Bad # {} PROVE FALSE
  <2>1. PICK T \in Bad : \A U \in SUBSET T : U # T => U \notin Bad
    <3> HIDE DEF Bad
    <3>1. Bad \in SUBSET (SUBSET S)
      BY DEF Bad
    <3> QED BY <1>1, <3>1, SmallestSubset
  <2>2. T # {} /\ IsFiniteSet(T)
    BY SumOfNone, FS_Subset
  <2>3. /\ Pick(T) \in T
        /\ SumOver(f, T) = f[Pick(T)] + SumOver(f, T \ {Pick(T)})
        /\ SumOver(g, T) = g[Pick(T)] + SumOver(g, T \ {Pick(T)})
    BY <2>2, SumStep
  <2>4. SumOver(f, T \ {Pick(T)}) = SumOver(g, T \ {Pick(T)})
    BY <2>1, <2>3
  <2> QED BY <2>3, <2>4
<1> QED BY <1>1

\* One value changes: the sum changes by as much.
LEMMA SumChange ==
  ASSUME NEW f, NEW g, NEW S, IsFiniteSet(S), NEW x \in S,
         \A y \in S : f[y] \in Int /\ g[y] \in Int,
         \A y \in S \ {x} : f[y] = g[y]
  PROVE  SumOver(g, S) = SumOver(f, S) + (g[x] - f[x])
<1>1. IsFiniteSet(S \ {x})
  BY FS_RemoveElement
<1>2. SumOver(f, S) = f[x] + SumOver(f, S \ {x}) /\ SumOver(g, S) = g[x] + SumOver(g, S \ {x})
  BY SumTakeOut
<1>3. SumOver(f, S \ {x}) = SumOver(g, S \ {x})
  BY <1>1, SumSame
<1>4. SumOver(f, S \ {x}) \in Int /\ f[x] \in Int /\ g[x] \in Int
  BY <1>1, SumType
<1> QED BY <1>2, <1>3, <1>4

\* A sum of natural numbers is one, and no less than each of them.
LEMMA SumNat ==
  ASSUME NEW f, NEW S, IsFiniteSet(S), \A x \in S : f[x] \in Nat
  PROVE  SumOver(f, S) \in Nat /\ \A x \in S : f[x] <= SumOver(f, S)
<1> DEFINE Bad == {T \in SUBSET S : SumOver(f, T) \notin Nat}
<1>1. ASSUME Bad # {} PROVE FALSE
  <2>1. PICK T \in Bad : \A U \in SUBSET T : U # T => U \notin Bad
    <3> HIDE DEF Bad
    <3>1. Bad \in SUBSET (SUBSET S)
      BY DEF Bad
    <3> QED BY <1>1, <3>1, SmallestSubset
  <2>2. T # {} /\ IsFiniteSet(T)
    <3>1. SumOver(f, {}) \in Nat
      BY SumOfNone
    <3> QED BY <3>1, FS_Subset
  <2>3. Pick(T) \in T /\ SumOver(f, T) = f[Pick(T)] + SumOver(f, T \ {Pick(T)})
    BY <2>2, SumStep
  <2>4. SumOver(f, T \ {Pick(T)}) \in Nat
    BY <2>1, <2>3
  <2> QED BY <2>3, <2>4
<1>2. ASSUME NEW x \in S PROVE f[x] <= SumOver(f, S)
  <2>1. SumOver(f, S \ {x}) \in Nat
    <3>1. S \ {x} \in SUBSET S
      OBVIOUS
    <3> QED BY <1>1, <3>1
  <2>2. SumOver(f, S) = f[x] + SumOver(f, S \ {x})
    BY SumTakeOut
  <2> QED BY <2>1, <2>2
<1> QED BY <1>1, <1>2

\* The sum over a union of two sets that do not meet.
LEMMA SumSplit ==
  ASSUME NEW f, NEW S, IsFiniteSet(S), \A x \in S : f[x] \in Int, NEW T \in SUBSET S
  PROVE  SumOver(f, S) = SumOver(f, T) + SumOver(f, S \ T)
<1> DEFINE Bad == {U \in SUBSET T : SumOver(f, S) # SumOver(f, U) + SumOver(f, S \ U)}
<1>1. ASSUME Bad # {} PROVE FALSE
  <2>0. IsFiniteSet(T)
    BY FS_Subset
  <2>1. PICK U \in Bad : \A V \in SUBSET U : V # U => V \notin Bad
    <3> HIDE DEF Bad
    <3>1. Bad \in SUBSET (SUBSET T)
      BY DEF Bad
    <3> QED BY <1>1, <2>0, <3>1, SmallestSubset
  <2>2. U # {}
    <3>1. S \ {} = S /\ SumOver(f, S) \in Int
      BY SumType
    <3> QED BY <3>1, SumOfNone
  <2>3. PICK x : x \in U
    BY <2>2
  <2>4. U \ {x} \in SUBSET U /\ U \ {x} # U /\ U \ {x} \in SUBSET T
    BY <2>3
  <2>5. SumOver(f, S) = SumOver(f, U \ {x}) + SumOver(f, S \ (U \ {x}))
    BY <2>1, <2>4
  <2>6. /\ IsFiniteSet(U) /\ IsFiniteSet(U \ {x}) /\ IsFiniteSet(S \ U)
        /\ x \notin S \ U /\ S \ (U \ {x}) = (S \ U) \cup {x}
    BY <2>3, FS_Subset, U \in SUBSET S, U \ {x} \in SUBSET S, S \ U \in SUBSET S
  <2>7. SumOver(f, U) = f[x] + SumOver(f, U \ {x})
    BY <2>3, <2>6, SumTakeOut
  <2>8. SumOver(f, S \ (U \ {x})) = f[x] + SumOver(f, S \ U)
    BY <2>3, <2>6, SumAdd
  <2>9. SumOver(f, U \ {x}) \in Int /\ SumOver(f, S \ U) \in Int /\ f[x] \in Int
    BY <2>3, <2>6, SumType
  <2> QED BY <2>5, <2>7, <2>8, <2>9
<1> QED BY <1>1

\* The sum of a constant.
LEMMA SumConstant ==
  ASSUME NEW f, NEW S, IsFiniteSet(S), NEW n \in Int, \A x \in S : f[x] = n
  PROVE  SumOver(f, S) = n * Cardinality(S)
<1> DEFINE Bad == {T \in SUBSET S : SumOver(f, T) # n * Cardinality(T)}
<1>1. ASSUME Bad # {} PROVE FALSE
  <2>1. PICK T \in Bad : \A U \in SUBSET T : U # T => U \notin Bad
    <3> HIDE DEF Bad
    <3>1. Bad \in SUBSET (SUBSET S)
      BY DEF Bad
    <3> QED BY <1>1, <3>1, SmallestSubset
  <2>2. T # {} /\ IsFiniteSet(T)
    BY SumOfNone, FS_Subset, FS_EmptySet
  <2>3. Pick(T) \in T /\ SumOver(f, T) = f[Pick(T)] + SumOver(f, T \ {Pick(T)})
    BY <2>2, SumStep
  <2>4. SumOver(f, T \ {Pick(T)}) = n * Cardinality(T \ {Pick(T)})
    BY <2>1, <2>3
  <2>5. Cardinality(T) \in Nat /\ Cardinality(T \ {Pick(T)}) = Cardinality(T) - 1
    BY <2>2, <2>3, FS_CardinalityType, FS_RemoveElement
  <2>6. n * (Cardinality(T) - 1) = n * Cardinality(T) - n
    BY <2>5
  <2> QED BY <2>3, <2>4, <2>5, <2>6
<1> QED BY <1>1
\* The sum over one element.
LEMMA SumOfOne ==
  ASSUME NEW f, NEW x, f[x] \in Int
  PROVE  SumOver(f, {x}) = f[x]
<1>1. SumOver(f, {} \cup {x}) = f[x] + SumOver(f, {})
  BY FS_EmptySet, SumAdd
<1> QED BY <1>1, SumOfNone

\* A sum of natural numbers over more elements is no less.
LEMMA SumMonotone ==
  ASSUME NEW f, NEW S, IsFiniteSet(S), \A x \in S : f[x] \in Nat, NEW T \in SUBSET S
  PROVE  SumOver(f, T) <= SumOver(f, S)
<1>1. SumOver(f, S) = SumOver(f, T) + SumOver(f, S \ T)
  <2>1. \A x \in S : f[x] \in Int
    OBVIOUS
  <2> QED BY <2>1, SumSplit
<1>2. IsFiniteSet(T) /\ IsFiniteSet(S \ T)
  <2>1. S \ T \in SUBSET S
    OBVIOUS
  <2> QED BY <2>1, FS_Subset
<1>3. SumOver(f, T) \in Nat /\ SumOver(f, S \ T) \in Nat
  <2>1. (\A x \in T : f[x] \in Nat) /\ (\A x \in S \ T : f[x] \in Nat)
    OBVIOUS
  <2> QED BY <1>2, <2>1, SumNat
<1> QED BY <1>1, <1>3

\* Smaller values have a smaller sum.
LEMMA SumBelow ==
  ASSUME NEW f, NEW g, NEW S, IsFiniteSet(S), \A x \in S : f[x] \in Int /\ g[x] \in Int /\ f[x] <= g[x]
  PROVE  SumOver(f, S) <= SumOver(g, S)
<1> DEFINE Bad == {T \in SUBSET S : ~ (SumOver(f, T) <= SumOver(g, T))}
<1>1. ASSUME Bad # {} PROVE FALSE
  <2>1. PICK T \in Bad : \A U \in SUBSET T : U # T => U \notin Bad
    <3> HIDE DEF Bad
    <3>1. Bad \in SUBSET (SUBSET S)
      BY DEF Bad
    <3> QED BY <1>1, <3>1, SmallestSubset
  <2>2. T # {} /\ IsFiniteSet(T)
    <3>1. SumOver(f, {}) = 0 /\ SumOver(g, {}) = 0
      BY SumOfNone
    <3>2. T # {}
      BY <3>1
    <3> QED BY <3>2, FS_Subset
  <2>3. PICK x, R : x = Pick(T) /\ R = T \ {x}
    OBVIOUS
  <2>4. x \in T /\ SumOver(f, T) = f[x] + SumOver(f, R) /\ SumOver(g, T) = g[x] + SumOver(g, R)
    BY <2>2, <2>3, SumStep
  <2>5. SumOver(f, R) \in Int /\ SumOver(g, R) \in Int
    <3>1. IsFiniteSet(R) /\ R \subseteq S
      BY <2>2, <2>3, FS_Subset
    <3> QED BY <3>1, SumType
  <2>6. SumOver(f, R) <= SumOver(g, R)
    BY <2>1, <2>3, <2>4
  <2>7. f[x] \in Int /\ g[x] \in Int /\ f[x] <= g[x]
    BY <2>4
  <2>8. SumOver(f, T) <= SumOver(g, T)
    BY <2>4, <2>5, <2>6, <2>7
  <2> QED BY <2>8
<1> QED BY <1>1

\* The sum over the elements of a list without repetitions.
LEMMA SumOfImage ==
  ASSUME NEW f, NEW g, NEW h, NEW S, IsFiniteSet(S),
         \A x \in S : g[x] = f[h[x]] /\ g[x] \in Int,
         \A x, y \in S : h[x] = h[y] => x = y
  PROVE  /\ IsFiniteSet({h[x] : x \in S})
         /\ SumOver(g, S) = SumOver(f, {h[x] : x \in S})
<1> DEFINE Image(T) == {h[x] : x \in T}
           Bad == {T \in SUBSET S : ~ (IsFiniteSet(Image(T)) /\ SumOver(g, T) = SumOver(f, Image(T)))}
<1>1. ASSUME Bad # {} PROVE FALSE
  <2>1. PICK T \in Bad : \A U \in SUBSET T : U # T => U \notin Bad
    <3> HIDE DEF Bad
    <3>1. Bad \in SUBSET (SUBSET S)
      BY DEF Bad
    <3> QED BY <1>1, <3>1, SmallestSubset
  <2>2. T # {} /\ IsFiniteSet(T)
    <3>1. Image({}) = {}
      OBVIOUS
    <3> QED BY <3>1, SumOfNone, FS_Subset, FS_EmptySet
  <2>3. PICK x : x \in T
    BY <2>2
  <2>4. T \ {x} \in SUBSET T /\ T \ {x} # T /\ T \ {x} \in SUBSET S /\ x \in S
    BY <2>3
  <2>5. IsFiniteSet(Image(T \ {x})) /\ SumOver(g, T \ {x}) = SumOver(f, Image(T \ {x}))
    BY <2>1, <2>4
  <2>6. Image(T) = Image(T \ {x}) \cup {h[x]} /\ h[x] \notin Image(T \ {x})
    BY <2>3, <2>4
  <2>7. SumOver(g, T) = g[x] + SumOver(g, T \ {x})
    BY <2>2, <2>3, SumTakeOut
  <2>8. \A y \in Image(T \ {x}) \cup {h[x]} : f[y] \in Int
    BY <2>4
  <2>9. SumOver(f, Image(T)) = f[h[x]] + SumOver(f, Image(T \ {x})) /\ IsFiniteSet(Image(T))
    <3> DEFINE B == Image(T \ {x})
               y == h[x]
    <3>1. IsFiniteSet(B) /\ y \notin B /\ Image(T) = B \cup {y} /\ \A z \in B \cup {y} : f[z] \in Int
      BY <2>5, <2>6, <2>8
    <3> HIDE DEF B, y
    <3>2. SumOver(f, B \cup {y}) = f[y] + SumOver(f, B) /\ IsFiniteSet(B \cup {y})
      BY <3>1, SumAdd, FS_AddElement
    <3> QED BY <3>1, <3>2 DEF B, y
  <2>10. T \in SUBSET S /\ ~ (IsFiniteSet(Image(T)) /\ SumOver(g, T) = SumOver(f, Image(T)))
    OBVIOUS
  <2> QED BY <2>4, <2>5, <2>7, <2>9, <2>10
<1> HIDE DEF Image
<1>2. IsFiniteSet(Image(S)) /\ SumOver(g, S) = SumOver(f, Image(S))
  BY <1>1
<1> QED BY <1>2 DEF Image

===========================================================================
