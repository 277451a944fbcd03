------------------------------ MODULE SumProofs ------------------------------
(***************************************************************************)
(* Sums over finite sets.  SumFunctionOnSet of the community modules folds *)
(* the set by choosing one element after the other; what is wanted of it   *)
(* is that any element can be taken out first.  The inductions go over the *)
(* subsets of a finite set: a set of subsets that is not empty has a       *)
(* smallest one.                                                           *)
(***************************************************************************)
EXTENDS Integers, Functions, FiniteSetTheorems, WellFoundedInduction, TLAPS

\* The least counterexample of an induction over subsets.
LEMMA SmallestSubset ==
  ASSUME NEW S, IsFiniteSet(S), NEW B, B \subseteq SUBSET S, B # {}
  PROVE  \E T \in B : \A U \in B : U \subseteq T => U = T
<1>1. IsWellFoundedOn(StrictSubsetOrdering(S), SUBSET S)
  BY FS_StrictSubsetOrderingWellFounded, FS_FiniteSubsetsOfFinite
<1>2. PICK T \in B : \A U \in B : <<U, T>> \notin StrictSubsetOrdering(S)
  BY <1>1, WFMin
<1>3. ASSUME NEW U \in B, U \subseteq T
      PROVE  U = T
  BY <1>2, <1>3 DEF StrictSubsetOrdering
<1> QED
  BY <1>3

Chosen(s) == CHOOSE x \in s : TRUE

\* g is the recursive function that the sum of f over S is defined by.
IsFold(g, f, S) ==
  g = [s \in SUBSET S |-> IF s = {} THEN 0 ELSE f[Chosen(s)] + g[s \ {Chosen(s)}]]

\* The sum, by that function.
LEMMA SumIsFold ==
  ASSUME NEW S, NEW f
  PROVE  SumFunctionOnSet(f, S) = (CHOOSE g : IsFold(g, f, S))[S]
BY DEF SumFunctionOnSet, FoldFunctionOnSet, MapThenFoldSet, IsFold, Chosen

\* There is but one such function.
LEMMA FoldIsUnique ==
  ASSUME NEW S, IsFiniteSet(S), NEW f, NEW g, NEW h, IsFold(g, f, S), IsFold(h, f, S),
         NEW T \in SUBSET S
  PROVE  g[T] = h[T]
<1> DEFINE B == {s \in SUBSET S : g[s] # h[s]}
<1>1. SUFFICES ASSUME B # {}
               PROVE  FALSE
  OBVIOUS
<1>2. PICK U \in B : \A V \in B : V \subseteq U => V = U
  <2> HIDE DEF B
  <2>1. B \subseteq SUBSET S
    BY DEF B
  <2> QED
    BY <1>1, <2>1, SmallestSubset
<1>3. U \in SUBSET S /\ g[U] # h[U]
  OBVIOUS
<1>4. g[U] = (IF U = {} THEN 0 ELSE f[Chosen(U)] + g[U \ {Chosen(U)}])
  BY <1>3 DEF IsFold
<1>5. h[U] = (IF U = {} THEN 0 ELSE f[Chosen(U)] + h[U \ {Chosen(U)}])
  BY <1>3 DEF IsFold
<1>6. U # {}
  BY <1>3, <1>4, <1>5
<1>7. Chosen(U) \in U
  BY <1>6 DEF Chosen
<1>8. g[U \ {Chosen(U)}] = h[U \ {Chosen(U)}]
  <2>1. U \ {Chosen(U)} \subseteq U /\ U \ {Chosen(U)} # U
    BY <1>7
  <2>2. U \ {Chosen(U)} \notin B
    BY <1>2, <2>1
  <2>3. U \ {Chosen(U)} \in SUBSET S
    BY <1>3
  <2> QED
    BY <2>2, <2>3
<1> QED
  BY <1>3, <1>4, <1>5, <1>6, <1>8

\* One step of the sum: the element that is chosen, and the rest.
Unfolds(f, S) ==
  SumFunctionOnSet(f, S) =
    IF S = {} THEN 0 ELSE f[Chosen(S)] + SumFunctionOnSet(f, S \ {Chosen(S)})

\* The sum of a finite set is the element that is chosen and the sum of the rest.
LEMMA SumUnfolds ==
  ASSUME NEW S, IsFiniteSet(S), NEW f
  PROVE  Unfolds(f, S)
<1> DEFINE B == {T \in SUBSET S : ~Unfolds(f, T)}
<1>1. SUFFICES ASSUME B # {}
               PROVE  FALSE
  OBVIOUS
<1>2. PICK T \in B : \A U \in B : U \subseteq T => U = T
  <2> HIDE DEF B
  <2>1. B \subseteq SUBSET S
    BY DEF B
  <2> QED
    BY <1>1, <2>1, SmallestSubset
<1>3. T \in SUBSET S /\ ~Unfolds(f, T) /\ IsFiniteSet(T)
  BY FS_Subset
<1>4. ASSUME NEW U \in SUBSET T, U # T
      PROVE  Unfolds(f, U)
  BY <1>2, <1>3, <1>4
<1> DEFINE
  Step(s) == IF s = {} THEN 0 ELSE f[Chosen(s)] + SumFunctionOnSet(f, s \ {Chosen(s)})
  G == [s \in SUBSET T |-> Step(s)]
<1>5. ASSUME NEW s \in SUBSET T, s # {}
      PROVE  s \ {Chosen(s)} \in SUBSET T /\ s \ {Chosen(s)} # T
  BY <1>5 DEF Chosen
<1>6. ASSUME NEW s \in SUBSET T, s # T
      PROVE  G[s] = SumFunctionOnSet(f, s)
  BY <1>4, <1>6 DEF Unfolds
<1>7. ASSUME NEW s \in SUBSET T
      PROVE  G[s] = IF s = {} THEN 0 ELSE f[Chosen(s)] + G[s \ {Chosen(s)}]
  <2>1. G[s] = Step(s)
    OBVIOUS
  <2>2. s # {} => G[s \ {Chosen(s)}] = SumFunctionOnSet(f, s \ {Chosen(s)})
    <3> HIDE DEF G
    <3> QED
      BY <1>5, <1>6
  <2> HIDE DEF G
  <2> QED
    BY <2>1, <2>2
<1>8. IsFold(G, f, T)
  <2>1. G = [s \in SUBSET T |-> G[s]]
    OBVIOUS
  <2> HIDE DEF G
  <2> QED
    BY <1>7, <2>1 DEF IsFold
<1>9. SumFunctionOnSet(f, T) = G[T]
  <2> DEFINE C == CHOOSE g : IsFold(g, f, T)
  <2>1. IsFold(C, f, T)
    <3> HIDE DEF G
    <3> QED
      BY <1>8
  <2>2. SumFunctionOnSet(f, T) = C[T]
    BY SumIsFold
  <2> HIDE DEF C, G
  <2> QED
    BY <1>3, <1>8, <2>1, <2>2, FoldIsUnique
<1>10. G[T] = Step(T)
  OBVIOUS
<1> HIDE DEF G
<1> QED
  BY <1>3, <1>9, <1>10 DEF Unfolds

\* The sum over the empty set.
LEMMA SumOfNone ==
  ASSUME NEW f
  PROVE  SumFunctionOnSet(f, {}) = 0
BY SumUnfolds, FS_EmptySet DEF Unfolds

\* A sum of integers is one.
LEMMA SumIsInt ==
  ASSUME NEW S, IsFiniteSet(S), NEW f, \A x \in S : f[x] \in Int
  PROVE  SumFunctionOnSet(f, S) \in Int
<1> DEFINE B == {T \in SUBSET S : SumFunctionOnSet(f, T) \notin Int}
<1>1. SUFFICES ASSUME B # {}
               PROVE  FALSE
  OBVIOUS
<1>2. PICK T \in B : \A U \in B : U \subseteq T => U = T
  <2> HIDE DEF B
  <2>1. B \subseteq SUBSET S
    BY DEF B
  <2> QED
    BY <1>1, <2>1, SmallestSubset
<1>3. T \in SUBSET S /\ IsFiniteSet(T) /\ T # {}
  <2>1. T \in SUBSET S
    OBVIOUS
  <2>2. IsFiniteSet(T)
    BY <2>1, FS_Subset
  <2>3. T # {}
    BY SumOfNone
  <2> QED
    BY <2>1, <2>2, <2>3
<1>4. Chosen(T) \in T
  BY <1>3 DEF Chosen
<1>5. SumFunctionOnSet(f, T \ {Chosen(T)}) \in Int
  BY <1>2, <1>3, <1>4
<1>6. SumFunctionOnSet(f, T) = f[Chosen(T)] + SumFunctionOnSet(f, T \ {Chosen(T)})
  BY <1>3, SumUnfolds DEF Unfolds
<1> QED
  BY <1>3, <1>4, <1>5, <1>6

\* Any element can be taken out of a sum first.
LEMMA SumTakesOut ==
  ASSUME NEW S, IsFiniteSet(S), NEW f, \A x \in S : f[x] \in Int, NEW y \in S
  PROVE  SumFunctionOnSet(f, S) = f[y] + SumFunctionOnSet(f, S \ {y})
<1> DEFINE
  Out(T, x) == SumFunctionOnSet(f, T) = f[x] + SumFunctionOnSet(f, T \ {x})
  B == {T \in SUBSET S : \E x \in T : ~Out(T, x)}
<1>1. SUFFICES ASSUME B # {}
               PROVE  FALSE
  OBVIOUS
<1>2. PICK T \in B : \A U \in B : U \subseteq T => U = T
  <2> HIDE DEF B
  <2>1. B \subseteq SUBSET S
    BY DEF B
  <2> QED
    BY <1>1, <2>1, SmallestSubset
<1>3. T \in SUBSET S /\ IsFiniteSet(T)
  BY FS_Subset
<1>4. PICK x \in T : ~Out(T, x)
  OBVIOUS
<1> DEFINE p == Chosen(T)
<1>5. p \in T
  BY <1>4 DEF Chosen
<1>6. ASSUME NEW z \in T
      PROVE  T \ {z} \in SUBSET S /\ IsFiniteSet(T \ {z}) /\ T \ {z} \notin B
  <2>1. T \ {z} \in SUBSET S /\ T \ {z} # T
    BY <1>3
  <2>2. T \ {z} \notin B
    BY <1>2, <2>1
  <2> QED
    BY <1>3, <2>1, <2>2, FS_Subset
<1>7. SumFunctionOnSet(f, T) = f[p] + SumFunctionOnSet(f, T \ {p})
  BY <1>3, <1>4, SumUnfolds DEF Unfolds
<1>8. p # x
  BY <1>4, <1>7
<1>9. SumFunctionOnSet(f, T \ {p}) = f[x] + SumFunctionOnSet(f, (T \ {p}) \ {x})
  <2>1. x \in T \ {p}
    BY <1>8
  <2>2. Out(T \ {p}, x)
    BY <1>5, <1>6, <2>1
  <2> QED
    BY <2>2
<1>10. SumFunctionOnSet(f, T \ {x}) = f[p] + SumFunctionOnSet(f, (T \ {x}) \ {p})
  <2>1. p \in T \ {x}
    BY <1>5, <1>8
  <2>2. Out(T \ {x}, p)
    BY <1>6, <2>1
  <2> QED
    BY <2>2
<1>11. (T \ {p}) \ {x} = (T \ {x}) \ {p}
  OBVIOUS
<1>12. SumFunctionOnSet(f, (T \ {p}) \ {x}) \in Int
  BY <1>3, <1>6, FS_Subset, SumIsInt
<1>13. f[x] \in Int /\ f[p] \in Int
  BY <1>3, <1>5
<1>14. SumFunctionOnSet(f, T) = f[x] + SumFunctionOnSet(f, T \ {x})
  <2> DEFINE rest == SumFunctionOnSet(f, (T \ {p}) \ {x})
  <2>1. SumFunctionOnSet(f, T) = f[p] + (f[x] + rest)
    BY <1>7, <1>9
  <2>2. SumFunctionOnSet(f, T \ {x}) = f[p] + rest
    BY <1>10, <1>11
  <2>3. rest \in Int
    BY <1>12
  <2> HIDE DEF p, rest
  <2>4. f[p] + (f[x] + rest) = f[x] + (f[p] + rest)
    BY <1>13, <2>3
  <2> QED
    BY <2>1, <2>2, <2>4
<1> QED
  BY <1>4, <1>14

\* One more element.
LEMMA SumAdds ==
  ASSUME NEW S, IsFiniteSet(S), NEW f, NEW y, y \notin S,
         \A x \in S \cup {y} : f[x] \in Int
  PROVE  SumFunctionOnSet(f, S \cup {y}) = f[y] + SumFunctionOnSet(f, S)
<1>1. IsFiniteSet(S \cup {y}) /\ (S \cup {y}) \ {y} = S
  BY FS_AddElement
<1> QED
  BY <1>1, SumTakesOut

\* Sums grow with what they sum.
LEMMA SumIsMonotonic ==
  ASSUME NEW S, IsFiniteSet(S), NEW f, NEW g,
         \A x \in S : f[x] \in Int /\ g[x] \in Int /\ f[x] <= g[x]
  PROVE  SumFunctionOnSet(f, S) <= SumFunctionOnSet(g, S)
<1> DEFINE B == {T \in SUBSET S : ~(SumFunctionOnSet(f, T) <= SumFunctionOnSet(g, T))}
<1>1. SUFFICES ASSUME B # {}
               PROVE  FALSE
  OBVIOUS
<1>2. PICK T \in B : \A U \in B : U \subseteq T => U = T
  <2> HIDE DEF B
  <2>1. B \subseteq SUBSET S
    BY DEF B
  <2> QED
    BY <1>1, <2>1, SmallestSubset
<1>3. T \in SUBSET S /\ IsFiniteSet(T) /\ T # {}
  <2>1. T \in SUBSET S
    OBVIOUS
  <2>2. IsFiniteSet(T)
    BY <2>1, FS_Subset
  <2>3. T # {}
    BY SumOfNone
  <2> QED
    BY <2>1, <2>2, <2>3
<1>4. PICK x \in T : TRUE
  BY <1>3
<1>5. T \ {x} \in SUBSET S /\ IsFiniteSet(T \ {x})
  BY <1>3, FS_Subset
<1>6. SumFunctionOnSet(f, T \ {x}) <= SumFunctionOnSet(g, T \ {x})
  BY <1>2, <1>3, <1>4, <1>5
<1>7. /\ SumFunctionOnSet(f, T) = f[x] + SumFunctionOnSet(f, T \ {x})
      /\ SumFunctionOnSet(g, T) = g[x] + SumFunctionOnSet(g, T \ {x})
  BY <1>3, <1>4, SumTakesOut
<1>8. SumFunctionOnSet(f, T \ {x}) \in Int /\ SumFunctionOnSet(g, T \ {x}) \in Int
  BY <1>5, SumIsInt
<1>9. f[x] \in Int /\ g[x] \in Int /\ f[x] <= g[x]
  BY <1>3, <1>4
<1>10. SumFunctionOnSet(f, T) <= SumFunctionOnSet(g, T)
  BY <1>6, <1>7, <1>8, <1>9
<1> QED
  BY <1>10

\* A sum is determined by what it sums.
LEMMA SumOfSame ==
  ASSUME NEW S, IsFiniteSet(S), NEW f, NEW g,
         \A x \in S : f[x] \in Int /\ f[x] = g[x]
  PROVE  SumFunctionOnSet(f, S) = SumFunctionOnSet(g, S)
<1>1. /\ SumFunctionOnSet(f, S) \in Int /\ SumFunctionOnSet(g, S) \in Int
      /\ SumFunctionOnSet(f, S) <= SumFunctionOnSet(g, S)
      /\ SumFunctionOnSet(g, S) <= SumFunctionOnSet(f, S)
  BY SumIsInt, SumIsMonotonic
<1> QED
  BY <1>1

\* A sum changes by as much as one of its parts does.
LEMMA SumChanges ==
  ASSUME NEW S, IsFiniteSet(S), NEW f, NEW g, NEW y \in S,
         \A x \in S : f[x] \in Int /\ g[x] \in Int,
         \A x \in S \ {y} : f[x] = g[x]
  PROVE  SumFunctionOnSet(g, S) = SumFunctionOnSet(f, S) + (g[y] - f[y])
<1>1. IsFiniteSet(S \ {y})
  BY FS_Subset
<1>2. SumFunctionOnSet(f, S \ {y}) = SumFunctionOnSet(g, S \ {y})
  BY <1>1, SumOfSame
<1>3. /\ SumFunctionOnSet(f, S) = f[y] + SumFunctionOnSet(f, S \ {y})
      /\ SumFunctionOnSet(g, S) = g[y] + SumFunctionOnSet(g, S \ {y})
  BY SumTakesOut
<1>4. SumFunctionOnSet(f, S \ {y}) \in Int
  BY <1>1, SumIsInt
<1> QED
  BY <1>2, <1>3, <1>4

\* A sum of zeros.
LEMMA SumOfZeros ==
  ASSUME NEW S, IsFiniteSet(S), NEW f, \A x \in S : f[x] = 0
  PROVE  SumFunctionOnSet(f, S) = 0
<1> DEFINE B == {T \in SUBSET S : SumFunctionOnSet(f, T) # 0}
<1>1. SUFFICES ASSUME B # {}
               PROVE  FALSE
  OBVIOUS
<1>2. PICK T \in B : \A U \in B : U \subseteq T => U = T
  <2> HIDE DEF B
  <2>1. B \subseteq SUBSET S
    BY DEF B
  <2> QED
    BY <1>1, <2>1, SmallestSubset
<1>3. T \in SUBSET S /\ IsFiniteSet(T) /\ T # {}
  <2>1. T \in SUBSET S
    OBVIOUS
  <2>2. IsFiniteSet(T)
    BY <2>1, FS_Subset
  <2>3. T # {}
    BY SumOfNone
  <2> QED
    BY <2>1, <2>2, <2>3
<1>4. PICK x \in T : TRUE
  BY <1>3
<1>5. SumFunctionOnSet(f, T \ {x}) = 0
  BY <1>2, <1>3, <1>4
<1>6. SumFunctionOnSet(f, T) = f[x] + SumFunctionOnSet(f, T \ {x})
  BY <1>3, <1>4, SumTakesOut
<1>7. SumFunctionOnSet(f, T) = 0
  BY <1>3, <1>4, <1>5, <1>6
<1> QED
  BY <1>7

\* A sum of natural numbers is one, and no part of it is greater.
LEMMA SumIsNat ==
  ASSUME NEW S, IsFiniteSet(S), NEW f, \A x \in S : f[x] \in Nat
  PROVE  /\ SumFunctionOnSet(f, S) \in Nat
         /\ \A x \in S : f[x] <= SumFunctionOnSet(f, S)
<1>1. ASSUME NEW T \in SUBSET S
      PROVE  IsFiniteSet(T) /\ SumFunctionOnSet(f, T) \in Nat
  <2> DEFINE z == [x \in T |-> 0]
  <2>1. IsFiniteSet(T)
    BY FS_Subset
  <2>2. SumFunctionOnSet(f, T) \in Int
    BY <2>1, SumIsInt
  <2>3. SumFunctionOnSet(z, T) = 0
    BY <2>1, SumOfZeros
  <2>4. SumFunctionOnSet(z, T) <= SumFunctionOnSet(f, T)
    BY <2>1, SumIsMonotonic
  <2> QED
    BY <2>1, <2>2, <2>3, <2>4
<1>2. ASSUME NEW x \in S
      PROVE  f[x] <= SumFunctionOnSet(f, S)
  <2>1. SumFunctionOnSet(f, S) = f[x] + SumFunctionOnSet(f, S \ {x})
    BY SumTakesOut
  <2> QED
    BY <1>1, <2>1
<1> QED
  BY <1>1, <1>2

\* Leaving out what is not negative makes a sum no greater.
LEMMA SumOfPart ==
  ASSUME NEW S, IsFiniteSet(S), NEW f, \A x \in S : f[x] \in Int,
         NEW T, T \subseteq S, \A x \in S \ T : f[x] >= 0
  PROVE  SumFunctionOnSet(f, T) <= SumFunctionOnSet(f, S)
<1> DEFINE B == {U \in SUBSET (S \ T) :
                   ~(SumFunctionOnSet(f, T) <= SumFunctionOnSet(f, T \cup U))}
<1>1. SUFFICES ASSUME B # {}
               PROVE  FALSE
  <2>1. S \ T \in SUBSET (S \ T) /\ T \cup (S \ T) = S
    OBVIOUS
  <2>2. S \ T \notin B
    BY <1>1
  <2> QED
    BY <2>1, <2>2
<1>2. IsFiniteSet(S \ T)
  BY FS_Subset
<1>3. PICK U \in B : \A V \in B : V \subseteq U => V = U
  <2> HIDE DEF B
  <2>1. B \subseteq SUBSET (S \ T)
    BY DEF B
  <2> QED
    BY <1>1, <1>2, <2>1, SmallestSubset
<1>4. U \in SUBSET (S \ T)
  OBVIOUS
<1>5. SumFunctionOnSet(f, T) \in Int
  <2>1. IsFiniteSet(T)
    BY FS_Subset
  <2> QED
    BY <2>1, SumIsInt
<1>6. U # {}
  <2>1. SUFFICES ASSUME U = {}
                 PROVE  FALSE
    OBVIOUS
  <2>2. T \cup U = T
    BY <2>1
  <2> QED
    BY <1>5, <2>2
<1>7. PICK x \in U : TRUE
  BY <1>6
<1> DEFINE V == U \ {x}
<1>8. V \in SUBSET (S \ T) /\ V \subseteq U /\ V # U
  BY <1>4, <1>7
<1>9. SumFunctionOnSet(f, T) <= SumFunctionOnSet(f, T \cup V)
  BY <1>3, <1>8
<1>10. IsFiniteSet(T \cup U) /\ T \cup U \subseteq S /\ (T \cup U) \ {x} = T \cup V
  <2>1. T \cup U \subseteq S /\ (T \cup U) \ {x} = T \cup V
    BY <1>4, <1>7
  <2> QED
    BY <2>1, FS_Subset
<1>11. SumFunctionOnSet(f, T \cup U) = f[x] + SumFunctionOnSet(f, T \cup V)
  BY <1>7, <1>10, SumTakesOut
<1>12. SumFunctionOnSet(f, T \cup V) \in Int
  <2>1. IsFiniteSet(T \cup V) /\ T \cup V \subseteq S
    BY <1>10, FS_Subset
  <2> QED
    BY <2>1, SumIsInt
<1>13. f[x] \in Int /\ f[x] >= 0
  BY <1>4, <1>7
<1>14. SumFunctionOnSet(f, T) <= SumFunctionOnSet(f, T \cup U)
  <2> HIDE DEF V
  <2> QED
    BY <1>5, <1>9, <1>11, <1>12, <1>13
<1> QED
  BY <1>14

\* The same numbers under other names have the same sum.
LEMMA SumRenamed ==
  ASSUME NEW S, IsFiniteSet(S), NEW T, IsFiniteSet(T), NEW f, NEW g, NEW k,
         \A x \in S : f[x] \in Int /\ k[x] \in T /\ f[x] = g[k[x]],
         \A x, y \in S : k[x] = k[y] => x = y,
         \A z \in T : \E x \in S : k[x] = z
  PROVE  SumFunctionOnSet(f, S) = SumFunctionOnSet(g, T)
<1> DEFINE
  Named(U) == {k[x] : x \in U}
  B == {U \in SUBSET S : SumFunctionOnSet(f, U) # SumFunctionOnSet(g, Named(U))}
<1>1. SUFFICES ASSUME B # {}
               PROVE  FALSE
  <2>1. Named(S) = T
    OBVIOUS
  <2>2. S \notin B
    BY <1>1
  <2> QED
    BY <2>1, <2>2
<1>2. PICK U \in B : \A V \in B : V \subseteq U => V = U
  <2> HIDE DEF B
  <2>1. B \subseteq SUBSET S
    BY DEF B
  <2> QED
    BY <1>1, <2>1, SmallestSubset
<1>3. U \in SUBSET S /\ SumFunctionOnSet(f, U) # SumFunctionOnSet(g, Named(U))
  BY <1>2
<1>4. U # {}
  <2>1. SUFFICES ASSUME U = {}
                 PROVE  FALSE
    OBVIOUS
  <2>2. Named(U) = {}
    BY <2>1
  <2> QED
    BY <1>3, <2>1, <2>2, SumOfNone
<1>5. PICK x \in U : TRUE
  BY <1>4
<1>6. U \ {x} \in SUBSET S /\ x \in S
  BY <1>3, <1>5
<1>7. SumFunctionOnSet(f, U \ {x}) = SumFunctionOnSet(g, Named(U \ {x}))
  BY <1>2, <1>5, <1>6
<1>8. Named(U) \subseteq T /\ k[x] \in Named(U) /\ Named(U) \ {k[x]} = Named(U \ {x})
  BY <1>3, <1>5, <1>6
<1>9. \A z \in Named(U) : g[z] \in Int
  BY <1>3
<1> HIDE DEF Named, B
<1>10. SumFunctionOnSet(f, U) = f[x] + SumFunctionOnSet(f, U \ {x})
  <2>1. IsFiniteSet(U)
    BY <1>3, FS_Subset
  <2>2. \A y \in U : f[y] \in Int
    BY <1>3
  <2> QED
    BY <1>5, <2>1, <2>2, SumTakesOut
<1>11. SumFunctionOnSet(g, Named(U)) = g[k[x]] + SumFunctionOnSet(g, Named(U \ {x}))
  <2>1. IsFiniteSet(Named(U))
    BY <1>8, FS_Subset
  <2> DEFINE M == Named(U)
  <2> HIDE DEF M
  <2>2. IsFiniteSet(M) /\ k[x] \in M /\ \A z \in M : g[z] \in Int
    BY <1>8, <1>9, <2>1 DEF M
  <2>3. SumFunctionOnSet(g, M) = g[k[x]] + SumFunctionOnSet(g, M \ {k[x]})
    BY <2>2, SumTakesOut
  <2>4. M \ {k[x]} = Named(U \ {x})
    BY <1>8 DEF M
  <2> QED
    BY <2>3, <2>4 DEF M
<1>12. f[x] = g[k[x]]
  BY <1>6
<1> QED
  BY <1>3, <1>7, <1>10, <1>11, <1>12

\* From f to g one part at most changes, and by n.
Moved(S, f, g, y, n) ==
  /\ IsFiniteSet(S) /\ n \in Int
  /\ \A x \in S : f[x] \in Int /\ g[x] \in Int
  /\ \A x \in S : x # y => g[x] = f[x]
  /\ y \in S => g[y] = f[y] + n

\* So does the sum.
LEMMA SumMoves ==
  ASSUME NEW S, NEW f, NEW g, NEW y, NEW n, Moved(S, f, g, y, n)
  PROVE  SumFunctionOnSet(g, S) =
           IF y \in S THEN SumFunctionOnSet(f, S) + n ELSE SumFunctionOnSet(f, S)
<1>1. /\ IsFiniteSet(S) /\ n \in Int
      /\ \A x \in S : x # y => g[x] = f[x]
      /\ y \in S => g[y] = f[y] + n
  BY DEF Moved
<1>2. \A x \in S : f[x] \in Int /\ g[x] \in Int
  BY DEF Moved
<1>3. ASSUME y \in S
      PROVE  SumFunctionOnSet(g, S) = SumFunctionOnSet(f, S) + n
  <2>1. IsFiniteSet(S \ {y}) /\ \A x \in S \ {y} : f[x] \in Int /\ f[x] = g[x]
    BY <1>1, <1>2, FS_Subset
  <2>2. SumFunctionOnSet(f, S \ {y}) = SumFunctionOnSet(g, S \ {y})
    BY <2>1, SumOfSame
  <2>3. SumFunctionOnSet(f, S) = f[y] + SumFunctionOnSet(f, S \ {y})
    BY <1>1, <1>2, <1>3, SumTakesOut
  <2>4. SumFunctionOnSet(g, S) = g[y] + SumFunctionOnSet(g, S \ {y})
    BY <1>1, <1>2, <1>3, SumTakesOut
  <2>5. SumFunctionOnSet(f, S \ {y}) \in Int
    BY <2>1, SumIsInt
  <2>6. QED
    BY <1>1, <1>2, <1>3, <2>2, <2>3, <2>4, <2>5
<1>4. ASSUME y \notin S
      PROVE  SumFunctionOnSet(g, S) = SumFunctionOnSet(f, S)
  <2>1. \A x \in S : f[x] \in Int /\ f[x] = g[x]
    BY <1>1, <1>2, <1>4
  <2>2. QED
    BY <1>1, <2>1, SumOfSame
<1>5. QED
  BY <1>3, <1>4
=============================================================================
