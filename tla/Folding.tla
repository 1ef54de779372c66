------------------------------- MODULE Folding -------------------------------
(***************************************************************************)
(* What folds over finite sets compute: the sums and the netting of the    *)
(* other modules are such folds.  Induction goes by the smallest           *)
(* counterexample, for the library's induction theorems take predicates.   *)
(***************************************************************************)
EXTENDS Integers, FiniteSets, Functions, FiniteSetTheorems,
        WellFoundedInduction, TLAPS

\* A family of subsets of a finite set has a member all of whose proper
\* subsets are no members.
LEMMA SmallestSubset ==
  ASSUME NEW S, IsFiniteSet(S), NEW F \in SUBSET SUBSET S, F # {}
  PROVE  \E T \in F : \A U \in F : ~(U \subseteq T /\ U # T)
<1>1. IsWellFoundedOn(StrictSubsetOrdering(S), FiniteSubsetsOf(S))
  BY FS_StrictSubsetOrderingWellFounded
<1>2. F \subseteq FiniteSubsetsOf(S)
  BY FS_FiniteSubsetsOfFinite
<1>3. PICK T \in F : \A U \in F : ~(<<U, T>> \in StrictSubsetOrdering(S))
  BY <1>1, <1>2, WFMin
<1> QED BY <1>3 DEF StrictSubsetOrdering

\* A set of natural numbers has a least one.
LEMMA LeastNumber ==
  ASSUME NEW N \in SUBSET Nat, N # {}
  PROVE  \E n \in N : \A m \in N : n <= m
<1>1. PICK n \in N : \A m \in N : ~(<<m, n>> \in OpToRel(<, Nat))
  BY NatLessThanWellFounded, WFMin
<1>2. \A m \in N : ~(m < n)
  BY <1>1 DEF OpToRel
<1> QED BY <1>2

\* What a fold over the subsets of S must satisfy: the empty set gives the base,
\* any other what step makes of the element picked and of the rest.
FoldsTo(g, S, b, pick, step) ==
  \A T \in SUBSET S :
    g[T] = IF T = {} THEN b ELSE step[pick[T]][g[T \ {pick[T]}]]

\* An order of picking: an element of each part that has one.
Picks(pick, S) == \A T \in SUBSET S : T # {} => pick[T] \in T

\* A finite set can be folded, with any order of picking.
LEMMA FoldExists ==
  ASSUME NEW S, IsFiniteSet(S), NEW V, NEW b \in V,
         NEW pick, Picks(pick, S),
         NEW step \in [S -> [V -> V]]
  PROVE  \E g \in [SUBSET S -> V] : FoldsTo(g, S, b, pick, step)
<1> DEFINE Small(n) == {T \in SUBSET S : Cardinality(T) <= n}
           Def(g, T) == IF T = {} THEN b ELSE step[pick[T]][g[T \ {pick[T]}]]
           P(n) == \E g \in [Small(n) -> V] : \A T \in Small(n) : g[T] = Def(g, T)
<1>1. P(0)
  <2>1. Small(0) = {{}}
    BY FS_EmptySet, FS_Subset, FS_CardinalityType
  <2> DEFINE g == [T \in Small(0) |-> b]
  <2>2. g \in [Small(0) -> V] /\ \A T \in Small(0) : g[T] = Def(g, T)
    BY <2>1
  <2> QED BY <2>2
<1>2. ASSUME NEW n \in Nat, P(n) PROVE P(n + 1)
  <2>1. PICK g \in [Small(n) -> V] : \A T \in Small(n) : g[T] = Def(g, T)
    BY <1>2
  <2>2. ASSUME NEW T \in Small(n + 1), T # {}
        PROVE  pick[T] \in T /\ pick[T] \in S /\ T \ {pick[T]} \in Small(n)
    BY <2>2, FS_RemoveElement, FS_Subset, FS_CardinalityType DEF Picks
  <2>3. Small(n) \subseteq Small(n + 1)
    BY FS_Subset, FS_CardinalityType
  <2> DEFINE h == [T \in Small(n + 1) |-> Def(g, T)]
  <2>4. \A T \in Small(n) : h[T] = g[T]
    BY <2>1, <2>3
  <2>5. h \in [Small(n + 1) -> V]
    BY <2>2
  <2>6. \A T \in Small(n + 1) : h[T] = Def(h, T)
    BY <2>2, <2>4
  <2> QED BY <2>5, <2>6
<1>3. \A n \in Nat : P(n)
  <2> DEFINE N == {n \in Nat : ~P(n)}
  <2>1. SUFFICES ASSUME N # {} PROVE FALSE
    OBVIOUS
  <2> HIDE DEF P
  <2>2. PICK n \in N : \A m \in N : n <= m
    BY <2>1, LeastNumber
  <2>3. n \in Nat /\ ~P(n) /\ n # 0
    BY <1>1, <2>2
  <2>4. n - 1 \in Nat /\ P(n - 1) /\ n = (n - 1) + 1
    BY <2>2, <2>3
  <2> QED BY <1>2, <2>3, <2>4
<1>4. Small(Cardinality(S)) = SUBSET S
  BY FS_Subset, FS_CardinalityType
<1>5. P(Cardinality(S))
  BY <1>3, FS_CardinalityType
<1> QED BY <1>4, <1>5 DEF FoldsTo

-----------------------------------------------------------------------------
(***************************************************************************)
(* Sums of the values of a function over part of a finite domain.          *)
(***************************************************************************)
\* The element a sum takes first.
First(T) == CHOOSE x \in T : TRUE

SumDef(g, f, T) == IF T = {} THEN 0 ELSE f[First(T)] + g[T \ {First(T)}]

\* On all parts of a finite domain sums are integers and follow the recursion.
LEMMA SumUnfolds ==
  ASSUME NEW S, IsFiniteSet(S), NEW f, \A x \in S : f[x] \in Int
  PROVE  /\ SumFunctionOnSet(f, {}) = 0
         /\ \A T \in SUBSET S :
              /\ SumFunctionOnSet(f, T) \in Int
              /\ T # {} =>
                   /\ First(T) \in T
                   /\ SumFunctionOnSet(f, T)
                        = f[First(T)] + SumFunctionOnSet(f, T \ {First(T)})
<1> DEFINE pick == [T \in SUBSET S |-> First(T)]
           step == [x \in S |-> [v \in Int |-> f[x] + v]]
<1>1. \A T \in SUBSET S : T # {} => First(T) \in T
  BY DEF First
<1>2. PICK g \in [SUBSET S -> Int] : FoldsTo(g, S, 0, pick, step)
  <2> DEFINE V == Int
             b == 0
  <2>1. b \in V /\ step \in [S -> [V -> V]]
    OBVIOUS
  <2>2. Picks(pick, S)
    BY <1>1 DEF Picks
  <2> HIDE DEF step, pick, V, b
  <2>3. \E g \in [SUBSET S -> V] : FoldsTo(g, S, b, pick, step)
    BY <2>1, <2>2, FoldExists
  <2> QED BY <2>3 DEF V, b
<1>3. \A T \in SUBSET S : g[T] = SumDef(g, f, T)
  BY <1>1, <1>2 DEF FoldsTo, SumDef
<1>4. ASSUME NEW T \in SUBSET S PROVE SumFunctionOnSet(f, T) = g[T]
  <2> DEFINE Body(it) == [U \in SUBSET T |-> SumDef(it, f, U)]
             h == CHOOSE it : it = Body(it)
  <2>1. SumFunctionOnSet(f, T) = h[T]
    BY DEF SumFunctionOnSet, FoldFunctionOnSet, MapThenFoldSet, SumDef, First
  <2>2. \E it : it = Body(it)
    <3> DEFINE r == [U \in SUBSET T |-> g[U]]
    <3>1. \A U \in SUBSET T : r[U] = SumDef(r, f, U)
      BY <1>1, <1>3 DEF SumDef
    <3>2. r = Body(r)
      BY <3>1
    <3> QED BY <3>2
  <2>3. h = Body(h)
    BY <2>2
  <2> HIDE DEF h
  <2>4. \A U \in SUBSET T : h[U] = SumDef(h, f, U)
    BY <2>3
  <2> DEFINE F == {U \in SUBSET T : h[U] # g[U]}
  <2>5. F = {}
    <3>1. SUFFICES ASSUME F # {} PROVE FALSE
      OBVIOUS
    <3>2. IsFiniteSet(T) /\ F \in SUBSET SUBSET T
      BY FS_Subset
    <3> HIDE DEF F
    <3>3. PICK U \in F : \A W \in F : ~(W \subseteq U /\ W # U)
      BY <3>1, <3>2, SmallestSubset
    <3>4. U # {} => First(U) \in U /\ h[U \ {First(U)}] = g[U \ {First(U)}]
      BY <1>1, <3>2, <3>3 DEF F
    <3> QED BY <1>3, <2>4, <3>2, <3>3, <3>4 DEF F, SumDef
  <2> QED BY <2>1, <2>5
<1>5. \A T \in SUBSET S : T \ {First(T)} \in SUBSET S
  OBVIOUS
<1>6. SumFunctionOnSet(f, {}) = 0
  BY <1>3, <1>4 DEF SumDef
<1>7. ASSUME NEW T \in SUBSET S, T # {}
      PROVE  SumFunctionOnSet(f, T)
               = f[First(T)] + SumFunctionOnSet(f, T \ {First(T)})
  BY <1>3, <1>4, <1>5, <1>7 DEF SumDef
<1>8. \A T \in SUBSET S : SumFunctionOnSet(f, T) \in Int
  BY <1>4
<1> HIDE DEF pick, step
<1> QED BY <1>1, <1>6, <1>7, <1>8

\* How a sum over part of the domain goes on, for citing.
SumRuns(f, S) ==
  \A T \in SUBSET S :
    /\ SumFunctionOnSet(f, T) \in Int
    /\ T = {} => SumFunctionOnSet(f, T) = 0
    /\ T # {} =>
         \E x \in T : SumFunctionOnSet(f, T) = f[x] + SumFunctionOnSet(f, T \ {x})

LEMMA SumRecurs ==
  ASSUME NEW S, IsFiniteSet(S), NEW f, \A x \in S : f[x] \in Int
  PROVE  SumRuns(f, S)
<1>1. /\ SumFunctionOnSet(f, {}) = 0
      /\ \A T \in SUBSET S :
           /\ SumFunctionOnSet(f, T) \in Int
           /\ T # {} =>
                /\ First(T) \in T
                /\ SumFunctionOnSet(f, T)
                     = f[First(T)] + SumFunctionOnSet(f, T \ {First(T)})
  BY SumUnfolds
<1> QED BY <1>1 DEF SumRuns

\* Any element may be taken first.
LEMMA SumTakes ==
  ASSUME NEW S, IsFiniteSet(S), NEW f, \A x \in S : f[x] \in Int, NEW y \in S
  PROVE  SumFunctionOnSet(f, S) = f[y] + SumFunctionOnSet(f, S \ {y})
<1> DEFINE Sum(T) == SumFunctionOnSet(f, T)
           F == {T \in SUBSET S : \E x \in T : Sum(T) # f[x] + Sum(T \ {x})}
<1>1. SumRuns(f, S)
  BY SumRecurs
<1>2. SUFFICES ASSUME F # {} PROVE FALSE
  OBVIOUS
<1>3. F \in SUBSET SUBSET S
  OBVIOUS
<1> HIDE DEF F
<1>4. PICK T \in F : \A U \in F : ~(U \subseteq T /\ U # T)
  BY <1>2, <1>3, SmallestSubset
<1>5. PICK x \in T : Sum(T) # f[x] + Sum(T \ {x})
  BY <1>4 DEF F
<1>6. PICK z \in T : Sum(T) = f[z] + Sum(T \ {z})
  BY <1>1, <1>3, <1>4, <1>5 DEF SumRuns
<1>7. x \in T \ {z} /\ z \in T \ {x}
  BY <1>5, <1>6
<1>8. T \ {z} \notin F /\ T \ {x} \notin F
  BY <1>4, <1>7
<1>9. PICK R \in SUBSET S : R = (T \ {z}) \ {x} /\ R = (T \ {x}) \ {z}
  BY <1>3, <1>4
<1>10. /\ Sum(T \ {z}) = f[x] + Sum(R)
       /\ Sum(T \ {x}) = f[z] + Sum(R)
  BY <1>3, <1>4, <1>7, <1>8, <1>9 DEF F
<1>11. f[x] \in Int /\ f[z] \in Int /\ Sum(R) \in Int
  BY <1>1, <1>3, <1>4, <1>5, <1>6, <1>9 DEF SumRuns
<1> QED BY <1>5, <1>6, <1>10, <1>11

\* A sum depends on the values summed only.
LEMMA SumSame ==
  ASSUME NEW S, IsFiniteSet(S), NEW f, NEW g,
         \A x \in S : f[x] \in Int /\ g[x] = f[x]
  PROVE  SumFunctionOnSet(g, S) = SumFunctionOnSet(f, S)
<1> DEFINE F == {T \in SUBSET S : SumFunctionOnSet(g, T) # SumFunctionOnSet(f, T)}
<1>1. SumRuns(f, S)
  BY SumRecurs
<1>2. \A x \in S : g[x] \in Int
  OBVIOUS
<1>3. SUFFICES ASSUME F # {} PROVE FALSE
  OBVIOUS
<1>4. F \in SUBSET SUBSET S
  OBVIOUS
<1> HIDE DEF F
<1>5. PICK T \in F : \A U \in F : ~(U \subseteq T /\ U # T)
  BY <1>3, <1>4, SmallestSubset
<1>6. IsFiniteSet(T) /\ T \in SUBSET S
  BY <1>4, <1>5, FS_Subset
<1>7. SumRuns(g, S)
  BY <1>2, SumRecurs
<1>8. T # {}
  BY <1>1, <1>5, <1>6, <1>7 DEF F, SumRuns
<1>9. PICK x \in T : SumFunctionOnSet(f, T) = f[x] + SumFunctionOnSet(f, T \ {x})
  BY <1>1, <1>6, <1>8 DEF SumRuns
<1>10. \A y \in T : g[y] \in Int
  BY <1>2, <1>6
<1>11. SumFunctionOnSet(g, T) = g[x] + SumFunctionOnSet(g, T \ {x})
  BY <1>6, <1>10, SumTakes
<1>12. T \ {x} \notin F
  BY <1>5
<1> QED BY <1>5, <1>6, <1>9, <1>11, <1>12 DEF F

\* One value changed changes the sum by as much.
LEMMA SumChanges ==
  ASSUME NEW S, IsFiniteSet(S), NEW f, NEW g, NEW y \in S,
         \A x \in S : f[x] \in Int /\ g[x] \in Int,
         \A x \in S \ {y} : g[x] = f[x]
  PROVE  SumFunctionOnSet(g, S) = SumFunctionOnSet(f, S) + g[y] - f[y]
<1>1. IsFiniteSet(S \ {y})
  BY FS_RemoveElement
<1>2. \A x \in S \ {y} : f[x] \in Int /\ g[x] = f[x]
  OBVIOUS
<1>3. SumFunctionOnSet(g, S \ {y}) = SumFunctionOnSet(f, S \ {y})
  BY <1>1, <1>2, SumSame
<1>4. SumRuns(f, S)
  BY SumRecurs
<1>5. SumFunctionOnSet(f, S \ {y}) \in Int
  BY <1>4 DEF SumRuns
<1>6. \A x \in S : f[x] \in Int
  OBVIOUS
<1>7. SumFunctionOnSet(f, S) = f[y] + SumFunctionOnSet(f, S \ {y})
  BY <1>6, SumTakes
<1>8. \A x \in S : g[x] \in Int
  OBVIOUS
<1>9. SumFunctionOnSet(g, S) = g[y] + SumFunctionOnSet(g, S \ {y})
  BY <1>8, SumTakes
<1> QED BY <1>3, <1>5, <1>7, <1>9

\* A sum of nothing but zeros is zero.
LEMMA SumOfZeros ==
  ASSUME NEW S, IsFiniteSet(S), NEW f, \A x \in S : f[x] = 0
  PROVE  SumFunctionOnSet(f, S) = 0
<1> DEFINE F == {T \in SUBSET S : SumFunctionOnSet(f, T) # 0}
<1>1. SumRuns(f, S)
  <2>1. \A x \in S : f[x] \in Int
    OBVIOUS
  <2> QED BY <2>1, SumRecurs
<1>2. SUFFICES ASSUME F # {} PROVE FALSE
  OBVIOUS
<1>3. F \in SUBSET SUBSET S
  OBVIOUS
<1> HIDE DEF F
<1>4. PICK T \in F : \A U \in F : ~(U \subseteq T /\ U # T)
  BY <1>2, <1>3, SmallestSubset
<1>5. T \in SUBSET S /\ T # {}
  BY <1>1, <1>3, <1>4 DEF F, SumRuns
<1>6. PICK x \in T : SumFunctionOnSet(f, T) = f[x] + SumFunctionOnSet(f, T \ {x})
  BY <1>1, <1>5 DEF SumRuns
<1>7. T \ {x} \notin F
  BY <1>4
<1> QED BY <1>4, <1>5, <1>6, <1>7 DEF F

\* A sum of natural numbers is one, and at least each of them.
LEMMA SumBounds ==
  ASSUME NEW S, IsFiniteSet(S), NEW f, \A x \in S : f[x] \in Nat
  PROVE  /\ SumFunctionOnSet(f, S) \in Nat
         /\ \A x \in S : f[x] <= SumFunctionOnSet(f, S)
<1> DEFINE F == {T \in SUBSET S : SumFunctionOnSet(f, T) \notin Nat}
<1>1. \A x \in S : f[x] \in Int
  OBVIOUS
<1>2. SumRuns(f, S)
  BY <1>1, SumRecurs
<1>3. F = {}
  <2>1. SUFFICES ASSUME F # {} PROVE FALSE
    OBVIOUS
  <2>2. F \in SUBSET SUBSET S
    OBVIOUS
  <2> HIDE DEF F
  <2>3. PICK T \in F : \A U \in F : ~(U \subseteq T /\ U # T)
    BY <2>1, <2>2, SmallestSubset
  <2>4. T \in SUBSET S /\ T # {}
    BY <1>2, <2>2, <2>3 DEF F, SumRuns
  <2>5. PICK x \in T : SumFunctionOnSet(f, T) = f[x] + SumFunctionOnSet(f, T \ {x})
    BY <1>2, <2>4 DEF SumRuns
  <2>6. T \ {x} \notin F
    BY <2>3
  <2> QED BY <2>3, <2>4, <2>5, <2>6 DEF F
<1>4. ASSUME NEW x \in S PROVE f[x] <= SumFunctionOnSet(f, S)
  <2>1. SumFunctionOnSet(f, S) = f[x] + SumFunctionOnSet(f, S \ {x})
    BY <1>1, SumTakes
  <2>2. SumFunctionOnSet(f, S \ {x}) \in Nat
    BY <1>3
  <2> QED BY <2>1, <2>2
<1> QED BY <1>3, <1>4

\* The same of the values of a function, for a function that counts.
LEMMA CountSum ==
  ASSUME NEW S, IsFiniteSet(S), NEW f \in [S -> Nat]
  PROVE  SumFunction(f) \in Nat /\ \A x \in S : f[x] <= SumFunction(f)
<1>1. \A x \in S : f[x] \in Nat
  OBVIOUS
<1>2. SumFunction(f) = SumFunctionOnSet(f, S)
  BY DEF SumFunction
<1> QED BY <1>1, <1>2, SumBounds

\* Changed at one place, it counts the difference.
LEMMA CountChanges ==
  ASSUME NEW S, IsFiniteSet(S), NEW f \in [S -> Nat], NEW g \in [S -> Nat],
         NEW y \in S, \A x \in S \ {y} : g[x] = f[x]
  PROVE  SumFunction(g) = SumFunction(f) + g[y] - f[y]
<1>1. \A x \in S : f[x] \in Int /\ g[x] \in Int
  OBVIOUS
<1>2. /\ SumFunction(f) = SumFunctionOnSet(f, S)
      /\ SumFunction(g) = SumFunctionOnSet(g, S)
  BY DEF SumFunction
<1> QED BY <1>1, <1>2, SumChanges

\* Where it counts nothing the sum is zero.
LEMMA CountNothing ==
  ASSUME NEW S, IsFiniteSet(S), NEW f \in [S -> Nat], \A x \in S : f[x] = 0
  PROVE  SumFunction(f) = 0
<1>1. SumFunction(f) = SumFunctionOnSet(f, S)
  BY DEF SumFunction
<1> QED BY <1>1, SumOfZeros
=============================================================================
