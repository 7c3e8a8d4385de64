------------------------------- MODULE Totals --------------------------------
(***************************************************************************)
(* What MapThenSumSet of the community modules computes for a function on a*)
(* finite set: the facts about sums of accounts that the proofs about      *)
(* supplies, counters and budgets rest on.  The operator is a fold, a      *)
(* recursive function in a LET; that such a function exists, and that the  *)
(* order in which elements are picked does not matter, is proved here.     *)
(*                                                                         *)
(* The arguments go by a smallest counterexample: of the subsets for which *)
(* a fact fails take a minimal one, which is a first-order statement.      *)
(***************************************************************************)
EXTENDS FiniteSetsExt, FiniteSetTheorems, TLAPS

(* The sum of f over S.                                                     *)
Total(f, S) == MapThenSumSet(LAMBDA x : f[x], S)

Pick(s) == CHOOSE x \in s : TRUE

(* The fold's equation, and the function its LET denotes.                   *)
IsSum(g, f, S) ==
  g = [s \in SUBSET S |-> IF s = {} THEN 0 ELSE f[Pick(s)] + g[s \ {Pick(s)}]]

FoldOf(f, S) == CHOOSE g : IsSum(g, f, S)

-----------------------------------------------------------------------------
(* The fold is well defined *)

(* TotalIsFold: Total is that function at the whole set.                    *)
LEMMA TotalIsFold ==
  ASSUME NEW f, NEW S
  PROVE  Total(f, S) = FoldOf(f, S)[S]
BY DEF Total, FoldOf, IsSum, Pick, MapThenSumSet, MapThenFoldSet

(* PickIsMember: of a set that is not empty, a member is picked.            *)
LEMMA PickIsMember ==
  ASSUME NEW S, S # {}
  PROVE  Pick(S) \in S
BY DEF Pick

(* MinimalSubset: a collection of subsets of a finite set has a member that *)
(* contains no other.                                                       *)
LEMMA MinimalSubset ==
  ASSUME NEW S, IsFiniteSet(S), NEW B \in SUBSET (SUBSET S), B # {}
  PROVE  \E m \in B : \A t \in B : t \subseteq m => t = m
<1>1. IsWellFoundedOn(StrictSubsetOrdering(S), SUBSET S)
  BY FS_StrictSubsetOrderingWellFounded, FS_FiniteSubsetsOfFinite
<1>2. PICK m \in B : \A t \in B : ~ (<<t, m>> \in StrictSubsetOrdering(S))
  BY <1>1, WFMin
<1>3. ASSUME NEW t \in B, t \subseteq m, t # m
      PROVE  FALSE
  <2>1. <<t, m>> \in (SUBSET S) \X (SUBSET S)
    OBVIOUS
  <2>2. <<t, m>> \in StrictSubsetOrdering(S)
    BY <1>3, <2>1 DEF StrictSubsetOrdering
  <2> QED
    BY <1>2, <2>2
<1> QED
  BY <1>3

(* SumsAgree: solutions over a set and over a subset agree on the latter.   *)
LEMMA SumsAgree ==
  ASSUME NEW S, IsFiniteSet(S), NEW R \in SUBSET S, NEW f,
         NEW g, IsSum(g, f, S), NEW h, IsSum(h, f, R)
  PROVE  \A T \in SUBSET R : g[T] = h[T]
<1> DEFINE B == {T \in SUBSET R : g[T] # h[T]}
<1> SUFFICES ASSUME B # {}
             PROVE  FALSE
  OBVIOUS
<1>1. PICK m \in B : \A t \in B : t \subseteq m => t = m
  <2>1. B \in SUBSET (SUBSET S)
    OBVIOUS
  <2> HIDE DEF B
  <2> QED
    BY <2>1, MinimalSubset
<1>2. m \in SUBSET R /\ m \in SUBSET S /\ g[m] # h[m]
  OBVIOUS
<1>3. /\ g[m] = IF m = {} THEN 0 ELSE f[Pick(m)] + g[m \ {Pick(m)}]
      /\ h[m] = IF m = {} THEN 0 ELSE f[Pick(m)] + h[m \ {Pick(m)}]
  BY <1>2 DEF IsSum
<1>4. m # {}
  BY <1>2, <1>3
<1>5. Pick(m) \in m
  BY <1>4, PickIsMember
<1>6. m \ {Pick(m)} \notin B
  BY <1>1, <1>5
<1>7. g[m \ {Pick(m)}] = h[m \ {Pick(m)}]
  BY <1>2, <1>6
<1> QED
  BY <1>2, <1>3, <1>7

(* SumExists: over every finite set the equation has a solution.            *)
LEMMA SumExists ==
  ASSUME NEW S, IsFiniteSet(S), NEW f
  PROVE  IsSum(FoldOf(f, S), f, S)
<1> DEFINE B == {T \in SUBSET S : ~ IsSum(FoldOf(f, T), f, T)}
<1>0. B = {} => IsSum(FoldOf(f, S), f, S)
  OBVIOUS
<1> SUFFICES ASSUME B # {}
             PROVE  FALSE
  BY <1>0
<1>1. PICK T \in B : \A t \in B : t \subseteq T => t = T
  <2>1. B \in SUBSET (SUBSET S)
    OBVIOUS
  <2> HIDE DEF B
  <2> QED
    BY <2>1, MinimalSubset
<1>2. \A U \in SUBSET T : U # T => IsSum(FoldOf(f, U), f, U)
  BY <1>1
<1> DEFINE part(s) == FoldOf(f, s \ {Pick(s)})[s \ {Pick(s)}]
           g == [s \in SUBSET T |-> IF s = {} THEN 0 ELSE f[Pick(s)] + part(s)]
<1>3. ASSUME NEW r \in SUBSET T, r # T
      PROVE  g[r] = FoldOf(f, r)[r]
  <2>1. IsSum(FoldOf(f, r), f, r)
    BY <1>2, <1>3
  <2>2. FoldOf(f, r)[r]
          = IF r = {} THEN 0 ELSE f[Pick(r)] + FoldOf(f, r)[r \ {Pick(r)}]
    BY <2>1 DEF IsSum
  <2>3. CASE r = {}
    BY <2>2, <2>3
  <2>4. CASE r # {}
    <3> DEFINE q == r \ {Pick(r)}
    <3>1. Pick(r) \in r
      BY <2>4, PickIsMember
    <3>2. q \in SUBSET r /\ q \in SUBSET T /\ q # T
      BY <1>3
    <3>3. IsSum(FoldOf(f, q), f, q)
      BY <1>2, <3>2
    <3>4. IsFiniteSet(r)
      BY <1>1, FS_Subset
    <3> HIDE DEF g
    <3>5. FoldOf(f, r)[q] = FoldOf(f, q)[q]
      <4>1. \A U \in SUBSET q : FoldOf(f, r)[U] = FoldOf(f, q)[U]
        BY <2>1, <3>2, <3>3, <3>4, SumsAgree
      <4> QED
        BY <4>1
    <3>6. g[r] = f[Pick(r)] + FoldOf(f, q)[q]
      BY <2>4 DEF g
    <3> QED
      BY <2>2, <2>4, <3>5, <3>6
  <2> QED
    BY <2>3, <2>4
<1>4. ASSUME NEW s \in SUBSET T, s # {}
      PROVE  part(s) = g[s \ {Pick(s)}]
  <2>1. Pick(s) \in s
    BY <1>4, PickIsMember
  <2>2. s \ {Pick(s)} \in SUBSET T /\ s \ {Pick(s)} # T
    BY <2>1
  <2> HIDE DEF g
  <2> QED
    BY <1>3, <2>2
<1>5. IsSum(g, f, T)
  <2>1. g = [s \in SUBSET T |-> IF s = {} THEN 0 ELSE f[Pick(s)] + g[s \ {Pick(s)}]]
    <3> DEFINE h == [s \in SUBSET T |-> IF s = {} THEN 0 ELSE f[Pick(s)] + g[s \ {Pick(s)}]]
    <3>1. \A s \in SUBSET T : g[s] = IF s = {} THEN 0 ELSE f[Pick(s)] + part(s)
      OBVIOUS
    <3>2. DOMAIN g = SUBSET T /\ g = [s \in SUBSET T |-> g[s]]
      OBVIOUS
    <3>2a. \A s \in SUBSET T : g[s] = IF s = {} THEN 0 ELSE f[Pick(s)] + g[s \ {Pick(s)}]
      <4> HIDE DEF g, part
      <4> QED
        BY <1>4, <3>1
    <3> HIDE DEF g, part
    <3>3. \A s \in SUBSET T : g[s] = h[s]
      BY <3>2a
    <3> QED
      BY <3>2, <3>3
  <2> HIDE DEF g
  <2> QED
    BY <2>1 DEF IsSum
<1> HIDE DEF g
<1>6. IsSum(FoldOf(f, T), f, T)
  BY <1>5 DEF FoldOf
<1> QED
  BY <1>1, <1>6

-----------------------------------------------------------------------------
(* What a total is *)

(* TotalOfNone: nothing sums to zero.                                       *)
LEMMA TotalOfNone ==
  ASSUME NEW f
  PROVE  Total(f, {}) = 0
<1>1. IsSum(FoldOf(f, {}), f, {})
  BY FS_EmptySet, SumExists
<1> QED
  BY <1>1, TotalIsFold DEF IsSum

(* TotalPicks: the sum of the element picked first and of the rest.         *)
LEMMA TotalPicks ==
  ASSUME NEW S, IsFiniteSet(S), S # {}, NEW f
  PROVE  Pick(S) \in S /\ Total(f, S) = f[Pick(S)] + Total(f, S \ {Pick(S)})
<1> DEFINE R == S \ {Pick(S)}
<1>1. Pick(S) \in S
  BY PickIsMember
<1>2. IsSum(FoldOf(f, S), f, S)
  BY SumExists
<1>3. IsFiniteSet(R)
  BY FS_Subset
<1>4. IsSum(FoldOf(f, R), f, R)
  BY <1>3, SumExists
<1>5. \A T \in SUBSET R : FoldOf(f, S)[T] = FoldOf(f, R)[T]
  BY <1>2, <1>4, SumsAgree
<1>6. FoldOf(f, S)[S] = f[Pick(S)] + FoldOf(f, S)[R]
  BY <1>2 DEF IsSum
<1>7. FoldOf(f, S)[R] = FoldOf(f, R)[R]
  BY <1>5
<1> QED
  BY <1>1, <1>6, <1>7, TotalIsFold

(* TotalIsInt: integers sum to an integer.                                  *)
LEMMA TotalIsInt ==
  ASSUME NEW S, IsFiniteSet(S), NEW f, \A x \in S : f[x] \in Int
  PROVE  Total(f, S) \in Int
<1> DEFINE B == {T \in SUBSET S : Total(f, T) \notin Int}
<1>0. B = {} => Total(f, S) \in Int
  OBVIOUS
<1> SUFFICES ASSUME B # {}
             PROVE  FALSE
  BY <1>0
<1>1. PICK T \in B : \A t \in B : t \subseteq T => t = T
  <2>1. B \in SUBSET (SUBSET S)
    OBVIOUS
  <2> HIDE DEF B
  <2> QED
    BY <2>1, MinimalSubset
<1>2. T # {}
  <2>1. Total(f, {}) \in Int
    BY TotalOfNone
  <2> QED
    BY <2>1
<1>3. IsFiniteSet(T)
  BY <1>1, FS_Subset
<1>4. Pick(T) \in T /\ Total(f, T) = f[Pick(T)] + Total(f, T \ {Pick(T)})
  BY <1>2, <1>3, TotalPicks
<1>5. T \ {Pick(T)} \in SUBSET S /\ T \ {Pick(T)} # T
  BY <1>4
<1>6. Total(f, T \ {Pick(T)}) \in Int
  <2>1. T \ {Pick(T)} \notin B
    <3> HIDE DEF B
    <3> QED
      BY <1>1, <1>5
  <2> QED
    BY <1>5, <2>1
<1>7. f[Pick(T)] \in Int
  BY <1>1, <1>4
<1>8. Total(f, T) \in Int
  BY <1>4, <1>6, <1>7
<1> QED
  BY <1>1, <1>8

(* TotalSplits: whichever element is set apart, the total is that element   *)
(* and the total of the rest.                                               *)
LEMMA TotalSplits ==
  ASSUME NEW S, IsFiniteSet(S), NEW f, \A x \in S : f[x] \in Int
  PROVE  \A x \in S : Total(f, S) = f[x] + Total(f, S \ {x})
<1> DEFINE B == {T \in SUBSET S : \E x \in T : Total(f, T) # f[x] + Total(f, T \ {x})}
<1>0. B = {} => \A x \in S : Total(f, S) = f[x] + Total(f, S \ {x})
  OBVIOUS
<1> SUFFICES ASSUME B # {}
             PROVE  FALSE
  BY <1>0
<1>1. PICK T \in B : \A t \in B : t \subseteq T => t = T
  <2>1. B \in SUBSET (SUBSET S)
    OBVIOUS
  <2> HIDE DEF B
  <2> QED
    BY <2>1, MinimalSubset
<1>2. T \in SUBSET S /\ T # {}
  OBVIOUS
<1>3. PICK x \in T : Total(f, T) # f[x] + Total(f, T \ {x})
  OBVIOUS
<1>4. \A U \in SUBSET S : U \notin B => \A y \in U : Total(f, U) = f[y] + Total(f, U \ {y})
  OBVIOUS
<1> HIDE DEF B
<1>5. \A U \in SUBSET S : IsFiniteSet(U)
  BY FS_Subset
<1>6. PICK p \in T : p = Pick(T) /\ Total(f, T) = f[p] + Total(f, T \ {p})
  BY <1>2, <1>5, TotalPicks
<1>7. p # x
  BY <1>3, <1>6
<1> DEFINE R == T \ {x}
           U == T \ {p}
           V == T \ {x, p}
<1>8. R \in SUBSET S /\ U \in SUBSET S /\ V \in SUBSET S /\ p \in R /\ x \in U
      /\ R \ {p} = V /\ U \ {x} = V
  BY <1>2, <1>7
<1>9. R \notin B /\ U \notin B
  BY <1>1
<1> HIDE DEF R, U, V
<1>10. Total(f, U) = f[x] + Total(f, V)
  BY <1>4, <1>8, <1>9
<1>11. Total(f, R) = f[p] + Total(f, V)
  BY <1>4, <1>8, <1>9
<1>12. f[x] \in Int /\ f[p] \in Int
  BY <1>2
<1>13. Total(f, V) \in Int
  <2>1. \A y \in V : f[y] \in Int
    BY <1>8
  <2> QED
    BY <1>5, <1>8, <2>1, TotalIsInt
<1>14. Total(f, T) = f[x] + Total(f, R)
  BY <1>6, <1>10, <1>11, <1>12, <1>13 DEF U
<1> QED
  BY <1>3, <1>14 DEF R

(* TotalOfSame: only the values on the set matter.                          *)
LEMMA TotalOfSame ==
  ASSUME NEW S, IsFiniteSet(S), NEW f, NEW g, \A x \in S : f[x] = g[x]
  PROVE  Total(f, S) = Total(g, S)
<1> DEFINE B == {T \in SUBSET S : Total(f, T) # Total(g, T)}
<1>0. B = {} => Total(f, S) = Total(g, S)
  OBVIOUS
<1> SUFFICES ASSUME B # {}
             PROVE  FALSE
  BY <1>0
<1>1. PICK T \in B : \A t \in B : t \subseteq T => t = T
  <2>1. B \in SUBSET (SUBSET S)
    OBVIOUS
  <2> HIDE DEF B
  <2> QED
    BY <2>1, MinimalSubset
<1>2. T # {}
  BY <1>1, TotalOfNone
<1>3. IsFiniteSet(T)
  BY <1>1, FS_Subset
<1>4. /\ Pick(T) \in T
      /\ Total(f, T) = f[Pick(T)] + Total(f, T \ {Pick(T)})
      /\ Total(g, T) = g[Pick(T)] + Total(g, T \ {Pick(T)})
  BY <1>2, <1>3, TotalPicks
<1>5. f[Pick(T)] = g[Pick(T)]
  BY <1>1, <1>4
<1>6. Total(f, T \ {Pick(T)}) = Total(g, T \ {Pick(T)})
  BY <1>1, <1>4
<1>7. Total(f, T) = Total(g, T)
  BY <1>4, <1>5, <1>6
<1> QED
  BY <1>1, <1>7

(* TotalOfZeros: zeros sum to zero.                                         *)
LEMMA TotalOfZeros ==
  ASSUME NEW S, IsFiniteSet(S), NEW f, \A x \in S : f[x] = 0
  PROVE  Total(f, S) = 0
<1> DEFINE B == {T \in SUBSET S : Total(f, T) # 0}
<1>0. B = {} => Total(f, S) = 0
  OBVIOUS
<1> SUFFICES ASSUME B # {}
             PROVE  FALSE
  BY <1>0
<1>1. PICK T \in B : \A t \in B : t \subseteq T => t = T
  <2>1. B \in SUBSET (SUBSET S)
    OBVIOUS
  <2> HIDE DEF B
  <2> QED
    BY <2>1, MinimalSubset
<1>2. T # {}
  BY <1>1, TotalOfNone
<1>3. IsFiniteSet(T)
  BY <1>1, FS_Subset
<1>4. Pick(T) \in T /\ Total(f, T) = f[Pick(T)] + Total(f, T \ {Pick(T)})
  BY <1>2, <1>3, TotalPicks
<1>5. f[Pick(T)] = 0 /\ Total(f, T \ {Pick(T)}) = 0
  BY <1>1, <1>4
<1>6. Total(f, T) = 0
  BY <1>4, <1>5
<1> QED
  BY <1>1, <1>6

(* TotalIsNat: naturals sum to a natural.                                   *)
LEMMA TotalIsNat ==
  ASSUME NEW S, IsFiniteSet(S), NEW f, \A x \in S : f[x] \in Nat
  PROVE  Total(f, S) \in Nat
<1> DEFINE B == {T \in SUBSET S : Total(f, T) \notin Nat}
<1>0. B = {} => Total(f, S) \in Nat
  OBVIOUS
<1> SUFFICES ASSUME B # {}
             PROVE  FALSE
  BY <1>0
<1>1. PICK T \in B : \A t \in B : t \subseteq T => t = T
  <2>1. B \in SUBSET (SUBSET S)
    OBVIOUS
  <2> HIDE DEF B
  <2> QED
    BY <2>1, MinimalSubset
<1>2. T # {}
  <2>1. Total(f, {}) \in Nat
    BY TotalOfNone
  <2> QED
    BY <2>1
<1>3. IsFiniteSet(T)
  BY <1>1, FS_Subset
<1>4. Pick(T) \in T /\ Total(f, T) = f[Pick(T)] + Total(f, T \ {Pick(T)})
  BY <1>2, <1>3, TotalPicks
<1>5. f[Pick(T)] \in Nat /\ Total(f, T \ {Pick(T)}) \in Nat
  <2>1. T \ {Pick(T)} \in SUBSET S /\ T \ {Pick(T)} # T
    BY <1>1, <1>4
  <2>2. T \ {Pick(T)} \notin B
    <3> HIDE DEF B
    <3> QED
      BY <1>1, <2>1
  <2> QED
    BY <1>1, <1>4, <2>1, <2>2
<1>6. Total(f, T) \in Nat
  BY <1>4, <1>5
<1> QED
  BY <1>1, <1>6

-----------------------------------------------------------------------------
(* How a step moves a total *)

(* TotalAfterOne: when one account changes, the total moves by as much.     *)
THEOREM TotalAfterOne ==
  ASSUME NEW S, IsFiniteSet(S), NEW x \in S, NEW n \in Int,
         NEW f, \A y \in S : f[y] \in Int,
         NEW g, g[x] = f[x] + n, \A y \in S \ {x} : g[y] = f[y]
  PROVE  Total(f, S) \in Int /\ Total(g, S) = Total(f, S) + n
<1>1. Total(f, S) = f[x] + Total(f, S \ {x})
  BY TotalSplits
<1>2. Total(g, S) = g[x] + Total(g, S \ {x})
  <2>1. \A y \in S : g[y] \in Int
    OBVIOUS
  <2> QED
    BY <2>1, TotalSplits
<1>3. IsFiniteSet(S \ {x})
  BY FS_Subset
<1>4. Total(g, S \ {x}) = Total(f, S \ {x})
  BY <1>3, TotalOfSame
<1>5. Total(f, S \ {x}) \in Int
  <2>1. \A y \in S \ {x} : f[y] \in Int
    OBVIOUS
  <2> QED
    BY <1>3, <2>1, TotalIsInt
<1> QED
  BY <1>1, <1>2, <1>4, <1>5

(* TotalAfterMove: what one account gives another, the total does not see.  *)
THEOREM TotalAfterMove ==
  ASSUME NEW S, IsFiniteSet(S), NEW x \in S, NEW z \in S, x # z, NEW n \in Int,
         NEW f, \A y \in S : f[y] \in Int,
         NEW g, g[x] = f[x] - n, g[z] = f[z] + n, \A y \in S \ {x, z} : g[y] = f[y]
  PROVE  Total(g, S) = Total(f, S)
<1> DEFINE h == [y \in S |-> IF y = x THEN f[x] + (-n) ELSE f[y]]
<1>1. h[x] = f[x] + (-n) /\ -n \in Int /\ \A y \in S \ {x} : h[y] = f[y]
  OBVIOUS
<1>2. \A y \in S : h[y] \in Int
  OBVIOUS
<1>3. g[z] = h[z] + n /\ \A y \in S \ {z} : g[y] = h[y]
  OBVIOUS
<1> HIDE DEF h
<1>4. Total(f, S) \in Int /\ Total(h, S) = Total(f, S) + (-n)
  BY <1>1, TotalAfterOne
<1>5. Total(g, S) = Total(h, S) + n
  BY <1>2, <1>3, TotalAfterOne
<1> QED
  BY <1>4, <1>5

(* TotalAfterNew: one element more, and nothing else moved: the sum grows   *)
(* by what the new element counts, and the count of elements by one.        *)
THEOREM TotalAfterNew ==
  ASSUME NEW S, IsFiniteSet(S), NEW x, x \notin S, NEW f, \A y \in S : f[y] \in Int,
         NEW g, g[x] \in Int, \A y \in S : g[y] = f[y]
  PROVE  /\ Cardinality(S \cup {x}) = Cardinality(S) + 1
         /\ Total(g, S \cup {x}) = Total(f, S) + g[x]
<1> DEFINE T == S \cup {x}
<1>1. IsFiniteSet(T) /\ Cardinality(T) = Cardinality(S) + 1
  BY FS_AddElement
<1>2. x \in T /\ T \ {x} = S /\ \A y \in T : g[y] \in Int
  OBVIOUS
<1> HIDE DEF T
<1>3. Total(g, T) = g[x] + Total(g, S)
  BY <1>1, <1>2, TotalSplits
<1>4. Total(g, S) = Total(f, S)
  BY TotalOfSame
<1>5. Total(f, S) \in Int
  BY TotalIsInt
<1> QED
  BY <1>1, <1>3, <1>4, <1>5 DEF T

(* TotalIsAtLeast: naturals sum to at least each of them.                   *)
THEOREM TotalIsAtLeast ==
  ASSUME NEW S, IsFiniteSet(S), NEW f, \A y \in S : f[y] \in Nat, NEW x \in S
  PROVE  Total(f, S) \in Nat /\ f[x] <= Total(f, S)
<1>1. Total(f, S) = f[x] + Total(f, S \ {x})
  <2>1. \A y \in S : f[y] \in Int
    OBVIOUS
  <2> QED
    BY <2>1, TotalSplits
<1>2. Total(f, S \ {x}) \in Nat
  <2>1. IsFiniteSet(S \ {x}) /\ \A y \in S \ {x} : f[y] \in Nat
    BY FS_Subset
  <2> QED
    BY <2>1, TotalIsNat
<1> QED
  BY <1>1, <1>2
=============================================================================
