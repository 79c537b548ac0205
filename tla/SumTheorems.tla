----------------------------- MODULE SumTheorems -----------------------------
(***************************************************************************)
(* What the sum of an integer-valued function over a finite set is:        *)
(* SumFunctionOnSet of the community modules, which the other modules use  *)
(* for payments of an invoice, movements of a stock level and units of an  *)
(* order.  The fold behind it is defined by recursion over the subsets of  *)
(* the set; each fact is proved by considering a smallest counterexample,  *)
(* which exists because finite sets are well-founded by strict inclusion.  *)
(***************************************************************************)
EXTENDS Integers, Functions, FiniteSetTheorems, TLAPS

Pick(s) == CHOOSE x \in s : TRUE

(* The function sum is what the fold computes, for every set in D.         *)
Computes(sum, f, D) ==
  \A s \in D : sum[s] = IF s = {} THEN 0 ELSE f[Pick(s)] + sum[s \ {Pick(s)}]

-----------------------------------------------------------------------------
LEMMA PickIsElement == ASSUME NEW s, s # {} PROVE Pick(s) \in s
BY DEF Pick

(* Among finite sets, there is one that contains no other.                 *)
LEMMA SmallestSet ==
  ASSUME NEW S, IsFiniteSet(S), NEW D, D \subseteq SUBSET S, D # {}
  PROVE  \E s \in D : \A t \in D : t \subseteq s => t = s
<1>1. SUBSET S = FiniteSubsetsOf(S)
  BY FS_Subset DEF FiniteSubsetsOf
<1>2. IsWellFoundedOn(StrictSubsetOrdering(S), SUBSET S)
  BY <1>1, FS_StrictSubsetOrderingWellFounded
<1>3. PICK s \in D : \A t \in D : ~(<<t, s>> \in StrictSubsetOrdering(S))
  BY <1>2, WFMin
<1>4. \A t \in D : t \subseteq s /\ t # s => <<t, s>> \in StrictSubsetOrdering(S)
  BY DEF StrictSubsetOrdering
<1>5. ASSUME NEW t \in D, t \subseteq s PROVE t = s
  BY <1>3, <1>4, <1>5, Zenon
<1> QED
  BY <1>5, Zenon

LEMMA NoNewSum ==
  ASSUME NEW S, IsFiniteSet(S), NEW T \in SUBSET S, NEW f, NEW g, NEW h,
         Computes(g, f, SUBSET T), Computes(h, f, SUBSET S)
  PROVE  g[T] = h[T]
<1> DEFINE D == {s \in SUBSET T : g[s] # h[s]}
<1> SUFFICES ASSUME D # {} PROVE FALSE
  OBVIOUS
<1>2. PICK s \in D : \A t \in D : t \subseteq s => t = s
  <2>1. D \subseteq SUBSET S
    OBVIOUS
  <2> HIDE DEF D
  <2> QED
    BY <2>1, SmallestSet
<1>3. s # {}
  BY DEF Computes
<1>4. s \ {Pick(s)} \in SUBSET T /\ s \ {Pick(s)} # s
  BY <1>3, PickIsElement
<1>5. g[s \ {Pick(s)}] = h[s \ {Pick(s)}]
  BY <1>2, <1>4
<1> QED
  BY <1>3, <1>5 DEF Computes

(* Every finite set has a sum: a smallest set without one would get one    *)
(* from the sums of its strict subsets.                                    *)
LEMMA EverySetHasSum ==
  ASSUME NEW S, IsFiniteSet(S), NEW f, \A x \in S : f[x] \in Int
  PROVE  \E sum \in [SUBSET S -> Int] : Computes(sum, f, SUBSET S)
<1> DEFINE Good(Z) == \E sum \in [SUBSET Z -> Int] : Computes(sum, f, SUBSET Z)
           D == {Z \in SUBSET S : ~Good(Z)}
<1> SUFFICES ASSUME D # {} PROVE FALSE
  OBVIOUS
<1>1. PICK X \in D : \A Z \in D : Z \subseteq X => Z = X
  <2>1. D \subseteq SUBSET S
    OBVIOUS
  <2> HIDE DEF D
  <2> QED
    BY <2>1, SmallestSet
<1> DEFINE of(Z) == CHOOSE sum : sum \in [SUBSET Z -> Int] /\ Computes(sum, f, SUBSET Z)
           sum == [s \in SUBSET X |-> IF s = {} THEN 0
                                     ELSE f[Pick(s)] + of(s \ {Pick(s)})[s \ {Pick(s)}]]
<1>2. ASSUME NEW Z \in SUBSET X, Z # X
      PROVE  of(Z) \in [SUBSET Z -> Int] /\ Computes(of(Z), f, SUBSET Z)
  <2>1. Good(Z)
    BY <1>1, <1>2
  <2> QED
    BY <2>1
<1> HIDE DEF of
<1>3. ASSUME NEW s \in SUBSET X, s # {}
      PROVE  /\ s \ {Pick(s)} \in SUBSET X /\ s \ {Pick(s)} # X
             /\ of(s \ {Pick(s)})[s \ {Pick(s)}] \in Int
             /\ f[Pick(s)] \in Int
  <2>1. Pick(s) \in s /\ Pick(s) \in S
    BY <1>1, <1>3, PickIsElement
  <2>2. s \ {Pick(s)} \in SUBSET X /\ s \ {Pick(s)} # X
    BY <2>1
  <2>3. of(s \ {Pick(s)}) \in [SUBSET (s \ {Pick(s)}) -> Int]
    BY <1>2, <2>2
  <2> QED
    BY <2>1, <2>2, <2>3
<1>4. sum \in [SUBSET X -> Int]
  BY <1>3
<1>5. ASSUME NEW Z \in SUBSET X, Z # X PROVE sum[Z] = of(Z)[Z]
  <2>1. Computes(of(Z), f, SUBSET Z)
    BY <1>2, <1>5
  <2>2. CASE Z = {}
    BY <2>1, <2>2 DEF Computes
  <2>3. CASE Z # {}
    <3> DEFINE Y == Z \ {Pick(Z)}
    <3>1. Y \in SUBSET Z /\ Y \in SUBSET X /\ Y # X
      BY <1>3, <2>3
    <3>2. IsFiniteSet(Z)
      BY <1>1, FS_Subset
    <3>3. of(Y)[Y] = of(Z)[Y]
      <4>1. Computes(of(Y), f, SUBSET Y)
        BY <1>2, <3>1
      <4> HIDE DEF Y
      <4> QED
        BY <2>1, <3>1, <3>2, <4>1, NoNewSum
    <3>4. of(Z)[Z] = f[Pick(Z)] + of(Z)[Y]
      BY <2>1, <2>3 DEF Computes
    <3>5. sum[Z] = f[Pick(Z)] + of(Y)[Y]
      BY <2>3
    <3> QED
      BY <3>3, <3>4, <3>5
  <2> QED
    BY <2>2, <2>3
<1>6. Computes(sum, f, SUBSET X)
  <2> SUFFICES ASSUME NEW s \in SUBSET X
               PROVE  sum[s] = IF s = {} THEN 0 ELSE f[Pick(s)] + sum[s \ {Pick(s)}]
    BY DEF Computes
  <2>1. CASE s = {}
    BY <2>1
  <2>2. CASE s # {}
    <3>1. sum[s \ {Pick(s)}] = of(s \ {Pick(s)})[s \ {Pick(s)}]
      BY <1>3, <1>5, <2>2
    <3> QED
      BY <2>2, <3>1
  <2> QED
    BY <2>1, <2>2
<1>7. Good(X)
  BY <1>4, <1>6
<1> QED
  BY <1>1, <1>7

(* The fold computes it.                                                   *)
LEMMA SumComputes ==
  ASSUME NEW S, IsFiniteSet(S), NEW f, \A x \in S : f[x] \in Int
  PROVE  /\ SumFunctionOnSet(f, S) \in Int
         /\ SumFunctionOnSet(f, S) =
              IF S = {} THEN 0
              ELSE f[Pick(S)] + SumFunctionOnSet(f, S \ {Pick(S)})
<1>1. PICK sum \in [SUBSET S -> Int] : Computes(sum, f, SUBSET S)
  BY EverySetHasSum
<1>2. ASSUME NEW T \in SUBSET S PROVE SumFunctionOnSet(f, T) = sum[T]
  <2> DEFINE Body(g) == [s \in SUBSET T |-> IF s = {} THEN 0 ELSE f[Pick(s)] + g[s \ {Pick(s)}]]
             it == CHOOSE g : g = Body(g)
  <2>1. SumFunctionOnSet(f, T) = it[T]
    BY DEF SumFunctionOnSet, FoldFunctionOnSet, MapThenFoldSet, Pick
  <2>2. \E g : g = Body(g)
    <3> DEFINE g == [s \in SUBSET T |-> sum[s]]
    <3>1. \A s \in SUBSET T : s # {} => s \ {Pick(s)} \in SUBSET T
      OBVIOUS
    <3>2. g = Body(g)
      BY <1>1, <3>1 DEF Computes
    <3> QED
      BY <3>2
  <2>3. it = Body(it)
    BY <2>2
  <2> HIDE DEF it
  <2>4. Computes(it, f, SUBSET T)
    BY <2>3 DEF Computes
  <2> QED
    BY <1>1, <2>1, <2>4, NoNewSum
<1>3. CASE S = {}
  <2>1. S \in SUBSET S
    OBVIOUS
  <2>2. sum[S] = 0
    BY <1>1, <1>3, <2>1 DEF Computes
  <2>3. SumFunctionOnSet(f, S) = 0
    BY <1>2, <2>1, <2>2
  <2> QED
    BY <1>3, <2>3
<1>4. CASE S # {}
  <2>1. S \ {Pick(S)} \in SUBSET S
    OBVIOUS
  <2>2. sum[S] = f[Pick(S)] + sum[S \ {Pick(S)}]
    BY <1>1, <1>4 DEF Computes
  <2> QED
    BY <1>1, <1>2, <1>4, <2>1, <2>2
<1> QED
  BY <1>3, <1>4

-----------------------------------------------------------------------------
(* The sum of no values is zero.                                           *)
LEMMA SumEmpty == ASSUME NEW f PROVE SumFunctionOnSet(f, {}) = 0
<1>1. IsFiniteSet({})
  BY FS_EmptySet
<1> QED
  BY <1>1, SumComputes

LEMMA SumType ==
  ASSUME NEW S, IsFiniteSet(S), NEW f, \A x \in S : f[x] \in Int
  PROVE  SumFunctionOnSet(f, S) \in Int
BY SumComputes

LEMMA SumPick ==
  ASSUME NEW S, IsFiniteSet(S), NEW f, \A x \in S : f[x] \in Int, S # {}
  PROVE  SumFunctionOnSet(f, S) = f[Pick(S)] + SumFunctionOnSet(f, S \ {Pick(S)})
BY SumComputes

(* Any element may be taken out of a sum, not only the one the fold takes: *)
(* addition is associative and commutative.                                *)
LEMMA SumRemove ==
  ASSUME NEW S, IsFiniteSet(S), NEW f, \A x \in S : f[x] \in Int, NEW a \in S
  PROVE  SumFunctionOnSet(f, S) = f[a] + SumFunctionOnSet(f, S \ {a})
<1> DEFINE Sum(T) == SumFunctionOnSet(f, T)
           Good(T) == \A x \in T : Sum(T) = f[x] + Sum(T \ {x})
           D == {T \in SUBSET S : ~Good(T)}
<1> SUFFICES ASSUME D # {} PROVE FALSE
  OBVIOUS
<1>1. PICK T \in D : \A U \in D : U \subseteq T => U = T
  <2>1. D \subseteq SUBSET S
    OBVIOUS
  <2> HIDE DEF D
  <2> QED
    BY <2>1, SmallestSet
<1>2. PICK x \in T : Sum(T) # f[x] + Sum(T \ {x})
  BY <1>1
<1> DEFINE p == Pick(T)
<1>3. p \in T
  BY <1>2, PickIsElement
<1>4. \A U \in SUBSET S : IsFiniteSet(U) /\ Sum(U) \in Int
  BY FS_Subset, SumType
<1>5. Sum(T) = f[p] + Sum(T \ {p})
  BY <1>1, <1>2, <1>4, SumPick
<1>6. x # p
  BY <1>2, <1>5
<1>7. Good(T \ {p}) /\ Good(T \ {x})
  BY <1>1, <1>2, <1>3
<1> HIDE DEF p, Sum
<1>8. Sum(T \ {p}) = f[x] + Sum((T \ {p}) \ {x})
  BY <1>2, <1>6, <1>7
<1>9. Sum(T \ {x}) = f[p] + Sum((T \ {x}) \ {p})
  BY <1>3, <1>6, <1>7
<1>10. (T \ {p}) \ {x} = (T \ {x}) \ {p}
  OBVIOUS
<1>11. f[x] \in Int /\ f[p] \in Int /\ Sum((T \ {x}) \ {p}) \in Int
  BY <1>1, <1>2, <1>3, <1>4
<1>12. Sum(T) = f[p] + (f[x] + Sum((T \ {x}) \ {p}))
  BY <1>5, <1>8, <1>10
<1> QED
  BY <1>2, <1>9, <1>11, <1>12

(* One more element adds its value.                                        *)
LEMMA SumAdd ==
  ASSUME NEW S, IsFiniteSet(S), NEW f, NEW a, a \notin S,
         \A x \in S : f[x] \in Int, f[a] \in Int
  PROVE  SumFunctionOnSet(f, S \cup {a}) = SumFunctionOnSet(f, S) + f[a]
<1> DEFINE T == S \cup {a}
<1>1. IsFiniteSet(T) /\ a \in T /\ T \ {a} = S /\ \A x \in T : f[x] \in Int
  BY FS_AddElement
<1> HIDE DEF T
<1>2. SumFunctionOnSet(f, T) = f[a] + SumFunctionOnSet(f, T \ {a})
  BY <1>1, SumRemove
<1>3. SumFunctionOnSet(f, S) \in Int /\ f[a] \in Int
  BY <1>1, SumType
<1>4. SumFunctionOnSet(f, T) = f[a] + SumFunctionOnSet(f, S)
  BY <1>1, <1>2, Zenon
<1>5. SumFunctionOnSet(f, T) = SumFunctionOnSet(f, S) + f[a]
  BY <1>3, <1>4
<1> USE DEF T
<1> QED
  BY <1>5 DEF T

(* Disjoint sets add up.                                                   *)
LEMMA SumUnion ==
  ASSUME NEW S, IsFiniteSet(S), NEW T, IsFiniteSet(T), NEW f,
         \A x \in S : f[x] \in Int, \A x \in T : f[x] \in Int, S \cap T = {}
  PROVE  SumFunctionOnSet(f, S \cup T) = SumFunctionOnSet(f, S) + SumFunctionOnSet(f, T)
<1> DEFINE Sum(U) == SumFunctionOnSet(f, U)
           Good(U) == Sum(S \cup U) = Sum(S) + Sum(U)
           D == {U \in SUBSET T : ~Good(U)}
<1> SUFFICES ASSUME D # {} PROVE FALSE
  OBVIOUS
<1>1. PICK U \in D : \A V \in D : V \subseteq U => V = U
  <2>1. D \subseteq SUBSET T
    OBVIOUS
  <2> HIDE DEF D
  <2> QED
    BY <2>1, SmallestSet
<1>2. Sum(S) \in Int
  BY SumType
<1>3. U # {}
  <2>1. Sum({}) = 0
    BY SumEmpty
  <2>2. ASSUME U = {} PROVE S \cup U = S
    BY <2>2
  <2>3. ASSUME U = {} PROVE Good(U)
    <3>1. Sum(S \cup U) = Sum(S) /\ Sum(U) = 0
      BY <2>1, <2>2, <2>3, Zenon
    <3> QED
      BY <1>2, <3>1
  <2> QED
    BY <1>1, <2>3
<1>4. PICK a : a \in U
  BY <1>3
<1> DEFINE V == U \ {a}
<1>5. /\ V \in SUBSET T /\ V # U /\ V \subseteq U /\ U = V \cup {a} /\ a \notin V
      /\ S \cup U = (S \cup V) \cup {a} /\ a \notin S \cup V
  BY <1>1, <1>4
<1>6. /\ IsFiniteSet(V) /\ IsFiniteSet(S \cup V)
      /\ f[a] \in Int /\ \A x \in V : f[x] \in Int
      /\ \A x \in S \cup V : f[x] \in Int
  <2>1. IsFiniteSet(V)
    BY <1>5, FS_Subset
  <2>2. IsFiniteSet(S \cup V)
    BY <2>1, FS_Union
  <2> QED
    BY <1>1, <1>4, <2>1, <2>2
<1>7. Good(V)
  BY <1>1, <1>5
<1> HIDE DEF V
<1>8. Sum(V \cup {a}) = Sum(V) + f[a]
  BY <1>5, <1>6, SumAdd
<1>9. Sum((S \cup V) \cup {a}) = Sum(S \cup V) + f[a]
  BY <1>5, <1>6, SumAdd
<1>10. Sum(V) \in Int /\ f[a] \in Int
  BY <1>6, SumType
<1>11. Sum(U) = Sum(V) + f[a] /\ Sum(S \cup U) = Sum(S \cup V) + f[a]
  BY <1>5, <1>8, <1>9, Zenon
<1>12. Good(U)
  BY <1>2, <1>7, <1>10, <1>11
<1> QED
  BY <1>1, <1>12

(* Sums depend only on the values of the elements.                         *)
LEMMA SumSame ==
  ASSUME NEW S, IsFiniteSet(S), NEW f, NEW g,
         \A x \in S : f[x] \in Int /\ g[x] = f[x]
  PROVE  SumFunctionOnSet(g, S) = SumFunctionOnSet(f, S)
<1> DEFINE Good(U) == SumFunctionOnSet(g, U) = SumFunctionOnSet(f, U)
           D == {U \in SUBSET S : ~Good(U)}
<1> SUFFICES ASSUME D # {} PROVE FALSE
  OBVIOUS
<1>1. PICK U \in D : \A V \in D : V \subseteq U => V = U
  <2>1. D \subseteq SUBSET S
    OBVIOUS
  <2> HIDE DEF D
  <2> QED
    BY <2>1, SmallestSet
<1>2. U # {}
  <2>1. SumFunctionOnSet(g, {}) = 0 /\ SumFunctionOnSet(f, {}) = 0
    BY SumEmpty
  <2> QED
    BY <1>1, <2>1
<1>3. PICK a : a \in U
  BY <1>2
<1>4. Good(U \ {a}) /\ IsFiniteSet(U) /\ f[a] = g[a]
  BY <1>1, <1>3, FS_Subset
<1>5. SumFunctionOnSet(g, U) = g[a] + SumFunctionOnSet(g, U \ {a})
  BY <1>1, <1>3, <1>4, SumRemove
<1>6. SumFunctionOnSet(f, U) = f[a] + SumFunctionOnSet(f, U \ {a})
  BY <1>1, <1>3, <1>4, SumRemove
<1> QED
  BY <1>1, <1>4, <1>5, <1>6

(* Natural numbers have a natural sum, and more of them no smaller one.    *)
LEMMA SumNat ==
  ASSUME NEW S, IsFiniteSet(S), NEW f, \A x \in S : f[x] \in Nat
  PROVE  SumFunctionOnSet(f, S) \in Nat
<1> DEFINE D == {U \in SUBSET S : SumFunctionOnSet(f, U) \notin Nat}
<1> SUFFICES ASSUME D # {} PROVE FALSE
  OBVIOUS
<1>1. PICK U \in D : \A V \in D : V \subseteq U => V = U
  <2>1. D \subseteq SUBSET S
    OBVIOUS
  <2> HIDE DEF D
  <2> QED
    BY <2>1, SmallestSet
<1>2. U # {}
  <2>1. SumFunctionOnSet(f, {}) = 0
    BY SumEmpty
  <2>2. U = {} => SumFunctionOnSet(f, U) = 0
    BY <2>1, Zenon
  <2> QED
    BY <1>1, <2>2
<1>3. PICK a : a \in U
  BY <1>2
<1>4. SumFunctionOnSet(f, U \ {a}) \in Nat /\ IsFiniteSet(U) /\ f[a] \in Nat
  BY <1>1, <1>3, FS_Subset
<1>5. SumFunctionOnSet(f, U) = f[a] + SumFunctionOnSet(f, U \ {a})
  BY <1>1, <1>3, <1>4, SumRemove
<1> QED
  BY <1>1, <1>4, <1>5

LEMMA SumGrows ==
  ASSUME NEW T, IsFiniteSet(T), NEW S \in SUBSET T, NEW f, \A x \in T : f[x] \in Nat
  PROVE  SumFunctionOnSet(f, S) <= SumFunctionOnSet(f, T)
<1>1. IsFiniteSet(S) /\ IsFiniteSet(T \ S)
  BY FS_Subset
<1>2. SumFunctionOnSet(f, S) \in Nat /\ SumFunctionOnSet(f, T \ S) \in Nat
  BY <1>1, SumNat
<1> DEFINE R == T \ S
<1>3. /\ S \cap R = {} /\ S \cup R = T
      /\ \A x \in S : f[x] \in Int
      /\ \A x \in R : f[x] \in Int
  OBVIOUS
<1> HIDE DEF R
<1>4. SumFunctionOnSet(f, S \cup R) = SumFunctionOnSet(f, S) + SumFunctionOnSet(f, R)
  BY <1>1, <1>3, SumUnion DEF R
<1>5. SumFunctionOnSet(f, T) = SumFunctionOnSet(f, S) + SumFunctionOnSet(f, R)
  BY <1>3, <1>4, Zenon
<1> QED
  BY <1>2, <1>5 DEF R

(* Where a function is zero but for one argument, that is its sum.         *)
LEMMA SumZero ==
  ASSUME NEW S, IsFiniteSet(S), NEW f, \A x \in S : f[x] = 0
  PROVE  SumFunctionOnSet(f, S) = 0
<1> DEFINE D == {U \in SUBSET S : SumFunctionOnSet(f, U) # 0}
<1> SUFFICES ASSUME D # {} PROVE FALSE
  OBVIOUS
<1>1. PICK U \in D : \A V \in D : V \subseteq U => V = U
  <2>1. D \subseteq SUBSET S
    OBVIOUS
  <2> HIDE DEF D
  <2> QED
    BY <2>1, SmallestSet
<1>2. U # {}
  <2>1. SumFunctionOnSet(f, {}) = 0
    BY SumEmpty
  <2>2. U = {} => SumFunctionOnSet(f, U) = 0
    BY <2>1, Zenon
  <2> QED
    BY <1>1, <2>2
<1>3. PICK a : a \in U
  BY <1>2
<1>4. SumFunctionOnSet(f, U \ {a}) = 0 /\ IsFiniteSet(U) /\ f[a] = 0
  BY <1>1, <1>3, FS_Subset
<1>5. SumFunctionOnSet(f, U) = f[a] + SumFunctionOnSet(f, U \ {a})
  BY <1>1, <1>3, <1>4, SumRemove
<1> QED
  BY <1>1, <1>4, <1>5

LEMMA SumSingle ==
  ASSUME NEW S, IsFiniteSet(S), NEW f, NEW a \in S, f[a] \in Int,
         \A x \in S \ {a} : f[x] = 0
  PROVE  SumFunctionOnSet(f, S) = f[a]
<1>1. \A x \in S : f[x] \in Int
  OBVIOUS
<1>2. SumFunctionOnSet(f, S) = f[a] + SumFunctionOnSet(f, S \ {a})
  BY <1>1, SumRemove
<1>3. SumFunctionOnSet(f, S \ {a}) = 0
  <2>1. IsFiniteSet(S \ {a})
    BY FS_Subset
  <2> QED
    BY <2>1, SumZero
<1> QED
  BY <1>2, <1>3

=============================================================================
